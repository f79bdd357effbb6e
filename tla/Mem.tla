-------------------------------- MODULE Mem --------------------------------
(***************************************************************************)
(* The heap (microkernel/OsMem.c), a two-level segregated fit allocator:   *)
(* free blocks are listed by size class, a bitmap for each first level and *)
(* one over those says which lists hold any. Every call works inside one   *)
(* critical section; what it does there is written as a function of the    *)
(* heap, in the order of the code.                                         *)
(*                                                                         *)
(* A block is named by the address of its header, counted from the start   *)
(* of the area; headers of blocks that were joined to another are dead.    *)
(***************************************************************************)
EXTENDS Integers, FiniteSets

CONSTANTS OS_HEAP_SIZE,
          Requests,        \* the sizes that are asked for
          MaxLive,         \* bound: the most blocks held at a time
          NULL

ASSUME HeapSizeAssumption ==
    OS_HEAP_SIZE \in Nat /\ 64 <= OS_HEAP_SIZE /\ OS_HEAP_SIZE < 2 ^ 16 /\ OS_HEAP_SIZE % 8 = 0
ASSUME RequestsAssumption == Requests \subseteq Nat /\ MaxLive \in Nat
ASSUME NullAssumption == NULL \notin 0..OS_HEAP_SIZE

\* The macros, for pointers of 4 bytes.
BLOCK_ALIGN == 8
MAX_FLI == IF OS_HEAP_SIZE <= 32768 THEN 15 ELSE 16
MAX_LOG2_SLI == 4
MAX_SLI == 2 ^ MAX_LOG2_SLI
FLI_OFFSET == 6
SMALL_BLOCK == 128
REAL_FLI == MAX_FLI - FLI_OFFSET
MIN_BLOCK_SIZE == 8
BHDR_OVERHEAD == 8
BHDR_SIZE == 16            \* sizeof(bhdr_t)
TLSF_SIZE == 20 + REAL_FLI * 4 + REAL_FLI * MAX_SLI * 4   \* sizeof(tlsf_t)
OS_MAX_SIZED_HEAP_BLOCK == 16 * 1024

ROUNDUP_SIZE(r) == ((r + BLOCK_ALIGN - 1) \div BLOCK_ALIGN) * BLOCK_ALIGN
ROUNDDOWN_SIZE(r) == r - (r % BLOCK_ALIGN)

FL == 0..REAL_FLI-1
SL == 0..MAX_SLI-1
Address == 0..OS_HEAP_SIZE-1

VARIABLES
    tlsf,                  \* the control structure, and the headers of the blocks
    live                   \* the blocks the callers hold: [addr, len]

memVars == <<tlsf, live>>
-----------------------------------------------------------------------------
(* Size classes                                                            *)

\* The lowest and the highest bit; 0 for no bit.
ls_bit(bits) == IF bits = {} THEN 0 ELSE CHOOSE i \in bits : \A j \in bits : i <= j
ms_bit(r) == IF r = 0 THEN 0 ELSE CHOOSE i \in 0..31 : 2 ^ i <= r /\ r < 2 ^ (i + 1)

\* MAPPING_INSERT: the class a block of this size is listed in.
Mapping(r) ==
    LET fl == ms_bit(r)
    IN  IF r < SMALL_BLOCK THEN <<0, r \div (SMALL_BLOCK \div MAX_SLI)>>
        ELSE <<fl - FLI_OFFSET, (r \div 2 ^ (fl - MAX_LOG2_SLI)) - MAX_SLI>>

\* Faulty: searched for as it is, in a class with smaller blocks.
RoundedNot(r) == r

\* MAPPING_SEARCH: the request rounded up to where a class begins, so that
\* every block of that class will do.
Rounded(r) ==
    LET step == 2 ^ (ms_bit(r) - MAX_LOG2_SLI)
    IN  IF r < SMALL_BLOCK THEN r ELSE ((r + step - 1) \div step) * step

\* Faulty: a class with blocks that are too small is looked at as well.
SuitableBelow(h, class) ==
    LET here == {sl \in h.sl_bitmap[class[1]] : sl + 1 >= class[2]}
        fl == ls_bit({f \in h.fl_bitmap : f > class[1]})
    IN  IF here # {} THEN <<class[1], ls_bit(here)>> ELSE <<fl, ls_bit(h.sl_bitmap[fl])>>

\* FIND_SUITABLE_BLOCK: the first class from this one upwards that has blocks.
\* First level 0 stands for none, unless the class was one of it.
Suitable(h, class) ==
    LET here == {sl \in h.sl_bitmap[class[1]] : sl >= class[2]}
        fl == ls_bit({f \in h.fl_bitmap : f > class[1]})
    IN  IF here # {} THEN <<class[1], ls_bit(here)>>
        ELSE IF fl > 0 THEN <<fl, ls_bit(h.sl_bitmap[fl])>> ELSE <<>>

FindSuitable(h, class) == LET found == Suitable(h, class)
                          IN  IF found = <<>> THEN NULL ELSE h.matrix[found]
-----------------------------------------------------------------------------
(* The lists of free blocks                                                *)

Next(h, b) == b + BHDR_OVERHEAD + h.block[b].size

\* Faulty: the bits of an empty class stay.
HeadKeepsBits(h, class, first) == [h EXCEPT !.matrix[class] = first]

\* The first of a class becomes this one; without one its bits go.
Head(h, class, first) ==
    LET left == h.sl_bitmap[class[1]] \ {class[2]}
    IN  IF first # NULL THEN [h EXCEPT !.matrix[class] = first]
        ELSE [h EXCEPT !.matrix[class] = NULL,
                       !.sl_bitmap[class[1]] = left,
                       !.fl_bitmap = IF left = {} THEN @ \ {class[1]} ELSE @]

Unlinked(h, b) == [h EXCEPT !.block[b].prev = NULL, !.block[b].next = NULL]

\* EXTRACT_BLOCK_HDR: the first of its class leaves the list.
ExtractHdr(h, b, class) ==
    LET next == h.block[b].next
        rest == Head(h, class, next)
    IN  Unlinked(IF next = NULL THEN rest ELSE [rest EXCEPT !.block[next].prev = NULL], b)

\* Faulty: the successor still points back to the block.
ExtractOneWay(h, b, class) ==
    LET next == h.block[b].next
        prev == h.block[b].prev
        on == IF prev = NULL THEN h ELSE [h EXCEPT !.block[prev].next = next]
    IN  Unlinked(IF on.matrix[class] = b THEN Head(on, class, next) ELSE on, b)

\* EXTRACT_BLOCK: a block leaves the list of its class wherever it stands.
Extract(h, b, class) ==
    LET next == h.block[b].next
        prev == h.block[b].prev
        back == IF next = NULL THEN h ELSE [h EXCEPT !.block[next].prev = prev]
        on == IF prev = NULL THEN back ELSE [back EXCEPT !.block[prev].next = next]
    IN  Unlinked(IF on.matrix[class] = b THEN Head(on, class, next) ELSE on, b)

\* INSERT_BLOCK: a block becomes the first of its class.
Insert(h, b) ==
    LET class == Mapping(h.block[b].size)
        next == h.matrix[class]
        back == IF next = NULL THEN h ELSE [h EXCEPT !.block[next].prev = b]
    IN  [back EXCEPT !.block[b].prev = NULL, !.block[b].next = next,
                     !.matrix[class] = b,
                     !.sl_bitmap[class[1]] = @ \cup {class[2]},
                     !.fl_bitmap = @ \cup {class[1]}]
-----------------------------------------------------------------------------
(* malloc_ex                                                               *)

\* Faulty: the rest is cut off without room for its own header.
SplitTight(h, b, size) ==
    LET b2 == b + BHDR_OVERHEAD + size
        rest == [prev_hdr |-> NULL, size |-> h.block[b].size - size, free |-> TRUE,
                 prevFree |-> FALSE, prev |-> NULL, next |-> NULL]
        cut == [h EXCEPT !.block = [a \in DOMAIN @ \cup {b2} |-> IF a = b2 THEN rest ELSE @[a]],
                         !.block[Next(h, b)].prev_hdr = b2,
                         !.block[b].size = size, !.block[b].free = FALSE]
    IN  Insert(cut, b2)

\* The block keeps this size, and what is left of it becomes a free block.
Split(h, b, size) ==
    LET b2 == b + BHDR_OVERHEAD + size
        rest == [prev_hdr |-> NULL, size |-> h.block[b].size - size - BHDR_OVERHEAD, free |-> TRUE,
                 prevFree |-> FALSE, prev |-> NULL, next |-> NULL]
        cut == [h EXCEPT !.block = [a \in DOMAIN @ \cup {b2} |-> IF a = b2 THEN rest ELSE @[a]],
                         !.block[Next(h, b)].prev_hdr = b2,
                         !.block[b].size = size, !.block[b].free = FALSE]
    IN  Insert(cut, b2)

\* Faulty: the block that follows is not told.
WholeQuiet(h, b) == [h EXCEPT !.block[b].free = FALSE]

\* The block is handed out whole.
Whole(h, b) == [h EXCEPT !.block[Next(h, b)].prevFree = FALSE, !.block[b].free = FALSE]

Used(h, b) == [h EXCEPT !.used_size = @ + h.block[b].size + BHDR_OVERHEAD]

\* A request beyond the largest block is cut to it, and then rounded up.
Cut(size) == IF size > OS_MAX_SIZED_HEAP_BLOCK THEN OS_MAX_SIZED_HEAP_BLOCK ELSE size

Wanted(size) == Rounded(IF Cut(size) < MIN_BLOCK_SIZE THEN MIN_BLOCK_SIZE
                        ELSE ROUNDUP_SIZE(Cut(size)))

\* uLipeMemAlloc, if it finds a block.
MemAlloc(size) ==
    LET want == Wanted(size)
        class == Mapping(want)
        b == FindSuitable(tlsf, class)
        h == ExtractHdr(tlsf, b, Suitable(tlsf, class))
        taken == IF h.block[b].size - want >= BHDR_SIZE THEN Split(h, b, want) ELSE Whole(h, b)
    IN  /\ b # NULL
        /\ Cardinality(live) < MaxLive
        /\ tlsf' = Used(taken, b)
        /\ live' = live \cup {[addr |-> b + BHDR_OVERHEAD, len |-> Cut(size)]}

\* It finds none and returns NULL.
MemAllocFails(size) ==
    /\ FindSuitable(tlsf, Mapping(Wanted(size))) = NULL
    /\ UNCHANGED memVars
-----------------------------------------------------------------------------
(* free_ex                                                                 *)

\* Block b takes in block c that follows it.
Join(h, b, c) ==
    LET size == h.block[b].size + h.block[c].size + BHDR_OVERHEAD
    IN  [h EXCEPT !.block = [a \in DOMAIN @ \ {c} |->
                                IF a = b THEN [@[a] EXCEPT !.size = size] ELSE @[a]]]

Out(h, b) == Extract(h, b, Mapping(h.block[b].size))

\* With the next block, if that is free; with the one before, if that is.
JoinNext(h, b) == LET c == Next(h, b)
                  IN  IF h.block[c].free THEN Join(Out(h, c), b, c) ELSE h
JoinPrev(h, b) == LET a == h.block[b].prev_hdr
                  IN  IF h.block[b].prevFree THEN Join(Out(h, a), a, b) ELSE h

\* The block is listed and the next one told where it begins.
Listed(h, b) == LET in == Insert(h, b)
                IN  [in EXCEPT !.block[Next(h, b)].prevFree = TRUE,
                               !.block[Next(h, b)].prev_hdr = b]

Freed(h, b) ==
    LET free == [h EXCEPT !.block[b].free = TRUE,
                          !.block[b].prev = NULL, !.block[b].next = NULL,
                          !.used_size = @ - h.block[b].size - BHDR_OVERHEAD]
        first == IF h.block[b].prevFree THEN h.block[b].prev_hdr ELSE b
    IN  Listed(JoinPrev(JoinNext(free, b), b), first)

\* uLipeMemFree of a block that is held.
MemFree(r) ==
    /\ r \in live
    /\ tlsf' = Freed(tlsf, r.addr - BHDR_OVERHEAD)
    /\ live' = live \ {r}
-----------------------------------------------------------------------------
(* uLipeMemInit: init_memory_pool and process_area                         *)

Area == 0                  \* the area's own block
First == BHDR_OVERHEAD + ROUNDUP_SIZE(8)
Space == OS_HEAP_SIZE - 3 * BHDR_OVERHEAD - ROUNDUP_SIZE(8)
Last == First + BHDR_OVERHEAD + Space

RawBlock(size) == [prev_hdr |-> NULL, size |-> size, free |-> FALSE, prevFree |-> FALSE,
                   prev |-> NULL, next |-> NULL]

Processed ==
    [block |-> [a \in {Area, First, Last} |->
                   CASE a = Area -> RawBlock(ROUNDUP_SIZE(8))
                     [] a = First -> RawBlock(Space)
                     [] a = Last -> [RawBlock(0) EXCEPT !.prevFree = TRUE, !.prev_hdr = First]],
     matrix |-> [class \in FL \X SL |-> NULL],
     sl_bitmap |-> [fl \in FL |-> {}],
     fl_bitmap |-> {},
     used_size |-> 0]

MemInit ==
    /\ tlsf = [Freed(Processed, First) EXCEPT !.used_size = OS_HEAP_SIZE + TLSF_SIZE - Space]
    /\ live = {}

MemNext == \/ \E size \in Requests : MemAlloc(size) \/ MemAllocFails(size)
           \/ \E r \in live : MemFree(r)

MemSpec == MemInit /\ [][MemNext]_memVars
-----------------------------------------------------------------------------
(* Properties                                                              *)

Blocks == DOMAIN tlsf.block
FreeBlocks == {b \in Blocks : tlsf.block[b].free}

MemTypeOK ==
    /\ DOMAIN tlsf.matrix = FL \X SL
    /\ tlsf.sl_bitmap \in [FL -> SUBSET SL]
    /\ tlsf.fl_bitmap \subseteq FL
    /\ Blocks \subseteq Address
    /\ \A b \in Blocks : tlsf.block[b] \in
           [prev_hdr : Blocks \cup {NULL}, size : 0..OS_HEAP_SIZE, free : BOOLEAN,
            prevFree : BOOLEAN, prev : Blocks \cup {NULL}, next : Blocks \cup {NULL}]

\* Splitting and joining keep the area tiled: every block but the last ends
\* where another begins, and none begins inside another.
BlocksTile ==
    /\ {Area, Last} \subseteq Blocks
    /\ \A b \in Blocks \ {Last} :
           /\ Next(tlsf, b) \in Blocks
           /\ \A c \in Blocks : c > b => c >= Next(tlsf, b)

\* What a block knows of the one before it is true, and two free blocks are
\* never left side by side: freeing joins to both sides.
NeighboursAgree ==
    \A b \in Blocks \ {Last} :
        LET after == tlsf.block[Next(tlsf, b)]
        IN  /\ after.prevFree <=> b \in FreeBlocks
            /\ b \in FreeBlocks => after.prev_hdr = b /\ ~after.free

\* Every free block is in the list of its class and in no other, the links of
\* the lists are each other's inverse, and the bitmaps name the lists that
\* hold a block.
ClassOf(b) == Mapping(tlsf.block[b].size)

FreeListsMatch ==
    /\ \A b \in FreeBlocks :
           LET prev == tlsf.block[b].prev
               next == tlsf.block[b].next
           IN  /\ tlsf.matrix[ClassOf(b)] # NULL
               /\ prev = NULL <=> tlsf.matrix[ClassOf(b)] = b
               /\ prev # NULL => /\ prev \in FreeBlocks /\ ClassOf(prev) = ClassOf(b)
                                 /\ tlsf.block[prev].next = b
               /\ next # NULL => next \in FreeBlocks /\ tlsf.block[next].prev = b
    /\ \A fl \in FL :
           LET heads == {sl \in SL : tlsf.matrix[<<fl, sl>>] # NULL}
           IN  /\ tlsf.sl_bitmap[fl] = heads
               /\ fl \in tlsf.fl_bitmap <=> heads # {}
               /\ \A sl \in heads : tlsf.matrix[<<fl, sl>>] \in FreeBlocks

\* A request finds a block exactly when some free block is as large as it is
\* rounded to, and the one it finds is.
RoomIsFound == \A size \in Requests :
    LET b == FindSuitable(tlsf, Mapping(Wanted(size)))
        fit == {c \in FreeBlocks : tlsf.block[c].size >= Wanted(size)}
    IN  IF fit = {} THEN b = NULL ELSE b \in fit

\* The blocks handed out lie inside the heap, are as large as was asked for,
\* and share no byte, whatever the order in which they are given back.
Alloc == INSTANCE Allocator WITH Low <- First, High <- Last, Align <- BLOCK_ALIGN
AllocatorSpec == Alloc!AllocatorSpec
=============================================================================
