----------------------------- MODULE MemProofs -----------------------------
(***************************************************************************)
(* Proofs about Mem, for every size of the heap the module allows, every   *)
(* set of requests and every number of blocks held at a time.              *)
(*                                                                         *)
(* The heap is looked at in three ways that are proved one after another:  *)
(* how the blocks tile the area, what neighbours know of each other, and   *)
(* the lists of free blocks. The steps of malloc_ex and free_ex are proved *)
(* one by one, each from what it leaves to the next.                       *)
(***************************************************************************)
EXTENDS Mem, HighestProofs

Dom(h) == DOMAIN h.block

\* The types of a heap, taken with addresses of headers that may be dead.
Pointer == Address \cup {NULL}

Header == [prev_hdr : Pointer, size : 0..OS_HEAP_SIZE, free : BOOLEAN,
           prevFree : BOOLEAN, prev : Pointer, next : Pointer]

Matrix == [FL \X SL -> Pointer]
Bitmaps == [FL -> SUBSET SL]

HeapType(h) ==
    /\ h = [block |-> h.block, matrix |-> h.matrix, sl_bitmap |-> h.sl_bitmap,
            fl_bitmap |-> h.fl_bitmap, used_size |-> h.used_size]
    /\ Dom(h) \subseteq Address
    /\ h.block \in [Dom(h) -> Header]
    /\ h.matrix \in Matrix
    /\ h.sl_bitmap \in Bitmaps
    /\ h.fl_bitmap \in SUBSET FL

\* The blocks tile the area from its own block to the last, which is empty.
Tile(h) ==
    /\ Area \in Dom(h) /\ Last \in Dom(h) /\ h.block[Last].size = 0
    /\ \A b \in Dom(h) : b <= Last /\ b % 8 = 0 /\ h.block[b].size % 8 = 0
    /\ \A b \in Dom(h) \ {Last} : h.block[b].size >= 8 /\ Next(h, b) \in Dom(h)
    /\ \A b, c \in Dom(h) : b # Last /\ c > b => c >= Next(h, b)

\* The header before x, in which x believes, is the one before it.
Behind(h, x) == /\ h.block[x].prev_hdr \in Dom(h) \ {Last}
                /\ Next(h, h.block[x].prev_hdr) = x

\* What neighbours know of each other.
Neigh(h) ==
    /\ ~ h.block[Area].free /\ ~ h.block[Area].prevFree /\ ~ h.block[Last].free
    /\ \A b \in Dom(h) \ {Last} :
           /\ h.block[Next(h, b)].prevFree <=> h.block[b].free
           /\ h.block[b].free => /\ h.block[Next(h, b)].prev_hdr = b
                                 /\ ~ h.block[Next(h, b)].free
    /\ \A x \in Dom(h) :
           /\ h.block[x].prev_hdr # NULL => Behind(h, x)
           /\ h.block[x].prevFree => h.block[x].prev_hdr # NULL
                                     /\ h.block[h.block[x].prev_hdr].free

\* The same while b is being freed: it is free, but its neighbours do not
\* know yet, and may be free as well.
NeighBut(h, b) ==
    /\ b \in Dom(h) \ {Area, Last} /\ h.block[b].free
    /\ ~ h.block[Area].free /\ ~ h.block[Area].prevFree /\ ~ h.block[Last].free
    /\ \A c \in Dom(h) \ {Last, b} :
           /\ h.block[Next(h, c)].prevFree <=> h.block[c].free
           /\ h.block[c].free => /\ h.block[Next(h, c)].prev_hdr = c
                                 /\ Next(h, c) # b => ~ h.block[Next(h, c)].free
    /\ \A x \in Dom(h) \ {Next(h, b)} :
           /\ h.block[x].prev_hdr # NULL => Behind(h, x)
           /\ h.block[x].prevFree => h.block[x].prev_hdr # NULL
                                     /\ h.block[h.block[x].prev_hdr].free

Class(h, b) == Mapping(h.block[b].size)

\* The lists hold exactly the blocks of F, each in the list of its class: the
\* links are each other's inverse, and what begins a list is in it.
Linked(h, F) == \A b \in F :
    LET prev == h.block[b].prev
        next == h.block[b].next
    IN  /\ h.matrix[Class(h, b)] # NULL
        /\ prev = NULL <=> h.matrix[Class(h, b)] = b
        /\ prev # NULL => prev \in F /\ Class(h, prev) = Class(h, b) /\ h.block[prev].next = b
        /\ next # NULL => next \in F /\ h.block[next].prev = b

Heads(h, F) == \A c \in FL \X SL :
    h.matrix[c] # NULL => h.matrix[c] \in F /\ Class(h, h.matrix[c]) = c

\* The bitmaps name the lists that hold a block.
Bits(h) ==
    /\ \A c \in FL \X SL : c[2] \in h.sl_bitmap[c[1]] <=> h.matrix[c] # NULL
    /\ \A fl \in FL : fl \in h.fl_bitmap <=> h.sl_bitmap[fl] # {}

Unlisted(h, F) == \A b \in Dom(h) \ F : h.block[b].prev = NULL /\ h.block[b].next = NULL

\* The links lead from the first block to each of the others: none of them is
\* on a cycle.
Ranked(h, F) == \E rank \in [F -> Nat] :
    \A b \in F : h.block[b].prev # NULL => rank[h.block[b].prev] < rank[b]

Lists(h, F) == /\ F \subseteq Dom(h) /\ Last \notin F
               /\ Linked(h, F) /\ Ranked(h, F) /\ Heads(h, F) /\ Bits(h) /\ Unlisted(h, F)

Free(h) == {b \in Dom(h) : h.block[b].free}

\* The blocks held are not free, large enough, and each of them is held once.
Held(h, L) ==
    /\ \A r \in L :
           /\ r = [addr |-> r.addr, len |-> r.len] /\ r.addr \in Nat /\ r.len \in Nat
           /\ r.addr - 8 \in Dom(h) \ {Area, Last}
           /\ ~ h.block[r.addr - 8].free /\ r.len <= h.block[r.addr - 8].size
    /\ \A r, s \in L : r.addr = s.addr => r = s

\* What holds of the heap h and the blocks L that are held, and the invariant.
Sound(h, L) == HeapType(h) /\ Tile(h) /\ Neigh(h) /\ Lists(h, Free(h)) /\ Held(h, L)

MInv == Sound(tlsf, live)
-----------------------------------------------------------------------------
(* Sizes and classes                                                       *)

\* The sizes of which i is the highest bit fall into 16 classes of p bytes.
Level(r, i, p) == /\ ms_bit(r) = i /\ 2 ^ (ms_bit(r) - MAX_LOG2_SLI) = p
                  /\ 16 * p <= r /\ r < 32 * p

Levels(r) == \/ Level(r, 7, 8) \/ Level(r, 8, 16) \/ Level(r, 9, 32) \/ Level(r, 10, 64)
             \/ Level(r, 11, 128) \/ Level(r, 12, 256) \/ Level(r, 13, 512)
             \/ Level(r, 14, 1024) \/ Level(r, 15, 2048)

\* The powers of two up to the largest heap.
LEMMA Powers ==
  /\ 2 ^ 0 = 1 /\ 2 ^ 1 = 2 /\ 2 ^ 2 = 4 /\ 2 ^ 3 = 8 /\ 2 ^ 4 = 16 /\ 2 ^ 5 = 32
  /\ 2 ^ 6 = 64 /\ 2 ^ 7 = 128 /\ 2 ^ 8 = 256 /\ 2 ^ 9 = 512 /\ 2 ^ 10 = 1024
  /\ 2 ^ 11 = 2048 /\ 2 ^ 12 = 4096 /\ 2 ^ 13 = 8192 /\ 2 ^ 14 = 16384
  /\ 2 ^ 15 = 32768 /\ 2 ^ 16 = 65536
OBVIOUS

\* The powers beyond.
LEMMA LargePowers == \A i \in 16..31 : 2 ^ i >= 2 ^ 16
<1> DEFINE P(i) == 2 ^ i >= 2 ^ 16
<1>1. /\ P(16) /\ P(17) /\ P(18) /\ P(19) /\ P(20) /\ P(21) /\ P(22) /\ P(23)
      /\ P(24) /\ P(25) /\ P(26) /\ P(27) /\ P(28) /\ P(29) /\ P(30) /\ P(31)
  BY SMT
<1> HIDE DEF P
<1>2. \A i \in 16..31 : P(i)
  BY <1>1, SMT
<1> QED  BY <1>2, Zenon DEF P

\* The powers below the first size that has a level.
LEMMA SmallPowers == \A i \in 0..6 : 2 ^ (i + 1) =< 128
<1> DEFINE P(i) == 2 ^ (i + 1) =< 128
<1>1. P(0) /\ P(1) /\ P(2) /\ P(3) /\ P(4) /\ P(5) /\ P(6)
  BY SMT
<1> HIDE DEF P
<1>2. \A i \in 0..6 : P(i)
  BY <1>1, SMT
<1> QED  BY <1>2, Zenon DEF P

\* ms_bit finds the level of every size from the first one that has one on.
LEMMA SizeHasLevel ==
  ASSUME NEW r \in Nat, 128 <= r, r < 2 ^ 16
  PROVE  Levels(r)
<1> DEFINE P(i) == 2 ^ i <= r /\ r < 2 ^ (i + 1)
<1>1. \E i \in 0..31 : P(i)
  <2>1. P(7) \/ P(8) \/ P(9) \/ P(10) \/ P(11) \/ P(12) \/ P(13) \/ P(14) \/ P(15)
    BY Powers
  <2> HIDE DEF P
  <2> QED  BY <2>1
<1>2. ms_bit(r) \in 0..31 /\ P(ms_bit(r))
  <2>1. ms_bit(r) = CHOOSE i \in 0..31 : P(i)
    BY DEF ms_bit
  <2> HIDE DEF P
  <2> QED  BY <1>1, <2>1
<1>3. PICK m \in 0..31 : m = ms_bit(r) /\ 2 ^ m <= r /\ r < 2 ^ (m + 1)
  BY <1>2
<1>4. m < 16
  <2> SUFFICES ASSUME m >= 16 PROVE FALSE
    OBVIOUS
  <2>1. m \in 16..31 /\ \A i \in 16..31 : 2 ^ i \in Int
    OBVIOUS
  <2>2. 2 ^ m >= 2 ^ 16 /\ 2 ^ m \in Int
    BY <2>1, LargePowers
  <2> QED  BY <1>3, <2>2
<1>5. m > 6
  <2> SUFFICES ASSUME m <= 6 PROVE FALSE
    OBVIOUS
  <2>1. m \in 0..6 /\ 2 ^ (m + 1) \in Int
    OBVIOUS
  <2>2. 2 ^ (m + 1) =< 128
    BY <2>1, SmallPowers
  <2> QED  BY <1>3, <2>1, <2>2
<1>6. \/ m = 7 \/ m = 8 \/ m = 9 \/ m = 10 \/ m = 11 \/ m = 12 \/ m = 13 \/ m = 14 \/ m = 15
  BY <1>4, <1>5
<1>7. CASE m = 7
  <2>1. 2 ^ (m - 4) = 8
    BY <1>7, Powers
  <2>2. 128 <= r /\ r < 256
    BY <1>3, <1>7, Powers
  <2>3. Level(r, 7, 8)
    BY <1>3, <1>7, <2>1, <2>2 DEF Level, MAX_LOG2_SLI
  <2> QED  BY <2>3 DEF Levels
<1>8. CASE m = 8
  <2>1. 2 ^ (m - 4) = 16
    BY <1>8, Powers
  <2>2. 256 <= r /\ r < 512
    BY <1>3, <1>8, Powers
  <2>3. Level(r, 8, 16)
    BY <1>3, <1>8, <2>1, <2>2 DEF Level, MAX_LOG2_SLI
  <2> QED  BY <2>3 DEF Levels
<1>9. CASE m = 9
  <2>1. 2 ^ (m - 4) = 32
    BY <1>9, Powers
  <2>2. 512 <= r /\ r < 1024
    BY <1>3, <1>9, Powers
  <2>3. Level(r, 9, 32)
    BY <1>3, <1>9, <2>1, <2>2 DEF Level, MAX_LOG2_SLI
  <2> QED  BY <2>3 DEF Levels
<1>10. CASE m = 10
  <2>1. 2 ^ (m - 4) = 64
    BY <1>10, Powers
  <2>2. 1024 <= r /\ r < 2048
    BY <1>3, <1>10, Powers
  <2>3. Level(r, 10, 64)
    BY <1>3, <1>10, <2>1, <2>2 DEF Level, MAX_LOG2_SLI
  <2> QED  BY <2>3 DEF Levels
<1>11. CASE m = 11
  <2>1. 2 ^ (m - 4) = 128
    BY <1>11, Powers
  <2>2. 2048 <= r /\ r < 4096
    BY <1>3, <1>11, Powers
  <2>3. Level(r, 11, 128)
    BY <1>3, <1>11, <2>1, <2>2 DEF Level, MAX_LOG2_SLI
  <2> QED  BY <2>3 DEF Levels
<1>12. CASE m = 12
  <2>1. 2 ^ (m - 4) = 256
    BY <1>12, Powers
  <2>2. 4096 <= r /\ r < 8192
    BY <1>3, <1>12, Powers
  <2>3. Level(r, 12, 256)
    BY <1>3, <1>12, <2>1, <2>2 DEF Level, MAX_LOG2_SLI
  <2> QED  BY <2>3 DEF Levels
<1>13. CASE m = 13
  <2>1. 2 ^ (m - 4) = 512
    BY <1>13, Powers
  <2>2. 8192 <= r /\ r < 16384
    BY <1>3, <1>13, Powers
  <2>3. Level(r, 13, 512)
    BY <1>3, <1>13, <2>1, <2>2 DEF Level, MAX_LOG2_SLI
  <2> QED  BY <2>3 DEF Levels
<1>14. CASE m = 14
  <2>1. 2 ^ (m - 4) = 1024
    BY <1>14, Powers
  <2>2. 16384 <= r /\ r < 32768
    BY <1>3, <1>14, Powers
  <2>3. Level(r, 14, 1024)
    BY <1>3, <1>14, <2>1, <2>2 DEF Level, MAX_LOG2_SLI
  <2> QED  BY <2>3 DEF Levels
<1>15. CASE m = 15
  <2>1. 2 ^ (m - 4) = 2048
    BY <1>15, Powers
  <2>2. 32768 <= r /\ r < 2 ^ 16
    BY <1>3, <1>15, Powers
  <2>3. Level(r, 15, 2048)
    BY <1>3, <1>15, <2>1, <2>2 DEF Level, MAX_LOG2_SLI
  <2> QED  BY <2>3 DEF Levels
<1> QED  BY <1>6, <1>7, <1>8, <1>9, <1>10, <1>11, <1>12, <1>13, <1>14, <1>15

\* Where class sl of a first level begins, and the sizes it is for.
LevelStart(fl, sl) ==
    CASE fl = 0 -> 8 * sl
      [] fl = 1 -> 8 * (16 + sl)
      [] fl = 2 -> 16 * (16 + sl)
      [] fl = 3 -> 32 * (16 + sl)
      [] fl = 4 -> 64 * (16 + sl)
      [] fl = 5 -> 128 * (16 + sl)
      [] fl = 6 -> 256 * (16 + sl)
      [] fl = 7 -> 512 * (16 + sl)
      [] fl = 8 -> 1024 * (16 + sl)
      [] fl = 9 -> 2048 * (16 + sl)

Sits(r, fl, sl, p) == Mapping(r) = <<fl, sl>> /\ LevelStart(fl, sl) <= r
                      /\ r < LevelStart(fl, sl) + p

\* A size lies in the class it is mapped to.
LEMMA SizeInClass ==
  ASSUME NEW r \in Nat, r < 2 ^ 16
  PROVE  \E sl \in 0..15 :
            \/ Sits(r, 0, sl, 8) \/ Sits(r, 1, sl, 8) \/ Sits(r, 2, sl, 16) \/ Sits(r, 3, sl, 32)
            \/ Sits(r, 4, sl, 64) \/ Sits(r, 5, sl, 128) \/ Sits(r, 6, sl, 256)
            \/ Sits(r, 7, sl, 512) \/ Sits(r, 8, sl, 1024) \/ Sits(r, 9, sl, 2048)
<1>1. CASE r < 128
  <2>1. Mapping(r) = <<0, r \div 8>>
    <3>1. 128 \div MAX_SLI = 8
      BY Powers, SMT DEF MAX_SLI, MAX_LOG2_SLI
    <3> QED  BY <1>1, <3>1, SMT DEF Mapping, SMALL_BLOCK
  <2>2. PICK sl \in 0..15 : sl = r \div 8 /\ 8 * sl <= r /\ r < 8 * sl + 8
    BY <1>1, SMT
  <2>3. Sits(r, 0, sl, 8)
    BY <2>1, <2>2, SMT DEF Sits, LevelStart
  <2> QED  BY <2>3, SMT
<1>2. CASE r >= 128
  <2>1. Levels(r)
    BY <1>2, SizeHasLevel
  <2>2. Mapping(r) = <<ms_bit(r) - 6, (r \div 2 ^ (ms_bit(r) - MAX_LOG2_SLI)) - 16>>
    <3>1. MAX_SLI = 16
      BY Powers, SMT DEF MAX_SLI, MAX_LOG2_SLI
    <3>2. ~ (r < SMALL_BLOCK)
      BY <1>2, SMT DEF SMALL_BLOCK
    <3> QED  BY <3>1, <3>2, Zenon DEF Mapping, FLI_OFFSET
  <2>3. CASE Level(r, 7, 8)
    <3>1. Mapping(r) = <<1, (r \div 8) - 16>> /\ 128 <= r /\ r < 256
      BY <2>2, <2>3, SMT DEF Level
    <3>2. PICK sl \in 0..15 : /\ sl = (r \div 8) - 16
                             /\ 8 * (16 + sl) <= r /\ r < 8 * (16 + sl) + 8
      BY <3>1, SMT
    <3>3. Sits(r, 1, sl, 8)
      BY <3>1, <3>2, SMT DEF Sits, LevelStart
    <3> QED  BY <3>3, SMT
  <2>4. CASE Level(r, 8, 16)
    <3>1. Mapping(r) = <<2, (r \div 16) - 16>> /\ 256 <= r /\ r < 512
      BY <2>2, <2>4, SMT DEF Level
    <3>2. PICK sl \in 0..15 : /\ sl = (r \div 16) - 16
                             /\ 16 * (16 + sl) <= r /\ r < 16 * (16 + sl) + 16
      BY <3>1, SMT
    <3>3. Sits(r, 2, sl, 16)
      BY <3>1, <3>2, SMT DEF Sits, LevelStart
    <3> QED  BY <3>3, SMT
  <2>5. CASE Level(r, 9, 32)
    <3>1. Mapping(r) = <<3, (r \div 32) - 16>> /\ 512 <= r /\ r < 1024
      BY <2>2, <2>5, SMT DEF Level
    <3>2. PICK sl \in 0..15 : /\ sl = (r \div 32) - 16
                             /\ 32 * (16 + sl) <= r /\ r < 32 * (16 + sl) + 32
      BY <3>1, SMT
    <3>3. Sits(r, 3, sl, 32)
      BY <3>1, <3>2, SMT DEF Sits, LevelStart
    <3> QED  BY <3>3, SMT
  <2>6. CASE Level(r, 10, 64)
    <3>1. Mapping(r) = <<4, (r \div 64) - 16>> /\ 1024 <= r /\ r < 2048
      BY <2>2, <2>6, SMT DEF Level
    <3>2. PICK sl \in 0..15 : /\ sl = (r \div 64) - 16
                             /\ 64 * (16 + sl) <= r /\ r < 64 * (16 + sl) + 64
      BY <3>1, SMT
    <3>3. Sits(r, 4, sl, 64)
      BY <3>1, <3>2, SMT DEF Sits, LevelStart
    <3> QED  BY <3>3, SMT
  <2>7. CASE Level(r, 11, 128)
    <3>1. Mapping(r) = <<5, (r \div 128) - 16>> /\ 2048 <= r /\ r < 4096
      BY <2>2, <2>7, SMT DEF Level
    <3>2. PICK sl \in 0..15 : /\ sl = (r \div 128) - 16
                             /\ 128 * (16 + sl) <= r /\ r < 128 * (16 + sl) + 128
      BY <3>1, SMT
    <3>3. Sits(r, 5, sl, 128)
      BY <3>1, <3>2, SMT DEF Sits, LevelStart
    <3> QED  BY <3>3, SMT
  <2>8. CASE Level(r, 12, 256)
    <3>1. Mapping(r) = <<6, (r \div 256) - 16>> /\ 4096 <= r /\ r < 8192
      BY <2>2, <2>8, SMT DEF Level
    <3>2. PICK sl \in 0..15 : /\ sl = (r \div 256) - 16
                             /\ 256 * (16 + sl) <= r /\ r < 256 * (16 + sl) + 256
      BY <3>1, SMT
    <3>3. Sits(r, 6, sl, 256)
      BY <3>1, <3>2, SMT DEF Sits, LevelStart
    <3> QED  BY <3>3, SMT
  <2>9. CASE Level(r, 13, 512)
    <3>1. Mapping(r) = <<7, (r \div 512) - 16>> /\ 8192 <= r /\ r < 16384
      BY <2>2, <2>9, SMT DEF Level
    <3>2. PICK sl \in 0..15 : /\ sl = (r \div 512) - 16
                             /\ 512 * (16 + sl) <= r /\ r < 512 * (16 + sl) + 512
      BY <3>1, SMT
    <3>3. Sits(r, 7, sl, 512)
      BY <3>1, <3>2, SMT DEF Sits, LevelStart
    <3> QED  BY <3>3, SMT
  <2>10. CASE Level(r, 14, 1024)
    <3>1. Mapping(r) = <<8, (r \div 1024) - 16>> /\ 16384 <= r /\ r < 32768
      BY <2>2, <2>10, SMT DEF Level
    <3>2. PICK sl \in 0..15 : /\ sl = (r \div 1024) - 16
                             /\ 1024 * (16 + sl) <= r /\ r < 1024 * (16 + sl) + 1024
      BY <3>1, SMT
    <3>3. Sits(r, 8, sl, 1024)
      BY <3>1, <3>2, SMT DEF Sits, LevelStart
    <3> QED  BY <3>3, SMT
  <2>11. CASE Level(r, 15, 2048)
    <3>1. Mapping(r) = <<9, (r \div 2048) - 16>> /\ 32768 <= r /\ r < 65536
      BY <2>2, <2>11, SMT DEF Level
    <3>2. PICK sl \in 0..15 : /\ sl = (r \div 2048) - 16
                             /\ 2048 * (16 + sl) <= r /\ r < 2048 * (16 + sl) + 2048
      BY <3>1, SMT
    <3>3. Sits(r, 9, sl, 2048)
      BY <3>1, <3>2, SMT DEF Sits, LevelStart
    <3> QED  BY <3>3, SMT
  <2> QED  BY <2>1, <2>3, <2>4, <2>5, <2>6, <2>7, <2>8, <2>9, <2>10, <2>11, SMT DEF Levels
<1> QED  BY <1>1, <1>2, SMT

\* The class c comes at or after the class d.
AtLeast(c, d) == c[1] > d[1] \/ (c[1] = d[1] /\ c[2] >= d[2])

\* A class begins with this size.
Begins(r) == \E fl \in 0..9, sl \in 0..15 : Mapping(r) = <<fl, sl>> /\ r = LevelStart(fl, sl)

\* Sizes and classes have the same order, if compared to where a class begins.
LEMMA ClassFits ==
  ASSUME NEW r \in Nat, r < 2 ^ 16, NEW want \in Nat, Begins(want)
  PROVE  r >= want <=> AtLeast(Mapping(r), Mapping(want))
<1>1. PICK fl \in 0..9, sl \in 0..15 : Mapping(want) = <<fl, sl>> /\ want = LevelStart(fl, sl)
  BY SMT DEF Begins
<1>2. PICK s \in 0..15 :
         \/ Sits(r, 0, s, 8) \/ Sits(r, 1, s, 8) \/ Sits(r, 2, s, 16) \/ Sits(r, 3, s, 32)
         \/ Sits(r, 4, s, 64) \/ Sits(r, 5, s, 128) \/ Sits(r, 6, s, 256)
         \/ Sits(r, 7, s, 512) \/ Sits(r, 8, s, 1024) \/ Sits(r, 9, s, 2048)
  BY SizeInClass, SMT
<1>3. CASE Sits(r, 0, s, 8)
  BY <1>1, <1>3, SMT DEF Sits, LevelStart, AtLeast
<1>4. CASE Sits(r, 1, s, 8)
  BY <1>1, <1>4, SMT DEF Sits, LevelStart, AtLeast
<1>5. CASE Sits(r, 2, s, 16)
  BY <1>1, <1>5, SMT DEF Sits, LevelStart, AtLeast
<1>6. CASE Sits(r, 3, s, 32)
  BY <1>1, <1>6, SMT DEF Sits, LevelStart, AtLeast
<1>7. CASE Sits(r, 4, s, 64)
  BY <1>1, <1>7, SMT DEF Sits, LevelStart, AtLeast
<1>8. CASE Sits(r, 5, s, 128)
  BY <1>1, <1>8, SMT DEF Sits, LevelStart, AtLeast
<1>9. CASE Sits(r, 6, s, 256)
  BY <1>1, <1>9, SMT DEF Sits, LevelStart, AtLeast
<1>10. CASE Sits(r, 7, s, 512)
  BY <1>1, <1>10, SMT DEF Sits, LevelStart, AtLeast
<1>11. CASE Sits(r, 8, s, 1024)
  BY <1>1, <1>11, SMT DEF Sits, LevelStart, AtLeast
<1>12. CASE Sits(r, 9, s, 2048)
  BY <1>1, <1>12, SMT DEF Sits, LevelStart, AtLeast
<1> QED  BY <1>2, <1>3, <1>4, <1>5, <1>6, <1>7, <1>8, <1>9, <1>10, <1>11, <1>12, SMT

\* Rounding up gives the beginning of a class.
LEMMA RoundedBegins ==
  ASSUME NEW r \in Nat, 8 <= r, r <= 2 ^ 14, r % 8 = 0
  PROVE  /\ Rounded(r) \in Nat /\ Rounded(r) >= r /\ Rounded(r) <= 2 ^ 14
         /\ Rounded(r) % 8 = 0 /\ Begins(Rounded(r))
<1>1. CASE r < 128
  <2>1. Rounded(r) = r
    BY <1>1, SMT DEF Rounded, SMALL_BLOCK
  <2>2. Begins(r)
    <3>1. PICK sl \in 0..15 : Sits(r, 0, sl, 8)
      BY <1>1, SizeInClass, SMT DEF Sits, LevelStart
    <3>2. Mapping(r) = <<0, sl>> /\ r = LevelStart(0, sl)
      BY <3>1, SMT DEF Sits, LevelStart
    <3> QED  BY <3>2, SMT DEF Begins
  <2> QED  BY <2>1, <2>2, SMT
<1>2. CASE r >= 128
  <2> DEFINE p == 2 ^ (ms_bit(r) - MAX_LOG2_SLI)
             w == ((r + p - 1) \div p) * p
  <2>1. Rounded(r) = w
    BY <1>2, SMT DEF Rounded, SMALL_BLOCK
  <2>2. Levels(r)
    BY <1>2, SizeHasLevel, SMT
  <2> HIDE DEF p
  <2>3. w \in Nat /\ w >= r /\ w <= 2 ^ 14 /\ w % 8 = 0 /\ Begins(w)
    <3>1. CASE Level(r, 7, 8)
      <4>1. p = 8 /\ 128 <= r /\ r < 256
        BY <3>1, SMT DEF Level, p
      <4>2. w \in Nat /\ w >= r /\ w <= 2 ^ 14 /\ w % 8 = 0 /\ w <= 256 /\ w % 8 = 0
        BY <4>1, SMT
      <4> HIDE DEF w
      <4>3. PICK sl \in 0..15 : Sits(w, 1, sl, 8) \/ Sits(w, 2, sl, 16)
        BY <4>1, <4>2, SizeInClass, SMT DEF Sits, LevelStart
      <4>4. CASE Sits(w, 1, sl, 8)
        <5>1. Mapping(w) = <<1, sl>> /\ LevelStart(1, sl) = 8 * (16 + sl)
          BY <4>4, SMT DEF Sits, LevelStart
        <5>2. 8 * (16 + sl) <= w /\ w < 8 * (16 + sl) + 8
          BY <4>4, <5>1, SMT DEF Sits
        <5>3. w = 8 * (16 + sl)
          BY <4>2, <5>2, SMT
        <5> QED  BY <4>2, <5>1, <5>3, SMT DEF Begins
      <4>5. CASE Sits(w, 2, sl, 16)
        <5>1. Mapping(w) = <<2, sl>> /\ LevelStart(2, sl) = 16 * (16 + sl)
          BY <4>5, SMT DEF Sits, LevelStart
        <5>2. 16 * (16 + sl) <= w /\ w < 16 * (16 + sl) + 16
          BY <4>5, <5>1, SMT DEF Sits
        <5>3. w = 16 * (16 + sl)
          BY <4>2, <5>2, SMT
        <5> QED  BY <4>2, <5>1, <5>3, SMT DEF Begins
      <4> QED  BY <4>3, <4>4, <4>5, SMT
    <3>2. CASE Level(r, 8, 16)
      <4>1. p = 16 /\ 256 <= r /\ r < 512
        BY <3>2, SMT DEF Level, p
      <4>2. w \in Nat /\ w >= r /\ w <= 2 ^ 14 /\ w % 8 = 0 /\ w <= 512 /\ w % 16 = 0
        BY <4>1, SMT
      <4> HIDE DEF w
      <4>3. PICK sl \in 0..15 : Sits(w, 2, sl, 16) \/ Sits(w, 3, sl, 32)
        BY <4>1, <4>2, SizeInClass, SMT DEF Sits, LevelStart
      <4>4. CASE Sits(w, 2, sl, 16)
        <5>1. Mapping(w) = <<2, sl>> /\ LevelStart(2, sl) = 16 * (16 + sl)
          BY <4>4, SMT DEF Sits, LevelStart
        <5>2. 16 * (16 + sl) <= w /\ w < 16 * (16 + sl) + 16
          BY <4>4, <5>1, SMT DEF Sits
        <5>3. w = 16 * (16 + sl)
          BY <4>2, <5>2, SMT
        <5> QED  BY <4>2, <5>1, <5>3, SMT DEF Begins
      <4>5. CASE Sits(w, 3, sl, 32)
        <5>1. Mapping(w) = <<3, sl>> /\ LevelStart(3, sl) = 32 * (16 + sl)
          BY <4>5, SMT DEF Sits, LevelStart
        <5>2. 32 * (16 + sl) <= w /\ w < 32 * (16 + sl) + 32
          BY <4>5, <5>1, SMT DEF Sits
        <5>3. w = 32 * (16 + sl)
          BY <4>2, <5>2, SMT
        <5> QED  BY <4>2, <5>1, <5>3, SMT DEF Begins
      <4> QED  BY <4>3, <4>4, <4>5, SMT
    <3>3. CASE Level(r, 9, 32)
      <4>1. p = 32 /\ 512 <= r /\ r < 1024
        BY <3>3, SMT DEF Level, p
      <4>2. w \in Nat /\ w >= r /\ w <= 2 ^ 14 /\ w % 8 = 0 /\ w <= 1024 /\ w % 32 = 0
        BY <4>1, SMT
      <4> HIDE DEF w
      <4>3. PICK sl \in 0..15 : Sits(w, 3, sl, 32) \/ Sits(w, 4, sl, 64)
        BY <4>1, <4>2, SizeInClass, SMT DEF Sits, LevelStart
      <4>4. CASE Sits(w, 3, sl, 32)
        <5>1. Mapping(w) = <<3, sl>> /\ LevelStart(3, sl) = 32 * (16 + sl)
          BY <4>4, SMT DEF Sits, LevelStart
        <5>2. 32 * (16 + sl) <= w /\ w < 32 * (16 + sl) + 32
          BY <4>4, <5>1, SMT DEF Sits
        <5>3. w = 32 * (16 + sl)
          BY <4>2, <5>2, SMT
        <5> QED  BY <4>2, <5>1, <5>3, SMT DEF Begins
      <4>5. CASE Sits(w, 4, sl, 64)
        <5>1. Mapping(w) = <<4, sl>> /\ LevelStart(4, sl) = 64 * (16 + sl)
          BY <4>5, SMT DEF Sits, LevelStart
        <5>2. 64 * (16 + sl) <= w /\ w < 64 * (16 + sl) + 64
          BY <4>5, <5>1, SMT DEF Sits
        <5>3. w = 64 * (16 + sl)
          BY <4>2, <5>2, SMT
        <5> QED  BY <4>2, <5>1, <5>3, SMT DEF Begins
      <4> QED  BY <4>3, <4>4, <4>5, SMT
    <3>4. CASE Level(r, 10, 64)
      <4>1. p = 64 /\ 1024 <= r /\ r < 2048
        BY <3>4, SMT DEF Level, p
      <4>2. w \in Nat /\ w >= r /\ w <= 2 ^ 14 /\ w % 8 = 0 /\ w <= 2048 /\ w % 64 = 0
        BY <4>1, SMT
      <4> HIDE DEF w
      <4>3. PICK sl \in 0..15 : Sits(w, 4, sl, 64) \/ Sits(w, 5, sl, 128)
        BY <4>1, <4>2, SizeInClass, SMT DEF Sits, LevelStart
      <4>4. CASE Sits(w, 4, sl, 64)
        <5>1. Mapping(w) = <<4, sl>> /\ LevelStart(4, sl) = 64 * (16 + sl)
          BY <4>4, SMT DEF Sits, LevelStart
        <5>2. 64 * (16 + sl) <= w /\ w < 64 * (16 + sl) + 64
          BY <4>4, <5>1, SMT DEF Sits
        <5>3. w = 64 * (16 + sl)
          BY <4>2, <5>2, SMT
        <5> QED  BY <4>2, <5>1, <5>3, SMT DEF Begins
      <4>5. CASE Sits(w, 5, sl, 128)
        <5>1. Mapping(w) = <<5, sl>> /\ LevelStart(5, sl) = 128 * (16 + sl)
          BY <4>5, SMT DEF Sits, LevelStart
        <5>2. 128 * (16 + sl) <= w /\ w < 128 * (16 + sl) + 128
          BY <4>5, <5>1, SMT DEF Sits
        <5>3. w = 128 * (16 + sl)
          BY <4>2, <5>2, SMT
        <5> QED  BY <4>2, <5>1, <5>3, SMT DEF Begins
      <4> QED  BY <4>3, <4>4, <4>5, SMT
    <3>5. CASE Level(r, 11, 128)
      <4>1. p = 128 /\ 2048 <= r /\ r < 4096
        BY <3>5, SMT DEF Level, p
      <4>2. w \in Nat /\ w >= r /\ w <= 2 ^ 14 /\ w % 8 = 0 /\ w <= 4096 /\ w % 128 = 0
        BY <4>1, SMT
      <4> HIDE DEF w
      <4>3. PICK sl \in 0..15 : Sits(w, 5, sl, 128) \/ Sits(w, 6, sl, 256)
        BY <4>1, <4>2, SizeInClass, SMT DEF Sits, LevelStart
      <4>4. CASE Sits(w, 5, sl, 128)
        <5>1. Mapping(w) = <<5, sl>> /\ LevelStart(5, sl) = 128 * (16 + sl)
          BY <4>4, SMT DEF Sits, LevelStart
        <5>2. 128 * (16 + sl) <= w /\ w < 128 * (16 + sl) + 128
          BY <4>4, <5>1, SMT DEF Sits
        <5>3. w = 128 * (16 + sl)
          BY <4>2, <5>2, SMT
        <5> QED  BY <4>2, <5>1, <5>3, SMT DEF Begins
      <4>5. CASE Sits(w, 6, sl, 256)
        <5>1. Mapping(w) = <<6, sl>> /\ LevelStart(6, sl) = 256 * (16 + sl)
          BY <4>5, SMT DEF Sits, LevelStart
        <5>2. 256 * (16 + sl) <= w /\ w < 256 * (16 + sl) + 256
          BY <4>5, <5>1, SMT DEF Sits
        <5>3. w = 256 * (16 + sl)
          BY <4>2, <5>2, SMT
        <5> QED  BY <4>2, <5>1, <5>3, SMT DEF Begins
      <4> QED  BY <4>3, <4>4, <4>5, SMT
    <3>6. CASE Level(r, 12, 256)
      <4>1. p = 256 /\ 4096 <= r /\ r < 8192
        BY <3>6, SMT DEF Level, p
      <4>2. w \in Nat /\ w >= r /\ w <= 2 ^ 14 /\ w % 8 = 0 /\ w <= 8192 /\ w % 256 = 0
        BY <4>1, SMT
      <4> HIDE DEF w
      <4>3. PICK sl \in 0..15 : Sits(w, 6, sl, 256) \/ Sits(w, 7, sl, 512)
        BY <4>1, <4>2, SizeInClass, SMT DEF Sits, LevelStart
      <4>4. CASE Sits(w, 6, sl, 256)
        <5>1. Mapping(w) = <<6, sl>> /\ LevelStart(6, sl) = 256 * (16 + sl)
          BY <4>4, SMT DEF Sits, LevelStart
        <5>2. 256 * (16 + sl) <= w /\ w < 256 * (16 + sl) + 256
          BY <4>4, <5>1, SMT DEF Sits
        <5>3. w = 256 * (16 + sl)
          BY <4>2, <5>2, SMT
        <5> QED  BY <4>2, <5>1, <5>3, SMT DEF Begins
      <4>5. CASE Sits(w, 7, sl, 512)
        <5>1. Mapping(w) = <<7, sl>> /\ LevelStart(7, sl) = 512 * (16 + sl)
          BY <4>5, SMT DEF Sits, LevelStart
        <5>2. 512 * (16 + sl) <= w /\ w < 512 * (16 + sl) + 512
          BY <4>5, <5>1, SMT DEF Sits
        <5>3. w = 512 * (16 + sl)
          BY <4>2, <5>2, SMT
        <5> QED  BY <4>2, <5>1, <5>3, SMT DEF Begins
      <4> QED  BY <4>3, <4>4, <4>5, SMT
    <3>7. CASE Level(r, 13, 512)
      <4>1. p = 512 /\ 8192 <= r /\ r < 16384
        BY <3>7, SMT DEF Level, p
      <4>2. w \in Nat /\ w >= r /\ w <= 2 ^ 14 /\ w % 8 = 0 /\ w <= 16384 /\ w % 512 = 0
        BY <4>1, SMT
      <4> HIDE DEF w
      <4>3. PICK sl \in 0..15 : Sits(w, 7, sl, 512) \/ Sits(w, 8, sl, 1024)
        BY <4>1, <4>2, SizeInClass, SMT DEF Sits, LevelStart
      <4>4. CASE Sits(w, 7, sl, 512)
        <5>1. Mapping(w) = <<7, sl>> /\ LevelStart(7, sl) = 512 * (16 + sl)
          BY <4>4, SMT DEF Sits, LevelStart
        <5>2. 512 * (16 + sl) <= w /\ w < 512 * (16 + sl) + 512
          BY <4>4, <5>1, SMT DEF Sits
        <5>3. w = 512 * (16 + sl)
          BY <4>2, <5>2, SMT
        <5> QED  BY <4>2, <5>1, <5>3, SMT DEF Begins
      <4>5. CASE Sits(w, 8, sl, 1024)
        <5>1. Mapping(w) = <<8, sl>> /\ LevelStart(8, sl) = 1024 * (16 + sl)
          BY <4>5, SMT DEF Sits, LevelStart
        <5>2. 1024 * (16 + sl) <= w /\ w < 1024 * (16 + sl) + 1024
          BY <4>5, <5>1, SMT DEF Sits
        <5>3. w = 1024 * (16 + sl)
          BY <4>2, <5>2, SMT
        <5> QED  BY <4>2, <5>1, <5>3, SMT DEF Begins
      <4> QED  BY <4>3, <4>4, <4>5, SMT
    <3>8. CASE Level(r, 14, 1024)
      <4>1. p = 1024 /\ 16384 <= r /\ r < 32768
        BY <3>8, SMT DEF Level, p
      <4>2. w \in Nat /\ w >= r /\ w <= 2 ^ 14 /\ w % 8 = 0 /\ w <= 32768 /\ w % 1024 = 0
        BY <4>1, SMT
      <4> HIDE DEF w
      <4>3. PICK sl \in 0..15 : Sits(w, 8, sl, 1024) \/ Sits(w, 9, sl, 2048)
        BY <4>1, <4>2, SizeInClass, SMT DEF Sits, LevelStart
      <4>4. CASE Sits(w, 8, sl, 1024)
        <5>1. Mapping(w) = <<8, sl>> /\ LevelStart(8, sl) = 1024 * (16 + sl)
          BY <4>4, SMT DEF Sits, LevelStart
        <5>2. 1024 * (16 + sl) <= w /\ w < 1024 * (16 + sl) + 1024
          BY <4>4, <5>1, SMT DEF Sits
        <5>3. w = 1024 * (16 + sl)
          BY <4>2, <5>2, SMT
        <5> QED  BY <4>2, <5>1, <5>3, SMT DEF Begins
      <4>5. CASE Sits(w, 9, sl, 2048)
        <5>1. Mapping(w) = <<9, sl>> /\ LevelStart(9, sl) = 2048 * (16 + sl)
          BY <4>5, SMT DEF Sits, LevelStart
        <5>2. 2048 * (16 + sl) <= w /\ w < 2048 * (16 + sl) + 2048
          BY <4>5, <5>1, SMT DEF Sits
        <5>3. w = 2048 * (16 + sl)
          BY <4>2, <5>2, SMT
        <5> QED  BY <4>2, <5>1, <5>3, SMT DEF Begins
      <4> QED  BY <4>3, <4>4, <4>5, SMT
    <3>9. ~ Level(r, 15, 2048)
      BY SMT DEF Level
    <3> QED  BY <2>2, <3>1, <3>2, <3>3, <3>4, <3>5, <3>6, <3>7, <3>8, <3>9, SMT DEF Levels
  <2> HIDE DEF w
  <2> QED  BY <2>1, <2>3, SMT
<1> QED  BY <1>1, <1>2, SMT

\* What is looked for is a multiple of eight, not less than what was asked
\* for, and the beginning of a class.
LEMMA WantedBegins ==
  ASSUME NEW size \in Nat
  PROVE  /\ Wanted(size) \in Nat /\ Wanted(size) >= 8 /\ Wanted(size) <= 2 ^ 14
         /\ Wanted(size) % 8 = 0 /\ Begins(Wanted(size))
         /\ Cut(size) \in Nat /\ Cut(size) <= Wanted(size)
<1> DEFINE r == IF Cut(size) < MIN_BLOCK_SIZE THEN MIN_BLOCK_SIZE ELSE ROUNDUP_SIZE(Cut(size))
<1>1. Cut(size) \in Nat /\ Cut(size) <= 2 ^ 14
  BY SMT DEF Cut, OS_MAX_SIZED_HEAP_BLOCK
<1>2. r \in Nat /\ 8 <= r /\ r <= 2 ^ 14 /\ r % 8 = 0 /\ Cut(size) <= r
  BY <1>1, SMT DEF MIN_BLOCK_SIZE, ROUNDUP_SIZE, BLOCK_ALIGN
<1>3. Wanted(size) = Rounded(r)
  BY DEF Wanted
<1> HIDE DEF r
<1>4. /\ Rounded(r) \in Nat /\ Rounded(r) >= r /\ Rounded(r) <= 2 ^ 14
      /\ Rounded(r) % 8 = 0 /\ Begins(Rounded(r))
  BY <1>2, RoundedBegins
<1> QED  BY <1>1, <1>2, <1>3, <1>4, SMT

\* Every size up to the largest block has a class, and so has every size that
\* is looked for.
LEMMA ClassInRange ==
  ASSUME NEW r \in Nat, r <= OS_HEAP_SIZE - 32 \/ r <= 2 ^ 14
  PROVE  Mapping(r) \in FL \X SL
<1>1. OS_HEAP_SIZE \in Nat /\ OS_HEAP_SIZE < 2 ^ 16 /\ r < 2 ^ 16
  BY HeapSizeAssumption, SMT
<1>2. PICK sl \in 0..15 :
         \/ Sits(r, 0, sl, 8) \/ Sits(r, 1, sl, 8) \/ Sits(r, 2, sl, 16) \/ Sits(r, 3, sl, 32)
         \/ Sits(r, 4, sl, 64) \/ Sits(r, 5, sl, 128) \/ Sits(r, 6, sl, 256)
         \/ Sits(r, 7, sl, 512) \/ Sits(r, 8, sl, 1024) \/ Sits(r, 9, sl, 2048)
  BY <1>1, SizeInClass, SMT
<1>3. PICK fl \in 0..9 : Mapping(r) = <<fl, sl>> /\ (fl = 9 => r >= 2 ^ 15)
  BY <1>2, SMT DEF Sits, LevelStart
<1>4. SL = 0..15
  BY SMT DEF SL, MAX_SLI, MAX_LOG2_SLI
<1>5. fl \in FL
  <2>1. CASE OS_HEAP_SIZE <= 2 ^ 15
    <3>1. FL = 0..8
      BY <2>1, SMT DEF FL, REAL_FLI, MAX_FLI, FLI_OFFSET
    <3> QED  BY <1>1, <1>3, <2>1, <3>1, SMT
  <2>2. CASE ~ (OS_HEAP_SIZE <= 2 ^ 15)
    <3>1. FL = 0..9
      BY <2>2, SMT DEF FL, REAL_FLI, MAX_FLI, FLI_OFFSET
    <3> QED  BY <3>1, SMT
  <2> QED  BY <2>1, <2>2, SMT
<1> QED  BY <1>3, <1>4, <1>5, SMT
-----------------------------------------------------------------------------
(* Writing one header                                                      *)

\* Two heaps have the same blocks, apart from the links of the lists.
SameShape(g, h) ==
    /\ Dom(g) = Dom(h)
    /\ \A x \in Dom(h) : /\ g.block[x].size = h.block[x].size
                         /\ g.block[x].free = h.block[x].free
                         /\ g.block[x].prevFree = h.block[x].prevFree
                         /\ g.block[x].prev_hdr = h.block[x].prev_hdr

\* They have the same control structure, apart from the headers.
SameControl(g, h) == /\ g.matrix = h.matrix /\ g.sl_bitmap = h.sl_bitmap
                     /\ g.fl_bitmap = h.fl_bitmap

\* No header has the address NULL.
LEMMA NullIsNoHeader == NULL \notin Address
BY NullAssumption, HeapSizeAssumption, SMT DEF Address

\* The heap with these headers, and with this header at x.
WithBlocks(h, block) == [h EXCEPT !.block = block]
WithHeader(h, x, r) == [h EXCEPT !.block[x] = r]

\* A heap whose headers are replaced by other headers is one.
LEMMA WriteBlocks ==
  ASSUME NEW h, HeapType(h), NEW D \in SUBSET Address, NEW block \in [D -> Header],
         NEW g, g = WithBlocks(h, block)
  PROVE  HeapType(g) /\ SameControl(g, h) /\ g.block = block /\ Dom(g) = D
<1>1. h = [block |-> h.block, matrix |-> h.matrix, sl_bitmap |-> h.sl_bitmap,
           fl_bitmap |-> h.fl_bitmap, used_size |-> h.used_size]
  BY DEF HeapType
<1>2. g = [block |-> block, matrix |-> h.matrix, sl_bitmap |-> h.sl_bitmap,
           fl_bitmap |-> h.fl_bitmap, used_size |-> h.used_size]
  BY <1>1, SMT DEF WithBlocks
<1>3. /\ g.block = block /\ g.matrix = h.matrix /\ g.sl_bitmap = h.sl_bitmap
      /\ g.fl_bitmap = h.fl_bitmap /\ g.used_size = h.used_size
  BY <1>2, SMT
<1>4. Dom(g) = D /\ g.block \in [Dom(g) -> Header]
  BY <1>3, Zenon DEF Dom
<1>5. HeapType(g)
  BY <1>2, <1>3, <1>4, Zenon DEF HeapType
<1> QED  BY <1>3, <1>4, <1>5 DEF SameControl

\* Writing one header leaves the others.
LEMMA WriteHeader ==
  ASSUME NEW h, HeapType(h), NEW x \in Dom(h), NEW r \in Header,
         NEW g, g = WithHeader(h, x, r)
  PROVE  /\ HeapType(g) /\ SameControl(g, h) /\ Dom(g) = Dom(h)
         /\ g.block[x] = r /\ \A y \in Dom(h) : y # x => g.block[y] = h.block[y]
<1> DEFINE block == [h.block EXCEPT ![x] = r]
<1>1. h.block \in [Dom(h) -> Header] /\ Dom(h) \in SUBSET Address
  BY DEF HeapType
<1>2. block \in [Dom(h) -> Header]
  BY <1>1
<1>3. block[x] = r /\ \A y \in Dom(h) : y # x => block[y] = h.block[y]
  BY <1>1
<1>4. g = WithBlocks(h, block)
  BY DEF WithBlocks, WithHeader
<1> HIDE DEF block
<1>5. HeapType(g) /\ SameControl(g, h) /\ g.block = block /\ Dom(g) = Dom(h)
  BY <1>1, <1>2, <1>4, WriteBlocks
<1> QED  BY <1>3, <1>5

\* The writes of the list operations.
WithPrev(h, x, v) == [h EXCEPT !.block[x].prev = v]
WithNext(h, x, v) == [h EXCEPT !.block[x].next = v]
WithLinks(h, x, v, w) == [h EXCEPT !.block[x].prev = v, !.block[x].next = w]

\* A new value of prev changes nothing else.
LEMMA SetPrev ==
  ASSUME NEW h, HeapType(h), NEW x \in Dom(h), NEW v \in Pointer,
         NEW g, g = WithPrev(h, x, v)
  PROVE  /\ HeapType(g) /\ SameShape(g, h) /\ SameControl(g, h)
         /\ \A y \in Dom(h) : /\ g.block[y].prev = IF y = x THEN v ELSE h.block[y].prev
                              /\ g.block[y].next = h.block[y].next
<1> DEFINE r == [h.block[x] EXCEPT !.prev = v]
<1>1. h.block[x] \in Header
  BY DEF HeapType
<1>2. r \in Header
  BY <1>1, SMT DEF Header
<1>3. /\ r.size = h.block[x].size /\ r.free = h.block[x].free
      /\ r.prevFree = h.block[x].prevFree /\ r.prev_hdr = h.block[x].prev_hdr
      /\ r.prev = v /\ r.next = h.block[x].next
  BY <1>1, SMT DEF Header
<1>4. g = WithHeader(h, x, r)
  BY DEF WithHeader, WithPrev
<1> HIDE DEF r
<1>5. /\ HeapType(g) /\ SameControl(g, h) /\ Dom(g) = Dom(h)
      /\ g.block[x] = r /\ \A y \in Dom(h) : y # x => g.block[y] = h.block[y]
  BY <1>2, <1>4, WriteHeader
<1> QED  BY <1>3, <1>5 DEF SameShape

\* A new value of next changes nothing else.
LEMMA SetNext ==
  ASSUME NEW h, HeapType(h), NEW x \in Dom(h), NEW v \in Pointer,
         NEW g, g = WithNext(h, x, v)
  PROVE  /\ HeapType(g) /\ SameShape(g, h) /\ SameControl(g, h)
         /\ \A y \in Dom(h) : /\ g.block[y].next = IF y = x THEN v ELSE h.block[y].next
                              /\ g.block[y].prev = h.block[y].prev
<1> DEFINE r == [h.block[x] EXCEPT !.next = v]
<1>1. h.block[x] \in Header
  BY DEF HeapType
<1>2. r \in Header
  BY <1>1, SMT DEF Header
<1>3. /\ r.size = h.block[x].size /\ r.free = h.block[x].free
      /\ r.prevFree = h.block[x].prevFree /\ r.prev_hdr = h.block[x].prev_hdr
      /\ r.next = v /\ r.prev = h.block[x].prev
  BY <1>1, SMT DEF Header
<1>4. g = WithHeader(h, x, r)
  BY DEF WithHeader, WithNext
<1> HIDE DEF r
<1>5. /\ HeapType(g) /\ SameControl(g, h) /\ Dom(g) = Dom(h)
      /\ g.block[x] = r /\ \A y \in Dom(h) : y # x => g.block[y] = h.block[y]
  BY <1>2, <1>4, WriteHeader
<1> QED  BY <1>3, <1>5 DEF SameShape

\* Both links are set.
LEMMA SetLinks ==
  ASSUME NEW h, HeapType(h), NEW x \in Dom(h), NEW v \in Pointer,
         NEW w \in Pointer, NEW g, g = WithLinks(h, x, v, w)
  PROVE  /\ HeapType(g) /\ SameShape(g, h) /\ SameControl(g, h)
         /\ \A y \in Dom(h) : /\ g.block[y].prev = IF y = x THEN v ELSE h.block[y].prev
                              /\ g.block[y].next = IF y = x THEN w ELSE h.block[y].next
<1> DEFINE k == WithPrev(h, x, v)
<1>1. g = WithNext(k, x, w)
  BY DEF WithLinks, WithNext, WithPrev
<1>2. /\ HeapType(k) /\ SameShape(k, h) /\ SameControl(k, h)
      /\ \A y \in Dom(h) : /\ k.block[y].prev = IF y = x THEN v ELSE h.block[y].prev
                           /\ k.block[y].next = h.block[y].next
  BY SetPrev
<1> HIDE DEF k
<1>3. x \in Dom(k)
  BY <1>2 DEF SameShape
<1>4. /\ HeapType(g) /\ SameShape(g, k) /\ SameControl(g, k)
      /\ \A y \in Dom(k) : /\ g.block[y].next = IF y = x THEN w ELSE k.block[y].next
                           /\ g.block[y].prev = k.block[y].prev
  BY <1>1, <1>2, <1>3, SetNext
<1> QED  BY <1>2, <1>4 DEF SameShape, SameControl
-----------------------------------------------------------------------------
(* Writing the control structure                                           *)

\* The heap with this control structure.
WithControl(h, m, s, f) == [block |-> h.block, matrix |-> m, sl_bitmap |-> s,
                            fl_bitmap |-> f, used_size |-> h.used_size]

\* Its headers are the same.
LEMMA SetControl ==
  ASSUME NEW h, HeapType(h), NEW m \in Matrix,
         NEW s \in Bitmaps, NEW f \in SUBSET FL,
         NEW g, g = WithControl(h, m, s, f)
  PROVE  /\ HeapType(g) /\ g.block = h.block /\ SameShape(g, h)
         /\ g.matrix = m /\ g.sl_bitmap = s /\ g.fl_bitmap = f
<1>1. /\ g.block = h.block /\ g.matrix = m /\ g.sl_bitmap = s /\ g.fl_bitmap = f
      /\ g.used_size = h.used_size
  BY SMT DEF WithControl
<1>2. Dom(g) = Dom(h)
  BY <1>1 DEF Dom
<1>3. g = [block |-> g.block, matrix |-> g.matrix, sl_bitmap |-> g.sl_bitmap,
           fl_bitmap |-> g.fl_bitmap, used_size |-> g.used_size]
  BY <1>1, SMT DEF WithControl
<1>4. HeapType(g)
  BY <1>1, <1>2, <1>3 DEF HeapType
<1> QED  BY <1>1, <1>2, <1>4 DEF SameShape

\* The writes of Head.
WithMatrix(h, m) == [h EXCEPT !.matrix = m]
WithBits(h, m, fl, t, f) == [h EXCEPT !.matrix = m, !.sl_bitmap[fl] = t, !.fl_bitmap = f]

\* The control structure they make.
LEMMA SetMatrix ==
  ASSUME NEW h, HeapType(h), NEW m
  PROVE  WithMatrix(h, m) = WithControl(h, m, h.sl_bitmap, h.fl_bitmap)
<1>1. h = [block |-> h.block, matrix |-> h.matrix, sl_bitmap |-> h.sl_bitmap,
           fl_bitmap |-> h.fl_bitmap, used_size |-> h.used_size]
  BY DEF HeapType
<1> QED  BY <1>1, SMT DEF WithControl, WithMatrix

\* The same with the bits.
LEMMA SetBits ==
  ASSUME NEW h, HeapType(h), NEW m, NEW fl, NEW t, NEW f
  PROVE  WithBits(h, m, fl, t, f) = WithControl(h, m, [h.sl_bitmap EXCEPT ![fl] = t], f)
<1> DEFINE k == WithMatrix(h, m)
           s == [h.sl_bitmap EXCEPT ![fl] = t]
<1>1. k = WithControl(h, m, h.sl_bitmap, h.fl_bitmap)
  BY SetMatrix
<1>2. /\ k = [block |-> k.block, matrix |-> k.matrix, sl_bitmap |-> k.sl_bitmap,
              fl_bitmap |-> k.fl_bitmap, used_size |-> k.used_size]
      /\ k.block = h.block /\ k.matrix = m /\ k.sl_bitmap = h.sl_bitmap
      /\ k.used_size = h.used_size
  <2> HIDE DEF k
  <2> QED  BY <1>1, SMT DEF WithControl
<1>3. WithBits(h, m, fl, t, f)
          = [[k EXCEPT !.sl_bitmap = [k.sl_bitmap EXCEPT ![fl] = t]] EXCEPT !.fl_bitmap = f]
  BY Zenon DEF WithBits, WithMatrix
<1>4. WithBits(h, m, fl, t, f) = [[k EXCEPT !.sl_bitmap = s] EXCEPT !.fl_bitmap = f]
  <2> HIDE DEF k
  <2> QED  BY <1>2, <1>3, Zenon
<1> HIDE DEF k, s
<1>5. k = [block |-> h.block, matrix |-> m, sl_bitmap |-> h.sl_bitmap,
           fl_bitmap |-> h.fl_bitmap, used_size |-> h.used_size]
  BY <1>1, Zenon DEF WithControl
<1>6. [k EXCEPT !.sl_bitmap = s] = WithControl(h, m, s, h.fl_bitmap)
  BY <1>5, SMT DEF WithControl
<1>7. [WithControl(h, m, s, h.fl_bitmap) EXCEPT !.fl_bitmap = f] = WithControl(h, m, s, f)
  BY SMT DEF WithControl
<1> QED  BY <1>4, <1>6, <1>7, Zenon DEF s

\* Head writes the first of a class that was not empty, and its bits.
LEMMA HeadWrites ==
  ASSUME NEW h, HeapType(h), Bits(h), NEW fl \in FL, NEW sl \in SL,
         h.matrix[<<fl, sl>>] # NULL, NEW first \in Pointer,
         NEW g, g = Head(h, <<fl, sl>>, first)
  PROVE  /\ HeapType(g) /\ g.block = h.block /\ SameShape(g, h) /\ Bits(g)
         /\ \A c \in FL \X SL : g.matrix[c] = IF c = <<fl, sl>> THEN first ELSE h.matrix[c]
<1> DEFINE c0 == <<fl, sl>>
           left == h.sl_bitmap[fl] \ {sl}
           m == [h.matrix EXCEPT ![c0] = first]
           s == IF first # NULL THEN h.sl_bitmap ELSE [h.sl_bitmap EXCEPT ![fl] = left]
           f == IF first = NULL /\ left = {} THEN h.fl_bitmap \ {fl} ELSE h.fl_bitmap
<1>1. /\ h = [block |-> h.block, matrix |-> h.matrix, sl_bitmap |-> h.sl_bitmap,
              fl_bitmap |-> h.fl_bitmap, used_size |-> h.used_size]
      /\ h.matrix \in [FL \X SL -> Pointer]
      /\ h.sl_bitmap \in [FL -> SUBSET SL] /\ h.fl_bitmap \in SUBSET FL
  BY DEF HeapType, Matrix, Bitmaps
<1>2. m \in Matrix
  BY <1>1 DEF Matrix
<1>3. s \in Bitmaps /\ f \in SUBSET FL
  BY <1>1 DEF Bitmaps
<1>4. \A c \in FL \X SL : m[c] = IF c = c0 THEN first ELSE h.matrix[c]
  BY <1>1
<1>5. g = WithControl(h, m, s, f)
  <2>1. c0[1] = fl /\ c0[2] = sl
    OBVIOUS
  <2>2. CASE first # NULL
    <3>1. g = WithMatrix(h, m)
      BY <2>1, <2>2 DEF Head, WithMatrix
    <3>2. s = h.sl_bitmap /\ f = h.fl_bitmap
      BY <2>2
    <3> HIDE DEF m, s, f
    <3> QED  BY <3>1, <3>2, SetMatrix
  <2>3. CASE first = NULL
    <3>1. g = WithBits(h, m, fl, left, f)
      <4>1. g = [h EXCEPT !.matrix[c0] = NULL, !.sl_bitmap[c0[1]] = left,
                          !.fl_bitmap = IF left = {} THEN @ \ {c0[1]} ELSE @]
        BY <2>1, <2>3, Zenon DEF Head
      <4>2. f = IF left = {} THEN h.fl_bitmap \ {fl} ELSE h.fl_bitmap
        BY <2>3
      <4> QED  BY <2>1, <2>3, <4>1, <4>2, Zenon DEF WithBits
    <3>2. s = [h.sl_bitmap EXCEPT ![fl] = left]
      BY <2>3
    <3> HIDE DEF m, s, f, left
    <3> QED  BY <3>1, <3>2, SetBits
  <2> QED  BY <2>2, <2>3
<1>6. \A c \in FL \X SL : c = c0 <=> c[1] = fl /\ c[2] = sl
  OBVIOUS
<1>7. /\ \A c \in FL \X SL : c[2] \in s[c[1]] <=> m[c] # NULL
      /\ \A a \in FL : a \in f <=> s[a] # {}
  <2>1. \A a \in FL : s[a] = IF first = NULL /\ a = fl THEN left ELSE h.sl_bitmap[a]
    BY <1>1
  <2>2. /\ \A c \in FL \X SL : c[2] \in h.sl_bitmap[c[1]] <=> h.matrix[c] # NULL
        /\ \A a \in FL : a \in h.fl_bitmap <=> h.sl_bitmap[a] # {}
    BY DEF Bits
  <2>3. sl \in h.sl_bitmap[fl] /\ fl \in h.fl_bitmap
    <3>1. c0 \in FL \X SL /\ c0[1] = fl /\ c0[2] = sl /\ h.matrix[c0] # NULL
      OBVIOUS
    <3>2. sl \in h.sl_bitmap[fl]
      <4> HIDE DEF c0
      <4> QED  BY <2>2, <3>1
    <3> QED  BY <2>2, <3>2
  <2>4. ASSUME NEW c \in FL \X SL PROVE c[2] \in s[c[1]] <=> m[c] # NULL
    <3>1. c[1] \in FL /\ c[2] \in SL
      OBVIOUS
    <3>2. s[c[1]] = IF first = NULL /\ c[1] = fl THEN left ELSE h.sl_bitmap[c[1]]
      BY <2>1, <3>1
    <3>3. c[2] \in h.sl_bitmap[c[1]] <=> h.matrix[c] # NULL
      BY <2>2
    <3>4. m[c] = IF c[1] = fl /\ c[2] = sl THEN first ELSE h.matrix[c]
      BY <1>4, <1>6
    <3> HIDE DEF m, s, c0
    <3> QED  BY <2>3, <3>2, <3>3, <3>4, SMT
  <2>5. \A a \in FL : a \in f <=> s[a] # {}
    <3>1. s[fl] = IF first = NULL THEN left ELSE h.sl_bitmap[fl]
      BY <2>1
    <3>2. \A a \in FL \ {fl} : s[a] = h.sl_bitmap[a] /\ (a \in f <=> a \in h.fl_bitmap)
      BY <2>1
    <3>3. fl \in f <=> s[fl] # {}
      BY <2>3, <3>1
    <3> HIDE DEF f, s
    <3> QED  BY <2>2, <3>2, <3>3
  <2> QED  BY <2>4, <2>5
<1> HIDE DEF m, s, f
<1>8. /\ HeapType(g) /\ g.block = h.block /\ SameShape(g, h)
      /\ g.matrix = m /\ g.sl_bitmap = s /\ g.fl_bitmap = f
  BY <1>2, <1>3, <1>5, SetControl
<1>9. Bits(g)
  BY <1>7, <1>8 DEF Bits
<1> QED  BY <1>4, <1>8, <1>9
-----------------------------------------------------------------------------
(* The list operations                                                     *)

\* The block b has left its list.
Removed(g, h, b) ==
    LET prev == h.block[b].prev
        next == h.block[b].next
    IN  /\ HeapType(g) /\ SameShape(g, h) /\ Bits(g)
        /\ \A x \in Dom(h) :
               /\ g.block[x].prev = IF x = b THEN NULL ELSE IF x = next THEN prev
                                    ELSE h.block[x].prev
               /\ g.block[x].next = IF x = b THEN NULL ELSE IF x = prev THEN next
                                    ELSE h.block[x].next
        /\ \A c \in FL \X SL : g.matrix[c] = IF h.matrix[c] = b THEN next ELSE h.matrix[c]

\* What the type says of the links of a block.
LEMMA LinkTypes ==
  ASSUME NEW h, HeapType(h), NEW F, Lists(h, F), NEW b \in F
  PROVE  /\ b \in Dom(h) /\ b # NULL
         /\ h.block[b].prev \in Pointer /\ h.block[b].next \in Pointer
         /\ h.block[b].prev # NULL => h.block[b].prev \in Dom(h)
         /\ h.block[b].next # NULL => h.block[b].next \in Dom(h)
<1>1. b \in Dom(h) /\ Dom(h) \subseteq Address /\ h.block \in [Dom(h) -> Header]
  BY DEF HeapType, Lists
<1>2. b # NULL
  BY <1>1, NullIsNoHeader
<1>3. h.block[b] \in Header
  BY <1>1
<1>4. h.block[b].prev \in Pointer /\ h.block[b].next \in Pointer
  BY <1>3, SMT DEF Header
<1> QED  BY <1>1, <1>2, <1>4 DEF Lists, Linked

\* Extract takes a block out of its list, wherever it stands.
LEMMA ExtractRemoves ==
  ASSUME NEW h, HeapType(h), NEW F, Lists(h, F), NEW b \in F,
         NEW c \in FL \X SL, c = Class(h, b)
  PROVE  Removed(Extract(h, b, c), h, b)
<1> DEFINE next == h.block[b].next
           prev == h.block[b].prev
           back == IF next = NULL THEN h ELSE WithPrev(h, next, prev)
           on == IF prev = NULL THEN back ELSE WithNext(back, prev, next)
           out == IF on.matrix[c] = b THEN Head(on, c, next) ELSE on
           g == WithLinks(out, b, NULL, NULL)
<1>1. Extract(h, b, c) = g
  BY Zenon DEF Extract, Unlinked, WithPrev, WithNext, WithLinks
<1>2. /\ b \in Dom(h) /\ b # NULL /\ prev \in Pointer
      /\ next \in Pointer
      /\ prev # NULL => prev \in Dom(h)
      /\ next # NULL => next \in Dom(h)
  BY LinkTypes
<1> HIDE DEF next, prev
<1>3. /\ HeapType(back) /\ SameShape(back, h) /\ SameControl(back, h)
      /\ \A x \in Dom(h) :
            /\ back.block[x].prev = IF next # NULL /\ x = next THEN prev ELSE h.block[x].prev
            /\ back.block[x].next = h.block[x].next
  <2>1. CASE next = NULL
    BY <2>1 DEF SameShape, SameControl
  <2>2. CASE next # NULL
    <3>1. back = WithPrev(h, next, prev)
      BY <2>2
    <3> HIDE DEF back
    <3>2. /\ HeapType(back) /\ SameShape(back, h) /\ SameControl(back, h)
          /\ \A x \in Dom(h) : /\ back.block[x].prev = IF x = next THEN prev ELSE h.block[x].prev
                               /\ back.block[x].next = h.block[x].next
      BY <1>2, <2>2, <3>1, SetPrev
    <3> QED  BY <2>2, <3>2
  <2> QED  BY <2>1, <2>2
<1> HIDE DEF back
<1>4. /\ HeapType(on) /\ SameShape(on, h) /\ SameControl(on, h)
      /\ \A x \in Dom(h) :
            /\ on.block[x].prev = IF next # NULL /\ x = next THEN prev ELSE h.block[x].prev
            /\ on.block[x].next = IF prev # NULL /\ x = prev THEN next ELSE h.block[x].next
  <2>1. CASE prev = NULL
    BY <1>3, <2>1
  <2>2. CASE prev # NULL
    <3>1. on = WithNext(back, prev, next)
      BY <2>2
    <3> HIDE DEF on
    <3>2. prev \in Dom(back) /\ Dom(back) = Dom(h)
      BY <1>2, <1>3, <2>2 DEF SameShape
    <3>3. /\ HeapType(on) /\ SameShape(on, back) /\ SameControl(on, back)
          /\ \A x \in Dom(back) :
                /\ on.block[x].next = IF x = prev THEN next ELSE back.block[x].next
                /\ on.block[x].prev = back.block[x].prev
      BY <1>2, <1>3, <3>1, <3>2, SetNext
    <3>4. SameShape(on, h) /\ SameControl(on, h)
      BY <1>3, <3>3 DEF SameShape, SameControl
    <3> QED  BY <1>3, <2>2, <3>2, <3>3, <3>4
  <2> QED  BY <2>1, <2>2
<1> HIDE DEF on
<1>5. Bits(on) /\ on.matrix = h.matrix
  BY <1>4 DEF SameControl, Lists, Bits
<1>6. /\ HeapType(out) /\ SameShape(out, h) /\ Bits(out)
      /\ \A x \in Dom(h) : out.block[x] = on.block[x]
      /\ \A d \in FL \X SL : out.matrix[d] = IF d = c /\ h.matrix[c] = b THEN next
                                             ELSE h.matrix[d]
  <2>1. CASE on.matrix[c] = b
    <3>1. PICK fl \in FL, sl \in SL : c = <<fl, sl>>
      OBVIOUS
    <3>2. out = Head(on, <<fl, sl>>, next)
      BY <2>1, <3>1
    <3>3. on.matrix[<<fl, sl>>] # NULL
      BY <1>2, <2>1, <3>1
    <3> HIDE DEF out
    <3>4. /\ HeapType(out) /\ out.block = on.block /\ SameShape(out, on) /\ Bits(out)
          /\ \A d \in FL \X SL : out.matrix[d] = IF d = <<fl, sl>> THEN next ELSE on.matrix[d]
      BY <1>2, <1>4, <1>5, <3>2, <3>3, HeadWrites
    <3>5. SameShape(out, h)
      BY <1>4, <3>4 DEF SameShape
    <3>6. \A d \in FL \X SL : out.matrix[d] = IF d = c /\ h.matrix[c] = b THEN next
                                              ELSE h.matrix[d]
      BY <1>5, <2>1, <3>1, <3>4
    <3> QED  BY <3>4, <3>5, <3>6
  <2>2. CASE on.matrix[c] # b
    <3>1. out = on
      BY <2>2
    <3> HIDE DEF out
    <3> QED  BY <1>4, <1>5, <2>2, <3>1
  <2> QED  BY <2>1, <2>2
<1> HIDE DEF out
<1>7. b \in Dom(out)
  BY <1>2, <1>6 DEF SameShape
<1>8. /\ HeapType(g) /\ SameShape(g, out) /\ SameControl(g, out)
      /\ \A x \in Dom(out) :
            /\ g.block[x].prev = IF x = b THEN NULL ELSE out.block[x].prev
            /\ g.block[x].next = IF x = b THEN NULL ELSE out.block[x].next
  <2>1. NULL \in Pointer /\ g = WithLinks(out, b, NULL, NULL)
    BY DEF Pointer
  <2> HIDE DEF g
  <2> QED  BY <1>6, <1>7, <2>1, SetLinks
<1> HIDE DEF g
<1>9. SameShape(g, h) /\ Bits(g) /\ g.matrix = out.matrix /\ Dom(out) = Dom(h)
  BY <1>6, <1>8 DEF SameShape, SameControl, Bits
<1>10. \A x \in Dom(h) :
          /\ g.block[x].prev = IF x = b THEN NULL ELSE IF x = next THEN prev
                               ELSE h.block[x].prev
          /\ g.block[x].next = IF x = b THEN NULL ELSE IF x = prev THEN next
                               ELSE h.block[x].next
  <2>1. NULL \notin Dom(h)
    BY NullIsNoHeader DEF HeapType
  <2> QED  BY <1>4, <1>6, <1>8, <1>9, <2>1
<1>11. \A d \in FL \X SL : g.matrix[d] = IF h.matrix[d] = b THEN next ELSE h.matrix[d]
  <2>1. ASSUME NEW d \in FL \X SL, h.matrix[d] = b PROVE d = c
    BY <1>2, <2>1 DEF Lists, Heads
  <2> QED  BY <1>6, <1>9, <2>1
<1> QED  BY <1>1, <1>8, <1>9, <1>10, <1>11 DEF Removed, next, prev

\* ExtractHdr takes the first block out of its list.
LEMMA ExtractHdrRemoves ==
  ASSUME NEW h, HeapType(h), NEW F, Lists(h, F), NEW b \in F,
         NEW c \in FL \X SL, h.matrix[c] = b
  PROVE  Removed(ExtractHdr(h, b, c), h, b)
<1> DEFINE next == h.block[b].next
           prev == h.block[b].prev
           rest == Head(h, c, next)
           out == IF next = NULL THEN rest ELSE WithPrev(rest, next, NULL)
           g == WithLinks(out, b, NULL, NULL)
<1>1. ExtractHdr(h, b, c) = g
  BY Zenon DEF ExtractHdr, Unlinked, WithPrev, WithLinks
<1>2. /\ b \in Dom(h) /\ b # NULL
      /\ next \in Pointer /\ NULL \in Pointer
      /\ next # NULL => next \in Dom(h)
  BY LinkTypes DEF Pointer
<1>3. prev = NULL
  <2>1. Class(h, b) = c
    BY <1>2 DEF Lists, Heads
  <2> QED  BY <2>1 DEF Lists, Linked
<1> HIDE DEF next, prev
<1>4. /\ HeapType(rest) /\ rest.block = h.block /\ SameShape(rest, h) /\ Bits(rest)
      /\ \A d \in FL \X SL : rest.matrix[d] = IF d = c THEN next ELSE h.matrix[d]
  <2>1. PICK fl \in FL, sl \in SL : c = <<fl, sl>>
    OBVIOUS
  <2>2. rest = Head(h, <<fl, sl>>, next) /\ h.matrix[<<fl, sl>>] # NULL /\ Bits(h)
    BY <1>2, <2>1 DEF Lists
  <2> HIDE DEF rest
  <2>3. /\ HeapType(rest) /\ rest.block = h.block /\ SameShape(rest, h) /\ Bits(rest)
        /\ \A d \in FL \X SL : rest.matrix[d] = IF d = <<fl, sl>> THEN next ELSE h.matrix[d]
    BY <1>2, <2>2, HeadWrites
  <2> QED  BY <2>1, <2>3
<1> HIDE DEF rest
<1>5. /\ HeapType(out) /\ SameShape(out, h) /\ Bits(out)
      /\ \A x \in Dom(h) :
            /\ out.block[x].prev = IF next # NULL /\ x = next THEN NULL ELSE h.block[x].prev
            /\ out.block[x].next = h.block[x].next
      /\ \A d \in FL \X SL : out.matrix[d] = IF d = c THEN next ELSE h.matrix[d]
  <2>1. CASE next = NULL
    BY <1>4, <2>1
  <2>2. CASE next # NULL
    <3>1. out = WithPrev(rest, next, NULL)
      BY <2>2
    <3> HIDE DEF out
    <3>2. next \in Dom(rest) /\ Dom(rest) = Dom(h)
      BY <1>2, <1>4, <2>2 DEF SameShape
    <3>3. /\ HeapType(out) /\ SameShape(out, rest) /\ SameControl(out, rest)
          /\ \A x \in Dom(rest) :
                /\ out.block[x].prev = IF x = next THEN NULL ELSE rest.block[x].prev
                /\ out.block[x].next = rest.block[x].next
      BY <1>2, <1>4, <3>1, <3>2, SetPrev
    <3>4. SameShape(out, h) /\ Bits(out) /\ out.matrix = rest.matrix
      BY <1>4, <3>3 DEF SameShape, SameControl, Bits
    <3> QED  BY <1>4, <2>2, <3>2, <3>3, <3>4
  <2> QED  BY <2>1, <2>2
<1> HIDE DEF out
<1>6. b \in Dom(out)
  BY <1>2, <1>5 DEF SameShape
<1>7. /\ HeapType(g) /\ SameShape(g, out) /\ SameControl(g, out)
      /\ \A x \in Dom(out) :
            /\ g.block[x].prev = IF x = b THEN NULL ELSE out.block[x].prev
            /\ g.block[x].next = IF x = b THEN NULL ELSE out.block[x].next
  <2>1. g = WithLinks(out, b, NULL, NULL)
    OBVIOUS
  <2> HIDE DEF g
  <2> QED  BY <1>2, <1>5, <1>6, <2>1, SetLinks
<1> HIDE DEF g
<1>8. SameShape(g, h) /\ Bits(g) /\ g.matrix = out.matrix /\ Dom(out) = Dom(h)
  BY <1>5, <1>7 DEF SameShape, SameControl, Bits
<1>9. \A x \in Dom(h) :
         /\ g.block[x].prev = IF x = b THEN NULL ELSE IF x = next THEN prev
                              ELSE h.block[x].prev
         /\ g.block[x].next = IF x = b THEN NULL ELSE IF x = prev THEN next
                              ELSE h.block[x].next
  <2>1. NULL \notin Dom(h)
    BY NullIsNoHeader DEF HeapType
  <2> QED  BY <1>3, <1>5, <1>7, <1>8, <2>1
<1>10. \A d \in FL \X SL : g.matrix[d] = IF h.matrix[d] = b THEN next ELSE h.matrix[d]
  <2>1. ASSUME NEW d \in FL \X SL, h.matrix[d] = b PROVE d = c
    BY <1>2, <2>1 DEF Lists, Heads
  <2> QED  BY <1>5, <1>8, <2>1
<1> QED  BY <1>1, <1>7, <1>8, <1>9, <1>10 DEF Removed, next, prev

\* The classes of two heaps of the same shape are the same.
LEMMA SameClass ==
  ASSUME NEW g, NEW h, SameShape(g, h), NEW b \in Dom(h)
  PROVE  Class(g, b) = Class(h, b)
BY DEF SameShape, Class

\* No block is its own neighbour in a list, and one that begins a list with
\* other blocks in it has a next one.
LEMMA ListGoesOn ==
  ASSUME NEW h, NEW F, Lists(h, F), NULL \notin F, NEW b \in F
  PROVE  /\ h.block[b].prev # b /\ h.block[b].next # b
         /\ \A x \in F : x # b /\ Class(h, x) = Class(h, b) /\ h.block[b].prev = NULL
                            => h.block[b].next # NULL
<1>1. PICK rank \in [F -> Nat] :
         \A y \in F : h.block[y].prev # NULL => rank[h.block[y].prev] < rank[y]
  BY DEF Lists, Ranked
<1>2. Linked(h, F)
  BY DEF Lists
<1>3. h.block[b].prev # b
  <2>1. rank[b] \in Nat
    OBVIOUS
  <2> QED  BY <1>1, <2>1
<1>4. h.block[b].next # b
  BY <1>2, <1>3 DEF Linked
<1>5. ASSUME NEW x \in F, x # b, Class(h, x) = Class(h, b), h.block[b].prev = NULL
      PROVE  h.block[b].next # NULL
  <2> DEFINE Others == {y \in F \ {b} : Class(h, y) = Class(h, b)}
             S == {rank[y] : y \in Others}
  <2>1. S \in SUBSET Nat /\ S # {}
    <3>1. x \in Others
      BY <1>5
    <3>2. \A y \in Others : rank[y] \in Nat
      OBVIOUS
    <3> HIDE DEF Others
    <3> QED  BY <3>1, <3>2
  <2>2. PICK m \in S : \A k \in S : m =< k
    <3> HIDE DEF S
    <3> QED  BY <2>1, LeastExists
  <2>3. PICK y \in Others : rank[y] = m
    OBVIOUS
  <2>4. y \in F /\ y # b /\ Class(h, y) = Class(h, b)
    OBVIOUS
  <2>5. h.matrix[Class(h, b)] = b
    BY <1>2, <1>5 DEF Linked
  <2>6. h.block[y].prev # NULL
    BY <1>2, <2>4, <2>5 DEF Linked
  <2>7. /\ h.block[y].prev \in F /\ Class(h, h.block[y].prev) = Class(h, b)
        /\ h.block[h.block[y].prev].next = y
    BY <1>2, <2>4, <2>6 DEF Linked
  <2>8. h.block[y].prev = b
    <3> SUFFICES ASSUME h.block[y].prev # b PROVE FALSE
      OBVIOUS
    <3>1. h.block[y].prev \in Others
      BY <2>7
    <3>2. rank[h.block[y].prev] \in S
      BY <3>1
    <3>3. m =< rank[h.block[y].prev] /\ rank[h.block[y].prev] < m
      BY <1>1, <2>2, <2>3, <2>4, <2>6, <3>2
    <3>4. m \in Nat /\ rank[h.block[y].prev] \in Nat
      BY <2>1, <2>7
    <3> QED  BY <3>3, <3>4
  <2> QED  BY <2>4, <2>7, <2>8
<1> QED  BY <1>3, <1>4, <1>5

\* A block that is taken out leaves the lists of the others.
LEMMA RemovedLists ==
  ASSUME NEW g, NEW h, HeapType(h), NEW F, Lists(h, F), NEW b \in F, Removed(g, h, b),
         \A x \in F : Class(h, x) \in FL \X SL
  PROVE  Lists(g, F \ {b})
<1> DEFINE next == h.block[b].next
           prev == h.block[b].prev
           G == F \ {b}
<1>1. /\ HeapType(g) /\ SameShape(g, h) /\ Bits(g) /\ Dom(g) = Dom(h)
      /\ \A x \in Dom(h) :
            /\ g.block[x].prev = IF x = b THEN NULL ELSE IF x = next THEN prev
                                 ELSE h.block[x].prev
            /\ g.block[x].next = IF x = b THEN NULL ELSE IF x = prev THEN next
                                 ELSE h.block[x].next
      /\ \A c \in FL \X SL : g.matrix[c] = IF h.matrix[c] = b THEN next ELSE h.matrix[c]
  BY DEF Removed, SameShape
<1>2. /\ F \subseteq Dom(h) /\ Last \notin F /\ NULL \notin Dom(h)
      /\ Linked(h, F) /\ Heads(h, F) /\ Unlisted(h, F)
  BY NullIsNoHeader DEF Lists, HeapType
<1>3. /\ prev # NULL => prev \in F /\ Class(h, prev) = Class(h, b) /\ h.block[prev].next = b
      /\ next # NULL => next \in F /\ h.block[next].prev = b
      /\ prev = NULL <=> h.matrix[Class(h, b)] = b
  BY <1>2 DEF Linked
<1>4. \A x \in Dom(h) : Class(g, x) = Class(h, x)
  BY <1>1, SameClass
<1>5. next # NULL => Class(h, next) = Class(h, b)
  BY <1>2, <1>3 DEF Linked
<1>6. /\ prev # b /\ next # b
       /\ \A x \in F : x # b /\ Class(h, x) = Class(h, b) /\ prev = NULL => next # NULL
  BY <1>2, ListGoesOn
<1> HIDE DEF next, prev
<1>7. \A c \in FL \X SL : h.matrix[c] = b => c = Class(h, b)
  BY <1>2 DEF Heads
<1>8. Linked(g, G)
  <2> SUFFICES ASSUME NEW x \in G
               PROVE  LET p == g.block[x].prev
                          n == g.block[x].next
                      IN  /\ g.matrix[Class(g, x)] # NULL
                          /\ p = NULL <=> g.matrix[Class(g, x)] = x
                          /\ p # NULL => /\ p \in G /\ Class(g, p) = Class(g, x)
                                         /\ g.block[p].next = x
                          /\ n # NULL => n \in G /\ g.block[n].prev = x
    BY DEF Linked
  <2> DEFINE p == h.block[x].prev
             n == h.block[x].next
             c == Class(h, x)
  <2>1. /\ x \in F /\ x # b /\ x \in Dom(h) /\ Class(g, x) = c /\ c \in FL \X SL
        /\ g.block[x].prev = IF x = next THEN prev ELSE p
        /\ g.block[x].next = IF x = prev THEN next ELSE n
        /\ g.matrix[c] = IF h.matrix[c] = b THEN next ELSE h.matrix[c]
    BY <1>1, <1>2, <1>4
  <2>2. /\ h.matrix[c] # NULL
        /\ p = NULL <=> h.matrix[c] = x
        /\ p # NULL => p \in F /\ Class(h, p) = c /\ h.block[p].next = x
        /\ n # NULL => n \in F /\ h.block[n].prev = x
    BY <1>2, <2>1 DEF Linked
  <2> HIDE DEF p, n, c
  <2>3. h.matrix[c] = b => c = Class(h, b)
    BY <1>7, <2>1
  <2>4. g.matrix[Class(g, x)] # NULL
    <3>1. CASE h.matrix[c] = b
      <4>1. Class(h, x) = Class(h, b) /\ prev = NULL
        BY <1>3, <2>3, <3>1 DEF c
      <4> QED  BY <1>6, <2>1, <3>1, <4>1
    <3>2. CASE h.matrix[c] # b
      BY <2>1, <2>2, <3>2
    <3> QED  BY <3>1, <3>2
  <2>5. x = next => c = Class(h, b)
    BY <1>2, <1>5, <2>1 DEF c
  <2>6. g.block[x].prev = NULL <=> g.matrix[Class(g, x)] = x
    <3>1. CASE h.matrix[c] = b
      BY <1>3, <2>1, <2>2, <2>3, <3>1
    <3>2. CASE h.matrix[c] # b
      <4>1. CASE x = next
        <5>1. p = b /\ prev # NULL
          BY <1>2, <1>3, <2>1, <2>5, <3>2, <4>1 DEF p
        <5> QED  BY <1>2, <2>1, <2>2, <3>2, <4>1, <5>1
      <4>2. CASE x # next
        BY <2>1, <2>2, <3>2, <4>2
      <4> QED  BY <4>1, <4>2
    <3> QED  BY <3>1, <3>2
  <2>7. ASSUME g.block[x].prev # NULL
        PROVE  /\ g.block[x].prev \in G /\ Class(g, g.block[x].prev) = Class(g, x)
               /\ g.block[g.block[x].prev].next = x
    <3>1. CASE x = next
      <4>1. g.block[x].prev = prev /\ prev # NULL
        BY <2>1, <2>7, <3>1
      <4> QED  BY <1>1, <1>2, <1>3, <1>4, <1>6, <2>1, <2>5, <3>1, <4>1
    <3>2. CASE x # next
      <4>1. g.block[x].prev = p /\ p # NULL
        BY <2>1, <2>7, <3>2
      <4>2. p # b
        BY <2>2, <3>2, <4>1 DEF next
      <4>3. p # prev
        BY <1>3, <2>1, <2>2, <4>1
      <4>4. p \in Dom(h)
        BY <1>2, <2>2, <4>1
      <4> QED  BY <1>1, <1>4, <2>1, <2>2, <4>1, <4>2, <4>3, <4>4
    <3> QED  BY <3>1, <3>2
  <2>8. ASSUME g.block[x].next # NULL
        PROVE  g.block[x].next \in G /\ g.block[g.block[x].next].prev = x
    <3>1. CASE x = prev
      <4>1. g.block[x].next = next /\ next # NULL
        BY <2>1, <2>8, <3>1
      <4> QED  BY <1>1, <1>2, <1>3, <1>6, <3>1, <4>1
    <3>2. CASE x # prev
      <4>1. g.block[x].next = n /\ n # NULL
        BY <2>1, <2>8, <3>2
      <4>2. n # b
        BY <2>2, <3>2, <4>1 DEF prev
      <4>3. n # next
        BY <1>3, <2>1, <2>2, <4>1
      <4>4. n \in Dom(h)
        BY <1>2, <2>2, <4>1
      <4> QED  BY <1>1, <2>2, <4>1, <4>2, <4>3, <4>4
    <3> QED  BY <3>1, <3>2
  <2> QED  BY <2>4, <2>6, <2>7, <2>8
<1>9. Heads(g, G)
  <2> SUFFICES ASSUME NEW c \in FL \X SL, g.matrix[c] # NULL
               PROVE  g.matrix[c] \in G /\ Class(g, g.matrix[c]) = c
    BY DEF Heads
  <2>1. CASE h.matrix[c] = b
    <3>1. g.matrix[c] = next /\ next # NULL
      BY <1>1, <2>1
    <3> QED  BY <1>2, <1>3, <1>4, <1>5, <1>7, <1>6, <2>1, <3>1
  <2>2. CASE h.matrix[c] # b
    <3>1. g.matrix[c] = h.matrix[c]
      BY <1>1, <2>2
    <3> QED  BY <1>2, <1>4, <2>2, <3>1 DEF Heads
  <2> QED  BY <2>1, <2>2
<1>10. Unlisted(g, G)
  BY <1>1, <1>2, <1>3 DEF Unlisted
<1>11. Ranked(g, G)
  <2>1. PICK rank \in [F -> Nat] :
           \A y \in F : h.block[y].prev # NULL => rank[h.block[y].prev] < rank[y]
    BY DEF Lists, Ranked
  <2> DEFINE less == [x \in G |-> rank[x]]
  <2>2. less \in [G -> Nat] /\ \A x \in G : less[x] = rank[x]
    OBVIOUS
  <2> HIDE DEF less
  <2>3. ASSUME NEW x \in G, g.block[x].prev # NULL PROVE less[g.block[x].prev] < less[x]
    <3>1. /\ x \in F /\ x # b /\ x \in Dom(h)
          /\ g.block[x].prev = IF x = next THEN prev ELSE h.block[x].prev
      BY <1>1, <1>2
    <3>2. g.block[x].prev \in G
      BY <1>8, <2>3 DEF Linked
    <3>3. rank[g.block[x].prev] < rank[x]
      <4>1. CASE x # next
        BY <2>1, <2>3, <3>1, <4>1
      <4>2. CASE x = next
        <5>1. g.block[x].prev = prev /\ prev # NULL /\ prev \in F /\ h.block[x].prev = b
          BY <1>2, <1>3, <2>3, <3>1, <4>2
        <5>2. rank[prev] < rank[b]
          BY <2>1, <5>1 DEF prev
        <5>3. rank[b] < rank[x]
          BY <1>2, <2>1, <3>1, <5>1
        <5>4. rank[prev] \in Nat /\ rank[b] \in Nat /\ rank[x] \in Nat
          BY <3>1, <5>1
        <5> QED  BY <5>1, <5>2, <5>3, <5>4
      <4> QED  BY <4>1, <4>2
    <3> QED  BY <2>2, <3>2, <3>3
  <2> QED  BY <2>2, <2>3 DEF Ranked
<1> QED  BY <1>1, <1>2, <1>8, <1>9, <1>10, <1>11 DEF Lists

\* Insert makes a block the first of its class.
LEMMA InsertWrites ==
  ASSUME NEW h, HeapType(h), NEW F, Lists(h, F), NEW b \in Dom(h), b \notin F,
         Class(h, b) \in FL \X SL
  PROVE  LET g == Insert(h, b)
             c == Class(h, b)
             next == h.matrix[c]
         IN  /\ HeapType(g) /\ SameShape(g, h) /\ Bits(g)
             /\ \A x \in Dom(h) :
                    /\ g.block[x].prev = IF x = b THEN NULL ELSE IF x = next THEN b
                                         ELSE h.block[x].prev
                    /\ g.block[x].next = IF x = b THEN next ELSE h.block[x].next
             /\ \A d \in FL \X SL : g.matrix[d] = IF d = c THEN b ELSE h.matrix[d]
<1> DEFINE c == Class(h, b)
           next == h.matrix[c]
           back == IF next = NULL THEN h ELSE WithPrev(h, next, b)
           linked == WithLinks(back, b, NULL, next)
           m == [linked.matrix EXCEPT ![c] = b]
           t == linked.sl_bitmap[c[1]] \cup {c[2]}
           f == linked.fl_bitmap \cup {c[1]}
           g == WithBits(linked, m, c[1], t, f)
<1>1. /\ h.matrix \in [FL \X SL -> Pointer] /\ c \in FL \X SL
      /\ Dom(h) \subseteq Address /\ NULL \notin Dom(h)
  BY NullIsNoHeader DEF HeapType, Matrix
<1>2. /\ next \in Pointer /\ b \in Pointer
      /\ NULL \in Pointer
      /\ next # NULL => next \in Dom(h) /\ next # b
  BY <1>1 DEF Pointer, Lists, Heads
<1> HIDE DEF c, next
<1>3. /\ HeapType(back) /\ SameShape(back, h) /\ SameControl(back, h)
      /\ \A x \in Dom(h) :
            /\ back.block[x].prev = IF next # NULL /\ x = next THEN b ELSE h.block[x].prev
            /\ back.block[x].next = h.block[x].next
  <2>1. CASE next = NULL
    BY <2>1 DEF SameShape, SameControl
  <2>2. CASE next # NULL
    <3>1. back = WithPrev(h, next, b)
      BY <2>2
    <3> HIDE DEF back
    <3>2. /\ HeapType(back) /\ SameShape(back, h) /\ SameControl(back, h)
          /\ \A x \in Dom(h) : /\ back.block[x].prev = IF x = next THEN b ELSE h.block[x].prev
                               /\ back.block[x].next = h.block[x].next
      BY <1>2, <2>2, <3>1, SetPrev
    <3> QED  BY <2>2, <3>2
  <2> QED  BY <2>1, <2>2
<1> HIDE DEF back
<1>4. b \in Dom(back)
  BY <1>3 DEF SameShape
<1>5. /\ HeapType(linked) /\ SameShape(linked, back) /\ SameControl(linked, back)
      /\ \A x \in Dom(back) :
            /\ linked.block[x].prev = IF x = b THEN NULL ELSE back.block[x].prev
            /\ linked.block[x].next = IF x = b THEN next ELSE back.block[x].next
  <2>1. linked = WithLinks(back, b, NULL, next)
    OBVIOUS
  <2>2. HeapType(back) /\ next \in Pointer /\ NULL \in Pointer
    BY <1>2, <1>3
  <2> HIDE DEF linked
  <2> QED  BY <1>4, <2>1, <2>2, SetLinks
<1>6. /\ SameShape(linked, h) /\ SameControl(linked, h) /\ Dom(back) = Dom(h)
  BY <1>3, <1>5 DEF SameShape, SameControl
<1>7. /\ linked.matrix = h.matrix /\ linked.sl_bitmap = h.sl_bitmap
      /\ linked.fl_bitmap = h.fl_bitmap
  BY <1>6 DEF SameControl
<1>8. Insert(h, b) = g
  <2>1. Insert(h, b) = [back EXCEPT !.block[b].prev = NULL, !.block[b].next = next,
                                    !.matrix[c] = b,
                                    !.sl_bitmap[c[1]] = @ \cup {c[2]},
                                    !.fl_bitmap = @ \cup {c[1]}]
    BY Zenon DEF Insert, WithPrev, Class, c, next, back
  <2>2. /\ linked.matrix = back.matrix /\ linked.sl_bitmap = back.sl_bitmap
        /\ linked.fl_bitmap = back.fl_bitmap
    BY <1>5 DEF SameControl
  <2> QED  BY <2>1, <2>2, Zenon DEF WithBits, WithLinks
<1> HIDE DEF linked
<1> DEFINE s == [linked.sl_bitmap EXCEPT ![c[1]] = t]
<1>9. /\ c[1] \in FL /\ c[2] \in SL
      /\ h.sl_bitmap \in [FL -> SUBSET SL] /\ h.fl_bitmap \in SUBSET FL
  BY <1>1 DEF HeapType, Bitmaps
<1>10. m \in Matrix /\ \A d \in FL \X SL : m[d] = IF d = c THEN b ELSE h.matrix[d]
  BY <1>1, <1>2, <1>7 DEF Matrix
<1>11. s \in Bitmaps /\ f \in SUBSET FL
  BY <1>7, <1>9 DEF Bitmaps
<1>12. \A a \in FL : s[a] = IF a = c[1] THEN h.sl_bitmap[a] \cup {c[2]} ELSE h.sl_bitmap[a]
  BY <1>7, <1>9
<1>13. f = h.fl_bitmap \cup {c[1]}
  BY <1>7
<1>14. g = WithControl(linked, m, s, f)
  <2> HIDE DEF m, t, f
  <2> QED  BY <1>5, SetBits
<1> HIDE DEF m, s, f, g
<1>15. /\ HeapType(g) /\ g.block = linked.block /\ SameShape(g, linked)
       /\ g.matrix = m /\ g.sl_bitmap = s /\ g.fl_bitmap = f
  BY <1>5, <1>10, <1>11, <1>14, SetControl
<1>16. SameShape(g, h)
  BY <1>6, <1>15 DEF SameShape
<1>17. Bits(g)
  <2>1. /\ \A d \in FL \X SL : d[2] \in h.sl_bitmap[d[1]] <=> h.matrix[d] # NULL
        /\ \A a \in FL : a \in h.fl_bitmap <=> h.sl_bitmap[a] # {}
    BY DEF Lists, Bits
  <2>2. ASSUME NEW d \in FL \X SL PROVE d[2] \in s[d[1]] <=> m[d] # NULL
    <3>1. d[1] \in FL /\ d[2] \in SL /\ (d = c <=> d[1] = c[1] /\ d[2] = c[2])
      BY <1>1
    <3>2. s[d[1]] = IF d[1] = c[1] THEN h.sl_bitmap[d[1]] \cup {c[2]} ELSE h.sl_bitmap[d[1]]
      BY <1>12, <3>1
    <3>3. m[d] = IF d = c THEN b ELSE h.matrix[d]
      BY <1>10
    <3>4. d[2] \in h.sl_bitmap[d[1]] <=> h.matrix[d] # NULL
      BY <2>1
    <3>5. b # NULL
      BY <1>1
    <3> QED  BY <3>1, <3>2, <3>3, <3>4, <3>5
  <2>3. ASSUME NEW a \in FL PROVE a \in f <=> s[a] # {}
    <3>1. s[a] = IF a = c[1] THEN h.sl_bitmap[a] \cup {c[2]} ELSE h.sl_bitmap[a]
      BY <1>12
    <3>2. a \in h.fl_bitmap <=> h.sl_bitmap[a] # {}
      BY <2>1
    <3> QED  BY <1>13, <3>1, <3>2
  <2> QED  BY <1>15, <2>2, <2>3 DEF Bits
<1>18. \A x \in Dom(h) :
          /\ g.block[x].prev = IF x = b THEN NULL ELSE IF x = next THEN b
                               ELSE h.block[x].prev
          /\ g.block[x].next = IF x = b THEN next ELSE h.block[x].next
  BY <1>1, <1>3, <1>5, <1>6, <1>15
<1> QED  BY <1>8, <1>10, <1>15, <1>16, <1>17, <1>18 DEF c, next

\* A block that is inserted joins the lists of the others.
LEMMA InsertLists ==
  ASSUME NEW h, HeapType(h), NEW F, Lists(h, F), NEW b \in Dom(h), b \notin F, b # Last,
         \A x \in F \cup {b} : Class(h, x) \in FL \X SL
  PROVE  LET g == Insert(h, b)
         IN  HeapType(g) /\ SameShape(g, h) /\ Lists(g, F \cup {b})
<1> DEFINE g == Insert(h, b)
           c == Class(h, b)
           next == h.matrix[c]
           G == F \cup {b}
<1>1. /\ HeapType(g) /\ SameShape(g, h) /\ Bits(g) /\ Dom(g) = Dom(h)
      /\ \A x \in Dom(h) :
             /\ g.block[x].prev = IF x = b THEN NULL ELSE IF x = next THEN b
                                  ELSE h.block[x].prev
             /\ g.block[x].next = IF x = b THEN next ELSE h.block[x].next
      /\ \A d \in FL \X SL : g.matrix[d] = IF d = c THEN b ELSE h.matrix[d]
  <2>1. c \in FL \X SL
    OBVIOUS
  <2> QED  BY <2>1, InsertWrites DEF SameShape
<1> HIDE DEF g
<1>2. /\ F \subseteq Dom(h) /\ Last \notin F /\ NULL \notin Dom(h)
      /\ Linked(h, F) /\ Heads(h, F) /\ Unlisted(h, F)
  BY NullIsNoHeader DEF Lists, HeapType
<1>3. \A x \in Dom(h) : Class(g, x) = Class(h, x)
  BY <1>1, SameClass
<1>4. c \in FL \X SL
  OBVIOUS
<1>5. next # NULL => next \in F /\ Class(h, next) = c /\ h.block[next].prev = NULL
  <2> SUFFICES ASSUME next # NULL PROVE next \in F /\ Class(h, next) = c
                                        /\ h.block[next].prev = NULL
    OBVIOUS
  <2>1. next \in F /\ Class(h, next) = c
    BY <1>2, <1>4 DEF Heads
  <2> QED  BY <1>2, <2>1 DEF Linked
<1> HIDE DEF next
<1>6. Linked(g, G)
  <2> SUFFICES ASSUME NEW x \in G
               PROVE  LET p == g.block[x].prev
                          n == g.block[x].next
                      IN  /\ g.matrix[Class(g, x)] # NULL
                          /\ p = NULL <=> g.matrix[Class(g, x)] = x
                          /\ p # NULL => /\ p \in G /\ Class(g, p) = Class(g, x)
                                         /\ g.block[p].next = x
                          /\ n # NULL => n \in G /\ g.block[n].prev = x
    BY DEF Linked
  <2>1. CASE x = b
    <3>1. /\ Class(g, x) = c /\ g.matrix[c] = b /\ b # NULL
          /\ g.block[x].prev = NULL /\ g.block[x].next = next
      BY <1>1, <1>2, <1>3, <1>4, <2>1
    <3>2. next # NULL => next \in Dom(h) /\ next # b
      BY <1>2, <1>5
    <3> QED  BY <1>1, <1>5, <2>1, <3>1, <3>2
  <2>2. CASE x # b
    <3> DEFINE p == h.block[x].prev
               n == h.block[x].next
               d == Class(h, x)
    <3>1. /\ x \in F /\ x \in Dom(h) /\ Class(g, x) = d /\ d \in FL \X SL
          /\ g.block[x].prev = IF x = next THEN b ELSE p
          /\ g.block[x].next = n
          /\ g.matrix[d] = IF d = c THEN b ELSE h.matrix[d]
      BY <1>1, <1>2, <1>3, <2>2
    <3>2. /\ h.matrix[d] # NULL
          /\ p = NULL <=> h.matrix[d] = x
          /\ p # NULL => p \in F /\ Class(h, p) = d /\ h.block[p].next = x
          /\ n # NULL => n \in F /\ h.block[n].prev = x
      BY <1>2, <3>1 DEF Linked
    <3> HIDE DEF p, n, d
    <3>3. g.matrix[Class(g, x)] # NULL
      BY <1>2, <3>1, <3>2
    <3>4. x = next => d = c
      BY <1>2, <1>5, <3>1 DEF d
    <3>5. g.block[x].prev = NULL <=> g.matrix[Class(g, x)] = x
      <4>1. CASE x = next
        BY <1>2, <2>2, <3>1, <3>4, <4>1
      <4>2. CASE x # next
        BY <2>2, <3>1, <3>2, <4>2 DEF next
      <4> QED  BY <4>1, <4>2
    <3>6. ASSUME g.block[x].prev # NULL
          PROVE  /\ g.block[x].prev \in G /\ Class(g, g.block[x].prev) = Class(g, x)
                 /\ g.block[g.block[x].prev].next = x
      <4>1. CASE x = next
        BY <1>1, <1>3, <3>1, <3>4, <4>1
      <4>2. CASE x # next
        <5>1. g.block[x].prev = p /\ p # NULL /\ p # b /\ p \in Dom(h)
          BY <1>2, <3>1, <3>2, <3>6, <4>2
        <5> QED  BY <1>1, <1>3, <3>1, <3>2, <5>1
      <4> QED  BY <4>1, <4>2
    <3>7. ASSUME g.block[x].next # NULL
          PROVE  g.block[x].next \in G /\ g.block[g.block[x].next].prev = x
      <4>1. g.block[x].next = n /\ n # NULL /\ n # b /\ n \in Dom(h)
        BY <1>2, <3>1, <3>2, <3>7
      <4>2. n # next
        BY <1>2, <1>5, <3>1, <3>2, <4>1
      <4> QED  BY <1>1, <3>2, <4>1, <4>2
    <3> QED  BY <3>3, <3>5, <3>6, <3>7
  <2> QED  BY <2>1, <2>2
<1>7. Heads(g, G)
  <2> SUFFICES ASSUME NEW d \in FL \X SL, g.matrix[d] # NULL
               PROVE  g.matrix[d] \in G /\ Class(g, g.matrix[d]) = d
    BY DEF Heads
  <2>1. CASE d = c
    BY <1>1, <1>3, <1>4, <2>1
  <2>2. CASE d # c
    <3>1. g.matrix[d] = h.matrix[d]
      BY <1>1, <2>2
    <3> QED  BY <1>2, <1>3, <3>1 DEF Heads
  <2> QED  BY <2>1, <2>2
<1>8. Unlisted(g, G)
  <2> SUFFICES ASSUME NEW x \in Dom(g) \ G
               PROVE  g.block[x].prev = NULL /\ g.block[x].next = NULL
    BY DEF Unlisted
  <2>1. x \in Dom(h) \ F /\ x # b /\ x # next
    BY <1>1, <1>2, <1>5
  <2> QED  BY <1>1, <1>2, <2>1 DEF Unlisted
<1>9. Ranked(g, G)
  <2>1. PICK rank \in [F -> Nat] :
           \A y \in F : h.block[y].prev # NULL => rank[h.block[y].prev] < rank[y]
    BY DEF Lists, Ranked
  <2> DEFINE more == [x \in G |-> IF x = b THEN 0 ELSE rank[x] + 1]
  <2>2. /\ more \in [G -> Nat] /\ more[b] = 0
        /\ \A x \in F : rank[x] \in Nat /\ more[x] = rank[x] + 1
    OBVIOUS
  <2> HIDE DEF more
  <2>3. ASSUME NEW x \in G, g.block[x].prev # NULL PROVE more[g.block[x].prev] < more[x]
    <3>1. /\ x \in F /\ x # b /\ x \in Dom(h)
          /\ g.block[x].prev = IF x = next THEN b ELSE h.block[x].prev
      BY <1>1, <1>2, <2>3
    <3>2. CASE x = next
      BY <2>2, <3>1, <3>2
    <3>3. CASE x # next
      <4>1. /\ g.block[x].prev = h.block[x].prev /\ h.block[x].prev \in F
            /\ rank[h.block[x].prev] < rank[x]
        BY <1>2, <2>1, <2>3, <3>1, <3>3 DEF Linked
      <4> QED  BY <2>2, <3>1, <4>1
    <3> QED  BY <3>2, <3>3
  <2> QED  BY <2>2, <2>3 DEF Ranked
<1> QED  BY <1>1, <1>2, <1>6, <1>7, <1>8, <1>9 DEF Lists, g

\* The lists depend on the blocks that are in them, and on the links that the
\* others do not have.
LEMMA ListsDepend ==
  ASSUME NEW g, NEW h, NEW F, Lists(h, F), SameControl(g, h), F \subseteq Dom(g),
         \A y \in F : /\ g.block[y].size = h.block[y].size
                     /\ g.block[y].prev = h.block[y].prev
                     /\ g.block[y].next = h.block[y].next,
         Unlisted(g, F)
  PROVE  Lists(g, F)
<1>1. /\ F \subseteq Dom(h) /\ Last \notin F /\ Linked(h, F) /\ Ranked(h, F)
      /\ Heads(h, F) /\ Bits(h)
  BY DEF Lists
<1>2. /\ g.matrix = h.matrix /\ g.sl_bitmap = h.sl_bitmap /\ g.fl_bitmap = h.fl_bitmap
  BY DEF SameControl
<1>3. \A y \in F : Class(g, y) = Class(h, y)
  BY DEF Class
<1>4. Linked(g, F)
  BY <1>1, <1>2, <1>3 DEF Linked
<1>5. Ranked(g, F)
  BY <1>1 DEF Ranked
<1>6. Heads(g, F)
  BY <1>1, <1>2, <1>3 DEF Heads
<1>7. Bits(g)
  BY <1>1, <1>2 DEF Bits
<1> QED  BY <1>1, <1>4, <1>5, <1>6, <1>7 DEF Lists
-----------------------------------------------------------------------------
(* How the blocks tile the area                                            *)

\* The fields of a header.
LEMMA HeaderTypes ==
  ASSUME NEW h, HeapType(h), NEW b \in Dom(h)
  PROVE  /\ b \in Nat /\ b < OS_HEAP_SIZE /\ b # NULL /\ h.block[b] \in Header
         /\ h.block[b].size \in Nat /\ h.block[b].free \in BOOLEAN
         /\ h.block[b].prevFree \in BOOLEAN
<1>1. h.block[b] \in Header /\ b \in Address
  BY DEF HeapType
<1>2. b \in Nat /\ b < OS_HEAP_SIZE /\ b # NULL
  BY <1>1, NullIsNoHeader, HeapSizeAssumption, SMT DEF Address
<1>3. h.block[b].size \in Nat /\ h.block[b].free \in BOOLEAN /\ h.block[b].prevFree \in BOOLEAN
  BY <1>1, HeapSizeAssumption, SMT DEF Header
<1> QED  BY <1>1, <1>2, <1>3

\* The ends of the area.
LEMMA Ends ==
  /\ Area = 0 /\ First = 16 /\ Space = OS_HEAP_SIZE - 32 /\ Last = OS_HEAP_SIZE - 8
  /\ Last \in Nat /\ Last >= 56
BY HeapSizeAssumption, SMT
   DEF Area, First, Last, Space, BHDR_OVERHEAD, ROUNDUP_SIZE, BLOCK_ALIGN

\* Every block ends after it begins, only one block ends where another begins,
\* and a block between the ends has a class.
LEMMA TileFacts ==
  ASSUME NEW h, HeapType(h), Tile(h), NEW b \in Dom(h), b # Last
  PROVE  /\ Next(h, b) = b + 8 + h.block[b].size /\ Next(h, b) \in Dom(h)
         /\ h.block[b].size \in Nat /\ h.block[b].size >= 8 /\ h.block[b].size % 8 = 0
         /\ b \in Nat /\ b % 8 = 0 /\ Next(h, b) > b /\ Next(h, b) <= Last
         /\ \A c \in Dom(h) : c # Last /\ Next(h, c) = Next(h, b) => c = b
         /\ b # Area => b >= 16 /\ h.block[b].size <= OS_HEAP_SIZE - 32
                        /\ Class(h, b) \in FL \X SL
<1>1. \A c \in Dom(h) : c \in Nat /\ h.block[c].size \in Nat
  BY HeaderTypes
<1>2. \A c \in Dom(h) : Next(h, c) = c + 8 + h.block[c].size
  BY DEF Next, BHDR_OVERHEAD
<1>3. /\ Next(h, b) \in Dom(h) /\ h.block[b].size >= 8 /\ h.block[b].size % 8 = 0
      /\ b % 8 = 0 /\ Next(h, b) <= Last
  BY DEF Tile
<1>4. Next(h, b) > b
  BY <1>1, <1>2
<1>5. ASSUME NEW c \in Dom(h), c # Last, Next(h, c) = Next(h, b) PROVE c = b
  <2>1. (c > b => c >= Next(h, b)) /\ (b > c => b >= Next(h, c))
    BY <1>5 DEF Tile
  <2> QED  BY <1>1, <1>2, <1>5, <2>1
<1>6. ASSUME b # Area PROVE b >= 16 /\ h.block[b].size <= OS_HEAP_SIZE - 32
  <2>1. Area \in Dom(h) /\ Area # Last /\ Area = 0 /\ h.block[Area].size >= 8
    BY Ends DEF Tile
  <2>2. b >= Next(h, Area) /\ Next(h, Area) = 8 + h.block[Area].size
    <3>1. b > Area
      BY <1>1, <1>6, <2>1
    <3>2. b >= Next(h, Area)
      BY <2>1, <3>1 DEF Tile
    <3> QED  BY <1>1, <1>2, <2>1, <3>2
  <2>3. b >= 16
    <3>1. b \in Nat /\ h.block[Area].size \in Nat /\ h.block[Area].size >= 8
      BY <1>1, <2>1
    <3> QED  BY <2>2, <3>1
  <2> QED  BY <1>1, <1>2, <1>3, <2>3, Ends, HeapSizeAssumption
<1>7. b # Area => Class(h, b) \in FL \X SL
  BY <1>1, <1>6, ClassInRange DEF Class
<1> QED  BY <1>1, <1>2, <1>3, <1>4, <1>5, <1>6, <1>7

\* What the shape decides: where blocks begin and end, which of them are free,
\* and what their neighbours know.
LEMMA ShapeDecides ==
  ASSUME NEW g, NEW h, HeapType(g), SameShape(g, h), Tile(h)
  PROVE  /\ Tile(g) /\ Free(g) = Free(h)
         /\ \A b \in Dom(h) : Next(g, b) = Next(h, b)
         /\ \A b \in Dom(h) : NeighBut(h, b) => NeighBut(g, b)
         /\ Neigh(h) => Neigh(g)
<1>1. Dom(g) = Dom(h) /\ \A x \in Dom(h) : /\ g.block[x].size = h.block[x].size
                                           /\ g.block[x].free = h.block[x].free
                                           /\ g.block[x].prevFree = h.block[x].prevFree
                                           /\ g.block[x].prev_hdr = h.block[x].prev_hdr
  BY DEF SameShape
<1>2. \A b \in Dom(h) : Next(g, b) = Next(h, b)
  BY <1>1 DEF Next
<1>3. Area \in Dom(h) /\ Last \in Dom(h) /\ \A b \in Dom(h) \ {Last} : Next(h, b) \in Dom(h)
  BY DEF Tile
<1>4. Tile(g)
  BY <1>1, <1>2 DEF Tile
<1>5. Free(g) = Free(h)
  BY <1>1 DEF Free
<1>6. \A x \in Dom(h) : Behind(h, x) <=> Behind(g, x)
  BY <1>1, <1>2 DEF Behind
<1>7. \A x \in Dom(h) : Behind(h, x) => h.block[x].prev_hdr \in Dom(h)
  BY DEF Behind
<1>8. ASSUME NEW b \in Dom(h), NeighBut(h, b) PROVE NeighBut(g, b)
  BY <1>1, <1>2, <1>3, <1>6, <1>7, <1>8 DEF NeighBut
<1>9. ASSUME Neigh(h) PROVE Neigh(g)
  BY <1>1, <1>2, <1>3, <1>6, <1>7, <1>9 DEF Neigh
<1> QED  BY <1>2, <1>4, <1>5, <1>8, <1>9
-----------------------------------------------------------------------------
(* Joining two blocks                                                      *)

\* Join gives a block the space of the one after it, whose header goes.
LEMMA JoinWrites ==
  ASSUME NEW h, HeapType(h), Tile(h), NEW b \in Dom(h), b # Area, b # Last,
         NEW c, c = Next(h, b), c # Last, NEW g, g = Join(h, b, c)
  PROVE  /\ HeapType(g) /\ Tile(g) /\ SameControl(g, h) /\ Dom(g) = Dom(h) \ {c}
         /\ c \in Dom(h) /\ c # b /\ c # Area
         /\ Next(g, b) = Next(h, c)
         /\ \A x \in Dom(g) : x # b => g.block[x] = h.block[x] /\ Next(g, x) = Next(h, x)
         /\ g.block[b].free = h.block[b].free /\ g.block[b].prevFree = h.block[b].prevFree
         /\ g.block[b].prev_hdr = h.block[b].prev_hdr
         /\ g.block[b].prev = h.block[b].prev /\ g.block[b].next = h.block[b].next
<1> DEFINE size == h.block[b].size + h.block[c].size + BHDR_OVERHEAD
           r == [h.block[b] EXCEPT !.size = size]
           D == Dom(h) \ {c}
           block == [a \in D |-> IF a = b THEN r ELSE h.block[a]]
<1>1. /\ c = b + 8 + h.block[b].size /\ c \in Dom(h) /\ h.block[b].size \in Nat
      /\ h.block[b].size >= 8 /\ h.block[b].size % 8 = 0 /\ b \in Nat /\ b % 8 = 0
      /\ c > b /\ b >= 16
  BY TileFacts
<1>2. /\ Next(h, c) = c + 8 + h.block[c].size /\ Next(h, c) \in Dom(h)
      /\ h.block[c].size \in Nat /\ h.block[c].size >= 8 /\ h.block[c].size % 8 = 0
      /\ c \in Nat /\ Next(h, c) > c /\ Next(h, c) <= Last
  BY <1>1, TileFacts
<1>3. size \in Nat /\ size >= 8 /\ size % 8 = 0 /\ size <= OS_HEAP_SIZE
  BY <1>1, <1>2, Ends, HeapSizeAssumption, SMT DEF BHDR_OVERHEAD
<1> HIDE DEF size
<1>4. h.block[b] \in Header /\ h.block \in [Dom(h) -> Header] /\ Dom(h) \in SUBSET Address
  BY DEF HeapType
<1>5. /\ r \in Header /\ r.size = size /\ r.free = h.block[b].free
      /\ r.prevFree = h.block[b].prevFree /\ r.prev_hdr = h.block[b].prev_hdr
      /\ r.prev = h.block[b].prev /\ r.next = h.block[b].next
  BY <1>3, <1>4, HeapSizeAssumption, SMT DEF Header
<1> HIDE DEF r
<1>6. /\ block \in [D -> Header] /\ D \in SUBSET Address
      /\ \A x \in D : block[x] = IF x = b THEN r ELSE h.block[x]
  BY <1>4, <1>5
<1>7. g = WithBlocks(h, block)
  BY Zenon DEF Join, WithBlocks, Dom, size, r
<1> HIDE DEF block, D
<1>8. HeapType(g) /\ SameControl(g, h) /\ g.block = block /\ Dom(g) = D
  BY <1>6, <1>7, WriteBlocks
<1>9. D = Dom(h) \ {c}
  BY DEF D
<1>10. \A x \in Dom(g) : x # b => g.block[x] = h.block[x] /\ Next(g, x) = Next(h, x)
  BY <1>6, <1>8 DEF Next
<1>11. b \in Dom(g) /\ g.block[b] = r
  BY <1>1, <1>6, <1>8, <1>9
<1>12. Next(g, b) = Next(h, c)
  BY <1>1, <1>2, <1>5, <1>11 DEF Next, BHDR_OVERHEAD, size
<1>13. Tile(g)
  <2>1. /\ Area \in Dom(h) /\ Last \in Dom(h) /\ h.block[Last].size = 0
        /\ \A x \in Dom(h) : x <= Last /\ x % 8 = 0 /\ h.block[x].size % 8 = 0
        /\ \A x \in Dom(h) \ {Last} : h.block[x].size >= 8 /\ Next(h, x) \in Dom(h)
        /\ \A x, y \in Dom(h) : x # Last /\ y > x => y >= Next(h, x)
    BY DEF Tile
  <2>2. c # Area
    BY <1>1, <1>2, Ends
  <2>3. Area \in Dom(g) /\ Last \in Dom(g) /\ g.block[Last].size = 0
    BY <1>8, <1>9, <1>10, <2>1, <2>2
  <2>4. \A x \in Dom(g) : x <= Last /\ x % 8 = 0 /\ g.block[x].size % 8 = 0
    BY <1>3, <1>5, <1>8, <1>9, <1>10, <1>11, <2>1
  <2>5. ASSUME NEW x \in Dom(g) \ {Last}
        PROVE  g.block[x].size >= 8 /\ Next(g, x) \in Dom(g)
    <3>1. CASE x = b
      <4>1. Next(h, c) # c
        BY <1>2
      <4> QED  BY <1>2, <1>3, <1>5, <1>8, <1>9, <1>11, <1>12, <3>1, <4>1
    <3>2. CASE x # b
      <4>1. x \in Dom(h) /\ Next(h, x) # c
        BY <1>8, <1>9, <3>2, TileFacts
      <4> QED  BY <1>8, <1>9, <1>10, <2>1, <3>2, <4>1
    <3> QED  BY <3>1, <3>2
  <2>6. ASSUME NEW x \in Dom(g), NEW y \in Dom(g), x # Last, y > x
        PROVE  y >= Next(g, x)
    <3>1. x \in Dom(h) /\ y \in Dom(h) /\ y # c
      BY <1>8, <1>9
    <3>2. y >= Next(h, x)
      BY <2>1, <2>6, <3>1
    <3>3. CASE x = b
      <4>1. y \in Nat
        BY <3>1, HeaderTypes
      <4>2. y > c
        BY <1>2, <3>1, <3>2, <3>3, <4>1
      <4>3. y >= Next(h, c)
        BY <1>1, <2>1, <3>1, <4>2
      <4> QED  BY <1>12, <3>3, <4>3
    <3>4. CASE x # b
      BY <1>10, <3>2, <3>4
    <3> QED  BY <3>3, <3>4
  <2> QED  BY <2>3, <2>4, <2>5, <2>6 DEF Tile
<1>14. c # b /\ c # Area
  BY <1>1, <1>2, Ends
<1> QED  BY <1>1, <1>5, <1>8, <1>9, <1>10, <1>11, <1>12, <1>13, <1>14

\* The lists do not notice, if neither of the two is in one.
LEMMA JoinLists ==
  ASSUME NEW g, NEW h, NEW b, NEW c, NEW F, Lists(h, F), SameControl(g, h),
         b \in Dom(g), Dom(g) = Dom(h) \ {c}, b \notin F, c \notin F,
         \A x \in Dom(g) : x # b => g.block[x] = h.block[x],
         g.block[b].prev = h.block[b].prev, g.block[b].next = h.block[b].next
  PROVE  Lists(g, F)
<1>1. F \subseteq Dom(g) /\ \A x \in F : g.block[x] = h.block[x]
  BY DEF Lists
<1>2. Unlisted(g, F)
  BY DEF Lists, Unlisted
<1> QED  BY <1>1, <1>2, ListsDepend
-----------------------------------------------------------------------------
(* free_ex                                                                 *)

\* The block b is being freed: it is free, but in no list yet.
Freeing(h, b) == HeapType(h) /\ Tile(h) /\ NeighBut(h, b) /\ Lists(h, Free(h) \ {b})

\* Blocks that are not free stay as they are, apart from b.
Kept(g, h, b) == \A x \in Dom(h) : ~ h.block[x].free /\ x # b =>
    x \in Dom(g) /\ ~ g.block[x].free /\ g.block[x].size = h.block[x].size

\* A free block other than the one being freed leaves its list.
LEMMA OutWrites ==
  ASSUME NEW h, NEW b, Freeing(h, b), NEW c \in Free(h), c # b, NEW k, k = Out(h, c)
  PROVE  /\ HeapType(k) /\ Tile(k) /\ NeighBut(k, b) /\ SameShape(k, h)
         /\ Lists(k, (Free(h) \ {b}) \ {c})
<1> DEFINE F == Free(h) \ {b}
<1>1. /\ HeapType(h) /\ Tile(h) /\ NeighBut(h, b) /\ Lists(h, F) /\ c \in F
      /\ b \in Dom(h)
  BY DEF Freeing, NeighBut
<1>2. \A x \in F : Class(h, x) \in FL \X SL
  <2> TAKE x \in F
  <2>1. x \in Dom(h) /\ x # Area /\ x # Last
    BY <1>1 DEF NeighBut, Free
  <2> QED  BY <1>1, <2>1, TileFacts
<1> HIDE DEF F
<1>3. k = Extract(h, c, Class(h, c))
  BY DEF Out, Class
<1>4. Removed(k, h, c)
  BY <1>1, <1>2, <1>3, ExtractRemoves
<1>5. Lists(k, F \ {c})
  BY <1>1, <1>2, <1>4, RemovedLists
<1>6. HeapType(k) /\ SameShape(k, h)
  BY <1>4 DEF Removed
<1>7. Tile(k) /\ NeighBut(k, b)
  BY <1>1, <1>6, ShapeDecides
<1> QED  BY <1>5, <1>6, <1>7 DEF F

\* The next block is joined, if it is free; the one after it is not.
LEMMA JoinNextStep ==
  ASSUME NEW h, NEW b, Freeing(h, b), NEW g, g = JoinNext(h, b)
  PROVE  /\ Freeing(g, b) /\ ~ g.block[Next(g, b)].free /\ Kept(g, h, b)
         /\ g.block[b].prevFree = h.block[b].prevFree
         /\ g.block[b].prev_hdr = h.block[b].prev_hdr
<1> DEFINE c == Next(h, b)
<1>1. /\ HeapType(h) /\ Tile(h) /\ NeighBut(h, b) /\ Lists(h, Free(h) \ {b})
      /\ b \in Dom(h) /\ b # Area /\ b # Last /\ h.block[b].free
  BY DEF Freeing, NeighBut
<1>2. c \in Dom(h) /\ c # b
  <2>1. b \in Nat /\ c > b /\ c \in Dom(h)
    BY <1>1, TileFacts
  <2> QED  BY <2>1
<1>3. CASE ~ h.block[c].free
  <2>1. g = h
    BY <1>3 DEF JoinNext
  <2> QED  BY <1>3, <2>1 DEF Kept
<1>4. CASE h.block[c].free
  <2> DEFINE k == Out(h, c)
  <2>1. g = Join(k, b, c)
    BY <1>4 DEF JoinNext
  <2>2. c # Last /\ c \in Free(h)
    BY <1>1, <1>2, <1>4 DEF NeighBut, Free
  <2>3. /\ HeapType(k) /\ Tile(k) /\ NeighBut(k, b) /\ SameShape(k, h)
        /\ Lists(k, (Free(h) \ {b}) \ {c})
    BY <1>2, <2>2, OutWrites
  <2> HIDE DEF k, c
  <2>4. Next(k, b) = c /\ Dom(k) = Dom(h) /\ Free(k) = Free(h)
    BY <1>1, <2>3, ShapeDecides DEF SameShape, c
  <2>5. b \in Dom(k)
    BY <1>1, <2>4
  <2>6. /\ HeapType(g) /\ Tile(g) /\ SameControl(g, k) /\ Dom(g) = Dom(k) \ {c}
        /\ c \in Dom(k) /\ c # b /\ c # Area
        /\ Next(g, b) = Next(k, c)
        /\ \A x \in Dom(g) : x # b => g.block[x] = k.block[x] /\ Next(g, x) = Next(k, x)
        /\ g.block[b].free = k.block[b].free /\ g.block[b].prevFree = k.block[b].prevFree
        /\ g.block[b].prev_hdr = k.block[b].prev_hdr
        /\ g.block[b].prev = k.block[b].prev /\ g.block[b].next = k.block[b].next
    BY <1>1, <2>1, <2>2, <2>3, <2>4, <2>5, JoinWrites
  <2>7. b \in Dom(g) /\ Free(g) = Free(k) \ {c}
    BY <2>5, <2>6 DEF Free
  <2>8. Lists(g, Free(g) \ {b})
    <3>1. Free(g) \ {b} = (Free(h) \ {b}) \ {c}
      BY <2>4, <2>7
    <3> DEFINE F == (Free(h) \ {b}) \ {c}
    <3>2. b \notin F /\ c \notin F /\ Lists(k, F)
      BY <2>3
    <3> HIDE DEF F
    <3>3. Lists(g, F)
      BY <2>6, <2>7, <3>2, JoinLists
    <3> QED  BY <3>1, <3>3 DEF F
  <2>9. NeighBut(g, b) /\ ~ g.block[Next(g, b)].free
    <3>1. /\ k.block[c].free /\ k.block[b].free
          /\ ~ k.block[Area].free /\ ~ k.block[Area].prevFree /\ ~ k.block[Last].free
      BY <1>2, <1>4, <2>3 DEF NeighBut, SameShape, c
    <3>2. \A d \in Dom(k) \ {Last, b} :
              /\ k.block[Next(k, d)].prevFree <=> k.block[d].free
              /\ k.block[d].free => /\ k.block[Next(k, d)].prev_hdr = d
                                    /\ Next(k, d) # b => ~ k.block[Next(k, d)].free
      BY <2>3 DEF NeighBut
    <3>3. \A x \in Dom(k) \ {c} :
              /\ k.block[x].prev_hdr # NULL => Behind(k, x)
              /\ k.block[x].prevFree => k.block[x].prev_hdr # NULL
                                        /\ k.block[k.block[x].prev_hdr].free
      BY <2>3, <2>4 DEF NeighBut
    <3>4. /\ Next(k, c) \in Dom(k) /\ Next(k, c) # b /\ Next(k, c) # c
      <4>1. c > b /\ b \in Nat
        BY <1>1, <2>3, <2>4, <2>5, TileFacts
      <4>2. c \in Nat /\ Next(k, c) > c /\ Next(k, c) \in Dom(k)
        BY <2>2, <2>3, <2>6, TileFacts
      <4>3. Next(k, c) \in Nat
        BY <2>3, <4>2, HeaderTypes
      <4> QED  BY <4>1, <4>2, <4>3
    <3>5. Area \in Dom(g) /\ Last \in Dom(g) /\ Area # b /\ Last # b
      BY <1>1, <2>6 DEF Tile
    <3>6. ~ g.block[Next(g, b)].free
      BY <2>2, <2>6, <3>1, <3>2, <3>4
    <3>7. \A d \in Dom(g) \ {Last, b} : Next(k, d) # c /\ Next(k, d) \in Dom(g)
      <4> TAKE d \in Dom(g) \ {Last, b}
      <4>1. Next(k, d) \in Dom(k) /\ Next(k, d) # Next(k, b)
        BY <1>1, <2>3, <2>5, <2>6, TileFacts
      <4> QED  BY <2>4, <2>6, <4>1
    <3>8. ASSUME NEW d \in Dom(g) \ {Last, b}
          PROVE  /\ g.block[Next(g, d)].prevFree <=> g.block[d].free
                 /\ g.block[d].free => /\ g.block[Next(g, d)].prev_hdr = d
                                       /\ Next(g, d) # b => ~ g.block[Next(g, d)].free
      <4>1. /\ d \in Dom(k) \ {Last, b} /\ g.block[d] = k.block[d]
            /\ Next(g, d) = Next(k, d) /\ Next(k, d) \in Dom(g)
        BY <2>6, <3>7
      <4>2. /\ g.block[Next(k, d)].prevFree = k.block[Next(k, d)].prevFree
            /\ g.block[Next(k, d)].prev_hdr = k.block[Next(k, d)].prev_hdr
            /\ g.block[Next(k, d)].free = k.block[Next(k, d)].free
        BY <2>6, <4>1
      <4> QED  BY <3>2, <4>1, <4>2
    <3>9. ASSUME NEW x \in Dom(g) \ {Next(g, b)}
          PROVE  /\ g.block[x].prev_hdr # NULL => Behind(g, x)
                 /\ g.block[x].prevFree => g.block[x].prev_hdr # NULL
                                           /\ g.block[g.block[x].prev_hdr].free
      <4> DEFINE p == k.block[x].prev_hdr
      <4>1. /\ x \in Dom(k) \ {c} /\ g.block[x].prev_hdr = p
            /\ g.block[x].prevFree = k.block[x].prevFree
        BY <2>6
      <4>2. ASSUME p # NULL
            PROVE  p \in Dom(g) \ {Last, b} /\ Next(k, p) = x
        <5>1. p \in Dom(k) \ {Last} /\ Next(k, p) = x
          BY <3>3, <4>1, <4>2 DEF Behind
        <5>2. p # c /\ p # b
          BY <2>4, <2>6, <4>1, <5>1
        <5> QED  BY <2>6, <5>1, <5>2
      <4> HIDE DEF p
      <4>3. p # NULL => Behind(g, x)
        BY <2>6, <4>1, <4>2 DEF Behind
      <4>4. g.block[x].prevFree => p # NULL /\ k.block[p].free
        BY <3>3, <4>1 DEF p
      <4> QED  BY <2>6, <4>1, <4>2, <4>3, <4>4
    <3>10. b \in Dom(g) \ {Area, Last} /\ g.block[b].free
      BY <1>1, <2>6, <2>7, <3>1
    <3>11. ~ g.block[Area].free /\ ~ g.block[Area].prevFree /\ ~ g.block[Last].free
      BY <2>6, <3>1, <3>5
    <3> QED  BY <3>6, <3>8, <3>9, <3>10, <3>11 DEF NeighBut
  <2>10. Kept(g, h, b)
    <3> SUFFICES ASSUME NEW x \in Dom(h), ~ h.block[x].free, x # b
                 PROVE  x \in Dom(g) /\ ~ g.block[x].free /\ g.block[x].size = h.block[x].size
      BY DEF Kept
    <3>1. x # c
      BY <1>4 DEF c
    <3> QED  BY <2>3, <2>4, <2>6, <3>1 DEF SameShape
  <2>11. /\ g.block[b].prevFree = h.block[b].prevFree
         /\ g.block[b].prev_hdr = h.block[b].prev_hdr
    BY <1>1, <2>3, <2>6, SMTT(20) DEF SameShape
  <2> QED  BY <2>6, <2>8, <2>9, <2>10, <2>11 DEF Freeing
<1> QED  BY <1>3, <1>4

\* The block before is joined, if it is free; the one before that is not.
LEMMA JoinPrevStep ==
  ASSUME NEW h, NEW b, Freeing(h, b), ~ h.block[Next(h, b)].free, NEW g, g = JoinPrev(h, b),
         NEW first, first = IF h.block[b].prevFree THEN h.block[b].prev_hdr ELSE b
  PROVE  /\ Freeing(g, first) /\ ~ g.block[Next(g, first)].free
         /\ ~ g.block[first].prevFree /\ Kept(g, h, b)
<1>1. /\ HeapType(h) /\ Tile(h) /\ NeighBut(h, b) /\ Lists(h, Free(h) \ {b})
      /\ b \in Dom(h) /\ b # Area /\ b # Last /\ h.block[b].free
  BY DEF Freeing, NeighBut
<1>2. CASE ~ h.block[b].prevFree
  <2>1. g = h /\ first = b
    BY <1>2 DEF JoinPrev
  <2> QED  BY <1>2, <2>1 DEF Kept
<1>3. CASE h.block[b].prevFree
  <2> DEFINE a == h.block[b].prev_hdr
             k == Out(h, a)
  <2>1. g = Join(k, a, b) /\ first = a
    BY <1>3 DEF JoinPrev
  <2>2. Next(h, b) # b
    <3>1. b \in Nat /\ Next(h, b) > b /\ Next(h, b) \in Dom(h)
      BY <1>1, TileFacts
    <3> QED  BY <3>1
  <2>3. a \in Dom(h) \ {Last} /\ Next(h, a) = b /\ h.block[a].free /\ a # Area
    BY <1>1, <1>3, <2>2 DEF NeighBut, Behind
  <2>4. a \in Free(h) /\ a # b
    BY <2>2, <2>3 DEF Free
  <2>5. /\ HeapType(k) /\ Tile(k) /\ NeighBut(k, b) /\ SameShape(k, h)
        /\ Lists(k, (Free(h) \ {b}) \ {a})
    BY <2>4, OutWrites
  <2> HIDE DEF k, a
  <2>6. Next(k, a) = b /\ Dom(k) = Dom(h) /\ Free(k) = Free(h) /\ Next(k, b) = Next(h, b)
    BY <1>1, <2>3, <2>5, ShapeDecides DEF SameShape
  <2>7. a \in Dom(k)
    BY <2>3, <2>6
  <2>8. /\ HeapType(g) /\ Tile(g) /\ SameControl(g, k) /\ Dom(g) = Dom(k) \ {b}
        /\ Next(g, a) = Next(k, b)
        /\ \A x \in Dom(g) : x # a => g.block[x] = k.block[x] /\ Next(g, x) = Next(k, x)
        /\ g.block[a].free = k.block[a].free /\ g.block[a].prevFree = k.block[a].prevFree
        /\ g.block[a].prev_hdr = k.block[a].prev_hdr
        /\ g.block[a].prev = k.block[a].prev /\ g.block[a].next = k.block[a].next
    BY <1>1, <2>1, <2>3, <2>5, <2>6, <2>7, JoinWrites
  <2>9. a \in Dom(g) /\ Free(g) = Free(k) \ {b}
    BY <2>4, <2>7, <2>8 DEF Free
  <2>10. Lists(g, Free(g) \ {a})
    <3>1. Free(g) \ {a} = (Free(h) \ {b}) \ {a}
      BY <2>6, <2>9
    <3> DEFINE F == (Free(h) \ {b}) \ {a}
    <3>2. a \notin F /\ b \notin F /\ Lists(k, F)
      BY <2>5
    <3> HIDE DEF F
    <3>3. Lists(g, F)
      BY <2>8, <2>9, <3>2, JoinLists
    <3> QED  BY <3>1, <3>3 DEF F
  <2>11. /\ k.block[a].free /\ ~ k.block[Next(k, b)].free
         /\ ~ k.block[Area].free /\ ~ k.block[Area].prevFree /\ ~ k.block[Last].free
    <3>1. Next(h, b) \in Dom(h)
      BY <1>1, TileFacts
    <3> QED  BY <2>3, <2>5, <2>6, <3>1 DEF NeighBut, SameShape
  <2>12. \A d \in Dom(k) \ {Last, b} :
              /\ k.block[Next(k, d)].prevFree <=> k.block[d].free
              /\ k.block[d].free => /\ k.block[Next(k, d)].prev_hdr = d
                                    /\ Next(k, d) # b => ~ k.block[Next(k, d)].free
    BY <2>5 DEF NeighBut
  <2>13. \A x \in Dom(k) \ {Next(k, b)} :
              /\ k.block[x].prev_hdr # NULL => Behind(k, x)
              /\ k.block[x].prevFree => k.block[x].prev_hdr # NULL
                                        /\ k.block[k.block[x].prev_hdr].free
    BY <2>5 DEF NeighBut
  <2>14. /\ Next(k, b) \in Dom(k) /\ Next(k, b) # a /\ Next(k, b) # b
    <3>1. b > a /\ a \in Nat
      BY <2>3, <2>5, <2>6, <2>7, TileFacts
    <3>2. b \in Nat /\ Next(k, b) > b /\ Next(k, b) \in Dom(k)
      BY <1>1, <2>5, <2>6, TileFacts
    <3>3. Next(k, b) \in Nat
      BY <2>5, <3>2, HeaderTypes
    <3> QED  BY <3>1, <3>2, <3>3
  <2>15. ~ g.block[Next(g, a)].free
    BY <2>8, <2>11, <2>14
  <2>16. ~ g.block[a].prevFree
    <3> SUFFICES ASSUME k.block[a].prevFree PROVE FALSE
      BY <2>8
    <3> DEFINE p == k.block[a].prev_hdr
    <3>1. p \in Dom(k) \ {Last} /\ Next(k, p) = a /\ k.block[p].free
      BY <2>7, <2>13, <2>14 DEF Behind
    <3> HIDE DEF p
    <3>2. p # b
      BY <2>14, <3>1
    <3> QED  BY <2>4, <2>11, <2>12, <3>1, <3>2
  <2>17. NeighBut(g, a)
    <3>1. Area \in Dom(g) /\ Last \in Dom(g) /\ Area # a /\ Last # a
      BY <2>3, <2>8 DEF Tile
    <3>2. \A d \in Dom(g) \ {Last, a} : Next(k, d) # b /\ Next(k, d) \in Dom(g)
      <4> TAKE d \in Dom(g) \ {Last, a}
      <4>1. d \in Dom(k) /\ d # Last
        BY <2>8
      <4>2. Next(k, d) \in Dom(k)
        BY <2>5, <4>1, TileFacts
      <4>3. Next(k, d) # Next(k, a)
        BY <2>3, <2>5, <2>7, <4>1, TileFacts
      <4> QED  BY <2>6, <2>8, <4>2, <4>3
    <3>3. ASSUME NEW d \in Dom(g) \ {Last, a}
          PROVE  /\ g.block[Next(g, d)].prevFree <=> g.block[d].free
                 /\ g.block[d].free => /\ g.block[Next(g, d)].prev_hdr = d
                                       /\ Next(g, d) # a => ~ g.block[Next(g, d)].free
      <4>1. /\ d \in Dom(k) \ {Last, b} /\ g.block[d] = k.block[d]
            /\ Next(g, d) = Next(k, d) /\ Next(k, d) \in Dom(g) /\ Next(k, d) # b
        BY <2>8, <3>2
      <4>2. /\ g.block[Next(k, d)].prevFree = k.block[Next(k, d)].prevFree
            /\ g.block[Next(k, d)].prev_hdr = k.block[Next(k, d)].prev_hdr
            /\ g.block[Next(k, d)].free = k.block[Next(k, d)].free
        BY <2>8, <4>1
      <4> QED  BY <2>12, <4>1, <4>2
    <3>4. ASSUME NEW x \in Dom(g) \ {Next(g, a)}
          PROVE  /\ g.block[x].prev_hdr # NULL => Behind(g, x)
                 /\ g.block[x].prevFree => g.block[x].prev_hdr # NULL
                                           /\ g.block[g.block[x].prev_hdr].free
      <4> DEFINE p == k.block[x].prev_hdr
      <4>1. /\ x \in Dom(k) \ {Next(k, b)} /\ x # b /\ g.block[x].prev_hdr = p
            /\ g.block[x].prevFree = k.block[x].prevFree
        BY <2>8
      <4>2. ASSUME p # NULL
            PROVE  p \in Dom(g) \ {Last, a} /\ Next(k, p) = x
        <5>1. p \in Dom(k) \ {Last} /\ Next(k, p) = x
          BY <2>13, <4>1, <4>2 DEF Behind
        <5>2. p # b /\ p # a
          BY <2>6, <4>1, <5>1
        <5> QED  BY <2>8, <5>1, <5>2
      <4> HIDE DEF p
      <4>3. p # NULL => Behind(g, x)
        BY <2>8, <4>1, <4>2 DEF Behind
      <4>4. g.block[x].prevFree => p # NULL /\ k.block[p].free
        BY <2>13, <4>1 DEF p
      <4> QED  BY <2>8, <4>1, <4>2, <4>3, <4>4
    <3>5. a \in Dom(g) \ {Area, Last} /\ g.block[a].free
      BY <2>3, <2>8, <2>9, <2>11
    <3>6. ~ g.block[Area].free /\ ~ g.block[Area].prevFree /\ ~ g.block[Last].free
      BY <2>8, <2>11, <3>1
    <3> QED  BY <3>3, <3>4, <3>5, <3>6 DEF NeighBut
  <2>18. Kept(g, h, b)
    <3> SUFFICES ASSUME NEW x \in Dom(h), ~ h.block[x].free, x # b
                 PROVE  x \in Dom(g) /\ ~ g.block[x].free /\ g.block[x].size = h.block[x].size
      BY DEF Kept
    <3>1. x # a
      BY <2>3
    <3> QED  BY <2>5, <2>6, <2>8, <3>1 DEF SameShape
  <2> QED  BY <2>1, <2>8, <2>10, <2>15, <2>16, <2>17, <2>18 DEF Freeing
<1> QED  BY <1>2, <1>3

\* A header with the same size and links leaves the tiling and the lists.
LEMMA FieldsKept ==
  ASSUME NEW h, HeapType(h), Tile(h), NEW x \in Dom(h), NEW r \in Header,
         r.size = h.block[x].size, r.prev = h.block[x].prev, r.next = h.block[x].next,
         NEW g, g = WithHeader(h, x, r)
  PROVE  /\ HeapType(g) /\ Tile(g) /\ SameControl(g, h) /\ Dom(g) = Dom(h)
         /\ g.block[x] = r /\ \A y \in Dom(h) : y # x => g.block[y] = h.block[y]
         /\ \A y \in Dom(h) : g.block[y].size = h.block[y].size /\ Next(g, y) = Next(h, y)
         /\ \A F : Lists(h, F) => Lists(g, F)
<1>1. /\ HeapType(g) /\ SameControl(g, h) /\ Dom(g) = Dom(h)
      /\ g.block[x] = r /\ \A y \in Dom(h) : y # x => g.block[y] = h.block[y]
  BY WriteHeader
<1>2. \A y \in Dom(h) : /\ g.block[y].size = h.block[y].size /\ Next(g, y) = Next(h, y)
                        /\ g.block[y].prev = h.block[y].prev
                        /\ g.block[y].next = h.block[y].next
  BY <1>1 DEF Next
<1>3. Tile(g)
  BY <1>1, <1>2 DEF Tile
<1>4. ASSUME NEW F, Lists(h, F) PROVE Lists(g, F)
  <2>1. F \subseteq Dom(g) /\ Unlisted(g, F)
    BY <1>1, <1>2, <1>4 DEF Lists, Unlisted
  <2>2. \A y \in F : /\ g.block[y].size = h.block[y].size
                    /\ g.block[y].prev = h.block[y].prev
                    /\ g.block[y].next = h.block[y].next
    BY <1>1, <1>2, <2>1
  <2> QED  BY <1>1, <1>4, <2>1, <2>2, ListsDepend
<1> QED  BY <1>1, <1>2, <1>3, <1>4

\* The heap with another number of bytes in use.
WithUsed(h, u) == [h EXCEPT !.used_size = u]

\* Nothing else depends on it.
LEMMA SetUsed ==
  ASSUME NEW h, HeapType(h), NEW u, NEW g, g = WithUsed(h, u)
  PROVE  /\ HeapType(g) /\ g.block = h.block /\ SameShape(g, h)
         /\ \A F : Lists(h, F) => Lists(g, F)
<1>1. h = [block |-> h.block, matrix |-> h.matrix, sl_bitmap |-> h.sl_bitmap,
           fl_bitmap |-> h.fl_bitmap, used_size |-> h.used_size]
  BY DEF HeapType
<1>2. g = [block |-> h.block, matrix |-> h.matrix, sl_bitmap |-> h.sl_bitmap,
           fl_bitmap |-> h.fl_bitmap, used_size |-> u]
  BY <1>1, SMT DEF WithUsed
<1>3. /\ g.block = h.block /\ g.matrix = h.matrix /\ g.sl_bitmap = h.sl_bitmap
      /\ g.fl_bitmap = h.fl_bitmap /\ g.used_size = u
  BY <1>2, SMT
<1>4. Dom(g) = Dom(h)
  BY <1>3 DEF Dom
<1>5. HeapType(g)
  BY <1>2, <1>3, <1>4, Zenon DEF HeapType
<1>6. SameShape(g, h)
  BY <1>3, <1>4 DEF SameShape
<1>7. ASSUME NEW F, Lists(h, F) PROVE Lists(g, F)
  <2>1. SameControl(g, h)
    BY <1>3 DEF SameControl
  <2>2. F \subseteq Dom(g) /\ Unlisted(g, F)
    BY <1>3, <1>4, <1>7 DEF Lists, Unlisted
  <2>3. \A y \in F : /\ g.block[y].size = h.block[y].size
                    /\ g.block[y].prev = h.block[y].prev
                    /\ g.block[y].next = h.block[y].next
    BY <1>3
  <2> QED  BY <1>7, <2>1, <2>2, <2>3, ListsDepend
<1> QED  BY <1>3, <1>5, <1>6, <1>7

\* The heap still is one, with blocks in the same places and the same lists.
SameLists(g, h) ==
    /\ HeapType(g) /\ Tile(g) /\ Dom(g) = Dom(h)
    /\ \A y \in Dom(h) : g.block[y].size = h.block[y].size /\ Next(g, y) = Next(h, y)
    /\ \A F : Lists(h, F) => Lists(g, F)

\* The writes to a header that are not about its list.
WithFree(h, x, v) == [h EXCEPT !.block[x].free = v]
WithPrevFree(h, x, v) == [h EXCEPT !.block[x].prevFree = v]
WithPrevHdr(h, x, v) == [h EXCEPT !.block[x].prev_hdr = v]

\* Whether a block is free changes no list.
LEMMA SetFree ==
  ASSUME NEW h, HeapType(h), Tile(h), NEW x \in Dom(h), NEW v \in BOOLEAN,
         NEW g, g = WithFree(h, x, v)
  PROVE  /\ SameLists(g, h) /\ SameControl(g, h) /\ g.block[x].free = v
         /\ g.block[x].prevFree = h.block[x].prevFree
         /\ g.block[x].prev_hdr = h.block[x].prev_hdr
         /\ g.block[x].prev = h.block[x].prev /\ g.block[x].next = h.block[x].next
         /\ \A y \in Dom(h) : y # x => g.block[y] = h.block[y]
<1> DEFINE r == [h.block[x] EXCEPT !.free = v]
<1>1. h.block[x] \in Header
  BY DEF HeapType
<1>2. /\ r \in Header /\ r.free = v /\ r.size = h.block[x].size
      /\ r.prevFree = h.block[x].prevFree /\ r.prev_hdr = h.block[x].prev_hdr
      /\ r.prev = h.block[x].prev /\ r.next = h.block[x].next
  BY <1>1, SMT DEF Header
<1>3. g = WithHeader(h, x, r)
  BY DEF WithHeader, WithFree
<1> HIDE DEF r
<1>4. /\ HeapType(g) /\ Tile(g) /\ SameControl(g, h) /\ Dom(g) = Dom(h)
      /\ g.block[x] = r /\ \A y \in Dom(h) : y # x => g.block[y] = h.block[y]
      /\ \A y \in Dom(h) : g.block[y].size = h.block[y].size /\ Next(g, y) = Next(h, y)
      /\ \A F : Lists(h, F) => Lists(g, F)
  BY <1>2, <1>3, FieldsKept
<1> QED  BY <1>2, <1>4 DEF SameLists

\* Neither does what a block knows of the one before it.
LEMMA SetPrevFree ==
  ASSUME NEW h, HeapType(h), Tile(h), NEW x \in Dom(h), NEW v \in BOOLEAN,
         NEW g, g = WithPrevFree(h, x, v)
  PROVE  /\ SameLists(g, h) /\ SameControl(g, h) /\ g.block[x].prevFree = v
         /\ g.block[x].free = h.block[x].free
         /\ g.block[x].prev_hdr = h.block[x].prev_hdr
         /\ g.block[x].prev = h.block[x].prev /\ g.block[x].next = h.block[x].next
         /\ \A y \in Dom(h) : y # x => g.block[y] = h.block[y]
<1> DEFINE r == [h.block[x] EXCEPT !.prevFree = v]
<1>1. h.block[x] \in Header
  BY DEF HeapType
<1>2. /\ r \in Header /\ r.prevFree = v /\ r.size = h.block[x].size
      /\ r.free = h.block[x].free /\ r.prev_hdr = h.block[x].prev_hdr
      /\ r.prev = h.block[x].prev /\ r.next = h.block[x].next
  BY <1>1, SMT DEF Header
<1>3. g = WithHeader(h, x, r)
  BY DEF WithHeader, WithPrevFree
<1> HIDE DEF r
<1>4. /\ HeapType(g) /\ Tile(g) /\ SameControl(g, h) /\ Dom(g) = Dom(h)
      /\ g.block[x] = r /\ \A y \in Dom(h) : y # x => g.block[y] = h.block[y]
      /\ \A y \in Dom(h) : g.block[y].size = h.block[y].size /\ Next(g, y) = Next(h, y)
      /\ \A F : Lists(h, F) => Lists(g, F)
  BY <1>2, <1>3, FieldsKept
<1> QED  BY <1>2, <1>4 DEF SameLists

\* Nor where it looks for it.
LEMMA SetPrevHdr ==
  ASSUME NEW h, HeapType(h), Tile(h), NEW x \in Dom(h), NEW v \in Pointer,
         NEW g, g = WithPrevHdr(h, x, v)
  PROVE  /\ SameLists(g, h) /\ SameControl(g, h) /\ g.block[x].prev_hdr = v
         /\ g.block[x].free = h.block[x].free
         /\ g.block[x].prevFree = h.block[x].prevFree
         /\ g.block[x].prev = h.block[x].prev /\ g.block[x].next = h.block[x].next
         /\ \A y \in Dom(h) : y # x => g.block[y] = h.block[y]
<1> DEFINE r == [h.block[x] EXCEPT !.prev_hdr = v]
<1>1. h.block[x] \in Header
  BY DEF HeapType
<1>2. /\ r \in Header /\ r.prev_hdr = v /\ r.size = h.block[x].size
      /\ r.free = h.block[x].free /\ r.prevFree = h.block[x].prevFree
      /\ r.prev = h.block[x].prev /\ r.next = h.block[x].next
  BY <1>1, SMT DEF Header
<1>3. g = WithHeader(h, x, r)
  BY DEF WithHeader, WithPrevHdr
<1> HIDE DEF r
<1>4. /\ HeapType(g) /\ Tile(g) /\ SameControl(g, h) /\ Dom(g) = Dom(h)
      /\ g.block[x] = r /\ \A y \in Dom(h) : y # x => g.block[y] = h.block[y]
      /\ \A y \in Dom(h) : g.block[y].size = h.block[y].size /\ Next(g, y) = Next(h, y)
      /\ \A F : Lists(h, F) => Lists(g, F)
  BY <1>2, <1>3, FieldsKept
<1> QED  BY <1>2, <1>4 DEF SameLists

\* The block at n is told that the one before it is free and begins at b.
LEMMA SetBack ==
  ASSUME NEW h, HeapType(h), Tile(h), NEW n \in Dom(h), NEW b \in Pointer, NEW v \in BOOLEAN,
         NEW g, g = WithPrevHdr(WithPrevFree(h, n, v), n, b)
  PROVE  /\ HeapType(g) /\ Tile(g) /\ Dom(g) = Dom(h)
         /\ g.block[n].free = h.block[n].free /\ g.block[n].prevFree = v
         /\ g.block[n].prev_hdr = b
         /\ \A y \in Dom(h) : y # n => g.block[y] = h.block[y]
         /\ \A y \in Dom(h) : /\ g.block[y].size = h.block[y].size
                              /\ Next(g, y) = Next(h, y)
         /\ \A F : Lists(h, F) => Lists(g, F)
<1> DEFINE k == WithPrevFree(h, n, v)
<1>1. k = WithPrevFree(h, n, v) /\ g = WithPrevHdr(k, n, b)
  OBVIOUS
<1> HIDE DEF k
<1>2. /\ SameLists(k, h) /\ k.block[n].prevFree = v /\ k.block[n].free = h.block[n].free
      /\ \A y \in Dom(h) : y # n => k.block[y] = h.block[y]
  BY <1>1, SetPrevFree
<1>3. HeapType(k) /\ Tile(k) /\ Dom(k) = Dom(h) /\ n \in Dom(k)
  BY <1>2 DEF SameLists
<1>4. /\ SameLists(g, k) /\ g.block[n].prev_hdr = b
      /\ g.block[n].free = k.block[n].free /\ g.block[n].prevFree = k.block[n].prevFree
      /\ \A y \in Dom(k) : y # n => g.block[y] = k.block[y]
  BY <1>1, <1>3, SetPrevHdr
<1> QED  BY <1>2, <1>3, <1>4 DEF SameLists

\* A block without free neighbours is listed, and the next one is told.
LEMMA ListedStep ==
  ASSUME NEW h, NEW b, Freeing(h, b), ~ h.block[Next(h, b)].free, ~ h.block[b].prevFree,
         NEW g, g = Listed(h, b)
  PROVE  /\ HeapType(g) /\ Tile(g) /\ Neigh(g) /\ Lists(g, Free(g))
         /\ Kept(g, h, b) /\ b \in Dom(g) /\ g.block[b].free
<1> DEFINE n == Next(h, b)
           in == Insert(h, b)
           F == Free(h) \ {b}
<1>1. /\ HeapType(h) /\ Tile(h) /\ NeighBut(h, b) /\ Lists(h, F)
      /\ b \in Dom(h) /\ b # Area /\ b # Last /\ h.block[b].free
  BY DEF Freeing, NeighBut
<1>2. PICK yes \in BOOLEAN : yes = TRUE /\ g = WithPrevHdr(WithPrevFree(in, n, yes), n, b)
  BY Zenon DEF Listed, WithPrevHdr, WithPrevFree
<1>3. g = WithPrevHdr(WithPrevFree(in, n, yes), n, b)
  BY <1>2
<1>4. n \in Dom(h) /\ n # b /\ n # Area
  <2>1. b \in Nat /\ n > b /\ n \in Dom(h)
    BY <1>1, TileFacts
  <2>2. n \in Nat
    BY <1>1, <2>1, HeaderTypes
  <2> QED  BY <2>1, <2>2, Ends
<1>5. \A x \in F \cup {b} : Class(h, x) \in FL \X SL
  <2> TAKE x \in F \cup {b}
  <2>1. x \in Dom(h) /\ x # Area /\ x # Last
    BY <1>1 DEF NeighBut, Free
  <2> QED  BY <1>1, <2>1, TileFacts
<1>6. b \notin F /\ F \cup {b} = Free(h)
  BY <1>1 DEF Free
<1> HIDE DEF F, n
<1>7. HeapType(in) /\ SameShape(in, h) /\ Lists(in, F \cup {b})
  BY <1>1, <1>5, <1>6, InsertLists
<1> HIDE DEF in
<1>8. /\ Tile(in) /\ Free(in) = Free(h) /\ NeighBut(in, b) /\ Next(in, b) = n
      /\ Dom(in) = Dom(h)
  BY <1>1, <1>7, ShapeDecides DEF SameShape, n
<1>9. n \in Dom(in) /\ b \in Pointer
  BY <1>1, <1>4, <1>8 DEF HeapType, Pointer
<1>10. /\ HeapType(g) /\ Tile(g) /\ Dom(g) = Dom(in)
       /\ g.block[n].free = in.block[n].free /\ g.block[n].prevFree = yes
       /\ g.block[n].prev_hdr = b
       /\ \A y \in Dom(in) : y # n => g.block[y] = in.block[y]
       /\ \A y \in Dom(in) : /\ g.block[y].size = in.block[y].size
                             /\ Next(g, y) = Next(in, y)
       /\ \A E : Lists(in, E) => Lists(g, E)
  BY <1>7, <1>8, <1>9, <1>3, SetBack
<1>11. g.block[n].prevFree /\ \A y \in Dom(in) : g.block[y].free = in.block[y].free
  BY <1>2, <1>10
<1>12. Free(g) = Free(h)
  <2>1. Free(g) = Free(in)
    BY <1>10, <1>11 DEF Free
  <2> QED  BY <1>8, <2>1
<1>13. Lists(g, Free(g))
  BY <1>6, <1>7, <1>10, <1>12
<1>14. Neigh(g)
  <2>1. /\ ~ in.block[Area].free /\ ~ in.block[Area].prevFree /\ ~ in.block[Last].free
        /\ in.block[b].free /\ ~ in.block[b].prevFree /\ ~ in.block[n].free
    BY <1>1, <1>4, <1>7, <1>8 DEF NeighBut, SameShape, n
  <2>2. \A c \in Dom(in) \ {Last, b} :
            /\ in.block[Next(in, c)].prevFree <=> in.block[c].free
            /\ in.block[c].free => /\ in.block[Next(in, c)].prev_hdr = c
                                   /\ Next(in, c) # b => ~ in.block[Next(in, c)].free
    BY <1>8 DEF NeighBut
  <2>3. \A x \in Dom(in) \ {n} :
            /\ in.block[x].prev_hdr # NULL => Behind(in, x)
            /\ in.block[x].prevFree => in.block[x].prev_hdr # NULL
                                       /\ in.block[in.block[x].prev_hdr].free
    BY <1>8 DEF NeighBut
  <2>4. Area \in Dom(in) /\ Last \in Dom(in)
    BY <1>8 DEF Tile
  <2>5. ~ g.block[Area].free /\ ~ g.block[Area].prevFree /\ ~ g.block[Last].free
    BY <1>4, <1>10, <1>11, <2>1, <2>4
  <2>6. ASSUME NEW c \in Dom(g) \ {Last}
        PROVE  /\ g.block[Next(g, c)].prevFree <=> g.block[c].free
               /\ g.block[c].free => /\ g.block[Next(g, c)].prev_hdr = c
                                     /\ ~ g.block[Next(g, c)].free
    <3>1. c \in Dom(in) /\ c # Last /\ Next(g, c) = Next(in, c)
          /\ g.block[c].free = in.block[c].free
      BY <1>10, <1>11
    <3>2. CASE c = b
      <4>1. Next(g, c) = n
        BY <1>8, <3>1, <3>2
      <4>2. /\ g.block[n].prevFree /\ g.block[b].free
            /\ g.block[n].prev_hdr = b /\ ~ g.block[n].free
        BY <1>10, <1>11, <2>1, <3>1, <3>2
      <4> QED  BY <3>2, <4>1, <4>2
    <3>3. CASE c # b
      <4>1. Next(in, c) \in Dom(in)
        BY <1>7, <1>8, <3>1, TileFacts
      <4>2. b \in Dom(in)
        BY <1>1, <1>8
      <4>3. Next(in, c) # n
        BY <1>1, <1>7, <1>8, <3>1, <3>3, <4>2, TileFacts
      <4>4. g.block[Next(in, c)] = in.block[Next(in, c)]
        BY <1>10, <4>1, <4>3
      <4>5. c \in Dom(in) \ {Last, b}
        BY <3>1, <3>3
      <4>6. /\ in.block[Next(in, c)].prevFree <=> in.block[c].free
            /\ in.block[c].free => /\ in.block[Next(in, c)].prev_hdr = c
                                   /\ Next(in, c) # b => ~ in.block[Next(in, c)].free
        BY <2>2, <4>5
      <4> QED  BY <2>1, <3>1, <4>4, <4>6
    <3> QED  BY <3>2, <3>3
  <2>7. ASSUME NEW x \in Dom(g)
        PROVE  /\ g.block[x].prev_hdr # NULL => Behind(g, x)
               /\ g.block[x].prevFree => g.block[x].prev_hdr # NULL
                                         /\ g.block[g.block[x].prev_hdr].free
    <3>1. CASE x = n
      <4>1. g.block[x].prev_hdr = b /\ b \in Dom(g) \ {Last} /\ Next(g, b) = x
        BY <1>1, <1>8, <1>10, <3>1
      <4>2. b # NULL
        BY <1>1, HeaderTypes
      <4> QED  BY <1>1, <1>8, <1>11, <2>1, <4>1, <4>2 DEF Behind
    <3>2. CASE x # n
      <4> DEFINE p == in.block[x].prev_hdr
      <4>1. x \in Dom(in) \ {n} /\ g.block[x] = in.block[x]
        BY <1>10, <3>2
      <4>2. ASSUME p # NULL PROVE p \in Dom(in) \ {Last} /\ Next(in, p) = x
        BY <2>3, <4>1, <4>2 DEF Behind
      <4>3. in.block[x].prevFree => p # NULL /\ in.block[p].free
        BY <2>3, <4>1
      <4>4. g.block[x].prev_hdr = p
        BY <4>1
      <4> HIDE DEF p
      <4> QED  BY <1>10, <1>11, <4>1, <4>2, <4>3, <4>4 DEF Behind
    <3> QED  BY <3>1, <3>2
  <2> QED  BY <2>5, <2>6, <2>7 DEF Neigh
<1>15. Kept(g, h, b)
  BY <1>7, <1>8, <1>10, <1>11 DEF Kept, SameShape
<1>16. b \in Dom(g) /\ g.block[b].free
  BY <1>1, <1>7, <1>8, <1>10, <1>11 DEF SameShape
<1> QED  BY <1>10, <1>13, <1>14, <1>15, <1>16

\* What free_ex does after it marked the block.
LEMMA FreeSteps ==
  ASSUME NEW h, NEW b, Freeing(h, b),
         NEW first, first = IF h.block[b].prevFree THEN h.block[b].prev_hdr ELSE b,
         NEW g, g = Listed(JoinPrev(JoinNext(h, b), b), first)
  PROVE  HeapType(g) /\ Tile(g) /\ Neigh(g) /\ Lists(g, Free(g)) /\ Kept(g, h, b)
<1> DEFINE j == JoinNext(h, b)
           k == JoinPrev(j, b)
<1>1. /\ Freeing(j, b) /\ ~ j.block[Next(j, b)].free /\ Kept(j, h, b)
      /\ first = IF j.block[b].prevFree THEN j.block[b].prev_hdr ELSE b
  BY JoinNextStep
<1> HIDE DEF j
<1>2. /\ Freeing(k, first) /\ ~ k.block[Next(k, first)].free
      /\ ~ k.block[first].prevFree /\ Kept(k, j, b)
  BY <1>1, JoinPrevStep
<1>3. g = Listed(k, first)
  BY DEF j
<1> HIDE DEF k
<1>4. /\ HeapType(g) /\ Tile(g) /\ Neigh(g) /\ Lists(g, Free(g)) /\ Kept(g, k, first)
  BY <1>2, <1>3, ListedStep
<1>5. k.block[first].free
  BY <1>2 DEF Freeing, NeighBut
<1>6. Kept(g, h, b)
  <2> SUFFICES ASSUME NEW x \in Dom(h), ~ h.block[x].free, x # b
               PROVE  x \in Dom(g) /\ ~ g.block[x].free /\ g.block[x].size = h.block[x].size
    BY DEF Kept
  <2>1. x \in Dom(j) /\ ~ j.block[x].free /\ j.block[x].size = h.block[x].size
    BY <1>1 DEF Kept
  <2>2. x \in Dom(k) /\ ~ k.block[x].free /\ k.block[x].size = j.block[x].size
    BY <1>2, <2>1 DEF Kept
  <2>3. x # first
    BY <1>5, <2>2
  <2>4. \A y \in Dom(k) : ~ k.block[y].free /\ y # first =>
            y \in Dom(g) /\ ~ g.block[y].free /\ g.block[y].size = k.block[y].size
    BY <1>4, Zenon DEF Kept
  <2>5. x \in Dom(g) /\ ~ g.block[x].free /\ g.block[x].size = k.block[x].size
    BY <2>2, <2>3, <2>4, Zenon
  <2> QED  BY <2>1, <2>2, <2>5, Zenon
<1> QED  BY <1>4, <1>6

\* Marking a block free that is in no list.
WithMark(h, b, v, u) == WithUsed(WithLinks(WithFree(h, b, v), b, NULL, NULL), u)

\* It changes nothing but the mark.
LEMMA SetMark ==
  ASSUME NEW h, HeapType(h), Tile(h), NEW b \in Dom(h),
         h.block[b].prev = NULL, h.block[b].next = NULL,
         NEW v \in BOOLEAN, NEW u, NEW g, g = WithMark(h, b, v, u)
  PROVE  /\ SameLists(g, h) /\ g.block[b].free = v
         /\ g.block[b].prevFree = h.block[b].prevFree
         /\ g.block[b].prev_hdr = h.block[b].prev_hdr
         /\ \A y \in Dom(h) : y # b => /\ g.block[y].free = h.block[y].free
                                       /\ g.block[y].prevFree = h.block[y].prevFree
                                       /\ g.block[y].prev_hdr = h.block[y].prev_hdr
<1> DEFINE k == WithFree(h, b, v)
           l == WithLinks(k, b, NULL, NULL)
<1>1. k = WithFree(h, b, v) /\ l = WithLinks(k, b, NULL, NULL) /\ g = WithUsed(l, u)
  BY DEF WithMark
<1> HIDE DEF k, l
<1>2. /\ SameLists(k, h) /\ SameControl(k, h) /\ k.block[b].free = v
      /\ k.block[b].prevFree = h.block[b].prevFree
      /\ k.block[b].prev_hdr = h.block[b].prev_hdr
      /\ k.block[b].prev = h.block[b].prev /\ k.block[b].next = h.block[b].next
      /\ \A y \in Dom(h) : y # b => k.block[y] = h.block[y]
  BY <1>1, SetFree
<1>3. /\ HeapType(k) /\ Tile(k) /\ Dom(k) = Dom(h) /\ b \in Dom(k) /\ NULL \in Pointer
      /\ \A y \in Dom(h) : k.block[y].size = h.block[y].size /\ Next(k, y) = Next(h, y)
      /\ \A F : Lists(h, F) => Lists(k, F)
  BY <1>2 DEF SameLists, Pointer
<1>4. /\ HeapType(l) /\ SameShape(l, k) /\ SameControl(l, k)
      /\ \A y \in Dom(k) : /\ l.block[y].prev = IF y = b THEN NULL ELSE k.block[y].prev
                           /\ l.block[y].next = IF y = b THEN NULL ELSE k.block[y].next
  BY <1>1, <1>3, SetLinks
<1>5. /\ Tile(l) /\ Dom(l) = Dom(k) /\ \A y \in Dom(k) : Next(l, y) = Next(k, y)
  BY <1>3, <1>4, ShapeDecides DEF SameShape
<1>6. \A y \in Dom(k) : /\ l.block[y].size = k.block[y].size
                        /\ l.block[y].prev = k.block[y].prev
                        /\ l.block[y].next = k.block[y].next
  BY <1>2, <1>4 DEF SameShape
<1>7. ASSUME NEW F, Lists(k, F) PROVE Lists(l, F)
  <2>1. F \subseteq Dom(l) /\ Unlisted(l, F)
    BY <1>5, <1>6, <1>7 DEF Lists, Unlisted
  <2>2. \A y \in F : /\ l.block[y].size = k.block[y].size
                    /\ l.block[y].prev = k.block[y].prev
                    /\ l.block[y].next = k.block[y].next
    BY <1>5, <1>6, <2>1
  <2> QED  BY <1>4, <1>7, <2>1, <2>2, ListsDepend
<1>8. /\ HeapType(g) /\ g.block = l.block /\ SameShape(g, l)
      /\ \A F : Lists(l, F) => Lists(g, F)
  BY <1>1, <1>4, SetUsed
<1>9. Tile(g) /\ Dom(g) = Dom(l) /\ \A y \in Dom(l) : Next(g, y) = Next(l, y)
  BY <1>5, <1>8, ShapeDecides DEF SameShape
<1>10. \A y \in Dom(h) : g.block[y].size = h.block[y].size /\ Next(g, y) = Next(h, y)
  BY <1>3, <1>5, <1>6, <1>8, <1>9
<1>11. SameLists(g, h)
  BY <1>3, <1>5, <1>7, <1>8, <1>9, <1>10 DEF SameLists
<1>12. \A y \in Dom(k) : /\ g.block[y].free = k.block[y].free
                         /\ g.block[y].prevFree = k.block[y].prevFree
                         /\ g.block[y].prev_hdr = k.block[y].prev_hdr
  BY <1>4, <1>8 DEF SameShape
<1> QED  BY <1>2, <1>3, <1>11, <1>12

\* uLipeMemFree leaves a heap in which the block is free, joined to its free
\* neighbours and listed, and the blocks that are held are as they were.
LEMMA FreedWorks ==
  ASSUME NEW h, HeapType(h), Tile(h), Neigh(h), Lists(h, Free(h)),
         NEW b \in Dom(h), b # Area, b # Last, ~ h.block[b].free,
         NEW g, g = Freed(h, b)
  PROVE  HeapType(g) /\ Tile(g) /\ Neigh(g) /\ Lists(g, Free(g)) /\ Kept(g, h, b)
<1> DEFINE first == IF h.block[b].prevFree THEN h.block[b].prev_hdr ELSE b
           u == h.used_size - h.block[b].size - BHDR_OVERHEAD
<1>1. PICK yes \in BOOLEAN :
         yes /\ g = Listed(JoinPrev(JoinNext(WithMark(h, b, yes, u), b), b), first)
  BY Zenon DEF Freed, WithMark, WithUsed, WithLinks, WithFree
<1> DEFINE k == WithMark(h, b, yes, u)
<1>2. k = WithMark(h, b, yes, u) /\ g = Listed(JoinPrev(JoinNext(k, b), b), first)
  BY <1>1
<1> HIDE DEF k, u
<1>3. h.block[b].prev = NULL /\ h.block[b].next = NULL
  BY DEF Lists, Unlisted, Free
<1>4. /\ SameLists(k, h) /\ k.block[b].free = yes
      /\ k.block[b].prevFree = h.block[b].prevFree
      /\ k.block[b].prev_hdr = h.block[b].prev_hdr
      /\ \A y \in Dom(h) : y # b => /\ k.block[y].free = h.block[y].free
                                    /\ k.block[y].prevFree = h.block[y].prevFree
                                    /\ k.block[y].prev_hdr = h.block[y].prev_hdr
  BY <1>2, <1>3, SetMark
<1>5. /\ HeapType(k) /\ Tile(k) /\ Dom(k) = Dom(h) /\ k.block[b].free
      /\ \A y \in Dom(h) : k.block[y].size = h.block[y].size /\ Next(k, y) = Next(h, y)
      /\ \A F : Lists(h, F) => Lists(k, F)
      /\ \A y \in Dom(h) : /\ k.block[y].prevFree = h.block[y].prevFree
                           /\ k.block[y].prev_hdr = h.block[y].prev_hdr
  BY <1>1, <1>4 DEF SameLists
<1>6. Free(k) \ {b} = Free(h)
  BY <1>4, <1>5 DEF Free
<1>7. Lists(k, Free(k) \ {b})
  BY <1>5, <1>6
<1>8. \A y \in Dom(h) : h.block[y].free => k.block[y].free
  BY <1>4, <1>5
<1>9. NeighBut(k, b)
  <2>1. Area \in Dom(h) /\ Last \in Dom(h)
    BY DEF Tile
  <2>2. b \in Dom(k) \ {Area, Last} /\ ~ k.block[Area].free /\ ~ k.block[Area].prevFree
        /\ ~ k.block[Last].free
    BY <1>4, <1>5, <2>1 DEF Neigh
  <2>3. ASSUME NEW c \in Dom(k) \ {Last, b}
        PROVE  /\ k.block[Next(k, c)].prevFree <=> k.block[c].free
               /\ k.block[c].free => /\ k.block[Next(k, c)].prev_hdr = c
                                     /\ Next(k, c) # b => ~ k.block[Next(k, c)].free
    <3>1. /\ c \in Dom(h) \ {Last} /\ Next(k, c) = Next(h, c) /\ Next(h, c) \in Dom(h)
          /\ k.block[c].free = h.block[c].free
      BY <1>4, <1>5 DEF Tile
    <3>2. /\ h.block[Next(h, c)].prevFree <=> h.block[c].free
          /\ h.block[c].free => /\ h.block[Next(h, c)].prev_hdr = c
                                /\ ~ h.block[Next(h, c)].free
      BY <3>1 DEF Neigh
    <3>3. Next(h, c) # b => k.block[Next(h, c)].free = h.block[Next(h, c)].free
      BY <1>4, <3>1
    <3> QED  BY <1>5, <3>1, <3>2, <3>3
  <2>4. ASSUME NEW x \in Dom(k) \ {Next(k, b)}
        PROVE  /\ k.block[x].prev_hdr # NULL => Behind(k, x)
               /\ k.block[x].prevFree => k.block[x].prev_hdr # NULL
                                         /\ k.block[k.block[x].prev_hdr].free
    <3>1. /\ h.block[x].prev_hdr # NULL => Behind(h, x)
          /\ h.block[x].prevFree => h.block[x].prev_hdr # NULL
                                    /\ h.block[h.block[x].prev_hdr].free
      BY <1>5 DEF Neigh
    <3>2. x \in Dom(h) /\ k.block[x].prev_hdr = h.block[x].prev_hdr
          /\ k.block[x].prevFree = h.block[x].prevFree
      BY <1>5
    <3>3. Behind(h, x) => Behind(k, x) /\ h.block[x].prev_hdr \in Dom(h)
      BY <1>5, <3>2 DEF Behind
    <3> QED  BY <1>8, <3>1, <3>2, <3>3
  <2> QED  BY <1>5, <2>2, <2>3, <2>4 DEF NeighBut
<1>10. first = IF k.block[b].prevFree THEN k.block[b].prev_hdr ELSE b
  BY <1>4
<1> HIDE DEF first
<1>11. Freeing(k, b)
  BY <1>5, <1>7, <1>9 DEF Freeing
<1>12. HeapType(g) /\ Tile(g) /\ Neigh(g) /\ Lists(g, Free(g)) /\ Kept(g, k, b)
  BY <1>2, <1>10, <1>11, FreeSteps
<1>13. Kept(g, h, b)
  <2> SUFFICES ASSUME NEW x \in Dom(h), ~ h.block[x].free, x # b
               PROVE  x \in Dom(g) /\ ~ g.block[x].free /\ g.block[x].size = h.block[x].size
    BY DEF Kept
  <2>1. x \in Dom(k) /\ ~ k.block[x].free /\ k.block[x].size = h.block[x].size
    BY <1>4, <1>5
  <2> QED  BY <1>12, <2>1 DEF Kept
<1> QED  BY <1>12, <1>13
-----------------------------------------------------------------------------
(* malloc_ex                                                               *)

\* ls_bit gives the lowest of the bits.
LEMMA LowestBit ==
  ASSUME NEW bits \in SUBSET Nat, bits # {}
  PROVE  ls_bit(bits) \in bits
<1> DEFINE P(i) == \A j \in bits : i <= j
<1>1. \E i \in bits : P(i)
  BY LeastExists
<1>2. ls_bit(bits) = CHOOSE i \in bits : P(i)
  BY DEF ls_bit
<1> HIDE DEF P
<1> QED  BY <1>1, <1>2

\* FIND_SUITABLE_BLOCK finds a class with blocks, not before the one asked for,
\* if there is any.
LEMMA SuitableFinds ==
  ASSUME NEW h, HeapType(h), Bits(h), NEW class \in FL \X SL, NEW found,
         found = Suitable(h, class)
  PROVE  /\ \A c \in FL \X SL : AtLeast(c, class) /\ h.matrix[c] # NULL => found # <<>>
         /\ found # <<>> => /\ found \in FL \X SL /\ AtLeast(found, class)
                            /\ h.matrix[found] # NULL
<1> DEFINE here == {sl \in h.sl_bitmap[class[1]] : sl >= class[2]}
           above == {f \in h.fl_bitmap : f > class[1]}
           fl == ls_bit(above)
<1>1. /\ class[1] \in FL /\ class[2] \in SL /\ class[1] \in Nat /\ class[2] \in Nat
      /\ \A f \in FL : f \in Nat
      /\ \A s \in SL : s \in Nat
  BY SMT DEF FL, SL
<1>2. /\ \A f \in FL : h.sl_bitmap[f] \in SUBSET SL
      /\ h.fl_bitmap \in SUBSET FL
      /\ \A c \in FL \X SL : c[2] \in h.sl_bitmap[c[1]] <=> h.matrix[c] # NULL
      /\ \A f \in FL : f \in h.fl_bitmap <=> h.sl_bitmap[f] # {}
  BY DEF HeapType, Bitmaps, Bits
<1>3. \A f \in FL, s \in SL : <<f, s>> \in FL \X SL /\ <<f, s>>[1] = f /\ <<f, s>>[2] = s
  OBVIOUS
<1>4. \A f \in FL : \A s \in h.sl_bitmap[f] : <<f, s>> \in FL \X SL /\ h.matrix[<<f, s>>] # NULL
  <2> TAKE f \in FL
  <2> TAKE s \in h.sl_bitmap[f]
  <2>1. s \in SL
    BY <1>2
  <2> QED  BY <1>2, <1>3, <2>1
<1>5. here \in SUBSET Nat /\ here \subseteq h.sl_bitmap[class[1]]
      /\ above \in SUBSET Nat /\ above \subseteq FL
  BY <1>1, <1>2
<1>6. found = IF here # {} THEN <<class[1], ls_bit(here)>>
              ELSE IF fl > 0 THEN <<fl, ls_bit(h.sl_bitmap[fl])>> ELSE <<>>
  BY DEF Suitable
<1>7. \A s \in here : s >= class[2]
  OBVIOUS
<1>8. \A f \in above : f > class[1] /\ f \in h.fl_bitmap
  OBVIOUS
<1>9. \A c \in FL \X SL : AtLeast(c, class) /\ h.matrix[c] # NULL => here # {} \/ above # {}
  <2> SUFFICES ASSUME NEW c \in FL \X SL, AtLeast(c, class), h.matrix[c] # NULL
               PROVE  here # {} \/ above # {}
    OBVIOUS
  <2>1. c[1] \in FL /\ c[2] \in h.sl_bitmap[c[1]]
    BY <1>2
  <2>2. CASE c[1] > class[1]
    <3>1. c[1] \in h.fl_bitmap
      BY <1>2, <2>1
    <3> QED  BY <2>2, <3>1
  <2>3. CASE c[1] = class[1] /\ c[2] >= class[2]
    <3>1. c[2] \in here
      BY <2>1, <2>3
    <3> QED  BY <3>1
  <2> QED  BY <2>2, <2>3 DEF AtLeast
<1> HIDE DEF here, above
<1>10. CASE here # {}
  <2>1. ls_bit(here) \in here
    BY <1>5, <1>10, LowestBit
  <2>2. found = <<class[1], ls_bit(here)>>
    BY <1>6, <1>10
  <2> DEFINE s == ls_bit(here)
  <2> HIDE DEF s
  <2>3. s \in h.sl_bitmap[class[1]] /\ s >= class[2] /\ found = <<class[1], s>> /\ s \in SL
    BY <1>1, <1>2, <1>5, <1>7, <2>1, <2>2 DEF s
  <2>4. found \in FL \X SL /\ h.matrix[found] # NULL
    BY <1>1, <1>4, <2>3
  <2>5. AtLeast(found, class)
    BY <1>1, <1>3, <2>3 DEF AtLeast
  <2>6. found # <<>>
    BY <2>3
  <2> QED  BY <2>4, <2>5, <2>6
<1>11. CASE here = {} /\ above # {}
  <2>1. fl \in above
    BY <1>5, <1>11, LowestBit
  <2> HIDE DEF fl
  <2>2. fl \in FL /\ fl > class[1] /\ fl > 0 /\ h.sl_bitmap[fl] # {}
    <3>1. fl \in FL /\ fl > class[1] /\ fl \in h.fl_bitmap
      BY <1>5, <1>8, <2>1
    <3>2. fl \in Nat /\ class[1] \in Nat
      BY <1>1, <3>1
    <3>3. fl > 0
      BY <3>1, <3>2
    <3> QED  BY <1>2, <3>1, <3>3
  <2>3. found = <<fl, ls_bit(h.sl_bitmap[fl])>>
    BY <1>6, <1>11, <2>2
  <2> DEFINE s == ls_bit(h.sl_bitmap[fl])
  <2>4. s \in h.sl_bitmap[fl]
    <3>1. h.sl_bitmap[fl] \in SUBSET Nat
      BY <1>1, <1>2, <2>2
    <3> QED  BY <2>2, <3>1, LowestBit
  <2>5. found = <<fl, s>>
    BY <2>3
  <2> HIDE DEF s
  <2>6. found \in FL \X SL /\ h.matrix[found] # NULL
    BY <1>4, <2>2, <2>4, <2>5
  <2>7. AtLeast(found, class)
    BY <1>2, <1>3, <2>2, <2>4, <2>5 DEF AtLeast
  <2>8. found # <<>>
    BY <2>5
  <2> QED  BY <2>6, <2>7, <2>8
<1>12. CASE here = {} /\ above = {}
  <2>1. fl = 0
    BY <1>12 DEF ls_bit
  <2>2. found = <<>>
    BY <1>6, <1>12, <2>1
  <2> QED  BY <1>9, <1>12, <2>2
<1> QED  BY <1>10, <1>11, <1>12

\* A request finds a block exactly when some free block is as large as it is
\* rounded to, and the one it finds is; it begins the list of the class found.
LEMMA RoomInLists ==
  ASSUME NEW h, HeapType(h), Tile(h), Neigh(h), Lists(h, Free(h)), NEW size \in Nat,
         NEW class, class = Mapping(Wanted(size)), NEW b, b = FindSuitable(h, class)
  PROVE  /\ \A c \in Free(h) : h.block[c].size >= Wanted(size) => b # NULL
         /\ b # NULL => /\ b \in Free(h) /\ h.block[b].size >= Wanted(size)
                        /\ Suitable(h, class) \in FL \X SL
                        /\ h.matrix[Suitable(h, class)] = b
<1> DEFINE want == Wanted(size)
           found == Suitable(h, class)
<1>1. want \in Nat /\ want <= 2 ^ 14 /\ Begins(want) /\ class = Mapping(want)
  BY WantedBegins
<1> HIDE DEF want
<1>2. class \in FL \X SL
  BY <1>1, ClassInRange
<1>3. \A c \in Free(h) : /\ c \in Dom(h) /\ c # Area /\ c # Last
                         /\ h.block[c].size \in Nat /\ h.block[c].size < 2 ^ 16
                         /\ Class(h, c) \in FL \X SL
  <2> TAKE c \in Free(h)
  <2>1. c \in Dom(h) /\ c # Area /\ c # Last
    BY DEF Free, Neigh
  <2>2. h.block[c].size \in Nat /\ h.block[c].size <= OS_HEAP_SIZE - 32 /\ Class(h, c) \in FL \X SL
    BY <2>1, TileFacts
  <2>3. OS_HEAP_SIZE \in Nat /\ OS_HEAP_SIZE < 2 ^ 16
    BY HeapSizeAssumption
  <2> QED  BY <2>1, <2>2, <2>3
<1>4. ASSUME NEW c \in Free(h)
      PROVE  h.block[c].size >= want <=> AtLeast(Class(h, c), class)
  BY <1>1, <1>3, ClassFits DEF Class
<1>5. Bits(h) /\ Heads(h, Free(h)) /\ Linked(h, Free(h))
  BY DEF Lists
<1>6. found = Suitable(h, class)
  OBVIOUS
<1> HIDE DEF found
<1>7. /\ \A c \in FL \X SL : AtLeast(c, class) /\ h.matrix[c] # NULL => found # <<>>
      /\ found # <<>> => /\ found \in FL \X SL /\ AtLeast(found, class)
                         /\ h.matrix[found] # NULL
  BY <1>2, <1>5, <1>6, SuitableFinds
<1>8. b = IF found = <<>> THEN NULL ELSE h.matrix[found]
  BY <1>6 DEF FindSuitable
<1>9. ASSUME NEW c \in Free(h), h.block[c].size >= want PROVE b # NULL
  <2>1. AtLeast(Class(h, c), class) /\ Class(h, c) \in FL \X SL
    BY <1>3, <1>4, <1>9
  <2>2. h.matrix[Class(h, c)] # NULL
    BY <1>5 DEF Linked
  <2>3. found # <<>>
    BY <1>7, <2>1, <2>2
  <2> QED  BY <1>7, <1>8, <2>3
<1>10. ASSUME b # NULL
       PROVE  /\ b \in Free(h) /\ h.block[b].size >= want
              /\ found \in FL \X SL /\ h.matrix[found] = b
  <2>1. found \in FL \X SL /\ AtLeast(found, class) /\ h.matrix[found] = b
    BY <1>7, <1>8, <1>10
  <2>2. b \in Free(h) /\ Class(h, b) = found
    BY <1>5, <1>10, <2>1 DEF Heads
  <2> QED  BY <1>4, <2>1, <2>2
<1> QED  BY <1>6, <1>9, <1>10 DEF want

\* The block b is handed out: it is not free any more and large enough, and
\* the other blocks that are not free are as they were.
Handed(g, h, b, want) ==
    /\ HeapType(g) /\ Tile(g) /\ Neigh(g) /\ Lists(g, Free(g)) /\ Kept(g, h, b)
    /\ b \in Dom(g) \ {Area, Last} /\ ~ g.block[b].free /\ g.block[b].size >= want

\* The block that was found has left its list.
Taken(h, b) == HeapType(h) /\ Tile(h) /\ Neigh(h) /\ b \in Free(h) /\ Lists(h, Free(h) \ {b})

\* It can be handed out whole.
LEMMA WholeStep ==
  ASSUME NEW h, NEW b, Taken(h, b), NEW want, h.block[b].size >= want,
         NEW g, g = Whole(h, b)
  PROVE  Handed(g, h, b, want)
<1> DEFINE n == Next(h, b)
<1>1. /\ HeapType(h) /\ Tile(h) /\ Neigh(h) /\ Lists(h, Free(h) \ {b})
      /\ b \in Dom(h) /\ b # Area /\ b # Last /\ h.block[b].free
  BY DEF Taken, Free, Neigh
<1>2. n \in Dom(h) /\ n # b /\ n # Area
  <2>1. b \in Nat /\ n > b /\ n \in Dom(h)
    BY <1>1, TileFacts
  <2>2. n \in Nat
    BY <1>1, <2>1, HeaderTypes
  <2> QED  BY <2>1, <2>2, Ends
<1>3. PICK no \in BOOLEAN : ~ no /\ g = WithFree(WithPrevFree(h, n, no), b, no)
  BY Zenon DEF Whole, WithFree, WithPrevFree
<1> HIDE DEF n
<1> DEFINE k == WithPrevFree(h, n, no)
<1>4. k = WithPrevFree(h, n, no) /\ g = WithFree(k, b, no)
  BY <1>3
<1> HIDE DEF k
<1>5. /\ SameLists(k, h) /\ k.block[n].prevFree = no
      /\ k.block[n].free = h.block[n].free
      /\ k.block[n].prev_hdr = h.block[n].prev_hdr
      /\ \A y \in Dom(h) : y # n => k.block[y] = h.block[y]
  BY <1>1, <1>2, <1>4, SetPrevFree
<1>6. HeapType(k) /\ Tile(k) /\ Dom(k) = Dom(h) /\ b \in Dom(k)
  BY <1>1, <1>5 DEF SameLists
<1>7. /\ SameLists(g, k) /\ g.block[b].free = no
      /\ g.block[b].prevFree = k.block[b].prevFree
      /\ g.block[b].prev_hdr = k.block[b].prev_hdr
      /\ \A y \in Dom(k) : y # b => g.block[y] = k.block[y]
  BY <1>4, <1>6, SetFree
<1>8. /\ HeapType(g) /\ Tile(g) /\ Dom(g) = Dom(h)
      /\ \A y \in Dom(h) : g.block[y].size = h.block[y].size /\ Next(g, y) = Next(h, y)
      /\ \A F : Lists(h, F) => Lists(g, F)
  BY <1>5, <1>7 DEF SameLists
<1>9. /\ ~ g.block[b].free /\ ~ g.block[n].prevFree
      /\ \A y \in Dom(h) : /\ y # b => g.block[y].free = h.block[y].free
                           /\ y # n => g.block[y].prevFree = h.block[y].prevFree
                           /\ g.block[y].prev_hdr = h.block[y].prev_hdr
  BY <1>2, <1>3, <1>5, <1>6, <1>7
<1>10. Free(g) = Free(h) \ {b}
  BY <1>1, <1>8, <1>9 DEF Free
<1>11. Lists(g, Free(g))
  BY <1>1, <1>8, <1>10
<1>12. Kept(g, h, b)
  BY <1>8, <1>9 DEF Kept
<1>13. Neigh(g)
  <2>1. Area \in Dom(h) /\ Last \in Dom(h)
    BY <1>1 DEF Tile
  <2>2. ~ g.block[Area].free /\ ~ g.block[Area].prevFree /\ ~ g.block[Last].free
    BY <1>1, <1>2, <1>9, <2>1 DEF Neigh
  <2>3. ASSUME NEW c \in Dom(g) \ {Last}
        PROVE  /\ g.block[Next(g, c)].prevFree <=> g.block[c].free
               /\ g.block[c].free => /\ g.block[Next(g, c)].prev_hdr = c
                                     /\ ~ g.block[Next(g, c)].free
    <3>1. c \in Dom(h) /\ c # Last /\ Next(g, c) = Next(h, c) /\ Next(h, c) \in Dom(h)
      BY <1>1, <1>8 DEF Tile
    <3>2. CASE c = b
      BY <1>9, <3>1, <3>2 DEF n
    <3>3. CASE c # b
      <4>1. Next(h, c) # n
        BY <1>1, <3>1, <3>3, TileFacts DEF n
      <4>2. /\ h.block[Next(h, c)].prevFree <=> h.block[c].free
            /\ h.block[c].free => /\ h.block[Next(h, c)].prev_hdr = c
                                  /\ ~ h.block[Next(h, c)].free
        BY <1>1, <3>1 DEF Neigh
      <4>3. /\ g.block[c].free = h.block[c].free
            /\ g.block[Next(h, c)].prevFree = h.block[Next(h, c)].prevFree
            /\ g.block[Next(h, c)].prev_hdr = h.block[Next(h, c)].prev_hdr
        BY <1>9, <3>1, <3>3, <4>1
      <4>4. ~ h.block[Next(h, c)].free => ~ g.block[Next(h, c)].free
        BY <1>9, <3>1
      <4> QED  BY <3>1, <4>2, <4>3, <4>4
    <3> QED  BY <3>2, <3>3
  <2>4. ASSUME NEW x \in Dom(g)
        PROVE  /\ g.block[x].prev_hdr # NULL => Behind(g, x)
               /\ g.block[x].prevFree => g.block[x].prev_hdr # NULL
                                         /\ g.block[g.block[x].prev_hdr].free
    <3> DEFINE p == h.block[x].prev_hdr
    <3>1. /\ x \in Dom(h) /\ (p # NULL => Behind(h, x))
          /\ h.block[x].prevFree => p # NULL /\ h.block[p].free
      BY <1>1, <1>8 DEF Neigh
    <3>2. Behind(h, x) => p \in Dom(h) \ {Last} /\ Next(h, p) = x
      BY DEF Behind
    <3> HIDE DEF p
    <3>3. g.block[x].prev_hdr = p
      BY <1>9, <3>1 DEF p
    <3>4. p # NULL => Behind(g, x)
      BY <1>8, <3>1, <3>2, <3>3 DEF Behind
    <3>5. ASSUME g.block[x].prevFree PROVE p # NULL /\ g.block[p].free
      <4>1. x # n
        BY <1>9, <3>5
      <4>2. p # NULL /\ h.block[p].free
        BY <1>9, <3>1, <3>5, <4>1
      <4>3. p \in Dom(h) /\ p # b
        BY <3>1, <3>2, <4>1, <4>2 DEF n
      <4> QED  BY <1>9, <4>2, <4>3
    <3> QED  BY <3>3, <3>4, <3>5
  <2> QED  BY <2>2, <2>3, <2>4 DEF Neigh
<1>14. b \in Dom(g) \ {Area, Last} /\ g.block[b].size >= want
  BY <1>1, <1>8
<1> QED  BY <1>8, <1>9, <1>11, <1>12, <1>13, <1>14 DEF Handed

\* The writes of the split.
WithNew(h, x, r) ==
    [h EXCEPT !.block = [a \in DOMAIN @ \cup {x} |-> IF a = x THEN r ELSE @[a]]]
WithSize(h, x, v) == [h EXCEPT !.block[x].size = v]

\* A header is written where there was none.
LEMMA SetNew ==
  ASSUME NEW h, HeapType(h), NEW x \in Address, x \notin Dom(h), NEW r \in Header,
         NEW g, g = WithNew(h, x, r)
  PROVE  /\ HeapType(g) /\ SameControl(g, h) /\ Dom(g) = Dom(h) \cup {x}
         /\ g.block[x] = r /\ \A y \in Dom(h) : g.block[y] = h.block[y]
<1> DEFINE D == Dom(h) \cup {x}
           block == [a \in D |-> IF a = x THEN r ELSE h.block[a]]
<1>1. h.block \in [Dom(h) -> Header] /\ Dom(h) \in SUBSET Address
  BY DEF HeapType
<1>2. block \in [D -> Header] /\ D \in SUBSET Address
  BY <1>1
<1>3. block[x] = r /\ \A y \in Dom(h) : block[y] = h.block[y]
  OBVIOUS
<1>4. g = WithBlocks(h, block)
  BY Zenon DEF WithNew, WithBlocks, Dom
<1> HIDE DEF block, D
<1>5. HeapType(g) /\ SameControl(g, h) /\ g.block = block /\ Dom(g) = D
  BY <1>2, <1>4, WriteBlocks
<1> QED  BY <1>3, <1>5 DEF D

\* A header is told where the one before it is.
LEMMA WritePrevHdr ==
  ASSUME NEW h, HeapType(h), NEW x \in Dom(h), NEW v \in Pointer,
         NEW g, g = WithPrevHdr(h, x, v)
  PROVE  /\ HeapType(g) /\ SameControl(g, h) /\ Dom(g) = Dom(h) /\ g.block[x].prev_hdr = v
         /\ g.block[x].size = h.block[x].size /\ g.block[x].free = h.block[x].free
         /\ g.block[x].prevFree = h.block[x].prevFree
         /\ g.block[x].prev = h.block[x].prev /\ g.block[x].next = h.block[x].next
         /\ \A y \in Dom(h) : y # x => g.block[y] = h.block[y]
<1> DEFINE r == [h.block[x] EXCEPT !.prev_hdr = v]
<1>1. h.block[x] \in Header
  BY DEF HeapType
<1>2. /\ r \in Header /\ r.prev_hdr = v
      /\ r.size = h.block[x].size /\ r.free = h.block[x].free /\ r.prevFree = h.block[x].prevFree
      /\ r.prev = h.block[x].prev /\ r.next = h.block[x].next
  BY <1>1, SMT DEF Header
<1>3. g = WithHeader(h, x, r)
  BY DEF WithHeader, WithPrevHdr
<1> HIDE DEF r
<1>4. /\ HeapType(g) /\ SameControl(g, h) /\ Dom(g) = Dom(h)
      /\ g.block[x] = r /\ \A y \in Dom(h) : y # x => g.block[y] = h.block[y]
  BY <1>2, <1>3, WriteHeader
<1> QED  BY <1>2, <1>4

\* It gets another size.
LEMMA WriteSize ==
  ASSUME NEW h, HeapType(h), NEW x \in Dom(h), NEW v \in 0..OS_HEAP_SIZE,
         NEW g, g = WithSize(h, x, v)
  PROVE  /\ HeapType(g) /\ SameControl(g, h) /\ Dom(g) = Dom(h) /\ g.block[x].size = v
         /\ g.block[x].prev_hdr = h.block[x].prev_hdr /\ g.block[x].free = h.block[x].free
         /\ g.block[x].prevFree = h.block[x].prevFree
         /\ g.block[x].prev = h.block[x].prev /\ g.block[x].next = h.block[x].next
         /\ \A y \in Dom(h) : y # x => g.block[y] = h.block[y]
<1> DEFINE r == [h.block[x] EXCEPT !.size = v]
<1>1. h.block[x] \in Header
  BY DEF HeapType
<1>2. /\ r \in Header /\ r.size = v
      /\ r.prev_hdr = h.block[x].prev_hdr /\ r.free = h.block[x].free
      /\ r.prevFree = h.block[x].prevFree
      /\ r.prev = h.block[x].prev /\ r.next = h.block[x].next
  BY <1>1, SMT DEF Header
<1>3. g = WithHeader(h, x, r)
  BY DEF WithHeader, WithSize
<1> HIDE DEF r
<1>4. /\ HeapType(g) /\ SameControl(g, h) /\ Dom(g) = Dom(h)
      /\ g.block[x] = r /\ \A y \in Dom(h) : y # x => g.block[y] = h.block[y]
  BY <1>2, <1>3, WriteHeader
<1> QED  BY <1>2, <1>4

\* It is marked.
LEMMA WriteFree ==
  ASSUME NEW h, HeapType(h), NEW x \in Dom(h), NEW v \in BOOLEAN,
         NEW g, g = WithFree(h, x, v)
  PROVE  /\ HeapType(g) /\ SameControl(g, h) /\ Dom(g) = Dom(h) /\ g.block[x].free = v
         /\ g.block[x].prev_hdr = h.block[x].prev_hdr /\ g.block[x].size = h.block[x].size
         /\ g.block[x].prevFree = h.block[x].prevFree
         /\ g.block[x].prev = h.block[x].prev /\ g.block[x].next = h.block[x].next
         /\ \A y \in Dom(h) : y # x => g.block[y] = h.block[y]
<1> DEFINE r == [h.block[x] EXCEPT !.free = v]
<1>1. h.block[x] \in Header
  BY DEF HeapType
<1>2. /\ r \in Header /\ r.free = v
      /\ r.prev_hdr = h.block[x].prev_hdr /\ r.size = h.block[x].size
      /\ r.prevFree = h.block[x].prevFree
      /\ r.prev = h.block[x].prev /\ r.next = h.block[x].next
  BY <1>1, SMT DEF Header
<1>3. g = WithHeader(h, x, r)
  BY DEF WithHeader, WithFree
<1> HIDE DEF r
<1>4. /\ HeapType(g) /\ SameControl(g, h) /\ Dom(g) = Dom(h)
      /\ g.block[x] = r /\ \A y \in Dom(h) : y # x => g.block[y] = h.block[y]
  BY <1>2, <1>3, WriteHeader
<1> QED  BY <1>2, <1>4

\* What the split writes in the three headers.
LEMMA CutWrites ==
  ASSUME NEW h, HeapType(h), NEW b \in Dom(h), NEW n \in Dom(h), n # b,
         NEW b2 \in Address, b2 \notin Dom(h), NEW rest \in Header,
         NEW size \in 0..OS_HEAP_SIZE, NEW v \in BOOLEAN, NEW g,
         g = WithFree(WithSize(WithPrevHdr(WithNew(h, b2, rest), n, b2), b, size), b, v)
  PROVE  /\ HeapType(g) /\ SameControl(g, h) /\ Dom(g) = Dom(h) \cup {b2} /\ g.block[b2] = rest
         /\ \A x \in Dom(h) :
                /\ g.block[x].prev = h.block[x].prev /\ g.block[x].next = h.block[x].next
                /\ g.block[x].prevFree = h.block[x].prevFree
                /\ x # b => g.block[x].size = h.block[x].size
                /\ x # b => g.block[x].free = h.block[x].free
                /\ x # n => g.block[x].prev_hdr = h.block[x].prev_hdr
         /\ g.block[b].size = size /\ g.block[b].free = v /\ g.block[n].prev_hdr = b2
<1> DEFINE k == WithNew(h, b2, rest)
           l == WithPrevHdr(k, n, b2)
           m == WithSize(l, b, size)
<1>1. /\ k = WithNew(h, b2, rest) /\ l = WithPrevHdr(k, n, b2) /\ m = WithSize(l, b, size)
      /\ g = WithFree(m, b, v)
  OBVIOUS
<1> HIDE DEF k, l, m
<1>2. /\ HeapType(k) /\ SameControl(k, h) /\ Dom(k) = Dom(h) \cup {b2}
      /\ k.block[b2] = rest /\ \A y \in Dom(h) : k.block[y] = h.block[y]
  BY <1>1, SetNew
<1>3. /\ HeapType(l) /\ SameControl(l, k) /\ Dom(l) = Dom(k)
      /\ \A y \in Dom(k) : y # n => l.block[y] = k.block[y]
      /\ l.block[n].prev_hdr = b2 /\ l.block[n].size = k.block[n].size
      /\ l.block[n].free = k.block[n].free /\ l.block[n].prevFree = k.block[n].prevFree
      /\ l.block[n].prev = k.block[n].prev /\ l.block[n].next = k.block[n].next
  <2>1. n \in Dom(k) /\ b2 \in Pointer /\ HeapType(k)
    BY <1>2 DEF Pointer
  <2>2. l = WithPrevHdr(k, n, b2)
    BY <1>1
  <2> QED  BY <2>1, <2>2, WritePrevHdr
<1>4. /\ HeapType(m) /\ SameControl(m, l) /\ Dom(m) = Dom(l)
      /\ \A y \in Dom(l) : y # b => m.block[y] = l.block[y]
      /\ m.block[b].size = size /\ m.block[b].prev_hdr = l.block[b].prev_hdr
      /\ m.block[b].free = l.block[b].free /\ m.block[b].prevFree = l.block[b].prevFree
      /\ m.block[b].prev = l.block[b].prev /\ m.block[b].next = l.block[b].next
  <2>1. b \in Dom(l) /\ HeapType(l)
    BY <1>2, <1>3
  <2>2. m = WithSize(l, b, size)
    BY <1>1
  <2> QED  BY <2>1, <2>2, WriteSize
<1>5. /\ HeapType(g) /\ SameControl(g, m) /\ Dom(g) = Dom(m)
      /\ \A y \in Dom(m) : y # b => g.block[y] = m.block[y]
      /\ g.block[b].size = m.block[b].size /\ g.block[b].prev_hdr = m.block[b].prev_hdr
      /\ g.block[b].free = v /\ g.block[b].prevFree = m.block[b].prevFree
      /\ g.block[b].prev = m.block[b].prev /\ g.block[b].next = m.block[b].next
  <2>1. b \in Dom(m) /\ HeapType(m)
    BY <1>2, <1>3, <1>4
  <2>2. g = WithFree(m, b, v)
    BY <1>1
  <2> QED  BY <2>1, <2>2, WriteFree
<1>6. Dom(l) = Dom(h) \cup {b2} /\ Dom(m) = Dom(h) \cup {b2} /\ Dom(g) = Dom(h) \cup {b2}
  BY <1>2, <1>3, <1>4, <1>5
<1>7. g.block[b2] = rest /\ b2 # b /\ b2 # n
  BY <1>2, <1>3, <1>4, <1>5, <1>6
<1>8. \A x \in Dom(h) : x # b /\ x # n => g.block[x] = h.block[x]
  BY <1>2, <1>3, <1>4, <1>5, <1>6
<1>9. SameControl(g, h)
  BY <1>2, <1>3, <1>4, <1>5 DEF SameControl
<1>10. /\ g.block[n] = m.block[n] /\ m.block[n] = l.block[n] /\ k.block[n] = h.block[n]
       /\ l.block[b] = k.block[b] /\ k.block[b] = h.block[b]
  BY <1>2, <1>3, <1>4, <1>5, <1>6
<1>11. /\ g.block[n].prev = h.block[n].prev /\ g.block[n].next = h.block[n].next
       /\ g.block[n].prevFree = h.block[n].prevFree /\ g.block[n].size = h.block[n].size
       /\ g.block[n].free = h.block[n].free /\ g.block[n].prev_hdr = b2
  BY <1>3, <1>10
<1>12. /\ g.block[b].prev = h.block[b].prev /\ g.block[b].next = h.block[b].next
       /\ g.block[b].prevFree = h.block[b].prevFree /\ g.block[b].size = size
       /\ g.block[b].free = v /\ g.block[b].prev_hdr = h.block[b].prev_hdr
  BY <1>4, <1>5, <1>10
<1> QED  BY <1>5, <1>6, <1>7, <1>8, <1>9, <1>11, <1>12

\* The cut that Split makes before it lists the rest.
Rest(h, b, size) ==
    [prev_hdr |-> NULL, size |-> h.block[b].size - size - BHDR_OVERHEAD, free |-> TRUE,
     prevFree |-> FALSE, prev |-> NULL, next |-> NULL]

Cutting(h, b, b2, size) ==
    WithFree(WithSize(WithPrevHdr(WithNew(h, b2, Rest(h, b, size)), Next(h, b), b2),
                      b, size), b, FALSE)

\* There is room for the size that is wanted and for another block, at b2.
Splits(h, b, want, b2) ==
    /\ want \in Nat /\ want >= 8 /\ want % 8 = 0
    /\ h.block[b].size - want >= 16 /\ b2 = b + 8 + want

\* The block was cut at b2: both parts lie where it was, and the second is a
\* free block that is in no list yet.
Cuts(g, h, b, want, b2) ==
    /\ HeapType(g) /\ Tile(g) /\ Neigh(g) /\ Lists(g, Free(h) \ {b})
    /\ Dom(g) = Dom(h) \cup {b2} /\ b2 \notin Dom(h)
    /\ g.block[b2].free /\ ~ g.block[b].free /\ g.block[b].size = want
    /\ \A x \in Dom(h) : x # b => /\ g.block[x].free = h.block[x].free
                                  /\ g.block[x].size = h.block[x].size

\* The block can be cut if there is room for another header and more.
LEMMA CutStep ==
  ASSUME NEW h, NEW b, Taken(h, b), NEW want, NEW b2, Splits(h, b, want, b2),
         NEW g, g = Cutting(h, b, b2, want)
  PROVE  Cuts(g, h, b, want, b2)
<1> USE DEF Splits
<1> DEFINE n == Next(h, b)
           rest == Rest(h, b, want)
           F == Free(h) \ {b}
<1>1. /\ HeapType(h) /\ Tile(h) /\ Neigh(h) /\ Lists(h, F)
      /\ b \in Dom(h) /\ b # Area /\ b # Last /\ h.block[b].free
  BY DEF Taken, Free, Neigh
<1>2. /\ n = b + 8 + h.block[b].size /\ n \in Dom(h) /\ h.block[b].size \in Nat
      /\ h.block[b].size % 8 = 0 /\ b \in Nat /\ b % 8 = 0 /\ n <= Last
      /\ h.block[b].size <= OS_HEAP_SIZE - 32 /\ b >= 16
  BY <1>1, TileFacts
<1>3. /\ b2 \in Nat /\ b < b2 /\ b2 < n /\ n \in Nat /\ b2 % 8 = 0 /\ b2 < OS_HEAP_SIZE
      /\ n # b /\ b2 < Last
  BY <1>2, Ends, HeapSizeAssumption
<1>4. rest.size = h.block[b].size - want - 8
  BY DEF Rest, BHDR_OVERHEAD
<1>5. /\ rest.size \in Nat /\ rest.size >= 8 /\ rest.size % 8 = 0 /\ rest.size <= OS_HEAP_SIZE
      /\ b2 + 8 + rest.size = n
  <2> DEFINE s == h.block[b].size
             t == rest.size
  <2>1. s \in Nat /\ s % 8 = 0 /\ s <= OS_HEAP_SIZE - 32 /\ s - want >= 16 /\ t = s - want - 8
        /\ n = b + 8 + s
    BY <1>2, <1>4
  <2> HIDE DEF s, t, n, rest
  <2>2. t \in Nat /\ t >= 8 /\ t <= OS_HEAP_SIZE
    BY <2>1, HeapSizeAssumption, SMT
  <2>3. t % 8 = 0
    BY <2>1, SMT
  <2>4. b2 + 8 + t = n
    BY <1>2, <2>1, SMT
  <2> QED  BY <2>2, <2>3, <2>4 DEF t
<1>6. /\ rest \in Header /\ rest.free /\ ~ rest.prevFree /\ rest.prev_hdr = NULL
      /\ rest.prev = NULL /\ rest.next = NULL
  <2>1. NULL \in Pointer
    BY DEF Pointer
  <2>2. h.block[b].size - want - BHDR_OVERHEAD \in 0..OS_HEAP_SIZE
    BY <1>4, <1>5, HeapSizeAssumption, SMT DEF BHDR_OVERHEAD
  <2> QED  BY <2>1, <2>2, SMT DEF Rest, Header
<1>7. b2 \in Address /\ want \in 0..OS_HEAP_SIZE
  BY <1>2, <1>3, HeapSizeAssumption DEF Address
<1>8. b2 \notin Dom(h)
  <2> SUFFICES ASSUME b2 \in Dom(h) PROVE FALSE
    OBVIOUS
  <2>1. b2 >= n
    BY <1>1, <1>3 DEF Tile
  <2> QED  BY <1>3, <2>1
<1>9. PICK no \in BOOLEAN :
          ~ no /\ g = WithFree(WithSize(WithPrevHdr(WithNew(h, b2, rest), n, b2), b, want), b, no)
  BY Zenon DEF Cutting
<1>10. g = WithFree(WithSize(WithPrevHdr(WithNew(h, b2, rest), n, b2), b, want), b, no)
  BY <1>9
<1>11. HeapType(h) /\ b \in Dom(h) /\ n \in Dom(h) /\ n # b /\ rest \in Header
  BY <1>1, <1>2, <1>3, <1>6, SMTT(20)
<1> HIDE DEF n, rest
<1>12. /\ HeapType(g) /\ SameControl(g, h) /\ Dom(g) = Dom(h) \cup {b2} /\ g.block[b2] = rest
       /\ \A x \in Dom(h) :
              /\ g.block[x].prev = h.block[x].prev /\ g.block[x].next = h.block[x].next
              /\ g.block[x].prevFree = h.block[x].prevFree
              /\ x # b => g.block[x].size = h.block[x].size
              /\ x # b => g.block[x].free = h.block[x].free
              /\ x # n => g.block[x].prev_hdr = h.block[x].prev_hdr
       /\ g.block[b].size = want /\ g.block[b].free = no /\ g.block[n].prev_hdr = b2
  BY <1>7, <1>8, <1>10, <1>11, CutWrites
<1>13. ~ g.block[b].free /\ g.block[b2].free
  BY <1>6, <1>12, <1>9
<1>14. /\ Next(g, b) = b2 /\ Next(g, b2) = n
       /\ \A x \in Dom(h) : x # b => Next(g, x) = Next(h, x)
  <2>1. Next(g, b) = b2
    BY <1>12 DEF Next, BHDR_OVERHEAD
  <2>2. Next(g, b2) = n
    BY <1>5, <1>12 DEF Next, BHDR_OVERHEAD
  <2> QED  BY <1>12, <2>1, <2>2 DEF Next
<1>15. \A x \in Dom(h) : x \in Nat
  BY <1>1, HeaderTypes
<1>16. /\ Area \in Dom(h) /\ Last \in Dom(h) /\ h.block[Last].size = 0
       /\ \A x \in Dom(h) : x <= Last /\ x % 8 = 0 /\ h.block[x].size % 8 = 0
       /\ \A x \in Dom(h) \ {Last} : h.block[x].size >= 8 /\ Next(h, x) \in Dom(h)
       /\ \A x, y \in Dom(h) : x # Last /\ y > x => y >= Next(h, x)
  BY <1>1 DEF Tile
<1>17. Tile(g)
  <2>1. Area \in Dom(g) /\ Last \in Dom(g) /\ g.block[Last].size = 0
    BY <1>1, <1>12, <1>16
  <2>2. ASSUME NEW x \in Dom(g)
        PROVE  x <= Last /\ x % 8 = 0 /\ g.block[x].size % 8 = 0
    <3>1. CASE x = b2
      BY <1>3, <1>5, <1>12, <3>1, Ends
    <3>2. CASE x = b
      BY <1>12, <1>16, <1>1, <3>2
    <3>3. CASE x # b /\ x # b2
      BY <1>12, <1>16, <3>3
    <3> QED  BY <3>1, <3>2, <3>3
  <2>3. ASSUME NEW x \in Dom(g) \ {Last}
        PROVE  g.block[x].size >= 8 /\ Next(g, x) \in Dom(g)
    <3>1. CASE x = b2
      BY <1>2, <1>5, <1>12, <1>14, <3>1
    <3>2. CASE x = b
      BY <1>12, <1>14, <3>2
    <3>3. CASE x # b /\ x # b2
      BY <1>12, <1>14, <1>16, <3>3
    <3> QED  BY <3>1, <3>2, <3>3
  <2>4. ASSUME NEW x \in Dom(g), NEW y \in Dom(g), x # Last, y > x
        PROVE  y >= Next(g, x)
    <3>1. x \in Nat /\ y \in Nat
      BY <1>3, <1>12, <1>15
    <3>2. CASE x = b2
      <4>1. y > b2 /\ y # b2 /\ y > b
        BY <1>2, <1>3, <2>4, <3>1, <3>2
      <4>2. y \in Dom(h) /\ y > b
        BY <1>12, <4>1
      <4>3. y >= n
        BY <1>1, <1>16, <4>2 DEF n
      <4> QED  BY <1>14, <3>2, <4>3
    <3>3. CASE x = b
      <4>1. CASE y = b2
        BY <1>3, <1>14, <3>3, <4>1
      <4>2. CASE y # b2
        <5>1. y \in Dom(h) /\ y >= n
          BY <1>1, <1>12, <1>16, <2>4, <3>3, <4>2 DEF n
        <5> QED  BY <1>3, <1>14, <3>1, <3>3, <5>1
      <4> QED  BY <4>1, <4>2
    <3>4. CASE x # b /\ x # b2
      <4>1. x \in Dom(h) /\ Next(g, x) = Next(h, x) /\ Next(h, x) \in Nat
        BY <1>12, <1>14, <1>15, <1>16, <2>4, <3>4
      <4>2. CASE y # b2
        <5>1. y \in Dom(h)
          BY <1>12, <4>2
        <5>2. y >= Next(h, x)
          BY <1>16, <2>4, <4>1, <5>1
        <5> QED  BY <4>1, <5>2
      <4>3. CASE y = b2
        <5>1. ~ (x > b)
          <6> SUFFICES ASSUME x > b PROVE FALSE
            OBVIOUS
          <6>1. x >= n
            BY <1>1, <1>16, <4>1 DEF n
          <6> QED  BY <1>3, <2>4, <3>1, <4>3, <6>1
        <5>2. b > x
          BY <1>2, <3>1, <3>4, <5>1
        <5>3. b >= Next(h, x)
          BY <1>1, <1>16, <2>4, <4>1, <5>2
        <5> QED  BY <1>2, <1>3, <4>1, <4>3, <5>3
      <4> QED  BY <4>2, <4>3
    <3> QED  BY <3>2, <3>3, <3>4
  <2> QED  BY <2>1, <2>2, <2>3, <2>4 DEF Tile
<1>18. Lists(g, F)
  <2>1. F \subseteq Dom(h) /\ b \notin F
    BY DEF Free
  <2>2. F \subseteq Dom(g) /\ \A y \in F : /\ g.block[y].size = h.block[y].size
                                           /\ g.block[y].prev = h.block[y].prev
                                           /\ g.block[y].next = h.block[y].next
    BY <1>12, <2>1
  <2>3. Unlisted(h, F)
    BY <1>1 DEF Lists
  <2>4. Unlisted(g, F)
    BY <1>6, <1>12, <2>3 DEF Unlisted
  <2> HIDE DEF F
  <2> QED  BY <1>1, <1>12, <2>2, <2>4, ListsDepend
<1>19. Neigh(g)
  <2>1. b2 # Area /\ b2 # Last /\ n # Area
    BY <1>2, <1>3, Ends
  <2>2. /\ ~ h.block[Area].free /\ ~ h.block[Area].prevFree /\ ~ h.block[Last].free
    BY <1>1 DEF Neigh
  <2>3. ~ g.block[Area].free /\ ~ g.block[Area].prevFree /\ ~ g.block[Last].free
    BY <1>1, <1>12, <1>16, <2>2
  <2>4. ASSUME NEW c \in Dom(h) \ {Last}
        PROVE  /\ h.block[Next(h, c)].prevFree <=> h.block[c].free
               /\ h.block[c].free => /\ h.block[Next(h, c)].prev_hdr = c
                                     /\ ~ h.block[Next(h, c)].free
    BY <1>1 DEF Neigh
  <2>5. ASSUME NEW c \in Dom(g) \ {Last}
        PROVE  /\ g.block[Next(g, c)].prevFree <=> g.block[c].free
               /\ g.block[c].free => /\ g.block[Next(g, c)].prev_hdr = c
                                     /\ ~ g.block[Next(g, c)].free
    <3>1. CASE c = b
      BY <1>6, <1>12, <1>13, <1>14, <3>1
    <3>2. CASE c = b2
      <4>1. h.block[n].prevFree /\ ~ h.block[n].free
        BY <1>1, <2>4 DEF n
      <4>2. g.block[n].prevFree = h.block[n].prevFree /\ g.block[n].free = h.block[n].free
        BY <1>2, <1>3, <1>12
      <4> QED  BY <1>12, <1>13, <1>14, <3>2, <4>1, <4>2
    <3>3. CASE c # b /\ c # b2
      <4>1. c \in Dom(h) /\ c # Last /\ Next(g, c) = Next(h, c) /\ Next(h, c) \in Dom(h)
        BY <1>12, <1>14, <1>16, <3>3
      <4>2. Next(h, c) # n
        BY <1>1, <3>3, <4>1, TileFacts DEF n
      <4>3. /\ g.block[c].free = h.block[c].free
            /\ g.block[Next(h, c)].prevFree = h.block[Next(h, c)].prevFree
            /\ g.block[Next(h, c)].prev_hdr = h.block[Next(h, c)].prev_hdr
        BY <1>12, <3>3, <4>1, <4>2
      <4>4. ~ h.block[Next(h, c)].free => ~ g.block[Next(h, c)].free
        BY <1>12, <1>13, <4>1
      <4>5. /\ h.block[Next(h, c)].prevFree <=> h.block[c].free
            /\ h.block[c].free => /\ h.block[Next(h, c)].prev_hdr = c
                                  /\ ~ h.block[Next(h, c)].free
        BY <2>4, <4>1
      <4> QED  BY <4>1, <4>3, <4>4, <4>5
    <3> QED  BY <3>1, <3>2, <3>3
  <2>6. ASSUME NEW x \in Dom(g)
        PROVE  /\ g.block[x].prev_hdr # NULL => Behind(g, x)
               /\ g.block[x].prevFree => g.block[x].prev_hdr # NULL
                                         /\ g.block[g.block[x].prev_hdr].free
    <3>1. CASE x = b2
      BY <1>6, <1>12, <3>1
    <3>2. CASE x = n
      <4>1. g.block[x].prev_hdr = b2 /\ b2 \in Dom(g) \ {Last} /\ Next(g, b2) = x
        BY <1>12, <1>14, <2>1, <3>2
      <4>2. b2 # NULL
        BY <1>7, NullIsNoHeader
      <4> QED  BY <1>13, <4>1, <4>2 DEF Behind
    <3>3. CASE x # b2 /\ x # n
      <4> DEFINE p == h.block[x].prev_hdr
      <4>1. /\ x \in Dom(h) /\ (p # NULL => Behind(h, x))
            /\ h.block[x].prevFree => p # NULL /\ h.block[p].free
        BY <1>1, <1>12, <3>3 DEF Neigh
      <4>2. Behind(h, x) => p \in Dom(h) \ {Last} /\ Next(h, p) = x
        BY DEF Behind
      <4> HIDE DEF p
      <4>3. g.block[x].prev_hdr = p /\ g.block[x].prevFree = h.block[x].prevFree
        BY <1>12, <3>3, <4>1 DEF p
      <4>4. ASSUME p # NULL
            PROVE  p \in Dom(g) \ {Last} /\ Next(g, p) = x /\ p \in Dom(h) /\ p # b
        <5>1. p \in Dom(h) \ {Last} /\ Next(h, p) = x
          BY <4>1, <4>2, <4>4
        <5>2. p # b
          BY <3>3, <5>1 DEF n
        <5> QED  BY <1>12, <1>14, <5>1, <5>2
      <4>5. p # NULL => Behind(g, x)
        BY <4>3, <4>4 DEF Behind
      <4>6. ASSUME g.block[x].prevFree PROVE p # NULL /\ g.block[p].free
        <5>1. p # NULL /\ h.block[p].free
          BY <4>1, <4>3, <4>6
        <5> QED  BY <1>12, <4>4, <5>1
      <4> QED  BY <4>3, <4>5, <4>6
    <3> QED  BY <3>1, <3>2, <3>3
  <2> QED  BY <2>3, <2>5, <2>6 DEF Neigh
<1> QED  BY <1>8, <1>12, <1>13, <1>17, <1>18, <1>19 DEF Cuts

\* The block is split, and the rest of it listed.
LEMMA SplitStep ==
  ASSUME NEW h, NEW b, Taken(h, b), NEW want, NEW b2, Splits(h, b, want, b2),
         NEW g, g = Split(h, b, want)
  PROVE  Handed(g, h, b, want)
<1> DEFINE cut == Cutting(h, b, b2, want)
           F == Free(h) \ {b}
<1>1. g = Insert(cut, b2)
  <2>1. b2 = b + BHDR_OVERHEAD + want
    BY DEF Splits, BHDR_OVERHEAD
  <2> QED  BY <2>1, Zenon
           DEF Split, Cutting, Rest, WithFree, WithSize, WithPrevHdr, WithNew
<1>2. cut = Cutting(h, b, b2, want)
  OBVIOUS
<1> HIDE DEF cut
<1>3. /\ HeapType(cut) /\ Tile(cut) /\ Neigh(cut) /\ Lists(cut, F)
      /\ Dom(cut) = Dom(h) \cup {b2} /\ b2 \notin Dom(h)
      /\ cut.block[b2].free /\ ~ cut.block[b].free /\ cut.block[b].size = want
      /\ \A x \in Dom(h) : x # b => /\ cut.block[x].free = h.block[x].free
                                    /\ cut.block[x].size = h.block[x].size
  <2>1. Cuts(cut, h, b, want, b2)
    BY <1>2, CutStep
  <2> QED  BY <2>1 DEF Cuts
<1>4. /\ b \in Dom(h) /\ b # Area /\ b # Last /\ Area \in Dom(h) /\ Last \in Dom(h)
  BY DEF Taken, Free, Neigh, Tile
<1>5. Free(cut) = F \cup {b2} /\ b2 \notin F /\ b2 # Area /\ b2 # Last /\ b2 # b
  BY <1>3, <1>4 DEF Free
<1>6. \A x \in F \cup {b2} : Class(cut, x) \in FL \X SL
  <2> TAKE x \in F \cup {b2}
  <2>1. x \in Dom(cut) /\ cut.block[x].free
    BY <1>5 DEF Free
  <2>2. x # Area /\ x # Last
    BY <1>3, <2>1 DEF Neigh
  <2> QED  BY <1>3, <2>1, <2>2, TileFacts
<1>7. b2 \in Dom(cut)
  BY <1>3
<1> HIDE DEF F
<1>8. HeapType(g) /\ SameShape(g, cut) /\ Lists(g, F \cup {b2})
  BY <1>1, <1>3, <1>5, <1>6, <1>7, InsertLists
<1>9. Tile(g) /\ Neigh(g) /\ Free(g) = F \cup {b2}
  BY <1>3, <1>5, <1>8, ShapeDecides
<1>10. /\ Dom(g) = Dom(h) \cup {b2}
       /\ \A x \in Dom(g) : /\ g.block[x].free = cut.block[x].free
                            /\ g.block[x].size = cut.block[x].size
  BY <1>3, <1>8 DEF SameShape
<1>11. Kept(g, h, b)
  BY <1>3, <1>10 DEF Kept
<1>12. b \in Dom(g) \ {Area, Last} /\ ~ g.block[b].free /\ g.block[b].size >= want
  <2>1. want \in Nat
    BY DEF Splits
  <2> QED  BY <1>3, <1>4, <1>10, <2>1
<1> QED  BY <1>8, <1>9, <1>11, <1>12 DEF Handed

\* What uLipeMemAlloc leaves, if it finds a block.
LEMMA AllocWorks ==
  ASSUME NEW h, HeapType(h), Tile(h), Neigh(h), Lists(h, Free(h)), NEW size \in Nat,
         NEW class, class = Mapping(Wanted(size)), NEW b, b = FindSuitable(h, class), b # NULL,
         NEW k, k = ExtractHdr(h, b, Suitable(h, class)), NEW g,
         g = Used(IF k.block[b].size - Wanted(size) >= BHDR_SIZE
                  THEN Split(k, b, Wanted(size)) ELSE Whole(k, b), b)
  PROVE  b \in Free(h) /\ Handed(g, h, b, Wanted(size))
<1> DEFINE want == Wanted(size)
           c == Suitable(h, class)
           taken == IF k.block[b].size - want >= BHDR_SIZE THEN Split(k, b, want) ELSE Whole(k, b)
           u == taken.used_size + taken.block[b].size + BHDR_OVERHEAD
<1>1. want \in Nat /\ want >= 8 /\ want % 8 = 0
  BY WantedBegins
<1>2. b \in Free(h) /\ h.block[b].size >= want /\ c \in FL \X SL /\ h.matrix[c] = b
  BY RoomInLists
<1>3. g = WithUsed(taken, u)
  BY Zenon DEF Used, WithUsed
<1>4. k = ExtractHdr(h, b, c)
  OBVIOUS
<1>5. taken = IF k.block[b].size - want >= 16 THEN Split(k, b, want) ELSE Whole(k, b)
  BY DEF BHDR_SIZE
<1> HIDE DEF want, c, taken, u
<1>6. Removed(k, h, b)
  BY <1>2, <1>4, ExtractHdrRemoves
<1>7. \A x \in Free(h) : Class(h, x) \in FL \X SL
  <2> TAKE x \in Free(h)
  <2>1. x \in Dom(h) /\ x # Area /\ x # Last
    BY DEF Free, Neigh
  <2> QED  BY <2>1, TileFacts
<1>8. Lists(k, Free(h) \ {b})
  BY <1>2, <1>6, <1>7, RemovedLists
<1>9. HeapType(k) /\ SameShape(k, h)
  BY <1>6 DEF Removed
<1>10. Tile(k) /\ Neigh(k) /\ Free(k) = Free(h)
  BY <1>9, ShapeDecides
<1>11. Taken(k, b)
  BY <1>2, <1>8, <1>9, <1>10 DEF Taken
<1>12. b \in Dom(h) /\ k.block[b].size = h.block[b].size
  BY <1>2, <1>9 DEF Free, SameShape
<1>13. Handed(taken, k, b, want)
  <2>1. CASE k.block[b].size - want >= 16
    <3>1. PICK b2 : Splits(k, b, want, b2)
      BY <1>1, <2>1 DEF Splits
    <3>2. taken = Split(k, b, want)
      BY <1>5, <2>1
    <3> QED  BY <1>11, <3>1, <3>2, SplitStep
  <2>2. CASE ~ (k.block[b].size - want >= 16)
    <3>1. k.block[b].size >= want /\ taken = Whole(k, b)
      BY <1>2, <1>5, <1>12, <2>2
    <3> QED  BY <1>11, <3>1, WholeStep
  <2> QED  BY <2>1, <2>2
<1>14. /\ HeapType(taken) /\ Tile(taken) /\ Neigh(taken) /\ Lists(taken, Free(taken))
       /\ Kept(taken, k, b) /\ b \in Dom(taken) \ {Area, Last}
       /\ ~ taken.block[b].free /\ taken.block[b].size >= want
  BY <1>13 DEF Handed
<1>15. HeapType(g) /\ g.block = taken.block /\ SameShape(g, taken) /\ Lists(g, Free(taken))
  <2>1. HeapType(taken)
    BY <1>14
  <2>2. /\ HeapType(g) /\ g.block = taken.block /\ SameShape(g, taken)
        /\ \A F : Lists(taken, F) => Lists(g, F)
    BY <1>3, <2>1, SetUsed
  <2> QED  BY <1>14, <2>2, Zenon
<1>16. Tile(g) /\ Neigh(g) /\ Free(g) = Free(taken) /\ Dom(g) = Dom(taken)
  <2>1. HeapType(g) /\ SameShape(g, taken) /\ Tile(taken) /\ Neigh(taken)
    BY <1>14, <1>15
  <2>2. Tile(g) /\ Neigh(g) /\ Free(g) = Free(taken)
    BY <2>1, ShapeDecides, Zenon
  <2>3. Dom(g) = Dom(taken)
    BY <2>1, Zenon DEF SameShape
  <2> QED  BY <2>2, <2>3
<1>17. Kept(g, h, b)
  <2> SUFFICES ASSUME NEW x \in Dom(h), ~ h.block[x].free, x # b
               PROVE  x \in Dom(g) /\ ~ g.block[x].free /\ g.block[x].size = h.block[x].size
    BY DEF Kept
  <2>1. x \in Dom(k) /\ ~ k.block[x].free /\ k.block[x].size = h.block[x].size
    BY <1>9 DEF SameShape
  <2>2. x \in Dom(taken) /\ ~ taken.block[x].free /\ taken.block[x].size = k.block[x].size
    <3>1. Kept(taken, k, b)
      BY <1>14
    <3> QED  BY <2>1, <3>1, Zenon DEF Kept
  <2>3. x \in Dom(g) /\ g.block[x] = taken.block[x]
    BY <1>15, <1>16, <2>2, Zenon
  <2> QED  BY <2>1, <2>2, <2>3, Zenon
<1>18. Lists(g, Free(g))
  BY <1>15, <1>16, Zenon
<1>19. b \in Dom(g) \ {Area, Last} /\ ~ g.block[b].free /\ g.block[b].size >= want
  <2>1. /\ b \in Dom(taken) \ {Area, Last} /\ ~ taken.block[b].free
        /\ taken.block[b].size >= want
    BY <1>14
  <2>2. Dom(g) = Dom(taken) /\ g.block[b] = taken.block[b]
    BY <1>15, <1>16, Zenon
  <2> QED  BY <2>1, <2>2, Zenon
<1>20. Handed(g, h, b, want)
  BY <1>15, <1>16, <1>17, <1>18, <1>19, Zenon DEF Handed
<1> QED  BY <1>2, <1>20, Zenon DEF want
-----------------------------------------------------------------------------
(* The blocks that are held                                                *)

\* A block that is not free has its own header, and keeps its size, while
\* another one is taken or freed.
LEMMA HeldKept ==
  ASSUME NEW h, NEW g, NEW b, NEW L, Held(h, L), Kept(g, h, b), NEW M \in SUBSET L,
         \A r \in M : r.addr - 8 # b
  PROVE  Held(g, M)
<1>1. \A r, s \in M : r.addr = s.addr => r = s
  BY DEF Held
<1>2. ASSUME NEW r \in M
      PROVE  /\ r = [addr |-> r.addr, len |-> r.len] /\ r.addr \in Nat /\ r.len \in Nat
             /\ r.addr - 8 \in Dom(g) \ {Area, Last}
             /\ ~ g.block[r.addr - 8].free /\ r.len <= g.block[r.addr - 8].size
  <2> DEFINE x == r.addr - 8
  <2>1. /\ r = [addr |-> r.addr, len |-> r.len] /\ r.addr \in Nat /\ r.len \in Nat
        /\ x \in Dom(h) \ {Area, Last} /\ ~ h.block[x].free /\ r.len <= h.block[x].size
    BY Zenon DEF Held
  <2>2. x # b
    OBVIOUS
  <2> HIDE DEF x
  <2>3. x \in Dom(g) /\ ~ g.block[x].free /\ g.block[x].size = h.block[x].size
    BY <2>1, <2>2 DEF Kept
  <2>4. x \in Dom(g) \ {Area, Last} /\ r.len <= g.block[x].size
    BY <2>1, <2>3
  <2> QED  BY <2>1, <2>3, <2>4 DEF x
<1> QED  BY <1>1, <1>2 DEF Held

\* A block that is handed out joins the blocks that are held.
LEMMA AllocSound ==
  ASSUME NEW h, NEW L, Sound(h, L), NEW b, b \in Free(h), NEW want \in Nat, NEW g,
         Handed(g, h, b, want), NEW len \in Nat, len <= want
  PROVE  /\ Sound(g, L \cup {[addr |-> b + 8, len |-> len]})
         /\ \A r \in L : r.addr - 8 # b
<1>1. Held(h, L) /\ HeapType(g) /\ Tile(g) /\ Neigh(g) /\ Lists(g, Free(g)) /\ Kept(g, h, b)
      /\ b \in Dom(g) \ {Area, Last} /\ ~ g.block[b].free /\ g.block[b].size >= want
  BY DEF Sound, Handed
<1>2. \A r \in L : r.addr - 8 # b /\ r.addr \in Nat
  BY <1>1 DEF Held, Free
<1>3. Held(g, L)
  BY <1>1, <1>2, HeldKept
<1> DEFINE n == [addr |-> b + 8, len |-> len]
<1>4. b \in Nat /\ g.block[b].size \in Nat
  BY <1>1, HeaderTypes
<1>5. n = [addr |-> n.addr, len |-> n.len] /\ n.addr = b + 8 /\ n.len = len
  OBVIOUS
<1> HIDE DEF n
<1>6. n.addr \in Nat /\ n.len \in Nat /\ n.addr - 8 = b /\ n.len <= g.block[b].size
  BY <1>1, <1>4, <1>5
<1>7. \A r \in L : r.addr # n.addr
  BY <1>2, <1>6
<1>8. Held(g, L \cup {n})
  <2>1. ASSUME NEW r \in L \cup {n}
        PROVE  /\ r = [addr |-> r.addr, len |-> r.len] /\ r.addr \in Nat /\ r.len \in Nat
               /\ r.addr - 8 \in Dom(g) \ {Area, Last}
               /\ ~ g.block[r.addr - 8].free /\ r.len <= g.block[r.addr - 8].size
    <3>1. CASE r \in L
      BY <1>3, <3>1, Zenon DEF Held
    <3>2. CASE r = n
      BY <1>1, <1>5, <1>6, <3>2, Zenon
    <3> QED  BY <3>1, <3>2
  <2>2. \A r, s \in L \cup {n} : r.addr = s.addr => r = s
    BY <1>3, <1>7 DEF Held
  <2> QED  BY <2>1, <2>2 DEF Held
<1> QED  BY <1>1, <1>2, <1>8 DEF Sound, n

\* A block that is given back leaves them.
LEMMA FreeSound ==
  ASSUME NEW h, NEW L, Sound(h, L), NEW r \in L, NEW g, g = Freed(h, r.addr - 8)
  PROVE  Sound(g, L \ {r})
<1> DEFINE b == r.addr - 8
<1>1. /\ HeapType(h) /\ Tile(h) /\ Neigh(h) /\ Lists(h, Free(h)) /\ Held(h, L)
      /\ b \in Dom(h) /\ b # Area /\ b # Last /\ ~ h.block[b].free
      /\ r.addr \in Nat
  BY Zenon DEF Sound, Held
<1>2. \A s \in L : s.addr \in Nat /\ (r.addr = s.addr => r = s)
  BY DEF Sound, Held
<1>3. \A s \in L \ {r} : s.addr - 8 # b
  BY <1>1, <1>2
<1>4. g = Freed(h, b)
  OBVIOUS
<1> HIDE DEF b
<1>5. HeapType(g) /\ Tile(g) /\ Neigh(g) /\ Lists(g, Free(g)) /\ Kept(g, h, b)
  BY <1>1, <1>4, FreedWorks
<1>6. L \ {r} \in SUBSET L
  OBVIOUS
<1>7. Held(g, L \ {r})
  BY <1>1, <1>3, <1>5, <1>6, HeldKept
<1> QED  BY <1>5, <1>7 DEF Sound
-----------------------------------------------------------------------------
(* uLipeMemInit                                                            *)

\* The area that process_area makes, before its one block is freed.
LEMMA ProcessedHeap ==
  /\ HeapType(Processed) /\ Tile(Processed) /\ Lists(Processed, {})
  /\ Dom(Processed) = {Area, First, Last}
  /\ Next(Processed, Area) = First /\ Next(Processed, First) = Last
  /\ \A x \in {Area, First, Last} : ~ Processed.block[x].free
  /\ \A x \in {Area, First} : /\ ~ Processed.block[x].prevFree
                              /\ Processed.block[x].prev_hdr = NULL
<1> DEFINE P == Processed
           D == {Area, First, Last}
           H == OS_HEAP_SIZE
<1>1. /\ Area = 0 /\ First = 16 /\ Space = H - 32 /\ Last = H - 8 /\ H \in Nat /\ 64 <= H
      /\ H % 8 = 0 /\ ROUNDUP_SIZE(8) = 8
  BY Ends, HeapSizeAssumption, SMT DEF ROUNDUP_SIZE, BLOCK_ALIGN
<1>2. /\ P.block = [a \in D |->
                   CASE a = Area -> RawBlock(ROUNDUP_SIZE(8))
                     [] a = First -> RawBlock(Space)
                     [] a = Last -> [RawBlock(0) EXCEPT !.prevFree = TRUE, !.prev_hdr = First]]
      /\ P.matrix = [class \in FL \X SL |-> NULL] /\ P.sl_bitmap = [fl \in FL |-> {}]
      /\ P.fl_bitmap = {} /\ P.used_size = 0
  BY Zenon DEF Processed
<1>3. P = [block |-> P.block, matrix |-> P.matrix, sl_bitmap |-> P.sl_bitmap,
           fl_bitmap |-> P.fl_bitmap, used_size |-> P.used_size]
  BY Zenon DEF Processed
<1>4. Area # First /\ First # Last /\ Area # Last
  BY <1>1
<1>5. Dom(P) = D
  BY <1>2, Zenon DEF Dom
<1>6. /\ P.block[Area] = RawBlock(8) /\ P.block[First] = RawBlock(H - 32)
      /\ P.block[Last] = [[RawBlock(0) EXCEPT !.prevFree = TRUE] EXCEPT !.prev_hdr = First]
  BY <1>1, <1>2, <1>4
<1>7. /\ RawBlock(8) \in Header /\ RawBlock(H - 32) \in Header /\ RawBlock(0) \in Header
      /\ RawBlock(8).size = 8 /\ RawBlock(H - 32).size = H - 32 /\ RawBlock(0).size = 0
  <2>1. NULL \in Pointer /\ 8 \in 0..H /\ H - 32 \in 0..H /\ 0 \in 0..H
    BY <1>1 DEF Pointer
  <2> QED  BY <2>1, SMT DEF RawBlock, Header
<1>8. ASSUME NEW n
      PROVE  /\ ~ RawBlock(n).free /\ ~ RawBlock(n).prevFree /\ RawBlock(n).prev_hdr = NULL
             /\ RawBlock(n).prev = NULL /\ RawBlock(n).next = NULL
  BY SMT DEF RawBlock
<1>9. /\ P.block[Last] \in Header /\ P.block[Last].size = 0 /\ ~ P.block[Last].free
      /\ P.block[Last].prev = NULL /\ P.block[Last].next = NULL
  <2> DEFINE r == RawBlock(0)
  <2>1. r \in Header /\ r.size = 0 /\ ~ r.free /\ r.prev = NULL /\ r.next = NULL
    BY <1>7, <1>8
  <2>2. PICK yes \in BOOLEAN :
          P.block[Last] = [[r EXCEPT !.prevFree = yes] EXCEPT !.prev_hdr = First]
    BY <1>6, Zenon
  <2> DEFINE s == [r EXCEPT !.prevFree = yes]
             t == [s EXCEPT !.prev_hdr = First]
  <2> HIDE DEF r, P
  <2>3. s \in Header
    BY <2>1, SMT DEF Header
  <2>4. s.size = r.size /\ s.free = r.free /\ s.prev = r.prev /\ s.next = r.next
    BY <2>1, SMT DEF Header
  <2>5. First \in Pointer
    BY <1>1 DEF Pointer, Address
  <2>6. P.block[Last] = t
    BY <2>2
  <2> HIDE DEF s
  <2>7. t \in Header
    BY <2>3, <2>5, SMT DEF Header
  <2>8. t.size = s.size /\ t.free = s.free /\ t.prev = s.prev /\ t.next = s.next
    BY <2>3, SMT DEF Header
  <2> HIDE DEF t
  <2> QED  BY <2>1, <2>4, <2>6, <2>7, <2>8
<1>10. /\ \A x \in D : P.block[x] \in Header
       /\ P.block[Area].size = 8 /\ P.block[First].size = H - 32 /\ P.block[Last].size = 0
       /\ \A x \in D : /\ ~ P.block[x].free
                        /\ P.block[x].prev = NULL /\ P.block[x].next = NULL
       /\ \A x \in {Area, First} : ~ P.block[x].prevFree /\ P.block[x].prev_hdr = NULL
  <2> HIDE DEF P
  <2>1. /\ P.block[Area] \in Header /\ P.block[Area].size = 8 /\ ~ P.block[Area].free
        /\ P.block[Area].prev = NULL /\ P.block[Area].next = NULL
        /\ ~ P.block[Area].prevFree /\ P.block[Area].prev_hdr = NULL
    BY <1>6, <1>7, <1>8
  <2>2. /\ P.block[First] \in Header /\ P.block[First].size = H - 32 /\ ~ P.block[First].free
        /\ P.block[First].prev = NULL /\ P.block[First].next = NULL
        /\ ~ P.block[First].prevFree /\ P.block[First].prev_hdr = NULL
    BY <1>6, <1>7, <1>8
  <2> QED  BY <1>9, <2>1, <2>2
<1>11. HeapType(P)
  <2>1. P.block \in [Dom(P) -> Header]
    BY <1>2, <1>5, <1>10, Zenon
  <2>2. Dom(P) \subseteq Address
    BY <1>1, <1>5 DEF Address
  <2>3. P.matrix \in Matrix /\ P.sl_bitmap \in Bitmaps /\ P.fl_bitmap \in SUBSET FL
    <3>1. NULL \in Pointer
      BY DEF Pointer
    <3> QED  BY <1>2, <3>1 DEF Matrix, Bitmaps
  <2> HIDE DEF P
  <2> QED  BY <1>3, <2>1, <2>2, <2>3 DEF HeapType
<1> HIDE DEF P
<1>12. Next(P, Area) = First /\ Next(P, First) = Last
  BY <1>1, <1>10 DEF Next, BHDR_OVERHEAD
<1>13. Tile(P)
  <2>1. Area \in Dom(P) /\ Last \in Dom(P) /\ P.block[Last].size = 0
    BY <1>5, <1>10
  <2>2. /\ Area <= Last /\ First <= Last /\ Area % 8 = 0 /\ First % 8 = 0 /\ Last % 8 = 0
        /\ 8 % 8 = 0 /\ (H - 32) % 8 = 0 /\ 0 % 8 = 0 /\ H - 32 >= 8
    BY <1>1, SMT
  <2>3. \A x \in Dom(P) : x <= Last /\ x % 8 = 0 /\ P.block[x].size % 8 = 0
    <3>1. /\ P.block[Area].size % 8 = 0 /\ P.block[First].size % 8 = 0
          /\ P.block[Last].size % 8 = 0
      BY <1>10, <2>2
    <3>2. Last <= Last
      BY <1>1
    <3> QED  BY <1>5, <2>2, <3>1, <3>2, Zenon
  <2>4. \A x \in Dom(P) \ {Last} : P.block[x].size >= 8 /\ Next(P, x) \in Dom(P)
    BY <1>5, <1>10, <1>12, <2>2
  <2>5. \A x, y \in Dom(P) : x # Last /\ y > x => y >= Next(P, x)
    BY <1>1, <1>5, <1>12
  <2> QED  BY <2>1, <2>3, <2>4, <2>5 DEF Tile
<1>14. Lists(P, {})
  <2>1. Linked(P, {}) /\ Unlisted(P, {})
    BY <1>5, <1>10 DEF Linked, Unlisted
  <2>2. Ranked(P, {})
    <3>1. [b \in {} |-> 0] \in [{} -> Nat]
      OBVIOUS
    <3> QED  BY <3>1, Zenon DEF Ranked
  <2>3. /\ \A c \in FL \X SL : P.matrix[c] = NULL
        /\ \A fl \in FL : P.sl_bitmap[fl] = {}
        /\ P.fl_bitmap = {}
    BY <1>2
  <2>4. Heads(P, {})
    BY <2>3 DEF Heads
  <2>5. Bits(P)
    <3>1. \A c \in FL \X SL : c[1] \in FL
      OBVIOUS
    <3> QED  BY <2>3, <3>1 DEF Bits
  <2> QED  BY <2>1, <2>2, <2>4, <2>5 DEF Lists
<1> QED  BY <1>5, <1>10, <1>11, <1>12, <1>13, <1>14 DEF P

\* uLipeMemInit leaves one free block between the area's own and the last.
LEMMA InitSound ==
  ASSUME NEW u, NEW g, g = WithUsed(Freed(Processed, First), u)
  PROVE  Sound(g, {})
<1> DEFINE h == Processed
           v == h.used_size - h.block[First].size - BHDR_OVERHEAD
           first == IF h.block[First].prevFree THEN h.block[First].prev_hdr ELSE First
           freed == Freed(h, First)
<1>1. /\ HeapType(h) /\ Tile(h) /\ Lists(h, {}) /\ Dom(h) = {Area, First, Last}
      /\ Next(h, Area) = First /\ Next(h, First) = Last
      /\ \A x \in {Area, First, Last} : ~ h.block[x].free
      /\ \A x \in {Area, First} : ~ h.block[x].prevFree /\ h.block[x].prev_hdr = NULL
      /\ Area # First /\ First # Last /\ Area # Last
  BY ProcessedHeap, Ends
<1>2. PICK yes \in BOOLEAN :
         yes /\ freed = Listed(JoinPrev(JoinNext(WithMark(h, First, yes, v), First), First), first)
  BY Zenon DEF Freed, WithMark, WithUsed, WithLinks, WithFree
<1> DEFINE k == WithMark(h, First, yes, v)
<1>3. /\ k = WithMark(h, First, yes, v) /\ g = WithUsed(freed, u)
      /\ freed = Listed(JoinPrev(JoinNext(k, First), First), first)
  BY <1>2
<1> HIDE DEF h, k, v, freed
<1>4. First \in Dom(h) /\ h.block[First].prev = NULL /\ h.block[First].next = NULL
  BY <1>1 DEF Lists, Unlisted
<1>5. k = WithMark(h, First, yes, v)
  BY <1>3
<1>6. /\ SameLists(k, h) /\ k.block[First].free = yes
      /\ k.block[First].prevFree = h.block[First].prevFree
      /\ k.block[First].prev_hdr = h.block[First].prev_hdr
      /\ \A y \in Dom(h) : y # First => /\ k.block[y].free = h.block[y].free
                                        /\ k.block[y].prevFree = h.block[y].prevFree
                                        /\ k.block[y].prev_hdr = h.block[y].prev_hdr
  BY <1>1, <1>4, <1>5, SetMark
<1>7. /\ HeapType(k) /\ Tile(k) /\ Dom(k) = Dom(h) /\ Lists(k, {})
      /\ Next(k, Area) = First /\ Next(k, First) = Last
  BY <1>1, <1>6 DEF SameLists
<1>8. /\ k.block[First].free /\ ~ k.block[Area].free /\ ~ k.block[Last].free
      /\ \A x \in {Area, First} : ~ k.block[x].prevFree /\ k.block[x].prev_hdr = NULL
  BY <1>1, <1>2, <1>6
<1>9. Free(k) \ {First} = {}
  BY <1>1, <1>7, <1>8 DEF Free
<1>10. NeighBut(k, First)
  <2>1. \A c \in Dom(k) \ {Last, First} :
            /\ k.block[Next(k, c)].prevFree <=> k.block[c].free
            /\ k.block[c].free => /\ k.block[Next(k, c)].prev_hdr = c
                                  /\ Next(k, c) # First => ~ k.block[Next(k, c)].free
    BY <1>1, <1>7, <1>8
  <2>2. \A x \in Dom(k) \ {Next(k, First)} :
            /\ k.block[x].prev_hdr # NULL => Behind(k, x)
            /\ k.block[x].prevFree => k.block[x].prev_hdr # NULL
                                      /\ k.block[k.block[x].prev_hdr].free
    BY <1>1, <1>7, <1>8
  <2> QED  BY <1>1, <1>7, <1>8, <2>1, <2>2 DEF NeighBut
<1>11. Freeing(k, First)
  BY <1>7, <1>9, <1>10 DEF Freeing
<1>12. first = IF k.block[First].prevFree THEN k.block[First].prev_hdr ELSE First
  BY <1>6
<1> HIDE DEF first
<1>13. HeapType(freed) /\ Tile(freed) /\ Neigh(freed) /\ Lists(freed, Free(freed))
  BY <1>3, <1>11, <1>12, FreeSteps
<1>14. /\ HeapType(g) /\ SameShape(g, freed) /\ \A F : Lists(freed, F) => Lists(g, F)
  BY <1>3, <1>13, SetUsed
<1>15. Tile(g) /\ Neigh(g) /\ Free(g) = Free(freed)
  BY <1>13, <1>14, ShapeDecides
<1>16. Lists(g, Free(g))
  BY <1>13, <1>14, <1>15
<1> QED  BY <1>14, <1>15, <1>16 DEF Sound, Held
-----------------------------------------------------------------------------
(* The theorems                                                            *)

\* A request that is served gets a block of its own.
LEMMA AllocStep ==
  ASSUME MInv, NEW size \in Requests, MemAlloc(size)
  PROVE  \E b \in Free(tlsf) :
            LET r == [addr |-> b + 8, len |-> Cut(size)]
            IN  /\ live' = live \cup {r} /\ r \notin live
                /\ Sound(tlsf', live \cup {r})
<1> DEFINE want == Wanted(size)
           class == Mapping(want)
           b == FindSuitable(tlsf, class)
           k == ExtractHdr(tlsf, b, Suitable(tlsf, class))
           len == Cut(size)
           r == [addr |-> b + 8, len |-> len]
<1>1. size \in Nat
  BY RequestsAssumption
<1>2. want \in Nat /\ len \in Nat /\ len <= want
  BY <1>1, WantedBegins
<1>3. /\ b # NULL /\ live' = live \cup {r}
      /\ tlsf' = Used(IF k.block[b].size - want >= BHDR_SIZE
                      THEN Split(k, b, want) ELSE Whole(k, b), b)
  BY Zenon DEF MemAlloc, BHDR_OVERHEAD
<1>4. HeapType(tlsf) /\ Tile(tlsf) /\ Neigh(tlsf) /\ Lists(tlsf, Free(tlsf))
  BY DEF MInv, Sound
<1>5. b \in Free(tlsf) /\ Handed(tlsf', tlsf, b, want)
  <2> DEFINE g == tlsf'
             h == tlsf
  <2>1. /\ class = Mapping(Wanted(size)) /\ b = FindSuitable(h, class)
        /\ k = ExtractHdr(h, b, Suitable(h, class))
        /\ g = Used(IF k.block[b].size - Wanted(size) >= BHDR_SIZE
                    THEN Split(k, b, Wanted(size)) ELSE Whole(k, b), b)
    BY <1>3
  <2>2. HeapType(h) /\ Tile(h) /\ Neigh(h) /\ Lists(h, Free(h)) /\ b # NULL
    BY <1>3, <1>4
  <2> HIDE DEF class, b, k, g, h
  <2>3. b \in Free(h) /\ Handed(g, h, b, Wanted(size))
    BY <1>1, <2>1, <2>2, AllocWorks
  <2> QED  BY <2>3 DEF g, h
<1> HIDE DEF want, class, b, k, len
<1>6. Sound(tlsf, live)
  BY DEF MInv
<1>7. Sound(tlsf', live \cup {r}) /\ \A s \in live : s.addr - 8 # b
  <2> DEFINE g == tlsf'
             h == tlsf
             L == live
  <2>1. b \in Free(h) /\ Handed(g, h, b, want) /\ Sound(h, L)
    BY <1>5, <1>6
  <2> HIDE DEF g, h, L
  <2>2. /\ Sound(g, L \cup {[addr |-> b + 8, len |-> len]})
        /\ \A s \in L : s.addr - 8 # b
    BY <1>2, <2>1, AllocSound
  <2> QED  BY <2>2 DEF g, h, L
<1>8. r \notin live
  <2>1. b \in Nat
    BY <1>4, <1>5, HeaderTypes DEF Free
  <2>2. r.addr - 8 = b
    BY <2>1
  <2> QED  BY <1>7, <2>2
<1> QED  BY <1>3, <1>5, <1>7, <1>8 DEF len

\* The invariant holds at first, and every call keeps it.
LEMMA HeapInit == MemInit => MInv
<1> SUFFICES ASSUME MemInit PROVE Sound(tlsf, {}) /\ live = {}
  BY DEF MInv
<1>1. tlsf = WithUsed(Freed(Processed, First), OS_HEAP_SIZE + TLSF_SIZE - Space) /\ live = {}
  BY Zenon DEF MemInit, WithUsed
<1> QED  BY <1>1, InitSound

\* Every step keeps it sound.
LEMMA HeapStep == MInv /\ [MemNext]_memVars => MInv'
<1> SUFFICES ASSUME MInv, [MemNext]_memVars PROVE Sound(tlsf', live')
  BY DEF MInv
<1>1. CASE \E size \in Requests : MemAlloc(size)
  BY <1>1, AllocStep
<1>2. CASE UNCHANGED memVars
  BY <1>2 DEF MInv, memVars
<1>3. CASE \E size \in Requests : MemAllocFails(size)
  BY <1>2, <1>3 DEF MemAllocFails
<1>4. ASSUME NEW r \in live, MemFree(r) PROVE Sound(tlsf', live')
  <2> DEFINE g == tlsf'
             h == tlsf
             L == live
  <2>1. g = Freed(h, r.addr - 8) /\ live' = L \ {r} /\ r \in L /\ Sound(h, L)
    BY <1>4, Zenon DEF MemFree, MInv, BHDR_OVERHEAD
  <2> HIDE DEF g, h, L
  <2>2. Sound(g, L \ {r})
    BY <2>1, FreeSound
  <2> QED  BY <2>1, <2>2 DEF g
<1> QED  BY <1>1, <1>2, <1>3, <1>4 DEF MemNext

\* The heap is sound at all times.
THEOREM HeapSound == MemSpec => []MInv
<1> QED  BY HeapInit, HeapStep, PTL DEF MemSpec

\* The headers and the control structure keep their types, and no header
\* points to one that is dead.
THEOREM MemTypeCorrect == MemSpec => []MemTypeOK
<1>1. MInv => MemTypeOK
  <2> SUFFICES ASSUME MInv PROVE MemTypeOK
    OBVIOUS
  <2>1. /\ HeapType(tlsf) /\ Neigh(tlsf) /\ Lists(tlsf, Free(tlsf)) /\ Blocks = Dom(tlsf)
    BY DEF MInv, Sound, Blocks, Dom
  <2>2. /\ DOMAIN tlsf.matrix = FL \X SL /\ tlsf.sl_bitmap \in [FL -> SUBSET SL]
        /\ tlsf.fl_bitmap \subseteq FL /\ Blocks \subseteq Address
    BY <2>1 DEF HeapType, Matrix, Bitmaps
  <2>3. ASSUME NEW b \in Blocks
        PROVE  tlsf.block[b] \in
                 [prev_hdr : Blocks \cup {NULL}, size : 0..OS_HEAP_SIZE, free : BOOLEAN,
                  prevFree : BOOLEAN, prev : Blocks \cup {NULL}, next : Blocks \cup {NULL}]
    <3>1. tlsf.block[b] \in Header
      BY <2>1 DEF HeapType
    <3>2. tlsf.block[b].prev_hdr \in Blocks \cup {NULL}
      BY <2>1 DEF Neigh, Behind
    <3>3. tlsf.block[b].prev \in Blocks \cup {NULL} /\ tlsf.block[b].next \in Blocks \cup {NULL}
      BY <2>1 DEF Lists, Linked, Unlisted
    <3> DEFINE x == tlsf.block[b]
               N == Blocks \cup {NULL}
    <3>4. x \in Header /\ x.prev_hdr \in N /\ x.prev \in N /\ x.next \in N
      BY <3>1, <3>2, <3>3
    <3> HIDE DEF x, N
    <3>5. x \in [prev_hdr : N, size : 0..OS_HEAP_SIZE, free : BOOLEAN,
                 prevFree : BOOLEAN, prev : N, next : N]
      BY <3>4, SMT DEF Header
    <3> QED  BY <3>5 DEF x, N
  <2> QED  BY <2>2, <2>3, Zenon DEF MemTypeOK
<1> QED  BY <1>1, HeapSound, PTL

\* However blocks are split and joined, they tile the area.
THEOREM Tiles == MemSpec => []BlocksTile
<1>1. MInv => BlocksTile
  <2> SUFFICES ASSUME MInv PROVE BlocksTile
    OBVIOUS
  <2>1. Tile(tlsf) /\ Blocks = Dom(tlsf)
    BY DEF MInv, Sound, Blocks, Dom
  <2> QED  BY <2>1 DEF Tile, BlocksTile
<1> QED  BY <1>1, HeapSound, PTL

\* What a block knows of the one before it is true, and no two free blocks
\* are left side by side.
THEOREM NeighboursCorrect == MemSpec => []NeighboursAgree
<1>1. MInv => NeighboursAgree
  <2> SUFFICES ASSUME MInv PROVE NeighboursAgree
    OBVIOUS
  <2>1. Tile(tlsf) /\ Neigh(tlsf) /\ Blocks = Dom(tlsf)
    BY DEF MInv, Sound, Blocks, Dom
  <2>2. ASSUME NEW b \in Blocks \ {Last}
        PROVE  LET after == tlsf.block[Next(tlsf, b)]
               IN  /\ after.prevFree <=> b \in FreeBlocks
                   /\ b \in FreeBlocks => after.prev_hdr = b /\ ~after.free
    <3>1. b \in FreeBlocks <=> tlsf.block[b].free
      BY DEF FreeBlocks
    <3> QED  BY <2>1, <3>1 DEF Neigh
  <2> QED  BY <2>2, Zenon DEF NeighboursAgree
<1> QED  BY <1>1, HeapSound, PTL

\* The lists hold exactly the free blocks, each in the list of its class, and
\* the bitmaps name the lists that hold a block.
THEOREM ListsCorrect == MemSpec => []FreeListsMatch
<1>1. MInv => FreeListsMatch
  <2> SUFFICES ASSUME MInv PROVE FreeListsMatch
    OBVIOUS
  <2>1. /\ HeapType(tlsf) /\ Linked(tlsf, FreeBlocks) /\ Heads(tlsf, FreeBlocks) /\ Bits(tlsf)
        /\ \A b : ClassOf(b) = Class(tlsf, b)
    BY DEF MInv, Sound, Lists, Free, FreeBlocks, Blocks, Dom, ClassOf, Class
  <2>2. ASSUME NEW b \in FreeBlocks
        PROVE  LET prev == tlsf.block[b].prev
                   next == tlsf.block[b].next
               IN  /\ tlsf.matrix[ClassOf(b)] # NULL
                   /\ prev = NULL <=> tlsf.matrix[ClassOf(b)] = b
                   /\ prev # NULL => /\ prev \in FreeBlocks /\ ClassOf(prev) = ClassOf(b)
                                     /\ tlsf.block[prev].next = b
                   /\ next # NULL => next \in FreeBlocks /\ tlsf.block[next].prev = b
    BY <2>1 DEF Linked
  <2>3. ASSUME NEW fl \in FL
        PROVE  LET heads == {sl \in SL : tlsf.matrix[<<fl, sl>>] # NULL}
               IN  /\ tlsf.sl_bitmap[fl] = heads
                   /\ fl \in tlsf.fl_bitmap <=> heads # {}
                   /\ \A sl \in heads : tlsf.matrix[<<fl, sl>>] \in FreeBlocks
    <3> DEFINE heads == {sl \in SL : tlsf.matrix[<<fl, sl>>] # NULL}
    <3>1. tlsf.sl_bitmap[fl] \in SUBSET SL
      BY <2>1 DEF HeapType, Bitmaps
    <3>2. ASSUME NEW sl \in SL
          PROVE  /\ sl \in tlsf.sl_bitmap[fl] <=> tlsf.matrix[<<fl, sl>>] # NULL
                 /\ tlsf.matrix[<<fl, sl>>] # NULL => tlsf.matrix[<<fl, sl>>] \in FreeBlocks
      <4> DEFINE c == <<fl, sl>>
      <4>1. c \in FL \X SL /\ c[1] = fl /\ c[2] = sl
        OBVIOUS
      <4> HIDE DEF c
      <4>2. /\ c[2] \in tlsf.sl_bitmap[c[1]] <=> tlsf.matrix[c] # NULL
            /\ tlsf.matrix[c] # NULL => tlsf.matrix[c] \in FreeBlocks
        BY <2>1, <4>1 DEF Bits, Heads
      <4> QED  BY <4>1, <4>2 DEF c
    <3>3. tlsf.sl_bitmap[fl] = heads
      BY <3>1, <3>2
    <3>4. fl \in tlsf.fl_bitmap <=> tlsf.sl_bitmap[fl] # {}
      BY <2>1 DEF Bits
    <3> QED  BY <3>2, <3>3, <3>4
  <2> QED  BY <2>2, <2>3, Zenon DEF FreeListsMatch
<1> QED  BY <1>1, HeapSound, PTL

\* A request finds a block exactly when a free block is as large as it is
\* rounded to, and the one it finds is.
THEOREM RoomFound == MemSpec => []RoomIsFound
<1>1. MInv => RoomIsFound
  <2> SUFFICES ASSUME MInv, NEW size \in Requests
               PROVE  LET b == FindSuitable(tlsf, Mapping(Wanted(size)))
                          fit == {c \in FreeBlocks : tlsf.block[c].size >= Wanted(size)}
                      IN  IF fit = {} THEN b = NULL ELSE b \in fit
    BY Zenon DEF RoomIsFound
  <2> DEFINE class == Mapping(Wanted(size))
             b == FindSuitable(tlsf, class)
             h == tlsf
  <2>1. /\ HeapType(h) /\ Tile(h) /\ Neigh(h) /\ Lists(h, Free(h)) /\ FreeBlocks = Free(h)
    BY DEF MInv, Sound, Free, FreeBlocks, Blocks, Dom
  <2>2. size \in Nat
    BY RequestsAssumption
  <2>3. class = Mapping(Wanted(size)) /\ b = FindSuitable(h, class)
    OBVIOUS
  <2> HIDE DEF class, b, h
  <2>4. /\ \A c \in Free(h) : h.block[c].size >= Wanted(size) => b # NULL
        /\ b # NULL => b \in Free(h) /\ h.block[b].size >= Wanted(size)
    BY <2>1, <2>2, <2>3, RoomInLists
  <2> QED  BY <2>1, <2>4 DEF b, h, class
<1> QED  BY <1>1, HeapSound, PTL

\* Two blocks that are held share no byte, and lie between the ends.
LEMMA HeldApart ==
  ASSUME NEW h, NEW L, Sound(h, L), NEW r \in L
  PROVE  /\ First <= r.addr /\ r.addr + r.len <= Last /\ r.addr % 8 = 0
         /\ \A s \in L : r # s => r.addr + r.len <= s.addr \/ s.addr + s.len <= r.addr
<1>1. HeapType(h) /\ Tile(h) /\ Held(h, L)
  BY DEF Sound
<1>2. \A s \in L : /\ s.addr \in Nat /\ s.len \in Nat /\ s.addr - 8 \in Dom(h)
                   /\ s.addr - 8 # Area /\ s.addr - 8 # Last
                   /\ s.len <= h.block[s.addr - 8].size
                   /\ (r.addr = s.addr => r = s)
  BY <1>1, Zenon DEF Held
<1>3. ASSUME NEW s \in L
      PROVE  \E b \in Dom(h) : /\ b # Area /\ b # Last /\ b = s.addr - 8 /\ b \in Nat
                               /\ b >= 16 /\ b % 8 = 0 /\ Next(h, b) <= Last
                               /\ Next(h, b) \in Nat /\ s.addr + s.len <= Next(h, b)
  <2> DEFINE b == s.addr - 8
  <2>1. b \in Dom(h) /\ b # Area /\ b # Last /\ s.len <= h.block[b].size /\ s.addr \in Nat
        /\ s.len \in Nat /\ b = s.addr - 8
    BY <1>2
  <2> HIDE DEF b
  <2>2. /\ Next(h, b) = b + 8 + h.block[b].size /\ h.block[b].size \in Nat /\ b \in Nat
        /\ b % 8 = 0 /\ Next(h, b) <= Last /\ b >= 16
    BY <1>1, <2>1, TileFacts
  <2>3. Next(h, b) \in Nat /\ s.addr + s.len <= Next(h, b)
    BY <2>1, <2>2
  <2> QED  BY <2>1, <2>2, <2>3
<1>4. PICK b \in Dom(h) : /\ b # Area /\ b # Last /\ b = r.addr - 8 /\ b \in Nat
                          /\ b >= 16 /\ b % 8 = 0 /\ Next(h, b) <= Last
                          /\ Next(h, b) \in Nat /\ r.addr + r.len <= Next(h, b)
  BY <1>3
<1>5. r.addr \in Nat /\ r.len \in Nat /\ r.addr = b + 8
  BY <1>2, <1>4
<1>6. First <= r.addr /\ r.addr + r.len <= Last /\ r.addr % 8 = 0
  BY <1>4, <1>5, Ends
<1>7. ASSUME NEW s \in L, r # s
      PROVE  r.addr + r.len <= s.addr \/ s.addr + s.len <= r.addr
  <2>1. PICK c \in Dom(h) : /\ c # Last /\ c = s.addr - 8 /\ c \in Nat
                            /\ Next(h, c) \in Nat /\ s.addr + s.len <= Next(h, c)
    BY <1>3
  <2>2. s.addr \in Nat /\ s.len \in Nat /\ s.addr = c + 8 /\ b # c
    BY <1>2, <1>4, <1>5, <1>7, <2>1
  <2>3. /\ c > b => c >= Next(h, b)
        /\ b > c => b >= Next(h, c)
    BY <1>1, <1>4, <2>1 DEF Tile
  <2> QED  BY <1>4, <1>5, <2>1, <2>2, <2>3
<1> QED  BY <1>6, <1>7

\* The heap does what an allocator promises: uLipeMemAlloc is a step that
\* hands out a block inside the heap, aligned and apart from those that are
\* held, or changes nothing, and uLipeMemFree one that gives a block back.
THEOREM ImplementsAllocator == MemSpec => AllocatorSpec
<1>1. MemInit => Alloc!AllocatorInit
  BY DEF MemInit, Alloc!AllocatorInit
<1>2. MInv /\ MInv' /\ [MemNext]_memVars => [Alloc!Acquire \/ Alloc!Release]_live
  <2> SUFFICES ASSUME MInv, MInv', [MemNext]_memVars
               PROVE  [Alloc!Acquire \/ Alloc!Release]_live
    OBVIOUS
  <2>1. ASSUME NEW size \in Requests, MemAlloc(size) PROVE Alloc!Acquire
    <3>1. PICK b \in Free(tlsf) :
             LET r == [addr |-> b + 8, len |-> Cut(size)]
             IN  /\ live' = live \cup {r} /\ r \notin live
                 /\ Sound(tlsf', live \cup {r})
      BY <2>1, AllocStep
    <3> DEFINE r == [addr |-> b + 8, len |-> Cut(size)]
    <3>2. live' = live \cup {r} /\ r \notin live /\ Sound(tlsf', live \cup {r})
      BY <3>1
    <3> HIDE DEF r
    <3> DEFINE g == tlsf'
               L == live \cup {r}
    <3>3. Sound(g, L) /\ r \in L
      BY <3>2
    <3> HIDE DEF g, L
    <3>4. /\ First <= r.addr /\ r.addr + r.len <= Last /\ r.addr % 8 = 0
          /\ \A s \in L : r # s => r.addr + r.len <= s.addr \/ s.addr + s.len <= r.addr
      BY <3>3, HeldApart
    <3>5. Alloc!Inside(r)
      BY <3>4 DEF Alloc!Inside, BLOCK_ALIGN
    <3>6. \A s \in live : Alloc!Disjoint(r, s)
      BY <3>2, <3>4 DEF Alloc!Disjoint, L
    <3>7. r \in live' \ live
      BY <3>2
    <3> QED  BY <3>2, <3>5, <3>6, <3>7 DEF Alloc!Acquire
  <2>2. ASSUME NEW r \in live, MemFree(r) PROVE Alloc!Release
    BY <2>2 DEF MemFree, Alloc!Release
  <2>3. CASE \E size \in Requests : MemAllocFails(size)
    BY <2>3 DEF MemAllocFails, memVars
  <2>4. CASE UNCHANGED memVars
    BY <2>4 DEF memVars
  <2> QED  BY <2>1, <2>2, <2>3, <2>4 DEF MemNext
<1>3. MemSpec => Alloc!AllocatorSpec
  BY <1>1, <1>2, HeapSound, PTL DEF MemSpec, Alloc!AllocatorSpec
<1> QED  BY <1>3 DEF AllocatorSpec
=============================================================================
