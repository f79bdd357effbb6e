-------------------------------- MODULE Flags --------------------------------
(***************************************************************************)
(* Event flags (microkernel/OsFlags.c) on top of the tasks' calls: one     *)
(* group of flags. Every call works inside one critical section.           *)
(***************************************************************************)
EXTENDS Task

CONSTANTS WaitTasks,       \* waitTasks: the two wait lists of the group
          Posters,         \* the tasks that post
          Pends,           \* with which timeout and consumption each task pends
          Masks            \* the groups of flags that are posted and pended for

ASSUME WaitTasksAssumption ==
    WaitTasks \in [{0, 1} -> List] /\ WaitTasks[0] # WaitTasks[1]
ASSUME PostersAssumption == Posters \subseteq UserPrio
ASSUME PendsAssumption ==
    Pends \in [UserPrio -> SUBSET [ticks : 0..MaxDelay, consume : BOOLEAN]]
ASSUME TasksStayAssumption ==   \* every priority a wait list may show has its task
    UserPrio \subseteq Boot /\ Api \cap {"create", "delete", "return"} = {}
ASSUME MasksAssumption == Masks \subseteq SUBSET (0..31)

VARIABLES
    group,                 \* there is a group
    flagRegister,
    flagsActive,           \* activeList: which of the two lists the next post works off
    flagsPending           \* TCB field: the flags each task asked for, ever

flagVars == <<group, flagRegister, flagsActive, flagsPending>>
flagsAll == <<vars, flagVars>>

FlagsInit ==
    /\ Init
    /\ group = FALSE
    /\ flagRegister = {}
    /\ flagsActive = 0
    /\ flagsPending = [p \in Prio |-> {}]

FlagCauses == {"PendFlagAll", "PendFlagAny"}
FlagCalls(t) == group /\ At(t, "run")
ActiveWait == waitList[WaitTasks[flagsActive]]
-----------------------------------------------------------------------------
(* uLipeFlagsPend                                                          *)

\* Faulty: looks at the flags asked for, not at the register.
MatchesAsked(t, opt, flags) ==
    IF opt = "PendFlagAll" THEN flagRegister \cap flagsPending[t] = flags
                           ELSE flagRegister \cap flags # {}

\* Looks at what the task asked for in earlier calls, for a group; at the
\* whole register, for any flag.
Matches(t, opt, flags) ==
    IF opt = "PendFlagAll" THEN flagRegister \cap flagsPending[t] = flags
                           ELSE flagRegister # {}

\* The call returns at once, and may consume the flags.
PendMatches(t, opt, flags, consume) ==
    /\ FlagCalls(t)
    /\ Matches(t, opt, flags)
    /\ flagRegister' = IF ~consume THEN flagRegister
                       ELSE IF opt = "PendFlagAll" THEN flagRegister \ flagsPending[t]
                       ELSE {}
    /\ UNCHANGED <<vars, group, flagsActive, flagsPending>>

\* The caller blocks in the list the next post works off.
PendBlocks(t, opt, flags, consume, ticks) ==
    /\ FlagCalls(t)
    /\ ~Matches(t, opt, flags)
    /\ taskStatus' = [taskStatus EXCEPT ![t] = @ \cup {opt}
                          \cup (IF consume THEN {"PenFlagConsume"} ELSE {})
                          \cup (IF ticks # 0 THEN {"PendDelay"} ELSE {})]
    /\ flagsPending' = [flagsPending EXCEPT ![t] = @ \cup flags]
    /\ Unready(t)
    /\ waitList' = [waitList EXCEPT ![WaitTasks[flagsActive]] = Enlist(@, t)]
    /\ bmp' = [bmp EXCEPT ![t]["flags"] = WaitTasks[0]]
    /\ IF ticks = 0
       THEN UNCHANGED <<delayTime, timerPendingList>>
       ELSE /\ delayTime' = [delayTime EXCEPT ![t] = ticks]
            /\ timerPendingList' = [timerPendingList EXCEPT ![activeList] = @ \cup {t}]
    /\ Goto(t, "yield")
    /\ UNCHANGED <<activeList, tcbPtrTbl, cpu, yieldPrio, after, taskVars, arg,
                   group, flagRegister, flagsActive>>
-----------------------------------------------------------------------------
(* uLipeFlagsPost                                                          *)

\* What a waiter finds in the register. One that is listed but waits for no
\* flag, or for a group and for any flag at once, finds nothing.
WaitsFor(p) == taskStatus[p] \cap FlagCauses

Found(p, register) == CASE WaitsFor(p) = {"PendFlagAll"} -> register \cap flagsPending[p]
                        [] WaitsFor(p) = {"PendFlagAny"} -> register
                        [] OTHER -> {}

Satisfied(p, register) ==
    \/ WaitsFor(p) = {"PendFlagAll"} /\ Found(p, register) = flagsPending[p]
    \/ WaitsFor(p) = {"PendFlagAny"} /\ Found(p, register) # {}

\* Faulty: nothing is consumed.
ConsumeNothing(p, register) == register

\* The register a waiter leaves behind. The flags to clear are collected in 16
\* bits.
Consume(p, register) ==
    IF Satisfied(p, register) /\ "PenFlagConsume" \in taskStatus[p]
    THEN register \ {b \in Found(p, register) : b < 16}
    ELSE register

\* Faulty: only the first is looked at.
WaitersFirst == IF First(ActiveWait) # 0 THEN {First(ActiveWait)} ELSE {}

\* The waiters FlagsPostLoop meets, from the highest down, and the register as
\* each of them finds it. The first is met twice, and is dropped the second
\* time.
Waiters == IF First(ActiveWait) # 0 THEN ActiveWait.prioTbl ELSE {}

\* Those the loop meets before p, and the last of them.
Above(p) == {q \in Waiters : q > p}
Before(p) == CHOOSE q \in Above(p) : \A r \in Above(p) : q <= r

Register(posted) ==
    LET register[p \in Prio] ==
            IF Above(p) = {} THEN posted ELSE Consume(Before(p), register[Before(p)])
    IN  register

\* Faulty: the other list is not made the active one.
SwapNever(moved) ==
    /\ waitList' = [waitList EXCEPT ![WaitTasks[flagsActive]] = Delist(@, Waiters),
                                    ![WaitTasks[1 - flagsActive]] =
                        [prioGrp |-> @.prioGrp \/ moved # {}, prioTbl |-> @.prioTbl \cup moved]]
    /\ UNCHANGED flagsActive

\* Those who go on waiting move to the other list, which is the active one
\* from then on.
Swap(moved) ==
    /\ waitList' = [waitList EXCEPT ![WaitTasks[flagsActive]] = Delist(@, Waiters),
                                    ![WaitTasks[1 - flagsActive]] =
                        [prioGrp |-> @.prioGrp \/ moved # {}, prioTbl |-> @.prioTbl \cup moved]]
    /\ flagsActive' = 1 - flagsActive

\* Those whose flags are there are released, from the wait and its timeout.
FlagsPost(t, flags) ==
    LET register == Register(flagRegister \cup flags)
        released == {p \in Waiters : Satisfied(p, register[p])}
        left(p) == taskStatus[p] \ (FlagCauses \cup {"PendDelay", "PenFlagConsume"})
    IN  /\ FlagCalls(t)
        /\ flagRegister' = register[IdlePrio]
        /\ taskStatus' = [p \in Prio |-> IF p \in released THEN left(p) ELSE taskStatus[p]]
        /\ taskPrioList' = taskPrioList \cup {p \in released : left(p) = {}}
        /\ Swap({p \in Waiters \ released : WaitsFor(p) # {}})
        /\ Goto(t, "yield")
        /\ UNCHANGED <<timerPendingList, activeList, tcbPtrTbl, delayTime, bmp, cpu, yieldPrio,
                       after, taskVars, arg, group, flagsPending>>
-----------------------------------------------------------------------------
(* uLipeFlagsCreate, uLipeFlagsDelete                                      *)

\* Faulty: does not look whether there was memory.
FlagsCreateUnchecked(t) ==
    /\ ~group /\ At(t, "run")
    /\ heap' = heap + 1
    /\ group' = TRUE
    /\ UNCHANGED <<lists, objects, cpu, threads, tasksCount, heapDirty, arg, flagRegister,
                   flagsActive, flagsPending>>

\* Of the wait lists, only the groups are reset: their words are what the
\* memory last held.
FlagsCreate(t) ==
    /\ ~group /\ At(t, "run")
    /\ heap < HeapBlocks
    /\ heap' = heap + 1
    /\ group' = TRUE
    /\ flagRegister' = {} /\ flagsActive' = 0
    /\ \E raw \in IF heapDirty THEN {{}, UserPrio} ELSE {{}} :
           waitList' = [waitList EXCEPT ![WaitTasks[0]] = [prioGrp |-> FALSE, prioTbl |-> raw],
                                        ![WaitTasks[1]] = [prioGrp |-> FALSE, prioTbl |-> raw]]
    /\ UNCHANGED <<lists, tcbPtrTbl, tcb, cpu, threads, tasksCount, heapDirty, arg, flagsPending>>

\* Every waiter of the active list is let go; one with a timeout sleeps on.
FlagsDeleteLoop ==
    LET left(p) == taskStatus[p] \ (FlagCauses \cup {"PenFlagConsume"})
    IN  /\ taskStatus' = [p \in Prio |-> IF p \in Waiters THEN left(p) ELSE taskStatus[p]]
        /\ taskPrioList' = taskPrioList \cup {p \in Waiters : left(p) = {}}
        /\ waitList' = [waitList EXCEPT ![WaitTasks[flagsActive]] = Delist(@, Waiters)]

\* The address freed is that of the caller's handle: the group is forgotten,
\* and what the allocator makes of the address is not modelled.
FlagsDelete(t) ==
    /\ FlagCalls(t)
    /\ FlagsDeleteLoop
    /\ group' = FALSE
    /\ Goto(t, "yield")
    /\ UNCHANGED <<timerPendingList, activeList, tcbPtrTbl, delayTime, bmp, cpu, yieldPrio,
                   after, taskVars, arg, flagRegister, flagsActive, flagsPending>>
-----------------------------------------------------------------------------
FlagsCall(t) ==
    \/ FlagsCreate(t)
    \/ t \in Posters /\ FlagsDelete(t)
    \/ \E flags \in Masks :
           \/ t \in Posters /\ FlagsPost(t, flags)
           \/ \E opt \in FlagCauses, how \in Pends[t] :
                  \/ PendMatches(t, opt, flags, how.consume)
                  \/ PendBlocks(t, opt, flags, how.consume, how.ticks)

FlagsNext == \/ Next /\ UNCHANGED flagVars
             \/ \E t \in UserPrio : FlagsCall(t)

FlagsSpec == FlagsInit /\ [][FlagsNext]_flagsAll
-----------------------------------------------------------------------------
(* Properties                                                              *)

FlagsTypeOK ==
    /\ TypeOK
    /\ group \in BOOLEAN
    /\ flagRegister \subseteq UNION Masks
    /\ flagsActive \in {0, 1}
    /\ flagsPending \in [Prio -> SUBSET UNION Masks]

\* A task that waits for flags is where the next post looks for it, however
\* often the two lists have been exchanged, whoever left them by a timeout,
\* and although the tick clears its bit in only one of them.
WaitersInActiveList == \A p \in Prio :
    WaitsFor(p) # {} => ActiveWait.prioGrp /\ p \in ActiveWait.prioTbl

\* Nobody waits for any flag while one is set.
AnyWaitersFindNone == \A p \in Prio :
    WaitsFor(p) = {"PendFlagAny"} => flagRegister = {}

\* A post leaves nobody waiting whose flags are there.
PostSatisfiesAll ==
    [][flagsActive' # flagsActive =>
           \A p \in Prio : ~Satisfied(p, flagRegister)']_flagsAll

\* A flag consumed by one task releases no second one in the same post, in the
\* lower half of the register. p, served before q, left it nothing it took.
Released(p) == /\ "PenFlagConsume" \in taskStatus[p]
               /\ taskStatus'[p] \cap FlagCauses = {}
ConsumedOnce ==
    [][(flagsActive' # flagsActive /\ flagRegister' \subseteq 0..15) =>
           \A p, q \in Prio :
               (p > q /\ Released(p) /\ Released(q)) =>
                   /\ WaitsFor(p) = {"PendFlagAll"}
                   /\ \/ WaitsFor(q) = {"PendFlagAny"}
                      \/ flagsPending[p] \cap flagsPending[q] = {}]_flagsAll

\* "Wait for a specific group" (OsFlags.h): nobody waits for a group of flags
\* that are all set.
SatisfiedDoNotWait == \A p \in Prio :
    WaitsFor(p) = {"PendFlagAll"} => ~Satisfied(p, flagRegister)
=============================================================================
