------------------------------ MODULE MCFlags ------------------------------
(* Three user tasks that share one group of flags: the lowest posts, the    *)
(* others pend, for one flag or for two, one of them with timeouts.         *)
EXTENDS Flags

CONSTANTS list0, list1

MCTasks == {1, 2, 3}
MCPosters == {1}
MCPends ==
    [p \in MCTasks |-> CASE p = 1 -> {}
                         [] p = 2 -> [ticks : {0, 1}, consume : BOOLEAN]
                         [] p = 3 -> [ticks : {0}, consume : {TRUE}]]
MCMasks == {{0}, {0, 1}}
MCLists == {list0, list1}
MCWaitTasks == [i \in {0, 1} |-> IF i = 0 THEN list0 ELSE list1]
=============================================================================
