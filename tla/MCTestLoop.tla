----------------------------- MODULE MCTestLoop -----------------------------
(***************************************************************************)
(* Small instances of TestLoop.  A window has 4 pages and the low window   *)
(* 2, so the pinned region ends at page 8.  The tests are one of a single  *)
(* stage, one of two stages (own address + window) and bit fade.           *)
(***************************************************************************)
EXTENDS TestLoop

MCStages == [t \in Tests |-> <<1, 2, 6>>[t + 1]]

\* The first pass has fewer iterations than the others.
MCTicks == [t \in Tests |-> [type \in PassTypes |-> <<<<1, 3>>, <<1, 1>>, <<1, 2>>>>[t + 1][type + 1]]]

\* With keys the bit fade test is cut to fill, wait and check, and the ticks
\* are left out or kept small: a run that counts them has few windows instead.
MCStagesShort == [t \in Tests |-> <<1, 3>>[t + 1]]
MCStagesTwo   == [t \in Tests |-> <<1, 2>>[t + 1]]
MCNoTicks     == [t \in Tests |-> [type \in PassTypes |-> 0]]
MCOneTick     == [t \in Tests |-> [type \in PassTypes |-> 1]]

\* Limits in the low window, inside windows, across the pinned boundary, and
\* above the heap.
MCLimits    == {<<0, 14>>, <<1, 10>>, <<5, 13>>, <<14, 16>>}
MCTwoLimits == {<<0, 7>>, <<5, 6>>}
=============================================================================
