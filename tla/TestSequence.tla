---------------------------- MODULE TestSequence ----------------------------
(***************************************************************************)
(* What the main loop promises, with no windows, flags or ticks: the order *)
(* in which tests are run.                                                 *)
(*                                                                         *)
(* Two estimating passes come first, then testing passes for ever.  In a   *)
(* pass the selected tests run in order, each stage of a test follows the  *)
(* one before, and none is left out.  A reconfiguration may come at any    *)
(* time; from then on the only way forward is to begin again.              *)
(***************************************************************************)
EXTENDS Integers

CONSTANTS
    N,                  \* tests are numbered 0 .. N - 1
    Stages,             \* Stages[t]: the stages of test t, at least one
    Passes,             \* estimating passes
    Default, Choices,   \* the first selection, and those a user can make
    LastPass            \* bound: passes are counted up to LastPass

VARIABLES
    mode,               \* "estimate" or "test"
    pass, test, stage,
    selected,           \* the tests the user wants
    pending,            \* a reconfiguration has not been taken up yet
    stopped

vars == <<mode, pass, test, stage, selected, pending, stopped>>

Init ==
    /\ mode = "estimate" /\ pass = 0 /\ test = 0 /\ stage = 0
    /\ selected = Default /\ pending = FALSE /\ stopped = FALSE

Advance == ~stopped /\ ~pending /\ UNCHANGED <<selected, pending, stopped>>

NextStage ==
    /\ Advance
    /\ test \in selected /\ stage + 1 < Stages[test]
    /\ stage' = stage + 1
    /\ UNCHANGED <<mode, pass, test>>

LeaveTest ==
    /\ Advance
    /\ test \in selected => stage + 1 = Stages[test]
    /\ stage' = 0

NextTest ==
    /\ LeaveTest
    /\ test + 1 < N
    /\ test' = test + 1
    /\ UNCHANGED <<mode, pass>>

NextPass ==
    /\ LeaveTest
    /\ test + 1 = N
    /\ test' = 0
    /\ IF mode = "estimate" /\ pass + 1 = Passes
         THEN mode' = "test" /\ pass' = 0
         ELSE mode' = mode /\ pass' = IF pass < LastPass THEN pass + 1 ELSE pass

Reconfigure ==
    /\ ~stopped
    /\ pending' = TRUE
    /\ selected' \in Choices
    /\ UNCHANGED <<mode, pass, test, stage, stopped>>

BeginAgain ==
    /\ ~stopped /\ pending
    /\ mode' = "estimate" /\ pass' = 0 /\ test' = 0 /\ stage' = 0
    /\ pending' = FALSE
    /\ UNCHANGED <<selected, stopped>>

Stop == stopped' = TRUE /\ UNCHANGED <<mode, pass, test, stage, selected, pending>>

Next == NextStage \/ NextTest \/ NextPass \/ Reconfigure \/ BeginAgain \/ Stop

Spec == Init /\ [][Next]_vars
=============================================================================
