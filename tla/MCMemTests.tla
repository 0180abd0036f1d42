----------------------------- MODULE MCMemTests -----------------------------
(***************************************************************************)
(* A small instance of MemTests: one page of 32 words is a window, and a   *)
(* block has 16, so that a window has two blocks, the most the source can  *)
(* have (2^28 words of a 32-bit build).  The two windows tested are pages  *)
(* 2 and 3, which share the virtual words 64 to 95.                        *)
(***************************************************************************)
EXTENDS MemTests

MCSegments   == <<[first |-> 2, last |-> 2], [first |-> 3, last |-> 3]>>
MCIterations == [t \in 0 .. 10 |-> IF t \in {7, 10} THEN 2 ELSE 1]
MCSeeds      == {{}, {0, 3, 4}}
MCShifts     == <<1, 2, 3>>

\* The first and last words, and those at the boundary of the blocks.
Stuck(c, bit)  == {[kind |-> "stuck", cell |-> c, ones |-> {bit}, zeros |-> {}],
                   [kind |-> "stuck", cell |-> c, ones |-> {}, zeros |-> {bit}]}
Alias(a, b)    == [kind |-> "alias", cell |-> a, other |-> b]
Couple(a, b)   == [kind |-> "couple", cell |-> a, other |-> b]
Fade(c, bits)  == [kind |-> "fade", cell |-> c, to |-> bits]

MCFaults ==
    {[kind |-> "none"]}
    \cup Stuck(64, 0) \cup Stuck(91, 7)
    \cup {Alias(65, 80), Alias(127, 95)}
    \cup {Couple(79, 80), Couple(81, 79)}
    \cup {Fade(64, {}), Fade(127, 0 .. 7)}
MCStuck == Stuck(95, 0)
=============================================================================
