----------------------------- MODULE MCDisplay -----------------------------
(***************************************************************************)
(* Small instances of Display: three and four rows, of which the banner    *)
(* covers all but the last, and two and three errors in a run.             *)
(***************************************************************************)
EXTENDS Display
=============================================================================
