---------------------------- MODULE MCConfigMenu ----------------------------
(***************************************************************************)
(* Small instances of ConfigMenu.  A word has 6 bits and an int 4; a page  *)
(* has 4 bytes.  K scales by less than a page, as it does in the source,   *)
(* and G by more, beyond an int.                                           *)
(***************************************************************************)
EXTENDS ConfigMenu

MCShifts == [K |-> 1, G |-> 4]
=============================================================================
