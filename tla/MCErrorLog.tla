----------------------------- MODULE MCErrorLog -----------------------------
(***************************************************************************)
(* A small instance of ErrorLog.  A page has two words and a window one    *)
(* page, so the words of pages 2 and 3 share their virtual addresses.      *)
(*                                                                         *)
(* In MCFaultWords, 2 to 4 follow each other across a page, 4 and 6 are    *)
(* one word of two windows, and the offsets of the pages are not in the    *)
(* order of the pages.                                                     *)
(***************************************************************************)
EXTENDS ErrorLog

MCFaultWords == {2, 3, 4, 6}
MCAddresses  == {BadRamAddress(word) : word \in MCFaultWords}
MCXors       == {{0}, {0, 1}}
=============================================================================
