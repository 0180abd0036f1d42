------------------------------ MODULE MCBadRam ------------------------------
(***************************************************************************)
(* A small instance of BadRam: words of six bits, the highest of which no  *)
(* address has, like the upper bits of a 64-bit word, and the lowest of    *)
(* which is below the testing granularity.  The faults are at the eleven   *)
(* addresses that have at most two of the other four bits.                 *)
(***************************************************************************)
EXTENDS BadRam

MCAddresses == {a \in SUBSET (ALIGN .. WIDTH - 2) : Cardinality(a) <= 2}
=============================================================================
