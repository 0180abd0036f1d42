------------------------------- MODULE BadRam -------------------------------
(***************************************************************************)
(* The BadRAM patterns (app/badram.c): at most MAX_PATTERNS pairs of an    *)
(* address and a mask that together cover every faulty address reported    *)
(* since the list was last cleared.  When the list is full the two         *)
(* neighbours that are cheapest to merge become one pattern.               *)
(*                                                                         *)
(* A word of WIDTH bits is the set of the bits that are 1.                 *)
(***************************************************************************)
EXTENDS Integers, Sequences, FiniteSets

CONSTANTS
    WIDTH,              \* bits in a word (64 in the source)
    ALIGN,              \* bits below the testing granularity (3, or 2)
    MAX_PATTERNS,       \* patterns kept between calls (10)
    Addresses           \* addresses at which the tests can find an error

Bits         == 0 .. WIDTH - 1
Words        == SUBSET Bits
\* Mutant of DEFAULT_MASK: one bit too many.
WideMask     == ALIGN .. WIDTH
DEFAULT_MASK == ALIGN .. WIDTH - 1

ASSUME BadRamAssumption ==
    /\ WIDTH \in Nat /\ ALIGN \in Nat
    /\ MAX_PATTERNS \in Nat \ {0}
    /\ Addresses \subseteq SUBSET DEFAULT_MASK

(***************************************************************************)
(* A fact of arithmetic of which the provers have no theory.               *)
(***************************************************************************)
ASSUME PowersAssumption ==
    \A m, n \in 0 .. WIDTH : 2^m \in Nat \ {0} /\ (m < n => 2^m < 2^n)

VARIABLES
    patterns,           \* the first num_patterns entries of the array
    faulty              \* history: the addresses inserted since badram_init

badramVars == <<patterns, faulty>>

Pattern == [addr : Words, mask : Words]

-----------------------------------------------------------------------------
(***************************************************************************)
(* Words and patterns.                                                     *)
(***************************************************************************)

\* a < b as unsigned numbers: b has the highest bit in which they differ.
Below(a, b) == \E i \in b \ a : \A j \in Bits : j > i => (j \in a <=> j \in b)

\* Mutant of CombineMask: the addresses are not compared.
CommonMask(p, q) == p.mask \cap q.mask

\* COMBINE_MASK: 1 where both masks are 1 and the addresses agree.
CombineMask(p, q) ==
    {i \in p.mask \cap q.mask : i \in p.addr <=> i \in q.addr}

combine(p, q) ==
    [addr |-> (p.addr \cup q.addr) \cap CombineMask(p, q), mask |-> CombineMask(p, q)]

\* The counter is a word too: for the empty mask it is 0.
addresses(mask) == 2^Cardinality(Bits \ mask) % 2^WIDTH

combi_cost(p, q) == (addresses(CombineMask(p, q)) - addresses(p.mask)) % 2^WIDTH

is_covered(ps, pattern) == \E i \in DOMAIN ps : combi_cost(ps[i], pattern) = 0

\* Only neighbours are compared; the last of the cheapest is taken.
cheapest_pair(ps) ==
    LET cost(i) == combi_cost(ps[i], ps[i + 1])
    IN  CHOOSE i \in 1 .. Len(ps) - 1 :
          \A j \in 1 .. Len(ps) - 1 : cost(i) <= cost(j) /\ (cost(i) = cost(j) => j <= i)

\* Mutant of remove_pair: the pair after idx goes.
remove_pair_next(ps, idx) ==
    [i \in 1 .. Len(ps) - 2 |-> IF i <= idx THEN ps[i] ELSE ps[i + 2]]

remove_pair(ps, idx) ==
    [i \in 1 .. Len(ps) - 2 |-> IF i < idx THEN ps[i] ELSE ps[i + 2]]

insert_at(ps, pattern, idx) ==
    [i \in 1 .. Len(ps) + 1 |->
        IF i < idx THEN ps[i] ELSE IF i = idx THEN pattern ELSE ps[i - 1]]

\* Mutant of insert_sorted: the pattern goes to the end.
insert_last(ps, pattern) == insert_at(ps, pattern, Len(ps) + 1)

\* Before the first pattern with a greater address, or else at the end.
insert_sorted(ps, pattern) ==
    LET normal == [pattern EXCEPT !.addr = @ \cap pattern.mask]
        isNext(i) == /\ i <= Len(ps) => Below(normal.addr, ps[i].addr)
                     /\ \A j \in 1 .. i - 1 : ~Below(normal.addr, ps[j].addr)
    IN  insert_at(ps, normal, CHOOSE i \in 1 .. Len(ps) + 1 : isNext(i))

\* A list that has grown too long loses a pair and gains what covers both.
merge_cheapest(ps) ==
    LET idx == cheapest_pair(ps)
    IN  insert_sorted(remove_pair(ps, idx), combine(ps[idx], ps[idx + 1]))

-----------------------------------------------------------------------------
badram_init == patterns' = <<>> /\ faulty' = {}

\* Mutant of badram_insert_into: the list merges when it is full, not when it is too long.
badram_insert_early(ps, fs, addr) ==
    LET pattern == [addr |-> addr, mask |-> DEFAULT_MASK]
        longer  == insert_sorted(ps, pattern)
    IN  /\ faulty' = fs \cup {addr}
        /\ patterns' = IF is_covered(ps, pattern) THEN ps
                       ELSE IF Len(longer) >= MAX_PATTERNS THEN merge_cheapest(longer)
                       ELSE longer

\* The list as it was, and the faults it stood for, with addr added to both.
badram_insert_into(ps, fs, addr) ==
    LET pattern == [addr |-> addr, mask |-> DEFAULT_MASK]
        longer  == insert_sorted(ps, pattern)
    IN  /\ faulty' = fs \cup {addr}
        /\ patterns' = IF is_covered(ps, pattern) THEN ps
                       ELSE IF Len(longer) > MAX_PATTERNS THEN merge_cheapest(longer)
                       ELSE longer

badram_insert(addr) == badram_insert_into(patterns, faulty, addr)

BadRamInit == patterns = <<>> /\ faulty = {}
BadRamNext == badram_init \/ \E addr \in Addresses : badram_insert(addr)
BadRamSpec == BadRamInit /\ [][BadRamNext]_badramVars

-----------------------------------------------------------------------------
(***************************************************************************)
(* The types of the variables.                                             *)
(***************************************************************************)
BadRamTypeOK == patterns \in Seq(Pattern) /\ faulty \subseteq Addresses

(***************************************************************************)
(* A kernel that is given the patterns avoids every faulty address: none   *)
(* is lost when patterns are merged, reordered or taken to cover it.       *)
(***************************************************************************)
Covers(pattern, word) == word \cap pattern.mask = pattern.addr

FaultsCovered == \A a \in faulty : \E i \in DOMAIN patterns : Covers(patterns[i], a)

(***************************************************************************)
(* The list stays sorted by address, as insert_sorted and cheapest_pair    *)
(* assume, and never needs more than the PATTERNS_SIZE entries of the      *)
(* array.                                                                  *)
(***************************************************************************)
SortedAndBounded ==
    /\ Len(patterns) <= MAX_PATTERNS
    /\ \A i, j \in DOMAIN patterns : i < j => ~Below(patterns[j].addr, patterns[i].addr)

(***************************************************************************)
(* As long as the faults fit into the list, nothing but the faults is      *)
(* excluded: sound memory is given up only when the list is full.          *)
(***************************************************************************)
ExactWhileItFits ==
    Cardinality(faulty) <= MAX_PATTERNS =>
        \A a \in SUBSET DEFAULT_MASK :
            (\E i \in DOMAIN patterns : Covers(patterns[i], a)) => a \in faulty

(***************************************************************************)
(* Until the list is cleared, an insertion never takes memory back, and    *)
(* never shortens the list: a full list stays full.                        *)
(***************************************************************************)
CoveredBy(ps) == {w \in Words : \E i \in DOMAIN ps : Covers(ps[i], w)}

OnlyGrows ==
    [][faulty' # {} =>
         /\ CoveredBy(patterns) \subseteq CoveredBy(patterns')
         /\ Len(patterns') >= Len(patterns)]_badramVars
=============================================================================
