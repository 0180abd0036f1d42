----------------------------- MODULE ErrorStats -----------------------------
(***************************************************************************)
(* What the error statistics of app/error.c promise, whatever the mode,    *)
(* the order of the errors, their number and the addresses under which the *)
(* tests found them: they are those of the errors of this run, and a       *)
(* summary that is on the screen is that of now.  ErrorLog implements it.  *)
(***************************************************************************)
EXTENDS Integers, FiniteSets

CONSTANTS
    FaultWords,         \* physical words at which errors are found
    Xors                \* good ^ bad, as sets of bits

VARIABLES
    seen,               \* the errors of this run: word and wrong bits
    figures,            \* the statistics that are shown
    sum, count,         \* the average is their quotient
    shown               \* the summary on the screen: one set of figures, or none

statsVars == <<seen, figures, sum, count, shown>>

Init == seen = {} /\ shown = {}

\* The figures are those of a set of errors.
Extreme(f, s) ==
    /\ \E e \in s : f.lowest = e.word
    /\ \E e \in s : f.highest = e.word
    /\ \A e \in s : f.lowest <= e.word /\ e.word <= f.highest

Masked(f, s) == f.mask = UNION {e.bits : e \in s}

Counted(f, s) ==
    /\ \E e \in s : f.least = Cardinality(e.bits)
    /\ \E e \in s : f.most = Cardinality(e.bits)
    /\ \A e \in s : f.least <= Cardinality(e.bits) /\ Cardinality(e.bits) <= f.most

\* A summary has its own header: under that of a list nobody could read it.
Summary(f) == [header |-> "summary", figures |-> f]

Average(f, total, n) == n > 0 /\ f.least * n <= total /\ total <= f.most * n

Found ==
    /\ \E word \in FaultWords, bits \in Xors \cup {{}} :
           seen' = seen \cup {[word |-> word, bits |-> bits]}
    /\ Extreme(figures', seen') /\ Masked(figures', seen') /\ Counted(figures', seen')
    /\ Average(figures', sum', count')
    /\ shown' \subseteq {Summary(figures')}

\* The user changes the mode, or the header of the new mode is drawn.
Redraw == shown' \subseteq {Summary(figures)} /\ UNCHANGED <<seen, figures, sum, count>>

NewRun == seen' = {} /\ shown' = {}

Spec == Init /\ [][Found \/ Redraw \/ NewRun]_statsVars
=============================================================================
