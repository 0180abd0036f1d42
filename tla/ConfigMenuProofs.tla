-------------------------- MODULE ConfigMenuProofs --------------------------
(***************************************************************************)
(* Theorems about the settings menus, for every word size, heap, number of *)
(* tests and field.                                                        *)
(***************************************************************************)
EXTENDS ConfigMenu, FiniteSetTheorems, SequenceTheorems, NaturalsInduction, TLAPS

-----------------------------------------------------------------------------
(***************************************************************************)
(* The inductive invariant.  RangeInv is about the limits, SelectInv about *)
(* the selection, and StaleInv says where a setting may differ from the    *)
(* one the test sequence began with: the CPU mode is compared only when    *)
(* the menu is left.                                                       *)
(***************************************************************************)
RangeInv ==
    /\ pm_limit_lower \in Numbers /\ pm_limit_upper \in Numbers
    /\ pm_limit_lower < pm_limit_upper
    /\ num_pages_to_test = PagesToTest(pm_limit_lower, pm_limit_upper)

SelectInv ==
    /\ enabled \subseteq Tests /\ first \in Tests
    /\ reading \in {"none", "add", "remove", "first", "last", "lower", "upper"}
    /\ reading \in {"lower", "upper"} => menu = "range"
    /\ reading \in {"add", "remove", "first", "last"} => menu = "tests"
    /\ menu # "tests" => enabled # {}

Began == IF menu = "closed" THEN cpu_mode ELSE old_cpu_mode

StaleInv ==
    restart \/ <<enabled, pm_limit_lower, pm_limit_upper, Began>> = running

FlagInv == restart \in BOOLEAN /\ bail \in BOOLEAN

IInv == RangeInv /\ SelectInv /\ StaleInv /\ FlagInv

-----------------------------------------------------------------------------
LEMMA ReadsNumbers ==
    ASSUME NEW l, NEW s
    PROVE  ReadValues(l, s) \subseteq Numbers
  BY DEF ReadValues

LEMMA InitIInv == Init => IInv
<1> SUFFICES ASSUME Init PROVE IInv
  OBVIOUS
<1> USE ConfigMenuAssumption, ReadValueAssumption
<1>1. 0 \in Numbers /\ HeapEnd \in Numbers /\ 0 < HeapEnd
  BY DEF Numbers
<1>2. RangeInv
  BY <1>1 DEF Init, RangeInv
<1>3. SelectInv
  BY DEF Init, SelectInv, Tests
<1>4. StaleInv /\ FlagInv
  BY DEF Init, StaleInv, FlagInv, Began, Settings
<1>5. QED
  BY <1>2, <1>3, <1>4 DEF IInv

(***************************************************************************)
(* The steps that neither select nor limit.                                *)
(***************************************************************************)
LEMMA QuietSteps ==
    ASSUME IInv,
           \/ Open \/ Exit \/ SetCpuMode \/ SetErrorMode
           \/ \E sub \in {"tests", "range", "cpu", "error"} : Enter(sub)
           \/ \E skip \in BOOLEAN : Close(skip)
           \/ \E what \in {"add", "remove", "first", "lower", "upper"} : Ask(what)
           \/ \E c \in Keys : Type(c)
           \/ Backspace \/ HonourRestart \/ ClearBail
    PROVE  IInv'
<1> USE DEF IInv, Command, flagVars, limitVars, modeVars, dialogVars
<1>1. RangeInv'
  BY DEF RangeInv, PagesToTest, Open, Exit, SetCpuMode, SetErrorMode, Enter, Close, Ask, Type,
         Backspace, HonourRestart, ClearBail
<1>2. SelectInv'
  BY DEF SelectInv, Open, Exit, SetCpuMode, SetErrorMode, Enter, Close, Ask, Type,
         Backspace, HonourRestart, ClearBail
<1>3. StaleInv'
  BY DEF SelectInv, StaleInv, Began, Settings, Open, Exit, SetCpuMode, SetErrorMode, Enter, Close, Ask,
         Type, Backspace, HonourRestart, ClearBail
<1>4. FlagInv'
  BY DEF FlagInv, Open, Exit, SetCpuMode, SetErrorMode, Enter, Close, Ask, Type,
         Backspace, HonourRestart, ClearBail
<1>5. QED
  BY <1>1, <1>2, <1>3, <1>4

(***************************************************************************)
(* A change of a limit keeps the limits in order and counts the pages.     *)
(***************************************************************************)
LEMMA LimitSteps ==
    ASSUME IInv, NEW v \in Numbers, TestAllMemory \/ AnswerLower(v) \/ AnswerUpper(v)
    PROVE  IInv'
<1> USE DEF IInv, Command, flagVars, limitVars, modeVars, dialogVars
<1>1. RangeInv'
  <2> USE ConfigMenuAssumption, ReadValueAssumption DEF RangeInv, SetLimits, PagesToTest, Numbers
  <2>1. CASE TestAllMemory
    BY <2>1 DEF TestAllMemory
  <2>2. CASE AnswerLower(v)
    BY <2>2 DEF AnswerLower, Invalid
  <2>3. CASE AnswerUpper(v)
    BY <2>3 DEF AnswerUpper, Invalid
  <2>4. QED
    BY <2>1, <2>2, <2>3
<1>2. SelectInv'
  BY DEF SelectInv, SetLimits, TestAllMemory, AnswerLower, AnswerUpper, Answered, Invalid
<1>3. StaleInv' /\ FlagInv'
  BY DEF StaleInv, FlagInv, Began, SetLimits, TestAllMemory, AnswerLower, AnswerUpper, Answered, Invalid
<1>4. QED
  BY <1>1, <1>2, <1>3

(***************************************************************************)
(* A change of the selection happens in the menu that is not left without  *)
(* a test, and asks for a restart.                                         *)
(***************************************************************************)
LEMMA SelectionSteps ==
    ASSUME IInv, NEW v \in Numbers,
           \/ \E all \in BOOLEAN : SetAllTests(all)
           \/ \E what \in {"add", "remove"} : AnswerTest(what, v)
           \/ AnswerFirst(v) \/ AnswerLast(v)
    PROVE  IInv'
<1> USE DEF IInv, Command, flagVars, limitVars, modeVars, dialogVars
<1>1. RangeInv'
  BY DEF RangeInv, PagesToTest, SetAllTests, AnswerTest, AnswerFirst, AnswerLast, Answered, Invalid
<1>2. SelectInv'
  <2> USE DEF SelectInv, Answered, Invalid
  <2>1. CASE \E all \in BOOLEAN : SetAllTests(all)
    BY <2>1 DEF SetAllTests
  <2>2. CASE \E what \in {"add", "remove"} : AnswerTest(what, v)
    BY <2>2 DEF AnswerTest
  <2>3. CASE AnswerFirst(v)
    BY <2>3 DEF AnswerFirst
  <2>4. CASE AnswerLast(v)
    <3>1. \A m, n \in Tests : m .. n \subseteq Tests
      BY ConfigMenuAssumption DEF Tests
    <3>2. ToInt(v) \in first .. NUM_TEST_PATTERNS - 1 => ToInt(v) \in Tests
      BY ConfigMenuAssumption DEF Tests
    <3>3. QED
      BY <2>4, <3>1, <3>2 DEF AnswerLast
  <2>5. QED
    BY <2>1, <2>2, <2>3, <2>4
<1>3. StaleInv' /\ FlagInv'
  BY DEF StaleInv, FlagInv, Began, SetAllTests, AnswerTest, AnswerFirst, AnswerLast, Answered, Invalid
<1>4. QED
  BY <1>1, <1>2, <1>3

LEMMA NextIInv == IInv /\ [Next]_vars => IInv'
<1> SUFFICES ASSUME IInv, [Next]_vars PROVE IInv'
  OBVIOUS
<1>1. CASE Menus
  BY <1>1, QuietSteps, LimitSteps, SelectionSteps, ConfigMenuAssumption DEF Menus
<1>2. CASE Answer
  BY <1>2, ReadsNumbers, LimitSteps, SelectionSteps DEF Answer
<1>3. CASE Dialogue /\ ~Answer
  BY <1>3, QuietSteps DEF Dialogue
<1>4. CASE HonourRestart \/ ClearBail
  BY <1>4, QuietSteps
<1>5. CASE UNCHANGED vars
  BY <1>5 DEF IInv, RangeInv, SelectInv, StaleInv, FlagInv, Began, PagesToTest, vars, dialogVars,
              limitVars, modeVars, flagVars
<1>6. QED
  BY <1>1, <1>2, <1>3, <1>4, <1>5 DEF Next

LEMMA AlwaysIInv == Spec => []IInv
  BY InitIInv, NextIInv, PTL DEF Spec

-----------------------------------------------------------------------------
(***************************************************************************)
(* What TestLoop assumes of a visit to the menus: the selection it leaves  *)
(* is not empty, its limits are in order, and a restart comes with bail.   *)
(***************************************************************************)
THEOREM VisitHandsOver == Spec => HandsOver
<1>1. IInv /\ [Next]_vars =>
        [menu # "closed" /\ menu' = "closed" =>
           enabled' # {} /\ pm_limit_lower' < pm_limit_upper' /\ (restart' => bail')]_vars
  <2> SUFFICES ASSUME IInv, Next, menu # "closed", menu' = "closed"
               PROVE  enabled' # {} /\ pm_limit_lower' < pm_limit_upper' /\ (restart' => bail')
    OBVIOUS
  <2>1. IInv'
    BY NextIInv
  <2>2. \E skip \in BOOLEAN : Close(skip)
    <3> USE DEF Menus, Dialogue, Answer, Command, Answered, dialogVars
    <3>1. CASE Menus
      BY <3>1 DEF Open, Enter, Exit, SetCpuMode, SetErrorMode, SetAllTests, TestAllMemory
    <3>2. CASE Dialogue
      BY <3>2 DEF Ask, Type, Backspace, AnswerTest, AnswerFirst, AnswerLast, AnswerLower, AnswerUpper
    <3>3. CASE HonourRestart \/ ClearBail
      BY <3>3 DEF HonourRestart, ClearBail
    <3>4. QED
      BY <3>1, <3>2, <3>3 DEF Next
  <2>3. QED
    BY <2>1, <2>2 DEF IInv, RangeInv, SelectInv, Close
<1>2. QED
  BY <1>1, AlwaysIInv, PTL DEF Spec, HandsOver

(***************************************************************************)
(* The pages added up case by case are those of the heap between the       *)
(* limits: an interval, for limits in order.                               *)
(***************************************************************************)
THEOREM PagesAlwaysCounted == Spec => []PagesCounted
<1>1. IInv => PagesCounted
  <2> SUFFICES ASSUME IInv PROVE PagesCounted
    OBVIOUS
  <2> USE ConfigMenuAssumption DEF IInv, RangeInv, Numbers
  <2> DEFINE lo == IF HeapStart < pm_limit_lower THEN pm_limit_lower ELSE HeapStart
             hi == IF pm_limit_upper < HeapEnd THEN pm_limit_upper ELSE HeapEnd
             S  == {p \in HeapStart .. HeapEnd - 1 : pm_limit_lower <= p /\ p < pm_limit_upper}
  <2>1. lo \in Int /\ hi - 1 \in Int
    OBVIOUS
  <2>2. S = lo .. hi - 1
    OBVIOUS
  <2>3. Cardinality(S) = IF lo > hi - 1 THEN 0 ELSE hi - 1 - lo + 1
    BY <2>1, <2>2, FS_Interval
  <2>4. PagesToTest(pm_limit_lower, pm_limit_upper) = IF lo > hi - 1 THEN 0 ELSE hi - 1 - lo + 1
    BY DEF PagesToTest
  <2>5. QED
    BY <2>3, <2>4 DEF PagesCounted
<1>2. QED
  BY <1>1, AlwaysIInv, PTL

(***************************************************************************)
(* The loop never runs under changed settings without a restart being due. *)
(***************************************************************************)
THEOREM NeverStale == Spec => []NoStaleRun
<1>1. IInv => NoStaleRun
  BY DEF IInv, StaleInv, Began, NoStaleRun, Settings
<1>2. QED
  BY <1>1, AlwaysIInv, PTL

-----------------------------------------------------------------------------
(***************************************************************************)
(* The line that is typed, key by key.                                     *)
(***************************************************************************)
LineRecord == [buffer : Seq(Chars), width : Nat, got_suffix : BOOLEAN]

LineFine(l) ==
    /\ l \in LineRecord
    /\ Len(l.buffer) <= l.width
    /\ l.got_suffix => l.buffer # <<>> /\ l.buffer[Len(l.buffer)] \in Units
    /\ \A i \in DOMAIN l.buffer : l.buffer[i] = "x" => i = 2 /\ l.buffer[1] = "0"

LEMMA FreshLine == ASSUME NEW width \in Nat PROVE LineFine(Line(width))
<1>1. <<>> \in Seq(Chars) /\ Len(<<>>) = 0 /\ DOMAIN <<>> = {}
  BY EmptySeq
<1>2. QED
  BY <1>1 DEF LineFine, Line, LineRecord

LEMMA TypedLine ==
    ASSUME NEW l, LineFine(l), NEW c \in Chars, Accepts(l, c)
    PROVE  LineFine(Typed(l, c))
<1> DEFINE b == l.buffer
           n == Len(b)
           t == Append(b, c)
<1>1. /\ b \in Seq(Chars) /\ n \in Nat /\ l.width \in Nat /\ n < l.width
      /\ DOMAIN b = 1 .. n /\ l.got_suffix \in BOOLEAN
  BY LenProperties DEF LineFine, LineRecord, Accepts
<1>2. /\ t \in Seq(Chars) /\ t # <<>> /\ Len(t) = n + 1 /\ DOMAIN t = 1 .. n + 1
      /\ t[n + 1] = c /\ \A i \in 1 .. n : t[i] = b[i]
  BY <1>1, AppendProperties, LenProperties
<1>3. /\ Typed(l, c) \in LineRecord
      /\ Typed(l, c).buffer = t /\ Typed(l, c).width = l.width
      /\ Typed(l, c).got_suffix = (l.got_suffix \/ c \in Units)
  <2>1. l \in LineRecord
    BY DEF LineFine
  <2>2. Typed(l, c) = [l EXCEPT !.buffer = t, !.got_suffix = l.got_suffix \/ c \in Units]
    BY DEF Typed
  <2> HIDE DEF t
  <2>3. QED
    BY <1>2, <2>1, <2>2 DEF LineRecord
<1>4. c = "x" => n = 1 /\ b[1] = "0"
  BY ReadValueAssumption DEF Accepts, Decimals, Letters
<1>5. l.got_suffix => c \in Units
  <2>1. "0" \notin Units
    BY ReadValueAssumption
  <2>2. c = "x" => ~l.got_suffix
    BY <1>4, <2>1 DEF LineFine
  <2>3. QED
    BY <2>2 DEF Accepts
<1> HIDE DEF t
<1>6. \A i \in 1 .. n + 1 : t[i] = "x" => i = 2 /\ t[1] = "0"
  <2> SUFFICES ASSUME NEW i \in 1 .. n + 1, t[i] = "x" PROVE i = 2 /\ t[1] = "0"
    OBVIOUS
  <2>1. CASE i = n + 1
    BY <1>1, <1>2, <1>4, <2>1
  <2>2. CASE i \in 1 .. n
    <3>1. i = 2 /\ b[1] = "0"
      BY <1>1, <1>2, <2>2 DEF LineFine
    <3>2. QED
      BY <1>1, <1>2, <2>2, <3>1
  <2>3. QED
    BY <1>1, <2>1, <2>2
<1>7. QED
  BY <1>1, <1>2, <1>3, <1>5, <1>6 DEF LineFine, LineRecord

LEMMA RubbedLine ==
    ASSUME NEW l, LineFine(l), l.buffer # <<>>
    PROVE  LineFine(Rubbed(l))
<1> DEFINE b == l.buffer
           n == Len(b)
           t == SubSeq(b, 1, n - 1)
<1>1. /\ b \in Seq(Chars) /\ n \in Nat \ {0} /\ l.width \in Nat /\ n <= l.width /\ DOMAIN b = 1 .. n
  BY LenProperties, EmptySeq DEF LineFine, LineRecord
<1>2. /\ t \in Seq(Chars) /\ Len(t) = n - 1 /\ DOMAIN t = 1 .. n - 1
      /\ \A i \in 1 .. n - 1 : t[i] = b[i]
  <2>1. n - 1 \in Int /\ \A i \in 1 .. n - 1 : b[i] \in Chars
    BY <1>1
  <2>2. QED
    BY <1>1, <2>1, SubSeqProperties, LenProperties
<1>3. /\ Rubbed(l) \in LineRecord
      /\ Rubbed(l).buffer = t /\ Rubbed(l).width = l.width /\ Rubbed(l).got_suffix = FALSE
  <2>1. l \in LineRecord
    BY DEF LineFine
  <2> HIDE DEF b, n
  <2>2. Rubbed(l) = [l EXCEPT !.buffer = t, !.got_suffix = FALSE]
    BY DEF Rubbed, b, n
  <2> HIDE DEF t
  <2>3. QED
    BY <1>2, <2>1, <2>2 DEF LineRecord
<1> HIDE DEF t
<1>4. \A i \in 1 .. n - 1 : t[i] = "x" => i = 2 /\ t[1] = "0"
  BY <1>1, <1>2 DEF LineFine
<1>5. QED
  BY <1>1, <1>2, <1>3, <1>4 DEF LineFine, LineRecord

(***************************************************************************)
(* What the types need besides IInv.                                       *)
(***************************************************************************)
ShapeInv ==
    /\ menu \in {"closed", "main", "tests", "range", "cpu", "error"}
    /\ LineFine(line)
    /\ cpu_mode \in CpuModes /\ old_cpu_mode \in CpuModes /\ error_mode \in ErrorModes
    /\ commands \in 0 .. MaxCommands

LEMMA InitShapeInv == Init => ShapeInv
  BY FreshLine, ConfigMenuAssumption DEF Init, ShapeInv, CpuModes, ErrorModes

\* A key or a new number is the only thing that touches the line.
LEMMA LineSteps == ASSUME LineFine(line), [Next]_vars PROVE LineFine(line')
<1> USE DEF Command, Answered, dialogVars
<1>1. ASSUME NEW width \in Nat, line' = Line(width) PROVE LineFine(line')
  BY <1>1, FreshLine
<1>2. TEST_FIELD \in Nat /\ LIMIT_FIELD \in Nat /\ Keys \subseteq Chars
  BY ConfigMenuAssumption
<1>3. CASE Menus
  BY <1>3 DEF Menus, Open, Enter, Close, Exit, SetCpuMode, SetErrorMode, SetAllTests, TestAllMemory
<1>4. ASSUME NEW what \in {"add", "remove", "first", "lower", "upper"}, Ask(what) PROVE LineFine(line')
  BY <1>1, <1>2, <1>4 DEF Ask, FieldOf
<1>5. ASSUME NEW c \in Keys, Type(c) PROVE LineFine(line')
  BY <1>2, <1>5, TypedLine DEF Type
<1>6. CASE Backspace
  BY <1>6, RubbedLine DEF Backspace
<1>7. CASE Answer
  BY <1>1, <1>2, <1>7 DEF Answer, AnswerTest, AnswerFirst, AnswerLast, AnswerLower, AnswerUpper
<1>8. CASE HonourRestart \/ ClearBail \/ UNCHANGED vars
  BY <1>8 DEF HonourRestart, ClearBail, vars
<1>9. QED
  BY <1>3, <1>4, <1>5, <1>6, <1>7, <1>8 DEF Next, Dialogue

LEMMA NextShapeInv == ShapeInv /\ [Next]_vars => ShapeInv'
<1> SUFFICES ASSUME ShapeInv, [Next]_vars PROVE ShapeInv'
  OBVIOUS
<1> USE DEF ShapeInv, Command, Answered, dialogVars, limitVars, modeVars, flagVars
<1>1. LineFine(line')
  BY LineSteps
<1>2. CASE Menus
  BY <1>1, <1>2, ConfigMenuAssumption
     DEF Menus, Open, Enter, Close, Exit, SetCpuMode, SetErrorMode, SetAllTests, TestAllMemory
<1>3. CASE Dialogue
  BY <1>1, <1>3, ConfigMenuAssumption
     DEF Dialogue, Ask, Type, Backspace, Answer, AnswerTest, AnswerFirst, AnswerLast, AnswerLower, AnswerUpper
<1>4. CASE HonourRestart \/ ClearBail \/ UNCHANGED vars
  BY <1>1, <1>4 DEF HonourRestart, ClearBail, vars
<1>5. QED
  BY <1>2, <1>3, <1>4 DEF Next

(***************************************************************************)
(* The types of all variables, and the line that is being typed: it fits   *)
(* its field, an x stands behind the first 0, and a suffix that was noted  *)
(* is the last character.                                                  *)
(***************************************************************************)
THEOREM MenuTyped == Spec => []TypeOK
<1>1. Spec => []ShapeInv
  BY InitShapeInv, NextShapeInv, PTL DEF Spec
<1>2. IInv /\ ShapeInv => TypeOK
  <2> SUFFICES ASSUME IInv, ShapeInv PROVE TypeOK
    OBVIOUS
  <2>1. num_pages_to_test \in Nat
    BY ConfigMenuAssumption DEF IInv, RangeInv, PagesToTest, Numbers
  <2>2. LineOK
    BY DEF ShapeInv, LineFine, LineRecord, LineOK
  <2>3. QED
    BY <2>1, <2>2 DEF IInv, RangeInv, SelectInv, FlagInv, ShapeInv, TypeOK
<1>3. QED
  BY <1>1, <1>2, AlwaysIInv, PTL

LEMMA LeastNat ==
    ASSUME NEW S, S \subseteq Nat, S # {}
    PROVE  \E m \in S : \A k \in S : m <= k
<1>1. PICK m \in S : \A k \in S : ~(<<k, m>> \in OpToRel(<, Nat))
  BY NatLessThanWellFounded, WFMin
<1>2. \A k \in S : ~(k < m)
  BY <1>1 DEF OpToRel
<1>3. QED
  BY <1>2

-----------------------------------------------------------------------------
(***************************************************************************)
(* A fold over 1 .. n from the left, by a function step of a value and an  *)
(* index.  The library defines it by recursion on the sets of indices.     *)
(***************************************************************************)
IsFold(g, step, n) ==
    /\ g \in [SUBSET (1 .. n) -> Nat]
    /\ g[{}] = 0
    /\ \A s \in SUBSET (1 .. n) : s # {} => Max(s) \in s /\ g[s] = step[<<g[s \ {Max(s)}], Max(s)>>]

LEMMA MaxOfTop ==
    ASSUME NEW n \in Nat, NEW s \in SUBSET (1 .. n), n \in s
    PROVE  Max(s) = n
<1>1. \A y \in s : n >= y
  OBVIOUS
<1>2. \A x \in s : (\A y \in s : x >= y) => x = n
  OBVIOUS
<1>3. QED
  BY <1>1, <1>2 DEF Max

LEMMA FoldExists ==
    ASSUME NEW step \in [Nat \X Nat -> Nat], NEW n \in Nat
    PROVE  \E g : IsFold(g, step, n)
<1> DEFINE bad == {k \in Nat : ~\E g : IsFold(g, step, k)}
<1>1. SUFFICES ASSUME bad # {} PROVE FALSE
  OBVIOUS
<1>2. PICK m \in bad : \A k \in bad : m <= k
  <2> bad \subseteq Nat
    OBVIOUS
  <2> HIDE DEF bad
  <2> QED
    BY <1>1, LeastNat
<1>3. m \in Nat /\ ~\E g : IsFold(g, step, m)
  OBVIOUS
<1>4. m # 0
  <2>1. 1 .. 0 = {} /\ SUBSET {} = {{}}
    OBVIOUS
  <2>2. IsFold([s \in {{}} |-> 0], step, 0)
    BY <2>1 DEF IsFold
  <2>3. QED
    BY <1>3, <2>2
<1>5. m - 1 \in Nat /\ m - 1 \notin bad
  BY <1>2, <1>3, <1>4
<1>6. PICK g : IsFold(g, step, m - 1)
  BY <1>5
<1> DEFINE h == [s \in SUBSET (1 .. m) |-> IF m \in s THEN step[<<g[s \ {m}], m>>] ELSE g[s]]
<1>7. ASSUME NEW s \in SUBSET (1 .. m)
      PROVE  s \ {m} \in SUBSET (1 .. m - 1) /\ (m \notin s => s \in SUBSET (1 .. m - 1))
  BY <1>3
<1>8. h \in [SUBSET (1 .. m) -> Nat]
  BY <1>3, <1>6, <1>7 DEF IsFold
<1>9. h[{}] = 0
  BY <1>6 DEF IsFold
<1>10. ASSUME NEW s \in SUBSET (1 .. m), s # {}
       PROVE  Max(s) \in s /\ h[s] = step[<<h[s \ {Max(s)}], Max(s)>>]
  <2>1. CASE m \in s
    <3>1. Max(s) = m
      BY <1>3, <2>1, MaxOfTop
    <3>2. h[s \ {m}] = g[s \ {m}]
      BY <1>7
    <3>3. QED
      BY <2>1, <3>1, <3>2
  <2>2. CASE m \notin s
    <3>1. s \in SUBSET (1 .. m - 1)
      BY <1>7, <2>2
    <3>2. Max(s) \in s /\ g[s] = step[<<g[s \ {Max(s)}], Max(s)>>]
      BY <1>6, <1>10, <3>1 DEF IsFold
    <3>3. h[s \ {Max(s)}] = g[s \ {Max(s)}] /\ h[s] = g[s]
      BY <2>2
    <3>4. QED
      BY <3>2, <3>3
  <2>3. QED
    BY <2>1, <2>2
<1> HIDE DEF h
<1>11. IsFold(h, step, m)
  BY <1>8, <1>9, <1>10 DEF IsFold
<1>12. QED
  BY <1>3, <1>11

LEMMA UpTo ==
    ASSUME NEW n \in Nat, NEW k \in 0 .. n - 1
    PROVE  /\ 1 .. k + 1 \in SUBSET (1 .. n) /\ 1 .. k + 1 # {}
           /\ Max(1 .. k + 1) = k + 1 /\ (1 .. k + 1) \ {k + 1} = 1 .. k
<1>1. 1 .. k + 1 \in SUBSET (1 .. n) /\ k + 1 \in 1 .. k + 1 /\ 1 .. k + 1 # {}
  OBVIOUS
<1>2. Max(1 .. k + 1) = k + 1
  <2>1. k + 1 \in Nat /\ 1 .. k + 1 \in SUBSET (1 .. k + 1)
    OBVIOUS
  <2>2. QED
    BY <1>1, <2>1, MaxOfTop
<1>3. (1 .. k + 1) \ {k + 1} = 1 .. k
  OBVIOUS
<1>4. QED
  BY <1>1, <1>2, <1>3

-----------------------------------------------------------------------------
LEMMA ValueUnfolded ==
    ASSUME NEW l
    PROVE  LET d == DigitsOf(l)
               f == CHOOSE f : f = [s \in SUBSET DOMAIN d |->
                        IF s = {} THEN 0
                        ELSE (f[s \ {Max(s)}] * Base(l) + CharValue(d[Max(s)])) % Size]
           IN  Value(l) = f[DOMAIN d]
  BY DEF Value, FoldLeft, MapThenFoldSet

LEMMA SumUnfolded ==
    ASSUME NEW d
    PROVE  LET f == CHOOSE f : f = [s \in SUBSET DOMAIN d |->
                        IF s = {} THEN 0 ELSE f[s \ {Max(s)}] + d[Max(s)]]
           IN  FoldLeft(+, 0, d) = f[DOMAIN d]
  BY DEF FoldLeft, MapThenFoldSet

(***************************************************************************)
(* The two folds of this model, as sequences of partial results.           *)
(***************************************************************************)
Reads(h, b, m, c, n) == h[0] = 0 /\ \A k \in 0 .. n - 1 : h[k + 1] = (h[k] * b + c[k + 1]) % m

Sums(h, c, n) == h[0] = 0 /\ \A k \in 0 .. n - 1 : h[k + 1] = h[k] + c[k + 1]

LEMMA ValueParts ==
    ASSUME NEW l, NEW n \in Nat, DOMAIN DigitsOf(l) = 1 .. n, Size \in Nat \ {0}, Base(l) \in Nat,
           NEW e \in [1 .. n -> Nat], \A i \in 1 .. n : e[i] = CharValue(DigitsOf(l)[i])
    PROVE  \E h : Reads(h, Base(l), Size, e, n) /\ h[n] = Value(l)
<1> DEFINE d == DigitsOf(l)
           b == Base(l)
           m == Size
           step == [z \in Nat \X Nat |->
                      IF z[2] \in 1 .. n THEN (z[1] * b + CharValue(d[z[2]])) % m ELSE 0]
           f == CHOOSE f : f = [s \in SUBSET DOMAIN d |->
                          IF s = {} THEN 0 ELSE (f[s \ {Max(s)}] * b + CharValue(d[Max(s)])) % m]
<1>1. Value(l) = f[DOMAIN d]
  BY ValueUnfolded
<1>2. b \in Nat /\ m \in Nat \ {0} /\ DOMAIN d = 1 .. n /\ \A i \in 1 .. n : CharValue(d[i]) \in Nat
  OBVIOUS
<1> HIDE DEF d, b, m
<1>3. \A v, x \in Nat : x \in 1 .. n =>
         /\ step[<<v, x>>] = (v * b + CharValue(d[x])) % m
         /\ step[<<v, x>>] \in Nat
  <2> SUFFICES ASSUME NEW v \in Nat, NEW x \in 1 .. n
               PROVE  (v * b + CharValue(d[x])) % m \in Nat
    OBVIOUS
  <2> DEFINE c == CharValue(d[x])
  <2>1. c \in Nat /\ v * b \in Nat
    BY <1>2
  <2> DEFINE a == v * b
  <2> HIDE DEF a, c
  <2>2. (a + c) % m \in Nat
    BY <1>2, <2>1 DEF a
  <2>3. QED
    BY <2>2 DEF a, c
<1>4. step \in [Nat \X Nat -> Nat]
  <2>1. \A v, x \in Nat : x \notin 1 .. n => step[<<v, x>>] = 0
    OBVIOUS
  <2>2. ASSUME NEW z \in Nat \X Nat PROVE step[z] \in Nat
    <3> HIDE DEF step
    <3>1. PICK v, x \in Nat : z = <<v, x>>
      OBVIOUS
    <3>2. step[<<v, x>>] \in Nat
      BY <1>3, <2>1
    <3>3. QED
      BY <3>1, <3>2
  <2>3. QED
    BY <2>2
<1> HIDE DEF step
<1>5. PICK g : IsFold(g, step, n)
  BY <1>4, FoldExists
<1>6. ASSUME NEW s \in SUBSET (1 .. n)
      PROVE  g[s] = IF s = {} THEN 0 ELSE (g[s \ {Max(s)}] * b + CharValue(d[Max(s)])) % m
  <2>1. CASE s = {}
    BY <1>5, <2>1 DEF IsFold
  <2>2. CASE s # {}
    <3>1. Max(s) \in s /\ g[s] = step[<<g[s \ {Max(s)}], Max(s)>>] /\ g[s \ {Max(s)}] \in Nat
      BY <1>5, <2>2 DEF IsFold
    <3>2. \A x \in s : x \in Nat /\ x \in 1 .. n
      OBVIOUS
    <3>3. QED
      BY <1>3, <2>2, <3>1, <3>2
  <2>3. QED
    BY <2>1, <2>2
<1>7. g = [s \in SUBSET DOMAIN d |->
             IF s = {} THEN 0 ELSE (g[s \ {Max(s)}] * b + CharValue(d[Max(s)])) % m]
  BY <1>2, <1>5, <1>6 DEF IsFold
<1>8. f = [s \in SUBSET DOMAIN d |->
             IF s = {} THEN 0 ELSE (f[s \ {Max(s)}] * b + CharValue(d[Max(s)])) % m]
  BY <1>7
<1> HIDE DEF f
<1>9. f[1 .. 0] = 0
  <2>1. 1 .. 0 = {} /\ {} \in SUBSET DOMAIN d
    OBVIOUS
  <2>2. f[{}] = 0
    BY <1>8, <2>1
  <2>3. QED
    BY <2>1, <2>2
<1>10. ASSUME NEW k \in 0 .. n - 1
       PROVE  f[1 .. k + 1] = (f[1 .. k] * b + CharValue(d[k + 1])) % m
  <2> DEFINE t == 1 .. k + 1
  <2>1. t \in SUBSET DOMAIN d /\ t # {} /\ Max(t) = k + 1 /\ t \ {k + 1} = 1 .. k
    BY <1>2, UpTo
  <2> HIDE DEF t
  <2>2. f[t] = (f[t \ {Max(t)}] * b + CharValue(d[Max(t)])) % m
    BY <1>8, <2>1
  <2>3. QED
    BY <2>1, <2>2 DEF t
<1> DEFINE h == [k \in 0 .. n |-> f[1 .. k]]
<1>11. h[0] = 0 /\ h[n] = Value(l)
  BY <1>1, <1>2, <1>9
<1>12. \A k \in 0 .. n - 1 : h[k + 1] = (h[k] * b + e[k + 1]) % m
  <2>1. \A k \in 0 .. n - 1 : k + 1 \in 1 .. n /\ h[k + 1] = (h[k] * b + CharValue(d[k + 1])) % m
    BY <1>10
  <2> HIDE DEF h
  <2>2. QED
    BY <2>1 DEF d
<1> HIDE DEF h
<1>13. QED
  BY <1>11, <1>12 DEF b, m, Reads

LEMMA SumParts ==
    ASSUME NEW n \in Nat, NEW d \in [1 .. n -> Nat]
    PROVE  \E h : Sums(h, d, n) /\ h[n] = FoldLeft(+, 0, d)
<1> DEFINE step == [z \in Nat \X Nat |-> IF z[2] \in 1 .. n THEN z[1] + d[z[2]] ELSE 0]
           f == CHOOSE f : f = [s \in SUBSET DOMAIN d |->
                          IF s = {} THEN 0 ELSE f[s \ {Max(s)}] + d[Max(s)]]
           total == FoldLeft(+, 0, d)
<1>1. total = f[DOMAIN d] /\ DOMAIN d = 1 .. n
  BY SumUnfolded
<1> HIDE DEF total
<1>2. \A v, x \in Nat : step[<<v, x>>] = IF x \in 1 .. n THEN v + d[x] ELSE 0
  OBVIOUS
<1>3. step \in [Nat \X Nat -> Nat]
  <2>1. ASSUME NEW z \in Nat \X Nat PROVE step[z] \in Nat
    <3> HIDE DEF step
    <3>1. PICK v, x \in Nat : z = <<v, x>>
      OBVIOUS
    <3>2. step[<<v, x>>] \in Nat
      BY <1>2
    <3>3. QED
      BY <3>1, <3>2
  <2>2. QED
    BY <2>1
<1> HIDE DEF step
<1>4. PICK g : IsFold(g, step, n)
  BY <1>3, FoldExists
<1>5. ASSUME NEW s \in SUBSET (1 .. n)
      PROVE  g[s] = IF s = {} THEN 0 ELSE g[s \ {Max(s)}] + d[Max(s)]
  <2>1. CASE s = {}
    BY <1>4, <2>1 DEF IsFold
  <2>2. CASE s # {}
    <3>1. Max(s) \in s /\ g[s] = step[<<g[s \ {Max(s)}], Max(s)>>] /\ g[s \ {Max(s)}] \in Nat
      BY <1>4, <2>2 DEF IsFold
    <3>2. \A x \in s : x \in Nat /\ x \in 1 .. n
      OBVIOUS
    <3>3. QED
      BY <1>2, <2>2, <3>1, <3>2
  <2>3. QED
    BY <2>1, <2>2
<1>6. g = [s \in SUBSET DOMAIN d |-> IF s = {} THEN 0 ELSE g[s \ {Max(s)}] + d[Max(s)]]
  BY <1>1, <1>4, <1>5 DEF IsFold
<1>7. f = [s \in SUBSET DOMAIN d |-> IF s = {} THEN 0 ELSE f[s \ {Max(s)}] + d[Max(s)]]
  BY <1>6
<1> HIDE DEF f
<1>8. f[1 .. 0] = 0
  <2>1. 1 .. 0 = {} /\ {} \in SUBSET DOMAIN d
    OBVIOUS
  <2>2. f[{}] = 0
    BY <1>7, <2>1
  <2>3. QED
    BY <2>1, <2>2
<1>9. ASSUME NEW k \in 0 .. n - 1 PROVE f[1 .. k + 1] = f[1 .. k] + d[k + 1]
  <2> DEFINE t == 1 .. k + 1
  <2>1. t \in SUBSET DOMAIN d /\ t # {} /\ Max(t) = k + 1 /\ t \ {k + 1} = 1 .. k
    BY <1>1, UpTo
  <2> HIDE DEF t
  <2>2. f[t] = f[t \ {Max(t)}] + d[Max(t)]
    BY <1>7, <2>1
  <2>3. QED
    BY <2>1, <2>2 DEF t
<1> DEFINE h == [k \in 0 .. n |-> f[1 .. k]]
<1>10. h[0] = 0 /\ h[n] = total
  BY <1>1, <1>8
<1>11. \A k \in 0 .. n - 1 : h[k + 1] = h[k] + d[k + 1]
  BY <1>9
<1> HIDE DEF h
<1>12. QED
  BY <1>10, <1>11 DEF total, Sums

-----------------------------------------------------------------------------
(***************************************************************************)
(* Arithmetic modulo the word.                                             *)
(***************************************************************************)
LEMMA DivMod ==
    ASSUME NEW m \in Nat \ {0}, NEW a \in Nat
    PROVE  a % m \in 0 .. m - 1 /\ \E q \in Nat : a = q * m + (a % m)
<1>1. a = m * (a \div m) + (a % m) /\ a \div m \in Nat /\ a % m \in 0 .. m - 1
  OBVIOUS
<1> DEFINE q == a \div m
<1> HIDE DEF q
<1>2. m * q = q * m
  BY <1>1 DEF q
<1>3. QED
  BY <1>1, <1>2 DEF q

LEMMA Below ==
    ASSUME NEW m \in Nat \ {0}, NEW p \in Nat, NEW q \in Nat, NEW r \in 0 .. m - 1, NEW s \in 0 .. m - 1,
           p * m + r = q * m + s
    PROVE  p <= q
<1> SUFFICES ASSUME p > q PROVE FALSE
  OBVIOUS
<1>1. PICK e \in Nat : p = q + 1 + e
  <2>1. p - q - 1 \in Nat /\ p = q + 1 + (p - q - 1)
    OBVIOUS
  <2>2. QED
    BY <2>1
<1>2. p * m = q * m + m + e * m
  BY <1>1
<1>3. q * m \in Nat /\ e * m \in Nat
  OBVIOUS
<1> DEFINE x == q * m
           y == e * m
           z == p * m
<1> HIDE DEF x, y, z
<1>4. z = x + m + y /\ x \in Nat /\ y \in Nat /\ z + r = x + s
  BY <1>2, <1>3 DEF x, y, z
<1>5. QED
  BY <1>4

LEMMA ModOf ==
    ASSUME NEW m \in Nat \ {0}, NEW q \in Nat, NEW a \in Nat
    PROVE  (q * m + a) % m = a % m
<1> DEFINE x == q * m + a
<1>1. q * m \in Nat
  OBVIOUS
<1>2. x \in Nat
  BY <1>1
<1> HIDE DEF x
<1>3. PICK p \in Nat : x = p * m + (x % m)
  BY <1>2, DivMod
<1>4. PICK k \in Nat : a = k * m + (a % m)
  BY DivMod
<1>5. x % m \in 0 .. m - 1 /\ a % m \in 0 .. m - 1
  BY <1>2, DivMod
<1> DEFINE r == x % m
           s == a % m
<1> HIDE DEF r, s
<1>6. r \in 0 .. m - 1 /\ s \in 0 .. m - 1 /\ x = p * m + r /\ a = k * m + s
  BY <1>3, <1>4, <1>5 DEF r, s
<1>7. x = (q + k) * m + s
  <2>1. (q + k) * m = q * m + k * m
    OBVIOUS
  <2>2. q * m \in Nat /\ k * m \in Nat
    OBVIOUS
  <2>3. QED
    BY <1>6, <2>1, <2>2 DEF x
<1>8. q + k \in Nat
  OBVIOUS
<1> DEFINE j == q + k
<1> HIDE DEF j
<1>9. p = j
  <2>1. p * m + r = j * m + s /\ j \in Nat
    BY <1>6, <1>7, <1>8 DEF j
  <2>2. p <= j /\ j <= p
    BY <1>6, <2>1, Below
  <2>3. QED
    BY <2>1, <2>2
<1>10. r = s
  <2> DEFINE y == j * m
  <2>1. y \in Nat
    BY <1>8 DEF j
  <2> HIDE DEF y
  <2>2. x = y + r /\ x = y + s
    BY <1>6, <1>7, <1>9 DEF j, y
  <2>3. QED
    BY <1>6, <2>1, <2>2
<1>11. QED
  BY <1>10 DEF r, s, x

(***************************************************************************)
(* Digit by digit modulo m, and place by place: h and t are the partial    *)
(* results, w the powers of the base b.                                    *)
(***************************************************************************)
\* One more digit c, at place p, when v and q multiples of m were read before it.
Carries(b, m, q, v, c, p) ==
    \E r \in Nat : (q * m + v) * (b * p) + c * p = (r * m + ((v * b + c) % m)) * p

LEMMA HornerStep ==
    ASSUME NEW b \in Nat, NEW m \in Nat \ {0}, NEW q \in Nat, NEW v \in 0 .. m - 1, NEW c \in Nat, NEW p \in Nat
    PROVE  Carries(b, m, q, v, c, p)
<1> DEFINE a == v * b + c
<1>1. v * b \in Nat /\ q * b \in Nat
  OBVIOUS
<1>2. a \in Nat
  <2> DEFINE x == v * b
  <2> HIDE DEF x
  <2>1. x + c \in Nat
    BY <1>1 DEF x
  <2>2. QED
    BY <2>1 DEF x
<1> HIDE DEF a
<1>3. PICK k \in Nat : a = k * m + (a % m)
  BY <1>2, DivMod
<1>4. a % m \in Nat
  BY <1>2, DivMod
<1> DEFINE s == a % m
           r == q * b + k
<1>5. (q * m + v) * b + c = q * b * m + a
  BY DEF a
<1> HIDE DEF s
<1>6. q * b * m + a = r * m + s
  <2> DEFINE y == q * b
  <2>1. y \in Nat /\ a = k * m + s /\ s \in Nat
    BY <1>1, <1>3, <1>4 DEF s
  <2> HIDE DEF y
  <2>2. y * m + (k * m + s) = (y + k) * m + s
    BY <2>1
  <2>3. QED
    BY <2>1, <2>2 DEF y
<1>7. (q * m + v) * (b * p) + c * p = ((q * m + v) * b + c) * p
  OBVIOUS
<1>8. r \in Nat
  BY <1>1
<1> HIDE DEF r
<1>9. (q * m + v) * (b * p) + c * p = (r * m + s) * p
  BY <1>5, <1>6, <1>7
<1>10. QED
  BY <1>8, <1>9 DEF s, a, Carries

Powers(w, b, n) == w[0] = 1 /\ \A k \in 0 .. n - 1 : w[k + 1] = b * w[k]

Remainder(x, v, m) == v \in 0 .. m - 1 /\ \E q \in Nat : x = q * m + v

LEMMA Horner ==
    ASSUME NEW b \in Nat, NEW m \in Nat \ {0}, NEW n \in Nat, NEW c \in [1 .. n -> Nat],
           NEW w \in [0 .. n -> Nat], Powers(w, b, n),
           NEW h, Reads(h, b, m, c, n),
           NEW place \in [1 .. n -> Nat], \A i \in 1 .. n : place[i] = c[i] * w[n - i],
           NEW t, Sums(t, place, n)
    PROVE  Remainder(t[n], h[n], m)
<1> DEFINE At(k) == h[k] \in 0 .. m - 1 /\ \E q \in Nat : t[k] = (q * m + h[k]) * w[n - k]
           bad == {k \in 0 .. n : ~At(k)}
<1>0. /\ h[0] = 0 /\ t[0] = 0 /\ w[0] = 1
      /\ \A k \in 0 .. n - 1 : h[k + 1] = (h[k] * b + c[k + 1]) % m
      /\ \A k \in 0 .. n - 1 : t[k + 1] = t[k] + c[k + 1] * w[n - (k + 1)]
      /\ \A k \in 0 .. n - 1 : w[k + 1] = b * w[k]
  <2>1. \A k \in 0 .. n - 1 : k + 1 \in 1 .. n
    OBVIOUS
  <2>2. \A k \in 0 .. n - 1 : place[k + 1] = c[k + 1] * w[n - (k + 1)]
    BY <2>1
  <2>3. QED
    BY <2>2 DEF Reads, Sums, Powers
<1>1. bad = {}
  <2>1. SUFFICES ASSUME bad # {} PROVE FALSE
    OBVIOUS
  <2>2. PICK j \in bad : \A k \in bad : j <= k
    <3> bad \subseteq Nat
      OBVIOUS
    <3> HIDE DEF bad
    <3> QED
      BY <2>1, LeastNat
  <2>3. j \in 0 .. n /\ ~At(j)
    OBVIOUS
  <2>4. At(0)
    <3>1. 0 \in 0 .. m - 1 /\ w[n - 0] \in Nat
      OBVIOUS
    <3>2. (0 * m + 0) * w[n - 0] = 0
      BY <3>1
    <3>3. QED
      BY <1>0, <3>1, <3>2
  <2>5. PICK k \in 0 .. n - 1 : j = k + 1
    <3> HIDE DEF At
    <3>1. j # 0
      BY <2>3, <2>4
    <3>2. j - 1 \in 0 .. n - 1 /\ j = j - 1 + 1
      BY <2>3, <3>1
    <3>3. QED
      BY <3>2
  <2>6. At(k)
    <3> HIDE DEF At
    <3>1. k \in 0 .. n /\ ~(j <= k)
      BY <2>5
    <3>2. QED
      BY <2>2, <3>1
  <2>7. At(k + 1)
    <3>1. PICK q \in Nat : t[k] = (q * m + h[k]) * w[n - k]
      BY <2>6
    <3>2. h[k] \in 0 .. m - 1
      BY <2>6
    <3>3. c[k + 1] \in Nat /\ n - (k + 1) \in 0 .. n - 1 /\ n - (k + 1) + 1 = n - k
      OBVIOUS
    <3> DEFINE i == n - (k + 1)
               p == w[i]
    <3>4. i \in 0 .. n - 1 /\ i + 1 = n - k
      BY <3>3
    <3> HIDE DEF i
    <3>5. p \in Nat /\ w[n - k] = b * p
      <4>1. i \in 0 .. n /\ w[i + 1] = b * w[i]
        BY <1>0, <3>4
      <4>2. QED
        BY <3>4, <4>1
    <3> HIDE DEF p
    <3>6. h[k + 1] = (h[k] * b + c[k + 1]) % m /\ t[k + 1] = (q * m + h[k]) * (b * p) + c[k + 1] * p
      <4>1. h[k + 1] = (h[k] * b + c[k + 1]) % m
        BY <1>0
      <4>2. t[k + 1] = t[k] + c[k + 1] * p
        BY <1>0 DEF p, i
      <4>3. t[k] = (q * m + h[k]) * (b * p)
        BY <3>1, <3>5
      <4>4. QED
        BY <4>1, <4>2, <4>3
    <3>7. PICK r \in Nat : (q * m + h[k]) * (b * p) + c[k + 1] * p = (r * m + ((h[k] * b + c[k + 1]) % m)) * p
      <4>1. PICK v \in 0 .. m - 1 : v = h[k]
        BY <3>2
      <4>2. PICK e \in Nat : e = c[k + 1]
        BY <3>3
      <4>3. Carries(b, m, q, v, e, p)
        BY <3>5, HornerStep
      <4>4. QED
        BY <4>1, <4>2, <4>3 DEF Carries
    <3>8. t[k + 1] = (r * m + h[k + 1]) * p
      BY <3>6, <3>7
    <3>9. h[k + 1] \in 0 .. m - 1
      <4> DEFINE v == h[k]
                 e == c[k + 1]
      <4>1. v \in Nat /\ e \in Nat
        BY <3>2, <3>3
      <4> HIDE DEF v, e
      <4>2. v * b \in Nat
        BY <4>1
      <4> DEFINE y == v * b
      <4> HIDE DEF y
      <4>3. y \in Nat /\ y + e \in Nat
        <5>1. y \in Nat
          BY <4>2 DEF y
        <5>2. QED
          BY <4>1, <5>1
      <4>4. (y + e) % m \in 0 .. m - 1
        BY <4>3, DivMod
      <4>5. QED
        BY <3>6, <4>4 DEF y, v, e
    <3>10. QED
      BY <3>8, <3>9 DEF p, i
  <2>8. QED
    BY <2>3, <2>5, <2>7
<1>2. At(n)
  <2> HIDE DEF At
  <2>1. n \in 0 .. n
    OBVIOUS
  <2>2. QED
    BY <1>1, <2>1
<1>3. n - n = 0
  OBVIOUS
<1>4. PICK q \in Nat : t[n] = (q * m + h[n]) * w[0]
  BY <1>2, <1>3
<1>5. (q * m + h[n]) * 1 = q * m + h[n]
  <2>1. q * m \in Nat /\ h[n] \in Nat
    BY <1>2
  <2>2. QED
    BY <2>1
<1>6. QED
  BY <1>0, <1>2, <1>4, <1>5 DEF Remainder

-----------------------------------------------------------------------------
(***************************************************************************)
(* What is read of a line: its digits, and no others when it is well       *)
(* formed and has no letters.                                              *)
(***************************************************************************)
Plain(l) == WellFormed(l) /\ \A i \in DOMAIN l.buffer : l.buffer[i] \notin Letters

LEMMA DigitsOfPlain ==
    ASSUME NEW l, LineFine(l), Plain(l)
    PROVE  LET d == DigitsOf(l)
           IN  \E n \in 0 .. l.width : Len(d) = n /\ DOMAIN d = 1 .. n /\ \A i \in 1 .. n : d[i] \in Decimals
<1> DEFINE d == DigitsOf(l)
           b == l.buffer
           from == IF IsHex(b) THEN 3 ELSE 1
           to == Len(b) - IF l.got_suffix THEN 1 ELSE 0
<1>1. /\ b \in Seq(Chars) /\ Len(b) \in Nat /\ Len(b) <= l.width /\ l.width \in Nat /\ l.got_suffix \in BOOLEAN
      /\ DOMAIN b = 1 .. Len(b) /\ \A i \in 1 .. Len(b) : b[i] \in Chars
  BY LenProperties DEF LineFine, LineRecord
<1>2. from \in {1, 3} /\ to \in Int /\ to <= Len(b)
  <2>1. from \in {1, 3}
    BY Zenon
  <2>2. to = Len(b) - 1 \/ to = Len(b)
    <3>1. CASE l.got_suffix
      BY <1>1, <3>1
    <3>2. CASE ~l.got_suffix
      BY <1>1, <3>2
    <3>3. QED
      BY <3>1, <3>2
  <2> HIDE DEF from, to, b
  <2>3. to \in Int /\ to <= Len(b)
    BY <1>1, <2>2
  <2>4. QED
    BY <2>1, <2>3
<1>3. d = SubSeq(b, from, to)
  BY DEF DigitsOf
<1> HIDE DEF from, to, d
<1>4. \A i \in from .. to : b[i] \in Chars
  BY <1>1, <1>2
<1> DEFINE n == IF from <= to THEN to - from + 1 ELSE 0
<1>5. d \in Seq(Chars) /\ Len(d) = n /\ \A i \in 1 .. n : d[i] = b[from + i - 1]
  <2>1. /\ SubSeq(b, from, to) \in Seq(Chars)
        /\ Len(SubSeq(b, from, to)) = IF from <= to THEN to - from + 1 ELSE 0
        /\ \A i \in 1 .. to - from + 1 : SubSeq(b, from, to)[i] = b[from + i - 1]
    BY <1>2, <1>4, SubSeqProperties
  <2>2. QED
    BY <1>2, <1>3, <2>1
<1>6. n \in 0 .. l.width /\ DOMAIN d = 1 .. n
  <2>1. DOMAIN d = 1 .. Len(d)
    BY <1>5, LenProperties
  <2>2. QED
    BY <1>1, <1>2, <1>5, <2>1
<1>7. ASSUME NEW i \in 1 .. n PROVE d[i] \in Decimals
  <2>1. d[i] = b[from + i - 1] /\ from + i - 1 \in 1 .. Len(b) /\ (IsHex(b) => from + i - 1 >= 3)
    <3>1. IsHex(b) => from = 3
      BY DEF from
    <3>2. QED
      BY <1>1, <1>2, <1>5, <3>1
  <2>2. d[i] \in Chars
    BY <1>1, <2>1
  <2>3. d[i] \notin Letters
    BY <1>1, <2>1 DEF Plain
  <2>4. d[i] \notin Units
    BY <1>6 DEF Plain, WellFormed, d
  <2>5. d[i] # "x"
    <3>1. SUFFICES ASSUME d[i] = "x" PROVE FALSE
      OBVIOUS
    <3>2. from + i - 1 = 2 /\ b[1] = "0"
      BY <1>1, <2>1, <3>1 DEF LineFine
    <3>3. IsHex(b)
      <4>1. b[2] = "x" /\ 2 \in 1 .. Len(b)
        BY <2>1, <3>1, <3>2
      <4>2. QED
        BY <1>1, <3>2, <4>1 DEF IsHex
    <3>4. QED
      BY <2>1, <3>2, <3>3
  <2>6. QED
    BY <2>2, <2>3, <2>4, <2>5 DEF Chars
<1> HIDE DEF n
<1>8. QED
  BY <1>5, <1>6, <1>7 DEF d

LEMMA DecimalValue ==
    ASSUME NEW c \in Decimals
    PROVE  CharValue(c) \in Nat /\ DigitValue(c) = CharValue(c)
<1> DEFINE s == <<"0", "1", "2", "3", "4", "5", "6", "7", "8", "9">>
<1>1. c \notin Letters
  BY DEF Decimals, Letters
<1>2. CharValue(c) = Position(c, s) - 1 /\ DigitValue(c) = CharValue(c)
  BY <1>1 DEF CharValue, DigitValue
<1>3. \E i \in DOMAIN s : s[i] = c
  <2>1. DOMAIN s = 1 .. 10
    OBVIOUS
  <2>2. \E i \in 1 .. 10 : s[i] = c
    BY DEF Decimals
  <2>3. QED
    BY <2>1, <2>2
<1>4. Position(c, s) \in 1 .. 10
  BY <1>3 DEF Position
<1>5. QED
  BY <1>2, <1>4

(***************************************************************************)
(* The value of a line and the sum over its places differ by words.        *)
(***************************************************************************)
Summed(l) ==
    LET d     == DigitsOf(l)
        Place == [i \in DOMAIN d |-> DigitValue(d[i]) * Base(l)^(Len(d) - i)]
    IN  FoldLeft(+, 0, Place)

LEMMA ValueIsSum ==
    ASSUME NEW l, LineFine(l), Plain(l), l.width <= TEST_FIELD + LIMIT_FIELD
    PROVE  Value(l) \in Numbers /\ \E q \in Nat : Summed(l) = q * Size + Value(l)
<1> DEFINE d == DigitsOf(l)
           b == Base(l)
           m == Size
<1>1. PICK n \in 0 .. l.width : Len(d) = n /\ DOMAIN d = 1 .. n /\ \A i \in 1 .. n : d[i] \in Decimals
  BY DigitsOfPlain
<1>2. n \in Nat /\ n <= TEST_FIELD + LIMIT_FIELD /\ TEST_FIELD + LIMIT_FIELD \in Nat
  BY ConfigMenuAssumption DEF LineFine, LineRecord
<1>3. b \in {10, 16} /\ m \in Nat \ {0}
  BY ReadValueAssumption DEF Base
<1> DEFINE c == [i \in 1 .. n |-> CharValue(d[i])]
           w == [k \in 0 .. n |-> b^k]
           place == [i \in 1 .. n |-> c[i] * w[n - i]]
<1>4. \A i \in 1 .. n : CharValue(d[i]) \in Nat /\ DigitValue(d[i]) = CharValue(d[i])
  BY <1>1, DecimalValue
<1>5. c \in [1 .. n -> Nat] /\ \A i \in 1 .. n : c[i] = CharValue(d[i])
  BY <1>4
<1>6. Summed(l) = FoldLeft(+, 0, place)
  <2>1. [i \in DOMAIN d |-> DigitValue(d[i]) * Base(l)^(Len(d) - i)] = place
    <3>1. \A i \in 1 .. n : n - i \in 0 .. n
      BY <1>2
    <3>2. \A i \in 1 .. n : place[i] = DigitValue(d[i]) * b^(n - i)
      BY <1>4, <3>1
    <3>3. QED
      BY <1>1, <3>2
  <2>2. QED
    BY <2>1 DEF Summed
<1> HIDE DEF c
<1>7. PICK h : Reads(h, b, m, c, n) /\ h[n] = Value(l)
  BY <1>1, <1>2, <1>3, <1>5, ValueParts
<1> HIDE DEF d, b, m
<1>8. w \in [0 .. n -> Nat] /\ Powers(w, b, n)
  <2>1. \A k \in 0 .. n : b^k \in Nat
    BY <1>2, <1>3, PowersAssumption
  <2>2. \A k \in 0 .. n - 1 : b^(k + 1) = b * b^k
    BY <1>2, <1>3, PowersAssumption
  <2>3. b^0 = 1
    <3>1. 10^0 = 1 /\ 16^0 = 1
      OBVIOUS
    <3>2. QED
      BY <1>3, <3>1
  <2>4. \A k \in 0 .. n - 1 : k \in 0 .. n /\ k + 1 \in 0 .. n
    BY <1>2
  <2>5. QED
    BY <1>2, <2>1, <2>2, <2>3, <2>4 DEF Powers
<1> HIDE DEF w
<1>9. place \in [1 .. n -> Nat] /\ \A i \in 1 .. n : place[i] = c[i] * w[n - i]
  <2>1. \A i \in 1 .. n : c[i] \in Nat /\ w[n - i] \in Nat
    BY <1>2, <1>5, <1>8
  <2>2. \A x, y \in Nat : x * y \in Nat
    OBVIOUS
  <2>3. \A i \in 1 .. n : c[i] * w[n - i] \in Nat
    BY <2>1, <2>2
  <2>4. QED
    BY <2>3
<1> HIDE DEF place
<1> DEFINE total == FoldLeft(+, 0, place)
<1>10. PICK t : Sums(t, place, n) /\ t[n] = total
  BY <1>2, <1>9, SumParts
<1> HIDE DEF total
<1>11. Remainder(t[n], h[n], m)
  <2>1. b \in Nat
    BY <1>3
  <2>2. QED
    BY <1>2, <1>3, <1>5, <1>7, <1>8, <1>9, <1>10, <2>1, Horner
<1>12. Summed(l) = total
  BY <1>6 DEF total
<1>13. QED
  BY <1>7, <1>10, <1>11, <1>12 DEF m, Numbers, Remainder

\* The shift of a number that is not to be scaled down is less than a word.
LEMMA ShiftInWord ==
    ASSUME NEW l, LineFine(l), NEW r, TotalShift(l, ShiftOf(r)) >= 0
    PROVE  LET s == TotalShift(l, ShiftOf(r)) IN s \in 0 .. WORD - 1 /\ s % WORD = s
<1>1. WORD \in Nat /\ PAGE_SHIFT \in 0 .. WORD - 1
  BY ReadValueAssumption, ConfigMenuAssumption
<1>2. ShiftOf(r) \in {0, -PAGE_SHIFT}
  BY DEF ShiftOf
<1>3. l.got_suffix => UnitShift[Last(l.buffer)] \in 0 .. WORD - 1
  BY ReadValueAssumption DEF LineFine, Last
<1> DEFINE s == TotalShift(l, ShiftOf(r))
<1>4. s \in 0 .. WORD - 1
  <2>1. CASE l.got_suffix
    BY <1>1, <1>2, <1>3, <2>1 DEF TotalShift
  <2>2. CASE ~l.got_suffix
    BY <1>1, <1>2, <2>2 DEF TotalShift
  <2>3. QED
    BY <2>1, <2>2
<1> HIDE DEF s
<1>5. s % WORD = s
  BY <1>1, <1>4
<1>6. QED
  BY <1>4, <1>5 DEF s

LEMMA PlainIsExact ==
    ASSUME NEW l, LineFine(l), Plain(l), l.width <= TEST_FIELD + LIMIT_FIELD,
           NEW r, TotalShift(l, ShiftOf(r)) >= 0
    PROVE  ReadValues(l, ShiftOf(r)) = {Documented(l, ShiftOf(r))}
<1> DEFINE s == TotalShift(l, ShiftOf(r))
           m == Size
           v == Value(l)
           x == 2^s
           total == Summed(l)
<1>1. s \in 0 .. WORD - 1 /\ s % WORD = s /\ s >= 0
  BY ShiftInWord
<1>2. m \in Nat \ {0} /\ x \in Nat
  BY <1>1, ReadValueAssumption, PowersAssumption
<1>3. v \in 0 .. m - 1 /\ \E q \in Nat : total = q * m + v
  BY ValueIsSum DEF Numbers
<1>4. Documented(l, ShiftOf(r)) = (total * x) % m
  BY <1>1 DEF Documented, Scaled, Summed
<1>5. ReadValues(l, ShiftOf(r)) = Numbers \cap {(v * x) % m}
  BY <1>1 DEF ReadValues
<1> HIDE DEF s, m, v, x, total
<1>6. PICK q \in Nat : total = q * m + v
  BY <1>3
<1>7. v \in Nat /\ v * x \in Nat /\ q * x \in Nat
  BY <1>2, <1>3
<1>8. total * x = (q * x) * m + v * x
  BY <1>2, <1>6, <1>7
<1> DEFINE a == v * x
           k == q * x
<1>9. a \in Nat /\ k \in Nat
  BY <1>7
<1> HIDE DEF a, k
<1>10. (k * m + a) % m = a % m /\ a % m \in 0 .. m - 1
  BY <1>2, <1>9, ModOf, DivMod
<1>11. (total * x) % m = a % m
  BY <1>8, <1>10 DEF a, k
<1>12. QED
  BY <1>4, <1>5, <1>10, <1>11 DEF a, m, Numbers

-----------------------------------------------------------------------------
\* The line fits the field it is typed in.
WidthInv == line.width \in {0, TEST_FIELD, LIMIT_FIELD}

LEMMA InitWidth == Init => WidthInv
  BY DEF Init, WidthInv, Line

LEMMA NextWidth == WidthInv /\ ShapeInv /\ [Next]_vars => WidthInv'
<1> SUFFICES ASSUME WidthInv, ShapeInv, [Next]_vars PROVE WidthInv'
  OBVIOUS
<1> USE DEF Command, Answered, dialogVars, WidthInv
<1>1. CASE Menus
  BY <1>1 DEF Menus, Open, Enter, Close, Exit, SetCpuMode, SetErrorMode, SetAllTests, TestAllMemory
<1>2. ASSUME NEW what \in {"add", "remove", "first", "lower", "upper"}, Ask(what) PROVE WidthInv'
  BY <1>2 DEF Ask, FieldOf, Line
<1>3. CASE (\E c \in Keys : Type(c)) \/ Backspace
  <2>1. line \in LineRecord
    BY DEF ShapeInv, LineFine
  <2>2. line'.width = line.width
    BY <1>3, <2>1 DEF Type, Backspace, Typed, Rubbed, LineRecord
  <2>3. QED
    BY <2>2
<1>4. CASE Answer
  BY <1>4 DEF Answer, AnswerTest, AnswerFirst, AnswerLast, AnswerLower, AnswerUpper, Line
<1>5. CASE HonourRestart \/ ClearBail \/ UNCHANGED vars
  BY <1>5 DEF HonourRestart, ClearBail, vars
<1>6. QED
  BY <1>1, <1>2, <1>3, <1>4, <1>5 DEF Next, Dialogue

(***************************************************************************)
(* A number of decimal digits with at most one suffix is read as what it   *)
(* says, modulo the word, whatever was typed and rubbed out on the way:    *)
(* the loop of read_value, which drops the high bits digit by digit, and   *)
(* the sum of the digits at their places come out the same.                *)
(***************************************************************************)
THEOREM ReadAlwaysExact == Spec => []ReadExact
<1>1. Spec => []ShapeInv
  BY InitShapeInv, NextShapeInv, PTL DEF Spec
<1>2. Spec => []WidthInv
  BY <1>1, InitWidth, NextWidth, PTL DEF Spec
<1>3. ShapeInv /\ WidthInv => ReadExact
  <2> SUFFICES ASSUME LineFine(line), WidthInv, Plain(line), TotalShift(line, ShiftOf(reading)) >= 0
               PROVE  ReadValues(line, ShiftOf(reading)) = {Documented(line, ShiftOf(reading))}
    BY DEF ShapeInv, ReadExact, Plain
  <2>1. line.width <= TEST_FIELD + LIMIT_FIELD
    BY ConfigMenuAssumption DEF WidthInv
  <2>2. QED
    BY <2>1, PlainIsExact
<1>4. QED
  BY <1>1, <1>2, <1>3, PTL
=============================================================================
