--------------------------- MODULE EstimateProofs ---------------------------
(***************************************************************************)
(* The estimates of the dummy run, for every heap, limit, list of tests,   *)
(* number of stages and number of ticks: the bar of a test that ran to its *)
(* end is full, and if nobody pressed a key exactly full, as is the bar of *)
(* the pass.                                                               *)
(*                                                                         *)
(* A tick has a name: its test, stage, window and number in the window.    *)
(* What both runs count is the size of a set of names, and the sets are    *)
(* the same in both.                                                       *)
(***************************************************************************)
EXTENDS TestLoopProofs, FiniteSetTheorems, FunctionTheorems

First(n)  == CASE n = 0 -> 0 [] n = 1 -> LowPages [] OTHER -> (n - 1) * VM_WINDOW_SIZE
Beyond(n) == CASE n = 0 -> LowPages [] n = 1 -> VM_WINDOW_SIZE [] OTHER -> n * VM_WINDOW_SIZE

\* Test t is run in window n.
Used(t, n) ==
    /\ n = 0 => Stages[t] = 1 /\ pm_limit_lower < LOW_LOAD_LIMIT
    /\ LoOf(First(n), pm_limit_lower) < HiOf(Beyond(n), pm_limit_upper)

\* In its waiting stages, bit fade makes ticks in the first window only.
Waits(t, s) == t = FadeTest /\ s \in FadeStages

Runs(t, s, n) == Used(t, n) /\ (Waits(t, s) => \A m \in 0 .. n - 1 : ~Used(t, m))

\* The names of all ticks of a test in a pass of type ty.
TicksOf(t, ty) ==
    {id \in ({t} \X (0 .. Stages[t] - 1)) \X ((0 .. HeapEnd) \X (1 .. Ticks[t][ty])) :
        Runs(t, id[1][2], id[2][1])}

\* Those before window n of stage s.
TicksBefore(t, ty, s, n) ==
    {id \in TicksOf(t, ty) : id[1][2] < s \/ (id[1][2] = s /\ id[2][1] < n)}

\* The first k of one window.
TicksIn(t, s, n, k) == {<<<<t, s>>, <<n, i>>>> : i \in 1 .. k}

\* Those of all selected tests below t.
TicksBelow(t, ty) == UNION {TicksOf(u, ty) : u \in enabled \cap (0 .. t - 1)}

-----------------------------------------------------------------------------
(***************************************************************************)
(* Sets of names.                                                          *)
(***************************************************************************)
LEMMA StageCount ==
    ASSUME NEW t \in Tests
    PROVE  Stages[t] \in Nat \ {0}
  BY TestLoopAssumption

LEMMA TickCount ==
    ASSUME NEW t \in Tests, NEW ty \in PassTypes
    PROVE  Ticks[t][ty] \in Nat
  <1>1. Ticks[t] \in [PassTypes -> Nat]
    BY TestLoopAssumption
  <1>2. QED
    BY <1>1

LEMMA NamedTicks ==
    ASSUME NEW t, NEW ty, NEW a, NEW s, NEW n, NEW i
    PROVE  <<<<a, s>>, <<n, i>>>> \in TicksOf(t, ty) <=>
             /\ a = t /\ s \in 0 .. Stages[t] - 1
             /\ n \in 0 .. HeapEnd /\ i \in 1 .. Ticks[t][ty]
             /\ Runs(t, s, n)
  BY DEF TicksOf

LEMMA TickName ==
    ASSUME NEW t, NEW ty, NEW id \in TicksOf(t, ty)
    PROVE  \E s \in 0 .. Stages[t] - 1, n \in 0 .. HeapEnd, i \in 1 .. Ticks[t][ty] :
             id = <<<<t, s>>, <<n, i>>>>
  BY DEF TicksOf

LEMMA BeforeNamed ==
    ASSUME NEW t, NEW ty, NEW s, NEW n, NEW a, NEW r, NEW m, NEW i
    PROVE  <<<<a, r>>, <<m, i>>>> \in TicksBefore(t, ty, s, n) <=>
             /\ <<<<a, r>>, <<m, i>>>> \in TicksOf(t, ty)
             /\ r < s \/ (r = s /\ m < n)
  BY DEF TicksBefore

LEMMA BeforeOf ==
    ASSUME NEW t, NEW ty, NEW s, NEW n
    PROVE  TicksBefore(t, ty, s, n) \subseteq TicksOf(t, ty)
  BY DEF TicksBefore

LEMMA NamedIn ==
    ASSUME NEW t, NEW s, NEW n, NEW k, NEW a, NEW r, NEW m, NEW i
    PROVE  <<<<a, r>>, <<m, i>>>> \in TicksIn(t, s, n, k) <=>
             a = t /\ r = s /\ m = n /\ i \in 1 .. k
  BY DEF TicksIn

LEMMA TicksFinite ==
    ASSUME NEW t \in Tests, NEW ty \in PassTypes
    PROVE  IsFiniteSet(TicksOf(t, ty))
  <1> DEFINE A == {t} \X (0 .. Stages[t] - 1)
             B == (0 .. HeapEnd) \X (1 .. Ticks[t][ty])
  <1>1. IsFiniteSet(A)
    <2>1. 0 \in Int /\ Stages[t] - 1 \in Int
      BY StageCount
    <2>2. IsFiniteSet(0 .. Stages[t] - 1)
      BY ONLY <2>1, FS_Interval
    <2>3. IsFiniteSet({t})
      BY FS_Singleton
    <2>4. QED
      BY <2>2, <2>3, FS_Product
  <1>2. IsFiniteSet(B)
    <2>1. 0 \in Int /\ HeapEnd \in Int /\ 1 \in Int /\ Ticks[t][ty] \in Int
      BY TickCount, TestLoopAssumption
    <2>2. IsFiniteSet(0 .. HeapEnd) /\ IsFiniteSet(1 .. Ticks[t][ty])
      BY ONLY <2>1, FS_Interval
    <2>3. QED
      BY <2>2, FS_Product
  <1>3. IsFiniteSet(A \X B)
    BY <1>1, <1>2, FS_Product
  <1>4. TicksOf(t, ty) \in SUBSET (A \X B)
    BY DEF TicksOf
  <1>5. QED
    BY <1>3, <1>4, FS_Subset

LEMMA NoneBefore ==
    ASSUME NEW t, NEW ty
    PROVE  TicksBefore(t, ty, 0, 0) = {}
  <1> SUFFICES ASSUME NEW id \in TicksBefore(t, ty, 0, 0) PROVE FALSE
    OBVIOUS
  <1>1. PICK s \in 0 .. Stages[t] - 1, n \in 0 .. HeapEnd, i \in 1 .. Ticks[t][ty] :
               id = <<<<t, s>>, <<n, i>>>>
    BY BeforeOf, TickName
  <1>2. s < 0 \/ n < 0
    BY <1>1, BeforeNamed
  <1>3. QED
    BY <1>2

LEMMA NoTicksIn ==
    ASSUME NEW t, NEW s, NEW n
    PROVE  TicksIn(t, s, n, 0) = {}
  BY DEF TicksIn

LEMMA WindowTicks ==
    ASSUME NEW t \in Tests, NEW ty \in PassTypes, NEW s \in 0 .. Stages[t] - 1, NEW n \in Nat,
           Used(t, n) => n <= HeapEnd
    PROVE  TicksBefore(t, ty, s, n + 1) =
             TicksBefore(t, ty, s, n)
               \cup TicksIn(t, s, n, IF Runs(t, s, n) THEN Ticks[t][ty] ELSE 0)
  <1> DEFINE k == IF Runs(t, s, n) THEN Ticks[t][ty] ELSE 0
             S == TicksBefore(t, ty, s, n)
             U == TicksBefore(t, ty, s, n + 1)
  <1>0. s \in Nat /\ HeapEnd \in Nat /\ Stages[t] \in Nat /\ Ticks[t][ty] \in Nat
    BY StageCount, TickCount, TestLoopAssumption
  <1>1. ASSUME NEW id \in U PROVE id \in S \cup TicksIn(t, s, n, k)
    <2>1. PICK r \in 0 .. Stages[t] - 1, m \in 0 .. HeapEnd, i \in 1 .. Ticks[t][ty] :
                 id = <<<<t, r>>, <<m, i>>>>
      BY <1>1, BeforeOf, TickName
    <2>2. id \in TicksOf(t, ty) /\ (r < s \/ (r = s /\ m < n + 1))
      BY <1>1, <2>1, BeforeNamed
    <2>3. CASE r < s \/ (r = s /\ m < n)
      BY <2>1, <2>2, <2>3, BeforeNamed
    <2>4. CASE r = s /\ m = n
      <3>1. Runs(t, s, n)
        BY <2>1, <2>2, <2>4, NamedTicks
      <3>2. QED
        BY <2>1, <2>4, <3>1, NamedIn
    <2>5. QED
      BY <1>0, <2>2, <2>3, <2>4
  <1>2. ASSUME NEW id \in S PROVE id \in U
    <2>1. PICK r \in 0 .. Stages[t] - 1, m \in 0 .. HeapEnd, i \in 1 .. Ticks[t][ty] :
                 id = <<<<t, r>>, <<m, i>>>>
      BY <1>2, BeforeOf, TickName
    <2>2. id \in TicksOf(t, ty) /\ (r < s \/ (r = s /\ m < n))
      BY <1>2, <2>1, BeforeNamed
    <2>3. QED
      BY <1>0, <2>1, <2>2, BeforeNamed
  <1>3. ASSUME NEW id \in TicksIn(t, s, n, k) PROVE id \in U
    <2>1. PICK i \in 1 .. k : id = <<<<t, s>>, <<n, i>>>>
      BY <1>3 DEF TicksIn
    <2>2. Runs(t, s, n) /\ k = Ticks[t][ty]
      BY <2>1
    <2>3. n \in 0 .. HeapEnd
      BY <1>0, <2>2 DEF Runs
    <2>4. id \in TicksOf(t, ty)
      BY <2>1, <2>2, <2>3, NamedTicks
    <2>5. QED
      BY <1>0, <2>1, <2>4, BeforeNamed
  <1>4. QED
    BY <1>1, <1>2, <1>3

\* When no window from n on is used, the stage is over.
LEMMA StageOver ==
    ASSUME NEW t \in Tests, NEW ty \in PassTypes, NEW s \in Nat, NEW n \in Nat,
           \A m \in Nat : m >= n => ~Used(t, m)
    PROVE  TicksBefore(t, ty, s, n) = TicksBefore(t, ty, s + 1, 0)
  <1>0. HeapEnd \in Nat /\ Stages[t] \in Nat /\ Ticks[t][ty] \in Nat
    BY StageCount, TickCount, TestLoopAssumption
  <1>1. ASSUME NEW id \in TicksOf(t, ty)
        PROVE  id \in TicksBefore(t, ty, s, n) <=> id \in TicksBefore(t, ty, s + 1, 0)
    <2>1. PICK r \in 0 .. Stages[t] - 1, m \in 0 .. HeapEnd, i \in 1 .. Ticks[t][ty] :
                 id = <<<<t, r>>, <<m, i>>>>
      BY <1>1, TickName
    <2>2. Used(t, m)
      BY <1>1, <2>1, NamedTicks DEF Runs
    <2>3. m < n
      BY <1>0, <2>2
    <2>4. r < s \/ (r = s /\ m < n) <=> r < s + 1 \/ (r = s + 1 /\ m < 0)
      BY <1>0, <2>3
    <2>5. QED
      BY <1>1, <2>1, <2>4, BeforeNamed
  <1>2. QED
    BY <1>1, BeforeOf

LEMMA StageEnd ==
    ASSUME NEW t \in Tests, NEW ty \in PassTypes, NEW s \in Nat, NEW n \in Nat
    PROVE  TicksBefore(t, ty, s, n) \subseteq TicksBefore(t, ty, s + 1, 0)
  <1> SUFFICES ASSUME NEW id \in TicksBefore(t, ty, s, n)
               PROVE  id \in TicksBefore(t, ty, s + 1, 0)
    OBVIOUS
  <1>1. PICK r \in 0 .. Stages[t] - 1, m \in 0 .. HeapEnd, i \in 1 .. Ticks[t][ty] :
               id = <<<<t, r>>, <<m, i>>>>
    BY BeforeOf, TickName
  <1>2. id \in TicksOf(t, ty) /\ (r < s \/ r = s)
    BY <1>1, BeforeNamed
  <1>3. r < s + 1
    BY <1>2, StageCount
  <1>4. QED
    BY <1>1, <1>2, <1>3, BeforeNamed

LEMMA AllStages ==
    ASSUME NEW t \in Tests, NEW ty \in PassTypes
    PROVE  TicksBefore(t, ty, Stages[t], 0) = TicksOf(t, ty)
  <1>1. ASSUME NEW id \in TicksOf(t, ty) PROVE id \in TicksBefore(t, ty, Stages[t], 0)
    <2>1. PICK r \in 0 .. Stages[t] - 1, m \in 0 .. HeapEnd, i \in 1 .. Ticks[t][ty] :
                 id = <<<<t, r>>, <<m, i>>>>
      BY <1>1, TickName
    <2>2. r < Stages[t]
      BY StageCount
    <2>3. QED
      BY <1>1, <2>1, <2>2, BeforeNamed
  <1>2. QED
    BY <1>1, BeforeOf

LEMMA TicksInCount ==
    ASSUME NEW t, NEW s, NEW n, NEW k \in Nat
    PROVE  IsFiniteSet(TicksIn(t, s, n, k)) /\ Cardinality(TicksIn(t, s, n, k)) = k
  <1> DEFINE f == [i \in 1 .. k |-> <<<<t, s>>, <<n, i>>>>]
             T == TicksIn(t, s, n, k)
  <1>1. f \in [1 .. k -> T]
    BY DEF TicksIn
  <1>2. \A i, j \in 1 .. k : f[i] = f[j] => i = j
    OBVIOUS
  <1>3. \A id \in T : \E i \in 1 .. k : f[i] = id
    BY DEF TicksIn
  <1>4. f \in Bijection(1 .. k, T)
    BY <1>1, <1>2, <1>3, Fun_IsBij
  <1>5. ExistsBijection(1 .. k, T)
    BY <1>4 DEF ExistsBijection
  <1>6. QED
    BY <1>5, FS_CountingElements, FS_NatBijection

\* What is made in a window is new.
LEMMA NewTicks ==
    ASSUME NEW t, NEW ty, NEW s \in Int, NEW n \in Int, NEW k
    PROVE  TicksBefore(t, ty, s, n) \cap TicksIn(t, s, n, k) = {}
  <1> SUFFICES ASSUME NEW id \in TicksBefore(t, ty, s, n), id \in TicksIn(t, s, n, k)
               PROVE  FALSE
    OBVIOUS
  <1>1. PICK i \in 1 .. k : id = <<<<t, s>>, <<n, i>>>>
    BY DEF TicksIn
  <1>2. QED
    BY <1>1, BeforeNamed

-----------------------------------------------------------------------------
(***************************************************************************)
(* Which windows are used.                                                 *)
(***************************************************************************)
LEMMA WindowFirst ==
    ASSUME NEW n \in Nat, NEW lo, NEW hi, IsWindow(n, lo, hi)
    PROVE  lo = First(n) /\ hi = Beyond(n)
  BY DEF IsWindow, First, Beyond

LEMMA MoreWindows ==
    ASSUME NEW a \in Nat, NEW b \in Nat, a <= b
    PROVE  a * VM_WINDOW_SIZE <= b * VM_WINDOW_SIZE /\ a <= a * VM_WINDOW_SIZE
           /\ a * VM_WINDOW_SIZE \in Nat /\ b * VM_WINDOW_SIZE \in Nat
  <1>1. VM_WINDOW_SIZE \in Nat \ {0}
    BY VmemAssumption
  <1>2. b * VM_WINDOW_SIZE = a * VM_WINDOW_SIZE + (b - a) * VM_WINDOW_SIZE
    BY <1>1
  <1>3. (b - a) * VM_WINDOW_SIZE \in Nat
    BY <1>1
  <1>4. a * VM_WINDOW_SIZE = a + a * (VM_WINDOW_SIZE - 1) /\ a * (VM_WINDOW_SIZE - 1) \in Nat
    BY <1>1
  <1>5. QED
    BY <1>1, <1>2, <1>3, <1>4

LEMMA FirstGrows ==
    ASSUME NEW n \in Nat, NEW m \in Nat, n < m
    PROVE  /\ First(n) \in Nat /\ Beyond(n) \in Nat /\ First(m) \in Nat
           /\ Beyond(n) <= First(m)
  <1>1. VM_WINDOW_SIZE \in Nat /\ LowPages \in Nat /\ LowPages <= VM_WINDOW_SIZE
    BY VmemAssumption, TestLoopAssumption
  <1>2. m - 1 \in Nat /\ n <= m - 1
    OBVIOUS
  <1>3. n * VM_WINDOW_SIZE <= (m - 1) * VM_WINDOW_SIZE
        /\ n * VM_WINDOW_SIZE \in Nat /\ (m - 1) * VM_WINDOW_SIZE \in Nat
    BY <1>2, MoreWindows
  <1>4. CASE m = 1
    BY <1>1, <1>4 DEF First, Beyond
  <1>5. CASE m # 1
    <2>1. First(m) = (m - 1) * VM_WINDOW_SIZE
      BY <1>5 DEF First
    <2>2. 1 * VM_WINDOW_SIZE <= (m - 1) * VM_WINDOW_SIZE
      BY <1>5, <1>2, MoreWindows
    <2>3. CASE n = 0
      BY <1>1, <1>3, <2>1, <2>2, <2>3 DEF First, Beyond
    <2>4. CASE n # 0
      <3>1. (n - 1) * VM_WINDOW_SIZE \in Nat
        BY <2>4, MoreWindows
      <3>2. QED
        BY <1>1, <1>3, <2>1, <2>4, <3>1 DEF First, Beyond
    <2>5. QED
      BY <2>3, <2>4
  <1>6. QED
    BY <1>4, <1>5

LEMMA UsedInHeap ==
    ASSUME TypeOK, NEW t, NEW n \in Nat, Used(t, n)
    PROVE  First(n) < HeapEnd /\ n <= HeapEnd
  <1>1. First(n) \in Nat /\ Beyond(n) \in Nat
    BY FirstGrows, n < n + 1, n + 1 \in Nat
  <1>2. First(n) < HeapEnd
    BY <1>1, TestLoopAssumption DEF Used, LoOf, HiOf, Larger, Smaller, TypeOK
  <1>3. n >= 2 => n - 1 <= First(n)
    BY MoreWindows DEF First
  <1>4. QED
    BY <1>1, <1>2, <1>3, TestLoopAssumption

\* Once a window reaches the end of the heap, no later one is used.
LEMMA NoneAfter ==
    ASSUME TypeOK, NEW t, NEW n \in Nat, Beyond(n) >= HeapEnd
    PROVE  \A m \in Nat : m >= n + 1 => ~Used(t, m)
  <1> SUFFICES ASSUME NEW m \in Nat, m >= n + 1, Used(t, m) PROVE FALSE
    OBVIOUS
  <1>1. First(m) < HeapEnd
    BY UsedInHeap
  <1>2. Beyond(n) <= First(m) /\ Beyond(n) \in Nat /\ First(m) \in Nat
    BY FirstGrows
  <1>3. QED
    BY <1>1, <1>2, TestLoopAssumption

-----------------------------------------------------------------------------
(***************************************************************************)
(* The invariant.  While no restart is asked for, enabled and the limits   *)
(* are what they were when the dummy run began.                            *)
(***************************************************************************)
UsedBelow(n) == \E m \in 0 .. n - 1 : Used(test_num, m)

\* What run_test finds in a window: the low one is not skipped for the limit.
LowInv ==
    ~restart /\ pc \in {"mapped", "run"} /\ window_num = 0 => pm_limit_lower < LOW_LOAD_LIMIT

\* A dummy run tests nothing; a test makes the ticks it began with.
RunInv == pc = "run" => ~dummy_run /\ (~bail => ticks_left <= RunTicks)

\* last_stage tells whether the bit fade test ran in a window of this stage:
\* it was left by another stage, unless the test finds no memory at all.
Fresh == test_stage = 0 \/ last_stage # test_stage \/ ~UsedBelow(HeapEnd + 1)

LastInv ==
    ~restart /\ ~bail /\ test_num = FadeTest /\ test_num \in enabled =>
        /\ pc \in {"windows", "mapped", "run"} =>
             IF UsedBelow(window_num) THEN last_stage = test_stage ELSE Fresh
        /\ pc = "top" /\ start = "rerun" => Fresh
        /\ pc = "tested" /\ UsedBelow(HeapEnd + 1) => last_stage = test_stage

\* The ticks the running test has made so far.
InTest == pc # "halted" /\ (pc = "banner" \/ start \in {"rerun", "none"})

Made ==
    CASE pc \in {"windows", "mapped"} -> TicksBefore(test_num, PassType, test_stage, window_num)
      [] pc = "run" -> TicksBefore(test_num, PassType, test_stage, window_num)
                         \cup TicksIn(test_num, test_stage, window_num, RunTicks - ticks_left)
      [] pc = "tested" -> TicksBefore(test_num, PassType, test_stage + 1, 0)
      [] OTHER -> TicksBefore(test_num, PassType, test_stage, 0)

\* A skip makes an estimate too small; without a key it is exact.
Counts(x, S) == x <= Cardinality(S) /\ (Keys = {} => x = Cardinality(S))

Counting ==
    ~restart /\ InTest /\ test_num \in enabled /\ (dummy_run \/ (bail => pc = "banner"))

CountInv ==
    Counting => IF dummy_run THEN Counts(ticks_per_test[pass_num][test_num], Made)
                             ELSE test_ticks = Cardinality(Made)

\* The estimates that are complete.
Counted(t, ty) ==
    \/ ~dummy_run
    \/ start # "run" /\ ty < pass_num
    \/ start \in {"test", "rerun", "none"} /\ ty = pass_num /\ t < test_num

DoneInv ==
    ~restart => \A ty \in PassTypes, t \in enabled :
        Counted(t, ty) => Counts(ticks_per_test[ty][t], TicksOf(t, ty))

QuietInv == Keys = {} => ~restart /\ ~bail

LoopInv == IInv /\ StageInv /\ LowInv /\ RunInv /\ LastInv /\ QuietInv
TickInv == LoopInv /\ CountInv /\ DoneInv

-----------------------------------------------------------------------------
(***************************************************************************)
(* What a step leaves alone.                                               *)
(***************************************************************************)
LEMMA Steady ==
    ASSUME TypeInv, [Next]_vars, ~restart', ~HonourRestart
    PROVE  ~restart /\ UNCHANGED <<enabled, pm_limit_lower, pm_limit_upper>>
  <1>0. restart \in BOOLEAN
    BY DEF TypeInv, TypeOK
  <1>1. CASE ConfigMenu
    BY <1>0, <1>1 DEF ConfigMenu
  <1>2. CASE Escape \/ StartRun \/ StartPass \/ StartTest \/ RerunTest \/ LeaveOnBail
             \/ SetupWindow \/ SkipWindow \/ DummyTest
    BY <1>2 DEF Escape, StartRun, StartPass, StartTest, RerunTest, LeaveOnBail,
                SetupWindow, SkipWindow, DummyTest, configVars
  <1>3. CASE ClearBail \/ BeginTest \/ Tick \/ EndTest \/ NextStage
    BY <1>3 DEF ClearBail, BeginTest, Tick, EndTest, NextStage, configVars
  <1>4. CASE NextTest \/ EndDummyRun \/ NextPass \/ Halted \/ UNCHANGED vars
    BY <1>4 DEF NextTest, EndDummyRun, NextPass, PassOver, TestOver, Halted, vars, configVars
  <1>5. QED
    BY <1>1, <1>2, <1>3, <1>4 DEF Next, Program, Input

LEMMA SameWindows ==
    ASSUME UNCHANGED <<pm_limit_lower, pm_limit_upper>>
    PROVE  /\ \A t, n : Used(t, n)' = Used(t, n)
           /\ \A t, ty : TicksOf(t, ty)' = TicksOf(t, ty)
           /\ \A t, ty, s, n : TicksBefore(t, ty, s, n)' = TicksBefore(t, ty, s, n)
  <1>1. ASSUME NEW t, NEW n PROVE Used(t, n)' = Used(t, n)
    BY DEF Used
  <1>2. ASSUME NEW t, NEW s, NEW n PROVE Runs(t, s, n)' = Runs(t, s, n)
    BY <1>1 DEF Runs
  <1>3. ASSUME NEW t, NEW ty PROVE TicksOf(t, ty)' = TicksOf(t, ty)
    BY <1>2 DEF TicksOf
  <1>4. ASSUME NEW t, NEW ty, NEW s, NEW n
        PROVE  TicksBefore(t, ty, s, n)' = TicksBefore(t, ty, s, n)
    BY <1>3 DEF TicksBefore
  <1>5. QED
    BY <1>1, <1>3, <1>4

\* A visit to the menu after which nothing is asked of the loop.
LEMMA IdleMenu ==
    ASSUME TypeInv, ConfigMenu, ~restart'
    PROVE  /\ UNCHANGED <<pc, flowVars, windowVars, runVars, tickVars>>
           /\ UNCHANGED <<enabled, pm_limit_lower, pm_limit_upper, restart>>
           /\ ~bail' => ~bail
           /\ Keys # {}
  BY DEF ConfigMenu, TypeInv, TypeOK

LEMMA NextQuietInv == TypeInv /\ QuietInv /\ [Next]_vars => QuietInv'
<1> SUFFICES ASSUME TypeInv, QuietInv, [Next]_vars, Keys = {} PROVE ~restart' /\ ~bail'
  BY DEF QuietInv
<1>0. ~restart /\ ~bail
  BY DEF QuietInv
<1>1. CASE ConfigMenu \/ Escape
  BY <1>1 DEF ConfigMenu, Escape
<1>2. CASE StartRun \/ StartPass \/ StartTest \/ RerunTest \/ LeaveOnBail
           \/ SetupWindow \/ SkipWindow \/ DummyTest
  BY <1>0, <1>2 DEF StartRun, StartPass, StartTest, RerunTest, LeaveOnBail,
                SetupWindow, SkipWindow, DummyTest, configVars
<1>3. CASE ClearBail \/ BeginTest \/ Tick \/ EndTest \/ NextStage \/ HonourRestart
  BY <1>0, <1>3 DEF ClearBail, BeginTest, Tick, EndTest, NextStage, HonourRestart, configVars
<1>4. CASE NextTest \/ EndDummyRun \/ NextPass \/ Halted \/ UNCHANGED vars
  BY <1>0, <1>4 DEF NextTest, EndDummyRun, NextPass, PassOver, TestOver, Halted, vars, configVars
<1>5. QED
  BY <1>1, <1>2, <1>3, <1>4 DEF Next, Program, Input

LEMMA NextLowInv == TypeInv /\ LowInv /\ [Next]_vars => LowInv'
<1> SUFFICES ASSUME TypeInv, LowInv, [Next]_vars PROVE LowInv'
  OBVIOUS
<1> USE DEF LowInv
<1>1. CASE pc' \notin {"mapped", "run"}
  BY <1>1
<1>2. CASE SetupWindow
  <2>1. window_num' = WindowNum /\ pm_limit_lower' = pm_limit_lower
    BY <1>2 DEF SetupWindow, configVars
  <2>2. WindowNum = 0 => pm_limit_lower < LOW_LOAD_LIMIT
    BY TestLoopAssumption DEF WindowNum, TypeInv, TypeOK
  <2>3. QED
    BY <2>1, <2>2
<1>3. CASE BeginTest \/ Tick
  BY <1>3 DEF BeginTest, Tick, configVars, windowVars
<1>4. CASE ConfigMenu
  <2>1. ~restart' => UNCHANGED <<pc, window_num, pm_limit_lower, restart>>
    BY <1>4, IdleMenu DEF windowVars
  <2>2. QED
    BY <2>1
<1>5. CASE UNCHANGED vars
  BY <1>5 DEF vars, configVars, windowVars
<1>6. RerunTest \/ SkipWindow \/ DummyTest \/ EndTest => pc' \notin {"mapped", "run"}
  BY DEF RerunTest, SkipWindow, DummyTest, EndTest, AfterWindow
<1>7. QED
  BY <1>1, <1>2, <1>3, <1>4, <1>5, <1>6, StepsOutside DEF Outside

LEMMA NextRunInv == TypeInv /\ RunInv /\ [Next]_vars => RunInv'
<1> SUFFICES ASSUME TypeInv, RunInv, [Next]_vars, pc' = "run"
             PROVE  ~dummy_run' /\ (~bail' => ticks_left' <= RunTicks')
  BY DEF RunInv
<1>0. pc \in {"mapped", "run"} => RunTicks \in Nat
  BY TicksAreNat DEF TypeInv, IndexInRange, FlowInv
<1>1. CASE BeginTest
  <2>1. ~dummy_run /\ ticks_left' = RunTicks /\ pc = "mapped"
        /\ UNCHANGED <<flowVars, last_stage>>
    BY <1>1 DEF BeginTest
  <2>2. RunTicks' = RunTicks
    BY <2>1 DEF RunTicks, PassType, flowVars
  <2>3. QED
    BY <1>0, <2>1, <2>2 DEF flowVars
<1>2. CASE Tick
  <2>1. /\ pc = "run" /\ bail' = bail /\ ticks_left > 0 /\ UNCHANGED <<flowVars, last_stage>>
        /\ ~bail => ticks_left' = ticks_left - 1
    BY <1>2 DEF Tick, configVars
  <2>2. RunTicks' = RunTicks
    BY <2>1 DEF RunTicks, PassType, flowVars
  <2>3. QED
    BY <1>0, <2>1, <2>2 DEF RunInv, flowVars, TypeInv, TypeOK
<1>3. CASE ConfigMenu
  <2>1. /\ UNCHANGED <<pc, flowVars, ticks_left, last_stage>>
        /\ ~bail' => ~bail
    BY <1>3 DEF ConfigMenu, runVars
  <2>2. RunTicks' = RunTicks
    BY <2>1 DEF RunTicks, PassType, flowVars
  <2>3. QED
    BY <2>1, <2>2 DEF RunInv, flowVars
<1>4. CASE UNCHANGED vars
  <2>1. UNCHANGED <<pc, flowVars, ticks_left, last_stage, bail>>
    BY <1>4 DEF vars, runVars, configVars
  <2>2. RunTicks' = RunTicks
    BY <2>1 DEF RunTicks, PassType, flowVars
  <2>3. QED
    BY <2>1, <2>2 DEF RunInv, flowVars
<1>5. RerunTest \/ SetupWindow \/ SkipWindow \/ DummyTest \/ EndTest => pc' # "run"
  BY DEF RerunTest, SetupWindow, SkipWindow, DummyTest, EndTest, AfterWindow
<1>6. QED
  BY <1>1, <1>2, <1>3, <1>4, <1>5, StepsOutside DEF Outside

-----------------------------------------------------------------------------
(***************************************************************************)
(* The windows the loop sets up are those that are used.                   *)
(***************************************************************************)
LEMMA MappedUsed ==
    ASSUME TypeInv, WindowInv, SelectInv, MapInv, LowInv, ~restart,
           pc = "mapped" \/ (pc = "run" /\ ~bail)
    PROVE  Used(test_num, window_num) <=> num_mapped_pages > 0
  <1> DEFINE lo == LoOf(window_start, pm_limit_lower)
             hi == HiOf(window_end, pm_limit_upper)
  <1>1. window_start = First(window_num) /\ window_end = Beyond(window_num)
    BY WindowFirst DEF WindowInv, TypeInv, TypeOK
  <1>2. Mapped(lo, hi) /\ (window_num = 0 => Stages[test_num] = 1)
    BY DEF SelectInv
  <1>3. window_num = 0 => pm_limit_lower < LOW_LOAD_LIMIT
    BY DEF LowInv
  <1>4. lo \in Nat /\ hi \in Nat
    BY TestLoopAssumption DEF TypeInv, TypeOK, LoOf, HiOf, Larger, Smaller
  <1>5. Used(test_num, window_num) <=> lo < hi
    BY <1>1, <1>2, <1>3 DEF Used
  <1> HIDE DEF lo, hi
  <1>6. QED
    BY <1>2, <1>4, <1>5 DEF Mapped

LEMMA WindowOver ==
    ASSUME TypeInv, WindowInv, pc \in {"mapped", "run"}, ~(window_end < HeapEnd), NEW t
    PROVE  \A m \in Nat : m >= window_num + 1 => ~Used(t, m)
  <1>1. window_end = Beyond(window_num) /\ window_num \in Nat
    BY WindowFirst DEF WindowInv, TypeInv, TypeOK
  <1>2. Beyond(window_num) >= HeapEnd
    BY <1>1, TestLoopAssumption DEF TypeInv, TypeOK
  <1>3. QED
    BY <1>1, <1>2, NoneAfter DEF TypeInv

\* The window that SetupWindow leaves out is one the test would not use.
LEMMA LowSkipped ==
    ASSUME TypeInv, pc = "windows"
    PROVE  \/ WindowNum = window_num
           \/ WindowNum = 1 /\ window_num = 0 /\ ~Used(test_num, 0)
  <1>1. test_num \in Tests
    BY DEF TypeInv, FlowInv, IndexInRange
  <1>2. Stages[test_num] \in Nat \ {0} /\ pm_limit_lower \in Nat /\ LOW_LOAD_LIMIT \in Nat
    BY <1>1, StageCount, TestLoopAssumption DEF TypeInv, TypeOK
  <1>3. QED
    BY <1>2 DEF WindowNum, Used

-----------------------------------------------------------------------------
(***************************************************************************)
(* The stage the bit fade test remembers.                                  *)
(***************************************************************************)
LEMMA UsedBelowNext ==
    ASSUME NEW n \in Nat
    PROVE  UsedBelow(n + 1) <=> UsedBelow(n) \/ Used(test_num, n)
  <1>1. 0 .. (n + 1) - 1 = (0 .. n - 1) \cup {n}
    OBVIOUS
  <1>2. QED
    BY <1>1 DEF UsedBelow

LEMMA UsedBelowEnd ==
    ASSUME TypeOK, NEW n \in Nat, \A m \in Nat : m >= n => ~Used(test_num, m)
    PROVE  UsedBelow(HeapEnd + 1) => UsedBelow(n)
  <1> SUFFICES ASSUME NEW m \in 0 .. HeapEnd, Used(test_num, m) PROVE UsedBelow(n)
    BY TestLoopAssumption DEF UsedBelow
  <1>1. m \in 0 .. n - 1
    BY TestLoopAssumption
  <1>2. QED
    BY <1>1 DEF UsedBelow

\* The end of a window in which last_stage was noted if the test ran there.
LEMMA LastWindowDone ==
    ASSUME LoopInv, pc \in {"mapped", "run"}, ~restart, ~bail,
           test_num = FadeTest, test_num \in enabled, [Next]_vars,
           UNCHANGED <<test_num, test_stage, start, enabled, pm_limit_lower, pm_limit_upper>>,
           window_num' = window_num + 1, pc' = AfterWindow,
           IF Used(test_num, window_num) THEN last_stage' = test_stage
                                         ELSE last_stage' = last_stage
    PROVE  LastInv'
  <1> DEFINE n == window_num
  <1>0. n \in Nat /\ TypeInv /\ WindowInv /\ TypeOK /\ HeapEnd \in Nat /\ start = "none"
    BY TestLoopAssumption DEF LoopInv, IInv, TypeInv, TypeOK, FlowInv
  <1>1. IF UsedBelow(n) THEN last_stage = test_stage ELSE Fresh
    BY DEF LoopInv, LastInv
  <1>2. IF UsedBelow(n + 1) THEN last_stage' = test_stage
                            ELSE Fresh /\ last_stage' = last_stage
    BY <1>0, <1>1, UsedBelowNext
  <1>3. \A m : UsedBelow(m)' = UsedBelow(m)
    BY SameWindows DEF UsedBelow
  <1>4. (last_stage' = last_stage /\ Fresh) => Fresh'
    BY <1>3 DEF Fresh
  <1>5. CASE pc' = "windows"
    <2>1. IF UsedBelow(window_num)' THEN last_stage' = test_stage' ELSE Fresh'
      BY <1>2, <1>3, <1>4
    <2>2. QED
      BY <1>5, <2>1 DEF LastInv
  <1>6. CASE pc' = "tested" /\ ~(window_end < HeapEnd)
    <2>1. UsedBelow(HeapEnd + 1) => UsedBelow(n + 1)
      BY <1>0, <1>6, WindowOver, UsedBelowEnd
    <2>2. UsedBelow(HeapEnd + 1)' => last_stage' = test_stage'
      BY <1>2, <1>3, <2>1
    <2>3. QED
      BY <1>0, <1>6, <2>2 DEF LastInv
  <1>7. QED
    BY <1>5, <1>6 DEF AfterWindow

LEMMA NextLastInv ==
    ASSUME LoopInv, [Next]_vars
    PROVE  LastInv'
<1> SUFFICES ASSUME ~restart', ~bail', test_num' = FadeTest, test_num' \in enabled'
             PROVE  LastInv'
  BY DEF LastInv
<1>0. TypeInv /\ TypeOK /\ StageInv /\ WindowInv /\ SelectInv /\ MapInv /\ LowInv /\ BailInv
  BY DEF LoopInv, IInv, TypeInv
<1>1. CASE HonourRestart
  BY <1>1 DEF HonourRestart, LastInv
<1>2. CASE ~HonourRestart
  <2>0. ~restart /\ UNCHANGED <<enabled, pm_limit_lower, pm_limit_upper>>
    BY <1>0, <1>2, Steady
  <2>1. (\A m : Used(test_num, m)' = Used(test_num, m)) \/ test_num' # test_num
    BY <2>0, SameWindows
  <2>2. test_num' = test_num => \A m : UsedBelow(m)' = UsedBelow(m)
    BY <2>1 DEF UsedBelow
  <2>3. CASE UNCHANGED <<pc, start, test_num, test_stage, window_num, last_stage, bail>>
    <3>1. Fresh' = Fresh
      BY <2>2, <2>3 DEF Fresh
    <3>2. UsedBelow(window_num)' = UsedBelow(window_num)
          /\ UsedBelow(HeapEnd + 1)' = UsedBelow(HeapEnd + 1)
      BY <2>2, <2>3
    <3>3. QED
      BY <2>0, <2>3, <3>1, <3>2 DEF LoopInv, LastInv
  <2>4. CASE ConfigMenu
    <3>1. UNCHANGED <<pc, start, test_num, test_stage, window_num, last_stage>>
          /\ ~bail
      BY <1>0, <2>4, IdleMenu DEF flowVars, windowVars, runVars
    <3>2. bail \in BOOLEAN /\ bail' \in BOOLEAN
      BY <1>0, NextTypeInv DEF TypeInv, TypeOK
    <3>3. QED
      BY <2>3, <3>1, <3>2
  <2>5. CASE Escape \/ StartRun \/ StartPass \/ StartTest
    BY <2>5 DEF Escape, StartRun, StartPass, StartTest, flowVars, LastInv
  <2>6. CASE ClearBail
    <3>1. test_stage' = 0 /\ pc' = "top"
      BY <1>0, <2>6 DEF ClearBail, StageInv
    <3>2. Fresh'
      BY <3>1 DEF Fresh
    <3>3. QED
      BY <3>1, <3>2 DEF LastInv
  <2>7. CASE RerunTest
    <3>1. /\ pc = "top" /\ start = "rerun" /\ pc' = "windows" /\ window_num' = 0
          /\ UNCHANGED <<test_num, test_stage, last_stage, bail, enabled>>
      BY <2>7 DEF RerunTest, configVars
    <3>2. Fresh
      BY <2>0, <3>1 DEF LoopInv, LastInv
    <3>3. Fresh'
      BY <2>2, <3>1, <3>2 DEF Fresh
    <3>4. ~UsedBelow(window_num)'
      BY <3>1 DEF UsedBelow
    <3>5. QED
      BY <3>1, <3>3, <3>4 DEF LastInv
  <2>8. CASE LeaveOnBail
    BY <2>8 DEF LeaveOnBail, configVars
  <2>9. CASE SetupWindow
    <3>1. /\ pc = "windows" /\ ~bail /\ pc' = "mapped" /\ window_num' = WindowNum
          /\ UNCHANGED <<test_num, test_stage, last_stage, bail>>
      BY <2>9 DEF SetupWindow, flowVars, configVars, runVars
    <3>2. IF UsedBelow(window_num) THEN last_stage = test_stage ELSE Fresh
      BY <2>0, <3>1 DEF LoopInv, LastInv
    <3>3. UsedBelow(WindowNum) = UsedBelow(window_num)
      <4>1. CASE WindowNum = window_num
        BY <4>1
      <4>2. CASE WindowNum = 1 /\ window_num = 0 /\ ~Used(test_num, 0)
        BY <4>2 DEF UsedBelow
      <4>3. QED
        BY <1>0, <3>1, <4>1, <4>2, LowSkipped
    <3>4. Fresh' = Fresh
      BY <2>2, <3>1 DEF Fresh
    <3>5. UsedBelow(window_num)' = UsedBelow(window_num)
      BY <2>2, <3>1, <3>3
    <3>6. QED
      BY <3>1, <3>2, <3>4, <3>5 DEF LastInv
  <2>10. CASE SkipWindow
    <3>1. /\ pc = "mapped" /\ num_mapped_pages = 0
          /\ window_num' = window_num + 1 /\ pc' = AfterWindow
          /\ UNCHANGED <<test_num, test_stage, start, last_stage>>
      BY <2>10 DEF SkipWindow, flowVars, runVars
    <3>2. ~Used(test_num, window_num)
      BY <1>0, <2>0, <3>1, MappedUsed
    <3>3. ~bail
      BY <1>0, <3>1 DEF BailInv
    <3>4. QED
      BY <2>0, <3>1, <3>2, <3>3, LastWindowDone
  <2>11. CASE DummyTest \/ EndTest
    <3>1. /\ pc \in {"mapped", "run"} /\ num_mapped_pages > 0
          /\ window_num' = window_num + 1 /\ pc' = AfterWindow
          /\ UNCHANGED <<test_num, test_stage, start, bail>> /\ NoteStage
      BY <1>0, <2>11 DEF DummyTest, EndTest, MapInv, flowVars, configVars
    <3>2. ~bail
      BY <3>1
    <3>3. Used(test_num, window_num)
      BY <1>0, <2>0, <3>1, <3>2, MappedUsed
    <3>4. QED
      BY <2>0, <3>1, <3>2, <3>3, LastWindowDone DEF NoteStage
  <2>12. CASE BeginTest \/ Tick
    <3>1. /\ pc \in {"mapped", "run"} /\ pc' = "run"
          /\ UNCHANGED <<test_num, test_stage, window_num, last_stage, bail>>
      BY <2>12 DEF BeginTest, Tick, flowVars, configVars, windowVars
    <3>2. IF UsedBelow(window_num) THEN last_stage = test_stage ELSE Fresh
      BY <2>0, <3>1 DEF LoopInv, LastInv
    <3>3. Fresh' = Fresh /\ UsedBelow(window_num)' = UsedBelow(window_num)
      BY <2>2, <3>1 DEF Fresh
    <3>4. QED
      BY <3>1, <3>2, <3>3 DEF LastInv
  <2>13. CASE NextStage
    <3>1. /\ pc = "tested" /\ test_stage' = test_stage + 1 /\ pc' = "top"
          /\ UNCHANGED <<test_num, last_stage, bail>> /\ test_stage \in Nat
      BY <1>0, <2>13 DEF NextStage, configVars, runVars, TypeOK
    <3>2. UsedBelow(HeapEnd + 1) => last_stage = test_stage
      BY <2>0, <3>1 DEF LoopInv, LastInv
    <3>3. Fresh'
      BY <2>2, <3>1, <3>2 DEF Fresh
    <3>4. QED
      BY <3>1, <3>3 DEF LastInv
  <2>14. CASE NextTest \/ EndDummyRun \/ NextPass
    BY <2>14 DEF NextTest, EndDummyRun, NextPass, PassOver, TestOver, LastInv
  <2>15. CASE Halted \/ UNCHANGED vars
    BY <2>3, <2>15 DEF Halted, vars, flowVars, windowVars, runVars, configVars
  <2>16. QED
    BY <1>2, <2>4, <2>5, <2>6, <2>7, <2>8, <2>9, <2>10, <2>11, <2>12, <2>13, <2>14, <2>15
       DEF Next, Program, Input
<1>3. QED
  BY <1>1, <1>2

LEMMA NextLoopInv == LoopInv /\ [Next]_vars => LoopInv'
  BY NextIInv, NextStageInv, NextLowInv, NextRunInv, NextLastInv, NextQuietInv
     DEF LoopInv, IInv

-----------------------------------------------------------------------------
(***************************************************************************)
(* The ticks made so far, step by step.                                    *)
(***************************************************************************)
\* In a window that is used, run_test makes the ticks that have names there.
LEMMA RunTicksNamed ==
    ASSUME LoopInv, ~restart, test_num \in enabled,
           pc = "mapped" \/ (pc = "run" /\ ~bail), Used(test_num, window_num)
    PROVE  RunTicks = IF Runs(test_num, test_stage, window_num)
                        THEN Ticks[test_num][PassType] ELSE 0
  <1> DEFINE n == window_num
  <1>0. TypeInv /\ TypeOK /\ BailInv /\ n \in Nat /\ HeapEnd \in Nat
    BY TestLoopAssumption DEF LoopInv, IInv, TypeInv, TypeOK
  <1>1. ~bail
    BY <1>0 DEF BailInv
  <1>2. CASE Waits(test_num, test_stage)
    <2>1. IF UsedBelow(n) THEN last_stage = test_stage ELSE Fresh
      BY <1>1, <1>2 DEF LoopInv, LastInv, Waits
    <2>2. UsedBelow(HeapEnd + 1)
      <3>1. n \in 0 .. (HeapEnd + 1) - 1
        BY <1>0, UsedInHeap
      <3>2. QED
        BY <3>1 DEF UsedBelow
    <2>3. test_stage # 0
      BY <1>2, TestLoopAssumption DEF Waits
    <2>4. last_stage = test_stage <=> UsedBelow(n)
      BY <2>1, <2>2, <2>3 DEF Fresh
    <2>5. Runs(test_num, test_stage, n) <=> ~UsedBelow(n)
      BY <1>2 DEF Runs, UsedBelow
    <2>6. QED
      BY <1>2, <2>4, <2>5 DEF RunTicks, Waits
  <1>3. CASE ~Waits(test_num, test_stage)
    BY <1>3 DEF Runs, RunTicks, Waits
  <1>4. QED
    BY <1>2, <1>3

LEMMA MadeAt ==
    /\ pc \in {"windows", "mapped"} =>
         Made = TicksBefore(test_num, PassType, test_stage, window_num)
    /\ pc = "run" =>
         Made = TicksBefore(test_num, PassType, test_stage, window_num)
                  \cup TicksIn(test_num, test_stage, window_num, RunTicks - ticks_left)
    /\ pc = "tested" => Made = TicksBefore(test_num, PassType, test_stage + 1, 0)
    /\ pc \in {"top", "banner"} => Made = TicksBefore(test_num, PassType, test_stage, 0)
  BY DEF Made

\* What holds of the running test.
LEMMA InTestFacts ==
    ASSUME LoopInv, InTest, test_num \in enabled
    PROVE  /\ TypeOK /\ test_num \in Tests /\ PassType \in PassTypes
           /\ test_stage \in 0 .. Stages[test_num] - 1 /\ window_num \in Nat
           /\ dummy_run => pass_num \in PassTypes /\ PassType = pass_num
           /\ RunTicks \in Nat
           /\ start \in {"test", "rerun", "none"}
  <1>1. TypeOK /\ TypeInv /\ FlowInv /\ IndexInRange /\ StageInv
    BY DEF LoopInv, IInv, TypeInv
  <1>2. start \in {"test", "rerun", "none"}
    BY <1>1 DEF InTest, FlowInv
  <1>3. test_num \in Tests
    BY <1>1, <1>2 DEF IndexInRange
  <1>4. test_stage \in Nat /\ test_stage < Stages[test_num] /\ Stages[test_num] \in Nat \ {0}
    BY <1>1, <1>3, StageCount DEF StageInv, InTest, TypeOK
  <1>5. PassType \in PassTypes
    BY DEF PassType, PassTypes, NUM_PASS_TYPES
  <1>6. dummy_run => pass_num \in PassTypes /\ PassType = pass_num
    BY <1>1, <1>2 DEF IndexInRange, PassType, PassTypes, NUM_PASS_TYPES, TypeOK
  <1>7. RunTicks \in Nat
    BY <1>1, <1>3, TicksAreNat
  <1>8. QED
    BY <1>1, <1>2, <1>3, <1>4, <1>5, <1>6, <1>7 DEF TypeOK

\* The end of a window: k ticks were made there.
LEMMA WindowMade ==
    ASSUME LoopInv, ~restart, pc \in {"mapped", "run"}, ~bail, test_num \in enabled, [Next]_vars,
           UNCHANGED <<test_num, test_stage, pass_num, pm_limit_lower, pm_limit_upper>>,
           window_num' = window_num + 1, pc' = AfterWindow
    PROVE  Made' = TicksBefore(test_num, PassType, test_stage, window_num)
                     \cup TicksIn(test_num, test_stage, window_num,
                                  IF Used(test_num, window_num) THEN RunTicks ELSE 0)
  <1> DEFINE n == window_num
             t == test_num
             s == test_stage
  <1>0. TypeInv /\ WindowInv /\ InTest /\ test_num \in Tests /\ PassType \in PassTypes
        /\ s \in 0 .. Stages[t] - 1 /\ n \in Nat /\ TypeOK /\ s \in Nat
    <2>1. InTest
      BY DEF LoopInv, IInv, TypeInv, FlowInv, InTest
    <2>2. QED
      BY <2>1, InTestFacts DEF LoopInv, IInv, TypeOK
  <1>1. PassType' = PassType
    BY DEF PassType
  <1>2. Used(t, n) => n <= HeapEnd
    BY <1>0, UsedInHeap
  <1>3. TicksBefore(t, PassType, s, n + 1) =
          TicksBefore(t, PassType, s, n)
            \cup TicksIn(t, s, n, IF Runs(t, s, n) THEN Ticks[t][PassType] ELSE 0)
    BY <1>0, <1>2, WindowTicks
  <1>4. (IF Runs(t, s, n) THEN Ticks[t][PassType] ELSE 0)
          = (IF Used(t, n) THEN RunTicks ELSE 0)
    <2>1. CASE Used(t, n)
      BY <2>1, RunTicksNamed
    <2>2. CASE ~Used(t, n)
      BY <2>2 DEF Runs
    <2>3. QED
      BY <2>1, <2>2
  <1>5. Made' = TicksBefore(t, PassType, s, n + 1)
    <2>1. CASE pc' = "windows"
      <3>1. Made' = TicksBefore(test_num, PassType, test_stage, window_num)'
        BY <2>1 DEF Made
      <3>2. QED
        BY <1>1, <3>1, SameWindows
    <2>2. CASE pc' = "tested" /\ ~(window_end < HeapEnd)
      <3>1. Made' = TicksBefore(test_num, PassType, test_stage + 1, 0)'
        BY <2>2 DEF Made
      <3>2. Made' = TicksBefore(t, PassType, s + 1, 0)
        BY <1>1, <3>1, SameWindows
      <3>3. \A m \in Nat : m >= n + 1 => ~Used(t, m)
        BY <1>0, <2>2, WindowOver
      <3>4. TicksBefore(t, PassType, s, n + 1) = TicksBefore(t, PassType, s + 1, 0)
        BY <1>0, <3>3, StageOver
      <3>5. QED
        BY <3>2, <3>4
    <2>3. QED
      BY <2>1, <2>2 DEF AfterWindow
  <1>6. QED
    BY <1>3, <1>4, <1>5

\* Adding the ticks of a window to those before it.
LEMMA WindowCount ==
    ASSUME LoopInv, InTest, test_num \in enabled, NEW k \in Nat
    PROVE  /\ Cardinality(TicksBefore(test_num, PassType, test_stage, window_num)) \in Nat
           /\ Cardinality(TicksBefore(test_num, PassType, test_stage, window_num)
                            \cup TicksIn(test_num, test_stage, window_num, k))
                = Cardinality(TicksBefore(test_num, PassType, test_stage, window_num)) + k
  <1> DEFINE S == TicksBefore(test_num, PassType, test_stage, window_num)
  <1>0. test_num \in Tests /\ PassType \in PassTypes /\ test_stage \in Int /\ window_num \in Int
    BY InTestFacts DEF TypeOK
  <1>1. IsFiniteSet(S) /\ Cardinality(S) \in Nat
    BY <1>0, TicksFinite, BeforeOf, FS_Subset, FS_CardinalityType
  <1>2. S \cap TicksIn(test_num, test_stage, window_num, k) = {}
    BY <1>0, NewTicks
  <1> HIDE DEF S
  <1>3. Cardinality(S \cup TicksIn(test_num, test_stage, window_num, k)) = Cardinality(S) + k
    <2> DEFINE T == TicksIn(test_num, test_stage, window_num, k)
    <2>1. IsFiniteSet(T) /\ Cardinality(T) = k
      BY TicksInCount
    <2> HIDE DEF T
    <2>2. S \cap T = {}
      BY <1>2 DEF T
    <2>3. Cardinality(S \cup T) = Cardinality(S) + Cardinality(T) - Cardinality(S \cap T)
      BY <1>1, <2>1, FS_Union
    <2>4. Cardinality(S \cap T) = 0
      BY <2>2, FS_EmptySet
    <2>5. QED
      BY <1>1, <2>1, <2>3, <2>4 DEF T
  <1>4. QED
    BY <1>1, <1>3 DEF S

(***************************************************************************)
(* A step that leads to a state where ticks are counted: what it does to   *)
(* the set of the ticks made, and what is counted for it.                  *)
(***************************************************************************)
SameCounts == UNCHANGED <<test_ticks, ticks_per_test>>

CountStep ==
    \/ Made' = Made /\ SameCounts
    \/ /\ dummy_run /\ bail /\ SameCounts
       /\ Cardinality(Made) \in Nat /\ Cardinality(Made') \in Nat
       /\ Cardinality(Made) <= Cardinality(Made')
    \/ /\ dummy_run
       /\ ticks_per_test' = [ticks_per_test EXCEPT ![pass_num][test_num] = @ + RunTicks]
       /\ RunTicks \in Nat /\ Cardinality(Made) \in Nat
       /\ Cardinality(Made') = Cardinality(Made) + RunTicks
    \/ /\ ~dummy_run
       /\ test_ticks' = test_ticks + 1
       /\ Cardinality(Made) \in Nat /\ Cardinality(Made') = Cardinality(Made) + 1

SamePlace == UNCHANGED <<test_num, test_stage, pass_num, dummy_run>>

LEMMA SkipCounts ==
    ASSUME LoopInv, [Next]_vars, Counting, SkipWindow,
           UNCHANGED <<pm_limit_lower, pm_limit_upper>>
    PROVE  CountStep
  <1>1. /\ pc = "mapped" /\ num_mapped_pages = 0 /\ SamePlace
        /\ window_num' = window_num + 1 /\ pc' = AfterWindow /\ SameCounts
    BY DEF SkipWindow, flowVars, tickVars, SamePlace, SameCounts
  <1>2. ~restart /\ test_num \in enabled /\ ~bail
        /\ ~Used(test_num, window_num)
    BY <1>1, MappedUsed DEF Counting, LoopInv, IInv, BailInv
  <1>3. Made' = TicksBefore(test_num, PassType, test_stage, window_num)
                  \cup TicksIn(test_num, test_stage, window_num, 0)
    BY <1>1, <1>2, WindowMade DEF SamePlace
  <1>4. Made' = TicksBefore(test_num, PassType, test_stage, window_num)
    BY <1>3, NoTicksIn
  <1>5. QED
    BY <1>1, <1>4, MadeAt DEF CountStep

LEMMA DummyCounts ==
    ASSUME LoopInv, [Next]_vars, Counting, DummyTest,
           UNCHANGED <<pm_limit_lower, pm_limit_upper>>
    PROVE  CountStep
  <1>1. /\ pc = "mapped" /\ num_mapped_pages > 0 /\ SamePlace /\ dummy_run
        /\ window_num' = window_num + 1 /\ pc' = AfterWindow
        /\ ticks_per_test' = [ticks_per_test EXCEPT ![pass_num][test_num] = @ + RunTicks]
    BY DEF DummyTest, flowVars, SamePlace
  <1>2. ~restart /\ test_num \in enabled /\ ~bail /\ InTest
        /\ Used(test_num, window_num)
    BY <1>1, MappedUsed DEF Counting, LoopInv, IInv, BailInv
  <1>3. Made' = TicksBefore(test_num, PassType, test_stage, window_num)
                  \cup TicksIn(test_num, test_stage, window_num, RunTicks)
    BY <1>1, <1>2, WindowMade DEF SamePlace
  <1>4. Made = TicksBefore(test_num, PassType, test_stage, window_num)
    BY <1>1, MadeAt
  <1>5. RunTicks \in Nat
    BY <1>2, InTestFacts
  <1>6. Cardinality(Made) \in Nat /\ Cardinality(Made') = Cardinality(Made) + RunTicks
    BY <1>2, <1>3, <1>4, <1>5, WindowCount
  <1>7. QED
    BY <1>1, <1>5, <1>6 DEF CountStep

LEMMA TickCounts ==
    ASSUME LoopInv, Counting, Tick, UNCHANGED <<pm_limit_lower, pm_limit_upper>>
    PROVE  CountStep
  <1> DEFINE k == RunTicks - ticks_left
  <1>1. /\ pc = "run" /\ pc' = "run" /\ SamePlace /\ UNCHANGED <<window_num, last_stage>>
        /\ test_ticks' = test_ticks + 1
    BY DEF Tick, flowVars, windowVars, SamePlace
  <1>2. ~dummy_run /\ ~bail /\ ticks_left <= RunTicks /\ InTest /\ test_num \in enabled
    BY <1>1 DEF LoopInv, RunInv, Counting
  <1>3. ticks_left' = ticks_left - 1 /\ ticks_left \in Nat /\ RunTicks \in Nat
    BY <1>2, InTestFacts DEF Tick, TypeOK
  <1>4. RunTicks' = RunTicks /\ PassType' = PassType
    BY <1>1 DEF SamePlace, RunTicks, PassType
  <1>5. k \in Nat /\ (RunTicks - ticks_left)' = k + 1
    BY <1>2, <1>3, <1>4
  <1>6. Made = TicksBefore(test_num, PassType, test_stage, window_num)
                 \cup TicksIn(test_num, test_stage, window_num, k)
    BY <1>1, MadeAt
  <1>7. Made' = TicksBefore(test_num, PassType, test_stage, window_num)
                  \cup TicksIn(test_num, test_stage, window_num, k + 1)
    <2>1. Made' = TicksBefore(test_num, PassType, test_stage, window_num)'
                    \cup TicksIn(test_num, test_stage, window_num, RunTicks - ticks_left)'
      BY <1>1 DEF Made
    <2>2. TicksBefore(test_num, PassType, test_stage, window_num)'
            = TicksBefore(test_num, PassType, test_stage, window_num)
      BY <1>1, <1>4, SameWindows DEF SamePlace
    <2>3. TicksIn(test_num, test_stage, window_num, RunTicks - ticks_left)'
            = TicksIn(test_num, test_stage, window_num, k + 1)
      BY <1>1, <1>5 DEF SamePlace
    <2>4. QED
      BY <2>1, <2>2, <2>3
  <1> HIDE DEF k
  <1>8. /\ Cardinality(Made) = Cardinality(TicksBefore(test_num, PassType, test_stage, window_num)) + k
        /\ Cardinality(TicksBefore(test_num, PassType, test_stage, window_num)) \in Nat
    BY <1>2, <1>5, <1>6, WindowCount
  <1>9. Cardinality(Made')
          = Cardinality(TicksBefore(test_num, PassType, test_stage, window_num)) + (k + 1)
    <2>1. k + 1 \in Nat
      BY <1>5
    <2>2. QED
      BY <1>2, <1>7, <2>1, WindowCount
  <1>10. Cardinality(Made) \in Nat /\ Cardinality(Made') = Cardinality(Made) + 1
    BY <1>5, <1>8, <1>9
  <1>11. QED
    BY <1>1, <1>2, <1>10 DEF CountStep

LEMMA EndCounts ==
    ASSUME LoopInv, [Next]_vars, Counting, EndTest,
           UNCHANGED <<pm_limit_lower, pm_limit_upper>>
    PROVE  CountStep
  <1>1. /\ pc = "run" /\ ticks_left = 0 /\ SamePlace /\ SameCounts
        /\ window_num' = window_num + 1 /\ pc' = AfterWindow
    BY DEF EndTest, flowVars, tickVars, SamePlace, SameCounts
  <1>2. ~dummy_run /\ ~bail /\ ~restart /\ InTest /\ test_num \in enabled /\ num_mapped_pages > 0
    BY <1>1 DEF LoopInv, IInv, RunInv, MapInv, Counting
  <1>3. Used(test_num, window_num)
    BY <1>1, <1>2, MappedUsed DEF LoopInv, IInv
  <1>4. Made' = TicksBefore(test_num, PassType, test_stage, window_num)
                  \cup TicksIn(test_num, test_stage, window_num, RunTicks)
    BY <1>1, <1>2, <1>3, WindowMade DEF SamePlace
  <1>5. RunTicks - ticks_left = RunTicks
    BY <1>1, <1>2, InTestFacts
  <1>6. Made' = Made
    BY <1>1, <1>4, <1>5, MadeAt
  <1>7. QED
    BY <1>1, <1>6 DEF CountStep

LEMMA SameMade ==
    ASSUME UNCHANGED <<pc, test_num, test_stage, pass_num, window_num, last_stage, ticks_left,
                       pm_limit_lower, pm_limit_upper>>
    PROVE  Made' = Made
  <1>1. PassType' = PassType /\ RunTicks' = RunTicks
    BY DEF PassType, RunTicks
  <1>2. \A s, n : TicksBefore(test_num, PassType, s, n)' = TicksBefore(test_num, PassType, s, n)
    BY <1>1, SameWindows
  <1>3. TicksIn(test_num, test_stage, window_num, RunTicks - ticks_left)'
          = TicksIn(test_num, test_stage, window_num, RunTicks - ticks_left)
    BY <1>1 DEF TicksIn
  <1>4. QED
    BY <1>2, <1>3 DEF Made

LEMMA SetupCounts ==
    ASSUME LoopInv, Counting, SetupWindow, UNCHANGED <<pm_limit_lower, pm_limit_upper>>
    PROVE  CountStep
  <1> DEFINE t == test_num
             s == test_stage
             B(n) == TicksBefore(t, PassType, s, n)
  <1>1. /\ pc = "windows" /\ pc' = "mapped" /\ window_num' = WindowNum
        /\ SamePlace /\ SameCounts
    BY DEF SetupWindow, flowVars, tickVars, SamePlace, SameCounts
  <1>2. PassType' = PassType
    BY <1>1 DEF PassType, SamePlace
  <1>3. Made' = B(WindowNum) /\ Made = B(window_num)
    <2>1. Made' = TicksBefore(test_num, PassType, test_stage, window_num)'
      BY <1>1 DEF Made
    <2>2. QED
      BY <1>1, <1>2, <2>1, SameWindows, MadeAt DEF SamePlace
  <1>4. B(WindowNum) = B(window_num)
    <2>1. CASE WindowNum = window_num
      BY <2>1
    <2>2. CASE WindowNum = 1 /\ window_num = 0 /\ ~Used(t, 0)
      <3>1. t \in Tests /\ PassType \in PassTypes /\ s \in 0 .. Stages[t] - 1
        BY InTestFacts DEF Counting
      <3>2. ~Runs(t, s, 0)
        BY <2>2 DEF Runs
      <3>3. B(0 + 1) = B(0) \cup TicksIn(t, s, 0, 0)
        BY <2>2, <3>1, <3>2, WindowTicks
      <3>4. QED
        BY <2>2, <3>3, NoTicksIn
    <2>3. QED
      BY <1>1, <2>1, <2>2, LowSkipped DEF LoopInv, IInv
  <1>5. QED
    BY <1>1, <1>3, <1>4 DEF CountStep

LEMMA LeaveCounts ==
    ASSUME LoopInv, Counting, LeaveOnBail, UNCHANGED <<pm_limit_lower, pm_limit_upper>>,
           dummy_run
    PROVE  CountStep
  <1>1. /\ pc = "windows" /\ pc' = "tested" /\ bail /\ SamePlace /\ SameCounts
    BY DEF LeaveOnBail, flowVars, tickVars, SamePlace, SameCounts
  <1>2. PassType' = PassType
    BY <1>1 DEF PassType, SamePlace
  <1>3. test_num \in Tests /\ PassType \in PassTypes /\ test_stage \in Nat /\ window_num \in Nat
    BY InTestFacts DEF Counting, TypeOK
  <1>4. Made = TicksBefore(test_num, PassType, test_stage, window_num)
    BY <1>1, MadeAt
  <1>5. Made' = TicksBefore(test_num, PassType, test_stage + 1, 0)
    <2>1. Made' = TicksBefore(test_num, PassType, test_stage + 1, 0)'
      BY <1>1 DEF Made
    <2>2. QED
      BY <1>1, <1>2, <2>1, SameWindows DEF SamePlace
  <1>6. Made \subseteq Made'
    BY <1>3, <1>4, <1>5, StageEnd
  <1>7. IsFiniteSet(Made')
    BY <1>3, <1>5, TicksFinite, BeforeOf, FS_Subset
  <1>8. /\ Cardinality(Made) <= Cardinality(Made')
        /\ Cardinality(Made) \in Nat /\ Cardinality(Made') \in Nat
    BY <1>6, <1>7, FS_Subset, FS_CardinalityType
  <1>9. QED
    BY <1>1, <1>8 DEF CountStep

LEMMA BeginCounts ==
    ASSUME LoopInv, Counting, BeginTest, UNCHANGED <<pm_limit_lower, pm_limit_upper>>
    PROVE  CountStep
  <1>1. /\ pc = "mapped" /\ pc' = "run" /\ ticks_left' = RunTicks
        /\ UNCHANGED <<window_num, last_stage>> /\ SamePlace /\ SameCounts
    BY DEF BeginTest, flowVars, tickVars, SamePlace, SameCounts
  <1>2. PassType' = PassType /\ RunTicks' = RunTicks
    BY <1>1 DEF PassType, RunTicks, SamePlace
  <1>3. (RunTicks - ticks_left)' = 0
    BY <1>1, <1>2, InTestFacts DEF Counting
  <1>4. TicksIn(test_num, test_stage, window_num, RunTicks - ticks_left)' = {}
    <2>1. TicksIn(test_num, test_stage, window_num, RunTicks - ticks_left)'
            = TicksIn(test_num, test_stage, window_num, 0)
      BY <1>1, <1>3 DEF SamePlace
    <2>2. QED
      BY <2>1, NoTicksIn
  <1>5. Made' = TicksBefore(test_num, PassType, test_stage, window_num)'
    BY <1>1, <1>4 DEF Made
  <1>6. Made' = Made
    BY <1>1, <1>2, <1>5, SameWindows, MadeAt DEF SamePlace
  <1>7. QED
    BY <1>1, <1>6 DEF CountStep

\* The steps at the head of the loop, and to the next stage.
LEMMA HeadCounts ==
    ASSUME LoopInv, ClearBail \/ RerunTest \/ NextStage, test_num \in enabled,
           UNCHANGED <<pm_limit_lower, pm_limit_upper>>
    PROVE  CountStep
  <1>1. UNCHANGED <<test_num, pass_num, dummy_run>> /\ SameCounts
    BY DEF ClearBail, RerunTest, NextStage, tickVars, SameCounts
  <1>2. PassType' = PassType
    BY <1>1 DEF PassType
  <1>3. CASE ClearBail \/ RerunTest
    <2>1. /\ pc \in {"top", "banner"} /\ pc' \in {"top", "windows"}
          /\ pc' = "windows" => window_num' = 0
          /\ test_stage' = test_stage
      BY <1>3 DEF ClearBail, RerunTest
    <2>2. Made' = TicksBefore(test_num, PassType, test_stage, 0)'
      BY <2>1 DEF Made
    <2>3. Made' = Made
      BY <1>1, <1>2, <2>1, <2>2, SameWindows, MadeAt
    <2>4. QED
      BY <1>1, <2>3 DEF CountStep
  <1>4. CASE NextStage
    <2>1. pc = "tested" /\ pc' = "top" /\ test_stage' = test_stage + 1
      BY <1>4 DEF NextStage
    <2>2. Made' = TicksBefore(test_num, PassType, test_stage, 0)'
      BY <2>1 DEF Made
    <2>3. Made' = Made
      BY <1>1, <1>2, <2>1, <2>2, SameWindows, MadeAt
    <2>4. QED
      BY <1>1, <2>3 DEF CountStep
  <1>5. QED
    BY <1>3, <1>4

LEMMA CountStepHolds ==
    ASSUME LoopInv, [Next]_vars, Counting'
    PROVE  \/ StartTest
           \/ Counting /\ UNCHANGED <<test_num, pass_num, dummy_run>> /\ CountStep
<1>0. /\ TypeInv /\ FlowInv /\ TypeOK /\ TypeOK'
      /\ ~restart' /\ InTest' /\ test_num' \in enabled'
      /\ dummy_run' \/ (bail' => pc' = "banner")
  BY NextTypeInv DEF LoopInv, IInv, TypeInv, Counting
<1>1. ~HonourRestart
  BY <1>0 DEF HonourRestart, InTest
<1>2. ~restart /\ UNCHANGED <<enabled, pm_limit_lower, pm_limit_upper>>
  BY <1>0, <1>1, Steady
<1>3. CASE Escape \/ StartRun \/ StartPass \/ NextTest \/ EndDummyRun \/ NextPass
  BY <1>0, <1>3 DEF Escape, StartRun, StartPass, NextTest, EndDummyRun, NextPass, PassOver,
                    TestOver, InTest
<1>4. CASE UNCHANGED <<pc, start, test_num, test_stage, pass_num, dummy_run, window_num,
                       last_stage, ticks_left, test_ticks, ticks_per_test>>
           /\ (bail => bail')
  <2>1. InTest
    BY <1>0, <1>4 DEF InTest
  <2>2. Counting
    BY <1>0, <1>2, <1>4, <2>1 DEF Counting
  <2>3. Made' = Made
    BY <1>2, <1>4, SameMade
  <2>4. QED
    BY <1>4, <2>2, <2>3 DEF CountStep, SameCounts
<1>5. CASE ConfigMenu
  <2>1. bail => bail'
    BY <1>5 DEF ConfigMenu
  <2>2. QED
    BY <1>0, <1>4, <1>5, <2>1, IdleMenu DEF flowVars, windowVars, runVars, tickVars
<1>6. CASE Halted \/ UNCHANGED vars
  BY <1>4, <1>6 DEF Halted, vars, flowVars, windowVars, runVars, tickVars, configVars
<1>7. CASE ClearBail \/ RerunTest \/ NextStage
  <2>1. UNCHANGED <<test_num, pass_num, dummy_run>>
    BY <1>7 DEF ClearBail, RerunTest, NextStage
  <2>2. test_num \in enabled
    BY <1>0, <1>2, <2>1
  <2>3. Counting
    <3>1. CASE ClearBail
      BY <1>2, <2>2, <3>1 DEF ClearBail, Counting, InTest
    <3>2. CASE RerunTest
      BY <1>0, <1>2, <2>1, <2>2, <3>2 DEF RerunTest, Counting, InTest, configVars
    <3>3. CASE NextStage
      BY <1>0, <1>2, <2>1, <2>2, <3>3 DEF NextStage, Counting, InTest, configVars, FlowInv
    <3>4. QED
      BY <1>7, <3>1, <3>2, <3>3
  <2>4. QED
    BY <1>2, <1>7, <2>1, <2>2, <2>3, HeadCounts
<1>8. CASE \/ LeaveOnBail \/ SetupWindow \/ SkipWindow \/ DummyTest
           \/ BeginTest \/ Tick \/ EndTest
  <2>1. /\ UNCHANGED <<test_num, pass_num, dummy_run, start, bail>>
        /\ pc \in {"windows", "mapped", "run"} /\ pc' # "banner"
    BY <1>8 DEF LeaveOnBail, SetupWindow, SkipWindow, DummyTest, BeginTest, Tick, EndTest,
                AfterWindow, flowVars, configVars
  <2>2. InTest /\ start = "none"
    BY <1>0, <2>1 DEF InTest, FlowInv
  <2>3. Counting
    BY <1>0, <1>2, <2>1, <2>2 DEF Counting
  <2>4. LeaveOnBail => dummy_run
    BY <1>0, <2>1 DEF LeaveOnBail
  <2>5. CountStep
    BY <1>2, <1>8, <2>3, <2>4, LeaveCounts, SetupCounts, SkipCounts, DummyCounts,
       BeginCounts, TickCounts, EndCounts
  <2>6. QED
    BY <2>1, <2>3, <2>5
<1>9. QED
  BY <1>1, <1>3, <1>5, <1>6, <1>7, <1>8 DEF Next, Program, Input

LEMMA StartCounts ==
    ASSUME LoopInv, StartTest, Counting'
    PROVE  IF dummy_run' THEN Counts(ticks_per_test[pass_num][test_num], Made)'
                         ELSE test_ticks' = Cardinality(Made')
  <1>1. /\ pc' = "banner" /\ test_stage' = 0 /\ start = "test"
        /\ UNCHANGED <<test_num, pass_num, dummy_run, enabled, pm_limit_lower, pm_limit_upper>>
    BY DEF StartTest, configVars
  <1>2. Made' = {}
    <2>1. Made' = TicksBefore(test_num, PassType, test_stage, 0)'
      BY <1>1 DEF Made
    <2>2. PassType' = PassType
      BY <1>1 DEF PassType
    <2>3. Made' = TicksBefore(test_num, PassType, 0, 0)
      BY <1>1, <2>1, <2>2, SameWindows
    <2>4. QED
      BY <2>3, NoneBefore
  <1>3. Cardinality(Made') = 0
    BY <1>2, FS_EmptySet
  <1>4. CASE dummy_run
    <2>1. test_num \in Tests /\ pass_num \in PassTypes
          /\ ticks_per_test \in [PassTypes -> [Tests -> Nat]]
      BY <1>1, <1>4 DEF LoopInv, IInv, TypeInv, TypeOK, IndexInRange, PassTypes, NUM_PASS_TYPES
    <2>2. ticks_per_test[pass_num] \in [Tests -> Nat]
      BY <2>1
    <2>3. ticks_per_test'[pass_num][test_num] = 0
      BY <1>4, <2>1, <2>2 DEF StartTest
    <2>4. QED
      BY <1>1, <1>3, <1>4, <2>3 DEF Counts
  <1>5. CASE ~dummy_run
    <2>1. test_num \in enabled
      BY <1>1 DEF Counting
    <2>2. test_ticks' = 0
      BY <1>5, <2>1 DEF StartTest
    <2>3. QED
      BY <1>1, <1>3, <1>5, <2>2
  <1>6. QED
    BY <1>4, <1>5

LEMMA NextCountInv ==
    ASSUME LoopInv, CountInv, [Next]_vars
    PROVE  CountInv'
<1> SUFFICES ASSUME Counting'
             PROVE  IF dummy_run' THEN Counts(ticks_per_test[pass_num][test_num], Made)'
                                  ELSE test_ticks' = Cardinality(Made')
  BY DEF CountInv
<1>1. CASE StartTest
  BY <1>1, StartCounts
<1>2. CASE Counting /\ UNCHANGED <<test_num, pass_num, dummy_run>> /\ CountStep
  <2> DEFINE x == ticks_per_test[pass_num][test_num]
  <2>0. IF dummy_run THEN Counts(x, Made) ELSE test_ticks = Cardinality(Made)
    BY <1>2 DEF CountInv
  <2>1. TypeOK /\ InTest /\ test_num \in enabled /\ QuietInv
    BY <1>2 DEF LoopInv, IInv, TypeInv, Counting
  <2>2. CASE Made' = Made /\ SameCounts
    BY <1>2, <2>0, <2>2 DEF SameCounts, Counts
  <2>3. CASE dummy_run
    <3>1. test_num \in Tests /\ pass_num \in PassTypes
          /\ ticks_per_test \in [PassTypes -> [Tests -> Nat]]
      BY <2>1, <2>3, InTestFacts DEF TypeOK
    <3>2. ticks_per_test[pass_num] \in [Tests -> Nat] /\ x \in Nat
      BY <3>1
    <3>3. CASE /\ bail /\ SameCounts
               /\ Cardinality(Made) \in Nat /\ Cardinality(Made') \in Nat
               /\ Cardinality(Made) <= Cardinality(Made')
      <4>1. Keys # {}
        BY <2>1, <3>3 DEF QuietInv
      <4>2. x <= Cardinality(Made')
        BY <2>0, <2>3, <3>2, <3>3 DEF Counts
      <4>3. QED
        BY <1>2, <2>3, <3>3, <4>1, <4>2 DEF Counts, SameCounts
    <3>4. CASE /\ ticks_per_test' = [ticks_per_test EXCEPT ![pass_num][test_num] = @ + RunTicks]
               /\ RunTicks \in Nat /\ Cardinality(Made) \in Nat
               /\ Cardinality(Made') = Cardinality(Made) + RunTicks
      <4>1. ticks_per_test'[pass_num][test_num] = x + RunTicks
        BY <3>1, <3>2, <3>4
      <4>2. Counts(x, Made)
        BY <2>0, <2>3
      <4>3. x + RunTicks <= Cardinality(Made') /\ (Keys = {} => x + RunTicks = Cardinality(Made'))
        BY <3>2, <3>4, <4>2 DEF Counts
      <4>4. QED
        BY <1>2, <2>3, <4>1, <4>3 DEF Counts
    <3>5. QED
      BY <1>2, <2>2, <2>3, <3>3, <3>4 DEF CountStep
  <2>4. CASE ~dummy_run
    BY <1>2, <2>0, <2>2, <2>4 DEF CountStep
  <2>5. QED
    BY <2>3, <2>4
<1>3. QED
  BY <1>1, <1>2, CountStepHolds

-----------------------------------------------------------------------------
(***************************************************************************)
(* The estimates that are complete count all ticks of their test.          *)
(***************************************************************************)
\* At the end of a test all its ticks have been made.
LEMMA AllMade ==
    ASSUME LoopInv, pc = "tested", test_num \in enabled, test_stage + 1 >= Stages[test_num]
    PROVE  Made = TicksOf(test_num, PassType)
  <1>1. InTest
    BY DEF LoopInv, IInv, TypeInv, FlowInv, InTest
  <1>2. /\ test_num \in Tests /\ PassType \in PassTypes
        /\ test_stage \in 0 .. Stages[test_num] - 1
    BY <1>1, InTestFacts
  <1>3. test_stage + 1 = Stages[test_num]
    BY <1>2, StageCount
  <1>4. QED
    BY <1>2, <1>3, MadeAt, AllStages

LEMMA TestDone ==
    ASSUME LoopInv, CountInv, TestOver, dummy_run, test_num \in enabled
    PROVE  /\ Counts(ticks_per_test[pass_num][test_num], TicksOf(test_num, pass_num))
           /\ pass_num \in PassTypes
  <1>1. pc = "tested" /\ ~restart /\ InTest
    BY DEF TestOver, LoopInv, IInv, TypeInv, FlowInv, InTest
  <1>2. Counts(ticks_per_test[pass_num][test_num], Made)
    BY <1>1 DEF CountInv, Counting
  <1>3. Made = TicksOf(test_num, PassType)
    BY <1>1, AllMade DEF TestOver
  <1>4. PassType = pass_num /\ pass_num \in PassTypes
    BY <1>1, InTestFacts
  <1>5. QED
    BY <1>2, <1>3, <1>4

\* Which estimates become complete.
LEMMA CountedStep ==
    ASSUME LoopInv, [Next]_vars, ~HonourRestart,
           NEW ty \in PassTypes, NEW t \in enabled, Counted(t, ty)'
    PROVE  \/ Counted(t, ty)
           \/ TestOver /\ dummy_run /\ t = test_num /\ ty = pass_num
  <1>0. TypeInv /\ TypeOK /\ FlowInv /\ IndexInRange /\ t \in Tests /\ ty \in 0 .. 1
        /\ NUM_TEST_PATTERNS \in Nat
    BY TestLoopAssumption
       DEF LoopInv, IInv, TypeInv, TypeOK, PassTypes, NUM_PASS_TYPES
  <1>1. CASE UNCHANGED flowVars
    BY <1>1 DEF flowVars, Counted
  <1>2. CASE StartRun \/ StartPass \/ StartTest
    BY <1>0, <1>2 DEF StartRun, StartPass, StartTest, Counted, Tests
  <1>3. CASE ClearBail \/ RerunTest \/ NextStage
    BY <1>0, <1>3 DEF ClearBail, RerunTest, NextStage, Counted, FlowInv
  <1>4. CASE \/ LeaveOnBail \/ SetupWindow \/ SkipWindow \/ DummyTest
             \/ BeginTest \/ Tick \/ EndTest
    BY <1>1, <1>4 DEF LeaveOnBail, SetupWindow, SkipWindow, DummyTest, BeginTest, Tick, EndTest
  <1>5. CASE Input \/ Halted \/ UNCHANGED vars
    BY <1>1, <1>5 DEF Input, ConfigMenu, Escape, Halted, vars
  <1>6. CASE NextTest
    BY <1>0, <1>6 DEF NextTest, TestOver, Counted, FlowInv, IndexInRange, Tests, TypeOK
  <1>7. CASE EndDummyRun \/ NextPass
    <2>1. /\ start = "none" /\ test_num \in Tests /\ pass_num \in Nat /\ TestOver
          /\ test_num + 1 >= NUM_TEST_PATTERNS
      BY <1>0, <1>7 DEF EndDummyRun, NextPass, PassOver, TestOver, FlowInv, IndexInRange, TypeOK
    <2>2. t < test_num \/ t = test_num
      BY <1>0, <2>1 DEF Tests
    <2>3. dummy_run => ty < pass_num \/ ty = pass_num
      <3>1. CASE EndDummyRun
        <4>1. pass_num + 1 = 2
          BY <3>1 DEF EndDummyRun, NUM_PASS_TYPES
        <4>2. QED
          BY <1>0, <2>1, <4>1
      <3>2. CASE NextPass /\ dummy_run
        <4>1. ty < pass_num' /\ dummy_run'
          BY <3>2 DEF NextPass, Counted
        <4>2. pass_num < 2 /\ pass_num + 1 # 2 /\ MaxPass >= 2 /\ MaxPass \in Nat
          BY <2>1, <3>2, <1>0, TestLoopAssumption DEF NextPass, IndexInRange, NUM_PASS_TYPES
        <4>3. pass_num' = Smaller(pass_num + 1, MaxPass)
          BY <3>2 DEF NextPass
        <4>4. pass_num' = pass_num + 1
          BY <2>1, <4>2, <4>3 DEF Smaller
        <4>5. QED
          BY <1>0, <2>1, <4>1, <4>4
      <3>3. QED
        BY <1>7, <3>1, <3>2
    <2>4. QED
      BY <1>0, <2>1, <2>2, <2>3 DEF Counted
  <1>8. QED
    BY <1>2, <1>3, <1>4, <1>5, <1>6, <1>7 DEF Next, Program

LEMMA EstimateKept ==
    ASSUME LoopInv, [Next]_vars, NEW ty \in PassTypes, NEW t \in Tests, Counted(t, ty)'
    PROVE  ticks_per_test'[ty][t] = ticks_per_test[ty][t]
  <1>1. CASE StartTest \/ DummyTest
    <2>1. TypeOK /\ test_num \in Tests /\ pass_num \in Nat
          /\ UNCHANGED <<start, pass_num, test_num, dummy_run>>
      BY <1>1 DEF StartTest, DummyTest, flowVars, LoopInv, IInv, TypeInv, FlowInv,
                  IndexInRange, TypeOK
    <2>2. CASE dummy_run
      <3>1. ~(ty = pass_num /\ t = test_num)
        BY <2>1, <2>2 DEF Counted, PassTypes, NUM_PASS_TYPES, Tests
      <3>2. \E x : ticks_per_test' = [ticks_per_test EXCEPT ![pass_num][test_num] = x]
        BY <1>1, <2>2 DEF StartTest, DummyTest
      <3>3. ticks_per_test \in [PassTypes -> [Tests -> Nat]] /\ ticks_per_test[ty] \in [Tests -> Nat]
        BY <2>1 DEF TypeOK
      <3>4. QED
        BY <3>1, <3>2, <3>3
    <2>3. CASE ~dummy_run
      BY <1>1, <2>3 DEF StartTest, DummyTest
    <2>4. QED
      BY <2>2, <2>3
  <1>2. CASE StartRun \/ StartPass \/ ClearBail \/ RerunTest \/ LeaveOnBail \/ SetupWindow
    BY <1>2 DEF StartRun, StartPass, ClearBail, RerunTest, LeaveOnBail, SetupWindow, tickVars
  <1>3. CASE SkipWindow \/ BeginTest \/ Tick \/ EndTest \/ HonourRestart \/ NextStage
    BY <1>3 DEF SkipWindow, BeginTest, Tick, EndTest, HonourRestart, NextStage, tickVars
  <1>4. CASE NextTest \/ EndDummyRun \/ NextPass
    BY <1>4 DEF NextTest, EndDummyRun, NextPass, PassOver, TestOver
  <1>5. CASE Input \/ Halted \/ UNCHANGED vars
    BY <1>5 DEF Input, ConfigMenu, Escape, Halted, vars, tickVars
  <1>6. QED
    BY <1>1, <1>2, <1>3, <1>4, <1>5 DEF Next, Program

LEMMA NextDoneInv ==
    ASSUME LoopInv, CountInv, DoneInv, [Next]_vars
    PROVE  DoneInv'
<1> SUFFICES ASSUME ~restart', NEW ty \in PassTypes, NEW t \in enabled', Counted(t, ty)'
             PROVE  Counts(ticks_per_test[ty][t], TicksOf(t, ty))'
  BY DEF DoneInv
<1>1. ~HonourRestart
  BY TestLoopAssumption DEF HonourRestart, Counted, PassTypes, NUM_PASS_TYPES
<1>2. TypeInv /\ ~restart /\ UNCHANGED <<enabled, pm_limit_lower, pm_limit_upper>>
  BY <1>1, Steady DEF LoopInv, IInv
<1>3. t \in Tests /\ t \in enabled
  BY <1>2 DEF TypeInv, TypeOK
<1>4. ticks_per_test'[ty][t] = ticks_per_test[ty][t]
  BY <1>3, EstimateKept
<1>5. TicksOf(t, ty)' = TicksOf(t, ty)
  BY <1>2, SameWindows
<1>6. Counts(ticks_per_test[ty][t], TicksOf(t, ty))
  <2>1. CASE Counted(t, ty)
    BY <1>2, <1>3, <2>1 DEF DoneInv
  <2>2. CASE TestOver /\ dummy_run /\ t = test_num /\ ty = pass_num
    BY <1>3, <2>2, TestDone
  <2>3. QED
    BY <1>1, <1>3, <2>1, <2>2, CountedStep
<1>7. QED
  BY <1>4, <1>5, <1>6 DEF Counts

-----------------------------------------------------------------------------
LEMMA InitTickInv == Init => TickInv
<1> SUFFICES ASSUME Init PROVE TickInv
  OBVIOUS
<1>1. IInv /\ StageInv
  BY InitIInv, InitStageInv
<1>2. pc = "top" /\ start = "run" /\ dummy_run /\ ~restart /\ ~bail
  BY DEF Init
<1>3. LowInv /\ RunInv /\ LastInv /\ QuietInv
  BY <1>2 DEF LowInv, RunInv, LastInv, QuietInv
<1>4. CountInv /\ DoneInv
  BY <1>2 DEF CountInv, Counting, InTest, DoneInv, Counted
<1>5. QED
  BY <1>1, <1>3, <1>4 DEF TickInv, LoopInv

LEMMA NextTickInv == TickInv /\ [Next]_vars => TickInv'
  BY NextLoopInv, NextCountInv, NextDoneInv DEF TickInv

LEMMA AlwaysTickInv == Spec => []TickInv
  BY InitTickInv, NextTickInv, PTL DEF Spec

\* A complete test has made all its ticks, and they are what the estimate counts.
LEMMA CompleteTest ==
    ASSUME TickInv, TestComplete
    PROVE  /\ test_num \in enabled /\ test_num \in Tests /\ PassType \in PassTypes
           /\ test_ticks = Cardinality(TicksOf(test_num, PassType))
           /\ Counts(ticks_per_test[PassType][test_num], TicksOf(test_num, PassType))
  <1>1. LoopInv /\ pc = "tested" /\ InTest /\ test_num \in enabled
    BY DEF TickInv, TestComplete, LoopInv, IInv, TypeInv, FlowInv, InTest
  <1>2. test_num \in Tests /\ PassType \in PassTypes /\ Stages[test_num] \in Nat
    BY <1>1, InTestFacts, StageCount
  <1>3. Made = TicksOf(test_num, PassType)
    BY <1>1, <1>2, AllMade DEF TestComplete
  <1>4. test_ticks = Cardinality(Made)
    BY <1>1 DEF TickInv, CountInv, Counting, TestComplete
  <1>5. Counted(test_num, PassType)
    BY DEF Counted, TestComplete
  <1>6. QED
    BY <1>1, <1>2, <1>3, <1>4, <1>5 DEF TickInv, DoneInv, TestComplete

(***************************************************************************)
(* The bar of a test that ran to its end is full: for every heap, limit,   *)
(* selection, number of stages and ticks, and however often the user       *)
(* skipped, restarted or changed the settings in either run.               *)
(***************************************************************************)
THEOREM BarFills == Spec => []BarCompletes
<1>1. TickInv => BarCompletes
  <2> SUFFICES ASSUME TickInv, TestComplete
               PROVE  test_ticks >= ticks_per_test[PassType][test_num]
    BY DEF BarCompletes
  <2>1. test_ticks \in Nat /\ ticks_per_test[PassType][test_num] \in Nat
    <3>1. ticks_per_test \in [PassTypes -> [Tests -> Nat]] /\ test_ticks \in Nat
      BY DEF TickInv, LoopInv, IInv, TypeInv, TypeOK
    <3>2. ticks_per_test[PassType] \in [Tests -> Nat]
      BY <3>1, CompleteTest
    <3>3. QED
      BY <3>1, <3>2, CompleteTest
  <2>2. QED
    BY <2>1, CompleteTest DEF Counts
<1>2. QED
  BY <1>1, AlwaysTickInv, PTL

-----------------------------------------------------------------------------
(***************************************************************************)
(* The ticks of a pass.  Without a key no restart and no skip disturbs     *)
(* the dummy run, and the bar of the pass is exact.                        *)
(***************************************************************************)
LEMMA BelowNone ==
    ASSUME NEW ty
    PROVE  TicksBelow(0, ty) = {}
  BY DEF TicksBelow

LEMMA BelowFinite ==
    ASSUME TypeOK, NEW t \in Nat, NEW ty \in PassTypes
    PROVE  IsFiniteSet(TicksBelow(t, ty))
  <1> DEFINE E == enabled \cap (0 .. t - 1)
             F == {TicksOf(u, ty) : u \in E}
             f == [u \in E |-> TicksOf(u, ty)]
  <1>1. IsFiniteSet(E)
    <2>1. IsFiniteSet(0 .. t - 1)
      <3>1. 0 \in Int /\ t - 1 \in Int
        OBVIOUS
      <3>2. QED
        BY ONLY <3>1, FS_Interval
    <2>2. E \in SUBSET (0 .. t - 1)
      OBVIOUS
    <2>3. QED
      BY <2>1, <2>2, FS_Subset
  <1>2. f \in Surjection(E, F)
    BY DEF Surjection
  <1>3. IsFiniteSet(F)
    BY <1>1, <1>2, FS_Surjection
  <1>4. \A T \in F : IsFiniteSet(T)
    BY TicksFinite DEF TypeOK
  <1>5. IsFiniteSet(UNION F)
    BY <1>3, <1>4, FS_UNION
  <1>6. QED
    BY <1>5 DEF TicksBelow

LEMMA BelowNext ==
    ASSUME TypeOK, NEW t \in Tests, NEW ty \in PassTypes
    PROVE  /\ Cardinality(TicksBelow(t, ty)) \in Nat
           /\ Cardinality(TicksBelow(t + 1, ty)) =
                Cardinality(TicksBelow(t, ty))
                  + IF t \in enabled THEN Cardinality(TicksOf(t, ty)) ELSE 0
  <1> DEFINE B == TicksBelow(t, ty)
             T == TicksOf(t, ty)
  <1>0. t \in Nat /\ 0 .. (t + 1) - 1 = (0 .. t - 1) \cup {t}
    BY TestLoopAssumption DEF Tests
  <1>1. TicksBelow(t + 1, ty) = IF t \in enabled THEN B \cup T ELSE B
    BY <1>0 DEF TicksBelow
  <1>2. B \cap T = {}
    <2> SUFFICES ASSUME NEW id \in B, id \in T PROVE FALSE
      OBVIOUS
    <2>1. PICK u \in enabled \cap (0 .. t - 1) : id \in TicksOf(u, ty)
      BY DEF TicksBelow
    <2>2. id[1][1] = u /\ id[1][1] = t
      BY <2>1, TickName
    <2>3. QED
      BY <1>0, <2>2
  <1>3. IsFiniteSet(B) /\ IsFiniteSet(T) /\ Cardinality(B) \in Nat /\ Cardinality(T) \in Nat
    BY <1>0, BelowFinite, TicksFinite, FS_CardinalityType
  <1> HIDE DEF B, T
  <1>4. Cardinality(B \cup T) = Cardinality(B) + Cardinality(T)
    <2>1. Cardinality(B \cup T) = Cardinality(B) + Cardinality(T) - Cardinality(B \cap T)
      BY <1>3, FS_Union
    <2>2. Cardinality(B \cap T) = 0
      BY <1>2, FS_EmptySet
    <2>3. QED
      BY <1>3, <2>1, <2>2
  <1>5. QED
    BY <1>1, <1>3, <1>4 DEF B, T

InPass == start \in {"test", "rerun", "none"}

PassInv ==
    Keys = {} =>
        /\ pc \in {"windows", "mapped", "run"} => test_num \in enabled
        /\ dummy_run /\ InPass =>
             /\ ticks_per_pass[pass_num] = Cardinality(TicksBelow(test_num, pass_num))
             /\ InTest /\ test_num \notin enabled => ticks_per_test[pass_num][test_num] = 0
        /\ ~dummy_run /\ InPass =>
             pass_ticks = Cardinality(TicksBelow(test_num, PassType))
                            + IF InTest /\ test_num \in enabled THEN test_ticks ELSE 0
        /\ \A ty \in PassTypes :
             ~dummy_run \/ (start # "run" /\ ty < pass_num) =>
                 ticks_per_pass[ty] = Cardinality(TicksBelow(NUM_TEST_PATTERNS, ty))

LEMMA QuietStep ==
    ASSUME LoopInv, [Next]_vars, Keys = {}
    PROVE  /\ ~Input /\ ~HonourRestart
           /\ UNCHANGED <<enabled, pm_limit_lower, pm_limit_upper>>
           /\ \A t, ty : TicksBelow(t, ty)' = TicksBelow(t, ty)
  <1>1. ~Input
    BY DEF Input, ConfigMenu, Escape
  <1>2. ~restart /\ ~restart'
    BY NextLoopInv DEF LoopInv, QuietInv
  <1>3. ~HonourRestart
    BY <1>2 DEF HonourRestart
  <1>4. UNCHANGED <<enabled, pm_limit_lower, pm_limit_upper>>
    BY <1>2, <1>3, Steady DEF LoopInv, IInv
  <1>5. \A t, ty : TicksOf(t, ty)' = TicksOf(t, ty)
    BY <1>4, SameWindows
  <1>6. ASSUME NEW t, NEW ty PROVE TicksBelow(t, ty)' = TicksBelow(t, ty)
    BY <1>4, <1>5 DEF TicksBelow
  <1>7. QED
    BY <1>1, <1>3, <1>4, <1>6

\* The end of a test, selected or not.
LEMMA TestOverBelow ==
    ASSUME TickInv, PassInv, Keys = {}, TestOver
    PROVE  /\ start = "none" /\ test_num \in Tests /\ pass_num \in Nat
           /\ dummy_run => /\ pass_num \in PassTypes
                           /\ ticks_per_pass' = [ticks_per_pass EXCEPT
                                ![pass_num] = Cardinality(TicksBelow(test_num + 1, pass_num))]
           /\ ~dummy_run => UNCHANGED ticks_per_pass
           /\ UNCHANGED <<test_ticks, pass_ticks, ticks_per_test>>
  <1>0. /\ LoopInv /\ TypeOK /\ start = "none" /\ test_num \in Tests /\ pass_num \in Nat
        /\ pc = "tested" /\ ~restart /\ InTest /\ InPass
    BY DEF TickInv, LoopInv, IInv, TypeInv, TypeOK, FlowInv, IndexInRange, TestOver,
           InTest, InPass
  <1>1. CASE dummy_run
    <2>1. pass_num \in PassTypes
      BY <1>0, <1>1 DEF LoopInv, IInv, TypeInv, IndexInRange, PassTypes, NUM_PASS_TYPES
    <2>2. ticks_per_pass[pass_num] = Cardinality(TicksBelow(test_num, pass_num))
      BY <1>0, <1>1 DEF PassInv
    <2>3. ticks_per_test[pass_num][test_num] =
            IF test_num \in enabled THEN Cardinality(TicksOf(test_num, pass_num)) ELSE 0
      BY <1>0, <1>1, TestDone DEF PassInv, Counts, TickInv
    <2>4. ticks_per_pass[pass_num] + ticks_per_test[pass_num][test_num]
            = Cardinality(TicksBelow(test_num + 1, pass_num))
      BY <1>0, <2>1, <2>2, <2>3, BelowNext
    <2>5. QED
      BY <1>0, <1>1, <2>1, <2>4 DEF TestOver
  <1>2. CASE ~dummy_run
    BY <1>0, <1>2 DEF TestOver
  <1>3. QED
    BY <1>1, <1>2

LEMMA TestOverMade ==
    ASSUME TickInv, PassInv, Keys = {}, TestOver, ~dummy_run
    PROVE  pass_ticks = Cardinality(TicksBelow(test_num + 1, PassType))
  <1>0. /\ LoopInv /\ TypeOK /\ test_num \in Tests /\ PassType \in PassTypes
        /\ pc = "tested" /\ ~restart /\ ~bail /\ InTest /\ InPass
    BY TestOverBelow DEF TickInv, LoopInv, IInv, TypeInv, TestOver, QuietInv, FlowInv,
           InTest, InPass, PassType, PassTypes, NUM_PASS_TYPES
  <1>1. pass_ticks = Cardinality(TicksBelow(test_num, PassType))
                       + IF test_num \in enabled THEN test_ticks ELSE 0
    BY <1>0 DEF PassInv
  <1>2. test_num \in enabled => test_ticks = Cardinality(TicksOf(test_num, PassType))
    <2> SUFFICES ASSUME test_num \in enabled
                 PROVE  test_ticks = Cardinality(TicksOf(test_num, PassType))
      OBVIOUS
    <2>1. Made = TicksOf(test_num, PassType)
      BY <1>0, AllMade DEF TestOver
    <2>2. QED
      BY <1>0, <2>1 DEF TickInv, CountInv, Counting
  <1>3. QED
    BY <1>0, <1>1, <1>2, BelowNext

LEMMA NextPassInv ==
    ASSUME TickInv, PassInv, [Next]_vars
    PROVE  PassInv'
<1> SUFFICES ASSUME Keys = {} PROVE PassInv'
  BY DEF PassInv
<1> DEFINE Below(t, ty) == Cardinality(TicksBelow(t, ty))
<1>0. /\ LoopInv /\ TypeOK /\ FlowInv /\ IndexInRange /\ TypeOK'
      /\ ticks_per_pass \in [PassTypes -> Nat] /\ NUM_TEST_PATTERNS \in Nat
  BY NextTypeInv, TestLoopAssumption DEF TickInv, LoopInv, IInv, TypeInv, TypeOK
<1>1. /\ ~Input /\ ~HonourRestart /\ enabled' = enabled
      /\ \A t, ty : TicksBelow(t, ty)' = TicksBelow(t, ty)
  BY <1>0, QuietStep
<1>2. \A t, ty : Below(t, ty)' = Below(t, ty)
  BY <1>1
<1>3. CASE StartRun
  BY <1>0, <1>1, <1>3 DEF StartRun, tickVars, PassInv, InPass, PassTypes, NUM_PASS_TYPES
<1>4. CASE StartPass
  <2>1. /\ pc' = "top" /\ start' = "test" /\ test_num' = 0 /\ start = "pass"
        /\ UNCHANGED <<dummy_run, pass_num>>
    BY <1>4 DEF StartPass
  <2>2. ~InTest' /\ PassType' = PassType
    BY <2>1 DEF InTest, PassType
  <2>3. Below(0, pass_num) = 0 /\ Below(0, PassType) = 0
    BY BelowNone, FS_EmptySet
  <2>4. CASE dummy_run
    <3>1. pass_num \in PassTypes
      BY <1>0, <2>1, <2>4 DEF IndexInRange, TypeOK, PassTypes, NUM_PASS_TYPES
    <3>2. ticks_per_pass' = [ticks_per_pass EXCEPT ![pass_num] = 0]
      BY <1>4, <2>4 DEF StartPass
    <3>3. \A ty \in PassTypes : ty < pass_num => ticks_per_pass'[ty] = ticks_per_pass[ty]
      BY <1>0, <3>1, <3>2 DEF PassTypes, NUM_PASS_TYPES
    <3>4. ticks_per_pass'[pass_num] = 0
      BY <1>0, <3>1, <3>2
    <3>5. QED
      BY <1>1, <2>1, <2>2, <2>3, <2>4, <3>3, <3>4 DEF PassInv
  <2>5. CASE ~dummy_run
    <3>1. pass_ticks' = 0 /\ UNCHANGED ticks_per_pass
      BY <1>4, <2>5 DEF StartPass
    <3>2. QED
      BY <1>1, <2>1, <2>2, <2>3, <2>5, <3>1 DEF PassInv
  <2>6. QED
    BY <2>4, <2>5
<1>5. CASE StartTest
  <2>1. /\ pc = "top" /\ start = "test" /\ pc' = "banner"
        /\ UNCHANGED <<start, dummy_run, pass_num, test_num, ticks_per_pass, pass_ticks>>
    BY <1>5 DEF StartTest
  <2>2. ~InTest /\ InTest' /\ PassType' = PassType /\ InPass /\ InPass'
    BY <2>1 DEF InTest, InPass, PassType
  <2>3. dummy_run => ticks_per_test'[pass_num][test_num] = 0
    <3> SUFFICES ASSUME dummy_run PROVE ticks_per_test'[pass_num][test_num] = 0
      OBVIOUS
    <3>1. test_num \in Tests /\ pass_num \in PassTypes
          /\ ticks_per_test \in [PassTypes -> [Tests -> Nat]]
      BY <1>0, <2>1 DEF IndexInRange, TypeOK, PassTypes, NUM_PASS_TYPES
    <3>2. ticks_per_test[pass_num] \in [Tests -> Nat]
      BY <3>1
    <3>3. QED
      BY <1>5, <3>1, <3>2 DEF StartTest
  <2>4. ~dummy_run /\ test_num \in enabled => test_ticks' = 0
    BY <1>5 DEF StartTest
  <2>5. Below(test_num, PassType) \in Nat
    <3>1. test_num \in Nat /\ PassType \in PassTypes
      BY <1>0, <2>1 DEF TypeOK, PassType, PassTypes, NUM_PASS_TYPES
    <3>2. QED
      BY <1>0, <3>1, BelowFinite, FS_CardinalityType
  <2>6. ~dummy_run => pass_ticks = Below(test_num, PassType) + 0
    BY <2>2 DEF PassInv
  <2>7. QED
    BY <1>1, <2>1, <2>2, <2>3, <2>4, <2>6 DEF PassInv
<1>6. CASE ClearBail \/ RerunTest \/ LeaveOnBail \/ SetupWindow \/ SkipWindow \/ DummyTest
           \/ BeginTest \/ EndTest \/ NextStage
  <2>1. /\ UNCHANGED <<test_num, pass_num, dummy_run, ticks_per_pass, pass_ticks, test_ticks>>
        /\ DummyTest \/ UNCHANGED ticks_per_test
    BY <1>6 DEF ClearBail, RerunTest, LeaveOnBail, SetupWindow, SkipWindow, DummyTest,
                BeginTest, EndTest, NextStage, flowVars, tickVars
  <2>2. InTest /\ InTest' /\ InPass /\ InPass' /\ start # "run" /\ start' # "run"
        /\ PassType' = PassType
    <3>1. pc # "halted" /\ pc' # "halted" /\ (pc = "banner" \/ start \in {"rerun", "none"})
          /\ start' \in {"rerun", "none"}
      BY <1>0, <1>6 DEF ClearBail, RerunTest, LeaveOnBail, SetupWindow, SkipWindow, DummyTest,
                BeginTest, EndTest, NextStage, AfterWindow, flowVars, FlowInv
    <3>2. QED
      BY <1>0, <2>1, <3>1 DEF InTest, InPass, PassType, FlowInv
  <2>3. pc' \in {"windows", "mapped", "run"} => test_num \in enabled
    BY <1>6 DEF ClearBail, RerunTest, LeaveOnBail, SetupWindow, SkipWindow, DummyTest,
                BeginTest, EndTest, NextStage, PassInv
  <2>4. DummyTest => test_num \in enabled
    BY DEF DummyTest, PassInv
  <2>5. QED
    BY <1>1, <2>1, <2>2, <2>3, <2>4 DEF PassInv
<1>7. CASE Tick
  <2>1. /\ pc = "run" /\ pc' = "run" /\ test_ticks' = test_ticks + 1
        /\ pass_ticks' = pass_ticks + 1
        /\ UNCHANGED <<start, dummy_run, pass_num, test_num, ticks_per_pass, ticks_per_test>>
    BY <1>7 DEF Tick, flowVars
  <2>2. InTest /\ InTest' /\ InPass /\ InPass' /\ PassType' = PassType
        /\ test_num \in enabled /\ ~dummy_run
    BY <1>0, <2>1 DEF InTest, InPass, PassType, FlowInv, LoopInv, RunInv, PassInv
  <2>3. Below(test_num, PassType) \in Nat /\ test_ticks \in Nat
    <3>1. test_num \in Nat /\ PassType \in PassTypes
      BY <1>0 DEF TypeOK, PassType, PassTypes, NUM_PASS_TYPES
    <3>2. QED
      BY <1>0, <3>1, BelowFinite, FS_CardinalityType DEF TypeOK
  <2>4. pass_ticks = Below(test_num, PassType) + test_ticks
    BY <2>2 DEF PassInv
  <2>5. pass_ticks' = Below(test_num, PassType) + test_ticks'
    BY <2>1, <2>3, <2>4
  <2>6. QED
    BY <1>1, <2>1, <2>2, <2>5 DEF PassInv
<1>8. CASE NextTest
  <2>1. /\ TestOver /\ pc' = "top" /\ start' = "test" /\ test_num' = test_num + 1
        /\ UNCHANGED <<dummy_run, pass_num>>
    BY <1>8 DEF NextTest, TestOver
  <2>2. ~InTest' /\ InPass' /\ PassType' = PassType
    BY <2>1 DEF InTest, InPass, PassType
  <2>3. CASE dummy_run
    <3>1. pass_num \in PassTypes
          /\ ticks_per_pass' = [ticks_per_pass EXCEPT ![pass_num] = Below(test_num + 1, pass_num)]
      BY <2>1, <2>3, TestOverBelow
    <3>2. /\ \A ty \in PassTypes : ty < pass_num => ticks_per_pass'[ty] = ticks_per_pass[ty]
          /\ ticks_per_pass'[pass_num] = Below(test_num + 1, pass_num)
      BY <1>0, <3>1 DEF PassTypes, NUM_PASS_TYPES
    <3>3. start = "none"
      BY <2>1, TestOverBelow
    <3>4. QED
      BY <1>1, <2>1, <2>2, <2>3, <3>2, <3>3 DEF PassInv
  <2>4. CASE ~dummy_run
    <3>1. /\ UNCHANGED <<ticks_per_pass, pass_ticks>>
          /\ pass_ticks = Below(test_num + 1, PassType)
      BY <2>1, <2>4, TestOverBelow, TestOverMade
    <3>2. Below(test_num + 1, PassType) + 0 = Below(test_num + 1, PassType)
      BY <1>0, <3>1 DEF TypeOK
    <3>3. QED
      BY <1>1, <2>1, <2>2, <2>4, <3>1, <3>2 DEF PassInv
  <2>5. QED
    BY <2>3, <2>4
<1>9. CASE EndDummyRun \/ NextPass
  <2>1. /\ TestOver /\ pc' = "top" /\ start' \in {"run", "pass"} /\ test_num' = test_num + 1
        /\ test_num + 1 >= NUM_TEST_PATTERNS /\ start = "none" /\ test_num \in Tests
    BY <1>9, TestOverBelow DEF EndDummyRun, NextPass, PassOver, TestOver
  <2>2. test_num + 1 = NUM_TEST_PATTERNS
    BY <1>0, <2>1 DEF Tests
  <2>3. ~InPass'
    BY <2>1 DEF InPass
  <2>4. CASE dummy_run
    <3>1. pass_num \in PassTypes
          /\ ticks_per_pass' = [ticks_per_pass EXCEPT ![pass_num] = Below(test_num + 1, pass_num)]
      BY <2>1, <2>4, TestOverBelow
    <3>2. /\ \A ty \in PassTypes : ty < pass_num => ticks_per_pass'[ty] = ticks_per_pass[ty]
          /\ ticks_per_pass'[pass_num] = Below(NUM_TEST_PATTERNS, pass_num)
      BY <1>0, <2>2, <3>1 DEF PassTypes, NUM_PASS_TYPES
    <3>3. \A ty \in PassTypes :
             ~dummy_run' \/ (start' # "run" /\ ty < pass_num') => ty < pass_num \/ ty = pass_num
      <4>1. CASE EndDummyRun
        <5>1. pass_num + 1 = 2
          BY <4>1 DEF EndDummyRun, NUM_PASS_TYPES
        <5>2. QED
          BY <3>1, <5>1 DEF PassTypes, NUM_PASS_TYPES
      <4>2. CASE NextPass
        <5>1. pass_num' = Smaller(pass_num + 1, MaxPass) /\ dummy_run'
          BY <2>4, <4>2 DEF NextPass
        <5>2. pass_num' <= pass_num + 1 /\ pass_num' \in Nat
          BY <1>0, <3>1, <5>1, TestLoopAssumption DEF Smaller, PassTypes, NUM_PASS_TYPES
        <5>3. QED
          BY <3>1, <5>1, <5>2 DEF PassTypes, NUM_PASS_TYPES
      <4>3. QED
        BY <1>9, <4>1, <4>2
    <3>4. \A ty \in PassTypes : ty < pass_num =>
             ticks_per_pass[ty] = Below(NUM_TEST_PATTERNS, ty)
      BY <2>1 DEF PassInv
    <3>5. QED
      BY <1>1, <2>1, <2>3, <3>2, <3>3, <3>4 DEF PassInv
  <2>5. CASE ~dummy_run
    <3>1. UNCHANGED ticks_per_pass
      BY <2>1, <2>5, TestOverBelow
    <3>2. QED
      BY <1>1, <2>1, <2>3, <2>5, <3>1 DEF PassInv
  <2>6. QED
    BY <2>4, <2>5
<1>10. CASE Halted \/ UNCHANGED vars
  <2>1. /\ UNCHANGED <<pc, start, dummy_run, pass_num, test_num, ticks_per_test,
                       ticks_per_pass, test_ticks, pass_ticks>>
    BY <1>10 DEF Halted, vars, flowVars, tickVars
  <2>2. InTest' = InTest /\ InPass' = InPass /\ PassType' = PassType
    BY <2>1 DEF InTest, InPass, PassType
  <2>3. QED
    BY <1>1, <2>1, <2>2 DEF PassInv
<1>11. QED
  BY <1>1, <1>3, <1>4, <1>5, <1>6, <1>7, <1>8, <1>9, <1>10 DEF Next, Program

(***************************************************************************)
(* If nobody presses a key, the ticks of every test are the ticks its      *)
(* dummy run counted, and those of every pass too: both bars are exactly   *)
(* full at the end, for every heap, selection and list of tests.           *)
(***************************************************************************)
THEOREM EstimatesExact == Keys = {} => (Spec => []EstimateExact)
<1> SUFFICES ASSUME Keys = {} PROVE Spec => []EstimateExact
  OBVIOUS
<1>1. Init => PassInv
  BY DEF Init, PassInv, InPass
<1>2. TickInv /\ PassInv => EstimateExact
  <2> SUFFICES ASSUME TickInv, PassInv, TestComplete
               PROVE  /\ test_ticks = ticks_per_test[PassType][test_num]
                      /\ enabled \cap (test_num + 1 .. NUM_TEST_PATTERNS - 1) = {} =>
                           pass_ticks = ticks_per_pass[PassType]
    BY DEF EstimateExact
  <2>1. test_ticks = ticks_per_test[PassType][test_num]
    BY CompleteTest DEF Counts
  <2>2. ASSUME enabled \cap (test_num + 1 .. NUM_TEST_PATTERNS - 1) = {}
        PROVE  pass_ticks = ticks_per_pass[PassType]
    <3>0. /\ TypeOK /\ enabled \subseteq Tests /\ NUM_TEST_PATTERNS \in Nat
          /\ InTest /\ InPass /\ ~dummy_run
      BY TestLoopAssumption
         DEF TickInv, LoopInv, IInv, TypeInv, TypeOK, FlowInv, TestComplete, InTest, InPass
    <3>1. pass_ticks = Cardinality(TicksBelow(test_num + 1, PassType))
      BY <3>0, CompleteTest, BelowNext DEF PassInv
    <3>2. enabled \cap (0 .. (test_num + 1) - 1) = enabled \cap (0 .. NUM_TEST_PATTERNS - 1)
      BY <2>2, <3>0, CompleteTest DEF Tests
    <3>3. TicksBelow(test_num + 1, PassType) = TicksBelow(NUM_TEST_PATTERNS, PassType)
      BY <3>2 DEF TicksBelow
    <3>4. ticks_per_pass[PassType] = Cardinality(TicksBelow(NUM_TEST_PATTERNS, PassType))
      BY <3>0, CompleteTest DEF PassInv
    <3>5. QED
      BY <3>1, <3>3, <3>4
  <2>3. QED
    BY <2>1, <2>2
<1>3. TickInv /\ PassInv /\ [Next]_vars => PassInv'
  BY NextPassInv
<1>4. QED
  BY <1>1, <1>2, <1>3, AlwaysTickInv, PTL DEF Spec
=============================================================================
