--------------------------- MODULE TestLoopProofs ---------------------------
(***************************************************************************)
(* Proofs about TestLoop, for every heap, window size, list of tests and   *)
(* keyboard.                                                               *)
(***************************************************************************)
EXTENDS TestLoop, TLAPS

(***************************************************************************)
(* Arithmetic of windows.                                                  *)
(***************************************************************************)
LEMMA DivMod ==
    ASSUME NEW W \in Nat \ {0}, NEW p \in Nat
    PROVE  /\ p \div W \in Nat
           /\ p % W \in 0 .. (W - 1)
           /\ p = ((p \div W) * W) + (p % W)
  BY SMT

LEMMA ModOfWindow ==
    ASSUME NEW W \in Nat \ {0}, NEW k \in Nat, NEW r \in 0 .. (W - 1)
    PROVE  (k * W + r) % W = r /\ (k * W + r) \div W = k
  BY SMT

LEMMA MappingIsNat ==
    ASSUME NEW p \in Nat
    PROVE  first_word_mapping(p) \in Nat /\ WindowOf(p) \in Nat
  <1>1. p % VM_WINDOW_SIZE \in 0 .. (VM_WINDOW_SIZE - 1) /\ p \div VM_WINDOW_SIZE \in Nat
    BY DivMod, VmemAssumption
  <1>2. QED
    BY <1>1, VmemAssumption DEF first_word_mapping, WindowOf

-----------------------------------------------------------------------------
(***************************************************************************)
(* Which flags go with which place in the loop.                            *)
(***************************************************************************)
FlowInv ==
    /\ pc = "banner" => start = "test"
    /\ pc \in {"windows", "mapped", "run", "tested"} => start = "none"

TypeInv == TypeOK /\ FlowInv /\ IndexInRange

LEMMA TicksAreNat ==
    ASSUME TypeOK, test_num \in Tests
    PROVE  RunTicks \in Nat
  <1>1. PassType \in PassTypes
    BY DEF PassType, PassTypes, NUM_PASS_TYPES
  <1>2. Ticks[test_num] \in [PassTypes -> Nat]
    BY TestLoopAssumption
  <1>3. Ticks[test_num][PassType] \in Nat
    BY <1>1, <1>2
  <1>4. QED
    BY <1>3 DEF RunTicks

LEMMA InitTypeInv == Init => TypeInv
<1> SUFFICES ASSUME Init PROVE TypeInv
  OBVIOUS
<1> USE DEF Init
<1>1. TypeOK
  <2>1. ticks_per_test \in [PassTypes -> [Tests -> Nat]] /\ ticks_per_pass \in [PassTypes -> Nat]
    OBVIOUS
  <2>2. enabled \subseteq Tests
    BY TestLoopAssumption
  <2>3. /\ pass_num \in 0 .. MaxPass
        /\ test_num \in 0 .. NUM_TEST_PATTERNS
        /\ vm_map \in [pm_base_addr : Nat, start : Nat, end : Nat]
        /\ mapped_window \in Nat
        /\ pm_limit_lower \in Nat /\ pm_limit_upper \in Nat
        /\ last_stage \in Nat \cup {-1}
    BY TestLoopAssumption DEF InitMappedWindow
  <2>4. QED
    BY <2>1, <2>2, <2>3 DEF TypeOK
<1>2. QED
  BY <1>1 DEF TypeInv, FlowInv, IndexInRange

LEMMA TestOverTicks ==
    ASSUME TypeInv, TestOver
    PROVE  ticks_per_pass' \in [PassTypes -> Nat] /\ test_num \in Tests
  <1>1. test_num \in Tests
    BY DEF TestOver, TypeInv, FlowInv, IndexInRange
  <1>2. CASE dummy_run
    <2>1. pass_num \in PassTypes
      BY <1>2 DEF TestOver, TypeInv, FlowInv, IndexInRange, TypeOK, PassTypes, NUM_PASS_TYPES
    <2>2. ticks_per_pass[pass_num] + ticks_per_test[pass_num][test_num] \in Nat
      BY <1>1, <2>1 DEF TypeInv, TypeOK
    <2>3. QED
      BY <1>1, <1>2, <2>1, <2>2 DEF TestOver, TypeInv, TypeOK
  <1>3. CASE ~dummy_run
    BY <1>1, <1>3 DEF TestOver, TypeInv, TypeOK
  <1>4. QED
    BY <1>2, <1>3

LEMMA NextTypeInv == TypeInv /\ [Next]_vars => TypeInv'
<1> SUFFICES ASSUME TypeInv, [Next]_vars PROVE TypeInv'
  OBVIOUS
<1> USE DEF TypeInv, FlowInv, IndexInRange
<1>1. CASE StartRun
  BY <1>1, TestLoopAssumption DEF StartRun, TypeOK, NUM_PASS_TYPES, flowVars, windowVars, configVars, runVars, tickVars
<1>2. CASE StartPass
  <2>1. test_num' \in Tests
    BY <1>2, TestLoopAssumption DEF StartPass, Tests
  <2>2. ticks_per_pass' \in [PassTypes -> Nat]
    BY <1>2 DEF StartPass, TypeOK
  <2>3. TypeOK'
    <3>1. test_num' \in 0 .. NUM_TEST_PATTERNS /\ pass_ticks' \in Nat
      BY <1>2, TestLoopAssumption DEF StartPass, TypeOK
    <3>2. QED
      BY <1>2, <2>2, <3>1 DEF StartPass, TypeOK, flowVars, windowVars, configVars, runVars, tickVars
  <2>4. QED
    BY <1>2, <2>1, <2>3 DEF StartPass
<1>3. CASE StartTest
  <2>1. ticks_per_test' \in [PassTypes -> [Tests -> Nat]]
    <3>1. CASE dummy_run
      <4>1. pass_num \in PassTypes
        BY <1>3, <3>1 DEF StartTest, TypeOK, PassTypes, NUM_PASS_TYPES
      <4>2. [ticks_per_test[pass_num] EXCEPT ![test_num] = 0] \in [Tests -> Nat]
        BY <4>1 DEF TypeOK
      <4>3. QED
        BY <1>3, <3>1, <4>1, <4>2 DEF StartTest, TypeOK
    <3>2. CASE ~dummy_run
      BY <1>3, <3>2 DEF StartTest, TypeOK
    <3>3. QED
      BY <3>1, <3>2
  <2>2. TypeOK'
    BY <1>3, <2>1 DEF StartTest, TypeOK, flowVars, windowVars, configVars, runVars, tickVars
  <2>3. QED
    BY <1>3, <2>2 DEF StartTest
<1>4. CASE ClearBail
  BY <1>4, TestLoopAssumption DEF ClearBail, TypeOK, flowVars, windowVars, configVars, runVars, tickVars
<1>5. CASE RerunTest
  BY <1>5, TestLoopAssumption DEF RerunTest, TypeOK, flowVars, windowVars, configVars, runVars, tickVars
<1>6. CASE LeaveOnBail
  BY <1>6, TestLoopAssumption DEF LeaveOnBail, TypeOK, flowVars, windowVars, configVars, runVars, tickVars
<1>7. CASE SetupWindow
  <2> DEFINE n == WindowNum
             ws == WindowBounds(n)[1]
             we == WindowBounds(n)[2]
             Lo == Larger(HeapStart, Larger(ws, pm_limit_lower))
             Hi == Smaller(HeapEnd, Smaller(we, pm_limit_upper))
  <2>1. n \in Nat /\ ws \in Nat /\ we \in Nat
    BY TestLoopAssumption, VmemAssumption DEF WindowNum, WindowBounds, TypeOK
  <2>2. Lo \in Nat /\ Hi \in Int
    BY <2>1, TestLoopAssumption DEF Larger, Smaller, TypeOK
  <2>3. num_mapped_pages' \in Nat /\ vm_map' \in [pm_base_addr : Nat, start : Nat, end : Nat]
    <3>1. CASE Lo < Hi
      <4>1. Hi - 1 \in Nat /\ Hi - Lo \in Nat
        BY <2>2, <3>1
      <4>2. first_word_mapping(Lo) \in Nat /\ first_word_mapping(Hi - 1) \in Nat
        BY <2>2, <4>1, MappingIsNat
      <4>3. /\ num_mapped_pages' = Hi - Lo
            /\ vm_map' = [pm_base_addr |-> Lo, start |-> first_word_mapping(Lo),
                          end |-> first_word_mapping(Hi - 1)]
        BY <1>7, <3>1 DEF SetupWindow, setup_vm_map
      <4>4. QED
        BY <2>2, <4>1, <4>2, <4>3
    <3>2. CASE ~(Lo < Hi)
      BY <1>7, <3>2 DEF SetupWindow, setup_vm_map, TypeOK
    <3>3. QED
      BY <3>1, <3>2
  <2>4. window_num' \in Nat /\ window_start' \in Nat /\ window_end' \in Nat
    BY <1>7, <2>1 DEF SetupWindow
  <2>5. TypeOK'
    BY <1>7, <2>3, <2>4 DEF SetupWindow, TypeOK, flowVars, windowVars, configVars, runVars, tickVars
  <2>6. QED
    BY <1>7, <2>5 DEF SetupWindow, flowVars, windowVars, configVars, runVars, tickVars
<1>8. CASE SkipWindow
  BY <1>8 DEF SkipWindow, AfterWindow, TypeOK, flowVars, windowVars, configVars, runVars, tickVars
<1>9. CASE DummyTest
  <2>1. test_num \in Tests /\ pass_num \in PassTypes
    BY <1>9 DEF DummyTest, TypeOK, PassTypes, NUM_PASS_TYPES
  <2>2. RunTicks \in Nat
    BY <2>1, TicksAreNat
  <2>3. ticks_per_test[pass_num][test_num] + RunTicks \in Nat
    BY <2>1, <2>2 DEF TypeOK
  <2>4. ticks_per_test' \in [PassTypes -> [Tests -> Nat]]
    BY <1>9, <2>1, <2>3 DEF DummyTest, TypeOK
  <2>5. last_stage' \in Nat \cup {-1}
    BY <1>9 DEF DummyTest, NoteStage, TypeOK
  <2>6. TypeOK'
    BY <1>9, <2>4, <2>5 DEF DummyTest, AfterWindow, TypeOK, flowVars, configVars
  <2>7. QED
    BY <1>9, <2>6 DEF DummyTest, AfterWindow, flowVars
<1>10. CASE BeginTest
  <2>1. ticks_left' \in Nat
    BY <1>10, TicksAreNat DEF BeginTest
  <2>2. WindowOf(vm_map.pm_base_addr) \in Nat /\ first_word_mapping(pm_limit_lower) \in Nat
    BY MappingIsNat DEF TypeOK
  <2>3. mapped_window' \in Nat
    BY <1>10, <2>2 DEF BeginTest, map_window, TypeOK
  <2>4. vm_map' \in [pm_base_addr : Nat, start : Nat, end : Nat]
    BY <1>10, <2>2 DEF BeginTest, TypeOK
  <2>5. TypeOK'
    BY <1>10, <2>1, <2>3, <2>4 DEF BeginTest, TypeOK, flowVars, configVars, tickVars
  <2>6. QED
    BY <1>10, <2>5 DEF BeginTest, flowVars
<1>11. CASE Tick
  BY <1>11, TestLoopAssumption DEF Tick, TypeOK, flowVars, windowVars, configVars, runVars, tickVars
<1>12. CASE EndTest
  <2>1. RunPages \subseteq Nat
    <3>1. \A v \in vm_map.start .. vm_map.end : page_of(v, mapped_window) \in Nat
      <4> SUFFICES ASSUME NEW v \in vm_map.start .. vm_map.end
                   PROVE  page_of(v, mapped_window) \in Nat
        OBVIOUS
      <4>1. v \in Nat
        BY DEF TypeOK
      <4>2. v % VM_WINDOW_SIZE \in Nat
        BY <4>1, DivMod, VmemAssumption
      <4>3. mapped_window * VM_WINDOW_SIZE \in Nat
        BY VmemAssumption DEF TypeOK
      <4>4. QED
        BY <4>1, <4>2, <4>3 DEF page_of
    <3>2. QED
      BY <3>1 DEF RunPages
  <2>2. visited' \subseteq Nat
    BY <1>12, <2>1 DEF EndTest, TypeOK
  <2>3. last_stage' \in Nat \cup {-1}
    BY <1>12 DEF EndTest, NoteStage, TypeOK
  <2>4. TypeOK'
    BY <1>12, <2>2, <2>3 DEF EndTest, AfterWindow, TypeOK, flowVars, configVars, tickVars
  <2>5. QED
    BY <1>12, <2>4 DEF EndTest, AfterWindow, flowVars
<1>13. CASE HonourRestart
  BY <1>13, TestLoopAssumption DEF HonourRestart, TypeOK, flowVars, windowVars, configVars, runVars, tickVars
<1>14. CASE NextStage
  BY <1>14, TestLoopAssumption DEF NextStage, TypeOK, flowVars, windowVars, configVars, runVars, tickVars
<1>15. CASE NextTest
  <2>1. ticks_per_pass' \in [PassTypes -> Nat] /\ test_num \in Tests
    BY <1>15, TestOverTicks DEF NextTest
  <2>2. test_stage' \in Nat
    BY <1>15 DEF NextTest, TestOver, TypeOK
  <2>3. test_num' \in 0 .. NUM_TEST_PATTERNS /\ pass_num' \in 0 .. MaxPass
    BY <1>15, <2>1, TestLoopAssumption DEF NextTest, TestOver, TypeOK, Tests, NUM_PASS_TYPES
  <2>4. TypeOK'
    BY <1>15, <2>1, <2>2, <2>3 DEF NextTest, TestOver, TypeOK, windowVars, runVars
  <2>5. QED
    <3>1. test_num' \in Tests
      BY <1>15, <2>1, TestLoopAssumption DEF NextTest, TestOver, Tests
    <3>2. QED
      BY <1>15, <2>4, <3>1 DEF NextTest, TestOver
<1>16. CASE EndDummyRun
  <2>1. ticks_per_pass' \in [PassTypes -> Nat] /\ test_num \in Tests
    BY <1>16, TestOverTicks DEF EndDummyRun, PassOver
  <2>2. test_stage' \in Nat
    BY <1>16 DEF EndDummyRun, PassOver, TestOver, TypeOK
  <2>3. test_num' \in 0 .. NUM_TEST_PATTERNS /\ pass_num' \in 0 .. MaxPass
    BY <1>16, <2>1, TestLoopAssumption DEF EndDummyRun, PassOver, TestOver, TypeOK, Tests, NUM_PASS_TYPES
  <2>4. TypeOK'
    BY <1>16, <2>1, <2>2, <2>3 DEF EndDummyRun, PassOver, TestOver, TypeOK, windowVars, runVars
  <2>5. QED
    BY <1>16, <2>1, <2>4, TestLoopAssumption DEF EndDummyRun, PassOver, TestOver, TypeOK, Tests, NUM_PASS_TYPES
<1>17. CASE NextPass
  <2>1. ticks_per_pass' \in [PassTypes -> Nat] /\ test_num \in Tests
    BY <1>17, TestOverTicks DEF NextPass, PassOver
  <2>2. test_stage' \in Nat
    BY <1>17 DEF NextPass, PassOver, TestOver, Smaller, TypeOK
  <2>3. test_num' \in 0 .. NUM_TEST_PATTERNS /\ pass_num' \in 0 .. MaxPass
    BY <1>17, <2>1, TestLoopAssumption DEF NextPass, PassOver, TestOver, Smaller, TypeOK, Tests, NUM_PASS_TYPES
  <2>4. TypeOK'
    BY <1>17, <2>1, <2>2, <2>3 DEF NextPass, PassOver, TestOver, Smaller, TypeOK, windowVars, runVars
  <2>5. QED
    <3>1. dummy_run' => pass_num' < NUM_PASS_TYPES
      BY <1>17, TestLoopAssumption
      DEF NextPass, PassOver, TestOver, Smaller, TypeOK, NUM_PASS_TYPES
    <3>2. QED
      BY <1>17, <2>4, <3>1 DEF NextPass, PassOver, TestOver
<1>18. CASE ConfigMenu
  BY <1>18, TestLoopAssumption DEF ConfigMenu, TypeOK, flowVars, windowVars, configVars, runVars, tickVars
<1>19. CASE Escape
  BY <1>19, TestLoopAssumption DEF Escape, TypeOK, flowVars, windowVars, configVars, runVars, tickVars
<1>20. CASE Halted
  BY <1>20, TestLoopAssumption DEF Halted, vars, TypeOK, flowVars, windowVars, configVars, runVars, tickVars
<1>21. CASE UNCHANGED vars
  BY <1>21 DEF vars, TypeOK, flowVars, windowVars, configVars, runVars, tickVars
<1>22. QED
  BY <1>1, <1>2, <1>3, <1>4, <1>5, <1>6, <1>7, <1>8, <1>9, <1>10, <1>11, <1>12, <1>13, <1>14, <1>15, <1>16, <1>17, <1>18, <1>19, <1>20, <1>21 DEF Next, Program, Input

-----------------------------------------------------------------------------
LEMMA AlwaysTypeInv == Spec => []TypeInv
  BY InitTypeInv, NextTypeInv, PTL DEF Spec

(***************************************************************************)
(* The variables of the loop keep their types.                             *)
(***************************************************************************)
THEOREM LoopTyped == Spec => []TypeOK
<1>1. TypeInv => TypeOK
  BY DEF TypeInv
<1>2. QED
  BY <1>1, AlwaysTypeInv, PTL

(***************************************************************************)
(* No array of the estimates is indexed out of range, nor the table of the *)
(* tests, however the restarts interrupt the dummy run.                    *)
(***************************************************************************)
THEOREM NoBadIndex == Spec => []IndexInRange
<1>1. TypeInv => IndexInRange
  BY DEF TypeInv
<1>2. QED
  BY <1>1, AlwaysTypeInv, PTL

-----------------------------------------------------------------------------
(***************************************************************************)
(* The inductive invariant of the windows.                                 *)
(***************************************************************************)

\* Where window n begins and ends.
IsWindow(n, lo, hi) ==
    \/ n = 0 /\ lo = 0 /\ hi = LowPages
    \/ n = 1 /\ lo = LowPages /\ hi = VM_WINDOW_SIZE
    \/ n >= 2 /\ lo = (n - 1) * VM_WINDOW_SIZE /\ hi = n * VM_WINDOW_SIZE

\* Windows are tested in order and without gaps.
WindowInv ==
    /\ pc = "windows" =>
         \/ window_num = 0 /\ window_end = 0
         \/ window_num = 1 /\ window_end = LowPages
         \/ window_num >= 2 /\ window_end = (window_num - 1) * VM_WINDOW_SIZE
    /\ pc \in {"mapped", "run"} => IsWindow(window_num, window_start, window_end)

\* What is mapped lies in the window; a test is run in a window that is mapped.
MapInv ==
    /\ pc \in {"mapped", "run"} /\ num_mapped_pages > 0 =>
         /\ window_start <= vm_map.pm_base_addr
         /\ vm_map.pm_base_addr + num_mapped_pages <= window_end
         /\ vm_map.end = first_word_mapping(vm_map.pm_base_addr + num_mapped_pages - 1)
         /\ pc = "mapped" \/ window_num # 0 =>
              vm_map.start = first_word_mapping(vm_map.pm_base_addr)
    /\ pc = "run" => num_mapped_pages > 0
    /\ pc = "run" /\ window_num >= 3 => mapped_window = window_num - 1

\* Nothing above the windows that are done has been tested in this stage.
VisitInv ==
    /\ pc = "windows" => visited \subseteq 0 .. window_end - 1
    /\ pc \in {"mapped", "run"} => visited \subseteq 0 .. window_start - 1

\* The selected part of the window is what is mapped.
LoOf(win_start, lower) == Larger(HeapStart, Larger(win_start, lower))
HiOf(win_end, upper)   == Smaller(HeapEnd, Smaller(win_end, upper))

Mapped(lo, hi) ==
    /\ lo < hi => num_mapped_pages = hi - lo /\ vm_map.pm_base_addr = lo
    /\ ~(lo < hi) => num_mapped_pages = 0

SelectInv ==
    pc = "mapped" \/ (pc = "run" /\ ~bail) =>
        /\ Mapped(LoOf(window_start, pm_limit_lower), HiOf(window_end, pm_limit_upper))
        /\ window_num = 0 => Stages[test_num] = 1
        /\ pc = "run" /\ window_num = 0 => vm_map.start = first_word_mapping(pm_limit_lower)

\* Everything selected below the windows that are done has been tested.
CoverInv ==
    ~dummy_run /\ ~bail =>
        /\ pc = "windows" =>
             \A p \in Heap : p \in visited <=> p \in Selected /\ p < window_end
        /\ pc \in {"mapped", "run"} =>
             \A p \in Heap : p \in visited <=> p \in Selected /\ p < window_start
        /\ pc = "tested" /\ test_num \in enabled =>
             \A p \in Heap : p \in visited <=> p \in Selected

\* A window is only set up while bail is clear, and nothing is polled then.
BailInv == pc = "mapped" => ~bail

IInv == TypeInv /\ WindowInv /\ MapInv /\ VisitInv /\ SelectInv /\ CoverInv /\ BailInv

(***************************************************************************)
(* Virtual addresses: below the pinned size a page is its own address;     *)
(* above it, a window's pages are seen in order from the pinned size on.   *)
(***************************************************************************)
LEMMA LowPageMapping ==
    ASSUME NEW p \in Nat, p < VM_PINNED_SIZE, NEW w \in Nat
    PROVE  first_word_mapping(p) = p /\ page_of(p, w) = p
  BY DEF first_word_mapping, page_of

LEMMA HighPageMapping ==
    ASSUME NEW n \in Nat, n >= 3, NEW p \in Nat,
           (n - 1) * VM_WINDOW_SIZE <= p, p < n * VM_WINDOW_SIZE
    PROVE  /\ p >= VM_PINNED_SIZE
           /\ WindowOf(p) = n - 1
           /\ first_word_mapping(p) = VM_PINNED_SIZE + (p - (n - 1) * VM_WINDOW_SIZE)
  <1> DEFINE W == VM_WINDOW_SIZE
             k == n - 1
  <1>1. W \in Nat \ {0} /\ k \in Nat /\ VM_PINNED_SIZE = 2 * W
    BY VmemAssumption
  <1>2. n * W = k * W + W /\ k * W \in Nat
    BY <1>1
  <1>3. PICK r \in 0 .. (W - 1) : p = k * W + r
    <2>1. p - k * W \in 0 .. (W - 1) /\ p = k * W + (p - k * W)
      BY <1>1, <1>2
    <2>2. QED
      BY <2>1
  <1>4. p % W = r /\ p \div W = k
    BY <1>1, <1>3, ModOfWindow
  <1>5. k * W >= 2 * W
    <2>1. (k - 2) \in Nat /\ (k - 2) * W \in Nat
      BY <1>1
    <2>2. k * W = (k - 2) * W + 2 * W
      BY <1>1
    <2>3. QED
      BY <1>1, <2>1, <2>2
  <1>6. p >= VM_PINNED_SIZE
    BY <1>1, <1>2, <1>5
  <1>7. r = p - k * W
    BY <1>1, <1>2, <1>3
  <1>8. QED
    BY <1>1, <1>4, <1>6, <1>7 DEF first_word_mapping, WindowOf

LEMMA HighPageOf ==
    ASSUME NEW w \in Nat, NEW t \in 0 .. (VM_WINDOW_SIZE - 1)
    PROVE  page_of(VM_PINNED_SIZE + t, w) = t + w * VM_WINDOW_SIZE
  <1> DEFINE W == VM_WINDOW_SIZE
  <1>1. W \in Nat \ {0} /\ VM_PINNED_SIZE = 2 * W /\ 2 \in Nat
    BY VmemAssumption
  <1>2. (2 * W + t) % W = t
    BY <1>1, ModOfWindow
  <1>3. QED
    BY <1>1, <1>2 DEF page_of

(***************************************************************************)
(* In a window that is mapped, page_of undoes first_word_mapping on the    *)
(* pages first .. last of a segment.                                       *)
(***************************************************************************)
MapsSegment(first, last, w) ==
    /\ \A v \in Nat :
         first_word_mapping(first) <= v /\ v <= first_word_mapping(last) =>
             /\ page_of(v, w) = first + (v - first_word_mapping(first))
             /\ page_of(v, w) \in first .. last
    /\ \A p \in first .. last :
         /\ first_word_mapping(p) \in Nat
         /\ first_word_mapping(first) <= first_word_mapping(p)
         /\ first_word_mapping(p) <= first_word_mapping(last)
         /\ page_of(first_word_mapping(p), w) = p

LEMMA SegmentMapping ==
    ASSUME NEW n \in Nat, NEW lo \in Nat, NEW hi \in Nat, IsWindow(n, lo, hi),
           NEW base \in Nat, NEW last \in Nat, lo <= base, base <= last, last < hi,
           NEW w \in Nat, n >= 3 => w = n - 1
    PROVE  MapsSegment(base, last, w)
  <1> DEFINE W == VM_WINDOW_SIZE
  <1> USE DEF MapsSegment
  <1>0. W \in Nat \ {0} /\ VM_PINNED_SIZE = 2 * W /\ last \in Nat
    BY VmemAssumption
  <1>1. CASE n < 3
    <2>1. hi <= VM_PINNED_SIZE
      BY <1>0, <1>1, TestLoopAssumption DEF IsWindow
    <2>2. last < VM_PINNED_SIZE /\ base < VM_PINNED_SIZE
      BY <1>0, <2>1
    <2>3. first_word_mapping(base) = base /\ first_word_mapping(last) = last
      BY <1>0, <2>2, LowPageMapping
    <2>4. \A v \in Nat : v <= last => first_word_mapping(v) = v /\ page_of(v, w) = v
      <3> SUFFICES ASSUME NEW v \in Nat, v <= last
                   PROVE  first_word_mapping(v) = v /\ page_of(v, w) = v
        OBVIOUS
      <3>1. v < VM_PINNED_SIZE
        BY <1>0, <2>2
      <3>2. QED
        BY <3>1, LowPageMapping
    <2>5. QED
      BY <1>0, <2>3, <2>4
  <1>2. CASE n >= 3
    <2>1. lo = (n - 1) * W /\ hi = n * W /\ w = n - 1
      BY <1>2 DEF IsWindow
    <2>2. hi = lo + W /\ lo = w * W
      BY <1>0, <2>1
    <2>3. \A p \in base .. last : first_word_mapping(p) = VM_PINNED_SIZE + (p - lo)
      <3> SUFFICES ASSUME NEW p \in base .. last
                   PROVE  first_word_mapping(p) = VM_PINNED_SIZE + (p - lo)
        OBVIOUS
      <3>1. p \in Nat /\ lo <= p /\ p < hi
        BY <1>0
      <3>2. QED
        BY <1>2, <2>1, <3>1, HighPageMapping
    <2>4. /\ first_word_mapping(base) = VM_PINNED_SIZE + (base - lo)
          /\ first_word_mapping(last) = VM_PINNED_SIZE + (last - lo)
      BY <1>0, <2>3
    <2>5. \A v \in Nat : VM_PINNED_SIZE <= v /\ v < VM_PINNED_SIZE + W =>
             page_of(v, w) = lo + (v - VM_PINNED_SIZE)
      <3> SUFFICES ASSUME NEW v \in Nat, VM_PINNED_SIZE <= v, v < VM_PINNED_SIZE + W
                   PROVE  page_of(v, w) = lo + (v - VM_PINNED_SIZE)
        OBVIOUS
      <3> DEFINE t == v - VM_PINNED_SIZE
      <3>1. t \in 0 .. (W - 1) /\ v = VM_PINNED_SIZE + t
        BY <1>0
      <3>2. page_of(VM_PINNED_SIZE + t, w) = t + w * W
        BY <3>1, HighPageOf
      <3>3. w * W \in Nat
        BY <1>0
      <3>4. QED
        BY <2>2, <3>1, <3>2, <3>3
    <2>6. last < lo + W
      BY <1>0, <2>2
    <2>7. \A v \in Nat : first_word_mapping(base) <= v /\ v <= first_word_mapping(last) =>
             /\ page_of(v, w) = base + (v - first_word_mapping(base))
             /\ page_of(v, w) \in base .. last
      BY <1>0, <2>4, <2>5, <2>6
    <2>8. \A p \in base .. last :
             /\ first_word_mapping(p) \in Nat
             /\ first_word_mapping(base) <= first_word_mapping(p)
             /\ first_word_mapping(p) <= first_word_mapping(last)
             /\ page_of(first_word_mapping(p), w) = p
      <3> SUFFICES ASSUME NEW p \in base .. last
                   PROVE  /\ first_word_mapping(p) \in Nat
                          /\ first_word_mapping(base) <= first_word_mapping(p)
                          /\ first_word_mapping(p) <= first_word_mapping(last)
                          /\ page_of(first_word_mapping(p), w) = p
        OBVIOUS
      <3>1. first_word_mapping(p) = VM_PINNED_SIZE + (p - lo)
        BY <2>3
      <3>2. first_word_mapping(p) \in Nat /\ first_word_mapping(p) < VM_PINNED_SIZE + W
        BY <1>0, <2>6, <3>1
      <3>3. page_of(first_word_mapping(p), w) = lo + (p - lo)
        BY <1>0, <2>5, <3>1, <3>2
      <3>4. QED
        BY <1>0, <2>4, <3>1, <3>2, <3>3
    <2>9. QED
      BY <2>7, <2>8
  <1>3. QED
    BY <1>1, <1>2

-----------------------------------------------------------------------------
(***************************************************************************)
(* Most steps leave the windows alone: they end outside test_all_windows.  *)
(***************************************************************************)
Outside == {"top", "banner", "tested", "halted"}

LEMMA StepsOutside ==
    ASSUME TypeInv, [Next]_vars
    PROVE  \/ pc' \in Outside /\ (pc' = "tested" => bail')
           \/ RerunTest \/ SetupWindow \/ SkipWindow \/ DummyTest
           \/ BeginTest \/ Tick \/ EndTest \/ ConfigMenu
           \/ UNCHANGED vars
<1>1. CASE StartRun
  BY <1>1 DEF StartRun, Outside
<1>2. CASE StartPass
  BY <1>2 DEF StartPass, Outside
<1>3. CASE StartTest
  BY <1>3 DEF StartTest, Outside
<1>4. CASE ClearBail
  BY <1>4 DEF ClearBail, Outside
<1>5. CASE LeaveOnBail
  BY <1>5 DEF LeaveOnBail, configVars, Outside
<1>6. CASE HonourRestart
  BY <1>6 DEF HonourRestart, Outside
<1>7. CASE NextStage
  BY <1>7 DEF NextStage, Outside
<1>8. CASE NextTest
  BY <1>8 DEF NextTest, TestOver, Outside
<1>9. CASE EndDummyRun
  BY <1>9 DEF EndDummyRun, PassOver, TestOver, Outside
<1>10. CASE NextPass
  BY <1>10 DEF NextPass, PassOver, TestOver, Outside
<1>11. CASE Escape
  BY <1>11 DEF Escape, Outside
<1>12. QED
  BY <1>1, <1>2, <1>3, <1>4, <1>5, <1>6, <1>7, <1>8, <1>9, <1>10, <1>11 DEF Next, Program, Input, Halted

LEMMA NextWindowInv == TypeInv /\ WindowInv /\ [Next]_vars => WindowInv'
<1> SUFFICES ASSUME TypeInv, WindowInv, [Next]_vars PROVE WindowInv'
  OBVIOUS
<1> USE DEF WindowInv
<1>0. /\ window_num \in Nat /\ window_end \in Nat /\ window_start \in Nat
      /\ VM_WINDOW_SIZE \in Nat \ {0} /\ LowPages \in 1 .. VM_WINDOW_SIZE
  BY VmemAssumption, TestLoopAssumption DEF TypeInv, TypeOK
<1>1. CASE pc' \in Outside
  BY <1>1 DEF Outside
<1>2. CASE RerunTest
  BY <1>2 DEF RerunTest
<1>3. CASE SetupWindow
  <2>1. CASE WindowNum < 2
    BY <1>0, <1>3, <2>1 DEF SetupWindow, WindowNum, WindowBounds, IsWindow
  <2>2. CASE WindowNum >= 2
    <3>1. window_num = WindowNum /\ window_end = (window_num - 1) * VM_WINDOW_SIZE
      BY <1>0, <1>3, <2>2 DEF SetupWindow, WindowNum
    <3>2. window_end + VM_WINDOW_SIZE = window_num * VM_WINDOW_SIZE
      BY <1>0, <3>1
    <3>3. QED
      BY <1>0, <1>3, <2>2, <3>1, <3>2 DEF SetupWindow, WindowBounds, IsWindow
  <2>3. QED
    BY <1>0, <2>1, <2>2 DEF WindowNum
<1>4. (pc = "mapped" \/ pc = "run") /\ window_num' = window_num + 1 /\ pc' = AfterWindow
      /\ UNCHANGED <<window_start, window_end>> => WindowInv'
  <2> SUFFICES ASSUME pc = "mapped" \/ pc = "run", window_num' = window_num + 1,
                      pc' = AfterWindow, UNCHANGED <<window_start, window_end>>
               PROVE  WindowInv'
    OBVIOUS
  <2>1. IsWindow(window_num, window_start, window_end)
    OBVIOUS
  <2>2. window_num' - 1 = window_num
    BY <1>0
  <2>3. QED
    BY <1>0, <2>1, <2>2 DEF AfterWindow, IsWindow
<1>5. CASE SkipWindow
  BY <1>4, <1>5 DEF SkipWindow
<1>6. CASE DummyTest
  BY <1>4, <1>6 DEF DummyTest
<1>7. CASE EndTest
  BY <1>4, <1>7 DEF EndTest
<1>8. CASE BeginTest
  BY <1>8 DEF BeginTest
<1>9. CASE Tick
  BY <1>9 DEF Tick, windowVars
<1>10. CASE ConfigMenu
  BY <1>10 DEF ConfigMenu, windowVars
<1>11. CASE UNCHANGED vars
  BY <1>11 DEF vars, windowVars
<1>12. QED
  BY <1>1, <1>2, <1>3, <1>5, <1>6, <1>7, <1>8, <1>9, <1>10, <1>11, StepsOutside

(***************************************************************************)
(* What SetupWindow leaves behind.                                         *)
(***************************************************************************)
LEMMA SetupResult ==
    ASSUME TypeInv, SetupWindow
    PROVE  \E lo \in Nat, hi \in Nat :
             /\ lo = LoOf(window_start', pm_limit_lower')
             /\ hi = HiOf(window_end', pm_limit_upper')
             /\ window_start' <= lo /\ hi <= window_end'
             /\ lo < hi => /\ num_mapped_pages' = hi - lo
                           /\ vm_map'.pm_base_addr = lo
                           /\ vm_map'.start = first_word_mapping(lo)
                           /\ vm_map'.end = first_word_mapping(hi - 1)
             /\ ~(lo < hi) => num_mapped_pages' = 0
  <1> DEFINE lo == LoOf(window_start', pm_limit_lower')
             hi == HiOf(window_end', pm_limit_upper')
  <1>1. /\ window_start' = WindowBounds(WindowNum)[1]
        /\ window_end' = WindowBounds(WindowNum)[2]
        /\ setup_vm_map(window_start', window_end')
        /\ pm_limit_lower' = pm_limit_lower /\ pm_limit_upper' = pm_limit_upper
    BY DEF SetupWindow, configVars
  <1>2. TypeOK'
    BY NextTypeInv DEF TypeInv, Next, Program
  <1>3. /\ lo \in Nat /\ hi \in Nat
        /\ window_start' <= lo /\ hi <= window_end'
    BY <1>2, TestLoopAssumption DEF TypeOK, LoOf, HiOf, Larger, Smaller
  <1>4. /\ lo < hi => /\ num_mapped_pages' = hi - lo
                      /\ vm_map' = [pm_base_addr |-> lo, start |-> first_word_mapping(lo),
                                    end |-> first_word_mapping(hi - 1)]
        /\ ~(lo < hi) => num_mapped_pages' = 0
    BY <1>1 DEF setup_vm_map, LoOf, HiOf
  <1>5. /\ lo = LoOf(window_start', pm_limit_lower')
        /\ hi = HiOf(window_end', pm_limit_upper')
    OBVIOUS
  <1> HIDE DEF lo, hi
  <1>6. QED
    BY <1>3, <1>4, <1>5

LEMMA NextMapInv == TypeInv /\ WindowInv /\ MapInv /\ [Next]_vars => MapInv'
<1> SUFFICES ASSUME TypeInv, WindowInv, MapInv, [Next]_vars PROVE MapInv'
  OBVIOUS
<1> USE DEF MapInv
<1>0. TypeOK /\ TypeOK'
  BY NextTypeInv DEF TypeInv
<1>1. CASE pc' \notin {"mapped", "run"}
  BY <1>1
<1>2. CASE SetupWindow
  <2>1. pc' = "mapped"
    BY <1>2 DEF SetupWindow
  <2>2. PICK lo \in Nat, hi \in Nat :
             /\ window_start' <= lo /\ hi <= window_end'
             /\ lo < hi => /\ num_mapped_pages' = hi - lo
                           /\ vm_map'.pm_base_addr = lo
                           /\ vm_map'.start = first_word_mapping(lo)
                           /\ vm_map'.end = first_word_mapping(hi - 1)
             /\ ~(lo < hi) => num_mapped_pages' = 0
    BY <1>2, SetupResult
  <2>3. lo + (hi - lo) = hi
    OBVIOUS
  <2>4. QED
    BY <2>1, <2>2, <2>3
<1>3. CASE BeginTest
  <2>1. /\ pc = "mapped" /\ pc' = "run" /\ num_mapped_pages > 0
        /\ UNCHANGED <<num_mapped_pages, window_num, window_start, window_end>>
        /\ mapped_window' = map_window(vm_map.pm_base_addr, mapped_window)
    BY <1>3 DEF BeginTest
  <2>2. /\ vm_map'.pm_base_addr = vm_map.pm_base_addr
        /\ vm_map'.end = vm_map.end
        /\ window_num # 0 => vm_map'.start = vm_map.start
    BY <1>0, <1>3 DEF BeginTest, TypeOK
  <2>3. ASSUME window_num >= 3 PROVE mapped_window' = window_num - 1
    <3> DEFINE base == vm_map.pm_base_addr
    <3>1. /\ window_start = (window_num - 1) * VM_WINDOW_SIZE
          /\ window_end = window_num * VM_WINDOW_SIZE
      BY <1>0, <2>1, <2>3 DEF WindowInv, IsWindow, TypeOK
    <3>2. base \in Nat /\ window_num \in Nat /\ num_mapped_pages \in Nat /\ window_end \in Nat
      BY <1>0 DEF TypeOK
    <3>3. window_start <= base /\ base + num_mapped_pages <= window_end
      BY <2>1
    <3>4. base < window_end
      BY <2>1, <3>2, <3>3
    <3>5. WindowOf(base) = window_num - 1
      BY <2>3, <3>1, <3>2, <3>3, <3>4, HighPageMapping
    <3>6. QED
      BY <2>1, <2>3, <3>2, <3>5 DEF map_window
  <2>4. QED
    BY <2>1, <2>2, <2>3
<1>4. CASE Tick
  BY <1>4 DEF Tick, windowVars
<1>5. CASE ConfigMenu
  BY <1>5 DEF ConfigMenu, windowVars, runVars
<1>6. CASE UNCHANGED vars
  BY <1>6 DEF vars, windowVars, runVars
<1>7. RerunTest \/ SkipWindow \/ DummyTest \/ EndTest => pc' \notin {"mapped", "run"}
  BY DEF RerunTest, SkipWindow, DummyTest, EndTest, AfterWindow
<1>8. QED
  BY <1>1, <1>2, <1>3, <1>4, <1>5, <1>6, <1>7, StepsOutside DEF Outside

(***************************************************************************)
(* The pages a test runs on: the mapped segment, except that in the low    *)
(* window they may begin lower.                                            *)
(***************************************************************************)
LEMMA RunPagesInWindow ==
    ASSUME TypeInv, WindowInv, MapInv, pc = "run"
    PROVE  /\ ReportsTruePage
           /\ RunPages \subseteq window_start .. window_end - 1
           /\ window_num # 0 =>
                RunPages = vm_map.pm_base_addr .. vm_map.pm_base_addr + num_mapped_pages - 1
           /\ window_num = 0 =>
                RunPages = vm_map.start .. vm_map.pm_base_addr + num_mapped_pages - 1
  <1> DEFINE base == vm_map.pm_base_addr
             num  == num_mapped_pages
             last == base + num - 1
             w    == mapped_window
  <1>1. /\ base \in Nat /\ num \in Nat \ {0} /\ last \in Nat /\ w \in Nat
        /\ vm_map.start \in Nat /\ vm_map.end \in Nat
        /\ window_num \in Nat /\ window_start \in Nat /\ window_end \in Nat
    BY DEF TypeInv, TypeOK, MapInv
  <1>2. /\ IsWindow(window_num, window_start, window_end)
        /\ window_start <= base /\ base + num <= window_end
        /\ window_num >= 3 => w = window_num - 1
        /\ vm_map.end = first_word_mapping(last)
        /\ window_num # 0 => vm_map.start = first_word_mapping(base)
    BY <1>1 DEF WindowInv, MapInv
  <1>3. MapsSegment(base, last, w)
    <2>1. base <= last /\ last < window_end
      BY <1>1, <1>2
    <2> HIDE DEF base, num, last, w
    <2>2. QED
      BY <1>1, <1>2, <2>1, SegmentMapping
  <1>4. ReportsTruePage
    BY <1>1, <1>2, <1>3 DEF ReportsTruePage, MapsSegment
  <1>5. base .. last \subseteq window_start .. window_end - 1
    BY <1>1, <1>2
  <1>6. ASSUME window_num # 0 PROVE RunPages = base .. last
    <2>1. RunPages \subseteq base .. last
      BY <1>1, <1>2, <1>3, <1>6 DEF RunPages, MapsSegment
    <2>2. ASSUME NEW p \in base .. last PROVE p \in RunPages
      <3>1. first_word_mapping(p) \in vm_map.start .. vm_map.end
        BY <1>1, <1>2, <1>3, <1>6 DEF MapsSegment
      <3>2. page_of(first_word_mapping(p), w) = p
        BY <1>3 DEF MapsSegment
      <3>3. QED
        BY <3>1, <3>2 DEF RunPages
    <2>3. QED
      BY <2>1, <2>2
  <1>7. ASSUME window_num = 0
        PROVE  RunPages = vm_map.start .. last /\ RunPages \subseteq window_start .. window_end - 1
    <2>1. window_start = 0 /\ window_end = LowPages /\ window_end <= VM_WINDOW_SIZE
      BY <1>2, <1>7, TestLoopAssumption DEF IsWindow
    <2>2. last < VM_PINNED_SIZE
      BY <1>1, <1>2, <2>1, VmemAssumption
    <2>3. vm_map.end = last
      BY <1>1, <1>2, <2>2, LowPageMapping
    <2>4. \A v \in vm_map.start .. vm_map.end : page_of(v, w) = v
      BY <1>1, <2>2, <2>3, VmemAssumption DEF page_of
    <2>5. RunPages = vm_map.start .. last
      BY <2>3, <2>4 DEF RunPages
    <2>6. QED
      BY <1>1, <1>2, <2>1, <2>5
  <1>8. QED
    BY <1>4, <1>5, <1>6, <1>7

LEMMA WindowOrder ==
    ASSUME NEW n \in Nat, NEW lo \in Nat, NEW hi \in Nat, IsWindow(n, lo, hi)
    PROVE  lo < hi \/ (n = 1 /\ lo = hi)
  <1>1. n * VM_WINDOW_SIZE = (n - 1) * VM_WINDOW_SIZE + VM_WINDOW_SIZE
    BY VmemAssumption
  <1>2. QED
    BY <1>1, VmemAssumption, TestLoopAssumption DEF IsWindow

LEMMA Interval ==
    ASSUME NEW a \in Nat, NEW b \in Nat, a <= b, NEW S, S \subseteq 0 .. a - 1
    PROVE  S \subseteq 0 .. b - 1
  OBVIOUS

LEMMA NextVisitInv ==
    TypeInv /\ WindowInv /\ MapInv /\ VisitInv /\ [Next]_vars => VisitInv'
<1> SUFFICES ASSUME TypeInv, WindowInv, MapInv, VisitInv, [Next]_vars PROVE VisitInv'
  OBVIOUS
<1> USE DEF VisitInv
<1>0. TypeOK /\ TypeOK' /\ WindowInv'
  BY NextTypeInv, NextWindowInv DEF TypeInv
<1>1. CASE pc' \in Outside
  BY <1>1 DEF Outside
<1>2. CASE RerunTest
  BY <1>2 DEF RerunTest
<1>3. CASE SetupWindow
  <2>1. window_end <= window_start'
    BY <1>0, <1>3, TestLoopAssumption DEF SetupWindow, WindowInv, WindowNum, WindowBounds, TypeOK
  <2>2. visited' = visited /\ pc = "windows" /\ pc' = "mapped"
    BY <1>3 DEF SetupWindow, runVars
  <2>3. QED
    <3>1. window_end \in Nat /\ window_start' \in Nat
      BY <1>0 DEF TypeOK
    <3>2. QED
      BY <2>1, <2>2, <3>1, Interval
<1>4. CASE SkipWindow \/ DummyTest
  <2>1. visited' = visited /\ pc = "mapped" /\ pc' \in {"windows", "tested"} /\ window_end' = window_end
    BY <1>4 DEF SkipWindow, DummyTest, AfterWindow, runVars
  <2>2. window_start <= window_end
    BY <1>0, <2>1, WindowOrder DEF WindowInv, TypeOK
  <2>3. QED
    <3>1. window_start \in Nat /\ window_end \in Nat
      BY <1>0 DEF TypeOK
    <3>2. QED
      BY <2>1, <2>2, <3>1, Interval
<1>5. CASE BeginTest
  BY <1>5 DEF BeginTest
<1>6. CASE Tick
  BY <1>6 DEF Tick, windowVars
<1>7. CASE EndTest
  <2>1. /\ pc = "run" /\ visited' = visited \cup RunPages /\ window_end' = window_end
        /\ pc' \in {"windows", "tested"}
    BY <1>7 DEF EndTest, AfterWindow
  <2>2. RunPages \subseteq window_start .. window_end - 1
    BY <2>1, RunPagesInWindow
  <2>3. window_start <= window_end
    BY <1>0, <2>1, WindowOrder DEF WindowInv, TypeOK
  <2>4. QED
    <3>1. window_start \in Nat /\ window_end \in Nat
      BY <1>0 DEF TypeOK
    <3>2. visited \subseteq 0 .. window_end - 1
      BY <2>1, <2>3, <3>1, Interval
    <3>3. RunPages \subseteq 0 .. window_end - 1
      BY <2>2, <3>1
    <3>4. QED
      BY <2>1, <3>2, <3>3
<1>8. CASE ConfigMenu
  BY <1>8 DEF ConfigMenu, windowVars, runVars
<1>9. CASE UNCHANGED vars
  BY <1>9 DEF vars, windowVars, runVars
<1>10. QED
  BY <1>1, <1>2, <1>3, <1>4, <1>5, <1>6, <1>7, <1>8, <1>9, StepsOutside

LEMMA NextSelectInv == TypeInv /\ SelectInv /\ [Next]_vars => SelectInv'
<1> SUFFICES ASSUME TypeInv, SelectInv, [Next]_vars PROVE SelectInv'
  OBVIOUS
<1> USE DEF SelectInv
<1>0. TypeOK /\ TypeOK'
  BY NextTypeInv DEF TypeInv
<1>1. CASE pc' \notin {"mapped", "run"}
  BY <1>1
<1>2. CASE SetupWindow
  <2>1. pc' = "mapped" /\ window_num' = WindowNum /\ test_num' = test_num /\ test_num \in Tests
    BY <1>2 DEF SetupWindow, flowVars, TypeInv, FlowInv, IndexInRange
  <2>2. window_num' = 0 => Stages[test_num] = 1
    <3>1. Stages[test_num] \in Nat \ {0}
      BY <2>1, TestLoopAssumption
    <3>2. QED
      BY <2>1, <3>1 DEF WindowNum
  <2>3. QED
    BY <1>2, <2>1, <2>2, SetupResult DEF Mapped
<1>3. CASE BeginTest
  <2>1. /\ pc = "mapped" /\ pc' = "run"
        /\ vm_map'.pm_base_addr = vm_map.pm_base_addr
        /\ window_num = 0 => vm_map'.start = first_word_mapping(pm_limit_lower)
    BY <1>0, <1>3 DEF BeginTest, TypeOK
  <2>2. UNCHANGED <<num_mapped_pages, window_num, window_start, window_end, test_num,
                    pm_limit_lower, pm_limit_upper>>
    BY <1>3 DEF BeginTest, flowVars, configVars
  <2>3. QED
    BY <2>1, <2>2 DEF Mapped
<1>4. CASE Tick
  BY <1>4 DEF Tick, windowVars, configVars, flowVars, Mapped
<1>5. CASE ConfigMenu
  <2>1. ~bail' => ~bail /\ UNCHANGED <<pm_limit_lower, pm_limit_upper>>
    BY <1>5 DEF ConfigMenu
  <2>2. UNCHANGED <<pc, num_mapped_pages, vm_map, window_num, window_start, window_end, test_num>>
    BY <1>5 DEF ConfigMenu, windowVars, flowVars
  <2>3. pc # "mapped"
    BY <1>5 DEF ConfigMenu, AtInput
  <2>4. QED
    BY <2>1, <2>2, <2>3 DEF Mapped
<1>6. CASE UNCHANGED vars
  BY <1>6 DEF vars, windowVars, configVars, flowVars, Mapped
<1>7. RerunTest \/ SkipWindow \/ DummyTest \/ EndTest => pc' \notin {"mapped", "run"}
  BY DEF RerunTest, SkipWindow, DummyTest, EndTest, AfterWindow
<1>8. QED
  BY <1>1, <1>2, <1>3, <1>4, <1>5, <1>6, <1>7, StepsOutside DEF Outside

(***************************************************************************)
(* Which selected pages lie in the window: those that are mapped.          *)
(***************************************************************************)
LEMMA SelectedInWindow ==
    ASSUME TypeInv, WindowInv, SelectInv, pc = "mapped" \/ (pc = "run" /\ ~bail),
           NEW p \in Heap
    PROVE  (p \in Selected /\ window_start <= p /\ p < window_end) <=>
             (LoOf(window_start, pm_limit_lower) <= p /\ p < HiOf(window_end, pm_limit_upper))
  <1>1. /\ p \in Nat /\ HeapStart <= p /\ p < HeapEnd
        /\ window_start \in Nat /\ window_end \in Nat
        /\ pm_limit_lower \in Nat /\ pm_limit_upper \in Nat /\ window_num \in Nat
        /\ HeapStart \in Nat /\ HeapEnd \in Nat /\ LowPages \in Nat
    BY TestLoopAssumption DEF Heap, TypeInv, TypeOK
  <1>2. window_start <= p /\ Stages[test_num] > 1 => p >= LowPages
    <2>1. CASE window_num = 0
      BY <2>1 DEF SelectInv
    <2>2. CASE window_num = 1
      BY <2>2 DEF WindowInv, IsWindow
    <2>3. CASE window_num >= 2
      <3>1. window_start = (window_num - 1) * VM_WINDOW_SIZE
        BY <2>3 DEF WindowInv, IsWindow
      <3>2. (window_num - 2) * VM_WINDOW_SIZE \in Nat
        BY <1>1, <2>3, VmemAssumption
      <3>3. window_start = (window_num - 2) * VM_WINDOW_SIZE + VM_WINDOW_SIZE
        BY <1>1, <3>1, VmemAssumption
      <3>4. VM_WINDOW_SIZE \in Nat /\ LowPages <= VM_WINDOW_SIZE
        BY VmemAssumption, TestLoopAssumption
      <3>5. window_start >= VM_WINDOW_SIZE
        <4> DEFINE below == (window_num - 2) * VM_WINDOW_SIZE
        <4>1. below \in Nat /\ window_start = below + VM_WINDOW_SIZE
          BY <3>2, <3>3
        <4> HIDE DEF below
        <4>2. QED
          BY <3>4, <4>1
      <3>6. QED
        BY <1>1, <3>4, <3>5
    <2>4. QED
      BY <1>1, <2>1, <2>2, <2>3
  <1>3. QED
    BY <1>1, <1>2 DEF Selected, LoOf, HiOf, Larger, Smaller

LEMMA QuotientSmaller ==
    ASSUME NEW a \in Nat, NEW b \in Nat \ {0}
    PROVE  a \div b <= a
  <1> DEFINE q == a \div b
             r == a % b
  <1>1. q \in Nat /\ r \in Nat /\ a = q * b + r
    BY DivMod
  <1> HIDE DEF q, r
  <1>2. q * b = q * (b - 1) + q /\ q * (b - 1) \in Nat
    BY <1>1
  <1>3. QED
    <2>1. q <= a
      BY <1>1, <1>2
    <2>2. QED
      BY <2>1 DEF q

LEMMA LowPagesBound == LowPages <= LOW_LOAD_LIMIT
  BY QuotientSmaller, TestLoopAssumption DEF LowPages

(***************************************************************************)
(* What a test in the window adds to visited is what is selected there.    *)
(***************************************************************************)
LEMMA EndTestCovers ==
    ASSUME TypeInv, WindowInv, MapInv, SelectInv, pc = "run", ~bail,
           NEW p \in Heap
    PROVE  p \in RunPages <=> (p \in Selected /\ window_start <= p /\ p < window_end)
  <1> DEFINE lo == LoOf(window_start, pm_limit_lower)
             hi == HiOf(window_end, pm_limit_upper)
             last == vm_map.pm_base_addr + num_mapped_pages - 1
  <1>1. /\ p \in Nat /\ HeapStart <= p /\ p < HeapEnd
        /\ window_start \in Nat /\ window_end \in Nat /\ window_num \in Nat
        /\ pm_limit_lower \in Nat /\ pm_limit_upper \in Nat
        /\ num_mapped_pages \in Nat /\ vm_map.pm_base_addr \in Nat
        /\ HeapStart \in Nat /\ HeapEnd \in Nat
    BY TestLoopAssumption DEF Heap, TypeInv, TypeOK
  <1>2. lo \in Nat /\ hi \in Nat
    BY <1>1 DEF LoOf, HiOf, Larger, Smaller
  <1>3. Mapped(lo, hi) /\ num_mapped_pages > 0
    BY DEF SelectInv, MapInv
  <1>4. vm_map.pm_base_addr = lo /\ last = hi - 1
    <2> HIDE DEF lo, hi
    <2>1. QED
      BY <1>1, <1>2, <1>3 DEF Mapped
  <1>5. (p \in Selected /\ window_start <= p /\ p < window_end) <=> (lo <= p /\ p < hi)
    BY SelectedInWindow
  <1>6. CASE window_num # 0
    <2>1. RunPages = lo .. hi - 1
      <3>1. RunPages = vm_map.pm_base_addr .. last
        BY <1>6, RunPagesInWindow
      <3> HIDE DEF lo, hi, last
      <3>2. QED
        BY <1>4, <3>1
    <2> HIDE DEF lo, hi, last
    <2>2. QED
      BY <1>1, <1>2, <1>5, <2>1
  <1>7. CASE window_num = 0
    <2>1. RunPages = pm_limit_lower .. hi - 1
      <3>1. RunPages = vm_map.start .. last
        BY <1>7, RunPagesInWindow
      <3>2. vm_map.start = first_word_mapping(pm_limit_lower)
        BY <1>7 DEF SelectInv
      <3>3. window_start = 0 /\ window_end = LowPages
        BY <1>7 DEF WindowInv, IsWindow
      <3>4. lo < hi
        <4> HIDE DEF lo, hi, last
        <4>1. QED
          BY <1>1, <1>2, <1>3, <1>4 DEF Mapped
      <3>5. pm_limit_lower < VM_PINNED_SIZE
        BY <1>1, <3>3, <3>4, VmemAssumption, TestLoopAssumption DEF LoOf, HiOf, Larger, Smaller
      <3>6. first_word_mapping(pm_limit_lower) = pm_limit_lower
        BY <1>1, <3>5, LowPageMapping
      <3> HIDE DEF lo, hi, last
      <3>7. QED
        BY <1>4, <3>1, <3>2, <3>6
    <2>2. window_start = 0
      BY <1>7 DEF WindowInv, IsWindow
    <2>3. lo <= p <=> pm_limit_lower <= p
      BY <1>1, <2>2 DEF LoOf, Larger
    <2> HIDE DEF lo, hi, last
    <2>4. QED
      BY <1>1, <1>2, <1>5, <2>1, <2>3
  <1>8. QED
    BY <1>6, <1>7

(***************************************************************************)
(* The claim CoverInv makes at the three places of the loop.               *)
(***************************************************************************)
TestedBelow(bound) == \A p \in Heap : p \in visited <=> p \in Selected /\ p < bound

LEMMA EndOfHeap ==
    ASSUME TypeInv, TestedBelow(window_end)
    PROVE  /\ AfterWindow \in {"windows", "tested"}
           /\ AfterWindow = "tested" =>
                \A p \in Heap : p \in visited <=> p \in Selected
  <1>1. window_end \in Nat /\ HeapEnd \in Nat /\ HeapStart \in Nat
    BY TestLoopAssumption DEF TypeInv, TypeOK
  <1>2. ~(window_end < HeapEnd) => \A p \in Heap : p < window_end
    BY <1>1 DEF Heap
  <1>3. QED
    BY <1>2 DEF AfterWindow, TestedBelow

LEMMA NextCoverInv ==
    TypeInv /\ WindowInv /\ MapInv /\ SelectInv /\ CoverInv /\ [Next]_vars => CoverInv'
<1> SUFFICES ASSUME TypeInv, WindowInv, MapInv, SelectInv, CoverInv, [Next]_vars
             PROVE  CoverInv'
  OBVIOUS
<1>0. TypeOK /\ TypeOK' /\ WindowInv'
  BY NextTypeInv, NextWindowInv DEF TypeInv
<1>1. CASE pc' \in Outside /\ (pc' = "tested" => bail')
  BY <1>1 DEF CoverInv, Outside
<1>2. CASE RerunTest
  <2>1. /\ visited' = {} /\ window_end' = 0 /\ enabled' = enabled /\ test_num' = test_num
        /\ pc' = "windows" \/ (pc' = "tested" /\ test_num' \notin enabled')
    BY <1>2 DEF RerunTest, configVars
  <2>2. \A p \in Heap : ~(p < 0)
    BY TestLoopAssumption DEF Heap
  <2>3. QED
    BY <2>1, <2>2 DEF CoverInv
<1>3. CASE SetupWindow
  <2>1. /\ pc = "windows" /\ pc' = "mapped" /\ window_num' = WindowNum
        /\ UNCHANGED <<bail, dummy_run, visited, test_num, pm_limit_lower, pm_limit_upper>>
    BY <1>3 DEF SetupWindow, configVars, flowVars, runVars
  <2>2. Selected' = Selected
    BY <2>1 DEF Selected
  <2>3. ASSUME NEW p \in Selected
        PROVE  p < window_end <=> p < window_start'
    <3>1. /\ p \in Nat /\ pm_limit_lower <= p /\ pm_limit_lower \in Nat
          /\ Stages[test_num] > 1 => p >= LowPages
          /\ LowPages \in Nat /\ LOW_LOAD_LIMIT \in Nat
      BY <1>0, TestLoopAssumption DEF Selected, Heap, TypeOK
    <3>2. CASE window_num = 0 /\ WindowNum = 1
      <4>1. window_end = 0 /\ window_start' = LowPages
        BY <1>0, <1>3, <3>2, TestLoopAssumption
           DEF SetupWindow, WindowBounds, WindowInv, TypeOK
      <4>2. p >= LowPages
        BY <3>1, <3>2, LowPagesBound DEF WindowNum
      <4>3. QED
        BY <3>1, <4>1, <4>2
    <3>3. CASE ~(window_num = 0 /\ WindowNum = 1)
      <4>1. window_start' = window_end
        BY <1>0, <1>3, <3>3, TestLoopAssumption
           DEF SetupWindow, WindowBounds, WindowNum, WindowInv, TypeOK
      <4>2. QED
        BY <4>1
    <3>4. QED
      BY <3>2, <3>3
  <2>4. QED
    BY <2>1, <2>2, <2>3 DEF CoverInv
<1>4. CASE SkipWindow
  <2>1. /\ pc = "mapped" /\ num_mapped_pages = 0 /\ pc' = AfterWindow
        /\ UNCHANGED <<bail, dummy_run, visited, test_num, window_start, window_end,
                       pm_limit_lower, pm_limit_upper>>
    BY <1>4 DEF SkipWindow, configVars, flowVars, runVars
  <2> SUFFICES ASSUME ~dummy_run, ~bail PROVE CoverInv'
    BY <2>1 DEF CoverInv
  <2>2. Selected' = Selected
    BY <2>1 DEF Selected
  <2>3. ASSUME NEW p \in Heap
        PROVE  p \in visited <=> p \in Selected /\ p < window_end
    <3> DEFINE lo == LoOf(window_start, pm_limit_lower)
               hi == HiOf(window_end, pm_limit_upper)
    <3>1. /\ p \in Nat /\ window_start \in Nat /\ window_end \in Nat
          /\ window_num \in Nat /\ lo \in Nat /\ hi \in Nat
      BY <1>0, TestLoopAssumption DEF TypeOK, Heap, LoOf, HiOf, Larger, Smaller
    <3>2. p \in visited <=> p \in Selected /\ p < window_start
      BY <2>1 DEF CoverInv
    <3>3. (p \in Selected /\ window_start <= p /\ p < window_end) <=> (lo <= p /\ p < hi)
      BY <2>1, SelectedInWindow
    <3>4. ~(lo < hi)
      <4>1. Mapped(lo, hi)
        BY <2>1 DEF SelectInv
      <4> HIDE DEF lo, hi
      <4>2. QED
        BY <2>1, <3>1, <4>1 DEF Mapped
    <3>5. window_start <= window_end
      BY <2>1, <3>1, WindowOrder DEF WindowInv
    <3> HIDE DEF lo, hi
    <3>6. QED
      BY <3>1, <3>2, <3>3, <3>4, <3>5
  <2>4. TestedBelow(window_end)
    BY <2>3 DEF TestedBelow
  <2>5. QED
    BY <2>1, <2>2, <2>4, EndOfHeap DEF CoverInv, TestedBelow
<1>5. CASE DummyTest
  BY <1>5 DEF DummyTest, flowVars, CoverInv
<1>6. CASE BeginTest \/ Tick
  <2>1. /\ pc \in {"mapped", "run"} /\ pc' = "run"
        /\ UNCHANGED <<bail, dummy_run, visited, test_num, window_start,
                       pm_limit_lower, pm_limit_upper>>
    BY <1>6 DEF BeginTest, Tick, configVars, flowVars, windowVars
  <2>2. Selected' = Selected
    BY <2>1 DEF Selected
  <2>3. QED
    BY <2>1, <2>2 DEF CoverInv
<1>7. CASE EndTest
  <2>1. /\ pc = "run" /\ visited' = visited \cup RunPages /\ pc' = AfterWindow
        /\ UNCHANGED <<bail, dummy_run, test_num, window_start, window_end,
                       pm_limit_lower, pm_limit_upper>>
    BY <1>7 DEF EndTest, configVars, flowVars
  <2> SUFFICES ASSUME ~dummy_run, ~bail PROVE CoverInv'
    BY <2>1 DEF CoverInv
  <2>2. Selected' = Selected
    BY <2>1 DEF Selected
  <2>3. ASSUME NEW p \in Heap
        PROVE  p \in visited' <=> p \in Selected /\ p < window_end
    <3>1. p \in Nat /\ window_start \in Nat /\ window_end \in Nat /\ window_num \in Nat
      BY <1>0, TestLoopAssumption DEF TypeOK, Heap
    <3>2. p \in visited <=> p \in Selected /\ p < window_start
      BY <2>1 DEF CoverInv
    <3>3. p \in RunPages <=> p \in Selected /\ window_start <= p /\ p < window_end
      BY <2>1, EndTestCovers
    <3>4. window_start <= window_end
      BY <2>1, <3>1, WindowOrder DEF WindowInv
    <3>5. QED
      BY <2>1, <3>1, <3>2, <3>3, <3>4
  <2>4. AfterWindow \in {"windows", "tested"}
        /\ (AfterWindow = "tested" => \A p \in Heap : p < window_end)
    BY <1>0, TestLoopAssumption DEF AfterWindow, TypeOK, Heap
  <2>5. QED
    BY <2>1, <2>2, <2>3, <2>4 DEF CoverInv
<1>8. CASE ConfigMenu
  <2>1. ~bail' => ~bail /\ UNCHANGED <<pm_limit_lower, pm_limit_upper, enabled>>
    BY <1>8 DEF ConfigMenu
  <2>2. UNCHANGED <<pc, dummy_run, visited, test_num, window_start, window_end>>
    BY <1>8 DEF ConfigMenu, windowVars, flowVars, runVars
  <2>3. ~bail' => Selected' = Selected
    BY <2>1, <2>2 DEF Selected
  <2>4. QED
    BY <2>1, <2>2, <2>3 DEF CoverInv
<1>9. CASE UNCHANGED vars
  <2>1. UNCHANGED <<pc, bail, dummy_run, visited, test_num, window_start, window_end,
                    enabled, pm_limit_lower, pm_limit_upper>>
    BY <1>9 DEF vars, windowVars, configVars, flowVars, runVars
  <2>2. Selected' = Selected
    BY <2>1 DEF Selected
  <2>3. QED
    BY <2>1, <2>2 DEF CoverInv
<1>10. QED
  BY <1>1, <1>2, <1>3, <1>4, <1>5, <1>6, <1>7, <1>8, <1>9, StepsOutside

LEMMA NextBailInv == TypeInv /\ BailInv /\ [Next]_vars => BailInv'
<1> SUFFICES ASSUME TypeInv, BailInv, [Next]_vars PROVE BailInv'
  OBVIOUS
<1> USE DEF BailInv
<1>1. CASE pc' \in Outside
  BY <1>1 DEF Outside
<1>2. CASE RerunTest \/ SkipWindow \/ DummyTest \/ BeginTest \/ Tick \/ EndTest
  BY <1>2 DEF RerunTest, SkipWindow, DummyTest, BeginTest, Tick, EndTest, AfterWindow
<1>3. CASE SetupWindow
  BY <1>3 DEF SetupWindow, configVars
<1>4. CASE ConfigMenu
  BY <1>4 DEF ConfigMenu, AtInput
<1>5. CASE UNCHANGED vars
  BY <1>5 DEF vars, configVars
<1>6. QED
  BY <1>1, <1>2, <1>3, <1>4, <1>5, StepsOutside

(***************************************************************************)
(* IInv is inductive.                                                      *)
(***************************************************************************)
LEMMA InitIInv == Init => IInv
<1> SUFFICES ASSUME Init PROVE IInv
  OBVIOUS
<1>1. TypeInv
  BY InitTypeInv
<1>2. pc = "top"
  BY DEF Init
<1>3. QED
  BY <1>1, <1>2 DEF IInv, WindowInv, MapInv, VisitInv, SelectInv, CoverInv, BailInv

LEMMA NextIInv == IInv /\ [Next]_vars => IInv'
  BY NextTypeInv, NextWindowInv, NextMapInv, NextVisitInv, NextSelectInv, NextCoverInv,
     NextBailInv DEF IInv

LEMMA AlwaysIInv == Spec => []IInv
  BY InitIInv, NextIInv, PTL DEF Spec

-----------------------------------------------------------------------------
(***************************************************************************)
(* An error is reported at the page where it happened: for every size of   *)
(* window, heap and limits, page_of undoes the mapping of the segment the  *)
(* running test was given.                                                 *)
(***************************************************************************)
THEOREM TruePages == Spec => []ReportsTruePage
<1>1. IInv => ReportsTruePage
  <2>1. pc # "run" => ReportsTruePage
    BY DEF ReportsTruePage
  <2>2. QED
    BY <2>1, RunPagesInWindow DEF IInv
<1>2. QED
  BY <1>1, AlwaysIInv, PTL

(***************************************************************************)
(* No page is tested twice in a stage: the pages of a window lie above     *)
(* all windows that are done.                                              *)
(***************************************************************************)
THEOREM PagesOnce == Spec => []NoPageTwice
<1>1. IInv => NoPageTwice
  <2> SUFFICES ASSUME IInv, pc = "run" PROVE RunPages \cap visited = {}
    BY DEF NoPageTwice
  <2>1. RunPages \subseteq window_start .. window_end - 1
    BY RunPagesInWindow DEF IInv
  <2>2. visited \subseteq 0 .. window_start - 1
    BY DEF IInv, VisitInv
  <2>3. window_start \in Nat /\ window_end \in Nat
    BY DEF IInv, TypeInv, TypeOK
  <2>4. QED
    BY <2>1, <2>2, <2>3
<1>2. QED
  BY <1>1, AlwaysIInv, PTL

(***************************************************************************)
(* A stage that was not cut short has tested all selected pages of the     *)
(* heap and no others.                                                     *)
(***************************************************************************)
THEOREM FullCoverage == Spec => []CoversSelection
<1>1. IInv => CoversSelection
  <2>1. Selected \subseteq Heap
    BY DEF Selected
  <2>2. QED
    BY <2>1 DEF IInv, CoverInv, CoversSelection
<1>2. QED
  BY <1>1, AlwaysIInv, PTL

(***************************************************************************)
(* run_test is never entered while the user's wish to leave is pending.    *)
(***************************************************************************)
THEOREM NothingAfterBail == Spec => BailStartsNothing
<1>1. IInv /\ [Next]_vars => [pc # "run" /\ pc' = "run" => ~bail]_vars
  <2> SUFFICES ASSUME IInv, [Next]_vars, pc # "run", pc' = "run" PROVE ~bail
    OBVIOUS
  <2>1. pc = "mapped"
    <3>1. pc' \notin Outside /\ pc' # pc
      BY DEF Outside
    <3>2. ~UNCHANGED vars /\ ~ConfigMenu /\ ~Tick
      BY <3>1 DEF vars, ConfigMenu, Tick
    <3>3. ~RerunTest /\ ~SetupWindow /\ ~SkipWindow /\ ~DummyTest /\ ~EndTest
      BY DEF RerunTest, SetupWindow, SkipWindow, DummyTest, EndTest, AfterWindow
    <3>4. BeginTest
      BY <3>1, <3>2, <3>3, StepsOutside DEF IInv
    <3>5. QED
      BY <3>4 DEF BeginTest
  <2>2. QED
    BY <2>1 DEF IInv, BailInv
<1>2. QED
  BY <1>1, AlwaysIInv, PTL DEF Spec, BailStartsNothing

-----------------------------------------------------------------------------
(***************************************************************************)
(* RunsOnHeapOnly does not hold: run_test begins the low window at the     *)
(* lower limit, wherever the heap begins.  How far it fails follows from   *)
(* the segment that setup_vm_map leaves.                                   *)
(***************************************************************************)
SegmentInv ==
    pc \in {"mapped", "run"} /\ num_mapped_pages > 0 =>
        /\ HeapStart <= vm_map.pm_base_addr
        /\ vm_map.pm_base_addr + num_mapped_pages <= HeapEnd

LEMMA NextSegmentInv == TypeInv /\ SegmentInv /\ [Next]_vars => SegmentInv'
<1> SUFFICES ASSUME TypeInv, SegmentInv, [Next]_vars PROVE SegmentInv'
  OBVIOUS
<1> USE DEF SegmentInv
<1>0. TypeOK
  BY DEF TypeInv
<1>1. CASE pc' \notin {"mapped", "run"}
  BY <1>1
<1>2. CASE SetupWindow
  <2>1. PICK lo \in Nat, hi \in Nat :
             /\ lo = LoOf(window_start', pm_limit_lower')
             /\ hi = HiOf(window_end', pm_limit_upper')
             /\ lo < hi => num_mapped_pages' = hi - lo /\ vm_map'.pm_base_addr = lo
             /\ ~(lo < hi) => num_mapped_pages' = 0
    BY <1>2, SetupResult
  <2>2. window_start' \in Nat /\ window_end' \in Nat
        /\ pm_limit_lower' \in Nat /\ pm_limit_upper' \in Nat
    BY NextTypeInv DEF TypeInv, TypeOK
  <2>3. HeapStart <= lo /\ hi <= HeapEnd
    BY <2>1, <2>2, TestLoopAssumption DEF LoOf, HiOf, Larger, Smaller
  <2>4. lo + (hi - lo) = hi
    OBVIOUS
  <2>5. QED
    BY <2>1, <2>3, <2>4
<1>3. CASE BeginTest
  <2>1. pc = "mapped" /\ UNCHANGED num_mapped_pages
        /\ vm_map'.pm_base_addr = vm_map.pm_base_addr
    BY <1>0, <1>3 DEF BeginTest, TypeOK
  <2>2. QED
    BY <2>1
<1>4. CASE Tick
  BY <1>4 DEF Tick, windowVars
<1>5. CASE ConfigMenu
  BY <1>5 DEF ConfigMenu, windowVars
<1>6. CASE UNCHANGED vars
  BY <1>6 DEF vars, windowVars
<1>7. RerunTest \/ SkipWindow \/ DummyTest \/ EndTest => pc' \notin {"mapped", "run"}
  BY DEF RerunTest, SkipWindow, DummyTest, EndTest, AfterWindow
<1>8. QED
  BY <1>1, <1>2, <1>3, <1>4, <1>5, <1>6, <1>7, StepsOutside DEF Outside

LEMMA AlwaysSegmentInv == Spec => []SegmentInv
<1>1. Init => SegmentInv
  BY DEF Init, SegmentInv
<1>2. TypeInv /\ SegmentInv /\ [Next]_vars => SegmentInv'
  BY NextSegmentInv
<1>3. QED
  BY <1>1, <1>2, AlwaysTypeInv, PTL DEF Spec

\* A page outside of the heap is below it, and the heap begins in the low window.
StraysBelowHeapOnly ==
    pc = "run" => \A p \in RunPages \ Heap :
                      p \in 0 .. HeapStart - 1 /\ HeapStart < LowPages /\ window_num = 0

(***************************************************************************)
(* The only pages outside of the heap that a test runs on are those below  *)
(* a heap that begins inside the low window (tests.c:84): never one above  *)
(* the heap, and none at all when the heap begins elsewhere.               *)
(***************************************************************************)
THEOREM StraysAreLow == Spec => []StraysBelowHeapOnly
<1>1. IInv /\ SegmentInv => StraysBelowHeapOnly
  <2> SUFFICES ASSUME IInv, SegmentInv, pc = "run", NEW p \in RunPages, p \notin Heap
               PROVE  p \in 0 .. HeapStart - 1 /\ HeapStart < LowPages /\ window_num = 0
    BY DEF StraysBelowHeapOnly
  <2> DEFINE base == vm_map.pm_base_addr
             last == base + num_mapped_pages - 1
  <2>1. /\ base \in Nat /\ num_mapped_pages \in Nat \ {0} /\ vm_map.start \in Nat
        /\ window_num \in Nat /\ window_end \in Nat /\ HeapStart \in Nat /\ HeapEnd \in Nat
    BY TestLoopAssumption DEF IInv, TypeInv, TypeOK, MapInv
  <2>2. HeapStart <= base /\ base + num_mapped_pages <= HeapEnd
    BY <2>1 DEF SegmentInv
  <2>3. /\ window_num # 0 => p \in base .. last
        /\ window_num = 0 => p \in vm_map.start .. last
    BY RunPagesInWindow DEF IInv
  <2>4. p \in Nat /\ p < HeapEnd
    BY <2>1, <2>2, <2>3
  <2>5. p < HeapStart
    BY <2>1, <2>4 DEF Heap
  <2>6. window_num = 0
    BY <2>1, <2>2, <2>3, <2>5
  <2>7. base + num_mapped_pages <= LowPages
    BY <2>1, <2>6 DEF IInv, WindowInv, MapInv, IsWindow
  <2>8. LowPages \in Nat
    BY TestLoopAssumption, VmemAssumption
  <2>9. QED
    BY <2>1, <2>2, <2>4, <2>5, <2>6, <2>7, <2>8
<1>2. QED
  BY <1>1, AlwaysIInv, AlwaysSegmentInv, PTL

(***************************************************************************)
(* Hence what main.c says of setup_vm_map is true of every machine whose   *)
(* heap begins at the first page or above the low window.                  *)
(***************************************************************************)
COROLLARY HeapOnly ==
    ASSUME HeapStart = 0 \/ HeapStart >= LowPages
    PROVE  Spec => []RunsOnHeapOnly
<1>1. StraysBelowHeapOnly => RunsOnHeapOnly
  BY TestLoopAssumption DEF StraysBelowHeapOnly, RunsOnHeapOnly
<1>2. QED
  BY <1>1, StraysAreLow, PTL

-----------------------------------------------------------------------------
(***************************************************************************)
(* The main loop implements TestSequence: its first state is an initial    *)
(* state there, and each of its steps is a step there or changes nothing   *)
(* of what TestSequence sees.                                              *)
(***************************************************************************)

(***************************************************************************)
(* What the mapping needs of the loop: a stage that will be run is one the *)
(* test has, and a test begins with stage 0.                               *)
(***************************************************************************)
StageInv ==
    /\ pc = "banner" => test_stage = 0
    /\ start \in {"rerun", "none"} => test_stage < Stages[test_num]

SeqInv == TypeInv /\ StageInv

\* The state of TestSequence that a state of the loop stands for.
Mode  == IF dummy_run THEN "estimate" ELSE "test"
Pass  == IF start = "run" THEN 0 ELSE pass_num
Test  == IF start \in {"run", "pass"} THEN 0 ELSE test_num
Stage == IF start \in {"run", "pass", "test"} THEN 0 ELSE test_stage
Seen  == <<Mode, Pass, Test, Stage, enabled, restart, pc = "halted">>

LEMMA InitStageInv == Init => StageInv
  BY DEF Init, StageInv

LEMMA StagesPositive ==
    ASSUME NEW t \in Tests
    PROVE  Stages[t] \in Nat \ {0}
  BY TestLoopAssumption

LEMMA NextStageInv == TypeInv /\ StageInv /\ [Next]_vars => StageInv'
<1> SUFFICES ASSUME TypeInv, StageInv, [Next]_vars PROVE StageInv'
  OBVIOUS
<1> USE DEF StageInv
<1>0. /\ start \in {"test", "rerun", "none"} => test_num \in Tests /\ Stages[test_num] \in Nat \ {0}
      /\ test_stage \in Nat
      /\ pc = "banner" => start = "test"
  BY StagesPositive DEF TypeInv, TypeOK, IndexInRange, FlowInv
<1>1. CASE StartRun \/ StartPass
  BY <1>1 DEF StartRun, StartPass
<1>2. CASE StartTest
  BY <1>2 DEF StartTest
<1>3. CASE ClearBail
  BY <1>0, <1>3 DEF ClearBail
<1>4. CASE RerunTest
  BY <1>4 DEF RerunTest
<1>5. CASE LeaveOnBail \/ SetupWindow \/ SkipWindow \/ DummyTest
  BY <1>5 DEF LeaveOnBail, SetupWindow, SkipWindow, DummyTest, AfterWindow, flowVars
<1>6. CASE BeginTest \/ Tick \/ EndTest
  BY <1>6 DEF BeginTest, Tick, EndTest, AfterWindow, flowVars
<1>7. CASE HonourRestart
  BY <1>7 DEF HonourRestart
<1>8. CASE NextStage
  BY <1>0, <1>8 DEF NextStage
<1>9. CASE NextTest \/ EndDummyRun \/ NextPass
  BY <1>9 DEF NextTest, EndDummyRun, NextPass, PassOver, TestOver
<1>10. CASE ConfigMenu \/ Escape
  BY <1>10 DEF ConfigMenu, Escape, flowVars
<1>11. CASE Halted \/ UNCHANGED vars
  BY <1>11 DEF Halted, vars, flowVars
<1>12. QED
  BY <1>1, <1>2, <1>3, <1>4, <1>5, <1>6, <1>7, <1>8, <1>9, <1>10, <1>11
     DEF Next, Program, Input

-----------------------------------------------------------------------------
(***************************************************************************)
(* The steps TestSequence does not see.                                    *)
(***************************************************************************)
LEMMA HeadStepsUnseen ==
    ASSUME SeqInv, StartRun \/ StartPass \/ StartTest \/ ClearBail \/ RerunTest
    PROVE  UNCHANGED Seen
<1> USE DEF Seen, Mode, Pass, Test, Stage
<1>1. CASE StartRun
  BY <1>1 DEF StartRun, configVars
<1>2. CASE StartPass
  BY <1>2 DEF StartPass, configVars
<1>3. CASE StartTest
  BY <1>3 DEF StartTest, configVars
<1>4. CASE ClearBail
  BY <1>4 DEF ClearBail, SeqInv, StageInv, TypeInv, FlowInv
<1>5. CASE RerunTest
  BY <1>5 DEF RerunTest, configVars
<1>6. QED
  BY <1>1, <1>2, <1>3, <1>4, <1>5

LEMMA WindowStepsUnseen ==
    ASSUME \/ LeaveOnBail \/ SetupWindow \/ SkipWindow \/ DummyTest
           \/ BeginTest \/ Tick \/ EndTest \/ Halted \/ UNCHANGED vars
    PROVE  UNCHANGED Seen
<1>1. UNCHANGED <<flowVars, enabled, restart, pc = "halted">>
  BY DEF LeaveOnBail, SetupWindow, SkipWindow, DummyTest, BeginTest, Tick, EndTest, Halted,
         AfterWindow, flowVars, configVars, vars
<1>2. QED
  BY <1>1 DEF Seen, Mode, Pass, Test, Stage, flowVars

-----------------------------------------------------------------------------
(***************************************************************************)
(* The steps it does see.                                                  *)
(***************************************************************************)
LEMMA StageStep ==
    ASSUME SeqInv, NextStage
    PROVE  Sequence!NextStage
  BY DEF SeqInv, TypeInv, FlowInv, NextStage, configVars,
         Sequence!NextStage, Sequence!Advance

\* What the three ways to leave a test have in common.
LEMMA LeaveStep ==
    ASSUME SeqInv, TestOver, start' \in {"run", "pass", "test"}
    PROVE  Sequence!LeaveTest /\ start = "none"
<1>1. /\ start = "none" /\ test_stage \in Nat /\ test_num \in Tests
      /\ test_stage < Stages[test_num] /\ Stages[test_num] \in Nat
  BY StagesPositive DEF SeqInv, StageInv, TypeInv, TypeOK, FlowInv, IndexInRange, TestOver
<1>2. QED
  BY <1>1 DEF TestOver, Sequence!LeaveTest, Sequence!Advance

LEMMA TestStep ==
    ASSUME SeqInv, NextTest
    PROVE  Sequence!NextTest
<1>1. Sequence!LeaveTest /\ start = "none"
  BY LeaveStep DEF NextTest
<1>2. test_num' = test_num + 1 /\ test_num + 1 < NUM_TEST_PATTERNS
  BY DEF NextTest, TestOver
<1>3. QED
  BY <1>1, <1>2 DEF NextTest, Sequence!NextTest

LEMMA PassStep ==
    ASSUME SeqInv, EndDummyRun \/ NextPass
    PROVE  Sequence!NextPass
<1>1. /\ TestOver /\ start' \in {"run", "pass"}
      /\ test_num + 1 >= NUM_TEST_PATTERNS
  BY DEF EndDummyRun, NextPass, PassOver, TestOver
<1>2. Sequence!LeaveTest /\ start = "none"
  BY <1>1, LeaveStep
<1>3. test_num \in Tests /\ NUM_TEST_PATTERNS \in Nat /\ pass_num \in Nat /\ MaxPass \in Nat
  BY <1>2, TestLoopAssumption DEF SeqInv, TypeInv, TypeOK, IndexInRange
<1>4. test_num + 1 = NUM_TEST_PATTERNS
  BY <1>1, <1>3 DEF Tests
<1>5. CASE EndDummyRun
  BY <1>2, <1>4, <1>5 DEF EndDummyRun, PassOver, Sequence!NextPass
<1>6. CASE NextPass
  <2>1. Smaller(pass_num + 1, MaxPass) = IF pass_num < MaxPass THEN pass_num + 1 ELSE pass_num
    BY <1>3 DEF Smaller, SeqInv, TypeInv, TypeOK
  <2>2. QED
    BY <1>2, <1>4, <1>6, <2>1 DEF NextPass, Sequence!NextPass
<1>7. QED
  BY <1>5, <1>6

LEMMA RestartStep ==
    ASSUME HonourRestart
    PROVE  Sequence!BeginAgain
  BY DEF HonourRestart, Sequence!BeginAgain

LEMMA InputStep ==
    ASSUME SeqInv, Input
    PROVE  Sequence!Reconfigure \/ Sequence!Stop \/ UNCHANGED Seen
<1>1. CASE ConfigMenu
  <2>1. pc # "halted" /\ UNCHANGED <<pc, flowVars>>
    BY <1>1 DEF ConfigMenu, AtInput
  <2>2. (restart' = TRUE /\ enabled' \in EnabledChoices) \/ UNCHANGED <<restart, enabled>>
    <3>1. restart \in BOOLEAN
      BY DEF SeqInv, TypeInv, TypeOK
    <3>2. PICK changed \in BOOLEAN :
            /\ restart' = (restart \/ changed)
            /\ IF changed THEN enabled' \in EnabledChoices ELSE enabled' = enabled
      BY <1>1 DEF ConfigMenu
    <3>3. CASE changed = TRUE
      BY <3>2, <3>3
    <3>4. CASE changed = FALSE
      BY <3>1, <3>2, <3>4
    <3>5. QED
      BY <3>3, <3>4
  <2>3. QED
    BY <2>1, <2>2 DEF Sequence!Reconfigure, Seen, Mode, Pass, Test, Stage, flowVars
<1>2. CASE Escape
  BY <1>2 DEF Escape, flowVars, configVars, Sequence!Stop
<1>3. QED
  BY <1>1, <1>2 DEF Input

(***************************************************************************)
(* The main loop runs the tests in the order TestSequence states, for any  *)
(* number of tests and stages, any selections and any keys.                *)
(***************************************************************************)
THEOREM LoopImplementsSequence == Spec => ImplementsSequence
<1>1. Init => Sequence!Init
  BY DEF Init, Sequence!Init
<1>2. SeqInv /\ [Next]_vars => [Sequence!Next]_Sequence!vars
  <2> SUFFICES ASSUME SeqInv, [Next]_vars PROVE [Sequence!Next]_Sequence!vars
    OBVIOUS
  <2>1. UNCHANGED Seen => UNCHANGED Sequence!vars
    BY DEF Seen, Mode, Pass, Test, Stage, Sequence!vars
  <2>2. CASE NextStage \/ NextTest \/ EndDummyRun \/ NextPass \/ HonourRestart
    BY <2>2, StageStep, TestStep, PassStep, RestartStep DEF Sequence!Next
  <2>3. CASE Input
    BY <2>1, <2>3, InputStep DEF Sequence!Next
  <2>4. CASE StartRun \/ StartPass \/ StartTest \/ ClearBail \/ RerunTest
    BY <2>1, <2>4, HeadStepsUnseen
  <2>5. CASE \/ LeaveOnBail \/ SetupWindow \/ SkipWindow \/ DummyTest
             \/ BeginTest \/ Tick \/ EndTest \/ Halted \/ UNCHANGED vars
    BY <2>1, <2>5, WindowStepsUnseen
  <2>6. QED
    BY <2>2, <2>3, <2>4, <2>5 DEF Next, Program
<1>3. Spec => []SeqInv
  <2>1. Init => SeqInv
    BY InitTypeInv, InitStageInv DEF SeqInv
  <2>2. SeqInv /\ [Next]_vars => SeqInv'
    BY NextTypeInv, NextStageInv DEF SeqInv
  <2>3. QED
    BY <2>1, <2>2, PTL DEF Spec
<1>4. QED
  BY <1>1, <1>2, <1>3, PTL DEF Spec, ImplementsSequence, Sequence!Spec
====
