------------------------------ MODULE TestLoop ------------------------------
(***************************************************************************)
(* The main loop of the program (app/main.c), with the part of run_test    *)
(* (tests/tests.c) and do_tick (app/display.c) that it drives.             *)
(*                                                                         *)
(* One loop walks all passes, tests, stages and windows of physical        *)
(* memory, keeping its position in global flags.  Two dummy passes, which  *)
(* touch no memory, first count the ticks every test will take; the real   *)
(* passes then run for ever.  The keyboard is polled at a few places deep  *)
(* inside the loop, and what the user does there (new test selection, new  *)
(* address limits, skip, exit) acts on the loop through the flags restart  *)
(* and bail.                                                               *)
(*                                                                         *)
(* Memory is counted in pages.  The port has one physical segment, the     *)
(* heap (system/pmem.c), so pm_map and vm_map have at most one entry:      *)
(* vm_map is that entry and vm_map_size is 1 when num_mapped_pages > 0.    *)
(***************************************************************************)
EXTENDS Vmem, FiniteSets

CONSTANTS
    HeapStart, HeapEnd,     \* pm_map[0], in pages: [HeapStart, HeapEnd)
    PAGE_SIZE,              \* bytes in a page
    LOW_LOAD_LIMIT,         \* bytes in the low window
    NUM_TEST_PATTERNS,      \* tests are numbered from 0
    Stages,                 \* test_list[t].stages
    Ticks,                  \* Ticks[t][type]: ticks a test takes per window
    FadeTest, FadeStages,   \* the bit fade test and its two waiting stages
    DefaultEnabled,         \* test_list[t].enabled as built
    Keys,                   \* keys the keyboard can deliver
    EnabledChoices,         \* selections the test selection menu can leave
    LimitChoices,           \* limits <<lower, upper>> the address menu can leave
    MaxPass                 \* bound: pass_num stays at MaxPass once it is there

NUM_PASS_TYPES == 2
Tests     == 0 .. NUM_TEST_PATTERNS - 1
PassTypes == 0 .. NUM_PASS_TYPES - 1
LowPages  == LOW_LOAD_LIMIT \div PAGE_SIZE
Heap      == HeapStart .. HeapEnd - 1

ASSUME TestLoopAssumption ==
    /\ HeapStart \in Nat /\ HeapEnd \in Nat /\ HeapStart < HeapEnd
    /\ LOW_LOAD_LIMIT \in Nat /\ PAGE_SIZE \in Nat \ {0}
    /\ LowPages \in 1 .. VM_WINDOW_SIZE
    /\ NUM_TEST_PATTERNS \in Nat \ {0}
    /\ Stages \in [Tests -> Nat \ {0}]
    /\ Ticks \in [Tests -> [PassTypes -> Nat]]
    /\ FadeTest \in Tests /\ FadeStages \subseteq Nat \ {0}
    /\ Keys \subseteq {"escape", "menu", "skip"}
    /\ DefaultEnabled \in SUBSET Tests
    /\ EnabledChoices \subseteq SUBSET Tests
    /\ LimitChoices \subseteq {l \in Nat \X Nat : l[1] < l[2]}
    /\ MaxPass \in Nat /\ MaxPass >= NUM_PASS_TYPES

VARIABLES
    pc,                 \* where in the loop body the program is
    start,              \* the highest of the start_* and rerun_test flags set
    dummy_run,          \* the run that only counts ticks
    pass_num, test_num, test_stage,
    window_num, window_start, window_end,
    num_mapped_pages, vm_map,           \* the mapped part of the window
    mapped_window,                      \* of vmem.c
    enabled,                            \* the tests with test_list[t].enabled
    pm_limit_lower, pm_limit_upper,     \* the limits the user has set
    restart, bail,                      \* what the menu asks of the loop
    last_stage,         \* static in test_bit_fade: the stage it ran last
    ticks_left,         \* ticks the running test still has to make
    ticks_per_test, ticks_per_pass,     \* counted by the dummy run
    test_ticks, pass_ticks,             \* counted by do_tick
    visited             \* history: pages tested so far in this stage

flowVars   == <<start, dummy_run, pass_num, test_num, test_stage>>
windowVars == <<window_num, window_start, window_end, num_mapped_pages, vm_map>>
configVars == <<enabled, pm_limit_lower, pm_limit_upper, restart, bail>>
runVars    == <<mapped_window, last_stage, ticks_left, visited>>
tickVars   == <<ticks_per_test, ticks_per_pass, test_ticks, pass_ticks>>
vars       == <<pc, flowVars, windowVars, configVars, runVars, tickVars>>

-----------------------------------------------------------------------------
(***************************************************************************)
(* Start of the run (global_init, config_init, the initial values).        *)
(***************************************************************************)
Init ==
    /\ pc = "top" /\ start = "run" /\ dummy_run = TRUE
    /\ pass_num = 0 /\ test_num = 0 /\ test_stage = 0
    /\ window_num = 0 /\ window_start = 0 /\ window_end = 0
    /\ num_mapped_pages = 0
    /\ vm_map = [pm_base_addr |-> 0, start |-> 0, end |-> 0]
    /\ mapped_window = InitMappedWindow
    /\ enabled = DefaultEnabled
    /\ pm_limit_lower = 0 /\ pm_limit_upper = HeapEnd
    /\ restart = FALSE /\ bail = FALSE
    /\ last_stage = -1 /\ ticks_left = 0 /\ visited = {}
    /\ ticks_per_test = [p \in PassTypes |-> [t \in Tests |-> 0]]
    /\ ticks_per_pass = [p \in PassTypes |-> 0]
    /\ test_ticks = 0 /\ pass_ticks = 0

(***************************************************************************)
(* The keyboard.  check_input is polled after the windows of a stage, in   *)
(* every do_tick and error report of a running test, and while the "start  *)
(* test" lines scroll.  One visit to the settings menu is one step, for    *)
(* nothing else runs meanwhile; changed stands for any menu entry that     *)
(* sets restart, a selection or a limit equal to the old one and the CPU   *)
(* mode, which means nothing on one CPU, included.                         *)
(***************************************************************************)
AtInput ==
    \/ pc \in {"run", "tested"}
    \/ pc = "top" /\ start = "test"
    \/ pc = "banner" /\ ~dummy_run /\ test_num \in enabled

ConfigMenu ==
    /\ AtInput /\ "menu" \in Keys
    /\ \E changed, skip \in BOOLEAN :
        /\ skip => "skip" \in Keys
        /\ IF changed
             THEN /\ enabled' \in EnabledChoices
                  /\ \E l \in LimitChoices : pm_limit_lower' = l[1] /\ pm_limit_upper' = l[2]
             ELSE UNCHANGED <<enabled, pm_limit_lower, pm_limit_upper>>
        /\ restart' = (restart \/ changed)
        /\ bail' = (bail \/ skip \/ restart')
    /\ UNCHANGED <<pc, flowVars, windowVars, runVars, tickVars>>

Escape ==
    /\ AtInput /\ "escape" \in Keys
    /\ pc' = "halted"
    /\ UNCHANGED <<flowVars, windowVars, configVars, runVars, tickVars>>

\* halt(0) does not return.
Halted == pc = "halted" /\ UNCHANGED vars

-----------------------------------------------------------------------------
(***************************************************************************)
(* The head of the loop.  start_run sets start_pass, which sets            *)
(* start_test, which sets rerun_test, so the highest flag says which of    *)
(* the blocks run; each block is a step that leaves the next flag.         *)
(***************************************************************************)
\* Mutant of StartRun: the pass number of the old run stays.
StartRunKeepsPass ==
    /\ pc = "top" /\ start = "run"
    /\ start' = "pass"
    /\ UNCHANGED <<pc, dummy_run, pass_num, test_num, test_stage, windowVars, configVars,
                   runVars, tickVars>>

StartRun ==
    /\ pc = "top" /\ start = "run"
    /\ pass_num' = 0
    /\ start' = "pass"
    /\ UNCHANGED <<pc, dummy_run, test_num, test_stage, windowVars, configVars, runVars, tickVars>>

StartPass ==
    /\ pc = "top" /\ start = "pass"
    /\ test_num' = 0
    /\ start' = "test"
    /\ IF dummy_run
         THEN ticks_per_pass' = [ticks_per_pass EXCEPT ![pass_num] = 0] /\ UNCHANGED pass_ticks
         ELSE pass_ticks' = 0 /\ UNCHANGED ticks_per_pass
    /\ UNCHANGED <<pc, dummy_run, pass_num, test_stage, windowVars, configVars, runVars,
                   ticks_per_test, test_ticks>>

\* Up to the trace lines: display_start_test clears test_ticks before it scrolls.
StartTest ==
    /\ pc = "top" /\ start = "test"
    /\ test_stage' = 0
    /\ IF dummy_run
         THEN ticks_per_test' = [ticks_per_test EXCEPT ![pass_num][test_num] = 0] /\ UNCHANGED test_ticks
         ELSE /\ test_ticks' = IF test_num \in enabled THEN 0 ELSE test_ticks
              /\ UNCHANGED ticks_per_test
    /\ pc' = "banner"
    /\ UNCHANGED <<start, dummy_run, pass_num, test_num, windowVars, configVars, runVars,
                   ticks_per_pass, pass_ticks>>

ClearBail ==
    /\ pc = "banner"
    /\ bail' = FALSE
    /\ start' = "rerun"
    /\ pc' = "top"
    /\ UNCHANGED <<dummy_run, pass_num, test_num, test_stage, windowVars,
                   enabled, pm_limit_lower, pm_limit_upper, restart, runVars, tickVars>>

RerunTest ==
    /\ pc = "top" /\ start = "rerun"
    /\ window_num' = 0 /\ window_start' = 0 /\ window_end' = 0
    /\ start' = "none"
    /\ visited' = {}
    /\ pc' = IF test_num \in enabled THEN "windows" ELSE "tested"
    /\ UNCHANGED <<dummy_run, pass_num, test_num, test_stage, num_mapped_pages, vm_map,
                   configVars, mapped_window, last_stage, ticks_left, tickVars>>

-----------------------------------------------------------------------------
(***************************************************************************)
(* test_all_windows.                                                       *)
(***************************************************************************)
PassType == IF pass_num = 0 THEN 0 ELSE 1

\* Mutant of AfterWindow: the loop ends after one window.
AfterOneWindow == "tested"

\* The loop condition of the do-while: where a `continue` or the end of the body goes.
AfterWindow == IF window_end < HeapEnd THEN "windows" ELSE "tested"

LeaveOnBail ==
    /\ pc = "windows" /\ bail
    /\ pc' = "tested"
    /\ UNCHANGED <<flowVars, windowVars, configVars, runVars, tickVars>>

\* The window the body works on: the low window is left out when the test
\* has several stages or the lower limit is above it.
WindowNum ==
    IF window_num = 0 /\ (Stages[test_num] > 1 \/ pm_limit_lower >= LOW_LOAD_LIMIT)
        THEN 1 ELSE window_num

\* Mutant of WindowBounds: a window begins on the last page of the one before.
WindowBoundsOverlap(n) ==
    CASE n = 0 -> <<0, LowPages>>
      [] n = 1 -> <<LowPages, VM_WINDOW_SIZE>>
      [] OTHER -> <<window_end - 1, window_end + VM_WINDOW_SIZE - 1>>

WindowBounds(n) ==
    CASE n = 0 -> <<0, LowPages>>
      [] n = 1 -> <<LowPages, VM_WINDOW_SIZE>>
      [] OTHER -> <<window_end, window_end + VM_WINDOW_SIZE>>

Larger(a, b)  == IF a < b THEN b ELSE a
Smaller(a, b) == IF a < b THEN a ELSE b

\* Mutant of setup_vm_map: an empty part is counted.
setup_vm_map_unchecked(win_start, win_end) ==
    LET Lo == Larger(HeapStart, Larger(win_start, pm_limit_lower))
        Hi == Smaller(HeapEnd, Smaller(win_end, pm_limit_upper))
    IN  num_mapped_pages' = Hi - Lo /\ UNCHANGED vm_map

\* The part [Lo, Hi) of the window that is both selected and in the heap.
setup_vm_map(win_start, win_end) ==
    LET Lo == Larger(HeapStart, Larger(win_start, pm_limit_lower))
        Hi == Smaller(HeapEnd, Smaller(win_end, pm_limit_upper))
    IN  IF Lo < Hi
          THEN /\ num_mapped_pages' = Hi - Lo
               /\ vm_map' = [pm_base_addr |-> Lo,
                             start |-> first_word_mapping(Lo),
                             end   |-> first_word_mapping(Hi - 1)]
          ELSE num_mapped_pages' = 0 /\ UNCHANGED vm_map

\* Mutant of SetupWindow: bail is not looked at.
SetupWindowAnyway ==
    /\ pc = "windows"
    /\ window_num' = WindowNum
    /\ window_start' = WindowBounds(WindowNum)[1]
    /\ window_end'   = WindowBounds(WindowNum)[2]
    /\ setup_vm_map(WindowBounds(WindowNum)[1], WindowBounds(WindowNum)[2])
    /\ pc' = "mapped"
    /\ UNCHANGED <<flowVars, configVars, runVars, tickVars>>

SetupWindow ==
    /\ pc = "windows" /\ ~bail
    /\ window_num' = WindowNum
    /\ window_start' = WindowBounds(WindowNum)[1]
    /\ window_end'   = WindowBounds(WindowNum)[2]
    /\ setup_vm_map(WindowBounds(WindowNum)[1], WindowBounds(WindowNum)[2])
    /\ pc' = "mapped"
    /\ UNCHANGED <<flowVars, configVars, runVars, tickVars>>

SkipWindow ==
    /\ pc = "mapped" /\ num_mapped_pages = 0
    /\ window_num' = window_num + 1
    /\ pc' = AfterWindow
    /\ UNCHANGED <<flowVars, window_start, window_end, num_mapped_pages, vm_map,
                   configVars, runVars, tickVars>>

\* The ticks of one call of run_test.  The bit fade test waits in the first
\* window of a waiting stage only; it keeps the last stage it ran.
RunTicks ==
    IF test_num = FadeTest /\ test_stage \in FadeStages /\ test_stage = last_stage
        THEN 0 ELSE Ticks[test_num][PassType]

\* Mutant of NoteStage: the dummy run does not take note.
NoteStageReal == last_stage' = IF test_num = FadeTest /\ ~dummy_run THEN test_stage ELSE last_stage

NoteStage == last_stage' = IF test_num = FadeTest THEN test_stage ELSE last_stage

\* run_test(-1, ...) counts ticks and touches no memory.
DummyTest ==
    /\ pc = "mapped" /\ num_mapped_pages > 0 /\ dummy_run
    /\ ticks_per_test' = [ticks_per_test EXCEPT ![pass_num][test_num] = @ + RunTicks]
    /\ NoteStage
    /\ window_num' = window_num + 1
    /\ pc' = AfterWindow
    /\ UNCHANGED <<flowVars, window_start, window_end, num_mapped_pages, vm_map, configVars,
                   mapped_window, ticks_left, visited, ticks_per_pass, test_ticks, pass_ticks>>

\* map_window and the first lines of run_test: in the low window the test
\* starts at the lower limit, whatever setup_vm_map found.
BeginTest ==
    /\ pc = "mapped" /\ num_mapped_pages > 0 /\ ~dummy_run
    /\ mapped_window' = map_window(vm_map.pm_base_addr, mapped_window)
    /\ vm_map' = IF window_num = 0
                   THEN [vm_map EXCEPT !.start = first_word_mapping(pm_limit_lower)]
                   ELSE vm_map
    /\ ticks_left' = RunTicks
    /\ pc' = "run"
    /\ UNCHANGED <<flowVars, window_num, window_start, window_end, num_mapped_pages,
                   configVars, last_stage, visited, tickVars>>

\* One block of the test and its do_tick.  After a bail the rest of the test
\* may still make some of its ticks: a test leaves its phases one by one.
Tick ==
    /\ pc = "run" /\ ticks_left > 0
    /\ ticks_left' \in IF bail THEN 0 .. ticks_left - 1 ELSE {ticks_left - 1}
    /\ test_ticks' = test_ticks + 1
    /\ pass_ticks' = pass_ticks + 1
    /\ UNCHANGED <<pc, flowVars, windowVars, configVars, mapped_window, last_stage, visited,
                   ticks_per_test, ticks_per_pass>>

RunPages == {page_of(v, mapped_window) : v \in vm_map.start .. vm_map.end}

EndTest ==
    /\ pc = "run" /\ ticks_left = 0
    /\ NoteStage
    /\ visited' = visited \cup RunPages
    /\ window_num' = window_num + 1
    /\ pc' = AfterWindow
    /\ UNCHANGED <<flowVars, window_start, window_end, num_mapped_pages, vm_map, configVars,
                   mapped_window, ticks_left, tickVars>>

-----------------------------------------------------------------------------
(***************************************************************************)
(* The rest of the loop body: what comes after the windows of a stage.     *)
(***************************************************************************)
\* Mutant of HonourRestart: the flag stays.
HonourRestartAgain ==
    /\ pc = "tested" /\ restart
    /\ start' = "run" /\ dummy_run' = TRUE
    /\ pc' = "top"
    /\ UNCHANGED <<pass_num, test_num, test_stage, windowVars, enabled, restart,
                   pm_limit_lower, pm_limit_upper, bail, runVars, tickVars>>

HonourRestart ==
    /\ pc = "tested" /\ restart
    /\ start' = "run" /\ dummy_run' = TRUE /\ restart' = FALSE
    /\ pc' = "top"
    /\ UNCHANGED <<pass_num, test_num, test_stage, windowVars, enabled,
                   pm_limit_lower, pm_limit_upper, bail, runVars, tickVars>>

\* Mutant of NextStage: a restart is not waited for.
NextStageAnyway ==
    /\ pc = "tested" /\ test_num \in enabled
    /\ test_stage + 1 < Stages[test_num]
    /\ test_stage' = test_stage + 1
    /\ start' = "rerun"
    /\ pc' = "top"
    /\ UNCHANGED <<dummy_run, pass_num, test_num, windowVars, configVars, runVars, tickVars>>

NextStage ==
    /\ pc = "tested" /\ ~restart /\ test_num \in enabled
    /\ test_stage + 1 < Stages[test_num]
    /\ test_stage' = test_stage + 1
    /\ start' = "rerun"
    /\ pc' = "top"
    /\ UNCHANGED <<dummy_run, pass_num, test_num, windowVars, configVars, runVars, tickVars>>

\* The test is over: count its ticks in a dummy run and move to the next one.
TestOver ==
    /\ pc = "tested" /\ ~restart
    /\ test_num \in enabled => test_stage + 1 >= Stages[test_num]
    /\ test_stage' = IF test_num \in enabled THEN 0 ELSE test_stage
    /\ ticks_per_pass' =
         IF dummy_run
           THEN [ticks_per_pass EXCEPT ![pass_num] = @ + ticks_per_test[pass_num][test_num]]
           ELSE ticks_per_pass
    /\ test_num' = test_num + 1
    /\ pc' = "top"
    /\ UNCHANGED <<windowVars, enabled, pm_limit_lower, pm_limit_upper, restart, bail, runVars,
                   ticks_per_test, test_ticks, pass_ticks>>

NextTest ==
    /\ TestOver
    /\ test_num' < NUM_TEST_PATTERNS
    /\ start' = "test"
    /\ UNCHANGED <<dummy_run, pass_num>>

PassOver == TestOver /\ test_num' >= NUM_TEST_PATTERNS

\* The ticks of both kinds of pass are known: the real run starts.
EndDummyRun ==
    /\ PassOver
    /\ dummy_run /\ pass_num + 1 = NUM_PASS_TYPES
    /\ pass_num' = pass_num + 1
    /\ start' = "run" /\ dummy_run' = FALSE

NextPass ==
    /\ PassOver
    /\ ~(dummy_run /\ pass_num + 1 = NUM_PASS_TYPES)
    /\ pass_num' = Smaller(pass_num + 1, MaxPass)
    /\ start' = "pass"
    /\ UNCHANGED dummy_run

-----------------------------------------------------------------------------
Input == ConfigMenu \/ Escape

Program ==
    \/ StartRun \/ StartPass \/ StartTest \/ ClearBail \/ RerunTest
    \/ LeaveOnBail \/ SetupWindow \/ SkipWindow \/ DummyTest
    \/ BeginTest \/ Tick \/ EndTest
    \/ HonourRestart \/ NextStage \/ NextTest \/ EndDummyRun \/ NextPass

Next == Program \/ Input \/ Halted

\* The program runs on; nobody has to press a key.
Spec == Init /\ [][Next]_vars /\ WF_vars(Program)

-----------------------------------------------------------------------------
(***************************************************************************)
(* The types of the variables.                                             *)
(***************************************************************************)
TypeOK ==
    /\ pc \in {"top", "banner", "windows", "mapped", "run", "tested", "halted"}
    /\ start \in {"run", "pass", "test", "rerun", "none"}
    /\ dummy_run \in BOOLEAN /\ restart \in BOOLEAN /\ bail \in BOOLEAN
    /\ pass_num \in 0 .. MaxPass
    /\ test_num \in 0 .. NUM_TEST_PATTERNS
    /\ test_stage \in Nat
    /\ window_num \in Nat /\ window_start \in Nat /\ window_end \in Nat
    /\ num_mapped_pages \in Nat
    /\ vm_map \in [pm_base_addr : Nat, start : Nat, end : Nat]
    /\ mapped_window \in Nat
    /\ enabled \subseteq Tests
    /\ pm_limit_lower \in Nat /\ pm_limit_upper \in Nat
    /\ last_stage \in Nat \cup {-1}
    /\ ticks_left \in Nat
    /\ ticks_per_test \in [PassTypes -> [Tests -> Nat]]
    /\ ticks_per_pass \in [PassTypes -> Nat]
    /\ test_ticks \in Nat /\ pass_ticks \in Nat
    /\ visited \subseteq Nat

(***************************************************************************)
(* Every virtual page the running test touches was derived from a page of  *)
(* the window's physical segment, and page_of turns it back into exactly   *)
(* that page: an error is reported at the place it happened, in windows    *)
(* above the pinned region too, where all windows share virtual addresses. *)
(***************************************************************************)
ReportsTruePage ==
    pc = "run" =>
        \A v \in vm_map.start .. vm_map.end :
            LET first == first_word_mapping(vm_map.pm_base_addr)
            IN  v >= first => page_of(v, mapped_window) = vm_map.pm_base_addr + (v - first)

(***************************************************************************)
(* A stage that was not cut short has tested every heap page inside the    *)
(* limits, wherever limits, windows and segment ends fall; a test of       *)
(* several stages leaves out the low window.                               *)
(***************************************************************************)
Selected ==
    {p \in Heap : /\ pm_limit_lower <= p /\ p < pm_limit_upper
                  /\ Stages[test_num] > 1 => p >= LowPages}

CoversSelection ==
    (pc = "tested" /\ ~dummy_run /\ ~bail /\ test_num \in enabled) =>
        visited \cap Heap = Selected

(***************************************************************************)
(* No window overlaps an earlier one of the same stage: a page is tested   *)
(* once per stage.  (A multi-stage test relies on it: a second fill would  *)
(* overwrite what the check expects.)                                      *)
(***************************************************************************)
NoPageTwice == pc = "run" => RunPages \cap visited = {}

(***************************************************************************)
(* The ticks the dummy run counted are the ticks a test takes: at the end  *)
(* of a test that nobody interrupted the progress bar is exactly full, and *)
(* so is the bar of the pass when the pass ends.                           *)
(***************************************************************************)
TestComplete ==
    /\ pc = "tested" /\ ~dummy_run /\ ~bail /\ ~restart
    /\ test_num \in enabled /\ test_stage + 1 = Stages[test_num]

EstimateExact ==
    /\ TestComplete => test_ticks = ticks_per_test[PassType][test_num]
    /\ (TestComplete /\ enabled \cap (test_num + 1 .. NUM_TEST_PATTERNS - 1) = {}) =>
           pass_ticks = ticks_per_pass[PassType]

(***************************************************************************)
(* Skipping a test during the dummy run makes an estimate too small, never *)
(* too large: the bar of a test that ran to its end is full, also after    *)
(* any number of reconfigurations.                                         *)
(***************************************************************************)
BarCompletes == TestComplete => test_ticks >= ticks_per_test[PassType][test_num]

(***************************************************************************)
(* pass_num indexes arrays of NUM_PASS_TYPES during the dummy run only,    *)
(* and a restart in a later pass comes with a pass_num far outside: it is  *)
(* in range again before anything is counted, and so is test_num.          *)
(***************************************************************************)
IndexInRange ==
    /\ dummy_run /\ start # "run" => pass_num < NUM_PASS_TYPES
    /\ start \in {"test", "rerun", "none"} => test_num \in Tests

(***************************************************************************)
(* Once bail is set no further window is tested, in this stage or a later  *)
(* one, until the next test starts: run_test is entered with bail clear.   *)
(***************************************************************************)
BailStartsNothing == [][pc # "run" /\ pc' = "run" => ~bail]_vars

(***************************************************************************)
(* A reconfiguration is eventually taken up, whatever the program was      *)
(* doing and however often the user returns to the menu.                   *)
(***************************************************************************)
RestartHonoured == restart ~> (~restart \/ pc = "halted")

(***************************************************************************)
(* Every selected test is run again and again.                             *)
(***************************************************************************)
EveryTestRuns ==
    \A t \in Tests : [](t \in enabled) => []<>(pc = "run" /\ test_num = t)

(***************************************************************************)
(* The loop, with its flags and its detour through the end of the body,    *)
(* runs the tests in the order TestSequence states: no stage of a selected *)
(* test is left out or run out of turn, a skipped test gives way to the    *)
(* next one, and after a reconfiguration nothing advances before the loop  *)
(* has begun again.  A position that the flags say will be reset at the    *)
(* head of the loop counts as reset.                                       *)
(***************************************************************************)
Sequence == INSTANCE TestSequence WITH
    N <- NUM_TEST_PATTERNS, Passes <- NUM_PASS_TYPES,
    Default <- DefaultEnabled, Choices <- EnabledChoices, LastPass <- MaxPass,
    mode     <- IF dummy_run THEN "estimate" ELSE "test",
    pass     <- IF start = "run" THEN 0 ELSE pass_num,
    test     <- IF start \in {"run", "pass"} THEN 0 ELSE test_num,
    stage    <- IF start \in {"run", "pass", "test"} THEN 0 ELSE test_stage,
    selected <- enabled, pending <- restart, stopped <- (pc = "halted")

ImplementsSequence == Sequence!Spec

(***************************************************************************)
(* What main.c says of setup_vm_map: only memory that is in a physical     *)
(* segment is tested.                                                      *)
(***************************************************************************)
RunsOnHeapOnly == pc = "run" => RunPages \subseteq Heap
=============================================================================
