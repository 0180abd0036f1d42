----------------------------- MODULE ConfigMenu -----------------------------
(***************************************************************************)
(* The settings menus of a running test (app/config.c) as dialogues: the   *)
(* menu, the four menus below it, and the numbers that are read in them.   *)
(*                                                                         *)
(* TestLoop takes a visit to the menus as one step that leaves a selection *)
(* and limits of certain kinds and sets restart and bail by certain rules; *)
(* here is why it may.  Of the main loop only what it does to the two      *)
(* flags is left.                                                          *)
(*                                                                         *)
(* A number key that only draws is left out, and so is what every menu     *)
(* draws.  There is one segment of memory (system/pmem.c).                 *)
(***************************************************************************)
EXTENDS ReadValue, FiniteSets

CONSTANTS
    HeapStart, HeapEnd,     \* pm_map[0], in pages
    PAGE_SHIFT,             \* log2 of the bytes in a page
    INT_BITS,               \* bits of int
    NUM_TEST_PATTERNS,
    DefaultEnabled,         \* test_list[t].enabled as built
    TEST_FIELD, LIMIT_FIELD,    \* widths of the fields for a test and for a limit
    Keys,                   \* characters the keyboard can deliver
    MaxCommands             \* bound: entries of the menus the user chooses

Tests      == 0 .. NUM_TEST_PATTERNS - 1
CpuModes   == {"PAR", "SEQ", "ONE"}
ErrorModes == {"none", "summary", "address", "badram"}

ASSUME ConfigMenuAssumption ==
    /\ HeapStart \in Nat /\ HeapEnd \in Numbers /\ HeapStart < HeapEnd
    /\ PAGE_SHIFT \in 0 .. WORD - 1 /\ INT_BITS \in Nat \ {0} /\ 2^INT_BITS \in Nat \ {0}
    /\ NUM_TEST_PATTERNS \in Nat \ {0}
    /\ DefaultEnabled \in SUBSET Tests /\ DefaultEnabled # {}
    /\ TEST_FIELD \in Nat /\ LIMIT_FIELD \in Nat
    /\ Keys \subseteq Chars
    /\ MaxCommands \in Nat

\* Facts of arithmetic, for words and fields of this size.
ASSUME PowersAssumption ==
    /\ \A s \in 0 .. WORD - 1 : 2^s \in Nat
    /\ \A base \in {10, 16}, k \in 0 .. TEST_FIELD + LIMIT_FIELD :
         base^k \in Nat /\ base^(k + 1) = base * base^k

VARIABLES
    menu,               \* the menu on the screen, or "closed"
    reading, line,      \* what number is being typed, or "none", and the line
    first,              \* n1 of add_test_range
    enabled,            \* the tests with test_list[t].enabled
    pm_limit_lower, pm_limit_upper, num_pages_to_test,
    cpu_mode, old_cpu_mode, error_mode,
    restart, bail,
    running,            \* history: the settings the test sequence began with
    commands            \* bound

dialogVars == <<menu, reading, line, first>>
limitVars  == <<pm_limit_lower, pm_limit_upper, num_pages_to_test>>
modeVars   == <<cpu_mode, old_cpu_mode, error_mode>>
flagVars   == <<restart, bail, running>>
vars       == <<dialogVars, enabled, limitVars, modeVars, flagVars, commands>>

Settings == <<enabled, pm_limit_lower, pm_limit_upper, cpu_mode>>

-----------------------------------------------------------------------------
(***************************************************************************)
(* update_num_pages_to_test.                                               *)
(***************************************************************************)
\* Mutant of PagesToTest: a segment that reaches over both limits is counted
\* from the lower limit to its own end.
PagesToTestPast(lower, upper) ==
    CASE HeapStart >= lower /\ HeapEnd <= upper -> HeapEnd - HeapStart
      [] HeapStart < lower -> IF HeapEnd < lower THEN 0 ELSE HeapEnd - lower
      [] OTHER -> IF HeapStart > upper THEN 0 ELSE upper - HeapStart

PagesToTest(lower, upper) ==
    CASE HeapStart >= lower /\ HeapEnd <= upper -> HeapEnd - HeapStart
      [] HeapStart < lower -> IF HeapEnd < lower THEN 0
                              ELSE IF HeapEnd > upper THEN upper - lower ELSE HeapEnd - lower
      [] OTHER -> IF HeapStart > upper THEN 0 ELSE upper - HeapStart

\* config_init, after which the first test sequence begins.
Init ==
    /\ menu = "closed" /\ reading = "none" /\ line = Line(0) /\ first = 0
    /\ enabled = DefaultEnabled
    /\ pm_limit_lower = 0 /\ pm_limit_upper = HeapEnd
    /\ num_pages_to_test = PagesToTest(0, HeapEnd)
    /\ cpu_mode = "PAR" /\ old_cpu_mode = "PAR" /\ error_mode = "address"
    /\ restart = FALSE /\ bail = FALSE
    /\ running = Settings /\ commands = 0

-----------------------------------------------------------------------------
(***************************************************************************)
(* The menu itself.                                                        *)
(***************************************************************************)
Command ==
    /\ reading = "none" /\ commands < MaxCommands
    /\ commands' = commands + 1

Open ==
    /\ menu = "closed"
    /\ menu' = "main" /\ old_cpu_mode' = cpu_mode
    /\ UNCHANGED <<reading, line, first, enabled, limitVars, cpu_mode, error_mode, flagVars, commands>>

Enter(sub) ==
    /\ menu = "main"
    /\ menu' = sub
    /\ UNCHANGED <<reading, line, first, enabled, limitVars, modeVars, flagVars, commands>>

\* Mutant of Close: the flags are set before the modes are compared.
CloseEarly(skip) ==
    /\ menu = "main"
    /\ menu' = "closed"
    /\ restart' = (restart \/ cpu_mode # old_cpu_mode)
    /\ bail' = (bail \/ skip \/ restart)
    /\ UNCHANGED <<reading, line, first, enabled, limitVars, modeVars, running, commands>>

\* "Exit menu", or "Skip current test".
Close(skip) ==
    /\ menu = "main"
    /\ menu' = "closed"
    /\ restart' = (restart \/ cpu_mode # old_cpu_mode)
    /\ bail' = (bail \/ skip \/ restart')
    /\ UNCHANGED <<reading, line, first, enabled, limitVars, modeVars, running, commands>>

\* The menu of the tests is not left without one.
Exit ==
    /\ menu \in {"tests", "range", "cpu", "error"} /\ reading = "none"
    /\ menu = "tests" => enabled # {}
    /\ menu' = "main"
    /\ UNCHANGED <<reading, line, first, enabled, limitVars, modeVars, flagVars, commands>>

SetCpuMode ==
    /\ menu = "cpu" /\ Command
    /\ cpu_mode' \in CpuModes
    /\ UNCHANGED <<dialogVars, enabled, limitVars, old_cpu_mode, error_mode, flagVars>>

SetErrorMode ==
    /\ menu = "error" /\ Command
    /\ error_mode' \in ErrorModes
    /\ UNCHANGED <<dialogVars, enabled, limitVars, cpu_mode, old_cpu_mode, flagVars>>

-----------------------------------------------------------------------------
(***************************************************************************)
(* The test selection and the address range, without typing.               *)
(***************************************************************************)
SetAllTests(all) ==
    /\ menu = "tests" /\ Command
    /\ enabled' = IF all THEN Tests ELSE {}
    /\ restart' = TRUE
    /\ UNCHANGED <<dialogVars, limitVars, modeVars, bail, running>>

\* What follows a change of a limit.
SetLimits(lower, upper) ==
    /\ pm_limit_lower' = lower /\ pm_limit_upper' = upper
    /\ num_pages_to_test' = PagesToTest(lower, upper)
    /\ restart' = TRUE

TestAllMemory ==
    /\ menu = "range" /\ Command
    /\ SetLimits(0, HeapEnd)
    /\ UNCHANGED <<dialogVars, enabled, modeVars, bail, running>>

(***************************************************************************)
(* Reading a number.                                                       *)
(***************************************************************************)
FieldOf(what) == IF what \in {"lower", "upper"} THEN LIMIT_FIELD ELSE TEST_FIELD
ShiftOf(what) == IF what \in {"lower", "upper"} THEN -PAGE_SHIFT ELSE 0

Ask(what) ==
    /\ menu = IF what \in {"lower", "upper"} THEN "range" ELSE "tests"
    /\ Command
    /\ reading' = what /\ line' = Line(FieldOf(what))
    /\ UNCHANGED <<menu, first, enabled, limitVars, modeVars, flagVars>>

Type(c) ==
    /\ reading # "none" /\ Accepts(line, c)
    /\ line' = Typed(line, c)
    /\ UNCHANGED <<menu, reading, first, enabled, limitVars, modeVars, flagVars, commands>>

Backspace ==
    /\ reading # "none" /\ line.buffer # <<>>
    /\ line' = Rubbed(line)
    /\ UNCHANGED <<menu, reading, first, enabled, limitVars, modeVars, flagVars, commands>>

Answered == reading' = "none" /\ line' = Line(0) /\ UNCHANGED <<menu, modeVars, bail, running, commands>>

\* A number of a test is assigned to an int: the high bits are lost.
ToInt(v) ==
    LET low == v % 2^INT_BITS
    IN  IF low < 2^(INT_BITS - 1) THEN low ELSE low - 2^INT_BITS

Invalid == UNCHANGED <<first, enabled, limitVars, restart>>

\* Mutant of AnswerTest: removing a test does not ask for a restart.
AnswerTestQuietly(what, v) ==
    /\ reading = what /\ Answered
    /\ IF ToInt(v) \in Tests
         THEN /\ enabled' = IF what = "add" THEN enabled \cup {ToInt(v)} ELSE enabled \ {ToInt(v)}
              /\ restart' = (restart \/ what = "add")
              /\ UNCHANGED <<first, limitVars>>
         ELSE Invalid

\* add_or_remove_test.
AnswerTest(what, v) ==
    /\ reading = what /\ Answered
    /\ IF ToInt(v) \in Tests
         THEN /\ enabled' = IF what = "add" THEN enabled \cup {ToInt(v)} ELSE enabled \ {ToInt(v)}
              /\ restart' = TRUE
              /\ UNCHANGED <<first, limitVars>>
         ELSE Invalid

\* add_test_range.
AnswerFirst(v) ==
    /\ reading = "first"
    /\ IF ToInt(v) \in Tests
         THEN /\ first' = ToInt(v)
              /\ reading' = "last" /\ line' = Line(TEST_FIELD)
              /\ UNCHANGED <<menu, enabled, limitVars, modeVars, flagVars, commands>>
         ELSE Answered /\ Invalid

AnswerLast(v) ==
    /\ reading = "last" /\ Answered
    /\ IF ToInt(v) \in first .. NUM_TEST_PATTERNS - 1
         THEN /\ enabled' = enabled \cup (first .. ToInt(v))
              /\ restart' = TRUE
              /\ UNCHANGED <<first, limitVars>>
         ELSE Invalid

AnswerLower(page) ==
    /\ reading = "lower" /\ Answered
    /\ IF page < pm_limit_upper
         THEN SetLimits(page, pm_limit_upper) /\ UNCHANGED <<first, enabled>>
         ELSE Invalid

AnswerUpper(page) ==
    /\ reading = "upper" /\ Answered
    /\ IF page > pm_limit_lower
         THEN SetLimits(pm_limit_lower, page) /\ UNCHANGED <<first, enabled>>
         ELSE Invalid

\* The newline.
Answer ==
    /\ reading # "none" /\ line.buffer # <<>>
    /\ \E v \in ReadValues(line, ShiftOf(reading)) :
         \/ \E what \in {"add", "remove"} : AnswerTest(what, v)
         \/ AnswerFirst(v) \/ AnswerLast(v) \/ AnswerLower(v) \/ AnswerUpper(v)

-----------------------------------------------------------------------------
(***************************************************************************)
(* The main loop: a new test sequence, and a new test.                     *)
(***************************************************************************)
HonourRestart ==
    /\ menu = "closed" /\ restart
    /\ restart' = FALSE /\ running' = Settings
    /\ UNCHANGED <<dialogVars, enabled, limitVars, modeVars, bail, commands>>

ClearBail ==
    /\ menu = "closed" /\ bail
    /\ bail' = FALSE
    /\ UNCHANGED <<dialogVars, enabled, limitVars, modeVars, restart, running, commands>>

Menus ==
    \/ Open
    \/ \E sub \in {"tests", "range", "cpu", "error"} : Enter(sub)
    \/ \E skip \in BOOLEAN : Close(skip)
    \/ Exit \/ SetCpuMode \/ SetErrorMode
    \/ \E all \in BOOLEAN : SetAllTests(all)
    \/ TestAllMemory

Dialogue ==
    \/ \E what \in {"add", "remove", "first", "lower", "upper"} : Ask(what)
    \/ \E c \in Keys : Type(c)
    \/ Backspace \/ Answer

Next == Menus \/ Dialogue \/ HonourRestart \/ ClearBail

Spec == Init /\ [][Next]_vars

-----------------------------------------------------------------------------
(***************************************************************************)
(* The types of the variables.  A line has its x where it means something, *)
(* and ends with a suffix when it says it has one.                         *)
(***************************************************************************)
LineOK ==
    /\ line.buffer \in Seq(Chars) /\ Len(line.buffer) <= line.width
    /\ line.got_suffix => line.buffer # <<>> /\ line.buffer[Len(line.buffer)] \in Units
    /\ \A i \in DOMAIN line.buffer : line.buffer[i] = "x" => i = 2 /\ line.buffer[1] = "0"

TypeOK ==
    /\ menu \in {"closed", "main", "tests", "range", "cpu", "error"}
    /\ reading \in {"none", "add", "remove", "first", "last", "lower", "upper"}
    /\ reading # "none" => menu = IF reading \in {"lower", "upper"} THEN "range" ELSE "tests"
    /\ LineOK
    /\ first \in Tests
    /\ enabled \subseteq Tests
    /\ pm_limit_lower \in Numbers /\ pm_limit_upper \in Numbers
    /\ num_pages_to_test \in Nat
    /\ cpu_mode \in CpuModes /\ old_cpu_mode \in CpuModes /\ error_mode \in ErrorModes
    /\ restart \in BOOLEAN /\ bail \in BOOLEAN
    /\ commands \in 0 .. MaxCommands

(***************************************************************************)
(* Whatever was typed, wrapped around or cut to an int, a visit hands over *)
(* to the loop what the loop takes for granted: a selection that is not    *)
(* empty, limits in order, and bail when a restart is due.                 *)
(***************************************************************************)
HandsOver ==
    [][menu # "closed" /\ menu' = "closed" =>
          enabled' # {} /\ pm_limit_lower' < pm_limit_upper' /\ (restart' => bail')]_vars

(***************************************************************************)
(* num_pages_to_test, added up case by case, is the number of pages of the *)
(* heap between the limits, wherever they lie.                             *)
(***************************************************************************)
PagesCounted ==
    num_pages_to_test =
        Cardinality({p \in HeapStart .. HeapEnd - 1 : pm_limit_lower <= p /\ p < pm_limit_upper})

(***************************************************************************)
(* README.md: "Any change to the selected tests, address range, or CPU     *)
(* sequencing mode will start a new test sequence".  While the loop runs   *)
(* under settings other than those its sequence began with, a restart is   *)
(* due, over any number of visits and of changes back and forth.           *)
(***************************************************************************)
NoStaleRun == menu = "closed" /\ Settings # running => restart

(***************************************************************************)
(* A number of decimal digits with at most one suffix is read as what it   *)
(* says, modulo the word, as long as it is not to be scaled down.          *)
(***************************************************************************)
ReadExact ==
    (/\ reading # "none" /\ WellFormed(line)
     /\ \A i \in DOMAIN line.buffer : line.buffer[i] \notin Letters
     /\ TotalShift(line, ShiftOf(reading)) >= 0) =>
        ReadValues(line, ShiftOf(reading)) = {Documented(line, ShiftOf(reading))}

(***************************************************************************)
(* What lib/read.h says of every number: base 16 after "0x", else base 10, *)
(* scaled by the suffix and by 2^shift.  It asks little: one of the values *)
(* that a build may read is the right one.                                 *)
(***************************************************************************)
ReadAsDocumented ==
    reading # "none" /\ WellFormed(line) =>
        Documented(line, ShiftOf(reading)) \in ReadValues(line, ShiftOf(reading))
=============================================================================
