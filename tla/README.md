# A TLA+ model of memtest86plus-am

memtest86plus-am is the memory tester memtest86+ ported to the abstract machine
of a teaching platform.  It runs alone on one CPU: one loop walks passes, tests,
stages and windows of memory for ever, and polls the keyboard at a few places
deep inside.  Nothing is concurrent in the sense of threads, but almost every
operation can be interrupted by the user in the middle: a poll may change the
selection of tests, the address range or the error mode, skip a test or halt the
machine, and then returns into the middle of a test or of an error report.  The
parts talk through global variables and flags.  That, long histories of legal
operations, and arithmetic at the ends of ranges are where this program can go
wrong without a test noticing, and what the models are about.

## The parts of the program

| part | source | state | operations | what makes it correct |
|---|---|---|---|---|
| main loop | `app/main.c` | the flags start_run, start_pass, start_test, rerun_test, dummy_run; pass, test, stage, window; vm_map; restart, bail | one turn of the loop, test_all_windows, setup_vm_map | the selected tests run in order, each on all selected memory once per stage; a request of the user is taken up; nothing runs after it |
| virtual memory | `system/vmem.c`, `system/pmem.c` | mapped_window, pm_map | map_window, first_word_mapping, page_of | a virtual address is reported as the page it stands for |
| memory tests | `tests/*.c` | the tested memory, a static last_stage | eleven tests, called with my_cpu = -1 to count ticks | sound memory passes, faulty memory is found and the right word is blamed, no access outside the range, ticks as counted |
| error reports | `app/error.c` | error_count, error_info, error_mode, last_error_mode, test_list[].errors | common_err, error_update, error_init | statistics are those of the errors of this run, in all modes; what is displayed is up to date |
| BadRAM patterns | `app/badram.c` | a sorted list of address/mask pairs | badram_insert, badram_init | every fault is covered; sound memory is given up only when the list is full |
| menus | `app/config.c` | selection, limits, num_pages_to_test, error mode, CPU mode, restart, bail | config_init, config_menu and four menus below it, update_num_pages_to_test | selection never empty, limits in order, restart set by every change, pages counted right |
| line input | `lib/read.c` | the line being typed | read_value | the number is the one that was typed |
| display | `app/display.c`, `system/screen.c` | the message area and its row, banner and what it hides, scroll lock, status, ticks of tests and passes | scroll, check_input, do_tick, display_start_*, (re)store and removal of the banner | progress as estimated; banner true and gone without a trace; a failure is told |
| formatting | `lib/print.c`, `lib/string.c` | | layout of text | |
| serial console | `system/serial.c` | | copies the screen, delivers keys | |
| barriers, locks, CPU data | `lib/barrier.c`, `lib/spinlock.h`, `system/cpulocal.c` | | no effect with one CPU | |
| hardware access | `system/cpuinfo.c`, `system/cache.h`, `system/memrw*.h`, `lib/unistd.c` | | speed, caches, sleep, one word read or written | |

How they interact: the main loop calls the tests through run_test; a test calls
data_error or addr_error for each wrong word and do_tick after each block; both
may poll the keyboard (check_input), which may open the menus; the menus write
the selection, limits, restart and bail, which the loop and the tests read later.
error.c calls page_of with the window mapped then, and hands faults to badram.c.
Errors, trace lines and the banner are all drawn into one message area, in whatever
order they come.

The hard behaviour, by kind: requests that arrive between two steps and are
overwritten or looked at too late; flags and static variables that survive from
the dummy run, an earlier test or an earlier run; windows that share their
virtual addresses; counters at limits, the last words of a range;
a list that is full.  `PROJECT.json` lists each hazard with its line and the
properties that would notice it.

## The modules

| module | models | extends | checked by |
|---|---|---|---|
| `Vmem` | `system/vmem.c` by pages | | in TestLoop, ErrorLog and MemTests |
| `TestLoop` | `app/main.c`, with the polls and ticks of `app/display.c` and the end effects of `app/config.c` | Vmem | `MCTestLoop` |
| `TestSequence` | abstract: the order of tests the loop promises | | refined by TestLoop |
| `BadRam` | `app/badram.c` | | `MCBadRam` |
| `ErrorLog` | the counters, statistics, modes and patterns of `app/error.c` | BadRam, Vmem | `MCErrorLog` |
| `ErrorStats` | abstract: what the error statistics promise | | refined by ErrorLog |
| `MemTests` | `tests/*.c` and the switch of run_test | Vmem | `MCMemTests` |
| `ReadValue` | `lib/read.c` | | in ConfigMenu |
| `ConfigMenu` | `app/config.c` | ReadValue | `MCConfigMenu` |
| `Display` | the message area: `app/display.c`, `system/screen.c`, and who draws there | | `MCDisplay` |

The proofs are in modules of their own: `TestLoopProofs` (with the refinement of
TestSequence), `EstimateProofs` (extends it), `BadRamProofs`, `ErrorLogProofs` (which
needs BadRamProofs), `MemTestsProofs`, `PatternProofs` (extends it),
`ConfigMenuProofs` and `DisplayProofs`.

Variables and operators keep the names of the source.  `PROJECT.json` maps every
definition to its lines.  An operator that is commented as the mutant of the one
below it is not part of the model: it is a plausible bug, and the property of a
run must fail when it takes the place of the original.  `visited` of TestLoop,
`faulty` of BadRam, `seen`, `total` and `owed` of ErrorLog, `errors` of MemTests and
`running` of ConfigMenu are history variables: the program has no such state, and
no guard but that of a bound reads them.  `commands` of ConfigMenu only counts up
to its bound.

### TestLoop

Memory is counted in pages.  The port has one physical segment (`pmem.c` makes
pm_map from the heap), so vm_map has at most one entry.  A turn of the loop is
cut where something may happen in between: each of the blocks at its head is one
action, and `start` is the highest of the four flags set, since start_run implies
start_pass and so on when the loop tests them.  `pc` says where the turn is:
`top`, `banner` (after display_start_test has begun to scroll, before bail is
cleared), `windows` and `mapped` (in test_all_windows), `run` (in run_test),
`tested` (after it) and `halted`.

The keyboard is an environment: at each place where the source polls it,
`ConfigMenu` and `Escape` may occur, any number of times.  A visit to the menus is
one action because nothing else runs meanwhile; several visits compose.  The
constant `Keys` says which keys there are.  The build without a serial console
reads none (`Keys = {}`); the console reads all.

run_test is seen from the loop only: the ticks it makes, the pages it reaches, and
that after a bail it may make some, but not all, of the ticks it had left.
MemTests checks that promise (`TicksEstimated`) from the other side.

### BadRam

A word is the set of its 1 bits.  The counter of `addresses` is a word too and
wraps at 2^WIDTH, so an empty mask covers 0 addresses, as in the source.  The one
action has the whole of badram_insert: covered or not, insertion, and the merge
when the list has grown too long.

### ErrorLog and ErrorStats

An error is named by its physical word; its virtual address follows with
first_word_mapping, and that page_of finds the way back is theorem `TruePages`.
`Report` is common_err for the tests, `ChangeHeader` is error_update when the mode
has changed, `SetMode` the menu, `StartRun` the three calls at the start of a real
run.  A report that adds to a list on the screen (`Listed`: an error that is no
duplicate, or a BadRAM pattern that is new) polls the keyboard before it draws there.
`Report` ends at that poll: the mode it found is in `last_error_mode`, counters and
figures are changed, and what it has left to do is in `open`, when the mode may become
another one; `EndReport` is the rest.  Nothing but `SetMode` happens to the reports
in between.  `header` is the mode whose header the message area was given last, and
`summary` what is drawn under it: no figures, or one set of figures, which can be out
of date.  Trace lines, which may scroll over both, are left to Display.

ErrorStats knows nothing of modes, counters and orders of comparison.  Its three
actions are an error (`Found`, after which the figures are those of all errors of
this run), a change of what is shown (`Redraw`: the figures of now, or none) and
`NewRun`.  The mapping reads the figures out of error_info, the average out of
total_bits and error_count, and the screen as `summary` with its header (`OnScreen`)
where a summary is due.  Figures under the header of a list are not allowed: that is
what would come of a report that noted the mode it ends in, not the one it drew for.
The length of a run of neighbouring errors is left open, for the reason under
"Disagreements".

### MemTests

A test is a sequence of phases, and a phase is a walk over the range of a window:
which way, with which pattern, checking or writing what, in which stride.  `phases`
is that sequence for the call of run_test that is going on, chosen when it begins
(tests 5, 8 and 9 take their seeds from the clock).  The
actions do one word (or one block of sixteen words, or half of a move) at a time.
A block of at most SPIN_SIZE words ends with a tick, where bail may be found set.
`my_cpu = -1` is the dummy run, which counts blocks and touches nothing.  Every
test is run first as the dummy run and then as the real one, over all stages and
windows, as the main loop does it.

The memory is external.  A fault is a stuck cell, a cell that answers at another's
address, a cell that is written with its neighbour, or a cell that fades while the
program sleeps; the word is the unit of address, so a fault acts on words.  A word
that has not been written holds a value that equals no pattern and no other word.

### ReadValue and ConfigMenu

A line is its characters, the width of its field and got_suffix; the base is
recomputed from the characters after every key, and so is not kept.  `ReadValues`
is a set because `value >> shift` with a negative shift is undefined: the number
of places is taken modulo the word, as processors do, and either direction is
allowed.  A number of a test is cut to an int (`ToInt`).

TestLoop takes a visit to the menus as one step.  ConfigMenu opens that step: each
entry of each menu is an action, and a number that is typed is a sequence of keys
and a newline.  It is written to discharge what TestLoop assumes (`HandsOver`), so
that of the main loop only what happens to the two flags is left (`HonourRestart`,
`ClearBail`).

### Display

The rows are those that scroll.  A row has two parts, because the banner covers
some of its columns (`mid`) and not the others (`side`); saving and restoring work on
`mid` alone, scrolling on both.  A line of the list of errors fills both, a trace
line only `side`.  `todo` holds the lines that the caller of scroll has still to
print.  There are four polls of the keyboard: in a report before its line is
printed (`report`), in the scroll lock (`wait`), in a tick (`tick`) and after a test
(`tested`).  Any key removes the banner for good; Space, Enter, the menu and Escape do
more.  The sequence of tests is left open, since TestLoop has it, and so are
addresses: which errors are listed and which are taken for duplicates of the one
before is a free choice.

## The runs

| run | instance | shows |
|---|---|---|
| `TestLoop` | windows of 4 pages, heap 3..13 over four windows, tests of 1, 2 and 6 stages, no key | `EstimateExact`, `NoPageTwice`, `EveryTestRuns` |
| `TestLoopKeys` | the same heap, tests of 1 and 3 stages, all keys at all polls; three selections; limits inside the low window, inside windows, across the pinned boundary and above the heap | types, `ReportsTruePage`, `CoversSelection`, `IndexInRange`, `BailStartsNothing`, `RestartHonoured`, `ImplementsSequence` |
| `TestLoopEstimate` | two windows, tests of 1 and 2 stages with one tick each, menu and skip | `BarCompletes` |
| `BadRam` | words of 6 bits, lists of 3, eleven addresses | types, `FaultsCovered`, `SortedAndBounded`, `ExactWhileItFits`, `OnlyGrows` |
| `ErrorLog` | four words: neighbours in a page and across pages, and two at one virtual address; two masks; counters that stop at 2 and 1; lists of 2; up to 3 reports; the mode changed between them and in the middle of one | types, `CapturesAll`, `PatternsOfThisRun`, `ImplementsStats` |
| `MemTests` | two windows of 32 words that share virtual addresses, blocks of 16, stride 5, words of 8 bits, all tests, sound memory and ten faults | types, `NoFalseAlarm`, `AccessesInside`, `BlamesTheFault`, `StuckFound`, `AliasFound`, `CouplingFound`, `FadeFound`, `TicksEstimated`, `TestEnds` |
| `ConfigMenu` | words of 6 bits, ints of 4, pages of 4 bytes, fields of 2 and 3 characters, seven keys, three entries chosen in any menus over any number of visits | types, `PagesCounted`, `NoStaleRun`, `ReadExact`, `HandsOver` |
| `Display` | four rows of which the banner covers three, three errors in a run, all keys at all polls | types, `BannerTrue`, `NoGhost`, `NewestWhole`, `FailureTold` |

Each property is stated in words where it is defined.  Four more runs each look for
a violation; see "Disagreements".

Why the bounds are enough.  The loop treats windows 0 and 1 specially and all
others alike, and two windows above the pinned region already share addresses:
a heap over windows 0 to 3 has every case.  The tests differ for the loop in having
one stage or several, and in bit fade; there is one of each.  `pass_num` matters as
0, 1 or more, and stays at `MaxPass`.  The number of ticks of a call is a constant
of the test and the kind of pass, since equal windows have equal ticks; with keys,
ticks are left out or 1, because they only add polls.  A list of 3 patterns is the
shortest in which a merge has neighbours on a side.  A block in MemTests is half a
window: on 64 bits a window is one block, on 32 bits it has at most two.  The
stride 5 divides neither block nor window, like 20.  `MaxReports` bounds the reports
of one run; the limits of the counters lie below it, so they are reached.  In
ConfigMenu two digits exceed an int and three a word, so numbers are cut and wrap;
one suffix scales by less than a page and one by more; `MaxCommands` of 3 is enough
to change a setting, change it back and change another, in one visit or in three.
Deadlock is not checked there: at the bound, a menu with an empty selection cannot
be left, as the code demands.  In Display the lines of three errors and the trace
lines between them scroll every row through the region and under the banner.

Fairness.  The only condition is weak fairness of the program's own actions
(`Program` in TestLoop and Display, `Run` in MemTests): one CPU executes one loop.
None is assumed of the user, so `RestartHonoured` and `EveryTestRuns` hold for one who
never presses a key, and `RestartHonoured` for one who returns to the menu at every
poll, too.  With scroll lock on the program waits for a key for ever, as it should:
`FailureTold` says so, and TestLoop leaves that wait out.  ErrorLog and ConfigMenu
state no fairness: errors and dialogues come when they come, and their properties
are about what happened so far.

### Disagreements between the code and what is said of it

Four runs each look for the violation of one property that a document or comment
states, and find it:

- `TestLoopLowHeap`: a heap that begins inside the low window but above the lower
  limit is tested from the limit on, outside of the segment (`tests.c:84`).
- `MemTestsModulo`: the last words of a range are not checked by test 9
  (`modulo_n.c:117`).  `StuckFound` and `CouplingFound` say which words are.
- `ConfigMenuRead`: a limit that is typed without a suffix, or with one smaller than
  a page, is shifted by a negative count, and no processor makes the number of pages
  of it (`read.c:136`).
- `DisplayList`: removing the banner puts back the middle of rows that have scrolled
  meanwhile, so that a row shows halves of two errors (`display.c:283`).  `NewestWhole`
  says what holds all the same.

Others were met while modelling and are kept as the code has them.  No run is spent
on them:

- A skip asked for while the announcement of a test scrolls is lost, because bail is
  cleared after that poll (`main.c:405`).
- After a change to the summary, an error that changes no figure clears the area
  and shows none (`error.c:204`); ErrorStats allows "no figures" for this reason.
- Errors per test are never reset (`error.c:304`).
- Two neighbouring words that fail in turn make an ever longer run of "contiguous"
  errors (`error.c:119`).
- The letters of a hexadecimal number count 0 to 5 (`read.c:130`).
- An average that changes alone is not redrawn (`error.c:225`): what is drawn is the
  average of the last change of another figure.
- Errors are listed unless the virtual address and the bits are those of the last
  one; two windows share virtual addresses, so an error at another word can be left
  out as a duplicate (`error.c:241`).
- A PASS banner stays over the lines of a new run until a key or an error removes it
  (`main.c:491`).

## What is proved

For every value of the constants that satisfies the named assumptions:

- `LoopTyped`, `NoBadIndex`, `TruePages`, `PagesOnce`, `FullCoverage`, `NothingAfterBail`
  of TestLoop.  The assumptions are `VmemAssumption` (the pinned region is two
  windows) and `TestLoopAssumption` (a heap that is not empty, at least one
  test, stages and passes, limits in order).  The invariant `IInv` is the
  conjunction of
  - `TypeInv`: types, and the indices while ticks are counted;
  - `WindowInv`: where window_start and window_end lie for each window_num, in
    particular that windows from number 2 on are whole and aligned, which is what
    makes the arithmetic of page_of right;
  - `MapInv`: vm_map is the part of the window between limits and heap;
  - `VisitInv`: the pages visited lie below the window (hence none twice);
  - `SelectInv` and `CoverInv`: up to the window's start everything selected has
    been visited, so that at the end all has;
  - `BailInv`: where bail can be set at all.

  None of the properties is inductive without the others: coverage needs that
  the windows follow each other, and true pages that the mapped window is that
  of vm_map.
- `LoopImplementsSequence`: Init and every action of TestLoop map to Init and an
  action of TestSequence or a stutter.  The mapping reads a position that a flag is
  about to reset as reset already.
- `StraysAreLow` and `HeapOnly` of TestLoop say how far `RunsOnHeapOnly`, which
  `TestLoopLowHeap` finds violated, does hold: a page outside of the heap is tested
  only below a heap that begins inside the low window, and none is when the heap
  begins at page 0 or above that window.  `SegmentInv` adds to `IInv` that
  what is mapped lies in the heap.
- `BarFills` and `EstimatesExact` of TestLoop.  A tick has a name: test, stage, window
  and the number of the tick in that call.  The dummy run and the real run then count
  the size of finite sets of such names, and no sum over windows is needed.  The
  invariant has `LoopInv` (where the two runs stand to each other), `CountInv` (the
  counters are the sizes of the sets of names behind), `DoneInv` and `LastInv` (what a
  run that is over has counted), `PassInv` (the same for the tests of a pass) and
  `QuietInv` (without keys nothing is skipped).  A
  test that the user skips in the dummy run makes the estimate only too small, so that
  a bar is full no later than the test is over.
- `ListTyped`, `NoFaultLost`, `ListSorted`, `CoverageGrows`, `ExactUntilFull` of BadRam,
  from `BadRamAssumption` and `PowersAssumption`, a fact about powers of two that the
  provers have no theory of and TLC evaluates.  The invariant says that patterns are
  normal (no address bit outside the mask), sorted, at most MAX_PATTERNS, and cover
  what was inserted; the lemmas show that a combination covers what both cover, that
  a cost of 0 means covered although the counter wraps, and that insertion keeps a
  list sorted.
- `StatsImplemented`, `PatternsCapture`, `PatternsFresh`, `LogTyped` of ErrorLog.  `StatsInv`
  says that the figures are those of `seen` and that what was drawn in summary mode
  is what would be drawn now, although the mode may have changed since: hence a
  return to the summary that is not redrawn shows no stale figures.  It also says that
  the header on the screen is that of last_error_mode, at every step of a report: a
  change of the mode in the middle of one is seen by the next report or tick.  The
  order in which addresses are compared (offset within page) has to agree with the
  order of words.
  `PatternInv` adds to the list's own invariant that what is owed was found in this
  run and in the mode the header is drawn for; the list itself is left to the lemmas
  of BadRamProofs.
- `MenuTyped`, `VisitHandsOver`, `PagesAlwaysCounted`, `NeverStale` of ConfigMenu.  The
  invariant says of the selection that it is not empty outside the menu of tests,
  and of the settings that without a restart due they are those of the running
  sequence, with the CPU mode of the moment the menu was opened.  These four need
  of read_value only that it returns a word; `MenuTyped` follows the line key by key.
- `ReadAlwaysExact` of ConfigMenu says which word: a line of decimal digits and at most
  one suffix is read as the number it says, modulo the word.  The invariant is that
  of the line (`LineFine`: it fits its field, and where an x and a suffix can stand
  after any keys and backspaces) and of the width of that field (`WidthInv`).  Such a line is evaluated in two ways,
  both by folds of the library, which recur over sets of indices: `FoldExists` shows
  first, by the least length for which there is none, that such a fold is defined and
  what it returns.  `Horner` then shows that the loop of read_value, which multiplies
  by the base and cuts to the word at every digit, differs from the sum over the places
  by a multiple of 2^WORD, and `ShiftInWord` that the shift by a suffix keeps that
  true.  Its `PowersAssumption` lists facts of arithmetic about powers, up to the
  length of a field, that the provers have no theory of; TLC evaluates them.
- `AreaTyped`, `BannerIsTrue`, `NoGhostLeft`, `NewestIsWhole` of Display.  The invariant
  speaks of the area as it would be behind the banner: pieces of the banner are in
  the rows it covers and nowhere in what was saved, the row printed last is whole
  behind it, and no banner is on display while the line of an error is printed.
- `NoWordOutside` of MemTests: no test reads or writes outside of its range.  `CallInv`
  says that the phases of a call are well formed (their steps, directions and strides),
  which goes through the switch of run_test and each of the eleven tests, and
  `PointerInv` where p and pe are for each kind of phase.  The lists of phases are
  made by recursive functions; instead of induction, the proof takes the least
  counterexample (`LeastNat`).
- `TicksCounted` of MemTests: the ticks of both runs are again sets of names (stage,
  window, phase, end of the block, repetition of the sleep), since the plan of a call is
  alike whatever patterns the clock gives.  The sleep of bit fade depends on a static
  variable that the dummy run leaves behind; `SleepInv` says that it stands the same way
  at the start of both.
- `GoodMemoryPasses` and `OnlyFaultsBlamed` of MemTests, in PatternProofs: what a check
  expects of a word is what was left there, by the phase before, by a call in an
  earlier window or, in tests 2 and 10, by an earlier stage.
  - A pattern that is turned or drawn from word to word is an orbit: the value at a
    word is the seed turned as often as there are words before it.  A list of phases
    is *linked* (`Linked`): what a phase leaves behind (`Leaves`) is what the next one
    wants (`Want`), at every word of the range, the inner loops of tests 5, 8 and 9
    with their seeds included.  That the eleven tests make linked lists is proved test
    by test.
  - `PatternInv` follows memory inside a phase, for each kind of phase: words behind
    p hold what is left, words ahead what is wanted (`WholeInv`); the words between two
    of a stride are spared (`SparedInv`, `NthInv`); blocks of sixteen (`BlocksInv`); the two halves
    that block_move shifts (`MoveInv`); walking addresses (`WalkInv`).  `RestInv` is the
    same between two phases, `StoreInv` between stages and windows.
  - All of it is said of sound cells only (`FaultyCells` are the others): a sound cell
    is read and written as good memory, whatever the fault, and an error at it would be
    a false alarm.  Hence both theorems at once.

- `StuckAlwaysFound`, `FadeAlwaysFound` and `CouplingAlwaysFound` of MemTests: a fault
  that a test is for has been reported when the test is done.  `HuntInv` says why.  A
  phase that was through with the suspect cell has reported it, unless what it wanted
  to read there is what the fault makes of the cell (`EscapeInv`, `FoundInv`).  Two
  linked phases want a value and its complement, and no value and its complement both
  look right under a stuck bit; a random seed does not help the fault.  The victim of
  a coupling comes after the other cell on the way up or on the way down, where it is
  read after it was spoilt (`SpoilInv`).  In bit fade, `FadeInv` carries
  what the sleep left through the stages, and through the windows in which nobody
  sleeps.
- `AliasAlwaysFound` of MemTests: a fill leaves at the one cell behind two addresses what
  belongs to the second of them.  `AliasInv` says that the check that follows then
  meets another value at the first address, or writes the complement there and meets
  that at the second.  Test 2 is different, because it fills all windows before it
  looks at any: `OwnInv` says that the higher of the two was filled last, with its own
  physical number, and that the lower one is looked at first.  For the other tests,
  `ApartInv` leaves the windows out that do not hold both addresses.
- `TestsTyped` of MemTests: types, of which those of memory need an argument.  Every
  write is a testword, because it comes from the pattern or, in a block move, from a
  word that has been filled before (`FilledInv`).

What is assumed of MemTests:

- `MemTestsAssumption`: sizes, and windows that ascend and do not overlap, as the
  entries of a memory map do;
- `FaultsAssumption`: faults lie in tested memory, a stuck cell has a stuck bit, and
  an alias or a coupling has two cells;
- `AddressAssumption`: a testword is as wide as an address, so that no two addresses
  are stored as the same word.  It is true on 64 bits, and on 32 bits of memory below
  4 GB; above, the own address tests cannot tell two addresses apart that are 4 GB
  from each other.  Only `AliasAlwaysFound` uses it.

Only model-checked: liveness (`EveryTestRuns`, `RestartHonoured`, `TestEnds`,
`FailureTold`), which TLAPS cannot prove under fairness.  Every safety property and both
refinements that the runs check are proved.

## What is not modelled

- The boot command line: parse_command_line has no caller in this port.  With it
  config_menu(true) is out of reach, because pause_at_start is false.
- What the menus and reports draw: formatting, positions, the save and restore of
  the pop-up window within one poll; progress bars, clock, spinner, the figures at
  the top, the serial copy of the screen.
- Parity and ECC errors, which this build never reports.
- The reads between the writes of half a block move: a half is read before it is
  written, where the source copies word by word.  On sound memory that is the same.  What faulty memory holds after a move may differ, but
  errors of this test say nothing about cells: `StuckFound`, `AliasFound` and
  `CouplingFound` leave it out, and `BlamesTheFault` is about what reaches BadRAM.
- Addresses in the list of errors: Display takes any choice of duplicates.
- Several CPUs: chunks, barriers, locks, CPU modes.  Changing the CPU mode is a
  restart.
- The byte offset 0x500 at which the low window starts when the limit is 0: it lies
  inside page 0.
- SKIP_RANGE: a range is made of whole pages and never too small for a test.
- Windows above the third gigabyte: the port maps none of them, the models take
  `vmem.h` at its word.
- Hardware access: speed measurement, caches, sleeping.

## Plan

Done: all components that keep state of their own, and a proof of every safety
property.  What could follow: Display composed with ErrorLog, so that duplicates are
those of addresses, and a bound can be stated on what a list may leave out.
