------------------------------ MODULE ErrorLog ------------------------------
(***************************************************************************)
(* The error reports (app/error.c): the counters, the statistics and the   *)
(* message area of the screen, in all four reporting modes.                *)
(*                                                                         *)
(* The tests report an error at a virtual address.  That page_of gives its *)
(* true page is a theorem of TestLoop, so an error is named by its         *)
(* physical word here, and its virtual address follows from the page.      *)
(* The user may change the mode at any poll of the keyboard, also between  *)
(* two errors of one test and in the middle of a report, and may restart   *)
(* the run.  Trace lines, which scroll over the same rows, are in Display. *)
(***************************************************************************)
EXTENDS BadRam, Vmem

CONSTANTS
    PAGE_WORDS,         \* testwords in a page
    FaultWords,         \* physical words at which errors are found
    Xors,               \* good ^ bad, as sets of bits
    Tests,
    ERROR_LIMIT,        \* error_count stays here
    INT_MAX,            \* and test_list[t].errors here
    MaxReports          \* bound: reports in a run

NoPage  == 1000000      \* UINTPTR_MAX: no fault has a page this high
NO_BITS == 255          \* of min_bits while there is no error

Modes == {"none", "summary", "address", "badram"}

VARIABLES
    error_mode, last_error_mode,
    error_count,
    errors,             \* test_list[t].errors
    error_info,         \* statistics, last_addr and run_length included
    test_num,
    header,             \* the mode whose header the message area was given last
    summary,            \* the statistics drawn under it: one set, or none
    open,               \* the report that waits at its poll, or none
    seen, total,        \* history: what was reported in this run, and how often
    owed                \* history: what BadRAM mode must have a pattern for

logVars == <<error_mode, last_error_mode, error_count, errors, error_info, test_num,
             header, summary, open, seen, total, owed, patterns, faulty>>

Address(word) == [page |-> word \div PAGE_WORDS, offset |-> word % PAGE_WORDS]

\* What the test held in its pointer, in testwords.
VirtualWord(word) ==
    first_word_mapping(word \div PAGE_WORDS) * PAGE_WORDS + (word % PAGE_WORDS)

\* The word as badram_insert is given it.
BadRamAddress(word) ==
    {i \in DEFAULT_MASK : (word \div 2^(i - ALIGN)) % 2 = 1}

ASSUME ErrorLogAssumption ==
    /\ PAGE_WORDS \in Nat \ {0} /\ FaultWords \subseteq Nat
    /\ \A word \in FaultWords :
           word \div PAGE_WORDS < NoPage /\ BadRamAddress(word) \in Addresses
    /\ \A x \in Xors : IsFiniteSet(x) /\ x # {} /\ Cardinality(x) <= NO_BITS
    /\ ERROR_LIMIT \in Nat \ {0} /\ INT_MAX \in Nat \ {0} /\ MaxReports \in Nat

\* error_init.
ClearInfo ==
    [min_addr |-> [page |-> NoPage, offset |-> PAGE_WORDS - 1],
     max_addr |-> [page |-> 0, offset |-> 0],
     bad_bits |-> {}, min_bits |-> NO_BITS, max_bits |-> 0, total_bits |-> 0,
     run_length |-> 0, max_run |-> 0, last_addr |-> 0, last_xor |-> {}]

Init ==
    /\ BadRamInit
    /\ error_mode = "address" /\ last_error_mode = "none"
    /\ error_count = 0 /\ errors = [t \in Tests |-> 0]
    /\ error_info = ClearInfo
    /\ test_num \in Tests
    /\ header = "none" /\ summary = {} /\ open = {}
    /\ seen = {} /\ total = 0 /\ owed = {}

-----------------------------------------------------------------------------
(***************************************************************************)
(* update_error_info.                                                      *)
(***************************************************************************)
Precedes(a, b) == a.page < b.page \/ (a.page = b.page /\ a.offset < b.offset)

Least(m, n)  == IF m < n THEN m ELSE n
Most(m, n)   == IF m < n THEN n ELSE m

\* min_addr and max_addr start as pseudo-addresses, so the page alone may decide.
Lower(a, b)  == IF Precedes(a, b) THEN a ELSE b
Higher(a, b) == IF Precedes(b, a) THEN a ELSE b

BitsCounted(n) ==
    IF error_count < ERROR_LIMIT THEN error_info.total_bits + n ELSE error_info.total_bits

update_error_info(word, bits) ==
    LET n    == Cardinality(bits)
        addr == VirtualWord(word)
        next == /\ error_info.max_run > 0
                /\ addr \in {error_info.last_addr + 1, error_info.last_addr - 1}
        run  == IF next THEN error_info.run_length + 1 ELSE 1
    IN  [error_info EXCEPT
            !.min_addr   = Lower(Address(word), @),
            !.max_addr   = Higher(Address(word), @),
            !.bad_bits   = @ \cup bits,
            !.min_bits   = Least(@, n),
            !.max_bits   = Most(@, n),
            !.total_bits = BitsCounted(n),
            !.run_length = run,
            !.max_run    = Most(@, run)]

WordOf(addr) == addr.page * PAGE_WORDS + addr.offset

\* What the summary shows of the statistics.
Shown(info) == [lowest |-> WordOf(info.min_addr), highest |-> WordOf(info.max_addr),
                mask |-> info.bad_bits, least |-> info.min_bits, most |-> info.max_bits,
                run |-> info.max_run]

\* update_stats: the return value of update_error_info.
NewStats(info, bits) ==
    \/ Shown(info) # Shown(error_info)
    \/ error_info.bad_bits # bits

(***************************************************************************)
(* common_err.  kind is "addr" for an address error, which counts no bits, *)
(* "data", and "move" for a data error of the block move test, of which    *)
(* BadRAM makes no use.                                                    *)
(***************************************************************************)
\* Mutant of NewHeader: the second error clears the message area too.
NewHeaderTwice == error_count <= 1 \/ error_mode # last_error_mode

NewHeader == error_count = 0 \/ error_mode # last_error_mode

\* The patterns are cleared with the message area, before the error is added.
OldPatterns == IF NewHeader THEN <<>> ELSE patterns

RecordBadRam(word, use) ==
    LET was == IF NewHeader THEN {} ELSE faulty
    IN  IF error_mode = "badram" /\ use
          THEN badram_insert_into(OldPatterns, was, BadRamAddress(word))
          ELSE patterns' = OldPatterns /\ faulty' = was

\* A new header clears what was drawn under the old one.
DrawArea(draw, info) ==
    /\ header' = IF NewHeader THEN error_mode ELSE header
    /\ summary' = IF error_mode = "summary" /\ draw THEN {Shown(info)}
                  ELSE IF NewHeader THEN {} ELSE summary

\* A report that adds to a list on the screen polls the keyboard first: a new single
\* error, and patterns that did not cover the error yet (badram_display).
Listed(word, xor, use) ==
    \/ /\ error_mode = "address"
       /\ \/ NewHeader
          \/ VirtualWord(word) # error_info.last_addr
          \/ xor # error_info.last_xor
    \/ /\ error_mode = "badram" /\ use
       /\ ~is_covered(OldPatterns, [addr |-> BadRamAddress(word), mask |-> DEFAULT_MASK])

\* Mutant of Counted: the limit is lost.
CountedOn == error_count + 1

Counted == Least(error_count + 1, ERROR_LIMIT)

Report(word, xor, kind) ==
    LET bits == IF kind = "addr" THEN {} ELSE xor
        info == update_error_info(word, bits)
        addr == VirtualWord(word)
    IN  /\ open = {} /\ total < MaxReports
        /\ last_error_mode' = error_mode
        /\ RecordBadRam(word, kind = "data")
        /\ error_count' = Counted
        /\ errors' = [errors EXCEPT ![test_num] = Least(@ + 1, INT_MAX)]
        /\ DrawArea(NewStats(info, bits), info)
        /\ IF Listed(word, xor, kind = "data")
             THEN open' = {[addr |-> addr, xor |-> xor]} /\ error_info' = info
             ELSE /\ open' = {}
                  /\ error_info' = [info EXCEPT !.last_addr = addr, !.last_xor = xor]
        /\ seen' = seen \cup {[word |-> word, bits |-> bits]}
        /\ total' = total + 1
        /\ owed' = IF error_mode = "badram" /\ kind = "data" THEN owed \cup {word} ELSE owed
        /\ UNCHANGED <<error_mode, test_num>>

\* Mutant of EndReport: the mode is noted at the end, when it may be another one.
EndReportNotesMode ==
    /\ \E e \in open : error_info' = [error_info EXCEPT !.last_addr = e.addr, !.last_xor = e.xor]
    /\ open' = {}
    /\ last_error_mode' = error_mode
    /\ UNCHANGED <<error_mode, error_count, errors, test_num, header, summary,
                   seen, total, owed, patterns, faulty>>

\* check_input and scroll have returned: the list is drawn and the report ends.
EndReport ==
    /\ \E e \in open : error_info' = [error_info EXCEPT !.last_addr = e.addr, !.last_xor = e.xor]
    /\ open' = {}
    /\ UNCHANGED <<error_mode, last_error_mode, error_count, errors, test_num, header, summary,
                   seen, total, owed, patterns, faulty>>

\* error_update after the mode was changed; in the same mode it changes nothing here.
ChangeHeader ==
    /\ open = {} /\ error_count > 0 /\ error_mode # last_error_mode
    /\ last_error_mode' = error_mode
    /\ badram_init
    /\ DrawArea(TRUE, error_info)
    /\ error_info' = [error_info EXCEPT !.last_addr = 0, !.last_xor = {}]
    /\ UNCHANGED <<error_mode, error_count, errors, test_num, open, seen, total, owed>>

-----------------------------------------------------------------------------
(***************************************************************************)
(* What the rest of the program does to the reports.                       *)
(***************************************************************************)

\* The menu: error_mode_menu assigns error_mode and no more, also while a report is open.
SetMode ==
    /\ error_mode' \in Modes \ {error_mode}
    /\ owed' = {}
    /\ UNCHANGED <<last_error_mode, error_count, errors, error_info, test_num, header, summary,
                   open, seen, total, patterns, faulty>>

\* Mutant of StartRun: without badram_init.
StartRunKeepsPatterns ==
    /\ open = {}
    /\ error_count' = 0 /\ error_info' = ClearInfo
    /\ seen' = {} /\ total' = 0 /\ owed' = {}
    /\ UNCHANGED <<error_mode, last_error_mode, errors, test_num, header, summary, open,
                   patterns, faulty>>

\* A new run: display_start_run, badram_init and error_init.
StartRun ==
    /\ open = {}
    /\ error_count' = 0 /\ error_info' = ClearInfo
    /\ badram_init
    /\ seen' = {} /\ total' = 0 /\ owed' = {}
    /\ UNCHANGED <<error_mode, last_error_mode, errors, test_num, header, summary, open>>

NextTest ==
    /\ open = {}
    /\ test_num' \in Tests \ {test_num}
    /\ UNCHANGED <<error_mode, last_error_mode, error_count, errors, error_info, header, summary,
                   open, seen, total, owed, patterns, faulty>>

Next ==
    \/ \E word \in FaultWords, xor \in Xors, kind \in {"addr", "data", "move"} :
         Report(word, xor, kind)
    \/ EndReport \/ ChangeHeader \/ SetMode \/ StartRun \/ NextTest

Spec == Init /\ [][Next]_logVars

-----------------------------------------------------------------------------
(***************************************************************************)
(* The types of the variables.                                             *)
(***************************************************************************)
TypeOK ==
    /\ error_mode \in Modes /\ last_error_mode \in Modes /\ header \in Modes
    /\ open \subseteq [addr : Nat, xor : Xors]
    /\ error_count \in 0 .. ERROR_LIMIT
    /\ errors \in [Tests -> 0 .. INT_MAX]
    /\ test_num \in Tests
    /\ error_info.bad_bits \subseteq UNION Xors
    /\ total \in 0 .. MaxReports
    /\ seen \subseteq [word : FaultWords, bits : Xors \cup {{}}]
    /\ owed \subseteq FaultWords
    /\ patterns \in Seq(Pattern)

(***************************************************************************)
(* README.md, "BadRAM Patterns": at least all the errors are captured.     *)
(* However the user goes back and forth between the modes and restarts,    *)
(* the patterns cover every error that a test reported for them since      *)
(* BadRAM mode was entered.                                                *)
(***************************************************************************)
CapturesAll ==
    \A word \in owed : \E i \in DOMAIN patterns : Covers(patterns[i], BadRamAddress(word))

(***************************************************************************)
(* And nothing that an earlier run found is left among the patterns.       *)
(***************************************************************************)
PatternsOfThisRun == faulty \subseteq {BadRamAddress(s.word) : s \in seen}

(***************************************************************************)
(* README.md: "Error statistics are collected regardless of the current    *)
(* error reporting mode".  The extreme addresses, the mask and the extreme *)
(* and average numbers of bits are those of the errors of this run, in     *)
(* whatever order, test, window and mode they came; and while a summary is *)
(* on the screen, whatever changes a figure of it redraws them all, under  *)
(* the header of a summary, wherever in a report the mode was changed.     *)
(***************************************************************************)
InSummary == error_mode = "summary" /\ last_error_mode = "summary" /\ error_count > 0

OnScreen == {[header |-> header, figures |-> f] : f \in summary}

Stats == INSTANCE ErrorStats WITH
    figures <- Shown(error_info), sum <- error_info.total_bits, count <- error_count,
    shown   <- IF InSummary THEN OnScreen ELSE {}

ImplementsStats == Stats!Spec
=============================================================================
