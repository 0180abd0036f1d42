------------------------------ MODULE Display ------------------------------
(***************************************************************************)
(* The message area of the screen (app/display.c, system/screen.c) and     *)
(* what the error reports, the ticks, the main loop and the user do to it: *)
(* lines that scroll, the scroll lock, the PASS or FAIL banner that is     *)
(* drawn over the lines, and the status.                                   *)
(*                                                                         *)
(* A row is seen in two parts: mid, the columns that the banner covers,    *)
(* and side, all others.  A line of the list of errors fills both, a trace *)
(* line only side.  The rows are those that scroll; the banner covers all  *)
(* of them but the last (rows 12 to 22 of 12 to 23).                       *)
(*                                                                         *)
(* The tests are taken in any number and order: TestLoop is about that.    *)
(* Of the reporting modes there are two, the list of errors and the mode   *)
(* that only counts; the others draw where they like (ErrorLog).           *)
(* The pop-up window of the menus is saved, drawn and restored within one  *)
(* poll of the keyboard, so a visit is one step and leaves no trace here.  *)
(***************************************************************************)
EXTENDS Integers, Sequences

CONSTANTS
    LastRow,            \* the rows of the scroll region are 1 .. LastRow
    MaxErrors           \* bound: errors reported in a run

Rows   == 1 .. LastRow
Errors == 1 .. MaxErrors
Signs  == {"pass", "fail"}
Blank  == 0             \* a part of a row that is empty, and a trace line in side
Trace  == -1
Pass   == -2            \* a piece of a banner, in mid
Fail   == -3

Covered    == 1 .. LastRow - 1

ASSUME DisplayAssumption == LastRow \in Nat \ {0} /\ MaxErrors \in Nat

VARIABLES
    pc,                 \* where the program is
    dummy_run,
    area,               \* the rows, scroll_message_row, the banner and what it hides
    todo,               \* the lines the caller of scroll has still to print
    enable_big_status,
    scroll_lock, scroll_wait,
    listing,            \* error_mode = ERROR_MODE_ADDRESS
    last_listing,       \* last_error_mode = ERROR_MODE_ADDRESS
    error_count,
    status,             \* "Testing", "Pass" or "Failed!"
    restart

keyVars == <<enable_big_status, scroll_lock, scroll_wait, listing, restart>>
vars    == <<pc, dummy_run, area, todo, keyVars, last_listing, error_count, status>>

-----------------------------------------------------------------------------
(***************************************************************************)
(* Operations on the area: sign is the banner on display, saved what it    *)
(* hides, row is scroll_message_row (0: the row above the region).         *)
(***************************************************************************)
Empty == [r \in Rows |-> Blank]

clear_message_area(a) == [a EXCEPT !.side = Empty, !.mid = Empty, !.row = 0]

scroll_screen_region(part) == [r \in Rows |-> IF r < LastRow THEN part[r + 1] ELSE Blank]

\* Mutant of restore_big_status: what was hidden is not put back.
forget_big_status(a) == [a EXCEPT !.sign = "none"]

restore_big_status(a) ==
    IF a.sign = "none" THEN a
    ELSE [a EXCEPT !.mid = [r \in Rows |-> IF r \in Covered THEN a.saved[r] ELSE a.mid[r]],
                   !.sign = "none"]

display_big_status(a, sign) ==
    IF ~enable_big_status \/ a.sign # "none" THEN a
    ELSE [a EXCEPT !.saved = a.mid,
                   !.mid = [r \in Rows |-> IF r \notin Covered THEN a.mid[r]
                                           ELSE IF sign = "pass" THEN Pass ELSE Fail],
                   !.sign = sign]

\* Printing in row a.row.  A trace line does not reach the columns of mid.
Printed(a, text) ==
    [a EXCEPT !.side[a.row] = text, !.mid[a.row] = IF text = Trace THEN @ ELSE text]

Init ==
    /\ pc = "start" /\ dummy_run = TRUE /\ todo = <<>>
    /\ area = [side |-> Empty, mid |-> Empty, row |-> 1, sign |-> "none", saved |-> Empty]
    /\ enable_big_status = TRUE /\ scroll_lock = FALSE /\ scroll_wait = FALSE
    /\ listing = TRUE /\ last_listing = FALSE
    /\ error_count = 0 /\ status = "Testing" /\ restart = FALSE

-----------------------------------------------------------------------------
(***************************************************************************)
(* check_input: without a key the program goes on to next.                 *)
(***************************************************************************)
AtInput == pc \in {"report", "wait", "tick", "tested"}

\* Where the program goes on after the poll.
AfterInput ==
    CASE pc = "report" -> "lines"
      [] pc = "tick"   -> "update"
      [] pc = "tested" -> IF restart' THEN "again" ELSE "over"
      [] pc = "wait"   -> IF scroll_wait' /\ scroll_lock' THEN "wait" ELSE "full"

NoKey ==
    /\ AtInput
    /\ UNCHANGED <<keyVars, area>>
    /\ pc' = AfterInput
    /\ UNCHANGED <<dummy_run, todo, last_listing, error_count, status>>

\* Any key removes the banner and disables it.
Removed ==
    /\ area' = restore_big_status(area)
    /\ enable_big_status' = (enable_big_status /\ area.sign = "none")

Key ==
    /\ AtInput /\ Removed
    /\ \/ UNCHANGED <<scroll_lock, scroll_wait, listing, restart>>          \* another key
       \/ /\ scroll_lock' = ~scroll_lock                                   \* Space
          /\ UNCHANGED <<scroll_wait, listing, restart>>
       \/ /\ scroll_wait' = FALSE                                          \* Enter
          /\ UNCHANGED <<scroll_lock, listing, restart>>
       \/ /\ listing' \in BOOLEAN /\ restart' \in {restart, TRUE}           \* the menu
          /\ UNCHANGED <<scroll_lock, scroll_wait>>
    /\ pc' = AfterInput
    /\ UNCHANGED <<dummy_run, todo, last_listing, error_count, status>>

Escape ==
    /\ AtInput
    /\ area' = clear_message_area(restore_big_status(area))
    /\ pc' = "halted"
    /\ enable_big_status' = (enable_big_status /\ area.sign = "none")
    /\ UNCHANGED <<dummy_run, todo, scroll_lock, scroll_wait, listing, restart, last_listing,
                   error_count, status>>

Halted == pc = "halted" /\ UNCHANGED vars

-----------------------------------------------------------------------------
(***************************************************************************)
(* scroll and the printing that follows it.                                *)
(***************************************************************************)
\* Mutant of NextRow: the last row is taken for free once more.
NextRowPast ==
    /\ pc = "lines" /\ todo # <<>> /\ area.row <= LastRow
    /\ area' = [area EXCEPT !.row = @ + 1]
    /\ todo' = Tail(todo)
    /\ UNCHANGED <<pc, dummy_run, keyVars, last_listing, error_count, status>>

NextRow ==
    /\ pc = "lines" /\ todo # <<>> /\ area.row < LastRow
    /\ area' = Printed([area EXCEPT !.row = @ + 1], Head(todo))
    /\ todo' = Tail(todo)
    /\ UNCHANGED <<pc, dummy_run, keyVars, last_listing, error_count, status>>

RegionFull ==
    /\ pc = "lines" /\ todo # <<>> /\ area.row >= LastRow
    /\ scroll_wait' = TRUE
    /\ pc' = "wait"
    /\ UNCHANGED <<dummy_run, area, todo, enable_big_status, scroll_lock, listing, restart,
                   last_listing, error_count, status>>

Scroll ==
    /\ pc = "full"
    /\ scroll_wait' = FALSE
    /\ area' = Printed([area EXCEPT !.side = scroll_screen_region(@), !.mid = scroll_screen_region(@)],
                       Head(todo))
    /\ todo' = Tail(todo)
    /\ pc' = "lines"
    /\ UNCHANGED <<dummy_run, enable_big_status, scroll_lock, listing, restart,
                   last_listing, error_count, status>>

LinesDone ==
    /\ pc = "lines" /\ todo = <<>>
    /\ pc' = "run"
    /\ UNCHANGED <<dummy_run, area, todo, keyVars, last_listing, error_count, status>>

-----------------------------------------------------------------------------
(***************************************************************************)
(* A running test: common_err, and do_tick with its error_update.          *)
(***************************************************************************)
\* The header is drawn anew.
Header(a) == IF error_count = 0 \/ listing # last_listing THEN clear_message_area(a) ELSE a

\* Mutant of Report: the banner stays.
ReportUnder ==
    /\ pc = "run" /\ ~dummy_run /\ error_count < MaxErrors
    /\ area' = Header(area)
    /\ last_listing' = listing
    /\ error_count' = error_count + 1
    /\ IF listing THEN pc' = "report" /\ todo' = <<error_count + 1>> ELSE UNCHANGED <<pc, todo>>
    /\ UNCHANGED <<dummy_run, keyVars, status>>

\* An error whose address and bits are those of the last one is not listed.
Report ==
    /\ pc = "run" /\ ~dummy_run /\ error_count < MaxErrors
    /\ area' = Header(restore_big_status(area))
    /\ last_listing' = listing
    /\ error_count' = error_count + 1
    /\ \/ listing /\ pc' = "report" /\ todo' = <<error_count + 1>>
       \/ /\ ~listing \/ (error_count > 0 /\ last_listing)
          /\ UNCHANGED <<pc, todo>>
    /\ UNCHANGED <<dummy_run, keyVars, status>>

Tick ==
    /\ pc = "run" /\ ~dummy_run
    /\ pc' = "tick"
    /\ UNCHANGED <<dummy_run, area, todo, keyVars, last_listing, error_count, status>>

TestOver ==
    /\ pc = "run"
    /\ pc' = "tested"
    /\ UNCHANGED <<dummy_run, area, todo, keyVars, last_listing, error_count, status>>

\* Mutant of Failure: the status is written with the banner.
FailureOnce == IF error_count = 1 THEN "Failed!" ELSE status
Failure     == IF error_count > 0 THEN "Failed!" ELSE status

\* error_update, in a tick and after a test.
Update ==
    /\ pc \in {"update", "over"}
    /\ IF error_count > 0
         THEN LET a == IF listing # last_listing THEN Header(restore_big_status(area)) ELSE area
              IN  /\ area' = IF error_count = 1 THEN display_big_status(a, "fail") ELSE a
                  /\ last_listing' = listing
         ELSE UNCHANGED <<area, last_listing>>
    /\ status' = Failure
    /\ pc' = IF pc = "update" THEN "run" ELSE "next"
    /\ UNCHANGED <<dummy_run, todo, keyVars, error_count>>

-----------------------------------------------------------------------------
(***************************************************************************)
(* The main loop.                                                          *)
(***************************************************************************)
\* "start test", and in a real run of an enabled test a second line.
StartTest ==
    /\ pc = "start"
    /\ todo' \in {<<Trace>>} \cup IF dummy_run THEN {} ELSE {<<Trace, Trace>>}
    /\ pc' = "lines"
    /\ UNCHANGED <<dummy_run, area, keyVars, last_listing, error_count, status>>

HonourRestart ==
    /\ pc = "again"
    /\ restart' = FALSE /\ dummy_run' = TRUE
    /\ pc' = "start"
    /\ UNCHANGED <<area, todo, enable_big_status, scroll_lock, scroll_wait, listing, last_listing,
                   error_count, status>>

NextTest ==
    /\ pc = "next"
    /\ pc' = "start"
    /\ UNCHANGED <<dummy_run, area, todo, keyVars, last_listing, error_count, status>>

\* The ticks are counted: display_start_run and error_init.
StartRun ==
    /\ pc = "next" /\ dummy_run
    /\ dummy_run' = FALSE
    /\ error_count' = 0 /\ status' = "Testing"
    /\ pc' = "start"
    /\ UNCHANGED <<area, todo, keyVars, last_listing>>

NextPass ==
    /\ pc = "next" /\ ~dummy_run
    /\ IF error_count = 0
         THEN status' = "Pass" /\ area' = display_big_status(area, "pass")
         ELSE UNCHANGED status /\ area' = display_big_status(area, "fail")
    /\ pc' = "start"
    /\ UNCHANGED <<dummy_run, todo, keyVars, last_listing, error_count>>

-----------------------------------------------------------------------------
Program ==
    \/ NoKey \/ NextRow \/ RegionFull \/ Scroll \/ LinesDone
    \/ Report \/ Tick \/ TestOver \/ Update
    \/ StartTest \/ HonourRestart \/ NextTest \/ StartRun \/ NextPass

User == Key \/ Escape

Next == Program \/ User \/ Halted

\* One CPU executes one program; nobody has to press a key.
Spec == Init /\ [][Next]_vars /\ WF_vars(Program)

-----------------------------------------------------------------------------
(***************************************************************************)
(* The types of the variables.                                             *)
(***************************************************************************)
Texts == Errors \cup {Blank, Trace, Pass, Fail}

TypeOK ==
    /\ pc \in {"start", "lines", "wait", "full", "run", "report", "tick", "update", "tested", "over",
               "again", "next", "halted"}
    /\ area \in [side : [Rows -> Texts], mid : [Rows -> Texts], saved : [Rows -> Texts],
                 row : 0 .. LastRow, sign : Signs \cup {"none"}]
    /\ todo \in {<<>>, <<Trace>>, <<Trace, Trace>>} \cup {<<e>> : e \in Errors}
    /\ pc = "full" => todo # <<>> /\ area.row = LastRow
    /\ error_count \in 0 .. MaxErrors
    /\ status \in {"Testing", "Pass", "Failed!"}
    /\ {dummy_run, enable_big_status, scroll_lock, scroll_wait, listing, last_listing, restart}
         \subseteq BOOLEAN

(***************************************************************************)
(* The banner never says PASS after an error of this run, and once the     *)
(* user has removed a banner no other one is drawn.                        *)
(***************************************************************************)
BannerTrue ==
    /\ area.sign = "pass" => error_count = 0
    /\ ~enable_big_status => area.sign = "none"

(***************************************************************************)
(* However lines scrolled while the banner was on display, when it is      *)
(* removed no piece of it is left anywhere, nor will one be put back.      *)
(***************************************************************************)
NoGhost ==
    /\ area.sign = "none" => \A r \in Rows : area.mid[r] \notin {Pass, Fail}
    /\ \A r \in Rows : area.saved[r] \notin {Pass, Fail}

(***************************************************************************)
(* The error listed last can be read as a whole in its row, as long as it  *)
(* is the last line and no banner is in front of it.                       *)
(***************************************************************************)
NewestWhole ==
    area.sign = "none" /\ area.row > 0 /\ area.side[area.row] \in Errors =>
        area.mid[area.row] = area.side[area.row]

(***************************************************************************)
(* An error is told: the status says so before long, unless the user has   *)
(* locked the scrolling, asked for a restart or left.                      *)
(***************************************************************************)
FailureTold ==
    error_count > 0 ~> \/ status = "Failed!" \/ restart
                       \/ pc = "wait" /\ scroll_lock
                       \/ pc = "halted"

(***************************************************************************)
(* What README.md says of the individual error mode: it displays pass,     *)
(* test, address and data "for each error instance".  What stands in one   *)
(* row belongs to one error.                                               *)
(***************************************************************************)
RowsBelongTogether ==
    area.sign = "none" =>
        \A r \in Rows : area.mid[r] \in Errors => area.mid[r] = area.side[r]
=============================================================================
