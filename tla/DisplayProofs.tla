---------------------------- MODULE DisplayProofs ----------------------------
(***************************************************************************)
(* Proofs about the message area: for every number of rows and of errors,  *)
(* the banner is true, it leaves nothing of itself behind, and the error   *)
(* listed last stands in its row as a whole.                               *)
(***************************************************************************)
EXTENDS Display, SequenceTheorems, TLAPS

Areas == [side : [Rows -> Texts], mid : [Rows -> Texts], saved : [Rows -> Texts],
          row : 0 .. LastRow, sign : Signs \cup {"none"}]

Pieces == {Pass, Fail}

\* Pieces of the banner are only where it is, and nowhere while there is none.
Clean(a) ==
    /\ a.sign = "none" => \A r \in Rows : a.mid[r] \notin Pieces
    /\ \A r \in Rows \ Covered : a.mid[r] \notin Pieces
    /\ \A r \in Rows : a.saved[r] \notin Pieces

\* What will stand in row r once the banner is removed.
Behind(a, r) == IF a.sign = "none" \/ r \notin Covered THEN a.mid[r] ELSE a.saved[r]

Whole(a) == a.row > 0 /\ a.side[a.row] \in Errors => Behind(a, a.row) = a.side[a.row]

Good(a) == a \in Areas /\ Clean(a) /\ Whole(a)

LEMMA Layout ==
    /\ Rows = 1 .. LastRow /\ LastRow \in Nat \ {0} /\ LastRow \in Rows
    /\ Covered \subseteq Rows /\ LastRow \notin Covered /\ Rows \ Covered = {LastRow}
    /\ Errors \cap {Blank, Trace, Pass, Fail} = {} /\ Blank \notin Pieces /\ Trace \notin Pieces
    /\ Errors \subseteq Texts /\ {Blank, Trace, Pass, Fail} \subseteq Texts
    /\ Errors \cap Pieces = {} /\ Trace \notin Errors
  BY DisplayAssumption DEF Rows, Covered, Errors, Pieces, Texts, Blank, Trace, Pass, Fail

-----------------------------------------------------------------------------
(***************************************************************************)
(* The operations on the area keep it good.                                *)
(***************************************************************************)
LEMMA Restored ==
    ASSUME NEW a, Good(a), NEW b, b = restore_big_status(a)
    PROVE  Good(b) /\ b.sign = "none" /\ b.row = a.row
<1>1. CASE a.sign = "none"
  BY <1>1 DEF restore_big_status
<1>2. CASE a.sign # "none"
  <2> DEFINE mid == [r \in Rows |-> IF r \in Covered THEN a.saved[r] ELSE a.mid[r]]
  <2>1. a \in Areas /\ Clean(a) /\ Whole(a)
    BY DEF Good
  <2>2. mid \in [Rows -> Texts] /\ \A r \in Rows : mid[r] \notin Pieces
    BY <2>1 DEF Areas, Clean
  <2>3. b = [a EXCEPT !.mid = mid, !.sign = "none"]
    BY <1>2 DEF restore_big_status
  <2>4. \A r \in Rows : mid[r] = Behind(a, r)
    BY <1>2 DEF Behind
  <2> HIDE DEF mid
  <2>5. /\ b \in Areas /\ b.sign = "none" /\ b.row = a.row /\ b.side = a.side
        /\ b.mid = mid /\ b.saved = a.saved
    BY <2>1, <2>2, <2>3 DEF Areas
  <2>6. Clean(b)
    BY <2>1, <2>2, <2>5 DEF Clean
  <2>7. Whole(b)
    <3> SUFFICES ASSUME b.row > 0, b.side[b.row] \in Errors PROVE b.mid[b.row] = b.side[b.row]
      BY <2>5 DEF Whole, Behind
    <3>1. a.row \in Rows
      BY <2>1, <2>5, Layout DEF Areas
    <3>2. QED
      BY <2>1, <2>4, <2>5, <3>1 DEF Whole
  <2>8. QED
    BY <2>5, <2>6, <2>7 DEF Good
<1>3. QED
  BY <1>1, <1>2

LEMMA Cleared ==
    ASSUME NEW a, Good(a), NEW b, b = clear_message_area(a)
    PROVE  Good(b) /\ b.sign = a.sign
<1>1. Empty \in [Rows -> Texts] /\ \A r \in Rows : Empty[r] = Blank
  BY Layout DEF Empty
<1>2. a \in Areas /\ \A r \in Rows : a.saved[r] \notin Pieces
  BY DEF Good, Clean
<1>3. /\ b \in Areas /\ b.sign = a.sign /\ b.mid = Empty /\ b.saved = a.saved /\ b.row = 0
  <2>1. 0 \in 0 .. LastRow
    BY DisplayAssumption
  <2> HIDE DEF Empty
  <2>2. QED
    BY <1>1, <1>2, <2>1 DEF Areas, clear_message_area
<1>4. Clean(b) /\ Whole(b)
  <2>1. \A r \in Rows : b.mid[r] \notin Pieces
    BY <1>1, <1>3, Layout
  <2>2. ~(b.row > 0)
    BY <1>3
  <2>3. QED
    BY <1>2, <1>3, <2>1, <2>2 DEF Clean, Whole
<1>5. QED
  BY <1>3, <1>4 DEF Good

LEMMA Displayed ==
    ASSUME NEW a, Good(a), NEW sign \in Signs, NEW b, b = display_big_status(a, sign)
    PROVE  /\ Good(b)
           /\ b = a \/ (enable_big_status /\ a.sign = "none" /\ b.sign = sign)
<1>1. CASE ~enable_big_status \/ a.sign # "none"
  BY <1>1 DEF display_big_status
<1>2. CASE enable_big_status /\ a.sign = "none"
  <2> DEFINE mid == [r \in Rows |-> IF r \notin Covered THEN a.mid[r]
                                    ELSE IF sign = "pass" THEN Pass ELSE Fail]
  <2>1. a \in Areas /\ Clean(a) /\ Whole(a)
    BY DEF Good
  <2>2. mid \in [Rows -> Texts] /\ \A r \in Rows \ Covered : mid[r] = a.mid[r]
    BY <2>1, Layout DEF Areas
  <2>3. b = [a EXCEPT !.saved = a.mid, !.mid = mid, !.sign = sign]
    BY <1>2 DEF display_big_status
  <2> HIDE DEF mid
  <2>4. /\ b \in Areas /\ b.sign = sign /\ b.mid = mid /\ b.saved = a.mid
        /\ b.row = a.row /\ b.side = a.side /\ sign # "none"
    BY <2>1, <2>2, <2>3 DEF Areas, Signs
  <2>5. Clean(b)
    BY <1>2, <2>1, <2>2, <2>4 DEF Clean
  <2>6. Whole(b)
    <3> SUFFICES ASSUME b.row > 0, b.side[b.row] \in Errors PROVE Behind(b, b.row) = b.side[b.row]
      BY DEF Whole
    <3>1. a.row \in Rows /\ a.mid[a.row] = a.side[a.row]
      BY <1>2, <2>1, <2>4, Layout DEF Areas, Whole, Behind
    <3>2. Behind(b, b.row) = a.mid[a.row]
      BY <2>2, <2>4, <3>1 DEF Behind
    <3>3. QED
      BY <2>4, <3>1, <3>2
  <2>7. QED
    BY <1>2, <2>4, <2>5, <2>6 DEF Good
<1>3. QED
  BY <1>1, <1>2

\* Printing in a row; an error is only printed while there is no banner.
LEMMA PrintedLine ==
    ASSUME NEW a \in Areas, Clean(a), a.row > 0,
           NEW text \in Errors \cup {Trace}, text = Trace \/ a.sign = "none",
           NEW b, b = Printed(a, text)
    PROVE  Good(b) /\ b.sign = a.sign /\ b.row = a.row
<1>1. a.row \in Rows /\ text \in Texts /\ text \notin Pieces
  BY Layout DEF Areas
<1>2. /\ a.side \in [Rows -> Texts] /\ a.mid \in [Rows -> Texts]
  BY DEF Areas
<1> DEFINE side == [a.side EXCEPT ![a.row] = text]
           mid  == [a.mid EXCEPT ![a.row] = IF text = Trace THEN @ ELSE text]
<1>3. /\ side \in [Rows -> Texts] /\ mid \in [Rows -> Texts] /\ side[a.row] = text
      /\ text = Trace \/ mid[a.row] = text
      /\ \A r \in Rows : mid[r] = a.mid[r] \/ mid[r] = text
  BY <1>1, <1>2
<1>4. b = [a EXCEPT !.side = side, !.mid = mid]
  BY <1>1, <1>2 DEF Printed, Areas
<1> HIDE DEF side, mid
<1>5. /\ b \in Areas /\ b.sign = a.sign /\ b.row = a.row
      /\ b.side = side /\ b.mid = mid /\ b.saved = a.saved
  BY <1>3, <1>4 DEF Areas
<1>6. Clean(b)
  BY <1>1, <1>3, <1>5 DEF Clean
<1>7. Whole(b)
  BY <1>3, <1>5, Layout DEF Whole, Behind
<1>8. QED
  BY <1>5, <1>6, <1>7 DEF Good

LEMMA Scrolled ==
    ASSUME NEW a, Good(a), NEW b,
           b = [a EXCEPT !.side = scroll_screen_region(@), !.mid = scroll_screen_region(@)]
    PROVE  b \in Areas /\ Clean(b) /\ b.sign = a.sign /\ b.row = a.row
<1>1. a \in Areas /\ Clean(a)
  BY DEF Good
<1> DEFINE side == scroll_screen_region(a.side)
           mid  == scroll_screen_region(a.mid)
<1>2. side \in [Rows -> Texts] /\ mid \in [Rows -> Texts] /\ mid[LastRow] = Blank
  <2>1. a.side \in [Rows -> Texts] /\ a.mid \in [Rows -> Texts]
    BY <1>1 DEF Areas
  <2>2. LastRow \in Rows /\ LastRow \in Nat /\ Blank \in Texts /\ \A r \in Rows : r < LastRow => r + 1 \in Rows
    BY Layout
  <2>3. ASSUME NEW part \in [Rows -> Texts]
        PROVE  scroll_screen_region(part) \in [Rows -> Texts]
    BY <2>2 DEF scroll_screen_region
  <2>4. scroll_screen_region(a.mid)[LastRow] = Blank
    BY <2>2 DEF scroll_screen_region
  <2>5. QED
    BY <2>1, <2>3, <2>4
<1>3. \A r \in Rows : mid[r] = Blank \/ \E s \in Rows : mid[r] = a.mid[s]
  BY Layout DEF scroll_screen_region
<1> HIDE DEF side, mid
<1>4. /\ b \in Areas /\ b.sign = a.sign /\ b.row = a.row /\ b.mid = mid /\ b.saved = a.saved
  BY <1>1, <1>2 DEF Areas, side, mid
<1>5. Clean(b)
  BY <1>1, <1>2, <1>3, <1>4, Layout DEF Clean
<1>6. QED
  BY <1>4, <1>5

-----------------------------------------------------------------------------
(***************************************************************************)
(* The invariant.  A banner is drawn only while no line is to be printed,  *)
(* and a report removes it before it prints one.                           *)
(***************************************************************************)
Todos  == {<<>>, <<Trace>>, <<Trace, Trace>>} \cup {<<e>> : e \in Errors}
Places == {"start", "lines", "wait", "full", "run", "report", "tick", "update", "tested", "over",
           "again", "next", "halted"}

TypeInv ==
    /\ pc \in Places /\ todo \in Todos
    /\ error_count \in 0 .. MaxErrors
    /\ status \in {"Testing", "Pass", "Failed!"}
    /\ {dummy_run, enable_big_status, scroll_lock, scroll_wait, listing, last_listing, restart}
         \subseteq BOOLEAN

LinesInv ==
    /\ pc \in {"wait", "full"} => todo # <<>> /\ area.row = LastRow
    /\ todo = <<>> \/ pc \in {"report", "lines", "wait", "full", "halted"}
    /\ (\E e \in Errors : todo = <<e>>) => area.sign = "none"

IInv == Good(area) /\ TypeInv /\ LinesInv /\ BannerTrue

LEMMA FirstLine ==
    ASSUME todo \in Todos, todo # <<>>
    PROVE  /\ Head(todo) \in Errors \cup {Trace}
           /\ Tail(todo) \in {<<>>, <<Trace>>}
           /\ Head(todo) = Trace \/ \E e \in Errors : todo = <<e>>
<1>1. CASE todo = <<Trace>>
  BY <1>1
<1>2. CASE todo = <<Trace, Trace>>
  BY <1>2
<1>3. ASSUME NEW e \in Errors, todo = <<e>>
      PROVE  Head(todo) = e /\ Tail(todo) = <<>>
  BY <1>3
<1>4. QED
  BY <1>1, <1>2, <1>3 DEF Todos

LEMMA NoErrorLine == \A ts \in {<<>>, <<Trace>>, <<Trace, Trace>>} :
                        ts \in Todos /\ ~\E e \in Errors : ts = <<e>>
  BY Layout DEF Todos

LEMMA InitIInv == Init => IInv
<1> SUFFICES ASSUME Init PROVE IInv
  OBVIOUS
<1>1. Empty \in [Rows -> Texts] /\ \A r \in Rows : Empty[r] = Blank
  BY Layout DEF Empty
<1>2. /\ area \in Areas /\ area.mid = Empty /\ area.saved = Empty /\ area.side = Empty
      /\ area.sign = "none" /\ area.row = 1
  BY <1>1, DisplayAssumption DEF Init, Areas
<1>3. Clean(area) /\ Whole(area)
  <2>1. \A r \in Rows : area.mid[r] \notin Pieces /\ area.saved[r] \notin Pieces
    BY <1>1, <1>2, Layout
  <2>2. 1 \in Rows /\ Blank \notin Errors
    BY Layout
  <2>3. QED
    BY <1>1, <1>2, <2>1, <2>2 DEF Clean, Whole
<1>4. TypeInv
  <2>1. 0 \in 0 .. MaxErrors /\ <<>> \in Todos
    BY NoErrorLine, DisplayAssumption
  <2>2. {dummy_run, enable_big_status, scroll_lock, scroll_wait, listing, last_listing, restart}
          \subseteq BOOLEAN
    BY DEF Init
  <2>3. pc = "start" /\ todo = <<>> /\ error_count = 0 /\ status = "Testing"
    BY DEF Init
  <2>4. QED
    BY <2>1, <2>2, <2>3 DEF TypeInv, Places
<1>5. LinesInv /\ BannerTrue
  BY <1>2, NoErrorLine DEF Init, LinesInv, BannerTrue
<1>6. QED
  BY <1>2, <1>3, <1>4, <1>5 DEF IInv, Good

-----------------------------------------------------------------------------
(***************************************************************************)
(* The keyboard.                                                           *)
(***************************************************************************)
LEMMA NoKeyStep ==
    ASSUME IInv, NoKey
    PROVE  IInv'
<1>1. UNCHANGED <<dummy_run, area, todo, keyVars, last_listing, error_count, status>>
  BY DEF NoKey
<1>2. pc' = AfterInput /\ AtInput
  BY DEF NoKey
<1>3. /\ pc' \in Places
      /\ pc' \in {"wait", "full"} => pc = "wait"
      /\ pc = "report" => pc' = "lines"
      /\ pc = "wait" => pc' \in {"wait", "full"}
  BY <1>2 DEF AfterInput, AtInput, Places
<1>4. TypeInv' /\ BannerTrue'
  BY <1>1, <1>3 DEF IInv, TypeInv, BannerTrue, keyVars
<1>5. LinesInv'
  BY <1>1, <1>2, <1>3 DEF IInv, LinesInv, AtInput
<1>6. QED
  BY <1>1, <1>4, <1>5 DEF IInv

LEMMA KeyStep ==
    ASSUME IInv, Key
    PROVE  IInv'
<1>1. UNCHANGED <<dummy_run, todo, last_listing, error_count, status>>
  BY DEF Key
<1>2. pc' = AfterInput /\ AtInput
  BY DEF Key
<1>3. /\ pc' \in Places
      /\ pc' \in {"wait", "full"} => pc = "wait"
      /\ pc = "report" => pc' = "lines"
      /\ pc = "wait" => pc' \in {"wait", "full"}
  BY <1>2 DEF AfterInput, AtInput, Places
<1>4. /\ area' = restore_big_status(area)
      /\ enable_big_status' = (enable_big_status /\ area.sign = "none")
  BY DEF Key, Removed
<1>5. Good(area') /\ area'.sign = "none" /\ area'.row = area.row
  BY <1>4, Restored DEF IInv
<1>6. {dummy_run, scroll_lock, scroll_wait, listing, last_listing, restart}' \subseteq BOOLEAN
  BY <1>1 DEF IInv, TypeInv, Key
<1>7. enable_big_status' \in BOOLEAN
  BY <1>4
<1>8. TypeInv'
  BY <1>1, <1>3, <1>6, <1>7 DEF IInv, TypeInv
<1>9. LinesInv'
  BY <1>1, <1>2, <1>3, <1>5 DEF IInv, LinesInv, AtInput
<1>10. BannerTrue'
  BY <1>5 DEF BannerTrue
<1>11. QED
  BY <1>5, <1>8, <1>9, <1>10 DEF IInv

LEMMA EscapeStep ==
    ASSUME IInv, Escape
    PROVE  IInv'
<1> DEFINE plain == restore_big_status(area)
<1>1. Good(plain) /\ plain.sign = "none"
  BY Restored DEF IInv
<1> HIDE DEF plain
<1>2. area' = clear_message_area(plain)
  BY DEF Escape, plain
<1>3. Good(area') /\ area'.sign = "none"
  BY <1>1, <1>2, Cleared
<1>4. TypeInv' /\ pc' = "halted"
  BY DEF IInv, TypeInv, Escape, Places
<1>5. LinesInv' /\ BannerTrue'
  BY <1>3, <1>4 DEF LinesInv, BannerTrue
<1>6. QED
  BY <1>3, <1>4, <1>5 DEF IInv

-----------------------------------------------------------------------------
(***************************************************************************)
(* Printing.                                                               *)
(***************************************************************************)
LEMMA NextRowStep ==
    ASSUME IInv, NextRow
    PROVE  IInv'
<1> DEFINE text == Head(todo)
           next == [area EXCEPT !.row = @ + 1]
<1>1. /\ pc = "lines" /\ todo # <<>> /\ area.row < LastRow
      /\ area' = Printed(next, text) /\ todo' = Tail(todo)
      /\ UNCHANGED <<pc, dummy_run, keyVars, last_listing, error_count, status>>
  BY DEF NextRow
<1>2. area \in Areas /\ Clean(area) /\ area.row \in 0 .. LastRow
  BY DEF IInv, Good, Areas
<1>3. /\ next \in Areas /\ next.row = area.row + 1 /\ next.row > 0 /\ next.sign = area.sign
      /\ next.mid = area.mid /\ next.saved = area.saved
  <2>1. area.row + 1 \in 0 .. LastRow /\ area.row + 1 > 0
    BY <1>1, <1>2, DisplayAssumption
  <2>2. QED
    BY <1>2, <2>1 DEF Areas
<1>4. Clean(next)
  BY <1>2, <1>3 DEF Clean
<1>5. /\ text \in Errors \cup {Trace} /\ Tail(todo) \in {<<>>, <<Trace>>}
      /\ text = Trace \/ next.sign = "none"
  BY <1>1, <1>3, FirstLine DEF IInv, TypeInv, LinesInv
<1> HIDE DEF text, next
<1>6. Good(area') /\ area'.sign = area.sign
  BY <1>1, <1>3, <1>4, <1>5, PrintedLine
<1>7. todo' \in Todos /\ ~\E e \in Errors : todo' = <<e>>
  BY <1>1, <1>5, NoErrorLine
<1>8. TypeInv'
  BY <1>1, <1>7 DEF IInv, TypeInv, keyVars
<1>9. LinesInv'
  BY <1>1, <1>7 DEF LinesInv
<1>10. BannerTrue'
  BY <1>1, <1>6 DEF IInv, BannerTrue, keyVars
<1>11. QED
  BY <1>6, <1>8, <1>9, <1>10 DEF IInv

LEMMA ScrollStep ==
    ASSUME IInv, Scroll
    PROVE  IInv'
<1> DEFINE text == Head(todo)
           next == [area EXCEPT !.side = scroll_screen_region(@), !.mid = scroll_screen_region(@)]
<1>1. /\ pc = "full" /\ pc' = "lines" /\ scroll_wait' = FALSE
      /\ area' = Printed(next, text) /\ todo' = Tail(todo)
      /\ UNCHANGED <<dummy_run, enable_big_status, scroll_lock, listing, restart, last_listing,
                     error_count, status>>
  BY DEF Scroll
<1>2. next \in Areas /\ Clean(next) /\ next.sign = area.sign /\ next.row = area.row
  BY Scrolled DEF IInv
<1>3. todo # <<>> /\ area.row = LastRow /\ area.row > 0
  BY <1>1, DisplayAssumption DEF IInv, LinesInv
<1>4. /\ text \in Errors \cup {Trace} /\ Tail(todo) \in {<<>>, <<Trace>>}
      /\ text = Trace \/ next.sign = "none"
  BY <1>2, <1>3, FirstLine DEF IInv, TypeInv, LinesInv
<1> HIDE DEF text, next
<1>5. Good(area') /\ area'.sign = area.sign
  BY <1>1, <1>2, <1>3, <1>4, PrintedLine
<1>6. todo' \in Todos /\ ~\E e \in Errors : todo' = <<e>>
  BY <1>1, <1>4, NoErrorLine
<1>7. TypeInv'
  BY <1>1, <1>6 DEF IInv, TypeInv, Places
<1>8. LinesInv'
  BY <1>1, <1>6 DEF LinesInv
<1>9. BannerTrue'
  BY <1>1, <1>5 DEF IInv, BannerTrue
<1>10. QED
  BY <1>5, <1>7, <1>8, <1>9 DEF IInv

\* Steps that touch neither the area nor the banner's switch, nor add a line.
LEMMA QuietStep ==
    ASSUME IInv,
           \/ RegionFull \/ LinesDone \/ Tick \/ TestOver
           \/ HonourRestart \/ NextTest \/ Halted \/ UNCHANGED vars
    PROVE  IInv'
<1>1. UNCHANGED <<area, todo, enable_big_status, error_count>>
  BY DEF RegionFull, LinesDone, Tick, TestOver, HonourRestart, NextTest, Halted, vars, keyVars
<1>2. /\ pc' \in Places /\ UNCHANGED <<status, scroll_lock, listing, last_listing>>
      /\ {dummy_run, scroll_wait, restart}' \subseteq BOOLEAN
  BY DEF RegionFull, LinesDone, Tick, TestOver, HonourRestart, NextTest, Halted, vars, keyVars,
         IInv, TypeInv, Places
<1>3. TypeInv'
  BY <1>1, <1>2 DEF IInv, TypeInv
<1>4. LinesInv'
  <2>1. CASE RegionFull
    <3>1. todo # <<>> /\ area.row = LastRow /\ pc' = "wait"
      BY <2>1, DisplayAssumption DEF RegionFull, IInv, Good, Areas
    <3>2. QED
      BY <1>1, <3>1 DEF IInv, LinesInv
  <2>2. CASE LinesDone \/ Tick \/ TestOver \/ HonourRestart \/ NextTest
    <3>1. todo = <<>> /\ pc' \notin {"wait", "full"}
      BY <2>2 DEF LinesDone, Tick, TestOver, HonourRestart, NextTest, IInv, LinesInv
    <3>2. QED
      BY <1>1, <3>1 DEF IInv, LinesInv
  <2>3. CASE Halted \/ UNCHANGED vars
    BY <1>1, <2>3 DEF Halted, vars, IInv, LinesInv
  <2>4. QED
    BY <2>1, <2>2, <2>3
<1>5. BannerTrue'
  BY <1>1 DEF IInv, BannerTrue
<1>6. QED
  BY <1>1, <1>3, <1>4, <1>5 DEF IInv

-----------------------------------------------------------------------------
(***************************************************************************)
(* A running test and the main loop.                                       *)
(***************************************************************************)
LEMMA HeaderGood ==
    ASSUME NEW a, Good(a), NEW b, b = Header(a)
    PROVE  Good(b) /\ b.sign = a.sign
  BY Cleared DEF Header

LEMMA ReportStep ==
    ASSUME IInv, Report
    PROVE  IInv'
<1> DEFINE plain == restore_big_status(area)
<1>1. Good(plain) /\ plain.sign = "none"
  BY Restored DEF IInv
<1> HIDE DEF plain
<1>2. area' = Header(plain)
  BY DEF Report, plain
<1>3. Good(area') /\ area'.sign = "none"
  BY <1>1, <1>2, HeaderGood
<1>4. /\ pc = "run" /\ error_count < MaxErrors /\ error_count' = error_count + 1
      /\ last_listing' = listing
      /\ UNCHANGED <<dummy_run, keyVars, status>>
  BY DEF Report
<1>5. error_count' \in Errors /\ error_count' \in 0 .. MaxErrors
  BY <1>4, DisplayAssumption DEF IInv, TypeInv, Errors
<1>6. \/ pc' = "report" /\ todo' = <<error_count'>>
      \/ UNCHANGED <<pc, todo>>
  BY <1>4 DEF Report
<1>7. todo = <<>>
  BY <1>4 DEF IInv, LinesInv
<1>8. pc' \in {"report", "run"} /\ todo' \in Todos /\ (todo' = <<>> \/ pc' = "report")
  BY <1>4, <1>5, <1>6, <1>7 DEF Todos
<1>9. TypeInv'
  BY <1>4, <1>5, <1>8 DEF IInv, TypeInv, Places, keyVars
<1>10. LinesInv' /\ BannerTrue'
  BY <1>3, <1>8 DEF LinesInv, BannerTrue
<1>11. QED
  BY <1>3, <1>9, <1>10 DEF IInv

LEMMA UpdateStep ==
    ASSUME IInv, Update
    PROVE  IInv'
<1> DEFINE a == IF listing # last_listing THEN Header(restore_big_status(area)) ELSE area
<1>1. Good(a) /\ (a = area \/ a.sign = "none")
  BY Restored, HeaderGood DEF IInv
<1>2. \/ /\ error_count > 0 /\ last_listing' = listing
         /\ area' = IF error_count = 1 THEN display_big_status(a, "fail") ELSE a
      \/ UNCHANGED <<area, last_listing>>
  BY DEF Update
<1> HIDE DEF a
<1>3. /\ pc \in {"update", "over"} /\ pc' \in {"run", "next"} /\ status' = Failure
      /\ UNCHANGED <<dummy_run, todo, keyVars, error_count>>
  BY DEF Update
<1>4. /\ Good(area')
      /\ \/ area'.sign = area.sign \/ area'.sign = "none"
         \/ enable_big_status /\ area'.sign = "fail"
  BY <1>1, <1>2, Displayed DEF IInv, Signs
<1>5. TypeInv'
  BY <1>2, <1>3 DEF IInv, TypeInv, Places, keyVars, Failure
<1>6. LinesInv'
  BY <1>3, NoErrorLine DEF IInv, LinesInv
<1>7. BannerTrue'
  BY <1>3, <1>4 DEF IInv, BannerTrue, keyVars
<1>8. QED
  BY <1>4, <1>5, <1>6, <1>7 DEF IInv

LEMMA StartTestStep ==
    ASSUME IInv, StartTest
    PROVE  IInv'
<1>1. /\ pc' = "lines" /\ todo' \in {<<Trace>>, <<Trace, Trace>>}
      /\ UNCHANGED <<dummy_run, area, keyVars, last_listing, error_count, status>>
  BY DEF StartTest
<1>2. todo' \in Todos /\ ~\E e \in Errors : todo' = <<e>>
  BY <1>1, NoErrorLine
<1>3. TypeInv'
  BY <1>1, <1>2 DEF IInv, TypeInv, Places, keyVars
<1>4. LinesInv' /\ BannerTrue'
  BY <1>1, <1>2 DEF IInv, LinesInv, BannerTrue, keyVars
<1>5. QED
  BY <1>1, <1>3, <1>4 DEF IInv

LEMMA StartRunStep ==
    ASSUME IInv, StartRun
    PROVE  IInv'
<1>1. /\ pc = "next" /\ pc' = "start" /\ dummy_run' = FALSE
      /\ error_count' = 0 /\ status' = "Testing"
      /\ UNCHANGED <<area, todo, keyVars, last_listing>>
  BY DEF StartRun
<1>2. TypeInv'
  <2>1. error_count' \in 0 .. MaxErrors
    BY <1>1, DisplayAssumption
  <2>2. QED
    BY <1>1, <2>1 DEF IInv, TypeInv, Places, keyVars
<1>3. LinesInv' /\ BannerTrue'
  BY <1>1 DEF IInv, LinesInv, BannerTrue, keyVars
<1>4. QED
  BY <1>1, <1>2, <1>3 DEF IInv

LEMMA NextPassStep ==
    ASSUME IInv, NextPass
    PROVE  IInv'
<1>1. /\ pc = "next" /\ pc' = "start" /\ status' \in {status, "Pass"}
      /\ UNCHANGED <<dummy_run, todo, keyVars, last_listing, error_count>>
  BY DEF NextPass
<1>2. \/ error_count = 0 /\ area' = display_big_status(area, "pass")
      \/ area' = display_big_status(area, "fail")
  BY DEF NextPass
<1>3. /\ Good(area')
      /\ \/ area' = area
         \/ enable_big_status /\ (area'.sign = "fail" \/ error_count = 0)
  BY <1>2, Displayed DEF IInv, Signs
<1>4. TypeInv'
  BY <1>1 DEF IInv, TypeInv, Places, keyVars
<1>5. LinesInv'
  BY <1>1, NoErrorLine DEF IInv, LinesInv
<1>6. BannerTrue'
  BY <1>1, <1>3 DEF IInv, BannerTrue, keyVars
<1>7. QED
  BY <1>3, <1>4, <1>5, <1>6 DEF IInv

LEMMA NextIInv == IInv /\ [Next]_vars => IInv'
  BY NoKeyStep, KeyStep, EscapeStep, NextRowStep, ScrollStep, QuietStep, ReportStep, UpdateStep,
     StartTestStep, StartRunStep, NextPassStep
     DEF Next, Program, User

LEMMA AlwaysIInv == Spec => []IInv
  BY InitIInv, NextIInv, PTL DEF Spec

(***************************************************************************)
(* The types, and no line is printed outside the region.                   *)
(***************************************************************************)
THEOREM AreaTyped == Spec => []TypeOK
<1>1. IInv => TypeOK
  BY DEF IInv, Good, Areas, TypeInv, Places, Todos, LinesInv, TypeOK
<1>2. QED
  BY <1>1, AlwaysIInv, PTL

(***************************************************************************)
(* The banner never says PASS after an error of this run, and none is      *)
(* drawn once the user has removed one.                                    *)
(***************************************************************************)
THEOREM BannerIsTrue == Spec => []BannerTrue
<1>1. IInv => BannerTrue
  BY DEF IInv
<1>2. QED
  BY <1>1, AlwaysIInv, PTL

(***************************************************************************)
(* Whatever scrolled while the banner was on display, nothing of it is     *)
(* left when it is removed.                                                *)
(***************************************************************************)
THEOREM NoGhostLeft == Spec => []NoGhost
<1>1. IInv => NoGhost
  BY DEF IInv, Good, Clean, Pieces, NoGhost
<1>2. QED
  BY <1>1, AlwaysIInv, PTL

(***************************************************************************)
(* The error listed last stands in its row as a whole.                     *)
(***************************************************************************)
THEOREM NewestIsWhole == Spec => []NewestWhole
<1>1. IInv => NewestWhole
  BY DEF IInv, Good, Whole, Behind, NewestWhole
<1>2. QED
  BY <1>1, AlwaysIInv, PTL
=============================================================================
