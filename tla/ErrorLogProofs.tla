--------------------------- MODULE ErrorLogProofs ---------------------------
(***************************************************************************)
(* Proofs about the error reports: for every set of faults, every number   *)
(* of errors and every order of reports, changes of the mode and new runs, *)
(* the statistics are what ErrorStats promises, and the BadRAM patterns    *)
(* have every error they should and none of an earlier run.                *)
(***************************************************************************)
EXTENDS ErrorLog, BadRamProofs

(***************************************************************************)
(* Addresses as page and offset, compared in two steps, are words.         *)
(***************************************************************************)
Places == [page : Nat, offset : 0 .. PAGE_WORDS - 1]

LEMMA DivMod ==
    ASSUME NEW W \in Nat \ {0}, NEW p \in Nat
    PROVE  /\ p \div W \in Nat
           /\ p % W \in 0 .. (W - 1)
           /\ p = ((p \div W) * W) + (p % W)
  BY SMT

LEMMA Monotone ==
    ASSUME NEW a \in Nat, NEW b \in Nat, NEW c \in Nat, a <= b
    PROVE  a * c <= b * c
  BY SMT

LEMMA WordAddress ==
    ASSUME NEW word \in FaultWords
    PROVE  /\ Address(word) \in Places /\ WordOf(Address(word)) = word /\ word \in Nat
           /\ Address(word).page < NoPage /\ VirtualWord(word) \in Nat
<1>1. PAGE_WORDS \in Nat \ {0} /\ word \in Nat /\ word \div PAGE_WORDS < NoPage
  BY ErrorLogAssumption
<1>2. /\ word \div PAGE_WORDS \in Nat /\ word % PAGE_WORDS \in 0 .. PAGE_WORDS - 1
      /\ word = ((word \div PAGE_WORDS) * PAGE_WORDS) + (word % PAGE_WORDS)
  BY <1>1, DivMod
<1> DEFINE vpage == first_word_mapping(word \div PAGE_WORDS)
<1>3. vpage \in Nat
  <2>1. (word \div PAGE_WORDS) % VM_WINDOW_SIZE \in 0 .. VM_WINDOW_SIZE - 1
    BY <1>2, DivMod, VmemAssumption
  <2>2. QED
    BY <1>2, <2>1, VmemAssumption DEF first_word_mapping
<1> HIDE DEF vpage
<1>4. vpage * PAGE_WORDS \in Nat
  BY <1>1, <1>3
<1>5. QED
  BY <1>1, <1>2, <1>4 DEF Address, Places, WordOf, VirtualWord, vpage

LEMMA WordOfPlace ==
    ASSUME NEW a \in Places
    PROVE  WordOf(a) \in Nat /\ a.page * PAGE_WORDS \in Nat
<1>1. a.page \in Nat /\ a.offset \in Nat /\ PAGE_WORDS \in Nat \ {0}
  BY ErrorLogAssumption DEF Places
<1>2. a.page * PAGE_WORDS \in Nat
  BY <1>1
<1>3. QED
  BY <1>1, <1>2 DEF WordOf

LEMMA PrecedesIsLess ==
    ASSUME NEW a \in Places, NEW b \in Places
    PROVE  Precedes(a, b) <=> WordOf(a) < WordOf(b)
<1>1. /\ a.page \in Nat /\ b.page \in Nat /\ PAGE_WORDS \in Nat \ {0}
      /\ a.offset \in 0 .. PAGE_WORDS - 1 /\ b.offset \in 0 .. PAGE_WORDS - 1
  BY ErrorLogAssumption DEF Places
<1>2. a.page * PAGE_WORDS \in Nat /\ b.page * PAGE_WORDS \in Nat
  BY WordOfPlace
<1>3. CASE a.page < b.page
  <2>1. (a.page + 1) * PAGE_WORDS <= b.page * PAGE_WORDS
    BY <1>1, <1>3, Monotone
  <2>2. (a.page + 1) * PAGE_WORDS = a.page * PAGE_WORDS + PAGE_WORDS
    BY <1>1
  <2>3. QED
    BY <1>1, <1>2, <1>3, <2>1, <2>2 DEF Precedes, WordOf
<1>4. CASE b.page < a.page
  <2>1. (b.page + 1) * PAGE_WORDS <= a.page * PAGE_WORDS
    BY <1>1, <1>4, Monotone
  <2>2. (b.page + 1) * PAGE_WORDS = b.page * PAGE_WORDS + PAGE_WORDS
    BY <1>1
  <2>3. QED
    BY <1>1, <1>2, <1>4, <2>1, <2>2 DEF Precedes, WordOf
<1>5. CASE a.page = b.page
  BY <1>1, <1>2, <1>5 DEF Precedes, WordOf
<1>6. QED
  BY <1>1, <1>3, <1>4, <1>5

-----------------------------------------------------------------------------
(***************************************************************************)
(* The invariant: the information is of its type, is that of error_init    *)
(* without an error, and otherwise that of the errors of this run.         *)
(***************************************************************************)
Information ==
    [min_addr : Places, max_addr : Places, bad_bits : SUBSET UNION Xors,
     min_bits : Nat, max_bits : Nat, total_bits : Nat,
     run_length : Nat, max_run : Nat, last_addr : Nat,
     last_xor : Xors \cup {{}}]

Errors == [word : FaultWords, bits : Xors \cup {{}}]

InfoInv ==
    /\ error_info \in Information
    /\ error_count \in 0 .. ERROR_LIMIT
    /\ seen \subseteq Errors
    /\ error_count = 0 <=> seen = {}
    /\ seen = {} => error_info = ClearInfo

FigureInv ==
    seen # {} =>
        /\ Stats!Extreme(Shown(error_info), seen)
        /\ Stats!Masked(Shown(error_info), seen)
        /\ Stats!Counted(Shown(error_info), seen)
        /\ Stats!Average(Shown(error_info), error_info.total_bits, error_count)

\* The header is that of the mode noted last, and what was drawn in summary mode is
\* drawn still, whatever the mode is now.
DrawnInv ==
    error_count > 0 =>
        /\ header = last_error_mode
        /\ last_error_mode = "summary" => summary \subseteq {Shown(error_info)}

\* A report that is open has counted its error.
OpenInv == open # {} => error_count > 0 /\ open \subseteq [addr : Nat, xor : Xors]

StatsInv == InfoInv /\ FigureInv /\ DrawnInv /\ OpenInv

(***************************************************************************)
(* And the patterns: they are a list of normal patterns, and cover what is *)
(* owed, all of which was found in this run and in this mode.              *)
(***************************************************************************)
PatternInv ==
    /\ ListInv
    /\ owed \subseteq FaultWords
    /\ {BadRamAddress(word) : word \in owed} \subseteq faulty
    /\ faulty \subseteq {BadRamAddress(s.word) : s \in seen}
    /\ seen = {} \/ error_mode # last_error_mode => owed = {}

-----------------------------------------------------------------------------
(***************************************************************************)
(* What one error does to the statistics.                                  *)
(***************************************************************************)
LEMMA BitCount ==
    ASSUME NEW bits \in Xors \cup {{}}
    PROVE  Cardinality(bits) \in 0 .. NO_BITS
<1>1. Cardinality({}) = 0 /\ NO_BITS = 255
  BY FS_EmptySet DEF NO_BITS
<1>2. CASE bits \in Xors
  <2>1. IsFiniteSet(bits) /\ Cardinality(bits) <= NO_BITS
    BY <1>2, ErrorLogAssumption
  <2>2. Cardinality(bits) \in Nat
    BY <2>1, FS_CardinalityType
  <2>3. QED
    BY <1>1, <2>1, <2>2
<1>3. CASE bits = {}
  BY <1>1, <1>3
<1>4. QED
  BY <1>2, <1>3

\* update_error_info by fields.
LEMMA InfoFields ==
    ASSUME InfoInv, NEW word \in FaultWords, NEW bits \in Xors \cup {{}},
           NEW info, info = update_error_info(word, bits)
    PROVE  /\ info \in Information
           /\ info.min_addr = Lower(Address(word), error_info.min_addr)
           /\ info.max_addr = Higher(Address(word), error_info.max_addr)
           /\ info.bad_bits = error_info.bad_bits \cup bits
           /\ info.min_bits = Least(error_info.min_bits, Cardinality(bits))
           /\ info.max_bits = Most(error_info.max_bits, Cardinality(bits))
           /\ info.total_bits = BitsCounted(Cardinality(bits))
<1>1. error_info \in Information /\ error_count \in Nat /\ ERROR_LIMIT \in Nat
  BY ErrorLogAssumption DEF InfoInv
<1>2. Address(word) \in Places /\ Cardinality(bits) \in Nat
  BY WordAddress, BitCount DEF NO_BITS
<1>3. /\ Lower(Address(word), error_info.min_addr) \in Places
      /\ Higher(Address(word), error_info.max_addr) \in Places
  BY <1>1, <1>2 DEF Lower, Higher, Information
<1>4. error_info.bad_bits \cup bits \in SUBSET UNION Xors
  BY <1>1 DEF Information
<1>5. /\ Least(error_info.min_bits, Cardinality(bits)) \in Nat
      /\ Most(error_info.max_bits, Cardinality(bits)) \in Nat
      /\ BitsCounted(Cardinality(bits)) \in Nat
  BY <1>1, <1>2 DEF Least, Most, BitsCounted, Information
<1>6. PICK run \in Nat :
        info = [error_info EXCEPT
                  !.min_addr   = Lower(Address(word), error_info.min_addr),
                  !.max_addr   = Higher(Address(word), error_info.max_addr),
                  !.bad_bits   = error_info.bad_bits \cup bits,
                  !.min_bits   = Least(error_info.min_bits, Cardinality(bits)),
                  !.max_bits   = Most(error_info.max_bits, Cardinality(bits)),
                  !.total_bits = BitsCounted(Cardinality(bits)),
                  !.run_length = run,
                  !.max_run    = Most(error_info.max_run, run)]
  <2> DEFINE addr == VirtualWord(word)
             next == /\ error_info.max_run > 0
                     /\ addr \in {error_info.last_addr + 1, error_info.last_addr - 1}
             run  == IF next THEN error_info.run_length + 1 ELSE 1
  <2>1. run \in Nat
    BY <1>1 DEF Information
  <2>2. QED
    BY <2>1 DEF update_error_info
<1>7. Most(error_info.max_run, run) \in Nat
  BY <1>1, <1>6 DEF Most, Information
<1>8. QED
  BY <1>1, <1>3, <1>4, <1>5, <1>6, <1>7 DEF Information

\* The extremes, in words and in numbers of bits.
LEMMA LowerWord ==
    ASSUME NEW a \in Places, NEW b \in Places
    PROVE  /\ WordOf(Lower(a, b)) = Least(WordOf(a), WordOf(b))
           /\ WordOf(Higher(a, b)) = Most(WordOf(a), WordOf(b))
<1>1. WordOf(a) \in Nat /\ WordOf(b) \in Nat
  BY WordOfPlace
<1>2. Precedes(a, b) <=> WordOf(a) < WordOf(b)
  BY PrecedesIsLess
<1>3. Precedes(b, a) <=> WordOf(b) < WordOf(a)
  BY PrecedesIsLess
<1>4. QED
  BY <1>1, <1>2, <1>3 DEF Lower, Higher, Least, Most

LEMMA FirstWord ==
    ASSUME NEW word \in FaultWords
    PROVE  /\ Lower(Address(word), ClearInfo.min_addr) = Address(word)
           /\ WordOf(Higher(Address(word), ClearInfo.max_addr)) = word
<1>1. /\ Address(word) \in Places /\ WordOf(Address(word)) = word /\ word \in Nat
      /\ Address(word).page < NoPage
  BY WordAddress
<1>2. ClearInfo.min_addr.page = NoPage /\ NoPage \in Nat
  BY DEF ClearInfo, NoPage
<1>3. Lower(Address(word), ClearInfo.min_addr) = Address(word)
  BY <1>1, <1>2 DEF Lower, Precedes
<1>4. ClearInfo.max_addr \in Places /\ WordOf(ClearInfo.max_addr) = 0
  BY ErrorLogAssumption DEF ClearInfo, Places, WordOf
<1>5. WordOf(Higher(Address(word), ClearInfo.max_addr)) = Most(word, 0)
  BY <1>1, <1>4, LowerWord
<1>6. QED
  BY <1>1, <1>3, <1>5 DEF Most

LEMMA SameCardinality == \A S : Stats!Cardinality(S) = Cardinality(S)
  BY DEF Cardinality, Stats!Cardinality

LEMMA Products ==
    ASSUME NEW a \in Nat, NEW c \in Nat
    PROVE  a * c \in Nat /\ a * (c + 1) = a * c + a
  BY SMT

\* The error just found joins the others; error_info is what FigureInv says.
LEMMA FigureStep ==
    ASSUME InfoInv, FigureInv, NEW word \in FaultWords, NEW bits \in Xors \cup {{}},
           NEW info, info = update_error_info(word, bits),
           NEW now, now = seen \cup {[word |-> word, bits |-> bits]}
    PROVE  /\ Stats!Extreme(Shown(info), now)
           /\ Stats!Masked(Shown(info), now)
           /\ Stats!Counted(Shown(info), now)
           /\ Stats!Average(Shown(info), info.total_bits, Counted)
<1> DEFINE n   == Cardinality(bits)
           new == [word |-> word, bits |-> bits]
           f   == Shown(error_info)
           g   == Shown(info)
<1>1. /\ info \in Information
      /\ info.min_addr = Lower(Address(word), error_info.min_addr)
      /\ info.max_addr = Higher(Address(word), error_info.max_addr)
      /\ info.bad_bits = error_info.bad_bits \cup bits
      /\ info.min_bits = Least(error_info.min_bits, n)
      /\ info.max_bits = Most(error_info.max_bits, n)
      /\ info.total_bits = BitsCounted(n)
  BY InfoFields
<1>2. Address(word) \in Places /\ WordOf(Address(word)) = word /\ word \in Nat
  BY WordAddress
<1>3. n \in Nat /\ n <= NO_BITS /\ NO_BITS = 255
  BY BitCount DEF NO_BITS
<1>4. now = seen \cup {new} /\ new.word = word /\ new.bits = bits /\ Cardinality(new.bits) = n
  OBVIOUS
<1>5. error_info \in Information /\ error_count \in Nat /\ ERROR_LIMIT \in Nat \ {0}
  BY ErrorLogAssumption DEF InfoInv
<1>6. \A e \in seen : e.word \in Nat /\ Cardinality(e.bits) \in Nat
  BY WordAddress, BitCount DEF InfoInv, Errors, NO_BITS
<1>7. /\ g.lowest = WordOf(info.min_addr) /\ g.highest = WordOf(info.max_addr)
      /\ g.mask = info.bad_bits /\ g.least = info.min_bits /\ g.most = info.max_bits
  BY DEF Shown
<1>8. /\ f.lowest = WordOf(error_info.min_addr) /\ f.highest = WordOf(error_info.max_addr)
      /\ f.mask = error_info.bad_bits
      /\ f.least = error_info.min_bits /\ f.most = error_info.max_bits
  BY DEF Shown
<1> HIDE DEF n, new, f, g
<1>9. CASE seen = {}
  <2>1. error_info = ClearInfo /\ error_count = 0 /\ now = {new}
    BY <1>4, <1>9 DEF InfoInv
  <2>2. g.lowest = word /\ g.highest = word
    BY <1>1, <1>2, <1>7, <2>1, FirstWord
  <2>3. g.mask = bits /\ g.least = n /\ g.most = n
    BY <1>1, <1>3, <1>7, <2>1 DEF ClearInfo, Least, Most
  <2>4. info.total_bits = n /\ Counted = 1
    BY <1>1, <1>3, <1>5, <2>1 DEF ClearInfo, BitsCounted, Counted, Least
  <2>5. Stats!Extreme(g, now)
    BY <1>2, <1>4, <2>1, <2>2 DEF Stats!Extreme
  <2>6. Stats!Masked(g, now)
    BY <1>4, <2>1, <2>3 DEF Stats!Masked
  <2>7. Stats!Counted(g, now)
    BY <1>3, <1>4, <2>1, <2>3, SameCardinality DEF Stats!Counted
  <2>8. Stats!Average(g, info.total_bits, Counted)
    BY <1>3, <2>3, <2>4 DEF Stats!Average
  <2>9. QED
    BY <2>5, <2>6, <2>7, <2>8 DEF g
<1>10. CASE seen # {}
  <2>1. /\ Stats!Extreme(f, seen) /\ Stats!Masked(f, seen) /\ Stats!Counted(f, seen)
        /\ Stats!Average(f, error_info.total_bits, error_count) /\ error_count > 0
    BY <1>5, <1>10 DEF FigureInv, InfoInv, f
  <2>2. Stats!Extreme(g, now)
    <3>1. error_info.min_addr \in Places /\ error_info.max_addr \in Places
      BY <1>5 DEF Information
    <3>2. g.lowest = Least(word, f.lowest) /\ g.highest = Most(word, f.highest)
      BY <1>1, <1>2, <1>7, <1>8, <3>1, LowerWord
    <3>3. f.lowest \in Nat /\ f.highest \in Nat
      BY <1>8, <3>1, WordOfPlace
    <3>4. QED
      BY <1>2, <1>4, <1>6, <2>1, <3>2, <3>3 DEF Stats!Extreme, Least, Most
  <2>3. Stats!Masked(g, now)
    BY <1>1, <1>4, <1>7, <1>8, <2>1 DEF Stats!Masked
  <2>4. /\ g.least = Least(f.least, n) /\ g.most = Most(f.most, n)
        /\ f.least \in Nat /\ f.most \in Nat
    BY <1>1, <1>5, <1>7, <1>8 DEF Information
  <2>5. Stats!Counted(g, now)
    BY <1>3, <1>4, <1>6, <2>1, <2>4, SameCardinality DEF Stats!Counted, Least, Most
  <2>6. Stats!Average(g, info.total_bits, Counted)
    <3>1. /\ error_info.total_bits \in Nat /\ g.least \in Nat /\ g.most \in Nat
          /\ g.least <= f.least /\ g.least <= n /\ f.most <= g.most /\ n <= g.most
      BY <1>3, <1>5, <2>4 DEF Information, Least, Most
    <3>2. /\ f.least * error_count <= error_info.total_bits
          /\ error_info.total_bits <= f.most * error_count
      BY <2>1 DEF Stats!Average
    <3>3. /\ g.least * error_count <= f.least * error_count
          /\ f.most * error_count <= g.most * error_count
      BY <1>5, <2>4, <3>1, Monotone
    <3>4. /\ g.least * error_count \in Nat /\ g.most * error_count \in Nat
          /\ f.least * error_count \in Nat /\ f.most * error_count \in Nat
          /\ g.least * (error_count + 1) = g.least * error_count + g.least
          /\ g.most * (error_count + 1) = g.most * error_count + g.most
      BY <1>5, <2>4, <3>1, Products
    <3>5. CASE error_count < ERROR_LIMIT
      <4>1. Counted = error_count + 1 /\ info.total_bits = error_info.total_bits + n
        BY <1>1, <1>5, <3>5 DEF Counted, Least, BitsCounted
      <4>2. g.least * Counted <= info.total_bits /\ info.total_bits <= g.most * Counted
        BY <1>3, <2>4, <3>1, <3>2, <3>3, <3>4, <4>1
      <4>3. QED
        BY <1>5, <4>1, <4>2 DEF Stats!Average
    <3>6. CASE ~(error_count < ERROR_LIMIT)
      <4>1. Counted = error_count /\ info.total_bits = error_info.total_bits
        BY <1>1, <1>5, <3>6 DEF Counted, Least, BitsCounted, InfoInv
      <4>2. g.least * Counted <= info.total_bits /\ info.total_bits <= g.most * Counted
        BY <2>4, <3>1, <3>2, <3>3, <3>4, <4>1
      <4>3. QED
        BY <2>1, <4>1, <4>2 DEF Stats!Average
    <3>7. QED
      BY <3>5, <3>6
  <2>7. QED
    BY <2>2, <2>3, <2>5, <2>6 DEF g
<1>11. QED
  BY <1>9, <1>10

-----------------------------------------------------------------------------
(***************************************************************************)
(* The steps, one lemma each: what they keep of StatsInv, and what they    *)
(* are in ErrorStats.                                                      *)
(***************************************************************************)
LEMMA InitStats == Init => StatsInv /\ Stats!Init
<1> SUFFICES ASSUME Init PROVE StatsInv /\ Stats!Init
  OBVIOUS
<1>1. ClearInfo \in Information
  BY ErrorLogAssumption DEF ClearInfo, Information, Places, NoPage, NO_BITS
<1>2. error_info = ClearInfo /\ error_count = 0 /\ seen = {}
      /\ summary = {} /\ open = {}
  BY DEF Init
<1>3. InfoInv /\ FigureInv /\ DrawnInv /\ OpenInv
  BY <1>1, <1>2, ErrorLogAssumption DEF InfoInv, FigureInv, DrawnInv, OpenInv
<1>4. QED
  BY <1>2, <1>3 DEF StatsInv, Stats!Init, OnScreen

LEMMA ReportStats ==
    ASSUME StatsInv, NEW word \in FaultWords, NEW xor \in Xors,
           NEW kind \in {"addr", "data", "move"}, Report(word, xor, kind)
    PROVE  StatsInv' /\ Stats!Found
<1> DEFINE bits == IF kind = "addr" THEN {} ELSE xor
           info == update_error_info(word, bits)
           now  == seen \cup {[word |-> word, bits |-> bits]}
<1>1. /\ last_error_mode' = error_mode /\ error_mode' = error_mode
      /\ error_count' = Counted /\ seen' = now
      /\ DrawArea(NewStats(info, bits), info)
      /\ \/ /\ error_info' = info
            /\ open' = {[addr |-> VirtualWord(word), xor |-> xor]}
         \/ /\ error_info' = [info EXCEPT !.last_addr = VirtualWord(word), !.last_xor = xor]
            /\ open' = {}
  BY DEF Report
<1>2. InfoInv /\ FigureInv /\ DrawnInv
  BY DEF StatsInv
<1>3. bits \in Xors \cup {{}}
  OBVIOUS
<1> HIDE DEF bits
<1>4. info \in Information
  BY <1>2, <1>3, InfoFields
<1>5. /\ Stats!Extreme(Shown(info), now)
      /\ Stats!Masked(Shown(info), now)
      /\ Stats!Counted(Shown(info), now)
      /\ Stats!Average(Shown(info), info.total_bits, Counted)
  BY <1>2, <1>3, FigureStep
<1> HIDE DEF info
<1>6. error_info' \in Information /\ error_info'.total_bits = info.total_bits
  BY <1>1, <1>4, WordAddress DEF Information
<1>7. Shown(error_info') = Shown(info)
  BY <1>1, <1>4 DEF Shown, Information
<1>8. header' = last_error_mode'
  <2>1. header' = IF NewHeader THEN error_mode ELSE header
    BY <1>1 DEF DrawArea
  <2>2. ~NewHeader => error_count > 0 /\ error_mode = last_error_mode
    BY <1>2, ErrorLogAssumption DEF NewHeader, InfoInv
  <2>3. QED
    BY <1>1, <1>2, <2>1, <2>2 DEF DrawnInv
<1>9. error_count' \in 1 .. ERROR_LIMIT
  BY <1>1, <1>2, ErrorLogAssumption DEF InfoInv, Counted, Least
<1>10. InfoInv'
  <2> DEFINE new == [word |-> word, bits |-> bits]
  <2>1. seen' \subseteq Errors /\ seen' # {}
    <3>1. new \in Errors /\ seen \subseteq Errors
      BY <1>2, <1>3 DEF InfoInv, Errors
    <3>2. seen' = seen \cup {new}
      BY <1>1
    <3> HIDE DEF new
    <3>3. QED
      BY <3>1, <3>2
  <2>2. QED
    BY <1>6, <1>9, <2>1 DEF InfoInv
<1>11. FigureInv'
  BY <1>1, <1>5, <1>6, <1>7 DEF FigureInv
<1>12. last_error_mode' = "summary" => summary' \subseteq {Shown(info)}
  <2> SUFFICES ASSUME error_mode = "summary" PROVE summary' \subseteq {Shown(info)}
    BY <1>1
  <2>1. CASE NewStats(info, bits) \/ NewHeader
    BY <1>1, <2>1 DEF DrawArea
  <2>2. CASE ~NewStats(info, bits) /\ ~NewHeader
    <3>1. error_count > 0 /\ last_error_mode = "summary"
      BY <1>2, <2>2, ErrorLogAssumption DEF NewHeader, InfoInv
    <3>2. summary \subseteq {Shown(error_info)} /\ Shown(info) = Shown(error_info)
      BY <1>2, <2>2, <3>1 DEF DrawnInv, NewStats
    <3>3. QED
      BY <1>1, <2>2, <3>2 DEF DrawArea
  <2>3. QED
    BY <2>1, <2>2
<1>13. DrawnInv' /\ OpenInv'
  BY <1>1, <1>7, <1>8, <1>9, <1>12, WordAddress DEF DrawnInv, OpenInv
<1>14. Stats!Found
  <2>1. (IF InSummary THEN OnScreen ELSE {})' \subseteq {Stats!Summary(Shown(error_info'))}
    BY <1>7, <1>8, <1>12 DEF InSummary, OnScreen, Stats!Summary
  <2>2. QED
    BY <1>1, <1>3, <1>5, <1>6, <1>7, <2>1 DEF Stats!Found
<1>15. QED
  BY <1>10, <1>11, <1>13, <1>14 DEF StatsInv

LEMMA ChangeHeaderStats ==
    ASSUME StatsInv, ChangeHeader
    PROVE  StatsInv' /\ Stats!Redraw
<1>1. /\ last_error_mode' = error_mode /\ DrawArea(TRUE, error_info)
      /\ error_info' = [error_info EXCEPT !.last_addr = 0, !.last_xor = {}]
      /\ UNCHANGED <<error_mode, error_count, seen, open>>
      /\ error_count > 0 /\ error_mode # last_error_mode
  BY DEF ChangeHeader
<1>2. InfoInv /\ FigureInv /\ error_info \in Information
  BY DEF StatsInv, InfoInv
<1>3. /\ error_info' \in Information /\ error_info'.total_bits = error_info.total_bits
      /\ Shown(error_info') = Shown(error_info)
  BY <1>1, <1>2 DEF Information, Shown
<1>4. seen # {}
  BY <1>1, <1>2 DEF InfoInv
<1>5. InfoInv' /\ FigureInv'
  BY <1>1, <1>2, <1>3, <1>4 DEF InfoInv, FigureInv
<1>6. /\ header' = last_error_mode'
      /\ last_error_mode' = "summary" => summary' = {Shown(error_info)}
  BY <1>1 DEF DrawArea, NewHeader
<1>7. DrawnInv' /\ OpenInv'
  BY <1>1, <1>3, <1>6 DEF DrawnInv, OpenInv, StatsInv
<1>8. Stats!Redraw
  BY <1>1, <1>3, <1>6 DEF Stats!Redraw, InSummary, OnScreen, Stats!Summary
<1>9. QED
  BY <1>5, <1>7, <1>8 DEF StatsInv

LEMMA SetModeStats ==
    ASSUME StatsInv, SetMode
    PROVE  StatsInv' /\ Stats!Redraw
<1>1. UNCHANGED <<last_error_mode, error_count, error_info, header, summary, open, seen>>
  BY DEF SetMode
<1>2. StatsInv'
  BY <1>1 DEF StatsInv, InfoInv, FigureInv, DrawnInv, OpenInv
<1>3. Stats!Redraw
  BY <1>1 DEF Stats!Redraw, InSummary, OnScreen, Stats!Summary, StatsInv, DrawnInv
<1>4. QED
  BY <1>2, <1>3

\* The mode may have changed while the report was open, the header has not.
LEMMA EndReportStats ==
    ASSUME StatsInv, EndReport
    PROVE  StatsInv' /\ UNCHANGED Stats!statsVars
<1>1. PICK e \in open : error_info' = [error_info EXCEPT !.last_addr = e.addr, !.last_xor = e.xor]
  BY DEF EndReport
<1>2. /\ open' = {}
      /\ UNCHANGED <<error_mode, last_error_mode, error_count, header, summary, seen>>
  BY DEF EndReport
<1>3. error_count > 0 /\ e.addr \in Nat /\ e.xor \in Xors
  BY DEF StatsInv, OpenInv
<1>4. InfoInv /\ error_info \in Information
  BY DEF StatsInv, InfoInv
<1>5. /\ error_info' \in Information /\ error_info'.total_bits = error_info.total_bits
      /\ Shown(error_info') = Shown(error_info)
  BY <1>1, <1>3, <1>4 DEF Information, Shown
<1>6. seen # {}
  BY <1>3, <1>4 DEF InfoInv
<1>7. InfoInv' /\ FigureInv' /\ DrawnInv' /\ OpenInv'
  BY <1>2, <1>4, <1>5, <1>6 DEF StatsInv, InfoInv, FigureInv, DrawnInv, OpenInv
<1>8. QED
  BY <1>2, <1>5, <1>7 DEF StatsInv, Stats!statsVars, InSummary, OnScreen

LEMMA StartRunStats ==
    ASSUME StartRun
    PROVE  StatsInv' /\ Stats!NewRun
<1>1. error_count' = 0 /\ error_info' = ClearInfo /\ seen' = {} /\ open' = {}
  BY DEF StartRun
<1>2. ClearInfo \in Information
  BY ErrorLogAssumption DEF ClearInfo, Information, Places, NoPage, NO_BITS
<1>3. InfoInv' /\ FigureInv' /\ DrawnInv' /\ OpenInv'
  BY <1>1, <1>2, ErrorLogAssumption DEF InfoInv, FigureInv, DrawnInv, OpenInv, ClearInfo
<1>4. QED
  BY <1>1, <1>3 DEF StatsInv, Stats!NewRun, InSummary

LEMMA UnseenStats ==
    ASSUME StatsInv, NextTest \/ UNCHANGED logVars
    PROVE  StatsInv' /\ UNCHANGED Stats!statsVars
<1>1. UNCHANGED <<error_mode, last_error_mode, error_count, error_info, header, summary,
                  open, seen>>
  BY DEF NextTest, logVars
<1>2. QED
  BY <1>1 DEF StatsInv, InfoInv, FigureInv, DrawnInv, OpenInv, Stats!statsVars, InSummary, OnScreen

LEMMA NextStats ==
    ASSUME StatsInv, [Next]_logVars
    PROVE  /\ StatsInv'
           /\ [Stats!Found \/ Stats!Redraw \/ Stats!NewRun]_Stats!statsVars
<1>1. CASE \E word \in FaultWords, xor \in Xors, kind \in {"addr", "data", "move"} :
             Report(word, xor, kind)
  BY <1>1, ReportStats
<1>2. CASE ChangeHeader
  BY <1>2, ChangeHeaderStats
<1>3. CASE SetMode
  BY <1>3, SetModeStats
<1>4. CASE StartRun
  BY <1>4, StartRunStats
<1>5. CASE EndReport
  BY <1>5, EndReportStats
<1>6. CASE NextTest \/ UNCHANGED logVars
  BY <1>6, UnseenStats
<1>7. QED
  BY <1>1, <1>2, <1>3, <1>4, <1>5, <1>6 DEF Next

(***************************************************************************)
(* In every mode, order and number of errors, the statistics are those of  *)
(* the errors of this run, and a summary on the screen shows them as they  *)
(* are: error.c implements ErrorStats.                                     *)
(***************************************************************************)
THEOREM StatsImplemented == Spec => ImplementsStats
<1>1. StatsInv /\ [Next]_logVars =>
        StatsInv' /\ [Stats!Found \/ Stats!Redraw \/ Stats!NewRun]_Stats!statsVars
  BY NextStats
<1>2. QED
  BY <1>1, InitStats, PTL DEF Spec, ImplementsStats, Stats!Spec

-----------------------------------------------------------------------------
(***************************************************************************)
(* The patterns.                                                           *)
(***************************************************************************)
LEMMA ReportPatterns ==
    ASSUME InfoInv, PatternInv, NEW word \in FaultWords, NEW xor \in Xors,
           NEW kind \in {"addr", "data", "move"}, Report(word, xor, kind)
    PROVE  PatternInv'
<1> DEFINE old == OldPatterns
           was == IF NewHeader THEN {} ELSE faulty
           use == error_mode = "badram" /\ kind = "data"
           bits == IF kind = "addr" THEN {} ELSE xor
           new  == [word |-> word, bits |-> bits]
           found(s) == {BadRamAddress(e.word) : e \in s}
           due(ws)  == {BadRamAddress(w) : w \in ws}
<1>1. /\ last_error_mode' = error_mode /\ error_mode' = error_mode
      /\ seen' = seen \cup {new}
      /\ owed' = IF use THEN owed \cup {word} ELSE owed
  BY DEF Report
<1>2. IF use THEN badram_insert_into(old, was, BadRamAddress(word))
             ELSE patterns' = old /\ faulty' = was
  BY DEF Report, RecordBadRam
<1>3. ListOf(old, was)
  BY EmptyList DEF PatternInv, ListInv, OldPatterns
<1>4. BadRamAddress(word) \in Addresses
  BY ErrorLogAssumption
<1>5. ListOf(patterns', faulty')
  <2>1. CASE use
    BY <1>2, <1>3, <1>4, <2>1, InsertStep
  <2>2. CASE ~use
    BY <1>2, <1>3, <2>2
  <2>3. QED
    BY <2>1, <2>2
<1>6. faulty' = IF use THEN was \cup {BadRamAddress(word)} ELSE was
  BY <1>2 DEF badram_insert_into
<1>7. owed \subseteq FaultWords /\ due(owed) \subseteq was /\ was \subseteq found(seen)
  <2>1. NewHeader => owed = {}
    BY DEF PatternInv, NewHeader, InfoInv
  <2>2. QED
    BY <2>1 DEF PatternInv
<1> HIDE DEF old, was, use
<1>8. owed' \subseteq FaultWords /\ due(owed') \subseteq faulty'
  BY <1>1, <1>6, <1>7
<1>9. new.word = word
  OBVIOUS
<1> HIDE DEF new
<1>10. faulty' \subseteq found(seen')
  BY <1>1, <1>6, <1>7, <1>9
<1>11. seen' # {} /\ error_mode' = last_error_mode'
  BY <1>1
<1>12. QED
  BY <1>5, <1>8, <1>10, <1>11 DEF PatternInv, ListInv

LEMMA NextPatterns ==
    ASSUME InfoInv, PatternInv, [Next]_logVars
    PROVE  PatternInv'
<1>1. CASE \E word \in FaultWords, xor \in Xors, kind \in {"addr", "data", "move"} :
             Report(word, xor, kind)
  BY <1>1, ReportPatterns
<1>2. CASE ChangeHeader \/ StartRun
  <2>1. patterns' = <<>> /\ faulty' = {} /\ owed' = {}
    BY <1>2 DEF ChangeHeader, StartRun, badram_init, PatternInv
  <2>2. QED
    BY <2>1, EmptyList DEF PatternInv, ListInv
<1>3. CASE SetMode
  <2>1. UNCHANGED <<patterns, faulty, seen>> /\ owed' = {}
    BY <1>3 DEF SetMode
  <2>2. QED
    BY <2>1 DEF PatternInv, ListInv
<1>4. CASE EndReport \/ NextTest \/ UNCHANGED logVars
  <2>1. UNCHANGED <<patterns, faulty, seen, owed, error_mode, last_error_mode>>
    BY <1>4 DEF EndReport, NextTest, logVars
  <2>2. QED
    BY <2>1 DEF PatternInv, ListInv
<1>5. QED
  BY <1>1, <1>2, <1>3, <1>4 DEF Next

LEMMA AlwaysPatterns == Spec => []PatternInv
<1>1. Init => InfoInv /\ PatternInv
  <2> SUFFICES ASSUME Init PROVE InfoInv /\ PatternInv
    OBVIOUS
  <2>1. patterns = <<>> /\ faulty = {} /\ owed = {}
    BY DEF Init, BadRamInit
  <2>2. QED
    BY <2>1, InitStats, EmptyList DEF StatsInv, PatternInv, ListInv
<1>2. StatsInv /\ [Next]_logVars => StatsInv'
  BY NextStats
<1>3. InfoInv /\ PatternInv /\ [Next]_logVars => PatternInv'
  BY NextPatterns
<1>4. StatsInv => InfoInv
  BY DEF StatsInv
<1>5. QED
  BY <1>1, <1>2, <1>3, <1>4, InitStats, PTL DEF Spec

(***************************************************************************)
(* The patterns cover every error reported for them since BadRAM mode was  *)
(* entered: a list cleared too often would lose one.                       *)
(***************************************************************************)
THEOREM PatternsCapture == Spec => []CapturesAll
<1>1. PatternInv => CapturesAll
  BY DEF PatternInv, ListInv, ListOf, CapturesAll, CoveredBy
<1>2. QED
  BY <1>1, AlwaysPatterns, PTL

(***************************************************************************)
(* They have no fault of an earlier run: a list cleared too seldom would   *)
(* keep one.                                                               *)
(***************************************************************************)
THEOREM PatternsFresh == Spec => []PatternsOfThisRun
<1>1. PatternInv => PatternsOfThisRun
  BY DEF PatternInv, PatternsOfThisRun
<1>2. QED
  BY <1>1, AlwaysPatterns, PTL

(***************************************************************************)
(* The types; the counters stop at their limits.                           *)
(***************************************************************************)
PlainInv ==
    /\ error_mode \in Modes /\ last_error_mode \in Modes /\ header \in Modes
    /\ errors \in [Tests -> 0 .. INT_MAX] /\ test_num \in Tests
    /\ total \in 0 .. MaxReports

LEMMA NextPlain ==
    ASSUME PlainInv, [Next]_logVars
    PROVE  PlainInv'
<1>1. ASSUME NEW word \in FaultWords, NEW xor \in Xors, NEW kind \in {"addr", "data", "move"},
             Report(word, xor, kind)
      PROVE  PlainInv'
  <2>1. /\ total < MaxReports /\ total' = total + 1 /\ last_error_mode' = error_mode
        /\ errors' = [errors EXCEPT ![test_num] = Least(errors[test_num] + 1, INT_MAX)]
        /\ UNCHANGED <<error_mode, test_num>>
    BY <1>1 DEF Report
  <2>2. Least(errors[test_num] + 1, INT_MAX) \in 0 .. INT_MAX
    BY ErrorLogAssumption DEF PlainInv, Least
  <2>3. total' \in 0 .. MaxReports
    BY <2>1, ErrorLogAssumption DEF PlainInv
  <2>4. header' \in Modes
    BY <1>1 DEF Report, DrawArea, PlainInv
  <2>5. QED
    BY <2>1, <2>2, <2>3, <2>4 DEF PlainInv
<1>2. CASE ChangeHeader
  BY <1>2 DEF ChangeHeader, DrawArea, PlainInv
<1>3. CASE SetMode
  BY <1>3 DEF SetMode, PlainInv
<1>4. CASE StartRun
  BY <1>4, ErrorLogAssumption DEF StartRun, PlainInv
<1>5. CASE NextTest
  BY <1>5 DEF NextTest, PlainInv
<1>6. CASE EndReport \/ UNCHANGED logVars
  BY <1>6 DEF EndReport, logVars, PlainInv
<1>7. QED
  BY <1>1, <1>2, <1>3, <1>4, <1>5, <1>6 DEF Next

THEOREM LogTyped == Spec => []TypeOK
<1>1. Init => PlainInv
  BY ErrorLogAssumption DEF Init, PlainInv, Modes
<1>2. PlainInv /\ [Next]_logVars => PlainInv'
  BY NextPlain
<1>3. StatsInv /\ [Next]_logVars => StatsInv'
  BY NextStats
<1>4. PlainInv /\ StatsInv /\ PatternInv => TypeOK
  <2> SUFFICES ASSUME PlainInv, StatsInv, PatternInv PROVE TypeOK
    OBVIOUS
  <2>1. NormalPatterns \subseteq Pattern
    BY DEF NormalPatterns
  <2>2. patterns \in Seq(Pattern)
    BY <2>1, SeqMonotonic DEF PatternInv, ListInv, ListOf
  <2>3. error_info.bad_bits \subseteq UNION Xors
    BY DEF StatsInv, InfoInv, Information
  <2>4. open \subseteq [addr : Nat, xor : Xors]
    BY DEF StatsInv, OpenInv
  <2>5. QED
    BY <2>2, <2>3, <2>4 DEF PlainInv, StatsInv, InfoInv, Errors, PatternInv, TypeOK
<1>5. QED
  BY <1>1, <1>2, <1>3, <1>4, InitStats, AlwaysPatterns, PTL DEF Spec
=============================================================================
