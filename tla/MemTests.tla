------------------------------ MODULE MemTests ------------------------------
(***************************************************************************)
(* The memory tests (tests/*.c, and the switch of run_test), word by word, *)
(* on a memory that may have one fault.                                    *)
(*                                                                         *)
(* Every test is a list of phases.  A phase walks the range of one window  *)
(* in blocks of at most SPIN_SIZE words, up or down, and checks, writes or *)
(* moves the words; each block ends with a do_tick, which may find that    *)
(* the user wants to leave (bail).  The dummy run walks the same blocks to *)
(* count their ticks, and touches no word.                                 *)
(*                                                                         *)
(* Addresses are counted in testwords; a testword is the set of the bits   *)
(* that are 1.  The range of a window is never too small for a test (it is *)
(* made of whole pages), so the code's SKIP_RANGE does not occur; caches   *)
(* and barriers do nothing in this port.                                   *)
(***************************************************************************)
EXTENDS Vmem, Sequences, SequencesExt

CONSTANTS
    TESTWORD_WIDTH,
    BYTE,               \* bits in the pattern of test 4 (8)
    SHIFTS,             \* the three shifts of prsg (13, 7, 17)
    SPIN_SIZE,          \* words in a block
    MODULO_N,           \* stride of test 9 (20)
    PAGE_WORDS,         \* testwords in a page
    Segments,           \* for each window, its pages [first |-> , last |-> ]
    Tests,              \* the tests to be run, by their number in test_list
    Iterations,         \* iterations[t], of which at least one; seconds in test 10
    Seeds,              \* what the clock may give as a random seed
    Faults              \* the faults the memory may have

Bits == 0 .. TESTWORD_WIDTH - 1
Words == SUBSET Bits
Windows == 1 .. Len(Segments)

ASSUME MemTestsAssumption ==
    /\ TESTWORD_WIDTH \in Nat /\ TESTWORD_WIDTH > 2
    /\ BYTE \in Nat \ {0} /\ TESTWORD_WIDTH % BYTE = 0
    /\ SPIN_SIZE \in Nat \ {0} /\ SPIN_SIZE % 16 = 0
    /\ MODULO_N \in Nat \ {0, 1}
    /\ PAGE_WORDS \in Nat /\ PAGE_WORDS % 16 = 0 /\ PAGE_WORDS > MODULO_N
    /\ Len(Segments) \in Nat \ {0}
    /\ \A w \in Windows : /\ Segments[w].first \in Nat /\ Segments[w].last \in Nat
                          /\ Segments[w].first <= Segments[w].last
                          /\ WindowOf(Segments[w].first) = WindowOf(Segments[w].last)
    /\ \A v, w \in Windows : v < w => Segments[v].last < Segments[w].first
    /\ Tests \subseteq 0 .. 10
    /\ \A t \in Tests : Iterations[t] \in Nat \ {0}
    /\ Seeds \subseteq Words

VARIABLES
    fault,              \* the fault of this memory
    mem,                \* what the physical words hold
    pc,
    test, my_cpu,       \* my_cpu is -1 in the dummy run
    stage, window,      \* of the call of run_test that is going on
    phases, phase,      \* the phases of this call, and the one that is going on
    p, pe,              \* the word the phase is at, and the last of its block
    q,                  \* the second mask of test 0; the half of a block move
    left,               \* times the block is still gone through
    pattern,
    last_stage,         \* static in test_bit_fade
    bail,
    estimate, ticks,    \* ticks counted by the dummy run, and made by the real one
    errors              \* history: what was reported

callVars  == <<test, my_cpu, stage, window, phases>>
blockVars == <<p, pe, q, left, pattern>>
vars == <<fault, mem, pc, callVars, phase, blockVars, last_stage, bail, estimate, ticks, errors>>

-----------------------------------------------------------------------------
(***************************************************************************)
(* Testwords.                                                              *)
(***************************************************************************)
Not(w)          == Bits \ w
Xor(v, w)       == (v \ w) \cup (w \ v)
ShiftLeft(w, n)  == {i + n : i \in w} \cap Bits
ShiftRight(w, n) == {i - n : i \in w} \cap Bits
\* Mutant of RotateLeft: without the modulus.
Leftwards(w)    == {i + 1 : i \in w}
RotateLeft(w)   == {(i + 1) % TESTWORD_WIDTH : i \in w}
\* Mutant of RotateRight: a bit that leaves does not come back.
Rightwards(w)   == ShiftRight(w, 1)
RotateRight(w)  == {(i + TESTWORD_WIDTH - 1) % TESTWORD_WIDTH : i \in w}
Number(n)       == {i \in Bits : (n \div 2^i) % 2 = 1}

prsg(state) ==
    LET a == Xor(state, ShiftLeft(state, SHIFTS[1]))
        b == Xor(a, ShiftRight(a, SHIFTS[2]))
    IN  Xor(b, ShiftLeft(b, SHIFTS[3]))

\* The state after n steps.
Random(seed, n) ==
    LET state[i \in Nat] == IF i = 0 THEN seed ELSE prsg(state[i - 1]) IN state[n]

-----------------------------------------------------------------------------
(***************************************************************************)
(* The memory and its faults.  A stuck cell reads some bits as 0 or as 1.  *)
(* An alias answers at a second address; a coupled cell is written with    *)
(* its neighbour; a fading cell loses what it holds while nobody looks.    *)
(***************************************************************************)
Base == Segments[window].first

Cell(v) == page_of(v \div PAGE_WORDS, WindowOf(Base)) * PAGE_WORDS + (v % PAGE_WORDS)

Hits(c) ==
    CASE fault.kind = "alias"  /\ c = fault.cell -> {fault.other}
      [] fault.kind = "couple" /\ c = fault.cell -> {c, fault.other}
      [] OTHER -> {c}

Read(m, v) ==
    LET c == Cell(v)
    IN  CASE fault.kind = "stuck" /\ c = fault.cell -> (m[c] \cup fault.ones) \ fault.zeros
          [] fault.kind = "alias" /\ c = fault.cell -> m[fault.other]
          [] OTHER -> m[c]

read_word(v) == Read(mem, v)

write_word(m, v, w) ==
    LET hit == Hits(Cell(v)) IN [c \in DOMAIN m |-> IF c \in hit THEN w ELSE m[c]]

\* The writes of f, from the lowest address to the highest.
write_words(m, f) ==
    LET hit     == [v \in DOMAIN f |-> Hits(Cell(v))]
        hits(c) == {v \in DOMAIN f : c \in hit[v]}
        written == UNION {hit[v] : v \in DOMAIN f}
    IN  [c \in DOMAIN m |->
            IF c \in written THEN f[CHOOSE v \in hits(c) : \A u \in hits(c) : u <= v] ELSE m[c]]

-----------------------------------------------------------------------------
(***************************************************************************)
(* Phases.                                                                 *)
(*                                                                         *)
(* seed and flip say what pattern starts as, turn how it goes from word to *)
(* word, check and put what is done with a word: put is "same", "inverse"  *)
(* or "none" of what is expected there, which is the pattern inverted if   *)
(* invert.  A phase with step n visits every nth word, from off on, and    *)
(* ends n words early; skip leaves out one word in MODULO_N.               *)
(***************************************************************************)
March == [kind |-> "march", up |-> TRUE, seed |-> {}, flip |-> FALSE, turn |-> "none",
          invert |-> FALSE, check |-> TRUE, put |-> "inverse",
          step |-> 1, off |-> 0, skip |-> MODULO_N, repeat |-> 1]

Fill(seed, turn)  == [March EXCEPT !.seed = seed, !.turn = turn, !.check = FALSE, !.put = "same"]
Check(seed, turn) == [March EXCEPT !.seed = seed, !.turn = turn, !.put = "none"]

Times(n, list) == FlattenSeq([i \in 1 .. n |-> list])

\* Mutant of test_mov_inv_fixed: the third phase goes up too.
mov_inv_upwards(iterations, pattern1) ==
    <<Fill(pattern1, "none")>> \o
    Times(iterations, <<[March EXCEPT !.seed = pattern1], [March EXCEPT !.seed = Not(pattern1)]>>)

\* The second pattern is the complement of the first in all calls.
test_mov_inv_fixed(iterations, pattern1) ==
    <<Fill(pattern1, "none")>> \o
    Times(iterations, <<[March EXCEPT !.seed = pattern1],
                        [March EXCEPT !.seed = Not(pattern1), !.up = FALSE]>>)

test_mov_inv_walk1(iterations, offset, inverse) ==
    LET first == IF inverse THEN Not({offset}) ELSE {offset}
    IN  <<Fill(first, "left")>> \o
        Times(iterations, <<[March EXCEPT !.seed = first, !.turn = "left"],
                            [March EXCEPT !.flip = TRUE, !.turn = "right", !.up = FALSE]>>)

test_mov_inv_random(seed) ==
    <<Fill(seed, "prsg"),
      [March EXCEPT !.seed = seed, !.turn = "prsg"],
      [March EXCEPT !.seed = seed, !.turn = "prsg", !.invert = TRUE]>>

test_modulo_n(iterations, pattern1, offset) ==
    LET Nth(ph) == [ph EXCEPT !.kind = "nth", !.step = MODULO_N, !.off = offset]
    IN  <<Nth(Fill(pattern1, "none"))>> \o
        Times(iterations, <<[Fill(Not(pattern1), "none") EXCEPT !.skip = offset]>>) \o
        <<Nth(Check(pattern1, "none"))>>

test_block_move(iterations) ==
    <<[Fill({0}, "left") EXCEPT !.kind = "blocks", !.step = 16],
      [March EXCEPT !.kind = "move", !.repeat = iterations],
      [March EXCEPT !.kind = "pairs", !.step = 2]>>

test_addr_walk1 ==
    <<[March EXCEPT !.kind = "walk"], [March EXCEPT !.kind = "walk", !.invert = TRUE]>>

\* Mutant of test_bit_fade: zeros in both halves.
bit_fade_zeros(st, sleep_secs) ==
    LET fade_delay == [March EXCEPT !.kind = "sleep", !.repeat = sleep_secs]
    IN  <<<<Fill({}, "none")>>, <<fade_delay>>, <<Check({}, "none")>>>>[(st % 3) + 1]

test_bit_fade(st, sleep_secs) ==
    LET fade_delay == [March EXCEPT !.kind = "sleep", !.repeat = sleep_secs]
    IN  <<<<Fill({}, "none")>>, <<fade_delay>>, <<Check({}, "none")>>,
          <<Fill(Bits, "none")>>, <<fade_delay>>, <<Check(Bits, "none")>>>>[st + 1]

\* run_test: the phases of one call.
Phases(t, st, readings) ==
    LET n == Iterations[t]
        seed == readings[1]
    IN  CASE t = 0 -> test_addr_walk1
          [] t = 1 -> <<Fill({}, "own"), Check({}, "own")>>
          [] t = 2 -> IF st = 0 THEN <<Fill({}, "own+window")>> ELSE <<Check({}, "own+window")>>
          [] t = 3 -> test_mov_inv_fixed(n, {}) \o test_mov_inv_fixed(n, Bits)
          [] t = 4 -> FlattenSeq([k \in 1 .. BYTE |->
                        LET pattern1 == {i \in Bits : i % BYTE = BYTE - k}
                        IN  test_mov_inv_fixed(n, pattern1) \o test_mov_inv_fixed(n, Not(pattern1))])
          [] t = 5 -> FlattenSeq([i \in 1 .. n |-> test_mov_inv_fixed(2, Random(seed, i))])
          [] t = 6 -> FlattenSeq([k \in 1 .. TESTWORD_WIDTH |->
                        test_mov_inv_walk1(n, k - 1, FALSE) \o test_mov_inv_walk1(n, k - 1, TRUE)])
          [] t = 7 -> test_block_move(n)
          [] t = 8 -> FlattenSeq([i \in 1 .. n |-> test_mov_inv_random(readings[i])])
          [] t = 9 -> FlattenSeq([i \in 1 .. n * MODULO_N |->
                        LET pattern1 == Random(seed, i)
                            offset   == (i - 1) % MODULO_N
                        IN  test_modulo_n(2, pattern1, offset) \o test_modulo_n(2, Not(pattern1), offset)])
          [] t = 10 -> test_bit_fade(st, n)

Stages(t) == CASE t = 2 -> 2 [] t = 10 -> 6 [] OTHER -> 1

\* The readings of the clock a call can make: several in test 8.
Readings(t) ==
    CASE t = 8 -> [1 .. Iterations[t] -> Seeds]
      [] t \in {5, 9} -> [{1} -> Seeds]
      [] OTHER -> {<<{}>>}

\* The calls of run_test that there can be.
Calls ==
    UNION {{[test |-> t, stage |-> st, phases |-> Phases(t, st, r)] :
                st \in 0 .. Stages(t) - 1, r \in Readings(t)} : t \in Tests}

Cur == phases[phase]

-----------------------------------------------------------------------------
(***************************************************************************)
(* The range of the window, and its blocks.                                *)
(***************************************************************************)
Start     == first_word_mapping(Base) * PAGE_WORDS
LastWord  == first_word_mapping(Segments[window].last) * PAGE_WORDS + PAGE_WORDS - 1

\* end -= n; avoids pointer overflow when incrementing p.
End == IF Cur.kind = "nth" THEN LastWord - MODULO_N ELSE LastWord

\* The end of the block that begins at v.
BlockEnd(v) ==
    IF Cur.kind \in {"walk", "sleep"} THEN End
    ELSE IF Cur.up THEN IF End - v >= SPIN_SIZE THEN v + SPIN_SIZE - 1 ELSE End
    ELSE IF v - Start >= SPIN_SIZE THEN v - (SPIN_SIZE - 1) ELSE Start

AtEnd == pe = IF Cur.up THEN End ELSE Start

\* Mutant of MoreWords: the step is not taken off the end.
MoreWordsPast == IF Cur.step = 1 THEN IF Cur.up THEN p < pe ELSE p > pe ELSE p <= pe

\* `p++ < pe` moves p also at the end of a block, `p += n` does not.
MoreWords ==
    IF Cur.step = 1 THEN IF Cur.up THEN p < pe ELSE p > pe
    ELSE p <= pe - Cur.step

\* Mutant of NextWord: a stride does not advance.
NextWordStays == IF Cur.step = 1 THEN IF Cur.up THEN p + 1 ELSE p - 1 ELSE p

NextWord ==
    IF Cur.step = 1 THEN IF Cur.up THEN p + 1 ELSE p - 1
    ELSE IF MoreWords THEN p + Cur.step ELSE p

-----------------------------------------------------------------------------
SegmentCells(w) ==
    Segments[w].first * PAGE_WORDS .. Segments[w].last * PAGE_WORDS + PAGE_WORDS - 1

Cells == UNION {SegmentCells(w) : w \in Windows}

\* A fault is one: a bit that is stuck, two cells that are not the same.
ASSUME FaultsAssumption ==
    /\ Faults \subseteq [kind : {"none"}]
                   \cup [kind : {"stuck"}, cell : Cells, ones : Words, zeros : Words]
                   \cup [kind : {"alias", "couple"}, cell : Cells, other : Cells]
                   \cup [kind : {"fade"}, cell : Cells, to : Words]
    /\ \A f \in Faults : f.kind = "stuck" => f.ones \cup f.zeros # {}
    /\ \A f \in Faults : f.kind \in {"alias", "couple"} => f.cell # f.other

\* A testword is as wide as an address, so that no two addresses are the same word.
ASSUME AddressAssumption ==
    \A w \in Windows : LET last == Segments[w].last * PAGE_WORDS + PAGE_WORDS - 1
                       IN  \A a, b \in 0 .. last : a # b => Number(a) # Number(b)

\* What a word holds before it is written is no pattern, and no other word's.
Init ==
    /\ fault \in Faults
    /\ mem = [c \in Cells |-> {TESTWORD_WIDTH + c}]
    /\ pc = "call" /\ test \in Tests /\ my_cpu = -1
    /\ stage = 0 /\ window = 1
    /\ \E call \in Calls : call.test = test /\ call.stage = 0 /\ phases = call.phases
    /\ phase = 1 /\ p = 0 /\ pe = 0 /\ q = 0 /\ left = 0 /\ pattern = {}
    /\ last_stage = -1 /\ bail = FALSE
    /\ estimate = 0 /\ ticks = 0 /\ errors = {}

\* The next block of a phase: a dummy run counts its tick and goes on.
Enter(v) ==
    /\ pe' = BlockEnd(v)
    /\ left' = Cur.repeat
    /\ pc' = IF my_cpu < 0 THEN "tick" ELSE "words"
    /\ estimate' = IF my_cpu < 0 THEN estimate + 1 ELSE estimate

\* Mutant of Slept: the dummy run counts the sleep in every window.
SleptReal == Cur.kind = "sleep" /\ stage = last_stage /\ my_cpu >= 0

\* Only sleep once: in the first window.
Slept == Cur.kind = "sleep" /\ stage = last_stage

BeginPhase ==
    /\ pc = "call" /\ phase <= Len(phases) /\ ~Slept
    /\ p' = IF Cur.kind = "walk" THEN 1 ELSE IF Cur.up THEN Start + Cur.off ELSE End
    /\ q' = 0
    /\ pattern' = IF Cur.flip THEN Not(pattern) ELSE Cur.seed
    /\ Enter(IF Cur.up THEN Start ELSE End)
    /\ UNCHANGED <<fault, mem, callVars, phase, last_stage, bail, ticks, errors>>

SkipSleep ==
    /\ pc = "call" /\ phase <= Len(phases) /\ Slept
    /\ phase' = phase + 1
    /\ UNCHANGED <<fault, mem, pc, callVars, blockVars, last_stage, bail, estimate, ticks, errors>>

-----------------------------------------------------------------------------
(***************************************************************************)
(* One word of a march, of the strides of test 9, or of a check of pairs.  *)
(***************************************************************************)
\* Mutant of OwnOffset: the window is left out.
NoOffset == 0

OwnOffset ==
    LET offset == WindowOf(Base) * VM_WINDOW_SIZE
    IN  IF offset >= VM_PINNED_SIZE THEN offset - VM_PINNED_SIZE ELSE 0

Turned ==
    CASE Cur.turn = "right"      -> RotateRight(pattern)
      [] Cur.turn = "prsg"       -> prsg(pattern)
      [] Cur.turn = "own"        -> Number(p)
      [] Cur.turn = "own+window" -> Number(p + OwnOffset * PAGE_WORDS)
      [] OTHER -> pattern

Expected == IF Cur.invert THEN Not(Turned) ELSE Turned

\* Mutant of Error: what the block move finds is used for BadRAM.
ErrorUsed(v, use) == {[cell |-> Cell(v), use |-> TRUE]}

Error(v, use) == {[cell |-> Cell(v), use |-> use]}

ToNextWord ==
    /\ p' = NextWord
    /\ pc' = IF MoreWords THEN "words" ELSE "tick"
    /\ UNCHANGED <<fault, callVars, phase, pe, q, left, last_stage, bail, estimate, ticks>>

Word ==
    /\ pc = "words" /\ Cur.kind \in {"march", "nth"}
    /\ errors' = errors \cup (IF Cur.check /\ read_word(p) # Expected THEN Error(p, TRUE) ELSE {})
    /\ mem' = IF Cur.put = "none" \/ (p - Start) % MODULO_N = Cur.skip THEN mem
              ELSE write_word(mem, p, IF Cur.put = "same" THEN Expected ELSE Not(Expected))
    /\ pattern' = IF Cur.turn = "left" THEN RotateLeft(Turned) ELSE Turned
    /\ ToNextWord

PairWord ==
    /\ pc = "words" /\ Cur.kind = "pairs"
    /\ errors' = errors \cup (IF read_word(p) # read_word(p + 1) THEN Error(p, FALSE) ELSE {})
    /\ UNCHANGED <<mem, pattern>>
    /\ ToNextWord

\* Sixteen words of the first phase of the block move.
BlockWords ==
    /\ pc = "words" /\ Cur.kind = "blocks"
    /\ mem' = write_words(mem, [v \in p .. p + 15 |->
                 IF v - p \in {4, 5, 10, 11, 14, 15} THEN Not(pattern) ELSE pattern])
    /\ pattern' = RotateLeft(pattern)
    /\ UNCHANGED errors
    /\ ToNextWord

(***************************************************************************)
(* The block move: the first half to the second, and back, turned by eight *)
(* words.  Nothing advances p, so the moves always begin at the start.     *)
(* A half is read before it is written, where the code goes word by word.  *)
(***************************************************************************)
Half == (pe - p + 1) \div 2

MoveUp ==
    /\ pc = "words" /\ Cur.kind = "move" /\ q = 0
    /\ mem' = write_words(mem, [v \in p + Half .. p + 2 * Half - 1 |-> read_word(v - Half)])
    /\ q' = 1
    /\ UNCHANGED <<fault, pc, callVars, phase, p, pe, left, pattern, last_stage, bail,
                   estimate, ticks, errors>>

MoveDown ==
    /\ pc = "words" /\ Cur.kind = "move" /\ q = 1
    /\ mem' = write_words(mem, [v \in p .. p + Half - 1 |->
                 read_word(IF v < p + 8 THEN v + 2 * Half - 8 ELSE v + Half - 8)])
    /\ q' = 0
    /\ pc' = "tick"
    /\ UNCHANGED <<fault, callVars, phase, p, pe, left, pattern, last_stage, bail,
                   estimate, ticks, errors>>

\* A second of the bit fade test.
Sleep ==
    /\ pc = "words" /\ Cur.kind = "sleep"
    /\ mem' = IF fault.kind = "fade" THEN [mem EXCEPT ![fault.cell] = fault.to] ELSE mem
    /\ pc' = "tick"
    /\ UNCHANGED <<fault, callVars, phase, blockVars, last_stage, bail, estimate, ticks, errors>>

(***************************************************************************)
(* Test 0 writes a word at a distance of one bit, and then all others that *)
(* are one bit away; p and q are the masks, in words.                      *)
(***************************************************************************)
Masked(mask) == IF (Start \div mask) % 2 = 1 THEN Start ELSE Start + mask

WalkValue(v, invert) == IF invert THEN Not(Number(v)) ELSE Number(v)

WalkFirst ==
    /\ pc = "words" /\ Cur.kind = "walk" /\ q = 0
    /\ IF Masked(p) > End
         THEN pc' = "tick" /\ UNCHANGED <<q, mem>>
         ELSE /\ mem' = write_word(mem, Masked(p), WalkValue(Masked(p), Cur.invert))
              /\ q' = 1
              /\ UNCHANGED pc
    /\ UNCHANGED <<fault, callVars, phase, p, pe, left, pattern, last_stage, bail,
                   estimate, ticks, errors>>

WalkSecond ==
    LET p1 == Masked(p)
        p2 == Masked(q)
        expect == WalkValue(p1, Cur.invert)
        after  == write_word(mem, p2, WalkValue(p2, ~Cur.invert))
        wrong  == Read(after, p1) # expect
    IN  /\ pc = "words" /\ Cur.kind = "walk" /\ q > 0
        /\ IF p2 > End /\ p2 # p1
             THEN p' = 2 * p /\ q' = 0
             ELSE p' = p /\ q' = 2 * q
        /\ IF p2 = p1 \/ p2 > End
             THEN UNCHANGED <<mem, errors>>
             ELSE /\ errors' = errors \cup (IF wrong THEN Error(p1, FALSE) ELSE {})
                  /\ mem' = IF wrong THEN write_word(after, p1, expect) ELSE after
        /\ UNCHANGED <<fault, pc, callVars, phase, pe, left, pattern, last_stage, bail,
                       estimate, ticks>>

-----------------------------------------------------------------------------
(***************************************************************************)
(* do_tick and BAILOUT.  The keyboard is polled here; bail set by a poll   *)
(* inside an error report is not looked at before this either.             *)
(***************************************************************************)
EndBlock ==
    /\ pc = "tick"
    /\ ticks' = IF my_cpu < 0 THEN ticks ELSE ticks + 1
    /\ bail' \in IF my_cpu < 0 THEN {FALSE} ELSE BOOLEAN
    /\ \/ /\ bail'
          /\ pc' = "bailed"
          /\ UNCHANGED <<phase, pe, left, pattern, estimate>>
       \/ /\ ~bail' /\ left > 1
          /\ left' = left - 1
          /\ pc' = IF my_cpu < 0 THEN "tick" ELSE "words"
          /\ estimate' = IF my_cpu < 0 THEN estimate + 1 ELSE estimate
          /\ UNCHANGED <<phase, pe, pattern>>
       \/ /\ ~bail' /\ left = 1 /\ ~AtEnd
          /\ Enter(IF Cur.up THEN pe + 1 ELSE pe - 1)
          /\ pattern' = IF Cur.kind = "blocks" THEN Cur.seed ELSE pattern
          /\ UNCHANGED phase
       \/ /\ ~bail' /\ left = 1 /\ AtEnd
          /\ phase' = phase + 1
          /\ pc' = "call"
          /\ UNCHANGED <<pe, left, pattern, estimate>>
    /\ UNCHANGED <<fault, mem, callVars, p, q, last_stage, errors>>

\* run_test returns: the next window, stage, or the real run.
EndCall ==
    /\ pc = "call" /\ phase > Len(phases)
    /\ last_stage' = IF test = 10 THEN stage ELSE last_stage
    /\ phase' = 1
    /\ \/ /\ window < Len(Segments)
          /\ window' = window + 1 /\ UNCHANGED <<pc, stage, my_cpu>>
       \/ /\ window = Len(Segments) /\ stage + 1 < Stages(test)
          /\ window' = 1 /\ stage' = stage + 1 /\ UNCHANGED <<pc, my_cpu>>
       \/ /\ window = Len(Segments) /\ stage + 1 = Stages(test)
          /\ window' = 1 /\ stage' = 0
          /\ IF my_cpu < 0 THEN my_cpu' = 0 /\ UNCHANGED pc
                          ELSE pc' = "done" /\ UNCHANGED my_cpu
    /\ \E call \in Calls :
         call.test = test /\ call.stage = stage' /\ phases' = call.phases
    /\ UNCHANGED <<fault, mem, test, blockVars, bail, estimate, ticks, errors>>

Over == pc \in {"done", "bailed"} /\ UNCHANGED vars

Run ==
    \/ BeginPhase \/ SkipSleep \/ Word \/ PairWord \/ BlockWords \/ MoveUp \/ MoveDown \/ Sleep
    \/ WalkFirst \/ WalkSecond \/ EndBlock \/ EndCall

Next == Run \/ Over

\* A test is a plain loop on the one processor: it goes on.
Spec == Init /\ [][Next]_vars /\ WF_vars(Run)

-----------------------------------------------------------------------------
(***************************************************************************)
(* The types of the variables.  On its way down p ends before the range,   *)
(* which may begin at 0.                                                   *)
(***************************************************************************)
TypeOK ==
    /\ fault \in Faults
    /\ \A c \in DOMAIN mem : mem[c] \in Words \cup {{TESTWORD_WIDTH + c}}
    /\ pc \in {"call", "words", "tick", "done", "bailed"}
    /\ test \in Tests /\ my_cpu \in {-1, 0}
    /\ stage \in 0 .. Stages(test) - 1 /\ window \in Windows
    /\ phase \in 1 .. Len(phases) + 1
    /\ p \in Nat \cup {-1} /\ {pe, q, left, estimate, ticks} \subseteq Nat
    /\ pattern \subseteq Bits
    /\ last_stage \in -1 .. 5 /\ bail \in BOOLEAN
    /\ errors \subseteq [cell : DOMAIN mem, use : BOOLEAN]

(***************************************************************************)
(* Good memory passes: no phase expects anything but what the phases       *)
(* before it left, across blocks, windows and both directions.             *)
(***************************************************************************)
NoFalseAlarm == fault.kind = "none" => errors = {}

(***************************************************************************)
(* No pointer leaves the range of the window, at the last words included,  *)
(* where blocks, pairs and strides could go beyond it.                     *)
(***************************************************************************)
Accessed ==
    CASE Cur.kind \in {"march", "nth"} -> {p}
      [] Cur.kind = "pairs"  -> {p, p + 1}
      [] Cur.kind = "blocks" -> p .. p + 15
      [] Cur.kind = "move"   -> p .. p + 2 * Half - 1
      [] Cur.kind = "walk" /\ q > 0 -> {Masked(p)}
      [] OTHER -> {}

AccessesInside == pc = "words" => Accessed \subseteq Start .. LastWord

(***************************************************************************)
(* README.md, "BadRAM Patterns": what is reported for them is the exact    *)
(* address of the fault; a fault never makes a sound word look bad to the  *)
(* tests that contribute.                                                  *)
(***************************************************************************)
FaultyCells ==
    CASE fault.kind \in {"stuck", "fade"} -> {fault.cell}
      [] fault.kind \in {"alias", "couple"} -> {fault.cell, fault.other}
      [] OTHER -> {}

BlamesTheFault == \A e \in errors : e.use => e.cell \in FaultyCells

(***************************************************************************)
(* What the tests are for.  A cell with a stuck bit is reported by every   *)
(* test of moving inversions, by the random sequence and by bit fade, and  *)
(* by the modulo test unless it is one of the last MODULO_N words.         *)
(***************************************************************************)
SameWindow(a, b) == \E w \in Windows : {a, b} \subseteq SegmentCells(w)

InStrides(c) == \E w \in Windows : c \in SegmentCells(w) /\ c + MODULO_N \in SegmentCells(w)

Reported(c) == \E e \in errors : e.cell = c

FindsStuck(c) == test \in {3, 4, 5, 6, 8, 10} \/ (test = 9 /\ InStrides(c))

StuckFound ==
    pc = "done" /\ fault.kind = "stuck" /\ FindsStuck(fault.cell) => Reported(fault.cell)

(***************************************************************************)
(* README.md, "Test 2": the own address tests find two addresses that      *)
(* reach the same cell; test 2 also when they lie in two windows that      *)
(* share their virtual addresses.                                          *)
(***************************************************************************)
FindsAlias(a, b) == test = 2 \/ (test \in {1, 3, 4, 5, 6, 8} /\ SameWindow(a, b))

AliasFound ==
    pc = "done" /\ fault.kind = "alias" /\ FindsAlias(fault.cell, fault.other) => errors # {}

(***************************************************************************)
(* README.md, "Memory Testing Philosophy": a cell that is overwritten when *)
(* another one is written is found, whichever of the two comes first, by   *)
(* the moving inversions; and by the modulo test when they are in no       *)
(* common stride.                                                          *)
(***************************************************************************)
FindsCoupling(a, victim) ==
    /\ SameWindow(a, victim)
    /\ \/ test \in {3, 4, 5, 6}
       \/ test = 9 /\ InStrides(victim) /\ (a - victim) % MODULO_N # 0

CouplingFound ==
    pc = "done" /\ fault.kind = "couple" /\ FindsCoupling(fault.cell, fault.other)
        => Reported(fault.other)

(***************************************************************************)
(* README.md, "Test 10": across all memory regions, a cell that loses its  *)
(* 0s or its 1s while the program sleeps is found, though it sleeps in the *)
(* first window only.                                                      *)
(***************************************************************************)
FadeFound == pc = "done" /\ fault.kind = "fade" /\ test = 10 => Reported(fault.cell)

(***************************************************************************)
(* The dummy run counts the ticks that the real run will make: never more  *)
(* are made, and all of them unless the user leaves.                       *)
(***************************************************************************)
TicksEstimated == ticks <= estimate /\ (pc = "done" => ticks = estimate)

(***************************************************************************)
(* Every loop over a range, masks included, comes to an end.               *)
(***************************************************************************)
TestEnds == <>(pc \in {"done", "bailed"})

(***************************************************************************)
(* What README.md says of the modulo algorithm: for the starting offsets 0 *)
(* to 19, "check every 20th location for the pattern"; so every location   *)
(* is checked, and a stuck one found.                                      *)
(***************************************************************************)
ModuloFindsStuck == pc = "done" /\ fault.kind = "stuck" /\ test = 9 => Reported(fault.cell)
=============================================================================
