--------------------------- MODULE MemTestsProofs ---------------------------
(***************************************************************************)
(* Proofs about MemTests: whatever the sizes of words, pages, blocks and   *)
(* windows, no test touches a word outside of the range it was called for, *)
(* and the dummy run counts the ticks that the real run makes.             *)
(***************************************************************************)
EXTENDS MemTests, SequenceTheorems, NaturalsInduction, WellFoundedInduction,
        FiniteSetTheorems, TLAPS

LEMMA LeastNat ==
    ASSUME NEW S, S \subseteq Nat, S # {}
    PROVE  \E m \in S : \A k \in S : m <= k
<1>1. PICK m \in S : \A k \in S : ~(<<k, m>> \in OpToRel(<, Nat))
  BY NatLessThanWellFounded, WFMin
<1>2. \A k \in S : ~(k < m)
  BY <1>1 DEF OpToRel
<1>3. QED
  BY <1>2

-----------------------------------------------------------------------------
(***************************************************************************)
(* What the proofs need to know of a phase, and of a list of phases.       *)
(***************************************************************************)
Single == {"march", "nth", "blocks", "pairs", "walk"}

GoodPhase(ph) ==
    /\ ph.kind \in Single \cup {"move", "sleep"}
    /\ ph.up \in BOOLEAN /\ (ph.kind # "march" => ph.up)
    /\ ph.repeat \in Nat \ {0} /\ (ph.kind \in Single => ph.repeat = 1)
    /\ IF ph.kind = "nth" THEN ph.off \in 0 .. MODULO_N - 1 ELSE ph.off = 0
    /\ ph.kind = "march"  => ph.step = 1
    /\ ph.kind = "nth"    => ph.step = MODULO_N
    /\ ph.kind = "blocks" => ph.step = 16
    /\ ph.kind = "pairs"  => ph.step = 2

Listed(list) == \E S : list \in Seq(S) /\ \A ph \in S : GoodPhase(ph)

LEMMA Joined ==
    ASSUME NEW s, Listed(s), NEW u, Listed(u)
    PROVE  Listed(s \o u)
<1>1. PICK S : s \in Seq(S) /\ \A ph \in S : GoodPhase(ph)
  BY DEF Listed
<1>2. PICK U : u \in Seq(U) /\ \A ph \in U : GoodPhase(ph)
  BY DEF Listed
<1> DEFINE T == S \cup U
<1>3. s \in Seq(T) /\ u \in Seq(T)
  <2>1. S \subseteq T /\ U \subseteq T
    OBVIOUS
  <2>2. QED
    BY <1>1, <1>2, <2>1, SeqMonotonic
<1>4. \A ph \in T : GoodPhase(ph)
  BY <1>1, <1>2
<1> HIDE DEF T
<1>5. s \o u \in Seq(T)
  BY <1>3, ConcatProperties
<1>6. QED
  BY <1>4, <1>5 DEF Listed

LEMMA NoneListed == Listed(<<>>)
  BY EmptySeq DEF Listed

LEMMA OneListed ==
    ASSUME NEW a, GoodPhase(a)
    PROVE  Listed(<<a>>)
<1> DEFINE S == {a}
<1>1. <<a>> \in Seq(S) /\ \A ph \in S : GoodPhase(ph)
  OBVIOUS
<1> HIDE DEF S
<1>2. QED
  BY <1>1, Zenon DEF Listed

LEMMA TwoListed ==
    ASSUME NEW a, NEW b, GoodPhase(a), GoodPhase(b)
    PROVE  Listed(<<a, b>>)
<1> DEFINE S == {a, b}
<1>1. <<a, b>> \in Seq(S) /\ \A ph \in S : GoodPhase(ph)
  OBVIOUS
<1> HIDE DEF S
<1>2. QED
  BY <1>1, Zenon DEF Listed

LEMMA ThreeListed ==
    ASSUME NEW a, NEW b, NEW c, GoodPhase(a), GoodPhase(b), GoodPhase(c)
    PROVE  Listed(<<a, b, c>>)
<1> DEFINE S == {a, b, c}
<1>1. <<a, b, c>> \in Seq(S) /\ \A ph \in S : GoodPhase(ph)
  OBVIOUS
<1> HIDE DEF S
<1>2. QED
  BY <1>1, Zenon DEF Listed

(***************************************************************************)
(* FlattenSeq is a recursive function, of which one has to be exhibited.   *)
(* The shortest list of lists that had none would have a last element.     *)
(***************************************************************************)
Unrolled(seqs, k, f) ==
    f = [i \in 1 .. k |-> IF i = 1 THEN seqs[i] ELSE f[i - 1] \o seqs[i]]

LEMMA UnrollMore ==
    ASSUME NEW seqs, NEW m \in Nat \ {0, 1}, NEW g, Unrolled(seqs, m - 1, g)
    PROVE  \E f : Unrolled(seqs, m, f)
<1> DEFINE last == g[m - 1] \o seqs[m]
           f    == [i \in 1 .. m |-> IF i = m THEN last ELSE g[i]]
<1>1. \A i \in 1 .. m - 1 : g[i] = IF i = 1 THEN seqs[i] ELSE g[i - 1] \o seqs[i]
  <2> DEFINE h == [i \in 1 .. m - 1 |-> IF i = 1 THEN seqs[i] ELSE g[i - 1] \o seqs[i]]
  <2>1. \A i \in 1 .. m - 1 : h[i] = IF i = 1 THEN seqs[i] ELSE g[i - 1] \o seqs[i]
    OBVIOUS
  <2>2. g = h
    BY DEF Unrolled
  <2> HIDE DEF h
  <2>3. QED
    BY <2>1, <2>2
<1> HIDE DEF last
<1>2. /\ \A i \in 1 .. m - 1 : f[i] = g[i]
      /\ f[m] = last
      /\ f = [i \in 1 .. m |-> f[i]]
  OBVIOUS
<1> HIDE DEF f
<1>3. \A i \in 1 .. m : f[i] = IF i = 1 THEN seqs[i] ELSE f[i - 1] \o seqs[i]
  <2> SUFFICES ASSUME NEW i \in 1 .. m
               PROVE  f[i] = IF i = 1 THEN seqs[i] ELSE f[i - 1] \o seqs[i]
    OBVIOUS
  <2>1. CASE i = m
    <3>1. m # 1 /\ m - 1 \in 1 .. m - 1
      OBVIOUS
    <3>2. f[m - 1] = g[m - 1]
      BY <1>2, <3>1
    <3>3. QED
      BY <1>2, <2>1, <3>1, <3>2, Zenon DEF last
  <2>2. CASE i = 1
    <3>1. 1 \in 1 .. m - 1
      OBVIOUS
    <3>2. f[1] = g[1] /\ g[1] = seqs[1]
      BY <1>1, <1>2, <3>1, Zenon
    <3>3. QED
      BY <2>2, <3>2, Zenon
  <2>3. CASE i # 1 /\ i # m
    <3>1. i \in 1 .. m - 1 /\ i - 1 \in 1 .. m - 1
      BY <2>3
    <3>2. QED
      BY <1>1, <1>2, <2>3, <3>1
  <2>4. QED
    BY <2>1, <2>2, <2>3
<1>4. f = [i \in 1 .. m |-> IF i = 1 THEN seqs[i] ELSE f[i - 1] \o seqs[i]]
  BY <1>2, <1>3, Zenon
<1>5. QED
  BY <1>4 DEF Unrolled

LEMMA UnrollExists ==
    ASSUME NEW n \in Nat \ {0}, NEW seqs
    PROVE  \E f : Unrolled(seqs, n, f)
<1> DEFINE bad == {k \in Nat \ {0} : ~\E f : Unrolled(seqs, k, f)}
<1>1. SUFFICES ASSUME bad # {} PROVE FALSE
  OBVIOUS
<1>2. PICK m \in bad : \A k \in bad : m <= k
  <2> bad \subseteq Nat
    OBVIOUS
  <2> HIDE DEF bad
  <2> QED
    BY <1>1, LeastNat
<1>3. m \in Nat \ {0} /\ ~\E f : Unrolled(seqs, m, f)
  OBVIOUS
<1>4. m # 1
  <2> DEFINE f == [i \in 1 .. 1 |-> seqs[1]]
  <2>1. f = [i \in 1 .. 1 |-> IF i = 1 THEN seqs[i] ELSE f[i - 1] \o seqs[i]]
    OBVIOUS
  <2> HIDE DEF f
  <2>2. Unrolled(seqs, 1, f)
    BY <2>1 DEF Unrolled
  <2>3. QED
    BY <1>3, <2>2
<1>5. m - 1 \in Nat \ {0} /\ m - 1 \notin bad /\ m \in Nat \ {0, 1}
  BY <1>2, <1>3, <1>4
<1>6. PICK g : Unrolled(seqs, m - 1, g)
  BY <1>5
<1>7. QED
  BY <1>3, <1>5, <1>6, UnrollMore

LEMMA UnrolledAt ==
    ASSUME NEW n \in Nat, NEW seqs, NEW f, Unrolled(seqs, n, f)
    PROVE  \A i \in 1 .. n : f[i] = IF i = 1 THEN seqs[i] ELSE f[i - 1] \o seqs[i]
<1> DEFINE h == [i \in 1 .. n |-> IF i = 1 THEN seqs[i] ELSE f[i - 1] \o seqs[i]]
<1>1. \A i \in 1 .. n : h[i] = IF i = 1 THEN seqs[i] ELSE f[i - 1] \o seqs[i]
  OBVIOUS
<1>2. f = h
  BY DEF Unrolled
<1> HIDE DEF h
<1>3. QED
  BY <1>1, <1>2

LEMMA UnrolledListed ==
    ASSUME NEW n \in Nat, NEW seqs, NEW f, Unrolled(seqs, n, f),
           \A i \in 1 .. n : Listed(seqs[i])
    PROVE  \A i \in 1 .. n : Listed(f[i])
<1> DEFINE bad == {k \in 1 .. n : ~Listed(f[k])}
<1>1. \A i \in 1 .. n : f[i] = IF i = 1 THEN seqs[i] ELSE f[i - 1] \o seqs[i]
  BY UnrolledAt
<1>2. SUFFICES ASSUME bad # {} PROVE FALSE
  OBVIOUS
<1>3. PICK m \in bad : \A k \in bad : m <= k
  <2> bad \subseteq Nat
    OBVIOUS
  <2> HIDE DEF bad
  <2> QED
    BY <1>2, LeastNat
<1>4. m \in 1 .. n /\ ~Listed(f[m]) /\ Listed(seqs[m])
  OBVIOUS
<1>5. m # 1
  BY <1>1, <1>4
<1>6. m - 1 \in 1 .. n /\ m - 1 \notin bad
  BY <1>3, <1>4, <1>5
<1>7. Listed(f[m - 1]) /\ f[m] = f[m - 1] \o seqs[m]
  BY <1>1, <1>4, <1>5, <1>6
<1>8. QED
  BY <1>4, <1>7, Joined

LEMMA FlattenUnrolled ==
    ASSUME NEW n \in Nat \ {0}, NEW seqs, seqs = [i \in 1 .. n |-> seqs[i]],
           \A i \in 1 .. n : Listed(seqs[i])
    PROVE  \E f : Unrolled(seqs, n, f) /\ FlattenSeq(seqs) = f[n]
<1> DEFINE S == {seqs[i] : i \in 1 .. n}
<1>1. seqs \in [1 .. n -> S]
  OBVIOUS
<1>2. seqs \in Seq(S) /\ Len(seqs) = n
  <2>1. seqs \in Seq(S)
    BY <1>1, SeqDef
  <2>2. Len(seqs) \in Nat /\ DOMAIN seqs = 1 .. Len(seqs)
    BY <2>1, LenProperties
  <2>3. QED
    BY <1>1, <2>1, <2>2
<1> HIDE DEF S
<1> DEFINE F == CHOOSE f : f = [i \in 1 .. n |-> IF i = 1 THEN seqs[i] ELSE f[i - 1] \o seqs[i]]
<1>3. FlattenSeq(seqs) = F[n]
  BY <1>2 DEF FlattenSeq
<1>4. Unrolled(seqs, n, F)
  <2>1. PICK f : Unrolled(seqs, n, f)
    BY UnrollExists
  <2>2. f = [i \in 1 .. n |-> IF i = 1 THEN seqs[i] ELSE f[i - 1] \o seqs[i]]
    BY <2>1 DEF Unrolled
  <2>3. QED
    BY <2>2, Zenon DEF Unrolled
<1> HIDE DEF F
<1>5. QED
  BY <1>3, <1>4

LEMMA FlattenListed ==
    ASSUME NEW n \in Nat, NEW seqs, seqs = [i \in 1 .. n |-> seqs[i]],
           \A i \in 1 .. n : Listed(seqs[i])
    PROVE  Listed(FlattenSeq(seqs))
<1>1. CASE n = 0
  <2>1. seqs = <<>>
    BY <1>1
  <2>2. FlattenSeq(seqs) = seqs
    BY <2>1 DEF FlattenSeq
  <2>3. QED
    BY <2>1, <2>2, NoneListed
<1>2. CASE n # 0
  BY <1>2, FlattenUnrolled, UnrolledListed
<1>3. QED
  BY <1>1, <1>2

-----------------------------------------------------------------------------
(***************************************************************************)
(* The phases of every call are good.                                      *)
(***************************************************************************)
LEMMA TimesListed ==
    ASSUME NEW n \in Nat, NEW list, Listed(list)
    PROVE  Listed(Times(n, list))
<1> DEFINE s == [i \in 1 .. n |-> list]
<1>1. s = [i \in 1 .. n |-> s[i]] /\ \A i \in 1 .. n : s[i] = list
  OBVIOUS
<1> HIDE DEF s
<1>2. Listed(FlattenSeq(s))
  BY <1>1, FlattenListed
<1>3. QED
  BY <1>2 DEF Times, s

LEMMA FillGood ==
    ASSUME NEW seed, NEW turn
    PROVE  GoodPhase(Fill(seed, turn)) /\ GoodPhase(Check(seed, turn))
  BY DEF Fill, Check, March, GoodPhase, Single

LEMMA FixedListed ==
    ASSUME NEW n \in Nat, NEW pattern1
    PROVE  Listed(test_mov_inv_fixed(n, pattern1))
<1> DEFINE up   == [March EXCEPT !.seed = pattern1]
           down == [March EXCEPT !.seed = Not(pattern1), !.up = FALSE]
<1>1. GoodPhase(up) /\ GoodPhase(down)
  BY DEF March, GoodPhase, Single
<1> HIDE DEF up, down
<1>2. Listed(Times(n, <<up, down>>)) /\ Listed(<<Fill(pattern1, "none")>>)
  BY <1>1, FillGood, OneListed, TwoListed, TimesListed
<1>3. QED
  BY <1>2, Joined, Zenon DEF test_mov_inv_fixed, up, down

LEMMA WalkListed ==
    ASSUME NEW n \in Nat, NEW offset, NEW inverse
    PROVE  Listed(test_mov_inv_walk1(n, offset, inverse))
<1> DEFINE first == IF inverse THEN Not({offset}) ELSE {offset}
           up    == [March EXCEPT !.seed = first, !.turn = "left"]
           down  == [March EXCEPT !.flip = TRUE, !.turn = "right", !.up = FALSE]
<1> HIDE DEF first
<1>1. GoodPhase(up) /\ GoodPhase(down)
  BY DEF March, GoodPhase, Single
<1> HIDE DEF up, down
<1>2. Listed(Times(n, <<up, down>>)) /\ Listed(<<Fill(first, "left")>>)
  BY <1>1, FillGood, OneListed, TwoListed, TimesListed
<1>3. test_mov_inv_walk1(n, offset, inverse) = <<Fill(first, "left")>> \o Times(n, <<up, down>>)
  BY Zenon DEF test_mov_inv_walk1, first, up, down
<1>4. QED
  BY <1>2, <1>3, Joined

LEMMA RandomListed ==
    ASSUME NEW seed
    PROVE  Listed(test_mov_inv_random(seed))
<1> DEFINE a == [March EXCEPT !.seed = seed, !.turn = "prsg"]
           b == [March EXCEPT !.seed = seed, !.turn = "prsg", !.invert = TRUE]
<1>1. GoodPhase(a) /\ GoodPhase(b)
  BY DEF March, GoodPhase, Single
<1> HIDE DEF a, b
<1>2. QED
  BY <1>1, FillGood, ThreeListed, Zenon DEF test_mov_inv_random, a, b

LEMMA ModuloListed ==
    ASSUME NEW n \in Nat, NEW pattern1, NEW offset \in 0 .. MODULO_N - 1
    PROVE  Listed(test_modulo_n(n, pattern1, offset))
<1> DEFINE a == [Fill(pattern1, "none") EXCEPT !.kind = "nth", !.step = MODULO_N, !.off = offset]
           b == [Fill(Not(pattern1), "none") EXCEPT !.skip = offset]
           c == [Check(pattern1, "none") EXCEPT !.kind = "nth", !.step = MODULO_N, !.off = offset]
<1>1. GoodPhase(a) /\ GoodPhase(c)
  BY DEF Fill, Check, March, GoodPhase, Single
<1>2. GoodPhase(b)
  BY DEF Fill, March, GoodPhase, Single
<1> HIDE DEF a, b, c
<1>3. Listed(<<a>>) /\ Listed(Times(n, <<b>>)) /\ Listed(<<c>>)
  BY <1>1, <1>2, OneListed, TimesListed
<1>4. Listed(<<a>> \o Times(n, <<b>>) \o <<c>>)
  BY <1>3, Joined
<1>5. QED
  BY <1>4, Zenon DEF test_modulo_n, a, b, c

LEMMA BlockListed ==
    ASSUME NEW n \in Nat \ {0}
    PROVE  Listed(test_block_move(n))
<1> DEFINE a == [Fill({0}, "left") EXCEPT !.kind = "blocks", !.step = 16]
           b == [March EXCEPT !.kind = "move", !.repeat = n]
           c == [March EXCEPT !.kind = "pairs", !.step = 2]
<1>1. GoodPhase(a) /\ GoodPhase(b) /\ GoodPhase(c)
  BY DEF Fill, March, GoodPhase, Single
<1> HIDE DEF a, b, c
<1>2. QED
  BY <1>1, ThreeListed, Zenon DEF test_block_move, a, b, c

LEMMA AddrListed == Listed(test_addr_walk1)
<1> DEFINE a == [March EXCEPT !.kind = "walk"]
           b == [March EXCEPT !.kind = "walk", !.invert = TRUE]
<1>1. GoodPhase(a) /\ GoodPhase(b)
  BY DEF March, GoodPhase, Single
<1> HIDE DEF a, b
<1>2. QED
  BY <1>1, TwoListed, Zenon DEF test_addr_walk1, a, b

LEMMA FadeListed ==
    ASSUME NEW n \in Nat \ {0}, NEW st \in 0 .. 5
    PROVE  Listed(test_bit_fade(st, n))
<1> DEFINE fade_delay == [March EXCEPT !.kind = "sleep", !.repeat = n]
           a == <<Fill({}, "none")>>
           b == <<fade_delay>>
           c == <<Check({}, "none")>>
           d == <<Fill(Bits, "none")>>
           e == <<Check(Bits, "none")>>
<1>1. GoodPhase(fade_delay)
  BY DEF March, GoodPhase, Single
<1> HIDE DEF fade_delay
<1>2. Listed(a) /\ Listed(b) /\ Listed(c) /\ Listed(d) /\ Listed(e)
  BY <1>1, FillGood, OneListed
<1>3. test_bit_fade(st, n) = <<a, b, c, d, b, e>>[st + 1]
  BY Zenon DEF test_bit_fade, fade_delay
<1> HIDE DEF a, b, c, d, e
<1>4. st = 0 \/ st = 1 \/ st = 2 \/ st = 3 \/ st = 4 \/ st = 5
  OBVIOUS
<1>5. <<a, b, c, d, b, e>>[st + 1] \in {a, b, c, d, e}
  BY <1>4
<1>6. QED
  BY <1>2, <1>3, <1>5

(***************************************************************************)
(* The switch of run_test, case by case.                                   *)
(***************************************************************************)
Test4(n, k) ==
    LET pattern1 == {i \in Bits : i % BYTE = BYTE - k}
    IN  test_mov_inv_fixed(n, pattern1) \o test_mov_inv_fixed(n, Not(pattern1))

Test9(seed, i) ==
    LET pattern1 == Random(seed, i)
        offset   == (i - 1) % MODULO_N
    IN  test_modulo_n(2, pattern1, offset) \o test_modulo_n(2, Not(pattern1), offset)

LEMMA Switch ==
    ASSUME NEW st, NEW r
    PROVE  /\ Phases(0, st, r) = test_addr_walk1
           /\ Phases(1, st, r) = <<Fill({}, "own"), Check({}, "own")>>
           /\ Phases(2, st, r) = IF st = 0 THEN <<Fill({}, "own+window")>>
                                           ELSE <<Check({}, "own+window")>>
           /\ Phases(3, st, r) = test_mov_inv_fixed(Iterations[3], {}) \o test_mov_inv_fixed(Iterations[3], Bits)
           /\ Phases(4, st, r) = FlattenSeq([k \in 1 .. BYTE |-> Test4(Iterations[4], k)])
           /\ Phases(5, st, r) =
                FlattenSeq([i \in 1 .. Iterations[5] |-> test_mov_inv_fixed(2, Random(r[1], i))])
           /\ Phases(6, st, r) =
                FlattenSeq([k \in 1 .. TESTWORD_WIDTH |->
                    test_mov_inv_walk1(Iterations[6], k - 1, FALSE)
                        \o test_mov_inv_walk1(Iterations[6], k - 1, TRUE)])
           /\ Phases(7, st, r) = test_block_move(Iterations[7])
           /\ Phases(8, st, r) =
                FlattenSeq([i \in 1 .. Iterations[8] |-> test_mov_inv_random(r[i])])
           /\ Phases(9, st, r) =
                FlattenSeq([i \in 1 .. Iterations[9] * MODULO_N |-> Test9(r[1], i)])
           /\ Phases(10, st, r) = test_bit_fade(st, Iterations[10])
<1>1. /\ 1 # 0
      /\ 2 # 0 /\ 2 # 1
      /\ 3 # 0 /\ 3 # 1 /\ 3 # 2
      /\ 4 # 0 /\ 4 # 1 /\ 4 # 2 /\ 4 # 3
      /\ 5 # 0 /\ 5 # 1 /\ 5 # 2 /\ 5 # 3 /\ 5 # 4
      /\ 6 # 0 /\ 6 # 1 /\ 6 # 2 /\ 6 # 3 /\ 6 # 4 /\ 6 # 5
      /\ 7 # 0 /\ 7 # 1 /\ 7 # 2 /\ 7 # 3 /\ 7 # 4 /\ 7 # 5 /\ 7 # 6
      /\ 8 # 0 /\ 8 # 1 /\ 8 # 2 /\ 8 # 3 /\ 8 # 4 /\ 8 # 5 /\ 8 # 6 /\ 8 # 7
      /\ 9 # 0 /\ 9 # 1 /\ 9 # 2 /\ 9 # 3 /\ 9 # 4 /\ 9 # 5 /\ 9 # 6 /\ 9 # 7 /\ 9 # 8
      /\ 10 # 0 /\ 10 # 1 /\ 10 # 2 /\ 10 # 3 /\ 10 # 4 /\ 10 # 5 /\ 10 # 6 /\ 10 # 7
      /\ 10 # 8 /\ 10 # 9
  OBVIOUS
<1>2. QED
  BY <1>1, Zenon DEF Phases, Test4, Test9

LEMMA StagesOf == \A t \in Tests : Stages(t) \in 1 .. 6
<1>1. \A t : Stages(t) \in {1, 2, 6}
  BY Zenon DEF Stages
<1>2. QED
  BY <1>1

LEMMA PhasesListed ==
    ASSUME NEW t \in Tests, NEW st \in 0 .. Stages(t) - 1, NEW r
    PROVE  Listed(Phases(t, st, r))
<1>1. /\ \A u \in Tests : Iterations[u] \in Nat \ {0}
      /\ BYTE \in Nat /\ TESTWORD_WIDTH \in Nat /\ MODULO_N \in Nat \ {0, 1} /\ t \in 0 .. 10
  BY MemTestsAssumption
<1>2. \A n \in Nat : \A a, b : Listed(test_mov_inv_fixed(n, a) \o test_mov_inv_fixed(n, b))
  BY FixedListed, Joined
<1>3. CASE t = 0
  BY <1>3, Switch, AddrListed
<1>4. CASE t = 1
  <2>1. Listed(<<Fill({}, "own"), Check({}, "own")>>)
    BY FillGood, TwoListed
  <2>2. QED
    BY <1>4, <2>1, Switch
<1>5. CASE t = 2
  <2>1. Listed(<<Fill({}, "own+window")>>) /\ Listed(<<Check({}, "own+window")>>)
    BY FillGood, OneListed
  <2>2. QED
    BY <1>5, <2>1, Switch
<1>6. CASE t = 3
  <2> DEFINE n == Iterations[3]
  <2>1. n \in Nat
    BY <1>1, <1>6
  <2>2. Phases(3, st, r) = test_mov_inv_fixed(n, {}) \o test_mov_inv_fixed(n, Bits)
    BY Switch
  <2> HIDE DEF n
  <2>3. Listed(test_mov_inv_fixed(n, {}) \o test_mov_inv_fixed(n, Bits))
    BY <2>1, <1>2, Zenon
  <2>4. QED
    BY <1>6, <2>2, <2>3, Zenon
<1>7. CASE t = 4
  <2> DEFINE n == Iterations[4]
             s == [k \in 1 .. BYTE |-> Test4(n, k)]
  <2>1. \A k \in 1 .. BYTE : Listed(Test4(n, k))
    BY <1>1, <1>2, <1>7 DEF Test4
  <2>2. s = [k \in 1 .. BYTE |-> s[k]] /\ \A k \in 1 .. BYTE : s[k] = Test4(n, k)
    OBVIOUS
  <2> HIDE DEF s
  <2>3. Listed(FlattenSeq(s))
    BY <1>1, <2>1, <2>2, FlattenListed
  <2>4. QED
    BY <1>7, <2>3, Switch DEF s
<1>8. CASE t = 5
  <2> DEFINE n == Iterations[5]
             s == [i \in 1 .. n |-> test_mov_inv_fixed(2, Random(r[1], i))]
  <2>1. s = [i \in 1 .. n |-> s[i]]
        /\ \A i \in 1 .. n : s[i] = test_mov_inv_fixed(2, Random(r[1], i))
    OBVIOUS
  <2>2. \A i \in 1 .. n : Listed(s[i])
    BY <2>1, FixedListed
  <2> HIDE DEF s
  <2>3. Listed(FlattenSeq(s))
    BY <1>1, <1>8, <2>1, <2>2, FlattenListed
  <2>4. QED
    BY <1>8, <2>3, Switch DEF s
<1>9. CASE t = 6
  <2> DEFINE n == Iterations[6]
             Both(k) == test_mov_inv_walk1(n, k - 1, FALSE) \o test_mov_inv_walk1(n, k - 1, TRUE)
             s == [k \in 1 .. TESTWORD_WIDTH |-> Both(k)]
  <2>1. \A k : Listed(Both(k))
    BY <1>1, <1>9, WalkListed, Joined
  <2>2. s = [k \in 1 .. TESTWORD_WIDTH |-> s[k]] /\ \A k \in 1 .. TESTWORD_WIDTH : s[k] = Both(k)
    OBVIOUS
  <2>3. \A k \in 1 .. TESTWORD_WIDTH : Listed(s[k])
    BY <2>1, <2>2, Zenon
  <2> HIDE DEF s
  <2>4. Listed(FlattenSeq(s))
    BY <1>1, <2>2, <2>3, FlattenListed
  <2>5. QED
    BY <1>9, <2>4, Switch, Zenon DEF s
<1>10. CASE t = 7
  BY <1>1, <1>10, Switch, BlockListed
<1>11. CASE t = 8
  <2> DEFINE n == Iterations[8]
             s == [i \in 1 .. n |-> test_mov_inv_random(r[i])]
  <2>1. s = [i \in 1 .. n |-> s[i]] /\ \A i \in 1 .. n : s[i] = test_mov_inv_random(r[i])
    OBVIOUS
  <2>2. \A i \in 1 .. n : Listed(s[i])
    BY <2>1, RandomListed
  <2> HIDE DEF s
  <2>3. Listed(FlattenSeq(s))
    BY <1>1, <1>11, <2>1, <2>2, FlattenListed
  <2>4. QED
    BY <1>11, <2>3, Switch DEF s
<1>12. CASE t = 9
  <2> DEFINE n == Iterations[9] * MODULO_N
             s == [i \in 1 .. n |-> Test9(r[1], i)]
  <2>1. n \in Nat
    BY <1>1, <1>12
  <2>2. \A i \in 1 .. n : (i - 1) % MODULO_N \in 0 .. MODULO_N - 1
    BY <1>1, <2>1
  <2>3. \A i \in 1 .. n : Listed(Test9(r[1], i))
    BY <2>2, ModuloListed, Joined DEF Test9
  <2> HIDE DEF n
  <2>4. s = [i \in 1 .. n |-> s[i]] /\ \A i \in 1 .. n : s[i] = Test9(r[1], i)
    OBVIOUS
  <2> HIDE DEF s
  <2>5. Listed(FlattenSeq(s))
    BY <2>1, <2>3, <2>4, FlattenListed
  <2>6. QED
    BY <1>12, <2>5, Switch DEF s, n
<1>13. CASE t = 10
  <2>1. Stages(10) = 6
    <3>1. 10 # 2
      OBVIOUS
    <3>2. QED
      BY <3>1, Zenon DEF Stages
  <2>2. st \in 0 .. 5
    BY <1>13, <2>1
  <2>3. Phases(10, st, r) = test_bit_fade(st, Iterations[10]) /\ Iterations[10] \in Nat \ {0}
    BY <1>1, <1>13, Switch
  <2>4. QED
    BY <1>13, <2>2, <2>3, FadeListed
<1>14. QED
  BY <1>1, <1>3, <1>4, <1>5, <1>6, <1>7, <1>8, <1>9, <1>10, <1>11, <1>12, <1>13

LEMMA CallsListed ==
    \A call \in Calls : Listed(call.phases) /\ call.stage \in 0 .. Stages(call.test) - 1
<1> SUFFICES ASSUME NEW call \in Calls
             PROVE  Listed(call.phases) /\ call.stage \in 0 .. Stages(call.test) - 1
  OBVIOUS
<1>1. PICK t \in Tests : \E st \in 0 .. Stages(t) - 1, r \in Readings(t) :
        call = [test |-> t, stage |-> st, phases |-> Phases(t, st, r)]
  BY DEF Calls
<1>2. PICK st \in 0 .. Stages(t) - 1, r \in Readings(t) :
        call = [test |-> t, stage |-> st, phases |-> Phases(t, st, r)]
  BY <1>1
<1>3. QED
  BY <1>2, PhasesListed

-----------------------------------------------------------------------------
(***************************************************************************)
(* The range of a window: whole pages, of more than MODULO_N words each.   *)
(***************************************************************************)
LEMMA MappedInOrder ==
    ASSUME NEW a \in Nat, NEW b \in Nat, a <= b, WindowOf(a) = WindowOf(b)
    PROVE  /\ first_word_mapping(a) \in Nat /\ first_word_mapping(b) \in Nat
           /\ first_word_mapping(a) <= first_word_mapping(b)
<1> DEFINE W == VM_WINDOW_SIZE
<1>1. W \in Nat \ {0} /\ VM_PINNED_SIZE = 2 * W
  BY VmemAssumption
<1> HIDE DEF W
<1>2. \A n \in Nat : n \div W \in Nat /\ n % W \in 0 .. W - 1 /\ n = (n \div W) * W + (n % W)
  BY <1>1
<1>3. a \div W = b \div W
  BY DEF WindowOf, W
<1>4. (a < 2 * W) = (a \div W < 2) /\ (b < 2 * W) = (b \div W < 2)
  BY <1>1
<1>5. a % W <= b % W
  BY <1>1, <1>2, <1>3
<1>6. \A n \in Nat : first_word_mapping(n) = IF n < 2 * W THEN n ELSE 2 * W + (n % W)
  BY <1>1 DEF first_word_mapping, W
<1>7. a % W \in 0 .. W - 1 /\ b % W \in 0 .. W - 1
  BY <1>2
<1>8. first_word_mapping(a) = IF a < 2 * W THEN a ELSE 2 * W + (a % W)
  BY <1>6
<1>9. first_word_mapping(b) = IF b < 2 * W THEN b ELSE 2 * W + (b % W)
  BY <1>6
<1>10. (a < 2 * W) = (b < 2 * W)
  BY <1>3, <1>4
<1>11. QED
  BY <1>1, <1>5, <1>7, <1>8, <1>9, <1>10

LEMMA RangeOfWindow ==
    ASSUME window \in Windows
    PROVE  /\ Start \in Nat /\ LastWord \in Nat /\ Start % 16 = 0 /\ LastWord % 16 = 15
           /\ Start + MODULO_N <= LastWord /\ Start + 15 <= LastWord
<1> DEFINE a == first_word_mapping(Segments[window].first)
           b == first_word_mapping(Segments[window].last)
           n == PAGE_WORDS
<1>1. a \in Nat /\ b \in Nat /\ a <= b
  BY MappedInOrder, MemTestsAssumption
<1>2. n \in Nat /\ n % 16 = 0 /\ n > MODULO_N /\ MODULO_N \in Nat \ {0, 1}
  BY MemTestsAssumption
<1>3. Start = a * n /\ LastWord = b * n + n - 1
  BY DEF Start, LastWord, Base
<1> HIDE DEF a, b, n
<1>4. PICK k \in Nat : n = 16 * k
  <2>1. n = 16 * (n \div 16) /\ n \div 16 \in Nat
    BY <1>2
  <2>2. QED
    BY <2>1
<1>5. a * n = 16 * (a * k) /\ b * n = 16 * (b * k) /\ a * k \in Nat /\ b * k \in Nat
  BY <1>1, <1>4
<1>6. a * k <= b * k
  <2>1. PICK d \in Nat : b = a + d
    <3>1. b - a \in Nat /\ b = a + (b - a)
      BY <1>1
    <3>2. QED
      BY <3>1
  <2>2. b * k = a * k + d * k /\ d * k \in Nat
    BY <1>1, <1>4, <2>1
  <2>3. QED
    BY <1>5, <2>2
<1>7. n >= 16
  BY <1>2, <1>4
<1>8. QED
  BY <1>2, <1>3, <1>4, <1>5, <1>6, <1>7

-----------------------------------------------------------------------------
(***************************************************************************)
(* The inductive invariant.  While words are visited, the pointer is in    *)
(* the block, and the block in the range; a stride may stop anywhere in    *)
(* the range; pairs begin at even words, and blocks of sixteen words at    *)
(* multiples of it.                                                        *)
(***************************************************************************)
CallInv ==
    /\ test \in Tests /\ my_cpu \in {-1, 0} /\ window \in Windows
    /\ stage \in 0 .. Stages(test) - 1
    /\ Listed(phases)
    /\ phase \in Nat \ {0}
    /\ pc \in {"words", "tick"} => phase <= Len(phases)
    /\ pc = "words" => my_cpu = 0

InBlock ==
    /\ pe \in Start .. LastWord
    /\ IF Cur.up THEN IF pc = "tick" THEN p = pe + 1 ELSE p \in Start .. pe
                 ELSE IF pc = "tick" THEN p = pe - 1 ELSE p \in pe .. LastWord

InRange == p \in Start .. LastWord /\ pe \in Start .. LastWord

PointerInv ==
    my_cpu = 0 /\ pc \in {"words", "tick"} =>
        /\ Cur.kind \in Single => left = 1
        /\ Cur.kind = "march"  => InBlock
        /\ Cur.kind = "nth"    => InRange /\ pe <= LastWord - MODULO_N
        /\ Cur.kind = "pairs"  => InRange /\ p % 2 = 0 /\ pe % 16 = 15 /\ p < pe
        /\ Cur.kind = "blocks" => InRange /\ p % 16 = 0 /\ pe % 16 = 15 /\ p + 15 <= pe
        /\ Cur.kind = "move"   => InRange /\ p = Start
        /\ Cur.kind = "walk"   => /\ p \in Nat \ {0} /\ q \in Nat
                                  /\ q > 0 => Masked(p) <= LastWord

LEMMA CurGood ==
    ASSUME CallInv, phase <= Len(phases)
    PROVE  GoodPhase(Cur)
<1>1. PICK S : phases \in Seq(S) /\ \A ph \in S : GoodPhase(ph)
  BY DEF CallInv, Listed
<1>2. phase \in 1 .. Len(phases)
  BY <1>1, LenProperties DEF CallInv
<1>3. phases[phase] \in S
  BY <1>1, <1>2, ElementOfSeq
<1>4. QED
  BY <1>1, <1>3 DEF Cur

\* What stays as it is as long as the call and its phase go on.
LEMMA Frame ==
    ASSUME UNCHANGED <<window, phases, phase>>
    PROVE  Cur' = Cur /\ Start' = Start /\ LastWord' = LastWord /\ End' = End
  BY DEF Cur, Start, LastWord, End, Base

LEMMA FrameMasked ==
    ASSUME UNCHANGED <<window, p>>
    PROVE  Masked(p)' = Masked(p)
  BY DEF Masked, Start, Base

\* The end of a block, which is at least as long as sixteen words.
LEMMA BlockInside ==
    ASSUME CallInv, phase <= Len(phases), NEW v \in Start .. End
    PROVE  /\ Cur.up => /\ BlockEnd(v) \in v .. End
                        /\ v % 16 = 0 /\ End % 16 = 15 =>
                             BlockEnd(v) % 16 = 15 /\ v + 15 <= BlockEnd(v)
           /\ ~Cur.up /\ Cur.kind = "march" => BlockEnd(v) \in Start .. v
<1>1. GoodPhase(Cur) /\ SPIN_SIZE \in Nat \ {0} /\ SPIN_SIZE % 16 = 0 /\ SPIN_SIZE >= 16
  BY CurGood, MemTestsAssumption
<1>2. Start \in Nat /\ LastWord \in Nat /\ End \in Int
  BY RangeOfWindow, MemTestsAssumption DEF CallInv, End
<1>3. QED
  BY <1>1, <1>2 DEF BlockEnd

-----------------------------------------------------------------------------
LEMMA InitInv == Init => CallInv /\ PointerInv
<1> SUFFICES ASSUME Init PROVE CallInv /\ PointerInv
  OBVIOUS
<1>1. test \in Tests /\ Stages(test) \in 1 .. 6 /\ 1 \in Windows
  BY StagesOf, MemTestsAssumption DEF Init, Windows
<1>2. Listed(phases)
  BY CallsListed DEF Init
<1>3. QED
  BY <1>1, <1>2 DEF Init, CallInv, PointerInv

LEMMA NextCallInv == CallInv /\ [Next]_vars => CallInv'
<1> SUFFICES ASSUME CallInv, [Next]_vars PROVE CallInv'
  OBVIOUS
<1> USE DEF CallInv, callVars, blockVars
<1>1. CASE BeginPhase
  BY <1>1 DEF BeginPhase, Enter
<1>2. CASE SkipSleep
  BY <1>2 DEF SkipSleep
<1>3. CASE Word \/ PairWord \/ BlockWords
  BY <1>3 DEF Word, PairWord, BlockWords, ToNextWord
<1>4. CASE MoveUp \/ MoveDown \/ Sleep
  BY <1>4 DEF MoveUp, MoveDown, Sleep
<1>5. CASE WalkFirst \/ WalkSecond
  BY <1>5 DEF WalkFirst, WalkSecond
<1>6. CASE EndBlock
  BY <1>6 DEF EndBlock, Enter
<1>7. CASE EndCall
  <2>1. Stages(test) \in 1 .. 6 /\ Len(Segments) \in Nat \ {0}
    BY StagesOf, MemTestsAssumption
  <2>2. test' \in Tests /\ my_cpu' \in {-1, 0} /\ window' \in Windows /\ phase' = 1
        /\ stage' \in 0 .. Stages(test') - 1 /\ pc' \notin {"words", "tick"}
    BY <1>7, <2>1 DEF EndCall, Windows
  <2>3. Listed(phases')
    BY <1>7, CallsListed DEF EndCall
  <2>4. QED
    BY <2>2, <2>3
<1>8. CASE UNCHANGED vars
  BY <1>8 DEF vars
<1>9. QED
  BY <1>1, <1>2, <1>3, <1>4, <1>5, <1>6, <1>7, <1>8 DEF Next, Run, Over

(***************************************************************************)
(* A phase begins at one end of the range.                                 *)
(***************************************************************************)
LEMMA PhaseBegins ==
    ASSUME CallInv, BeginPhase
    PROVE  PointerInv'
<1> SUFFICES ASSUME my_cpu' = 0
             PROVE  PointerInv'
  BY DEF PointerInv
<1>1. phase <= Len(phases) /\ UNCHANGED <<window, phases, phase>> /\ my_cpu = 0
  BY DEF BeginPhase, callVars
<1>2. Cur' = Cur /\ Start' = Start /\ LastWord' = LastWord
  BY <1>1, Frame
<1>3. /\ p' = IF Cur.kind = "walk" THEN 1 ELSE IF Cur.up THEN Start + Cur.off ELSE End
      /\ q' = 0 /\ left' = Cur.repeat /\ pc' = "words"
      /\ pe' = BlockEnd(IF Cur.up THEN Start ELSE End)
  BY <1>1 DEF BeginPhase, Enter
<1>4. GoodPhase(Cur) /\ MODULO_N \in Nat \ {0, 1}
  BY <1>1, CurGood, MemTestsAssumption
<1>5. /\ Start \in Nat /\ LastWord \in Nat /\ Start % 16 = 0 /\ LastWord % 16 = 15
      /\ Start + MODULO_N <= LastWord /\ Start + 15 <= LastWord
      /\ End = IF Cur.kind = "nth" THEN LastWord - MODULO_N ELSE LastWord
  BY RangeOfWindow DEF CallInv, End
<1>6. Start \in Start .. End /\ End \in Start .. End
  BY <1>4, <1>5
<1>7. /\ Cur.up => /\ pe' \in Start .. End
                   /\ End % 16 = 15 => pe' % 16 = 15 /\ Start + 15 <= pe'
      /\ ~Cur.up /\ Cur.kind = "march" => pe' \in Start .. End
  BY <1>1, <1>3, <1>5, <1>6, BlockInside
<1>8. QED
  BY <1>2, <1>3, <1>4, <1>5, <1>7 DEF PointerInv, InBlock, InRange, GoodPhase, Single

(***************************************************************************)
(* The pointer goes to the next word, or the block is over.                *)
(***************************************************************************)
LEMMA PointerSteps ==
    ASSUME CallInv, PointerInv, pc = "words", ToNextWord,
           Cur.kind \in {"march", "nth", "pairs", "blocks"}
    PROVE  PointerInv'
<1>1. phase <= Len(phases) /\ UNCHANGED <<window, phases, phase, my_cpu, pe, left>> /\ my_cpu = 0
  BY DEF CallInv, ToNextWord, callVars
<1>2. Cur' = Cur /\ Start' = Start /\ LastWord' = LastWord
  BY <1>1, Frame
<1>3. GoodPhase(Cur) /\ MODULO_N \in Nat \ {0, 1}
  BY <1>1, CurGood, MemTestsAssumption
<1>4. /\ Start \in Nat /\ LastWord \in Nat /\ Start % 16 = 0 /\ LastWord % 16 = 15
      /\ Start + MODULO_N <= LastWord /\ Start + 15 <= LastWord
  BY RangeOfWindow DEF CallInv
<1>5. p' = NextWord /\ pc' = IF MoreWords THEN "words" ELSE "tick"
  BY DEF ToNextWord
<1>6. CASE Cur.kind = "march"
  <2>1. Cur.step = 1 /\ Cur.up \in BOOLEAN /\ left = 1 /\ InBlock
    BY <1>1, <1>3, <1>6 DEF GoodPhase, PointerInv, Single
  <2>2. InBlock'
    BY <1>1, <1>2, <1>4, <1>5, <2>1 DEF InBlock, MoreWords, NextWord
  <2>3. QED
    BY <1>1, <1>2, <1>6, <2>1, <2>2 DEF PointerInv
<1>7. CASE Cur.kind # "march"
  <2>1. /\ Cur.step \in Nat \ {0, 1} /\ left = 1 /\ InRange
        /\ Cur.kind = "nth" => pe <= LastWord - MODULO_N
        /\ Cur.kind = "pairs" => Cur.step = 2 /\ p % 2 = 0 /\ pe % 16 = 15 /\ p < pe
        /\ Cur.kind = "blocks" => Cur.step = 16 /\ p % 16 = 0 /\ pe % 16 = 15 /\ p + 15 <= pe
    BY <1>1, <1>3, <1>7 DEF GoodPhase, PointerInv, Single
  <2>2. p' = IF p <= pe - Cur.step THEN p + Cur.step ELSE p
    BY <1>5, <2>1 DEF NextWord, MoreWords
  <2>3. InRange'
    BY <1>1, <1>2, <1>4, <2>1, <2>2 DEF InRange
  <2>4. Cur.kind = "pairs" => p' % 2 = 0 /\ p' < pe
    BY <1>4, <2>1, <2>2 DEF InRange
  <2>5. Cur.kind = "blocks" => p' % 16 = 0 /\ p' + 15 <= pe
    BY <1>4, <2>1, <2>2 DEF InRange
  <2>6. QED
    BY <1>1, <1>2, <1>7, <2>1, <2>3, <2>4, <2>5 DEF PointerInv
<1>8. QED
  BY <1>6, <1>7

(***************************************************************************)
(* Between blocks: the next one begins behind the last.                    *)
(***************************************************************************)
LEMMA PointerMoves ==
    ASSUME CallInv, PointerInv, EndBlock
    PROVE  PointerInv'
<1> SUFFICES ASSUME my_cpu' = 0, pc' \in {"words", "tick"}
             PROVE  PointerInv'
  BY DEF PointerInv
<1>1. /\ phase <= Len(phases) /\ UNCHANGED <<window, phases, phase, my_cpu, p, q>>
      /\ my_cpu = 0 /\ pc = "tick" /\ pc' = "words"
  BY DEF CallInv, EndBlock, Enter, callVars
<1>2. Cur' = Cur /\ Start' = Start /\ LastWord' = LastWord /\ Masked(p)' = Masked(p)
  BY <1>1, Frame, FrameMasked
<1>3. GoodPhase(Cur) /\ MODULO_N \in Nat \ {0, 1}
  BY <1>1, CurGood, MemTestsAssumption
<1>4. /\ Start \in Nat /\ LastWord \in Nat /\ Start % 16 = 0 /\ LastWord % 16 = 15
      /\ Start + MODULO_N <= LastWord /\ Start + 15 <= LastWord
      /\ End = IF Cur.kind = "nth" THEN LastWord - MODULO_N ELSE LastWord
  BY RangeOfWindow DEF CallInv, End
<1>5. CASE left > 1
  <2>1. Cur.kind \notin Single
    BY <1>1, <1>5 DEF PointerInv
  <2>2. UNCHANGED pe
    BY <1>1, <1>5 DEF EndBlock, Enter
  <2>3. Cur.kind = "move" => InRange' /\ p' = Start
    BY <1>1, <1>2, <2>2 DEF PointerInv, InRange
  <2>4. QED
    BY <1>2, <2>1, <2>3 DEF PointerInv, Single
<1>6. CASE ~(left > 1)
  <2>1. /\ ~AtEnd /\ left' = Cur.repeat
        /\ pe' = BlockEnd(IF Cur.up THEN pe + 1 ELSE pe - 1)
    BY <1>1, <1>6 DEF EndBlock, Enter
  <2>2. CASE Cur.kind \in {"walk", "sleep"}
    BY <1>1, <1>2, <1>3, <2>1, <2>2 DEF PointerInv, GoodPhase, Single
  <2>3. CASE Cur.kind = "march" /\ ~Cur.up
    <3>1. pe \in Start .. LastWord /\ p = pe - 1 /\ pe # Start
      BY <1>1, <2>1, <2>3 DEF PointerInv, InBlock, AtEnd
    <3>2. pe - 1 \in Start .. End /\ pe' \in Start .. pe - 1
      BY <1>1, <1>4, <2>1, <2>3, <3>1, BlockInside
    <3>3. InBlock'
      BY <1>1, <1>2, <1>4, <2>3, <3>1, <3>2 DEF InBlock
    <3>4. QED
      BY <1>2, <1>3, <2>1, <2>3, <3>3 DEF PointerInv, GoodPhase, Single
  <2>4. CASE Cur.kind \notin {"walk", "sleep"} /\ Cur.up
    <3>1. pe \in Start .. LastWord /\ pe # End /\ pe <= End
      BY <1>1, <1>3, <1>4, <2>1, <2>4 DEF PointerInv, InBlock, InRange, AtEnd, GoodPhase, Single
    <3>2. pe + 1 \in Start .. End /\ pe' = BlockEnd(pe + 1)
      BY <1>3, <1>4, <2>1, <2>4, <3>1
    <3>3. /\ pe' \in pe + 1 .. End
          /\ (pe + 1) % 16 = 0 /\ End % 16 = 15 => pe' % 16 = 15
      BY <1>1, <2>4, <3>2, BlockInside
    <3>4. pe' \in Start .. LastWord /\ pe < pe' /\ (Cur.kind \in Single => left' = 1)
      BY <1>3, <1>4, <2>1, <3>1, <3>3 DEF GoodPhase, Single
    <3>5. Cur.kind = "march" => InBlock'
      BY <1>1, <1>2, <1>4, <2>4, <3>1, <3>4 DEF PointerInv, InBlock
    <3>6. Cur.kind # "march" => InRange /\ InRange'
      BY <1>1, <1>2, <1>3, <2>4, <3>4 DEF PointerInv, InRange, GoodPhase, Single
    <3>7. Cur.kind = "nth" => pe' <= LastWord - MODULO_N
      BY <1>4, <3>3
    <3>8. Cur.kind = "pairs" => p % 2 = 0 /\ pe' % 16 = 15 /\ p < pe'
      <4> SUFFICES ASSUME Cur.kind = "pairs" PROVE p % 2 = 0 /\ pe' % 16 = 15 /\ p < pe'
        OBVIOUS
      <4>1. p % 2 = 0 /\ pe % 16 = 15 /\ p < pe /\ InRange
        BY <1>1 DEF PointerInv
      <4>2. (pe + 1) % 16 = 0 /\ End % 16 = 15
        BY <1>4, <3>1, <4>1
      <4>3. pe' % 16 = 15
        BY <3>3, <4>2
      <4>4. p < pe'
        BY <1>4, <3>4, <4>1 DEF InRange
      <4>5. QED
        BY <4>1, <4>3, <4>4
    <3>9. Cur.kind = "blocks" => p % 16 = 0 /\ pe' % 16 = 15 /\ p + 15 <= pe'
      <4> SUFFICES ASSUME Cur.kind = "blocks"
                   PROVE  p % 16 = 0 /\ pe' % 16 = 15 /\ p + 15 <= pe'
        OBVIOUS
      <4>1. p % 16 = 0 /\ pe % 16 = 15 /\ p + 15 <= pe /\ InRange
        BY <1>1 DEF PointerInv
      <4>2. (pe + 1) % 16 = 0 /\ End % 16 = 15
        BY <1>4, <3>1, <4>1
      <4>3. pe' % 16 = 15
        BY <3>3, <4>2
      <4>4. p + 15 <= pe'
        BY <1>4, <3>4, <4>1 DEF InRange
      <4>5. QED
        BY <4>1, <4>3, <4>4
    <3>10. Cur.kind = "move" => p = Start
      BY <1>1 DEF PointerInv
    <3>11. QED
      BY <1>1, <1>2, <2>4, <3>4, <3>5, <3>6, <3>7, <3>8, <3>9, <3>10 DEF PointerInv
  <2>5. QED
    BY <1>3, <2>2, <2>3, <2>4 DEF GoodPhase, Single
<1>7. QED
  BY <1>5, <1>6

(***************************************************************************)
(* The masks of test 0 and the halves of the block move.                   *)
(***************************************************************************)
LEMMA PointerStays ==
    ASSUME CallInv, PointerInv, MoveUp \/ MoveDown \/ Sleep
    PROVE  PointerInv'
<1>1. /\ phase <= Len(phases) /\ UNCHANGED <<window, phases, phase, my_cpu, p, pe, left>>
      /\ my_cpu = 0 /\ pc = "words" /\ Cur.kind \in {"move", "sleep"}
  BY DEF CallInv, MoveUp, MoveDown, Sleep, callVars, blockVars
<1>2. Cur' = Cur /\ Start' = Start /\ LastWord' = LastWord
  BY <1>1, Frame
<1>3. QED
  BY <1>1, <1>2 DEF PointerInv, InRange, Single

LEMMA MaskGoesOn ==
    ASSUME CallInv, PointerInv, WalkFirst \/ WalkSecond
    PROVE  PointerInv'
<1>1. /\ phase <= Len(phases) /\ UNCHANGED <<window, phases, phase, my_cpu, left>>
      /\ my_cpu = 0 /\ pc = "words" /\ Cur.kind = "walk"
  BY DEF CallInv, WalkFirst, WalkSecond, callVars
<1>2. Cur' = Cur /\ LastWord' = LastWord /\ End = LastWord
  BY <1>1, Frame DEF End
<1>3. /\ p \in Nat \ {0} /\ q \in Nat /\ left = 1
      /\ q > 0 => Masked(p) <= LastWord
  BY <1>1 DEF PointerInv, Single
<1>4. p' \in Nat \ {0} /\ q' \in Nat /\ (q' > 0 => Masked(p)' <= LastWord)
  <2>1. CASE WalkFirst
    <3>1. Masked(p)' = Masked(p) /\ p' = p
      BY <1>1, <2>1, FrameMasked DEF WalkFirst
    <3>2. CASE Masked(p) > End
      BY <1>2, <1>3, <2>1, <3>1, <3>2 DEF WalkFirst
    <3>3. CASE ~(Masked(p) > End)
      <4>1. Start \in Nat /\ LastWord \in Nat /\ Masked(p) \in Nat
        BY <1>3, RangeOfWindow DEF CallInv, Masked
      <4>2. QED
        BY <1>2, <1>3, <2>1, <3>1, <3>3, <4>1 DEF WalkFirst
    <3>4. QED
      BY <3>2, <3>3
  <2>2. CASE WalkSecond
    <3>1. q > 0 /\ ((p' = 2 * p /\ q' = 0) \/ (p' = p /\ q' = 2 * q))
      BY <2>2 DEF WalkSecond
    <3>2. p' = p => Masked(p)' = Masked(p)
      BY <1>1, FrameMasked
    <3>3. QED
      BY <1>3, <3>1, <3>2
  <2>3. QED
    BY <2>1, <2>2
<1>5. QED
  BY <1>1, <1>2, <1>3, <1>4 DEF PointerInv, Single

LEMMA NextPointerInv == CallInv /\ PointerInv /\ [Next]_vars => PointerInv'
<1> SUFFICES ASSUME CallInv, PointerInv, [Next]_vars PROVE PointerInv'
  OBVIOUS
<1>1. CASE BeginPhase
  BY <1>1, PhaseBegins
<1>2. CASE SkipSleep \/ EndCall
  <2>1. pc' \notin {"words", "tick"}
    BY <1>2 DEF SkipSleep, EndCall
  <2>2. QED
    BY <2>1 DEF PointerInv
<1>3. CASE Word \/ PairWord \/ BlockWords
  BY <1>3, PointerSteps DEF Word, PairWord, BlockWords
<1>4. CASE MoveUp \/ MoveDown \/ Sleep
  BY <1>4, PointerStays
<1>5. CASE WalkFirst \/ WalkSecond
  BY <1>5, MaskGoesOn
<1>6. CASE EndBlock
  BY <1>6, PointerMoves
<1>7. CASE UNCHANGED vars
  <2>1. UNCHANGED <<window, phases, phase, my_cpu, pc, p, pe, q, left>>
    BY <1>7 DEF vars, callVars, blockVars
  <2>2. Cur' = Cur /\ Start' = Start /\ LastWord' = LastWord /\ Masked(p)' = Masked(p)
    BY <2>1, Frame, FrameMasked
  <2>3. QED
    BY <2>1, <2>2 DEF PointerInv, InBlock, InRange
<1>8. QED
  BY <1>1, <1>2, <1>3, <1>4, <1>5, <1>6, <1>7 DEF Next, Run, Over

LEMMA AlwaysInv == Spec => [](CallInv /\ PointerInv)
  BY InitInv, NextCallInv, NextPointerInv, PTL DEF Spec

-----------------------------------------------------------------------------
(***************************************************************************)
(* What a step touches, phase by phase.                                    *)
(***************************************************************************)
LEMMA AccessedByKind ==
    /\ Cur.kind \in {"march", "nth"} => Accessed = {p}
    /\ Cur.kind = "pairs"  => Accessed = {p, p + 1}
    /\ Cur.kind = "blocks" => Accessed = p .. p + 15
    /\ Cur.kind = "move"   => Accessed = p .. p + 2 * Half - 1
    /\ Cur.kind = "walk" /\ q > 0 => Accessed = {Masked(p)}
    /\ Cur.kind = "walk" /\ ~(q > 0) => Accessed = {}
    /\ Cur.kind = "sleep" => Accessed = {}
  BY Zenon DEF Accessed

(***************************************************************************)
(* All words that a test reads or writes lie in the range of its window,   *)
(* whatever the sizes of pages, blocks and strides, and wherever the       *)
(* window lies: the tests before an increment keep strides, pairs, blocks  *)
(* and halves from going beyond the last word.                             *)
(***************************************************************************)
THEOREM NoWordOutside == Spec => []AccessesInside
<1>1. CallInv /\ PointerInv => AccessesInside
  <2> SUFFICES ASSUME CallInv, PointerInv, pc = "words"
               PROVE  Accessed \subseteq Start .. LastWord
    BY DEF AccessesInside
  <2>1. GoodPhase(Cur) /\ my_cpu = 0
    BY CurGood DEF CallInv
  <2>2. /\ Start \in Nat /\ LastWord \in Nat /\ Start % 16 = 0 /\ LastWord % 16 = 15
        /\ Start + MODULO_N <= LastWord /\ Start + 15 <= LastWord
    BY RangeOfWindow DEF CallInv
  <2>3. CASE Cur.kind \in {"march", "nth"}
    <3>1. p \in Start .. LastWord
      BY <2>1, <2>2, <2>3 DEF PointerInv, InBlock, InRange, GoodPhase
    <3>2. QED
      BY <2>3, <3>1, AccessedByKind
  <2>4. CASE Cur.kind = "pairs"
    <3>1. p \in Start .. LastWord /\ p + 1 \in Start .. LastWord
      BY <2>1, <2>2, <2>4 DEF PointerInv, InRange
    <3>2. QED
      BY <2>4, <3>1, AccessedByKind
  <2>5. CASE Cur.kind = "blocks"
    <3>1. p .. p + 15 \subseteq Start .. LastWord
      BY <2>1, <2>2, <2>5 DEF PointerInv, InRange
    <3>2. QED
      BY <2>5, <3>1, AccessedByKind
  <2>6. CASE Cur.kind = "move"
    <3>1. p = Start /\ pe \in Start .. LastWord
      BY <2>1, <2>6 DEF PointerInv, InRange
    <3>2. Half \in Nat /\ p + 2 * Half - 1 <= pe
      BY <2>2, <3>1 DEF Half
    <3>3. p .. p + 2 * Half - 1 \subseteq Start .. LastWord
      BY <2>2, <3>1, <3>2
    <3>4. QED
      BY <2>6, <3>3, AccessedByKind
  <2>7. CASE Cur.kind = "walk"
    <3>1. p \in Nat \ {0} /\ q \in Nat /\ (q > 0 => Masked(p) <= LastWord)
      BY <2>1, <2>7 DEF PointerInv
    <3>2. Masked(p) \in Nat /\ Start <= Masked(p)
      BY <2>2, <3>1 DEF Masked
    <3>3. q > 0 => Masked(p) \in Start .. LastWord
      BY <2>2, <3>1, <3>2
    <3>4. QED
      BY <2>7, <3>3, AccessedByKind
  <2>8. QED
    BY <2>1, <2>3, <2>4, <2>5, <2>6, <2>7, AccessedByKind DEF GoodPhase, Single
<1>2. QED
  BY <1>1, AlwaysInv, PTL

-----------------------------------------------------------------------------
(***************************************************************************)
(* What the ticks of a phase depend on.  The clock decides which patterns  *)
(* a test uses, and nothing of this.                                       *)
(***************************************************************************)
Shape(ph) == [kind |-> ph.kind, up |-> ph.up, repeat |-> ph.repeat]

Alike(s, u) ==
    /\ Listed(s) /\ Listed(u)
    /\ Len(s) = Len(u)
    /\ \A i \in 1 .. Len(s) : Shape(s[i]) = Shape(u[i])

LEMMA AlikeItself ==
    ASSUME NEW s, Listed(s)
    PROVE  Alike(s, s)
  BY DEF Alike

LEMMA AlikeJoined ==
    ASSUME NEW s, NEW u, NEW t, NEW v, Alike(s, u), Alike(t, v)
    PROVE  Alike(s \o t, u \o v)
<1>1. Listed(s \o t) /\ Listed(u \o v)
  BY Joined DEF Alike
<1>2. \A a, b : Listed(a) /\ Listed(b) =>
        /\ Len(a) \in Nat /\ Len(b) \in Nat
        /\ Len(a \o b) = Len(a) + Len(b)
        /\ \A i \in 1 .. Len(a) + Len(b) : (a \o b)[i] = IF i <= Len(a) THEN a[i] ELSE b[i - Len(a)]
  <2> SUFFICES ASSUME NEW a, NEW b, Listed(a), Listed(b)
               PROVE  /\ Len(a) \in Nat /\ Len(b) \in Nat
                      /\ Len(a \o b) = Len(a) + Len(b)
                      /\ \A i \in 1 .. Len(a) + Len(b) :
                            (a \o b)[i] = IF i <= Len(a) THEN a[i] ELSE b[i - Len(a)]
    OBVIOUS
  <2>1. PICK S : a \in Seq(S)
    BY DEF Listed
  <2>2. PICK U : b \in Seq(U)
    BY DEF Listed
  <2> DEFINE T == S \cup U
  <2>3. a \in Seq(T) /\ b \in Seq(T)
    <3>1. S \subseteq T /\ U \subseteq T
      OBVIOUS
    <3>2. QED
      BY <2>1, <2>2, <3>1, SeqMonotonic
  <2> HIDE DEF T
  <2>4. QED
    BY <2>3, ConcatProperties, LenProperties
<1>3. /\ Len(s) \in Nat /\ Len(t) \in Nat /\ Len(s) = Len(u) /\ Len(t) = Len(v)
      /\ Len(s \o t) = Len(s) + Len(t) /\ Len(u \o v) = Len(s) + Len(t)
  BY <1>2 DEF Alike
<1>4. \A i \in 1 .. Len(s) + Len(t) : Shape((s \o t)[i]) = Shape((u \o v)[i])
  <2> SUFFICES ASSUME NEW i \in 1 .. Len(s) + Len(t)
               PROVE  Shape((s \o t)[i]) = Shape((u \o v)[i])
    OBVIOUS
  <2>1. /\ (s \o t)[i] = IF i <= Len(s) THEN s[i] ELSE t[i - Len(s)]
        /\ (u \o v)[i] = IF i <= Len(s) THEN u[i] ELSE v[i - Len(s)]
    BY <1>2, <1>3 DEF Alike
  <2>2. CASE i <= Len(s)
    <3>1. i \in 1 .. Len(s)
      BY <1>3, <2>2
    <3>2. QED
      BY <2>1, <2>2, <3>1 DEF Alike
  <2>3. CASE ~(i <= Len(s))
    <3>1. i - Len(s) \in 1 .. Len(t)
      BY <1>3, <2>3
    <3>2. QED
      BY <2>1, <2>3, <3>1 DEF Alike
  <2>4. QED
    BY <2>2, <2>3
<1>5. QED
  BY <1>1, <1>3, <1>4 DEF Alike

LEMMA FlattenAlike ==
    ASSUME NEW n \in Nat, NEW s, s = [i \in 1 .. n |-> s[i]],
           NEW u, u = [i \in 1 .. n |-> u[i]],
           \A i \in 1 .. n : Alike(s[i], u[i])
    PROVE  Alike(FlattenSeq(s), FlattenSeq(u))
<1>1. CASE n = 0
  <2>1. s = u
    <3>1. \A i \in 1 .. n : s[i] = u[i]
      BY <1>1
    <3>2. QED
      BY <3>1, Zenon
  <2>2. Listed(FlattenSeq(s))
    BY FlattenListed DEF Alike
  <2>3. QED
    BY <2>1, <2>2, AlikeItself
<1>2. CASE n # 0
  <2>1. \A i \in 1 .. n : Listed(s[i]) /\ Listed(u[i])
    BY DEF Alike
  <2>2. PICK f : Unrolled(s, n, f) /\ FlattenSeq(s) = f[n]
    BY <1>2, <2>1, FlattenUnrolled
  <2>3. PICK g : Unrolled(u, n, g) /\ FlattenSeq(u) = g[n]
    BY <1>2, <2>1, FlattenUnrolled
  <2>4. \A i \in 1 .. n : /\ f[i] = IF i = 1 THEN s[i] ELSE f[i - 1] \o s[i]
                          /\ g[i] = IF i = 1 THEN u[i] ELSE g[i - 1] \o u[i]
    BY <2>2, <2>3, UnrolledAt
  <2> DEFINE bad == {k \in 1 .. n : ~Alike(f[k], g[k])}
  <2>5. bad = {}
    <3>1. SUFFICES ASSUME bad # {} PROVE FALSE
      OBVIOUS
    <3>2. PICK m \in bad : \A k \in bad : m <= k
      <4> bad \subseteq Nat
        OBVIOUS
      <4> HIDE DEF bad
      <4> QED
        BY <3>1, LeastNat
    <3>3. m \in 1 .. n /\ ~Alike(f[m], g[m])
      OBVIOUS
    <3>4. m # 1
      BY <2>4, <3>3
    <3>5. m - 1 \in 1 .. n /\ m - 1 \notin bad
      BY <3>2, <3>3, <3>4
    <3>6. Alike(f[m - 1], g[m - 1]) /\ f[m] = f[m - 1] \o s[m] /\ g[m] = g[m - 1] \o u[m]
      BY <2>4, <3>3, <3>4, <3>5
    <3>7. QED
      BY <3>3, <3>6, AlikeJoined
  <2>6. n \in 1 .. n
    BY <1>2
  <2>7. QED
    BY <2>2, <2>3, <2>5, <2>6
<1>3. QED
  BY <1>1, <1>2

LEMMA OneAlike ==
    ASSUME NEW a, NEW b, GoodPhase(a), GoodPhase(b), Shape(a) = Shape(b)
    PROVE  Alike(<<a>>, <<b>>)
<1>1. Listed(<<a>>) /\ Listed(<<b>>)
  BY OneListed
<1>2. Len(<<a>>) = 1 /\ Len(<<b>>) = 1 /\ <<a>>[1] = a /\ <<b>>[1] = b
  OBVIOUS
<1>3. QED
  BY <1>1, <1>2 DEF Alike

LEMMA TimesAlike ==
    ASSUME NEW n \in Nat, NEW s, NEW u, Alike(s, u)
    PROVE  Alike(Times(n, s), Times(n, u))
<1> DEFINE a == [i \in 1 .. n |-> s]
           b == [i \in 1 .. n |-> u]
<1>1. /\ a = [i \in 1 .. n |-> a[i]] /\ \A i \in 1 .. n : a[i] = s
      /\ b = [i \in 1 .. n |-> b[i]] /\ \A i \in 1 .. n : b[i] = u
  OBVIOUS
<1> HIDE DEF a, b
<1>2. Alike(FlattenSeq(a), FlattenSeq(b))
  BY <1>1, FlattenAlike
<1>3. QED
  BY <1>2 DEF Times, a, b

LEMMA FixedAlike ==
    ASSUME NEW n \in Nat, NEW v, NEW w
    PROVE  Alike(test_mov_inv_fixed(n, v), test_mov_inv_fixed(n, w))
<1> DEFINE up(x)   == [March EXCEPT !.seed = x]
           down(x) == [March EXCEPT !.seed = Not(x), !.up = FALSE]
<1>1. GoodPhase(up(v)) /\ GoodPhase(up(w)) /\ GoodPhase(down(v)) /\ GoodPhase(down(w))
  BY DEF March, GoodPhase, Single
<1>2. Shape(up(v)) = Shape(up(w)) /\ Shape(down(v)) = Shape(down(w))
  BY DEF March, Shape
<1>3. Shape(Fill(v, "none")) = Shape(Fill(w, "none"))
  BY DEF Fill, March, Shape
<1>4. /\ test_mov_inv_fixed(n, v) = <<Fill(v, "none")>> \o Times(n, <<up(v), down(v)>>)
      /\ test_mov_inv_fixed(n, w) = <<Fill(w, "none")>> \o Times(n, <<up(w), down(w)>>)
  BY Zenon DEF test_mov_inv_fixed
<1> HIDE DEF up, down
<1>5. Alike(<<Fill(v, "none")>>, <<Fill(w, "none")>>)
  BY <1>3, FillGood, OneAlike
<1>6. Alike(<<up(v), down(v)>>, <<up(w), down(w)>>)
  <2>1. Listed(<<up(v), down(v)>>) /\ Listed(<<up(w), down(w)>>)
    BY <1>1, TwoListed
  <2>2. \A i \in 1 .. 2 : Shape(<<up(v), down(v)>>[i]) = Shape(<<up(w), down(w)>>[i])
    BY <1>2
  <2>3. QED
    BY <2>1, <2>2 DEF Alike
<1>7. QED
  BY <1>4, <1>5, <1>6, TimesAlike, AlikeJoined

LEMMA RandomAlike ==
    ASSUME NEW v, NEW w
    PROVE  Alike(test_mov_inv_random(v), test_mov_inv_random(w))
<1> DEFINE a(x) == [March EXCEPT !.seed = x, !.turn = "prsg"]
           b(x) == [March EXCEPT !.seed = x, !.turn = "prsg", !.invert = TRUE]
<1>1. Shape(a(v)) = Shape(a(w)) /\ Shape(b(v)) = Shape(b(w))
  BY DEF March, Shape
<1>2. Shape(Fill(v, "prsg")) = Shape(Fill(w, "prsg"))
  BY DEF Fill, March, Shape
<1>3. /\ test_mov_inv_random(v) = <<Fill(v, "prsg"), a(v), b(v)>>
      /\ test_mov_inv_random(w) = <<Fill(w, "prsg"), a(w), b(w)>>
  BY Zenon DEF test_mov_inv_random
<1> HIDE DEF a, b
<1>4. \A i \in 1 .. 3 : Shape(<<Fill(v, "prsg"), a(v), b(v)>>[i]) = Shape(<<Fill(w, "prsg"), a(w), b(w)>>[i])
  BY <1>1, <1>2
<1>5. Listed(test_mov_inv_random(v)) /\ Listed(test_mov_inv_random(w))
  BY RandomListed
<1>6. Len(<<Fill(v, "prsg"), a(v), b(v)>>) = 3 /\ Len(<<Fill(w, "prsg"), a(w), b(w)>>) = 3
  OBVIOUS
<1>7. QED
  BY <1>3, <1>4, <1>5, <1>6 DEF Alike

LEMMA ModuloAlike ==
    ASSUME NEW n \in Nat, NEW v, NEW w, NEW offset \in 0 .. MODULO_N - 1
    PROVE  Alike(test_modulo_n(n, v, offset), test_modulo_n(n, w, offset))
<1> DEFINE a(x) == [Fill(x, "none") EXCEPT !.kind = "nth", !.step = MODULO_N, !.off = offset]
           b(x) == [Fill(Not(x), "none") EXCEPT !.skip = offset]
           c(x) == [Check(x, "none") EXCEPT !.kind = "nth", !.step = MODULO_N, !.off = offset]
<1>1. \A x : GoodPhase(a(x)) /\ GoodPhase(c(x))
  BY DEF Fill, Check, March, GoodPhase, Single
<1>2. \A x : GoodPhase(b(x))
  BY DEF Fill, March, GoodPhase, Single
<1>3. Shape(a(v)) = Shape(a(w)) /\ Shape(b(v)) = Shape(b(w)) /\ Shape(c(v)) = Shape(c(w))
  BY DEF Fill, Check, March, Shape
<1>4. \A x : test_modulo_n(n, x, offset) = <<a(x)>> \o Times(n, <<b(x)>>) \o <<c(x)>>
  BY Zenon DEF test_modulo_n
<1> HIDE DEF a, b, c
<1>5. Alike(<<a(v)>>, <<a(w)>>) /\ Alike(<<b(v)>>, <<b(w)>>) /\ Alike(<<c(v)>>, <<c(w)>>)
  BY <1>1, <1>2, <1>3, OneAlike
<1>6. Alike(Times(n, <<b(v)>>), Times(n, <<b(w)>>))
  BY <1>5, TimesAlike
<1>7. Alike(<<a(v)>> \o Times(n, <<b(v)>>), <<a(w)>> \o Times(n, <<b(w)>>))
  BY <1>5, <1>6, AlikeJoined
<1>8. QED
  BY <1>4, <1>5, <1>7, AlikeJoined

LEMMA PhasesAlike ==
    ASSUME NEW t \in Tests, NEW st \in 0 .. Stages(t) - 1, NEW r, NEW r2
    PROVE  Alike(Phases(t, st, r), Phases(t, st, r2))
<1>1. /\ \A u \in Tests : Iterations[u] \in Nat \ {0}
      /\ MODULO_N \in Nat \ {0, 1} /\ t \in 0 .. 10
  BY MemTestsAssumption
<1>2. Listed(Phases(t, st, r)) /\ Listed(Phases(t, st, r2))
  BY PhasesListed
<1>3. CASE t \notin {5, 8, 9}
  <2>1. t \in {0, 1, 2, 3, 4, 6, 7, 10}
    BY <1>1, <1>3
  <2>2. Phases(t, st, r) = Phases(t, st, r2)
    <3>1. Phases(0, st, r) = Phases(0, st, r2)
      BY Switch
    <3>2. Phases(1, st, r) = Phases(1, st, r2)
      BY Switch
    <3>3. Phases(2, st, r) = Phases(2, st, r2)
      <4>1. \A x : Phases(2, st, x) = IF st = 0 THEN <<Fill({}, "own+window")>>
                                               ELSE <<Check({}, "own+window")>>
        BY Switch, Zenon
      <4>2. QED
        BY <4>1, Zenon
    <3>4. Phases(3, st, r) = Phases(3, st, r2)
      BY Switch
    <3>5. Phases(4, st, r) = Phases(4, st, r2)
      BY Switch
    <3>6. Phases(6, st, r) = Phases(6, st, r2)
      BY Switch
    <3>7. Phases(7, st, r) = Phases(7, st, r2)
      BY Switch
    <3>8. Phases(10, st, r) = Phases(10, st, r2)
      <4>1. \A x : Phases(10, st, x) = test_bit_fade(st, Iterations[10])
        BY Switch, Zenon
      <4>2. QED
        BY <4>1, Zenon
    <3>9. QED
      BY <2>1, <3>1, <3>2, <3>3, <3>4, <3>5, <3>6, <3>7, <3>8
  <2>3. QED
    BY <1>2, <2>2, AlikeItself
<1>4. CASE t = 5
  <2> DEFINE n == Iterations[5]
             s(x) == [i \in 1 .. n |-> test_mov_inv_fixed(2, Random(x[1], i))]
  <2>1. \A x : /\ s(x) = [i \in 1 .. n |-> s(x)[i]]
               /\ \A i \in 1 .. n : s(x)[i] = test_mov_inv_fixed(2, Random(x[1], i))
    OBVIOUS
  <2>2. \A i \in 1 .. n : Alike(s(r)[i], s(r2)[i])
    BY <2>1, FixedAlike
  <2>3. Phases(t, st, r) = FlattenSeq(s(r)) /\ Phases(t, st, r2) = FlattenSeq(s(r2))
    BY <1>4, Switch
  <2> HIDE DEF s
  <2>4. QED
    BY <1>1, <1>4, <2>1, <2>2, <2>3, FlattenAlike
<1>5. CASE t = 8
  <2> DEFINE n == Iterations[8]
             s(x) == [i \in 1 .. n |-> test_mov_inv_random(x[i])]
  <2>1. \A x : /\ s(x) = [i \in 1 .. n |-> s(x)[i]]
               /\ \A i \in 1 .. n : s(x)[i] = test_mov_inv_random(x[i])
    OBVIOUS
  <2>2. \A i \in 1 .. n : Alike(s(r)[i], s(r2)[i])
    BY <2>1, RandomAlike
  <2>3. Phases(t, st, r) = FlattenSeq(s(r)) /\ Phases(t, st, r2) = FlattenSeq(s(r2))
    BY <1>5, Switch
  <2> HIDE DEF s
  <2>4. QED
    BY <1>1, <1>5, <2>1, <2>2, <2>3, FlattenAlike
<1>6. CASE t = 9
  <2> DEFINE n == Iterations[9] * MODULO_N
             s(x) == [i \in 1 .. n |-> Test9(x[1], i)]
  <2>1. n \in Nat
    BY <1>1, <1>6
  <2>2. \A i \in 1 .. n : (i - 1) % MODULO_N \in 0 .. MODULO_N - 1
    BY <1>1, <2>1
  <2>3. \A x, y : \A i \in 1 .. n : Alike(Test9(x, i), Test9(y, i))
    BY <2>2, ModuloAlike, AlikeJoined DEF Test9
  <2>4. Phases(t, st, r) = FlattenSeq(s(r)) /\ Phases(t, st, r2) = FlattenSeq(s(r2))
    BY <1>6, Switch
  <2> HIDE DEF n
  <2>5. \A x : /\ s(x) = [i \in 1 .. n |-> s(x)[i]]
               /\ \A i \in 1 .. n : s(x)[i] = Test9(x[1], i)
    OBVIOUS
  <2> HIDE DEF s
  <2>6. QED
    BY <2>1, <2>3, <2>4, <2>5, FlattenAlike
<1>7. QED
  BY <1>3, <1>4, <1>5, <1>6

-----------------------------------------------------------------------------
(***************************************************************************)
(* The blocks of a window, by where they end.                              *)
(***************************************************************************)
FirstWord(w) == first_word_mapping(Segments[w].first) * PAGE_WORDS

EndWord(w, ph) ==
    LET last == first_word_mapping(Segments[w].last) * PAGE_WORDS + PAGE_WORDS - 1
    IN  IF ph.kind = "nth" THEN last - MODULO_N ELSE last

BlockEnds(w, ph) ==
    {b \in FirstWord(w) .. EndWord(w, ph) :
        IF ph.kind \in {"walk", "sleep"} THEN b = EndWord(w, ph)
        ELSE IF ph.up THEN b = EndWord(w, ph) \/ (b - FirstWord(w) + 1) % SPIN_SIZE = 0
        ELSE b = FirstWord(w) \/ (EndWord(w, ph) - b + 1) % SPIN_SIZE = 0}

LEMMA NextMultiple ==
    ASSUME NEW s \in Nat \ {0}, NEW n \in Nat, n % s = 0
    PROVE  (n + s) % s = 0
<1> DEFINE k == n \div s
           m == (n + s) \div s
           r == (n + s) % s
<1>1. n = s * k /\ k \in Nat
  OBVIOUS
<1>2. n + s = s * m + r /\ m \in Nat /\ r \in 0 .. s - 1
  OBVIOUS
<1> HIDE DEF k, m, r
<1>3. s * (k + 1) = s * k + s
  BY <1>1
<1>4. CASE m <= k
  <2>1. PICK d \in Nat : k = m + d
    <3>1. k - m \in Nat /\ k = m + (k - m)
      BY <1>1, <1>2, <1>4
    <3>2. QED
      BY <3>1
  <2>2. s * k = s * m + s * d /\ s * d \in Nat
    BY <1>2, <2>1
  <2>3. QED
    BY <1>1, <1>2, <2>2
<1>5. CASE m = k + 1
  <2>1. s * m = n + s /\ s * m \in Nat
    BY <1>1, <1>3, <1>5
  <2>2. r = 0
    BY <1>2, <2>1
  <2>3. QED
    BY <2>2 DEF r
<1>6. CASE m > k + 1
  <2>1. PICK d \in Nat \ {0} : m = (k + 1) + d
    <3>1. m - (k + 1) \in Nat \ {0} /\ m = (k + 1) + (m - (k + 1))
      BY <1>1, <1>2, <1>6
    <3>2. QED
      BY <3>1
  <2>2. s * m = s * (k + 1) + s * d /\ s * d \in Nat \ {0}
    BY <1>1, <1>2, <2>1
  <2>3. QED
    BY <1>1, <1>2, <1>3, <2>2
<1>7. QED
  BY <1>1, <1>2, <1>4, <1>5, <1>6

LEMMA NoMultipleBetween ==
    ASSUME NEW s \in Nat \ {0}, NEW n \in Nat, NEW m \in Nat, n % s = 0, m % s = 0, n < m
    PROVE  n + s <= m
<1>1. n = s * (n \div s) /\ m = s * (m \div s) /\ n \div s \in Nat /\ m \div s \in Nat
  OBVIOUS
<1>2. n \div s < m \div s
  <2>1. SUFFICES ASSUME m \div s <= n \div s PROVE FALSE
    BY <1>1
  <2>2. PICK d \in Nat : n \div s = (m \div s) + d
    <3>1. (n \div s) - (m \div s) \in Nat
      BY <1>1, <2>1
    <3>2. QED
      BY <1>1, <3>1
  <2>3. s * (n \div s) = s * (m \div s) + s * d /\ s * d \in Nat
    BY <1>1, <2>2
  <2>4. QED
    BY <1>1, <2>3
<1>3. PICK d \in Nat : m \div s = (n \div s) + 1 + d
  <2>1. (m \div s) - (n \div s) - 1 \in Nat
        /\ m \div s = (n \div s) + 1 + ((m \div s) - (n \div s) - 1)
    BY <1>1, <1>2
  <2>2. QED
    BY <2>1
<1>4. s * (m \div s) = s * (n \div s) + s + s * d /\ s * d \in Nat
  BY <1>1, <1>3
<1>5. QED
  BY <1>1, <1>4

LEMMA CurEnds ==
    FirstWord(window) = Start /\ EndWord(window, Cur) = End
  BY DEF FirstWord, EndWord, Start, End, LastWord, Base

LEMMA EndFacts ==
    ASSUME CallInv, phase <= Len(phases)
    PROVE  Start \in Nat /\ End \in Nat /\ Start <= End /\ SPIN_SIZE \in Nat \ {0} /\ Cur.up \in BOOLEAN
<1>1. Start \in Nat /\ LastWord \in Nat /\ Start + MODULO_N <= LastWord
  BY RangeOfWindow DEF CallInv
<1>2. QED
  BY <1>1, CurGood, MemTestsAssumption DEF End, GoodPhase

\* A block that begins at v ends at the first end there is behind v.
LEMMA BlockUp ==
    ASSUME CallInv, phase <= Len(phases), Cur.up,
           NEW v \in Start .. End, (v - Start) % SPIN_SIZE = 0
    PROVE  /\ BlockEnd(v) \in BlockEnds(window, Cur) /\ v <= BlockEnd(v)
           /\ \A b \in BlockEnds(window, Cur) : v <= b => BlockEnd(v) <= b
<1> DEFINE s == SPIN_SIZE
<1>1. Start \in Nat /\ End \in Nat /\ s \in Nat \ {0}
  BY EndFacts
<1>2. CASE Cur.kind \in {"walk", "sleep"}
  BY <1>1, <1>2, CurEnds DEF BlockEnd, BlockEnds
<1>3. CASE Cur.kind \notin {"walk", "sleep"}
  <2>1. BlockEnds(window, Cur) = {b \in Start .. End : b = End \/ (b - Start + 1) % s = 0}
    BY <1>3, CurEnds DEF BlockEnds
  <2>2. BlockEnd(v) = IF End - v >= s THEN v + s - 1 ELSE End
    BY <1>3 DEF BlockEnd
  <2> HIDE DEF s
  <2>3. v - Start \in Nat /\ (v - Start) % s = 0 /\ ((v - Start) + s) % s = 0
    <3>1. v - Start \in Nat /\ (v - Start) % s = 0
      BY <1>1 DEF s
    <3>2. QED
      BY <1>1, <3>1, NextMultiple
  <2>4. BlockEnd(v) \in BlockEnds(window, Cur) /\ v <= BlockEnd(v)
    <3>1. CASE End - v >= s
      <4>1. (v + s - 1) - Start + 1 = (v - Start) + s
        BY <1>1
      <4>2. v + s - 1 \in Start .. End /\ ((v + s - 1) - Start + 1) % s = 0
        BY <1>1, <2>3, <3>1, <4>1
      <4>3. QED
        BY <1>1, <2>1, <2>2, <3>1, <4>2
    <3>2. CASE ~(End - v >= s)
      BY <1>1, <2>1, <2>2, <3>2
    <3>3. QED
      BY <3>1, <3>2
  <2>5. ASSUME NEW b \in BlockEnds(window, Cur), v <= b
        PROVE  BlockEnd(v) <= b
    <3>1. b \in Start .. End /\ (b = End \/ (b - Start + 1) % s = 0)
      BY <2>1
    <3>2. CASE b = End
      BY <1>1, <2>2, <3>2
    <3>3. CASE b # End
      <4>1. b - Start + 1 \in Nat /\ v - Start < b - Start + 1
        BY <1>1, <2>5, <3>1
      <4>2. (v - Start) + s <= b - Start + 1
        BY <1>1, <2>3, <3>1, <3>3, <4>1, NoMultipleBetween
      <4>3. QED
        BY <1>1, <2>2, <3>1, <3>3, <4>2
    <3>4. QED
      BY <3>2, <3>3
  <2>6. QED
    BY <2>4, <2>5
<1>4. QED
  BY <1>2, <1>3

LEMMA BlockDown ==
    ASSUME CallInv, phase <= Len(phases), ~Cur.up,
           NEW v \in Start .. End, (End - v) % SPIN_SIZE = 0
    PROVE  /\ BlockEnd(v) \in BlockEnds(window, Cur) /\ BlockEnd(v) <= v
           /\ \A b \in BlockEnds(window, Cur) : b <= v => b <= BlockEnd(v)
<1> DEFINE s == SPIN_SIZE
<1>1. Start \in Nat /\ End \in Nat /\ s \in Nat \ {0}
  BY EndFacts
<1>2. Cur.kind \notin {"walk", "sleep"} /\ Cur.kind = "march"
  BY CurGood DEF GoodPhase
<1>3. BlockEnds(window, Cur) = {b \in Start .. End : b = Start \/ (End - b + 1) % s = 0}
  BY <1>2, CurEnds DEF BlockEnds
<1>4. BlockEnd(v) = IF v - Start >= s THEN v - (s - 1) ELSE Start
  BY <1>2 DEF BlockEnd
<1> HIDE DEF s
<1>5. End - v \in Nat /\ (End - v) % s = 0 /\ ((End - v) + s) % s = 0
  <2>1. End - v \in Nat /\ (End - v) % s = 0
    BY <1>1 DEF s
  <2>2. QED
    BY <1>1, <2>1, NextMultiple
<1>6. BlockEnd(v) \in BlockEnds(window, Cur) /\ BlockEnd(v) <= v
  <2>1. CASE v - Start >= s
    <3>1. End - (v - (s - 1)) + 1 = (End - v) + s
      BY <1>1
    <3>2. v - (s - 1) \in Start .. End /\ (End - (v - (s - 1)) + 1) % s = 0
      BY <1>1, <1>5, <2>1, <3>1
    <3>3. QED
      BY <1>1, <1>3, <1>4, <2>1, <3>2
  <2>2. CASE ~(v - Start >= s)
    BY <1>1, <1>3, <1>4, <2>2
  <2>3. QED
    BY <2>1, <2>2
<1>7. ASSUME NEW b \in BlockEnds(window, Cur), b <= v
      PROVE  b <= BlockEnd(v)
  <2>1. b \in Start .. End /\ (b = Start \/ (End - b + 1) % s = 0)
    BY <1>3
  <2>2. CASE b = Start
    BY <1>1, <1>4, <2>2
  <2>3. CASE b # Start
    <3>1. End - b + 1 \in Nat /\ End - v < End - b + 1
      BY <1>1, <1>7, <2>1
    <3>2. (End - v) + s <= End - b + 1
      BY <1>1, <1>5, <2>1, <2>3, <3>1, NoMultipleBetween
    <3>3. QED
      BY <1>1, <1>4, <2>1, <2>3, <3>2
  <2>4. QED
    BY <2>2, <2>3
<1>8. QED
  BY <1>6, <1>7

-----------------------------------------------------------------------------
(***************************************************************************)
(* Every tick has a name: the stage, window and phase, the block by its    *)
(* end, and how often the block is still gone through.  A plan is the      *)
(* phases but for their patterns, which the clock decides.                 *)
(***************************************************************************)
Plan(t, st) == Phases(t, st, <<>>)

Slumbers(t, w, ph) == t = 10 /\ ph.kind = "sleep" /\ w > 1

IsTick(t, n) ==
    LET plan == Plan(t, n.stage)
        ph   == plan[n.phase]
    IN  /\ n.phase \in 1 .. Len(plan)
        /\ n.pe \in BlockEnds(n.window, ph)
        /\ n.left \in 1 .. ph.repeat
        /\ ~Slumbers(t, n.window, ph)

Ticks(t) ==
    {n \in [stage : 0 .. Stages(t) - 1, window : Windows, phase : Nat, pe : Nat, left : Nat] :
        IsTick(t, n)}

NowTick == [stage |-> stage, window |-> window, phase |-> phase, pe |-> pe, left |-> left]

\* The ticks of the phases before this one; those before the block's.
Past(n) ==
    \/ n.stage < stage
    \/ n.stage = stage /\ n.window < window
    \/ n.stage = stage /\ n.window = window /\ n.phase < phase

Gone(n) ==
    /\ n.stage = stage /\ n.window = window /\ n.phase = phase
    /\ \/ IF Cur.up THEN n.pe < pe ELSE n.pe > pe
       \/ n.pe = pe /\ n.left > left

\* The dummy run counts a tick before do_tick, the real run after it.
Made ==
    {n \in Ticks(test) : \/ Past(n)
                         \/ pc \in {"words", "tick"} /\ Gone(n)
                         \/ pc = "tick" /\ my_cpu = -1 /\ n = NowTick}

PlanInv == Alike(phases, Plan(test, stage))

\* The static last_stage lets the phase with the sleep go on in the first window.
SleepInv == IF test = 10 THEN last_stage = stage <=> window > 1 ELSE last_stage = -1

BlockInv ==
    pc \in {"words", "tick"} =>
        /\ pe \in BlockEnds(window, Cur)
        /\ left \in 1 .. Cur.repeat
        /\ ~Slumbers(test, window, Cur)

CountInv ==
    /\ my_cpu = -1 => /\ ticks = 0 /\ pc \in {"call", "tick"}
                      /\ IsFiniteSet(Made) /\ estimate = Cardinality(Made)
    /\ my_cpu = 0 => /\ pc \in {"call", "words", "tick", "done", "bailed"}
                     /\ IsFiniteSet(Ticks(test)) /\ estimate = Cardinality(Ticks(test))
                     /\ pc \in {"call", "words", "tick"} => ticks = Cardinality(Made)
                     /\ pc = "bailed" => ticks <= estimate
                     /\ pc = "done" => ticks = estimate

-----------------------------------------------------------------------------
\* The phase that goes on is, but for its patterns, that of the plan.
LEMMA Planned ==
    ASSUME CallInv, PlanInv
    PROVE  /\ Len(phases) = Len(Plan(test, stage))
           /\ phase <= Len(phases) =>
                LET ph == Plan(test, stage)[phase]
                IN  /\ ph.kind = Cur.kind /\ ph.up = Cur.up /\ ph.repeat = Cur.repeat
                    /\ BlockEnds(window, ph) = BlockEnds(window, Cur)
                    /\ Slumbers(test, window, ph) = Slumbers(test, window, Cur)
<1>1. Len(phases) = Len(Plan(test, stage))
  BY DEF PlanInv, Alike
<1>2. CASE phase <= Len(phases)
  <2> DEFINE ph == Plan(test, stage)[phase]
  <2>1. phase \in 1 .. Len(phases)
    <3>1. PICK S : phases \in Seq(S)
      BY DEF CallInv, Listed
    <3>2. QED
      BY <1>2, <3>1, LenProperties DEF CallInv
  <2>2. Shape(Cur) = Shape(ph)
    BY <2>1 DEF PlanInv, Alike, Cur
  <2>3. ph.kind = Cur.kind /\ ph.up = Cur.up /\ ph.repeat = Cur.repeat
    BY <2>2 DEF Shape
  <2> HIDE DEF ph
  <2>4. BlockEnds(window, ph) = BlockEnds(window, Cur)
    BY <2>3 DEF BlockEnds, EndWord
  <2>5. Slumbers(test, window, ph) = Slumbers(test, window, Cur)
    BY <2>3 DEF Slumbers
  <2>6. QED
    BY <1>1, <2>3, <2>4, <2>5 DEF ph
<1>3. QED
  BY <1>1, <1>2

\* The ticks of the phase that goes on.
LEMMA TicksHere ==
    ASSUME CallInv, PlanInv, phase <= Len(phases),
           NEW n \in Ticks(test), n.stage = stage, n.window = window, n.phase = phase
    PROVE  /\ n.pe \in BlockEnds(window, Cur) /\ n.pe \in Nat
           /\ n.left \in 1 .. Cur.repeat /\ n.left \in Nat
           /\ ~Slumbers(test, window, Cur)
  BY Planned DEF Ticks, IsTick

LEMMA TickFields ==
    ASSUME CallInv, NEW n \in Ticks(test)
    PROVE  /\ n.stage \in Nat /\ n.window \in Nat /\ n.phase \in Nat \ {0}
           /\ n.pe \in Nat /\ n.left \in Nat
           /\ n.stage < Stages(test) /\ n.window <= Len(Segments) /\ n.window >= 1
           /\ n = [stage |-> n.stage, window |-> n.window, phase |-> n.phase,
                   pe |-> n.pe, left |-> n.left]
<1>1. Stages(test) \in 1 .. 6 /\ Len(Segments) \in Nat
  BY StagesOf, MemTestsAssumption DEF CallInv
<1>2. n \in [stage : 0 .. Stages(test) - 1, window : Windows, phase : Nat, pe : Nat, left : Nat]
      /\ IsTick(test, n)
  BY DEF Ticks
<1>3. QED
  BY <1>1, <1>2 DEF IsTick, Windows

\* The last tick of a window's call comes before its phases are over.
LEMMA TicksInCall ==
    ASSUME CallInv, PlanInv, NEW n \in Ticks(test), n.stage = stage, n.window = window
    PROVE  n.phase <= Len(phases)
<1>1. n.phase \in 1 .. Len(Plan(test, stage))
  BY DEF Ticks, IsTick
<1>2. QED
  BY <1>1, Planned

LEMMA NowIsTick ==
    ASSUME CallInv, PlanInv, BlockInv, pc \in {"words", "tick"}
    PROVE  NowTick \in Ticks(test)
<1>1. phase <= Len(phases) /\ phase \in Nat \ {0} /\ Len(phases) = Len(Plan(test, stage))
  BY Planned DEF CallInv
<1>2. /\ pe \in BlockEnds(window, Plan(test, stage)[phase])
      /\ left \in 1 .. Plan(test, stage)[phase].repeat
      /\ ~Slumbers(test, window, Plan(test, stage)[phase])
  BY <1>1, Planned DEF BlockInv
<1>3. pe \in Nat /\ left \in Nat
  <2>1. pe \in Start .. End /\ Start \in Nat /\ End \in Nat
    BY <1>1, CurEnds, EndFacts DEF BlockInv, BlockEnds
  <2>2. GoodPhase(Cur)
    BY <1>1, CurGood
  <2>3. QED
    BY <2>1, <2>2 DEF BlockInv, GoodPhase
<1>4. phase \in 1 .. Len(Plan(test, stage))
  <2>1. PICK S : phases \in Seq(S)
    BY DEF CallInv, Listed
  <2>2. Len(phases) \in Nat
    BY <2>1, LenProperties
  <2>3. QED
    BY <1>1, <2>2
<1> DEFINE n == NowTick
<1>5. /\ n.stage = stage /\ n.window = window /\ n.phase = phase /\ n.pe = pe /\ n.left = left
      /\ n \in [stage : 0 .. Stages(test) - 1, window : Windows, phase : Nat, pe : Nat, left : Nat]
  BY <1>1, <1>3 DEF NowTick, CallInv
<1> HIDE DEF n
<1>6. IsTick(test, n)
  BY <1>2, <1>4, <1>5 DEF IsTick
<1>7. QED
  BY <1>5, <1>6 DEF Ticks, n

-----------------------------------------------------------------------------
(***************************************************************************)
(* A phase goes from block to block; what it has gone through is what it   *)
(* has counted.                                                            *)
(***************************************************************************)
WordStep == \/ Word \/ PairWord \/ BlockWords \/ MoveUp \/ MoveDown \/ Sleep
            \/ WalkFirst \/ WalkSecond

LEMMA WordStepKeeps ==
    ASSUME WordStep
    PROVE  /\ UNCHANGED <<test, my_cpu, stage, window, phases, phase, pe, left, last_stage,
                          estimate, ticks>>
           /\ pc = "words" /\ pc' \in {"words", "tick"}
<1> USE DEF callVars, blockVars
<1>1. CASE Word \/ PairWord \/ BlockWords
  <2>1. ToNextWord /\ pc = "words"
    BY <1>1 DEF Word, PairWord, BlockWords
  <2>2. QED
    BY <2>1, Zenon DEF ToNextWord
<1>2. CASE MoveUp \/ MoveDown \/ Sleep
  BY <1>2 DEF MoveUp, MoveDown, Sleep
<1>3. CASE WalkFirst
  BY <1>3 DEF WalkFirst
<1>4. CASE WalkSecond
  BY <1>4 DEF WalkSecond
<1>5. QED
  BY <1>1, <1>2, <1>3, <1>4 DEF WordStep

LEMMA CallsPlanned ==
    \A call \in Calls : Alike(call.phases, Plan(call.test, call.stage))
<1> SUFFICES ASSUME NEW call \in Calls
             PROVE  Alike(call.phases, Plan(call.test, call.stage))
  OBVIOUS
<1>1. PICK t \in Tests : \E st \in 0 .. Stages(t) - 1, r \in Readings(t) :
        call = [test |-> t, stage |-> st, phases |-> Phases(t, st, r)]
  BY DEF Calls
<1>2. PICK st \in 0 .. Stages(t) - 1, r \in Readings(t) :
        call = [test |-> t, stage |-> st, phases |-> Phases(t, st, r)]
  BY <1>1
<1>3. QED
  BY <1>2, PhasesAlike DEF Plan

LEMMA NextPlanInv == CallInv /\ PlanInv /\ [Next]_vars => PlanInv'
<1> SUFFICES ASSUME CallInv, PlanInv, [Next]_vars PROVE PlanInv'
  OBVIOUS
<1>1. CASE EndCall
  <2>1. PICK call \in Calls : call.test = test /\ call.stage = stage' /\ phases' = call.phases
    BY <1>1 DEF EndCall
  <2>2. test' = test
    BY <1>1 DEF EndCall
  <2>3. QED
    BY <2>1, <2>2, CallsPlanned DEF PlanInv
<1>2. CASE UNCHANGED <<phases, test, stage>>
  BY <1>2 DEF PlanInv
<1>3. QED
  BY <1>1, <1>2, WordStepKeeps
     DEF Next, Run, Over, WordStep, vars, callVars, BeginPhase, SkipSleep, EndBlock

LEMMA EndCallMoves ==
    ASSUME CallInv, EndCall
    PROVE  /\ pc = "call" /\ phase > Len(phases) /\ phase' = 1 /\ test' = test
           /\ last_stage' = IF test = 10 THEN stage ELSE last_stage
           /\ UNCHANGED <<estimate, ticks>>
           /\ \/ /\ window < Len(Segments)
                 /\ window' = window + 1 /\ UNCHANGED <<pc, stage, my_cpu>>
              \/ /\ window = Len(Segments) /\ stage + 1 < Stages(test)
                 /\ window' = 1 /\ stage' = stage + 1 /\ UNCHANGED <<pc, my_cpu>>
              \/ /\ window = Len(Segments) /\ stage + 1 = Stages(test)
                 /\ window' = 1 /\ stage' = 0
                 /\ \/ my_cpu = -1 /\ my_cpu' = 0 /\ UNCHANGED pc
                    \/ my_cpu = 0 /\ pc' = "done" /\ UNCHANGED my_cpu
  BY DEF EndCall, CallInv

LEMMA NextSleepInv == CallInv /\ SleepInv /\ [Next]_vars => SleepInv'
<1> SUFFICES ASSUME CallInv, SleepInv, [Next]_vars PROVE SleepInv'
  OBVIOUS
<1>1. CASE EndCall
  <2>1. window \in Nat \ {0} /\ stage \in Nat /\ Len(Segments) \in Nat
    BY MemTestsAssumption DEF CallInv, Windows
  <2>2. CASE test = 10
    <3>1. Stages(test) = 6
      <4>1. 10 # 2
        OBVIOUS
      <4>2. QED
        BY <2>2, <4>1, Zenon DEF Stages
    <3>2. QED
      BY <1>1, <2>1, <2>2, <3>1, EndCallMoves DEF SleepInv
  <2>3. CASE test # 10
    BY <1>1, <2>3, EndCallMoves DEF SleepInv
  <2>4. QED
    BY <2>2, <2>3
<1>2. CASE UNCHANGED <<test, stage, window, last_stage>>
  BY <1>2 DEF SleepInv
<1>3. QED
  BY <1>1, <1>2, WordStepKeeps
     DEF Next, Run, Over, WordStep, vars, callVars, BeginPhase, SkipSleep, EndBlock

LEMMA SleptSlumbers ==
    ASSUME CallInv, SleepInv, phase <= Len(phases)
    PROVE  Slumbers(test, window, Cur) => Slept
  BY DEF SleepInv, Slumbers, Slept

LEMMA SleepSlept ==
    ASSUME CallInv, SleepInv, phase <= Len(phases), Slept
    PROVE  Slumbers(test, window, Cur)
<1>1. stage \in Nat
  BY DEF CallInv
<1>2. QED
  BY <1>1 DEF SleepInv, Slumbers, Slept

(***************************************************************************)
(* The first block of a phase.                                             *)
(***************************************************************************)
LEMMA FirstBlock ==
    ASSUME CallInv, PlanInv, SleepInv, BeginPhase
    PROVE  /\ UNCHANGED <<test, my_cpu, stage, window, phases, phase, ticks>>
           /\ pc = "call" /\ pc' = IF my_cpu < 0 THEN "tick" ELSE "words"
           /\ estimate' = IF my_cpu < 0 THEN estimate + 1 ELSE estimate
           /\ BlockInv'
           /\ \A n \in Ticks(test) : ~Gone(n)' /\ Past(n)' = Past(n)
<1> DEFINE v == IF Cur.up THEN Start ELSE End
<1>1. /\ phase <= Len(phases) /\ ~Slept
      /\ UNCHANGED <<test, my_cpu, stage, window, phases, phase, ticks>>
      /\ pc = "call" /\ pc' = IF my_cpu < 0 THEN "tick" ELSE "words"
      /\ estimate' = IF my_cpu < 0 THEN estimate + 1 ELSE estimate
      /\ pe' = BlockEnd(v) /\ left' = Cur.repeat
  BY DEF BeginPhase, Enter, callVars
<1>2. Cur' = Cur /\ test' = test /\ window' = window
  BY <1>1, Frame
<1>3. GoodPhase(Cur) /\ ~Slumbers(test, window, Cur)
  BY <1>1, CurGood, SleptSlumbers
<1>4. Start \in Nat /\ End \in Nat /\ Start <= End /\ SPIN_SIZE \in Nat \ {0} /\ 0 % SPIN_SIZE = 0
  BY <1>1, EndFacts
<1>5. /\ v \in Start .. End
      /\ Cur.up => v = Start /\ (v - Start) % SPIN_SIZE = 0
      /\ ~Cur.up => v = End /\ (End - v) % SPIN_SIZE = 0
  BY <1>3, <1>4 DEF GoodPhase
<1> HIDE DEF v
<1>6. /\ pe' \in BlockEnds(window, Cur)
      /\ \A b \in BlockEnds(window, Cur) : IF Cur.up THEN pe' <= b ELSE b <= pe'
  <2>1. \A b \in BlockEnds(window, Cur) : b \in Start .. End
    BY CurEnds DEF BlockEnds
  <2>2. CASE Cur.up
    BY <1>1, <1>4, <1>5, <2>1, <2>2, BlockUp
  <2>3. CASE ~Cur.up
    BY <1>1, <1>4, <1>5, <2>1, <2>3, BlockDown
  <2>4. QED
    BY <2>2, <2>3
<1>7. pe' \in Nat
  BY <1>4, <1>6, CurEnds DEF BlockEnds
<1>8. left' \in 1 .. Cur.repeat
  BY <1>1, <1>3 DEF GoodPhase
<1>9. BlockInv'
  BY <1>2, <1>3, <1>6, <1>8 DEF BlockInv
<1>10. ASSUME NEW n \in Ticks(test) PROVE ~Gone(n)' /\ Past(n)' = Past(n)
  <2>1. Past(n)' = Past(n)
    BY <1>1 DEF Past
  <2>2. SUFFICES ASSUME n.stage = stage, n.window = window, n.phase = phase
                 PROVE  ~Gone(n)'
    BY <1>1, <2>1 DEF Gone
  <2>3. n.pe \in BlockEnds(window, Cur) /\ n.pe \in Nat /\ n.left \in 1 .. Cur.repeat
    BY <1>1, <2>2, TicksHere
  <2>4. Cur.repeat \in Nat /\ Cur.up \in BOOLEAN
    BY <1>3 DEF GoodPhase
  <2>5. QED
    BY <1>1, <1>2, <1>6, <1>7, <2>3, <2>4 DEF Gone
<1>11. QED
  BY <1>1, <1>9, <1>10

(***************************************************************************)
(* The end of a block: the block is done, and nothing behind it.           *)
(***************************************************************************)
LEMMA BlockOver ==
    ASSUME CallInv, PlanInv, BlockInv, EndBlock, ~bail'
    PROVE  /\ UNCHANGED <<test, my_cpu, stage, window, phases, last_stage>>
           /\ BlockInv'
           /\ \A n \in Ticks(test) :
                (Past(n)' \/ (pc' \in {"words", "tick"} /\ Gone(n)'))
                    <=> (Past(n) \/ Gone(n) \/ n = NowTick)
<1>1. /\ UNCHANGED <<test, my_cpu, stage, window, phases, last_stage>>
      /\ pc = "tick" /\ phase <= Len(phases) /\ phase \in Nat \ {0}
  BY DEF EndBlock, callVars, CallInv
<1>2. /\ pe \in BlockEnds(window, Cur) /\ left \in 1 .. Cur.repeat
      /\ ~Slumbers(test, window, Cur)
  BY <1>1 DEF BlockInv
<1>3. GoodPhase(Cur) /\ Cur.repeat \in Nat \ {0} /\ Cur.up \in BOOLEAN /\ left \in Nat
  BY <1>1, <1>2, CurGood DEF GoodPhase
<1>4. Start \in Nat /\ End \in Nat /\ Start <= End /\ SPIN_SIZE \in Nat \ {0}
  BY <1>1, EndFacts
<1>5. \A b \in BlockEnds(window, Cur) : b \in Start .. End /\ b \in Nat
  BY <1>4, CurEnds DEF BlockEnds
<1> DEFINE Here(n) == n.stage = stage /\ n.window = window /\ n.phase = phase
<1>6. \A n \in Ticks(test) :
        /\ n.phase \in Nat /\ n.window \in Nat /\ n.stage \in Nat
        /\ (n = NowTick) <=> (Here(n) /\ n.pe = pe /\ n.left = left)
        /\ Here(n) => n.pe \in BlockEnds(window, Cur) /\ n.left \in 1 .. Cur.repeat
  BY <1>1, TicksHere, TickFields DEF NowTick
<1> HIDE DEF Here
<1>7. \A n : /\ Gone(n) <=> /\ Here(n)
                            /\ \/ IF Cur.up THEN n.pe < pe ELSE n.pe > pe
                               \/ n.pe = pe /\ n.left > left
             /\ Here(n) <=> n.stage = stage /\ n.window = window /\ n.phase = phase
  BY DEF Gone, Here
<1>8. CASE left > 1 /\ left' = left - 1 /\ UNCHANGED <<phase, pe>> /\ pc' \in {"words", "tick"}
  <2>1. Cur' = Cur
    BY <1>1, <1>8, Frame
  <2>2. BlockInv'
    BY <1>1, <1>2, <1>3, <1>8, <2>1 DEF BlockInv
  <2>3. ASSUME NEW n \in Ticks(test)
        PROVE  (Past(n)' <=> Past(n)) /\ (Gone(n)' <=> Gone(n) \/ n = NowTick)
    <3>1. Past(n)' <=> Past(n)
      BY <1>1, <1>8 DEF Past
    <3>2. Gone(n)' <=> /\ Here(n)
                       /\ \/ IF Cur.up THEN n.pe < pe ELSE n.pe > pe
                          \/ n.pe = pe /\ n.left > left - 1
      BY <1>1, <1>7, <1>8, <2>1 DEF Gone
    <3>3. Here(n) => n.left \in Nat
      BY <1>3, <1>6
    <3>4. QED
      BY <1>3, <1>6, <1>7, <3>1, <3>2, <3>3
  <2>4. QED
    BY <1>1, <1>8, <2>2, <2>3
<1>9. CASE /\ left = 1 /\ ~AtEnd /\ UNCHANGED phase /\ left' = Cur.repeat
           /\ pc' \in {"words", "tick"}
           /\ pe' = BlockEnd(IF Cur.up THEN pe + 1 ELSE pe - 1)
  <2>1. Cur' = Cur
    BY <1>1, <1>9, Frame
  <2>2. Cur.kind \notin {"walk", "sleep"}
    BY <1>2, <1>3, <1>9, CurEnds DEF AtEnd, BlockEnds, GoodPhase
  <2>3. /\ pe' \in BlockEnds(window, Cur)
        /\ IF Cur.up THEN pe < pe' ELSE pe' < pe
        /\ \A b \in BlockEnds(window, Cur) : IF Cur.up THEN pe < b => pe' <= b
                                                       ELSE b < pe => b <= pe'
    <3>1. CASE Cur.up
      <4>1. (pe - Start + 1) % SPIN_SIZE = 0 /\ pe # End
        BY <1>2, <1>9, <2>2, <3>1, CurEnds DEF AtEnd, BlockEnds
      <4>2. pe + 1 \in Start .. End /\ (pe + 1) - Start = pe - Start + 1 /\ pe \in Nat
        BY <1>2, <1>4, <1>5, <4>1
      <4>3. /\ BlockEnd(pe + 1) \in BlockEnds(window, Cur) /\ pe + 1 <= BlockEnd(pe + 1)
            /\ \A b \in BlockEnds(window, Cur) : pe + 1 <= b => BlockEnd(pe + 1) <= b
        BY <1>1, <3>1, <4>1, <4>2, BlockUp
      <4>4. QED
        BY <1>5, <1>9, <3>1, <4>2, <4>3
    <3>2. CASE ~Cur.up
      <4>1. (End - pe + 1) % SPIN_SIZE = 0 /\ pe # Start
        BY <1>2, <1>9, <2>2, <3>2, CurEnds DEF AtEnd, BlockEnds
      <4>0. pe \in Start .. End
        BY <1>2, <1>5
      <4>2. pe - 1 \in Start .. End /\ End - (pe - 1) = End - pe + 1 /\ pe \in Nat
        BY <1>4, <4>0, <4>1
      <4>3. /\ BlockEnd(pe - 1) \in BlockEnds(window, Cur) /\ BlockEnd(pe - 1) <= pe - 1
            /\ \A b \in BlockEnds(window, Cur) : b <= pe - 1 => b <= BlockEnd(pe - 1)
        BY <1>1, <3>2, <4>1, <4>2, BlockDown
      <4>4. QED
        BY <1>5, <1>9, <3>2, <4>2, <4>3
    <3>3. QED
      BY <3>1, <3>2
  <2>4. BlockInv'
    BY <1>1, <1>2, <1>3, <1>9, <2>1, <2>3 DEF BlockInv
  <2>5. ASSUME NEW n \in Ticks(test)
        PROVE  (Past(n)' <=> Past(n)) /\ (Gone(n)' <=> Gone(n) \/ n = NowTick)
    <3>1. Past(n)' <=> Past(n)
      BY <1>1, <1>9 DEF Past
    <3>2. Gone(n)' <=> /\ Here(n)
                       /\ \/ IF Cur.up THEN n.pe < pe' ELSE n.pe > pe'
                          \/ n.pe = pe' /\ n.left > Cur.repeat
      BY <1>1, <1>7, <1>9, <2>1 DEF Gone
    <3>3. CASE Here(n)
      <4>1. n.pe \in BlockEnds(window, Cur) /\ n.left \in 1 .. Cur.repeat /\ n.pe \in Nat
            /\ pe \in Nat /\ pe' \in Nat
        BY <1>2, <1>5, <1>6, <2>3, <3>3
      <4>2. ~(n.left > Cur.repeat)
        BY <1>3, <4>1
      <4>3. Gone(n)' <=> IF Cur.up THEN n.pe <= pe ELSE n.pe >= pe
        BY <1>3, <2>3, <3>2, <3>3, <4>1, <4>2
      <4>4. (Gone(n) \/ n = NowTick) <=> IF Cur.up THEN n.pe <= pe ELSE n.pe >= pe
        BY <1>3, <1>6, <1>7, <1>9, <3>3, <4>1
      <4>5. QED
        BY <3>1, <4>3, <4>4
    <3>4. CASE ~Here(n)
      BY <1>6, <1>7, <3>1, <3>2, <3>4
    <3>5. QED
      BY <3>3, <3>4
  <2>6. QED
    BY <1>1, <1>9, <2>4, <2>5
<1>10. CASE left = 1 /\ AtEnd /\ phase' = phase + 1 /\ pc' = "call"
  <2>1. BlockInv'
    BY <1>10 DEF BlockInv
  <2>2. ASSUME NEW n \in Ticks(test)
        PROVE  Past(n)' <=> (Past(n) \/ Gone(n) \/ n = NowTick)
    <3>1. Past(n)' <=> (Past(n) \/ Here(n))
      BY <1>1, <1>6, <1>7, <1>10 DEF Past
    <3>2. Here(n) => Gone(n) \/ n = NowTick
      <4>1. SUFFICES ASSUME Here(n) PROVE Gone(n) \/ n = NowTick
        OBVIOUS
      <4>2. n.pe \in Start .. End /\ n.left \in 1 .. Cur.repeat
        BY <1>5, <1>6, <4>1
      <4>3. IF Cur.up THEN n.pe <= pe ELSE n.pe >= pe
        BY <1>3, <1>4, <1>10, <4>2 DEF AtEnd
      <4>4. QED
        BY <1>2, <1>3, <1>4, <1>5, <1>6, <1>7, <1>10, <4>1, <4>2, <4>3
    <3>3. QED
      BY <1>6, <1>7, <3>1, <3>2
  <2>3. QED
    BY <1>1, <1>10, <2>1, <2>2
<1>11. QED
  BY <1>8, <1>9, <1>10 DEF EndBlock, Enter

(***************************************************************************)
(* The end of a call: a window is done, and after the last one of the last *)
(* stage, every tick there is.                                             *)
(***************************************************************************)
LEMMA CallOver ==
    ASSUME CallInv, PlanInv, EndCall
    PROVE  /\ stage' # 0 \/ window' # 1 =>
                /\ UNCHANGED <<pc, my_cpu>>
                /\ \A n \in Ticks(test) : Past(n)' <=> Past(n)
           /\ stage' = 0 /\ window' = 1 =>
                /\ \A n \in Ticks(test) : Past(n) /\ ~Past(n)'
                /\ \/ my_cpu = -1 /\ my_cpu' = 0 /\ UNCHANGED pc
                   \/ my_cpu = 0 /\ pc' = "done" /\ UNCHANGED my_cpu
<1>1. /\ window \in Nat \ {0} /\ window <= Len(Segments) /\ Len(Segments) \in Nat
      /\ stage \in Nat /\ Stages(test) \in Nat /\ stage < Stages(test)
      /\ Len(phases) \in Nat /\ phase \in Nat /\ phase > Len(phases)
  <2>1. PICK S : phases \in Seq(S)
    BY DEF CallInv, Listed
  <2>2. Len(phases) \in Nat /\ phase \in Nat /\ phase > Len(phases)
    BY <2>1, LenProperties, EndCallMoves DEF CallInv
  <2>3. /\ window \in 1 .. Len(Segments) /\ Len(Segments) \in Nat \ {0}
        /\ Stages(test) \in 1 .. 6 /\ stage \in 0 .. Stages(test) - 1
    BY MemTestsAssumption, StagesOf DEF CallInv, Windows
  <2>4. QED
    BY <2>2, <2>3
<1>2. \A n \in Ticks(test) :
        /\ n.stage \in Nat /\ n.stage < Stages(test)
        /\ n.window \in Nat /\ n.window >= 1 /\ n.window <= Len(Segments)
        /\ n.phase \in Nat /\ n.phase >= 1
        /\ n.stage = stage /\ n.window = window => n.phase <= Len(phases)
  BY <1>1, TickFields, TicksInCall
<1>3. phase' = 1
  BY EndCallMoves
<1>4. CASE window < Len(Segments) /\ window' = window + 1 /\ UNCHANGED <<pc, stage, my_cpu>>
  BY <1>1, <1>2, <1>3, <1>4 DEF Past
<1>5. CASE /\ window = Len(Segments) /\ stage + 1 < Stages(test)
           /\ window' = 1 /\ stage' = stage + 1 /\ UNCHANGED <<pc, my_cpu>>
  BY <1>1, <1>2, <1>3, <1>5 DEF Past
<1>6. CASE /\ window = Len(Segments) /\ stage + 1 = Stages(test)
           /\ window' = 1 /\ stage' = 0
           /\ \/ my_cpu = -1 /\ my_cpu' = 0 /\ UNCHANGED pc
              \/ my_cpu = 0 /\ pc' = "done" /\ UNCHANGED my_cpu
  <2>1. \A n \in Ticks(test) : Past(n) /\ ~Past(n)'
    BY <1>1, <1>2, <1>3, <1>6 DEF Past
  <2>2. QED
    BY <1>6, <2>1
<1>7. QED
  BY <1>4, <1>5, <1>6, EndCallMoves

-----------------------------------------------------------------------------
LEMMA NextBlockInv == CallInv /\ PlanInv /\ SleepInv /\ BlockInv /\ [Next]_vars => BlockInv'
<1> SUFFICES ASSUME CallInv, PlanInv, SleepInv, BlockInv, [Next]_vars PROVE BlockInv'
  OBVIOUS
<1>1. CASE BeginPhase
  BY <1>1, FirstBlock
<1>2. CASE SkipSleep \/ EndCall
  <2>1. pc' \notin {"words", "tick"}
    BY <1>2, EndCallMoves DEF SkipSleep
  <2>2. QED
    BY <2>1 DEF BlockInv
<1>3. CASE WordStep \/ UNCHANGED vars
  <2>1. /\ UNCHANGED <<test, window, phases, phase, pe, left>>
        /\ pc' \in {"words", "tick"} => pc \in {"words", "tick"}
    BY <1>3, WordStepKeeps DEF vars, callVars, blockVars
  <2>2. Cur' = Cur
    BY <2>1, Frame
  <2>3. QED
    BY <2>1, <2>2 DEF BlockInv
<1>4. CASE EndBlock
  <2>1. CASE bail'
    <3>1. pc' = "bailed"
      BY <1>4, <2>1 DEF EndBlock
    <3>2. QED
      BY <3>1 DEF BlockInv
  <2>2. QED
    BY <1>4, <2>1, BlockOver
<1>5. QED
  BY <1>1, <1>2, <1>3, <1>4 DEF Next, Run, Over, WordStep

PlaceInv == CallInv /\ PlanInv /\ SleepInv /\ BlockInv


LEMMA NextPlaceInv == PlaceInv /\ [Next]_vars => PlaceInv'
  BY NextCallInv, NextPlanInv, NextSleepInv, NextBlockInv DEF PlaceInv

\* A tick that is made now was not made before.
LEMMA NewTick ==
    ASSUME CallInv, NowTick \in Ticks(test)
    PROVE  ~Past(NowTick) /\ ~Gone(NowTick)
<1> DEFINE n == NowTick
<1>1. n.stage = stage /\ n.window = window /\ n.phase = phase /\ n.pe = pe /\ n.left = left
  BY DEF NowTick
<1>2. n.stage \in Nat /\ n.window \in Nat /\ n.phase \in Nat /\ n.pe \in Nat /\ n.left \in Nat
  BY TickFields
<1> HIDE DEF n
<1>3. ~Past(n) /\ ~Gone(n)
  BY <1>1, <1>2 DEF Past, Gone
<1>4. QED
  BY <1>3 DEF n

LEMMA NowPlanned ==
    PlaceInv => (pc \in {"words", "tick"} =>
                    NowTick \in Ticks(test) /\ ~Past(NowTick) /\ ~Gone(NowTick))
  BY NowIsTick, NewTick DEF PlaceInv

LEMMA CountsBegin ==
    ASSUME PlaceInv, PlaceInv', CountInv, BeginPhase
    PROVE  CountInv'
<1>1. /\ UNCHANGED <<test, my_cpu, stage, window, phases, phase, ticks>>
      /\ pc = "call" /\ pc' = IF my_cpu < 0 THEN "tick" ELSE "words"
      /\ estimate' = IF my_cpu < 0 THEN estimate + 1 ELSE estimate
      /\ \A n \in Ticks(test) : ~Gone(n)' /\ Past(n)' = Past(n)
  BY FirstBlock DEF PlaceInv
<1>2. Made = {n \in Ticks(test) : Past(n)}
  BY <1>1 DEF Made
<1>3. CASE my_cpu = -1
  <2>1. NowTick' \in Ticks(test) /\ pc' = "tick" /\ my_cpu' = -1
    <3>1. (PlaceInv => (pc \in {"words", "tick"} =>
              NowTick \in Ticks(test) /\ ~Past(NowTick) /\ ~Gone(NowTick)))'
      BY NowPlanned, PTL
    <3>2. QED
      BY <1>1, <1>3, <3>1
  <2>2. Made' = {n \in Ticks(test) : Past(n) \/ n = NowTick'}
    BY <1>1, <2>1 DEF Made
  <2>3. Made' = Made \cup {NowTick'}
    BY <1>2, <2>1, <2>2
  <2>4. NowTick' \notin Made
    <3>1. (NowTick').stage = stage /\ (NowTick').window = window /\ (NowTick').phase = phase
      BY <1>1 DEF NowTick
    <3>2. ~Past(NowTick')
      BY <3>1 DEF Past, PlaceInv, CallInv, Windows
    <3>3. QED
      BY <1>2, <3>2
  <2>5. IsFiniteSet(Made) /\ estimate = Cardinality(Made)
    BY <1>3 DEF CountInv
  <2> HIDE DEF Made
  <2>6. IsFiniteSet(Made') /\ Cardinality(Made') = Cardinality(Made) + 1
    BY <2>3, <2>4, <2>5, FS_AddElement
  <2>7. estimate' = Cardinality(Made')
    BY <1>1, <1>3, <2>5, <2>6
  <2>8. QED
    BY <1>1, <1>3, <2>1, <2>6, <2>7 DEF CountInv
<1>4. CASE my_cpu = 0
  <2>1. Made' = Made
    BY <1>1, <1>2, <1>4 DEF Made
  <2>2. QED
    BY <1>1, <1>4, <2>1 DEF CountInv
<1>5. QED
  BY <1>3, <1>4 DEF PlaceInv, CallInv

\* No tick is counted where nothing sleeps.
LEMMA CountsSkip ==
    ASSUME PlaceInv, CountInv, SkipSleep
    PROVE  CountInv'
<1>1. /\ UNCHANGED <<test, my_cpu, stage, window, phases, ticks, estimate, pc>>
      /\ pc = "call" /\ phase <= Len(phases) /\ Slept /\ phase' = phase + 1
  BY DEF SkipSleep, callVars
<1>2. Slumbers(test, window, Cur)
  BY <1>1, SleepSlept DEF PlaceInv
<1>3. \A n \in Ticks(test) : Past(n)' <=> Past(n)
  <2> SUFFICES ASSUME NEW n \in Ticks(test) PROVE Past(n)' <=> Past(n)
    OBVIOUS
  <2>1. ~(n.stage = stage /\ n.window = window /\ n.phase = phase)
    BY <1>1, <1>2, TicksHere DEF PlaceInv
  <2>2. n.phase \in Nat /\ phase \in Nat
    BY TickFields DEF PlaceInv, CallInv
  <2>3. QED
    BY <1>1, <2>1, <2>2 DEF Past
<1>4. Made' = Made
  BY <1>1, <1>3 DEF Made
<1>5. QED
  BY <1>1, <1>4 DEF CountInv

LEMMA CountsWords ==
    ASSUME PlaceInv, CountInv, WordStep
    PROVE  CountInv'
<1>1. /\ UNCHANGED <<test, my_cpu, stage, window, phases, phase, pe, left, estimate, ticks>>
      /\ pc = "words" /\ pc' \in {"words", "tick"} /\ my_cpu = 0
  BY WordStepKeeps DEF PlaceInv, CallInv
<1>2. \A n : (Past(n)' <=> Past(n)) /\ (Gone(n)' <=> Gone(n))
  BY <1>1, Frame DEF Past, Gone
<1>3. Made' = Made
  BY <1>1, <1>2 DEF Made
<1>4. QED
  BY <1>1, <1>3 DEF CountInv

LEMMA CountsBlock ==
    ASSUME PlaceInv, PlaceInv', CountInv, EndBlock
    PROVE  CountInv'
<1>1. /\ UNCHANGED <<test, my_cpu>> /\ pc = "tick" /\ my_cpu \in {-1, 0}
      /\ ticks' = IF my_cpu < 0 THEN ticks ELSE ticks + 1
      /\ NowTick \in Ticks(test) /\ ~Past(NowTick) /\ ~Gone(NowTick)
  BY NowPlanned DEF EndBlock, callVars, PlaceInv, CallInv
<1> DEFINE Done == {n \in Ticks(test) : Past(n) \/ Gone(n) \/ n = NowTick}
<1>2. CASE bail'
  <2>1. pc' = "bailed" /\ my_cpu = 0 /\ estimate' = estimate
    <3>1. pc' = "bailed" /\ estimate' = estimate
      BY <1>2, Zenon DEF EndBlock
    <3>2. my_cpu = -1 => bail' \in {FALSE}
      BY DEF EndBlock
    <3>3. QED
      BY <1>1, <1>2, <3>1, <3>2
  <2>2. /\ Made = {n \in Ticks(test) : Past(n) \/ Gone(n)}
        /\ IsFiniteSet(Ticks(test)) /\ ticks = Cardinality(Made) /\ estimate = Cardinality(Ticks(test))
    BY <1>1, <2>1 DEF Made, CountInv
  <2>3. /\ Made \cup {NowTick} \in SUBSET Ticks(test) /\ Made \in SUBSET Ticks(test)
        /\ NowTick \notin Made
    BY <1>1, <2>2
  <2> HIDE DEF Made
  <2>4. IsFiniteSet(Made) /\ Cardinality(Made \cup {NowTick}) <= Cardinality(Ticks(test))
    BY <2>2, <2>3, FS_Subset
  <2>5. Cardinality(Made \cup {NowTick}) = Cardinality(Made) + 1
    BY <2>3, <2>4, FS_AddElement
  <2>6. ticks' <= estimate
    BY <1>1, <2>1, <2>2, <2>4, <2>5
  <2>7. QED
    BY <1>1, <2>1, <2>2, <2>6 DEF CountInv
<1>3. CASE ~bail'
  <2>1. \A n \in Ticks(test) :
            (Past(n)' \/ (pc' \in {"words", "tick"} /\ Gone(n)'))
                <=> (Past(n) \/ Gone(n) \/ n = NowTick)
    BY <1>3, BlockOver DEF PlaceInv
  <2>2. CASE my_cpu = -1
    <3>1. Made = Done
      BY <1>1, <2>2 DEF Made
    <3>2. \/ pc' = "tick" /\ estimate' = estimate + 1
          \/ pc' = "call" /\ estimate' = estimate
      BY <1>1, <1>3, <2>2 DEF EndBlock, Enter
    <3>3. IsFiniteSet(Made) /\ estimate = Cardinality(Made) /\ ticks = 0
      BY <2>2 DEF CountInv
    <3>4. CASE pc' = "call"
      <4>1. Made' = Done
        BY <1>1, <2>1, <3>4 DEF Made
      <4> HIDE DEF Done
      <4>2. Made' = Made
        BY <3>1, <4>1
      <4>3. QED
        BY <1>1, <2>2, <3>2, <3>3, <3>4, <4>2 DEF CountInv
    <3>5. CASE pc' = "tick"
      <4>1. NowTick' \in Ticks(test) /\ (~Past(NowTick) /\ ~Gone(NowTick))'
        <5>1. (PlaceInv => (pc \in {"words", "tick"} =>
                  NowTick \in Ticks(test) /\ ~Past(NowTick) /\ ~Gone(NowTick)))'
          BY NowPlanned, PTL
        <5>2. QED
          BY <1>1, <3>5, <5>1
      <4>2. Made' = Done \cup {NowTick'}
        BY <1>1, <2>1, <2>2, <3>5, <4>1 DEF Made
      <4>3. NowTick' \notin Done
        BY <2>1, <3>5, <4>1
      <4> HIDE DEF Made, Done
      <4>4. IsFiniteSet(Made') /\ Cardinality(Made') = Cardinality(Made) + 1
        BY <3>1, <3>3, <4>2, <4>3, FS_AddElement
      <4>5. QED
        BY <1>1, <2>2, <3>2, <3>3, <3>5, <4>4 DEF CountInv
    <3>6. QED
      BY <3>2, <3>4, <3>5
  <2>3. CASE my_cpu = 0
    <3>1. Made = {n \in Ticks(test) : Past(n) \/ Gone(n)}
      BY <1>1, <2>3 DEF Made
    <3>2. pc' \in {"call", "words"} /\ estimate' = estimate
      BY <1>1, <1>3, <2>3 DEF EndBlock, Enter
    <3>3. Made' = Done
      BY <1>1, <2>1, <2>3, <3>2 DEF Made
    <3>4. Done = Made \cup {NowTick} /\ NowTick \notin Made /\ Made \in SUBSET Ticks(test)
      BY <1>1, <3>1
    <3>5. /\ IsFiniteSet(Ticks(test)) /\ estimate = Cardinality(Ticks(test))
          /\ ticks = Cardinality(Made)
      BY <1>1, <2>3 DEF CountInv
    <3> HIDE DEF Made, Done
    <3>6. IsFiniteSet(Made)
      BY <3>4, <3>5, FS_Subset
    <3>7. Cardinality(Made') = Cardinality(Made) + 1
      BY <3>3, <3>4, <3>6, FS_AddElement
    <3>8. QED
      BY <1>1, <2>3, <3>2, <3>5, <3>7 DEF CountInv
  <2>4. QED
    BY <1>1, <2>2, <2>3
<1>4. QED
  BY <1>2, <1>3

LEMMA CountsCall ==
    ASSUME PlaceInv, CountInv, EndCall
    PROVE  CountInv'
<1>1. pc = "call" /\ UNCHANGED <<test, estimate, ticks>> /\ my_cpu \in {-1, 0}
  BY EndCallMoves DEF PlaceInv, CallInv
<1>2. Made = {n \in Ticks(test) : Past(n)}
  BY <1>1 DEF Made
<1>3. CASE stage' # 0 \/ window' # 1
  <2>1. UNCHANGED <<pc, my_cpu>> /\ \A n \in Ticks(test) : Past(n)' <=> Past(n)
    BY <1>3, CallOver DEF PlaceInv
  <2>2. Made' = Made
    BY <1>1, <2>1 DEF Made
  <2>3. QED
    BY <1>1, <2>1, <2>2 DEF CountInv
<1>4. CASE stage' = 0 /\ window' = 1
  <2>1. /\ \A n \in Ticks(test) : Past(n) /\ ~Past(n)'
        /\ \/ my_cpu = -1 /\ my_cpu' = 0 /\ UNCHANGED pc
           \/ my_cpu = 0 /\ pc' = "done" /\ UNCHANGED my_cpu
    BY <1>4, CallOver DEF PlaceInv
  <2>2. Made = Ticks(test)
    BY <1>2, <2>1
  <2>3. CASE my_cpu = -1
    <3>1. IsFiniteSet(Ticks(test)) /\ estimate = Cardinality(Ticks(test)) /\ ticks = 0
      BY <2>2, <2>3 DEF CountInv
    <3>2. my_cpu' = 0 /\ pc' = "call"
      BY <1>1, <2>1, <2>3
    <3>3. Made' = {}
      BY <1>1, <2>1, <3>2 DEF Made
    <3>4. Cardinality(Made') = 0
      BY <3>3, FS_EmptySet
    <3>5. QED
      BY <1>1, <3>1, <3>2, <3>4 DEF CountInv
  <2>4. CASE my_cpu = 0
    <3>1. /\ IsFiniteSet(Ticks(test)) /\ estimate = Cardinality(Ticks(test))
          /\ ticks = estimate /\ pc' = "done" /\ my_cpu' = 0
      BY <1>1, <2>1, <2>2, <2>4 DEF CountInv
    <3>2. QED
      BY <1>1, <3>1 DEF CountInv
  <2>5. QED
    BY <1>1, <2>3, <2>4
<1>5. QED
  BY <1>3, <1>4

LEMMA NextCountInv == PlaceInv /\ CountInv /\ [Next]_vars => CountInv'
<1> SUFFICES ASSUME PlaceInv, CountInv, [Next]_vars PROVE CountInv'
  OBVIOUS
<1>1. PlaceInv'
  BY NextPlaceInv
<1>2. CASE UNCHANGED vars
  <2>1. UNCHANGED <<test, my_cpu, stage, window, phases, phase, pe, left, pc, estimate, ticks>>
    BY <1>2 DEF vars, callVars, blockVars
  <2>2. \A n : (Past(n)' <=> Past(n)) /\ (Gone(n)' <=> Gone(n))
    BY <2>1, Frame DEF Past, Gone
  <2>3. NowTick' = NowTick
    BY <2>1 DEF NowTick
  <2>4. Made' = Made
    BY <2>1, <2>2, <2>3 DEF Made
  <2>5. QED
    BY <2>1, <2>4 DEF CountInv
<1>3. QED
  BY <1>1, <1>2, CountsBegin, CountsSkip, CountsWords, CountsBlock, CountsCall
     DEF Next, Run, Over, WordStep

LEMMA InitTickInv == Init => PlaceInv /\ CountInv
<1> SUFFICES ASSUME Init PROVE PlaceInv /\ CountInv
  OBVIOUS
<1>1. CallInv
  BY InitInv
<1>2. /\ pc = "call" /\ my_cpu = -1 /\ stage = 0 /\ window = 1 /\ phase = 1
      /\ last_stage = -1 /\ estimate = 0 /\ ticks = 0
  BY DEF Init
<1>3. PlanInv
  <2>1. PICK call \in Calls : call.test = test /\ call.stage = 0 /\ phases = call.phases
    BY DEF Init
  <2>2. QED
    BY <1>2, <2>1, CallsPlanned DEF PlanInv
<1>4. SleepInv /\ BlockInv
  BY <1>2 DEF SleepInv, BlockInv
<1>5. Made = {}
  <2>1. \A n \in Ticks(test) : n.stage \in Nat /\ n.window \in Nat /\ n.phase \in Nat
                               /\ n.window >= 1 /\ n.phase >= 1
    BY <1>1, TickFields
  <2>2. \A n \in Ticks(test) : ~Past(n)
    BY <1>2, <2>1 DEF Past
  <2>3. QED
    BY <1>2, <2>2 DEF Made
<1>6. IsFiniteSet(Made) /\ Cardinality(Made) = 0
  BY <1>5, FS_EmptySet
<1>7. CountInv
  BY <1>2, <1>6 DEF CountInv
<1>8. QED
  BY <1>1, <1>3, <1>4, <1>7 DEF PlaceInv

(***************************************************************************)
(* The progress bar of a test: the dummy run, which touches no word, names *)
(* exactly the ticks of the real run, for every test, number of windows,   *)
(* and size of blocks, whatever random patterns the clock gives to either. *)
(***************************************************************************)
THEOREM TicksCounted == Spec => []TicksEstimated
<1>1. PlaceInv /\ CountInv => TicksEstimated
  <2> SUFFICES ASSUME PlaceInv, CountInv PROVE TicksEstimated
    OBVIOUS
  <2>1. CASE my_cpu = -1
    <3>1. ticks = 0 /\ pc # "done" /\ estimate = Cardinality(Made) /\ IsFiniteSet(Made)
      BY <2>1 DEF CountInv
    <3>2. QED
      BY <3>1, FS_CardinalityType DEF TicksEstimated
  <2>2. CASE my_cpu = 0
    <3>1. IsFiniteSet(Ticks(test)) /\ estimate = Cardinality(Ticks(test)) /\ estimate \in Nat
      BY <2>2, FS_CardinalityType DEF CountInv
    <3>2. CASE pc \in {"call", "words", "tick"}
      <4>1. ticks = Cardinality(Made) /\ Made \in SUBSET Ticks(test)
        BY <2>2, <3>2 DEF CountInv, Made
      <4>2. ticks <= estimate
        BY <3>1, <4>1, FS_Subset
      <4>3. QED
        BY <3>2, <4>2 DEF TicksEstimated
    <3>3. CASE pc \in {"done", "bailed"}
      BY <2>2, <3>1, <3>3 DEF CountInv, TicksEstimated
    <3>4. QED
      BY <2>2, <3>2, <3>3 DEF CountInv
  <2>3. QED
    BY <2>1, <2>2 DEF PlaceInv, CallInv
<1>2. PlaceInv /\ CountInv /\ [Next]_vars => (PlaceInv /\ CountInv)'
  BY NextPlaceInv, NextCountInv
<1>3. QED
  BY <1>1, <1>2, InitTickInv, PTL DEF Spec
=============================================================================
