---------------------------- MODULE PatternProofs ----------------------------
(***************************************************************************)
(* Proofs about MemTests: no test raises a false alarm in good memory, and *)
(* in memory that has a fault, the errors used for BadRAM patterns are at  *)
(* the cells of the fault.  The phases of every call are linked: what one  *)
(* leaves in the words is what the next one expects, word by word, whether *)
(* the pattern is fixed, turned up or down, random, or the own address.    *)
(* And a fault that a test is for is found when the test has ended: no     *)
(* pattern is such that the fault makes of a word what every phase wants.  *)
(***************************************************************************)
EXTENDS MemTestsProofs

-----------------------------------------------------------------------------
(***************************************************************************)
(* A pattern turned from word to word runs through an orbit: f[k] is the   *)
(* seed after k turns.                                                     *)
(***************************************************************************)
IsOrbit(f, g, s) ==
    f \in [Nat -> Words] /\ f[0] = s /\ \A k \in Nat : f[k + 1] = g[f[k]]

Orbit(g, s) == CHOOSE f : IsOrbit(f, g, s)

\* Its first steps, up to the nth.
IsPart(h, g, s, n) ==
    h \in [0 .. n -> Words] /\ h[0] = s /\ \A k \in 0 .. n - 1 : h[k + 1] = g[h[k]]

LEMMA PartExists ==
    ASSUME NEW g \in [Words -> Words], NEW s \in Words, NEW n \in Nat
    PROVE  \E h : IsPart(h, g, s, n)
<1> DEFINE bad == {k \in Nat : ~\E h : IsPart(h, g, s, k)}
<1>1. SUFFICES ASSUME bad # {} PROVE FALSE
  OBVIOUS
<1>2. PICK m \in bad : \A k \in bad : m <= k
  <2> bad \subseteq Nat
    OBVIOUS
  <2> HIDE DEF bad
  <2> QED
    BY <1>1, LeastNat
<1>3. m \in Nat /\ ~\E h : IsPart(h, g, s, m)
  OBVIOUS
<1>4. m # 0
  <2>1. IsPart([k \in 0 .. 0 |-> s], g, s, 0)
    BY DEF IsPart
  <2>2. QED
    BY <1>3, <2>1
<1>5. m - 1 \in Nat /\ m - 1 \notin bad
  BY <1>2, <1>3, <1>4
<1>6. PICK h : IsPart(h, g, s, m - 1)
  BY <1>5
<1> DEFINE e == [k \in 0 .. m |-> IF k = m THEN g[h[m - 1]] ELSE h[k]]
<1>7. /\ h \in [0 .. m - 1 -> Words] /\ h[0] = s
      /\ \A k \in 0 .. m - 2 : h[k + 1] = g[h[k]]
  BY <1>3, <1>6 DEF IsPart
<1>8. e \in [0 .. m -> Words] /\ e[0] = s
  BY <1>3, <1>4, <1>7
<1>9. ASSUME NEW k \in 0 .. m - 1 PROVE e[k + 1] = g[e[k]]
  <2>1. e[k] = h[k] /\ k + 1 \in 0 .. m
    BY <1>3
  <2>2. CASE k = m - 1
    BY <1>3, <2>1, <2>2
  <2>3. CASE k # m - 1
    <3>1. k \in 0 .. m - 2 /\ k + 1 # m
      BY <1>3, <2>3
    <3>2. e[k + 1] = h[k + 1]
      BY <2>1, <3>1
    <3>3. QED
      BY <1>7, <2>1, <3>1, <3>2
  <2>4. QED
    BY <2>2, <2>3
<1> HIDE DEF e
<1>10. IsPart(e, g, s, m)
  BY <1>8, <1>9 DEF IsPart
<1>11. QED
  BY <1>3, <1>10

LEMMA PartsAgree ==
    ASSUME NEW g, NEW s, NEW n \in Nat, NEW m \in Nat, NEW h, NEW e,
           IsPart(h, g, s, n), IsPart(e, g, s, m), NEW j \in 0 .. n, j <= m
    PROVE  h[j] = e[j]
<1> DEFINE bad == {k \in Nat : k <= n /\ k <= m /\ h[k] # e[k]}
<1>1. SUFFICES ASSUME bad # {} PROVE FALSE
  OBVIOUS
<1>2. PICK i \in bad : \A k \in bad : i <= k
  <2> bad \subseteq Nat
    OBVIOUS
  <2> HIDE DEF bad
  <2> QED
    BY <1>1, LeastNat
<1>3. i \in Nat /\ i <= n /\ i <= m /\ h[i] # e[i]
  OBVIOUS
<1>4. i # 0
  BY <1>3 DEF IsPart
<1>5. i - 1 \in Nat /\ i - 1 \notin bad
  BY <1>2, <1>3, <1>4
<1>6. h[i - 1] = e[i - 1]
  BY <1>3, <1>5
<1>7. i - 1 \in 0 .. n - 1 /\ i - 1 \in 0 .. m - 1 /\ (i - 1) + 1 = i
  BY <1>3, <1>4
<1>8. h[i] = g[h[i - 1]] /\ e[i] = g[e[i - 1]]
  BY <1>7 DEF IsPart
<1>9. QED
  BY <1>3, <1>6, <1>8

LEMMA OrbitExists ==
    ASSUME NEW g \in [Words -> Words], NEW s \in Words
    PROVE  IsOrbit(Orbit(g, s), g, s)
<1> DEFINE part(n) == CHOOSE h : IsPart(h, g, s, n)
           f == [n \in Nat |-> part(n)[n]]
<1>1. \A n \in Nat : IsPart(part(n), g, s, n)
  BY PartExists
<1> HIDE DEF part
<1>2. f \in [Nat -> Words]
  <2>1. \A n \in Nat : part(n)[n] \in Words
    BY <1>1 DEF IsPart
  <2>2. QED
    BY <2>1
<1>3. f[0] = s
  BY <1>1 DEF IsPart
<1>4. ASSUME NEW k \in Nat PROVE f[k + 1] = g[f[k]]
  <2>1. f[k] = part(k)[k] /\ f[k + 1] = part(k + 1)[k + 1]
    OBVIOUS
  <2>2. part(k + 1)[k + 1] = g[part(k + 1)[k]]
    <3>1. k \in 0 .. (k + 1) - 1 /\ IsPart(part(k + 1), g, s, k + 1)
      BY <1>1
    <3>2. QED
      BY <3>1 DEF IsPart
  <2>3. part(k)[k] = part(k + 1)[k]
    BY <1>1, PartsAgree
  <2>4. QED
    BY <2>1, <2>2, <2>3
<1> HIDE DEF f
<1>5. IsOrbit(f, g, s)
  BY <1>2, <1>3, <1>4 DEF IsOrbit
<1>6. QED
  BY <1>5 DEF Orbit

-----------------------------------------------------------------------------
(***************************************************************************)
(* Testwords stay testwords.                                               *)
(***************************************************************************)
LEMMA NotNot == \A w \in Words : Not(w) \in Words /\ Not(Not(w)) = w
  BY DEF Words, Not

LEMMA WordsClosed ==
    /\ {} \in Words /\ Bits \in Words
    /\ \A n : Number(n) \in Words
    /\ \A w \in Words : prsg(w) \in Words /\ RotateLeft(w) \in Words
<1>1. TESTWORD_WIDTH \in Nat \ {0}
  BY MemTestsAssumption
<1>2. \A n : Number(n) \in Words
  BY DEF Number, Words
<1>3. \A v, w : v \in Words /\ w \in Words => Xor(v, w) \in Words
  BY DEF Words, Xor
<1>4. \A w, n : ShiftLeft(w, n) \in Words /\ ShiftRight(w, n) \in Words
  BY DEF Words, ShiftLeft, ShiftRight
<1>5. \A w \in Words : prsg(w) \in Words
  BY <1>3, <1>4, Zenon DEF prsg
<1>6. \A w \in Words : RotateLeft(w) \in Words
  <2> SUFFICES ASSUME NEW w \in Words PROVE RotateLeft(w) \subseteq Bits
    BY DEF Words
  <2>1. \A i \in Bits : (i + 1) % TESTWORD_WIDTH \in Bits
    BY <1>1 DEF Bits
  <2>2. w \subseteq Bits
    BY DEF Words
  <2>3. QED
    BY <2>1, <2>2 DEF RotateLeft
<1>7. QED
  BY <1>2, <1>5, <1>6 DEF Words

\* A bit that goes to the left comes back on the way to the right.
LEMMA RotateBack ==
    ASSUME NEW w \in Words
    PROVE  RotateRight(Not(RotateLeft(w))) = Not(w)
<1> DEFINE n == TESTWORD_WIDTH
           L(i) == (i + 1) % n
           R(i) == (i + n - 1) % n
<1>1. n \in Nat \ {0} /\ Bits = 0 .. n - 1 /\ w \subseteq Bits
  BY MemTestsAssumption DEF Bits, Words
<1> HIDE DEF n
<1>2. \A i \in Bits : L(i) = IF i = n - 1 THEN 0 ELSE i + 1
  BY <1>1
<1>3. \A i \in Bits : R(i) = IF i = 0 THEN n - 1 ELSE i - 1
  <2> SUFFICES ASSUME NEW i \in Bits PROVE R(i) = IF i = 0 THEN n - 1 ELSE i - 1
    OBVIOUS
  <2>1. CASE i = 0
    BY <1>1, <2>1
  <2>2. CASE i # 0
    <3>1. i - 1 \in 0 .. n - 1 /\ i + n - 1 = (i - 1) + n
      BY <1>1, <2>2
    <3>2. ((i - 1) + n) % n = i - 1
      BY <1>1, <3>1
    <3>3. QED
      BY <2>2, <3>1, <3>2
  <2>3. QED
    BY <2>1, <2>2
<1>4. \A i \in Bits : L(i) \in Bits /\ R(i) \in Bits /\ R(L(i)) = i /\ L(R(i)) = i
  <2> HIDE DEF L, R
  <2> SUFFICES ASSUME NEW i \in Bits
               PROVE  L(i) \in Bits /\ R(i) \in Bits /\ R(L(i)) = i /\ L(R(i)) = i
    OBVIOUS
  <2>1. L(i) \in Bits /\ R(i) \in Bits
    BY <1>1, <1>2, <1>3
  <2>2. R(L(i)) = IF L(i) = 0 THEN n - 1 ELSE L(i) - 1
    BY <1>3, <2>1
  <2>3. L(R(i)) = IF R(i) = n - 1 THEN 0 ELSE R(i) + 1
    BY <1>2, <2>1
  <2>4. QED
    BY <1>1, <1>2, <1>3, <2>1, <2>2, <2>3
<1>5. RotateLeft(w) = {L(i) : i \in w} /\ \A v : RotateRight(v) = {R(i) : i \in v}
  BY DEF RotateLeft, RotateRight, n
<1> HIDE DEF L, R
<1>6. ASSUME NEW i \in Bits
      PROVE  i \in RotateRight(Not(RotateLeft(w))) <=> i \notin w
  <2>1. i \in RotateRight(Not(RotateLeft(w))) <=> \E j \in Bits : j \notin RotateLeft(w) /\ R(j) = i
    BY <1>5 DEF Not
  <2>2. \A j \in Bits : R(j) = i <=> j = L(i)
    BY <1>4
  <2>3. L(i) \in RotateLeft(w) <=> i \in w
    BY <1>1, <1>4, <1>5
  <2>4. QED
    BY <1>4, <2>1, <2>2, <2>3
<1>7. RotateRight(Not(RotateLeft(w))) \subseteq Bits
  BY <1>4, <1>5 DEF Not
<1>8. QED
  BY <1>6, <1>7 DEF Not

RotL == [w \in Words |-> RotateLeft(w)]
Prsg == [w \in Words |-> prsg(w)]

LEMMA Orbits ==
    ASSUME NEW s \in Words
    PROVE  /\ Orbit(RotL, s)[0] = s /\ Orbit(Prsg, s)[0] = s
           /\ \A k \in Nat : /\ Orbit(RotL, s)[k] \in Words /\ Orbit(Prsg, s)[k] \in Words
                             /\ Orbit(RotL, s)[k + 1] = RotateLeft(Orbit(RotL, s)[k])
                             /\ Orbit(Prsg, s)[k + 1] = prsg(Orbit(Prsg, s)[k])
<1>1. RotL \in [Words -> Words] /\ Prsg \in [Words -> Words]
  BY WordsClosed DEF RotL, Prsg
<1>2. IsOrbit(Orbit(RotL, s), RotL, s) /\ IsOrbit(Orbit(Prsg, s), Prsg, s)
  BY <1>1, OrbitExists
<1>3. \A w \in Words : RotL[w] = RotateLeft(w) /\ Prsg[w] = prsg(w)
  BY DEF RotL, Prsg
<1>4. QED
  BY <1>2, <1>3 DEF IsOrbit

\* The seeds that prsg makes from the clock are testwords.
LEMMA RandomWord ==
    ASSUME NEW s \in Words, NEW n \in Nat
    PROVE  Random(s, n) \in Words
<1> DEFINE state == CHOOSE f : f = [i \in Nat |-> IF i = 0 THEN s ELSE prsg(f[i - 1])]
           o == Orbit(Prsg, s)
<1>1. Random(s, n) = state[n]
  BY DEF Random
<1>2. o \in [Nat -> Words] /\ o[0] = s /\ \A k \in Nat : o[k + 1] = prsg(o[k])
  <2>1. Prsg \in [Words -> Words]
    BY WordsClosed DEF Prsg
  <2>2. IsOrbit(o, Prsg, s)
    BY <2>1, OrbitExists
  <2>3. QED
    BY <2>2, Orbits DEF IsOrbit
<1> HIDE DEF o
<1>3. o = [i \in Nat |-> IF i = 0 THEN s ELSE prsg(o[i - 1])]
  <2>1. \A i \in Nat : o[i] = IF i = 0 THEN s ELSE prsg(o[i - 1])
    <3> SUFFICES ASSUME NEW i \in Nat, i # 0 PROVE o[i] = prsg(o[i - 1])
      BY <1>2
    <3>1. i - 1 \in Nat /\ (i - 1) + 1 = i
      OBVIOUS
    <3>2. QED
      BY <1>2, <3>1
  <2>2. o = [i \in Nat |-> o[i]]
    BY <1>2
  <2>3. QED
    BY <2>1, <2>2, Zenon
<1>4. state = [i \in Nat |-> IF i = 0 THEN s ELSE prsg(state[i - 1])]
  BY <1>3, Zenon
<1> HIDE DEF state
<1>5. \A i \in Nat : state[i] = IF i = 0 THEN s ELSE prsg(state[i - 1])
  <2> DEFINE h == [i \in Nat |-> IF i = 0 THEN s ELSE prsg(state[i - 1])]
  <2>1. \A i \in Nat : h[i] = IF i = 0 THEN s ELSE prsg(state[i - 1])
    OBVIOUS
  <2>2. state = h
    BY <1>4
  <2> HIDE DEF h
  <2>3. QED
    BY <2>1, <2>2
<1> DEFINE bad == {k \in Nat : state[k] \notin Words}
<1>6. SUFFICES ASSUME bad # {} PROVE FALSE
  BY <1>1
<1>7. PICK m \in bad : \A k \in bad : m <= k
  <2> bad \subseteq Nat
    OBVIOUS
  <2> HIDE DEF bad
  <2> QED
    BY <1>6, LeastNat
<1>8. m \in Nat /\ state[m] \notin Words
  OBVIOUS
<1>9. m # 0
  BY <1>5, <1>8
<1>10. m - 1 \in Nat /\ m - 1 \notin bad
  BY <1>7, <1>8, <1>9
<1>11. state[m] = prsg(state[m - 1])
  BY <1>5, <1>8, <1>9
<1>12. QED
  BY <1>8, <1>10, <1>11, WordsClosed

-----------------------------------------------------------------------------
(***************************************************************************)
(* What a phase finds and leaves.  s is what its pattern starts as, which  *)
(* a phase that goes back takes from the one before it; v is a word of     *)
(* window w.  The first word of a march with prsg has one turn behind it.  *)
(***************************************************************************)
FinalWord(w) == first_word_mapping(Segments[w].last) * PAGE_WORDS + PAGE_WORDS - 1

OffsetOf(w) ==
    LET offset == WindowOf(Segments[w].first) * VM_WINDOW_SIZE
    IN  IF offset >= VM_PINNED_SIZE THEN offset - VM_PINNED_SIZE ELSE 0

Plain(ph, s, w, v) ==
    LET k == v - FirstWord(w)
    IN  CASE ph.turn = "left"       -> Orbit(RotL, s)[k]
          [] ph.turn = "right"      -> Not(Orbit(RotL, s)[k])
          [] ph.turn = "prsg"       -> Orbit(Prsg, s)[k + 1]
          [] ph.turn = "own"        -> Number(v)
          [] ph.turn = "own+window" -> Number(v + OffsetOf(w) * PAGE_WORDS)
          [] OTHER -> s

Want(ph, s, w, v)   == IF ph.invert THEN Not(Plain(ph, s, w, v)) ELSE Plain(ph, s, w, v)
Leaves(ph, s, w, v) == IF ph.put = "inverse" THEN Not(Want(ph, s, w, v)) ELSE Want(ph, s, w, v)

Whole(ph)  == ph.kind = "march" /\ ph.skip = MODULO_N
Spared(ph) == ph.kind = "march" /\ ph.skip # MODULO_N

Turns == {"none", "left", "right", "prsg", "own", "own+window"}

\* What the fields of a phase have to do with each other.
Sown(ph) ==
    /\ ph.seed \in Words /\ ph.flip \in BOOLEAN /\ ph.invert \in BOOLEAN /\ ph.check \in BOOLEAN
    /\ ph.put \in {"same", "inverse", "none"} /\ (~ph.check => ph.put = "same")
    /\ ph.turn \in Turns /\ (ph.flip <=> ph.turn = "right")
    /\ ph.turn = "right" => ~ph.up /\ Whole(ph)
    /\ ph.turn \in {"left", "prsg"} => ph.up
    /\ ph.kind = "nth" => /\ ph.turn = "none" /\ ~ph.invert /\ ph.skip = MODULO_N
                          /\ ph.check => ph.put = "none"
    /\ Spared(ph) => /\ ph.turn = "none" /\ ~ph.invert /\ ~ph.check /\ ph.up
                     /\ ph.skip \in 0 .. MODULO_N - 1

\* Phase b, started from u, finds what a, started from s, has left.
Fits(a, s, b, u) ==
    /\ b.flip => Whole(a) /\ a.turn = "left" /\ u = s
    /\ Whole(b) /\ b.check =>
         /\ Whole(a)
         /\ \A w \in Windows : \A v \in FirstWord(w) .. FinalWord(w) :
              Leaves(a, s, w, v) = Want(b, u, w, v)
    /\ Spared(b) =>
         \/ a.kind = "nth" /\ a.off = b.skip /\ a.seed = Not(b.seed)
         \/ Spared(a) /\ a.skip = b.skip /\ a.seed = b.seed
    /\ b.kind = "nth" /\ b.check => Spared(a) /\ a.skip = b.off /\ b.seed = Not(a.seed)
    /\ b.kind \in {"move", "pairs"} => a.kind \in {"blocks", "move", "pairs"}

SeedOf(list, i) == IF list[i].flip THEN list[i - 1].seed ELSE list[i].seed

Linked(list) ==
    /\ Listed(list) /\ Len(list) >= 1
    /\ \A i \in 1 .. Len(list) : Sown(list[i])
    /\ ~list[1].flip
    /\ \A i \in 2 .. Len(list) :
         Fits(list[i - 1], SeedOf(list, i - 1), list[i], SeedOf(list, i))

\* A linked list, by its ends: it begins with x and ends with y, started from e.
Chain(list, x, y, e) ==
    Linked(list) /\ list[1] = x /\ list[Len(list)] = y /\ SeedOf(list, Len(list)) = e

LEMMA ListOf ==
    ASSUME NEW list, Listed(list)
    PROVE  Len(list) \in Nat /\ DOMAIN list = 1 .. Len(list)
           /\ \A i \in 1 .. Len(list) : GoodPhase(list[i])
<1>1. PICK S : list \in Seq(S) /\ \A ph \in S : GoodPhase(ph)
  BY DEF Listed
<1>2. QED
  BY <1>1, LenProperties, ElementOfSeq

LEMMA ChainJoined ==
    ASSUME NEW s, NEW x, NEW y, NEW e, Chain(s, x, y, e),
           NEW u, NEW a, NEW b, NEW d, Chain(u, a, b, d),
           Fits(y, e, a, a.seed)
    PROVE  Chain(s \o u, x, b, d)
<1> DEFINE m == Len(s)
           n == Len(u)
           c == s \o u
<1>1. /\ m \in Nat /\ m >= 1 /\ n \in Nat /\ n >= 1 /\ Listed(c) /\ Len(c) = m + n
      /\ \A i \in 1 .. m : c[i] = s[i]
      /\ \A i \in 1 .. n : c[m + i] = u[i]
  <2>1. Listed(s) /\ Listed(u) /\ m >= 1 /\ n >= 1
    BY DEF Chain, Linked
  <2>2. PICK S : s \in Seq(S)
    BY <2>1 DEF Listed
  <2>3. PICK U : u \in Seq(U)
    BY <2>1 DEF Listed
  <2>4. s \in Seq(S \cup U) /\ u \in Seq(S \cup U)
    <3>1. S \subseteq S \cup U /\ U \subseteq S \cup U
      OBVIOUS
    <3>2. QED
      BY <2>2, <2>3, <3>1, SeqMonotonic
  <2> DEFINE T == S \cup U
  <2>5. s \in Seq(T) /\ u \in Seq(T)
    BY <2>4
  <2> HIDE DEF T
  <2>6. Len(c) = m + n /\ m \in Nat /\ n \in Nat
        /\ \A i \in 1 .. m + n : c[i] = IF i <= m THEN s[i] ELSE u[i - m]
    BY <2>5, ConcatProperties, LenProperties
  <2> HIDE DEF c, m, n
  <2>7. \A i \in 1 .. m : c[i] = s[i]
    BY <2>6
  <2>8. ASSUME NEW i \in 1 .. n PROVE c[m + i] = u[i]
    <3>1. m + i \in 1 .. m + n /\ ~(m + i <= m) /\ (m + i) - m = i
      BY <2>6
    <3>2. QED
      BY <2>6, <3>1
  <2>9. Listed(c)
    BY <2>1, Joined DEF c
  <2>10. QED
    BY <2>1, <2>6, <2>7, <2>8, <2>9 DEF m, n
<1>2. /\ \A i \in 1 .. m : Sown(s[i])
      /\ \A i \in 2 .. m : Fits(s[i - 1], SeedOf(s, i - 1), s[i], SeedOf(s, i))
      /\ ~s[1].flip /\ s[1] = x /\ s[m] = y /\ SeedOf(s, m) = e
  BY DEF Chain, Linked
<1>3. /\ \A i \in 1 .. n : Sown(u[i])
      /\ \A i \in 2 .. n : Fits(u[i - 1], SeedOf(u, i - 1), u[i], SeedOf(u, i))
      /\ ~u[1].flip /\ u[1] = a /\ u[n] = b /\ SeedOf(u, n) = d
  BY DEF Chain, Linked
<1> HIDE DEF c, m, n
<1>4. ASSUME NEW i \in 1 .. m PROVE SeedOf(c, i) = SeedOf(s, i)
  <2>1. CASE i = 1
    <3>1. c[1] = s[1] /\ ~s[1].flip
      BY <1>1, <1>2
    <3>2. QED
      BY <2>1, <3>1 DEF SeedOf
  <2>2. CASE i # 1
    <3>1. i - 1 \in 1 .. m
      BY <1>1, <2>2
    <3>2. c[i] = s[i] /\ c[i - 1] = s[i - 1]
      BY <1>1, <3>1
    <3>3. QED
      BY <3>2 DEF SeedOf
  <2>3. QED
    BY <2>1, <2>2
<1>5. ASSUME NEW i \in 1 .. n PROVE SeedOf(c, m + i) = SeedOf(u, i)
  <2>1. CASE i = 1
    <3>1. c[m + 1] = u[1] /\ ~u[1].flip
      BY <1>1, <1>3
    <3>2. QED
      BY <2>1, <3>1 DEF SeedOf
  <2>2. CASE i # 1
    <3>1. i - 1 \in 1 .. n /\ m + (i - 1) = (m + i) - 1
      BY <1>1, <2>2
    <3>2. c[m + i] = u[i] /\ c[m + (i - 1)] = u[i - 1]
      BY <1>1, <3>1
    <3>3. c[(m + i) - 1] = u[i - 1]
      BY <3>1, <3>2
    <3>4. QED
      BY <3>2, <3>3 DEF SeedOf
  <2>3. QED
    BY <2>1, <2>2
<1>6. \A i \in 1 .. m + n : i \in 1 .. m \/ \E j \in 1 .. n : i = m + j
  <2> SUFFICES ASSUME NEW i \in 1 .. m + n, ~(i \in 1 .. m)
               PROVE  \E j \in 1 .. n : i = m + j
    OBVIOUS
  <2>1. i - m \in 1 .. n /\ i = m + (i - m)
    BY <1>1
  <2>2. QED
    BY <2>1
<1>7. \A i \in 1 .. m + n : Sown(c[i])
  BY <1>1, <1>2, <1>3, <1>6
<1>8. ASSUME NEW i \in 2 .. m + n
      PROVE  Fits(c[i - 1], SeedOf(c, i - 1), c[i], SeedOf(c, i))
  <2>1. CASE i \in 1 .. m
    <3>1. i - 1 \in 1 .. m /\ i \in 2 .. m
      BY <1>1, <2>1
    <3>2. c[i - 1] = s[i - 1] /\ c[i] = s[i]
      BY <1>1, <2>1, <3>1
    <3>3. SeedOf(c, i - 1) = SeedOf(s, i - 1) /\ SeedOf(c, i) = SeedOf(s, i)
      BY <1>4, <2>1, <3>1
    <3>4. QED
      BY <1>2, <3>1, <3>2, <3>3
  <2>2. CASE i = m + 1
    <3>1. 1 \in 1 .. n /\ m \in 1 .. m /\ i - 1 = m
      BY <1>1, <2>2
    <3>2. c[i - 1] = y /\ SeedOf(c, i - 1) = e
      BY <1>1, <1>2, <1>4, <3>1
    <3>3. c[i] = a /\ SeedOf(c, i) = SeedOf(u, 1)
      BY <1>1, <1>3, <1>5, <2>2, <3>1
    <3>4. SeedOf(u, 1) = a.seed
      BY <1>3 DEF SeedOf
    <3>5. QED
      BY <3>2, <3>3, <3>4
  <2>3. CASE i > m + 1
    <3>1. PICK j \in 2 .. n : i = m + j
      <4>1. i - m \in 2 .. n /\ i = m + (i - m)
        BY <1>1, <2>3
      <4>2. QED
        BY <4>1
    <3>2. j - 1 \in 1 .. n /\ j \in 1 .. n /\ i - 1 = m + (j - 1)
      BY <1>1, <3>1
    <3>3. c[i - 1] = u[j - 1] /\ SeedOf(c, i - 1) = SeedOf(u, j - 1)
      BY <1>1, <1>5, <3>2
    <3>4. c[i] = u[j] /\ SeedOf(c, i) = SeedOf(u, j)
      BY <1>1, <1>5, <3>1, <3>2
    <3>5. QED
      BY <1>3, <3>1, <3>3, <3>4
  <2>4. QED
    BY <1>1, <2>1, <2>2, <2>3
<1>9. c[1] = x /\ ~c[1].flip /\ c[m + n] = b /\ SeedOf(c, m + n) = d
  <2>1. 1 \in 1 .. m /\ n \in 1 .. n
    BY <1>1
  <2>2. QED
    BY <1>1, <1>2, <1>3, <1>5, <2>1
<1>10. Chain(c, x, b, d)
  BY <1>1, <1>7, <1>8, <1>9 DEF Chain, Linked
<1>11. QED
  BY <1>10 DEF c

LEMMA OneChain ==
    ASSUME NEW x, GoodPhase(x), Sown(x), ~x.flip
    PROVE  Chain(<<x>>, x, x, x.seed)
<1> DEFINE c == <<x>>
<1>1. Listed(c) /\ Len(c) = 1 /\ c[1] = x
  BY OneListed
<1> HIDE DEF c
<1>2. SeedOf(c, 1) = x.seed
  BY <1>1 DEF SeedOf
<1>3. (\A i \in 1 .. 1 : Sown(c[i])) /\ 2 .. 1 = {}
  BY <1>1
<1>4. Chain(c, x, x, x.seed)
  BY <1>1, <1>2, <1>3 DEF Chain, Linked
<1>5. QED
  BY <1>4 DEF c

LEMMA TwoChain ==
    ASSUME NEW x, GoodPhase(x), Sown(x), ~x.flip, NEW y, GoodPhase(y), Sown(y), NEW e,
           e = IF y.flip THEN x.seed ELSE y.seed, Fits(x, x.seed, y, e)
    PROVE  Chain(<<x, y>>, x, y, e)
<1> DEFINE c == <<x, y>>
<1>1. Listed(c) /\ Len(c) = 2 /\ c[1] = x /\ c[2] = y
  BY TwoListed
<1> HIDE DEF c
<1>2. SeedOf(c, 1) = x.seed /\ SeedOf(c, 2) = e
  BY <1>1 DEF SeedOf
<1>3. \A i \in 2 .. 2 : Fits(c[i - 1], SeedOf(c, i - 1), c[i], SeedOf(c, i))
  BY <1>1, <1>2
<1>4. \A i \in 1 .. 2 : Sown(c[i])
  BY <1>1
<1>5. Chain(c, x, y, e)
  BY <1>1, <1>2, <1>3, <1>4 DEF Chain, Linked
<1>6. QED
  BY <1>5 DEF c

\* The lists of all calls but those that check what earlier calls have left.
Opens(b) == ~b.check /\ ~b.flip /\ (Whole(b) \/ b.kind = "nth")

LEMMA OpensFits ==
    ASSUME NEW a, NEW s, NEW b, NEW u, Opens(b)
    PROVE  Fits(a, s, b, u)
  BY DEF Opens, Fits, Whole, Spared

LEMMA UnrolledChain ==
    ASSUME NEW n \in Nat \ {0}, NEW seqs, NEW f, Unrolled(seqs, n, f),
           NEW list, \A i \in 1 .. n : seqs[i] = list,
           NEW x, NEW y, NEW e, Chain(list, x, y, e), Fits(y, e, x, x.seed)
    PROVE  \A i \in 1 .. n : Chain(f[i], x, y, e)
<1> DEFINE bad == {k \in 1 .. n : ~Chain(f[k], x, y, e)}
<1>1. \A i \in 1 .. n : f[i] = IF i = 1 THEN seqs[i] ELSE f[i - 1] \o seqs[i]
  BY UnrolledAt
<1>2. SUFFICES ASSUME bad # {} PROVE FALSE
  OBVIOUS
<1>3. PICK m \in bad : \A k \in bad : m <= k
  <2> bad \subseteq Nat
    OBVIOUS
  <2> HIDE DEF bad
  <2> QED
    BY <1>2, LeastNat
<1>4. m \in 1 .. n /\ ~Chain(f[m], x, y, e) /\ Chain(seqs[m], x, y, e)
  OBVIOUS
<1>5. m # 1
  BY <1>1, <1>4
<1>6. m - 1 \in 1 .. n /\ m - 1 \notin bad
  BY <1>3, <1>4, <1>5
<1>7. Chain(f[m - 1], x, y, e) /\ f[m] = f[m - 1] \o seqs[m]
  BY <1>1, <1>4, <1>5, <1>6
<1>8. QED
  BY <1>4, <1>7, ChainJoined

LEMMA TimesChain ==
    ASSUME NEW n \in Nat \ {0}, NEW list, NEW x, NEW y, NEW e,
           Chain(list, x, y, e), Fits(y, e, x, x.seed)
    PROVE  Chain(Times(n, list), x, y, e)
<1> DEFINE s == [i \in 1 .. n |-> list]
<1>1. s = [i \in 1 .. n |-> s[i]] /\ \A i \in 1 .. n : s[i] = list
  OBVIOUS
<1> HIDE DEF s
<1>2. \A i \in 1 .. n : Listed(s[i])
  BY <1>1 DEF Chain, Linked
<1>3. PICK f : Unrolled(s, n, f) /\ FlattenSeq(s) = f[n]
  BY <1>1, <1>2, FlattenUnrolled
<1>4. \A i \in 1 .. n : Chain(f[i], x, y, e)
  BY <1>1, <1>3, UnrolledChain, Zenon
<1>5. QED
  BY <1>3, <1>4 DEF Times, s

Begun(list) == \E x, y, e : Chain(list, x, y, e) /\ Opens(x)

LEMMA BegunJoined ==
    ASSUME NEW s, Begun(s), NEW u, Begun(u)
    PROVE  Begun(s \o u)
<1>1. PICK x, y, e : Chain(s, x, y, e) /\ Opens(x)
  BY DEF Begun
<1>2. PICK a, b, d : Chain(u, a, b, d) /\ Opens(a)
  BY DEF Begun
<1>3. Fits(y, e, a, a.seed)
  BY <1>2, OpensFits
<1>4. Chain(s \o u, x, b, d)
  BY <1>1, <1>2, <1>3, ChainJoined
<1>5. QED
  BY <1>1, <1>4 DEF Begun

LEMMA FlattenBegun ==
    ASSUME NEW n \in Nat \ {0}, NEW seqs, seqs = [i \in 1 .. n |-> seqs[i]],
           \A i \in 1 .. n : Begun(seqs[i])
    PROVE  Begun(FlattenSeq(seqs))
<1>1. \A i \in 1 .. n : Listed(seqs[i])
  BY DEF Begun, Chain, Linked
<1>2. PICK f : Unrolled(seqs, n, f) /\ FlattenSeq(seqs) = f[n]
  BY <1>1, FlattenUnrolled
<1> DEFINE bad == {k \in 1 .. n : ~Begun(f[k])}
<1>3. \A i \in 1 .. n : f[i] = IF i = 1 THEN seqs[i] ELSE f[i - 1] \o seqs[i]
  BY <1>2, UnrolledAt
<1>4. SUFFICES ASSUME bad # {} PROVE FALSE
  BY <1>2
<1>5. PICK m \in bad : \A k \in bad : m <= k
  <2> bad \subseteq Nat
    OBVIOUS
  <2> HIDE DEF bad
  <2> QED
    BY <1>4, LeastNat
<1>6. m \in 1 .. n /\ ~Begun(f[m]) /\ Begun(seqs[m])
  OBVIOUS
<1>7. m # 1
  BY <1>3, <1>6
<1>8. m - 1 \in 1 .. n /\ m - 1 \notin bad
  BY <1>5, <1>6, <1>7
<1>9. Begun(f[m - 1]) /\ f[m] = f[m - 1] \o seqs[m]
  BY <1>3, <1>6, <1>7, <1>8
<1>10. QED
  BY <1>6, <1>9, BegunJoined

-----------------------------------------------------------------------------
(***************************************************************************)
(* The phases of every call are linked.                                    *)
(***************************************************************************)
LEMMA FirstWordNat ==
    \A w \in Windows : /\ FirstWord(w) \in Nat
                       /\ \A v \in FirstWord(w) .. FinalWord(w) : v - FirstWord(w) \in Nat
<1> SUFFICES ASSUME NEW w \in Windows PROVE FirstWord(w) \in Nat
  OBVIOUS
<1>1. first_word_mapping(Segments[w].first) \in Nat
  BY MappedInOrder, MemTestsAssumption
<1>2. PAGE_WORDS \in Nat
  BY MemTestsAssumption
<1>3. QED
  BY <1>1, <1>2 DEF FirstWord

LEMMA PlainBy ==
    ASSUME NEW ph, NEW s, NEW w, NEW v
    PROVE  /\ ph.turn = "none"  => Plain(ph, s, w, v) = s
           /\ ph.turn = "left"  => Plain(ph, s, w, v) = Orbit(RotL, s)[v - FirstWord(w)]
           /\ ph.turn = "right" => Plain(ph, s, w, v) = Not(Orbit(RotL, s)[v - FirstWord(w)])
           /\ ph.turn = "prsg"  => Plain(ph, s, w, v) = Orbit(Prsg, s)[v - FirstWord(w) + 1]
           /\ ph.turn = "own"   => Plain(ph, s, w, v) = Number(v)
           /\ ph.turn = "own+window" =>
                Plain(ph, s, w, v) = Number(v + OffsetOf(w) * PAGE_WORDS)
  BY Zenon DEF Plain

LEMMA FitsMarch ==
    ASSUME NEW a, NEW s, NEW b, NEW u, Whole(a), Whole(b),
           b.flip => a.turn = "left" /\ u = s,
           \A w \in Windows : \A v \in FirstWord(w) .. FinalWord(w) :
              Leaves(a, s, w, v) = Want(b, u, w, v)
    PROVE  Fits(a, s, b, u)
  BY DEF Fits, Whole, Spared

LEMMA FillSown ==
    ASSUME NEW s \in Words, NEW turn \in Turns \ {"right"}
    PROVE  /\ Sown(Fill(s, turn)) /\ Opens(Fill(s, turn)) /\ Whole(Fill(s, turn))
           /\ GoodPhase(Fill(s, turn)) /\ ~Fill(s, turn).flip
           /\ Fill(s, turn).seed = s /\ Fill(s, turn).turn = turn
           /\ Fill(s, turn).put = "same" /\ ~Fill(s, turn).invert
           /\ Sown(Check(s, turn)) /\ Whole(Check(s, turn))
           /\ GoodPhase(Check(s, turn)) /\ ~Check(s, turn).flip
           /\ Check(s, turn).seed = s /\ Check(s, turn).turn = turn
           /\ Check(s, turn).put = "none" /\ ~Check(s, turn).invert
<1>1. MODULO_N \in Nat \ {0, 1}
  BY MemTestsAssumption
<1>2. GoodPhase(Fill(s, turn)) /\ GoodPhase(Check(s, turn))
  BY FillGood
<1>3. QED
  BY <1>1, <1>2 DEF Fill, Check, March, Sown, Opens, Whole, Spared, Turns

LEMMA ThreeChain ==
    ASSUME NEW x, GoodPhase(x), Sown(x), ~x.flip, NEW y, GoodPhase(y), Sown(y), ~y.flip,
           NEW z, GoodPhase(z), Sown(z), ~z.flip,
           Fits(x, x.seed, y, y.seed), Fits(y, y.seed, z, z.seed)
    PROVE  Chain(<<x, y, z>>, x, z, z.seed)
<1> DEFINE c == <<x, y, z>>
<1>1. Listed(c) /\ Len(c) = 3 /\ c[1] = x /\ c[2] = y /\ c[3] = z
  BY ThreeListed
<1> HIDE DEF c
<1>2. SeedOf(c, 1) = x.seed /\ SeedOf(c, 2) = y.seed /\ SeedOf(c, 3) = z.seed
  BY <1>1 DEF SeedOf
<1>3. \A i \in 2 .. 3 : Fits(c[i - 1], SeedOf(c, i - 1), c[i], SeedOf(c, i))
  BY <1>1, <1>2
<1>4. \A i \in 1 .. 3 : Sown(c[i])
  BY <1>1
<1>5. Chain(c, x, z, z.seed)
  BY <1>1, <1>2, <1>3, <1>4 DEF Chain, Linked
<1>6. QED
  BY <1>5 DEF c

LEMMA FixedBegun ==
    ASSUME NEW n \in Nat \ {0}, NEW pattern1 \in Words
    PROVE  Begun(test_mov_inv_fixed(n, pattern1))
<1> DEFINE fill == Fill(pattern1, "none")
           up   == [March EXCEPT !.seed = pattern1]
           down == [March EXCEPT !.seed = Not(pattern1), !.up = FALSE]
<1>1. /\ Not(pattern1) \in Words /\ Not(Not(pattern1)) = pattern1
      /\ MODULO_N \in Nat \ {0, 1}
  BY NotNot, MemTestsAssumption
<1>2. /\ GoodPhase(up) /\ Sown(up) /\ Whole(up) /\ ~up.flip /\ up.seed = pattern1
      /\ up.turn = "none" /\ up.put = "inverse" /\ ~up.invert
  BY <1>1 DEF March, GoodPhase, Single, Sown, Whole, Spared, Turns
<1>3. /\ GoodPhase(down) /\ Sown(down) /\ Whole(down) /\ ~down.flip /\ down.seed = Not(pattern1)
      /\ down.turn = "none" /\ down.put = "inverse" /\ ~down.invert
  BY <1>1 DEF March, GoodPhase, Single, Sown, Whole, Spared, Turns
<1>4. /\ GoodPhase(fill) /\ Sown(fill) /\ Whole(fill) /\ ~fill.flip /\ fill.seed = pattern1
      /\ fill.turn = "none" /\ fill.put = "same" /\ ~fill.invert /\ Opens(fill)
  BY FillSown DEF Turns
<1> HIDE DEF fill, up, down
<1>5. Fits(fill, pattern1, up, pattern1)
  BY <1>2, <1>4, PlainBy, FitsMarch DEF Leaves, Want
<1>6. Fits(up, pattern1, down, Not(pattern1))
  BY <1>2, <1>3, PlainBy, FitsMarch DEF Leaves, Want
<1>7. Fits(down, Not(pattern1), up, pattern1)
  BY <1>1, <1>2, <1>3, PlainBy, FitsMarch DEF Leaves, Want
<1>8. Chain(<<fill>>, fill, fill, pattern1)
  BY <1>4, OneChain
<1>9. Chain(<<up, down>>, up, down, Not(pattern1))
  BY <1>2, <1>3, <1>6, TwoChain
<1>10. Chain(Times(n, <<up, down>>), up, down, Not(pattern1))
  BY <1>2, <1>7, <1>9, TimesChain
<1>11. Chain(<<fill>> \o Times(n, <<up, down>>), fill, down, Not(pattern1))
  BY <1>2, <1>5, <1>8, <1>10, ChainJoined
<1>12. test_mov_inv_fixed(n, pattern1) = <<fill>> \o Times(n, <<up, down>>)
  BY Zenon DEF test_mov_inv_fixed, fill, up, down
<1>13. QED
  BY <1>4, <1>11, <1>12 DEF Begun

LEMMA WalkBegun ==
    ASSUME NEW n \in Nat \ {0}, NEW offset \in Bits, NEW inverse \in BOOLEAN
    PROVE  Begun(test_mov_inv_walk1(n, offset, inverse))
<1> DEFINE first == IF inverse THEN Not({offset}) ELSE {offset}
           fill == Fill(first, "left")
           up   == [March EXCEPT !.seed = first, !.turn = "left"]
           down == [March EXCEPT !.flip = TRUE, !.turn = "right", !.up = FALSE]
<1>1. first \in Words /\ MODULO_N \in Nat \ {0, 1} /\ {} \in Words
  BY MemTestsAssumption DEF Words, Not
<1>2. test_mov_inv_walk1(n, offset, inverse) = <<fill>> \o Times(n, <<up, down>>)
  BY Zenon DEF test_mov_inv_walk1
<1> HIDE DEF first
<1>3. /\ GoodPhase(up) /\ Sown(up) /\ Whole(up) /\ ~up.flip /\ up.seed = first
      /\ up.turn = "left" /\ up.put = "inverse" /\ ~up.invert
  BY <1>1 DEF March, GoodPhase, Single, Sown, Whole, Spared, Turns
<1>4. /\ GoodPhase(down) /\ Sown(down) /\ Whole(down) /\ down.flip
      /\ down.turn = "right" /\ down.put = "inverse" /\ ~down.invert
  BY <1>1 DEF March, GoodPhase, Single, Sown, Whole, Spared, Turns
<1>5. /\ GoodPhase(fill) /\ Sown(fill) /\ Whole(fill) /\ ~fill.flip /\ fill.seed = first
      /\ fill.turn = "left" /\ fill.put = "same" /\ ~fill.invert /\ Opens(fill)
  BY <1>1, FillSown DEF Turns
<1> HIDE DEF fill, up, down
<1>6. Fits(fill, first, up, first)
  BY <1>3, <1>5, PlainBy, FitsMarch DEF Leaves, Want
<1>7. Fits(up, first, down, first)
  BY <1>3, <1>4, PlainBy, FitsMarch DEF Leaves, Want
<1>8. Fits(down, first, up, first)
  <2>1. ASSUME NEW w \in Windows, NEW v \in FirstWord(w) .. FinalWord(w)
        PROVE  Leaves(down, first, w, v) = Want(up, first, w, v)
    <3> DEFINE x == Orbit(RotL, first)[v - FirstWord(w)]
    <3>1. x \in Words
      BY <1>1, FirstWordNat, Orbits
    <3>2. Not(Not(x)) = x
      BY <3>1, NotNot
    <3>3. Plain(down, first, w, v) = Not(x) /\ Plain(up, first, w, v) = x
      BY <1>3, <1>4, PlainBy
    <3> HIDE DEF x
    <3>4. QED
      BY <1>3, <1>4, <3>2, <3>3 DEF Leaves, Want
  <2>2. QED
    BY <1>3, <1>4, <2>1, FitsMarch
<1>9. Chain(<<fill>>, fill, fill, first)
  BY <1>5, OneChain
<1>10. Chain(<<up, down>>, up, down, first)
  BY <1>3, <1>4, <1>7, TwoChain
<1>11. Chain(Times(n, <<up, down>>), up, down, first)
  BY <1>3, <1>8, <1>10, TimesChain
<1>12. Chain(<<fill>> \o Times(n, <<up, down>>), fill, down, first)
  BY <1>3, <1>6, <1>9, <1>11, ChainJoined
<1>13. QED
  BY <1>2, <1>5, <1>12 DEF Begun

LEMMA RandomBegun ==
    ASSUME NEW seed \in Words
    PROVE  Begun(test_mov_inv_random(seed))
<1> DEFINE fill == Fill(seed, "prsg")
           a == [March EXCEPT !.seed = seed, !.turn = "prsg"]
           b == [March EXCEPT !.seed = seed, !.turn = "prsg", !.invert = TRUE]
<1>1. MODULO_N \in Nat \ {0, 1}
  BY MemTestsAssumption
<1>2. /\ GoodPhase(a) /\ Sown(a) /\ Whole(a) /\ ~a.flip /\ a.seed = seed
      /\ a.turn = "prsg" /\ a.put = "inverse" /\ ~a.invert
  BY <1>1 DEF March, GoodPhase, Single, Sown, Whole, Spared, Turns
<1>3. /\ GoodPhase(b) /\ Sown(b) /\ Whole(b) /\ ~b.flip /\ b.seed = seed
      /\ b.turn = "prsg" /\ b.put = "inverse" /\ b.invert
  BY <1>1 DEF March, GoodPhase, Single, Sown, Whole, Spared, Turns
<1>4. /\ GoodPhase(fill) /\ Sown(fill) /\ Whole(fill) /\ ~fill.flip /\ fill.seed = seed
      /\ fill.turn = "prsg" /\ fill.put = "same" /\ ~fill.invert /\ Opens(fill)
  BY FillSown DEF Turns
<1>5. test_mov_inv_random(seed) = <<fill, a, b>>
  BY Zenon DEF test_mov_inv_random
<1> HIDE DEF fill, a, b
<1>6. Fits(fill, seed, a, seed)
  BY <1>2, <1>4, PlainBy, FitsMarch DEF Leaves, Want
<1>7. Fits(a, seed, b, seed)
  BY <1>2, <1>3, PlainBy, FitsMarch DEF Leaves, Want
<1>8. Chain(<<fill, a, b>>, fill, b, seed)
  BY <1>2, <1>3, <1>4, <1>6, <1>7, ThreeChain
<1>9. QED
  BY <1>4, <1>5, <1>8 DEF Begun

LEMMA ModuloBegun ==
    ASSUME NEW n \in Nat \ {0}, NEW pattern1 \in Words, NEW offset \in 0 .. MODULO_N - 1
    PROVE  Begun(test_modulo_n(n, pattern1, offset))
<1> DEFINE a == [Fill(pattern1, "none") EXCEPT !.kind = "nth", !.step = MODULO_N, !.off = offset]
           b == [Fill(Not(pattern1), "none") EXCEPT !.skip = offset]
           c == [Check(pattern1, "none") EXCEPT !.kind = "nth", !.step = MODULO_N, !.off = offset]
<1>1. /\ Not(pattern1) \in Words /\ Not(Not(pattern1)) = pattern1
      /\ MODULO_N \in Nat \ {0, 1}
  BY NotNot, MemTestsAssumption
<1>2. /\ GoodPhase(a) /\ Sown(a) /\ a.kind = "nth" /\ ~a.flip /\ a.seed = pattern1
      /\ a.off = offset /\ Opens(a) /\ ~Whole(a) /\ ~Spared(a)
  BY <1>1 DEF Fill, March, GoodPhase, Single, Sown, Whole, Spared, Turns, Opens
<1>3. /\ GoodPhase(b) /\ Sown(b) /\ b.kind = "march" /\ ~b.flip /\ b.seed = Not(pattern1)
      /\ b.skip = offset /\ ~Whole(b) /\ Spared(b)
  BY <1>1 DEF Fill, March, GoodPhase, Single, Sown, Whole, Spared, Turns
<1>4. /\ GoodPhase(c) /\ Sown(c) /\ c.kind = "nth" /\ ~c.flip /\ c.seed = pattern1
      /\ c.off = offset /\ ~Whole(c) /\ ~Spared(c)
  BY <1>1 DEF Check, March, GoodPhase, Single, Sown, Whole, Spared, Turns
<1>5. test_modulo_n(n, pattern1, offset) = <<a>> \o Times(n, <<b>>) \o <<c>>
  BY Zenon DEF test_modulo_n
<1> HIDE DEF a, b, c
<1>6. /\ Fits(a, pattern1, b, Not(pattern1)) /\ Fits(b, Not(pattern1), b, Not(pattern1))
      /\ Fits(b, Not(pattern1), c, pattern1)
  BY <1>1, <1>2, <1>3, <1>4 DEF Fits
<1>7. Chain(<<a>>, a, a, pattern1) /\ Chain(<<b>>, b, b, Not(pattern1))
      /\ Chain(<<c>>, c, c, pattern1)
  BY <1>2, <1>3, <1>4, OneChain
<1>8. Chain(Times(n, <<b>>), b, b, Not(pattern1))
  BY <1>3, <1>6, <1>7, TimesChain
<1>9. Chain(<<a>> \o Times(n, <<b>>), a, b, Not(pattern1))
  BY <1>3, <1>6, <1>7, <1>8, ChainJoined
<1>10. Chain((<<a>> \o Times(n, <<b>>)) \o <<c>>, a, c, pattern1)
  BY <1>4, <1>6, <1>7, <1>9, ChainJoined
<1>11. QED
  BY <1>2, <1>5, <1>10 DEF Begun

LEMMA BlockLinked ==
    ASSUME NEW n \in Nat \ {0}
    PROVE  Linked(test_block_move(n)) /\ test_block_move(n)[1].kind = "blocks"
<1> DEFINE a == [Fill({0}, "left") EXCEPT !.kind = "blocks", !.step = 16]
           b == [March EXCEPT !.kind = "move", !.repeat = n]
           c == [March EXCEPT !.kind = "pairs", !.step = 2]
<1>1. {0} \in Words /\ {} \in Words /\ MODULO_N \in Nat \ {0, 1}
  BY MemTestsAssumption DEF Words, Bits
<1>2. /\ GoodPhase(a) /\ Sown(a) /\ a.kind = "blocks" /\ ~a.flip
  BY <1>1 DEF Fill, March, GoodPhase, Single, Sown, Whole, Spared, Turns
<1>3. /\ GoodPhase(b) /\ Sown(b) /\ b.kind = "move" /\ ~b.flip
  BY <1>1 DEF March, GoodPhase, Single, Sown, Whole, Spared, Turns
<1>4. /\ GoodPhase(c) /\ Sown(c) /\ c.kind = "pairs" /\ ~c.flip
  BY <1>1 DEF March, GoodPhase, Single, Sown, Whole, Spared, Turns
<1>5. test_block_move(n) = <<a, b, c>>
  BY Zenon DEF test_block_move
<1> HIDE DEF a, b, c
<1>6. Fits(a, a.seed, b, b.seed) /\ Fits(b, b.seed, c, c.seed)
  BY <1>2, <1>3, <1>4 DEF Fits, Whole, Spared
<1>7. Chain(<<a, b, c>>, a, c, c.seed)
  BY <1>2, <1>3, <1>4, <1>6, ThreeChain
<1>8. QED
  BY <1>2, <1>5, <1>7 DEF Chain

LEMMA AddrLinked == Linked(test_addr_walk1) /\ test_addr_walk1[1].kind = "walk"
<1> DEFINE a == [March EXCEPT !.kind = "walk"]
           b == [March EXCEPT !.kind = "walk", !.invert = TRUE]
<1>1. {} \in Words /\ MODULO_N \in Nat \ {0, 1}
  BY MemTestsAssumption DEF Words
<1>2. /\ GoodPhase(a) /\ Sown(a) /\ a.kind = "walk" /\ ~a.flip
  BY <1>1 DEF March, GoodPhase, Single, Sown, Whole, Spared, Turns
<1>3. /\ GoodPhase(b) /\ Sown(b) /\ b.kind = "walk" /\ ~b.flip
  BY <1>1 DEF March, GoodPhase, Single, Sown, Whole, Spared, Turns
<1>4. test_addr_walk1 = <<a, b>>
  BY Zenon DEF test_addr_walk1
<1> HIDE DEF a, b
<1>5. Fits(a, a.seed, b, b.seed)
  BY <1>2, <1>3 DEF Fits, Whole, Spared
<1>6. Chain(<<a, b>>, a, b, b.seed)
  BY <1>2, <1>3, <1>5, TwoChain
<1>7. QED
  BY <1>2, <1>4, <1>6 DEF Chain

LEMMA OwnLinked == Begun(<<Fill({}, "own"), Check({}, "own")>>)
<1> DEFINE a == Fill({}, "own")
           b == Check({}, "own")
<1>1. {} \in Words
  BY DEF Words
<1>2. /\ GoodPhase(a) /\ Sown(a) /\ Whole(a) /\ ~a.flip /\ a.seed = {}
      /\ a.turn = "own" /\ a.put = "same" /\ ~a.invert /\ Opens(a)
  BY <1>1, FillSown DEF Turns
<1>3. /\ GoodPhase(b) /\ Sown(b) /\ Whole(b) /\ ~b.flip /\ b.seed = {}
      /\ b.turn = "own" /\ b.put = "none" /\ ~b.invert
  BY <1>1, FillSown DEF Turns
<1> HIDE DEF a, b
<1>4. Fits(a, {}, b, {})
  BY <1>2, <1>3, PlainBy, FitsMarch DEF Leaves, Want
<1>5. Chain(<<a, b>>, a, b, {})
  BY <1>2, <1>3, <1>4, TwoChain
<1>6. QED
  BY <1>2, <1>5 DEF Begun, a, b

Delay(n) == [March EXCEPT !.kind = "sleep", !.repeat = n]

LEMMA FadeList ==
    ASSUME NEW n \in Nat \ {0}
    PROVE  /\ test_bit_fade(0, n) = <<Fill({}, "none")>>
           /\ test_bit_fade(1, n) = <<Delay(n)>>
           /\ test_bit_fade(2, n) = <<Check({}, "none")>>
           /\ test_bit_fade(3, n) = <<Fill(Bits, "none")>>
           /\ test_bit_fade(4, n) = <<Delay(n)>>
           /\ test_bit_fade(5, n) = <<Check(Bits, "none")>>
<1> DEFINE a == <<Fill({}, "none")>>
           b == <<Delay(n)>>
           c == <<Check({}, "none")>>
           d == <<Fill(Bits, "none")>>
           e == <<Check(Bits, "none")>>
<1>1. \A st : test_bit_fade(st, n) = <<a, b, c, d, b, e>>[st + 1]
  BY Zenon DEF test_bit_fade, Delay
<1> HIDE DEF a, b, c, d, e
<1>2. /\ test_bit_fade(0, n) = a /\ test_bit_fade(1, n) = b /\ test_bit_fade(2, n) = c
      /\ test_bit_fade(3, n) = d /\ test_bit_fade(4, n) = b /\ test_bit_fade(5, n) = e
  BY <1>1
<1>3. QED
  BY <1>2, Zenon DEF a, b, c, d, e

\* The words that the phases of the calls for one test have left for others.
Stays(t, st, x) ==
    \/ t = 2 /\ st = 1 /\ x = Check({}, "own+window")
    \/ t = 10 /\ st = 2 /\ x = Check({}, "none")
    \/ t = 10 /\ st = 5 /\ x = Check(Bits, "none")

FirstPhase(t, st, x) == Opens(x) \/ x.kind \in {"walk", "blocks", "sleep"} \/ Stays(t, st, x)

LEMMA BegunFirst ==
    ASSUME NEW list, Begun(list), NEW t, NEW st
    PROVE  Linked(list) /\ FirstPhase(t, st, list[1])
  BY DEF Begun, Chain, FirstPhase

LEMMA OneFirst ==
    ASSUME NEW x, GoodPhase(x), Sown(x), ~x.flip, NEW t, NEW st, FirstPhase(t, st, x)
    PROVE  Linked(<<x>>) /\ FirstPhase(t, st, <<x>>[1])
  BY OneChain DEF Chain

LEMMA DelaySown ==
    ASSUME NEW n \in Nat \ {0}
    PROVE  GoodPhase(Delay(n)) /\ Sown(Delay(n)) /\ ~Delay(n).flip /\ Delay(n).kind = "sleep"
<1>1. {} \in Words /\ MODULO_N \in Nat \ {0, 1}
  BY MemTestsAssumption DEF Words
<1>2. QED
  BY <1>1 DEF Delay, March, GoodPhase, Single, Sown, Whole, Spared, Turns

LEMMA ReadingsOf ==
    /\ Readings(5) = [{1} -> Seeds] /\ Readings(9) = [{1} -> Seeds]
    /\ Readings(8) = [1 .. Iterations[8] -> Seeds]
<1>1. 5 # 8 /\ 9 # 8
  OBVIOUS
<1>2. QED
  BY <1>1, Zenon DEF Readings

LEMMA PhasesLinked ==
    ASSUME NEW t \in Tests, NEW st \in 0 .. Stages(t) - 1, NEW r \in Readings(t)
    PROVE  Linked(Phases(t, st, r)) /\ FirstPhase(t, st, Phases(t, st, r)[1])
<1> DEFINE good(list) == Linked(list) /\ FirstPhase(t, st, list[1])
<1>1. /\ \A u \in Tests : Iterations[u] \in Nat \ {0}
      /\ BYTE \in Nat \ {0} /\ TESTWORD_WIDTH \in Nat \ {0} /\ MODULO_N \in Nat \ {0, 1}
      /\ t \in 0 .. 10 /\ Seeds \subseteq Words
  BY MemTestsAssumption
<1>2. /\ {} \in Words /\ Bits \in Words /\ 0 .. TESTWORD_WIDTH - 1 = Bits
      /\ \A w \in Words : Not(w) \in Words
  BY NotNot DEF Words, Bits
<1>3. \A list : Begun(list) => good(list)
  BY BegunFirst
<1>4. \A n \in Nat \ {0} : \A a, b \in Words :
        Begun(test_mov_inv_fixed(n, a) \o test_mov_inv_fixed(n, b))
  BY FixedBegun, BegunJoined
<1>5. CASE t = 0
  <2>1. good(test_addr_walk1)
    BY AddrLinked DEF FirstPhase
  <2>2. QED
    BY <1>5, <2>1, Switch
<1>6. CASE t = 1
  <2>1. Phases(1, st, r) = <<Fill({}, "own"), Check({}, "own")>>
    BY Switch
  <2>2. Begun(Phases(t, st, r))
    BY <1>6, <2>1, OwnLinked
  <2>3. QED
    BY <1>3, <2>2
<1>7. CASE t = 2
  <2>1. /\ GoodPhase(Fill({}, "own+window")) /\ Sown(Fill({}, "own+window"))
        /\ ~Fill({}, "own+window").flip /\ Opens(Fill({}, "own+window"))
        /\ GoodPhase(Check({}, "own+window")) /\ Sown(Check({}, "own+window"))
        /\ ~Check({}, "own+window").flip
    BY <1>2, FillSown DEF Turns
  <2>2. Stages(2) = 2
    <3>1. 2 # 10
      OBVIOUS
    <3>2. QED
      BY <3>1, Zenon DEF Stages
  <2>3. st \in {0, 1}
    BY <1>7, <2>2
  <2>4. CASE st = 0
    <3>1. FirstPhase(t, st, Fill({}, "own+window"))
      BY <2>1 DEF FirstPhase
    <3>2. good(<<Fill({}, "own+window")>>)
      BY <2>1, <3>1, OneFirst
    <3>3. Phases(t, st, r) = <<Fill({}, "own+window")>>
      BY <1>7, <2>4, Switch
    <3>4. QED
      BY <3>2, <3>3
  <2>5. CASE st = 1
    <3>1. FirstPhase(t, st, Check({}, "own+window"))
      BY <1>7, <2>5 DEF FirstPhase, Stays
    <3>2. good(<<Check({}, "own+window")>>)
      BY <2>1, <3>1, OneFirst
    <3>3. Phases(t, st, r) = <<Check({}, "own+window")>>
      <4>1. Phases(2, st, r) = IF st = 0 THEN <<Fill({}, "own+window")>>
                                         ELSE <<Check({}, "own+window")>>
        BY Switch
      <4>2. st # 0
        BY <2>5
      <4>3. QED
        BY <1>7, <4>1, <4>2, Zenon
    <3>4. QED
      BY <3>2, <3>3
  <2>6. QED
    BY <2>3, <2>4, <2>5
<1>8. CASE t = 3
  <2> DEFINE n == Iterations[3]
  <2>1. n \in Nat \ {0}
    BY <1>1, <1>8
  <2>2. Phases(3, st, r) = test_mov_inv_fixed(n, {}) \o test_mov_inv_fixed(n, Bits)
    BY Switch
  <2> HIDE DEF n
  <2>3. Begun(Phases(3, st, r))
    BY <1>2, <1>4, <2>1, <2>2
  <2>4. QED
    BY <1>3, <1>8, <2>3
<1>9. CASE t = 4
  <2> DEFINE n == Iterations[4]
             s == [k \in 1 .. BYTE |-> Test4(n, k)]
  <2>1. ASSUME NEW k \in 1 .. BYTE PROVE Begun(Test4(n, k))
    <3> DEFINE pattern1 == {i \in Bits : i % BYTE = BYTE - k}
    <3>1. pattern1 \in Words
      BY DEF Words
    <3>2. n \in Nat \ {0}
      BY <1>1, <1>9
    <3>3. Test4(n, k) = test_mov_inv_fixed(n, pattern1) \o test_mov_inv_fixed(n, Not(pattern1))
      BY Zenon DEF Test4
    <3> HIDE DEF pattern1, n
    <3>4. QED
      BY <1>2, <1>4, <3>1, <3>2, <3>3
  <2>2. s = [k \in 1 .. BYTE |-> s[k]] /\ \A k \in 1 .. BYTE : s[k] = Test4(n, k)
    OBVIOUS
  <2> HIDE DEF s
  <2>3. Begun(FlattenSeq(s))
    BY <1>1, <2>1, <2>2, FlattenBegun
  <2>4. Phases(4, st, r) = FlattenSeq(s)
    BY Switch DEF s
  <2>5. QED
    BY <1>3, <1>9, <2>3, <2>4
<1>10. CASE t = 5
  <2> DEFINE n == Iterations[5]
             s == [i \in 1 .. n |-> test_mov_inv_fixed(2, Random(r[1], i))]
  <2>1. r[1] \in Words
    BY <1>1, <1>10, ReadingsOf
  <2>2. \A i \in 1 .. n : Random(r[1], i) \in Words
    BY <1>1, <1>10, <2>1, RandomWord
  <2>3. s = [i \in 1 .. n |-> s[i]]
        /\ \A i \in 1 .. n : s[i] = test_mov_inv_fixed(2, Random(r[1], i))
    OBVIOUS
  <2>4. \A i \in 1 .. n : Begun(s[i])
    BY <2>2, <2>3, FixedBegun
  <2> HIDE DEF s
  <2>5. Begun(FlattenSeq(s))
    BY <1>1, <1>10, <2>3, <2>4, FlattenBegun
  <2>6. Phases(5, st, r) = FlattenSeq(s)
    BY Switch DEF s
  <2>7. QED
    BY <1>3, <1>10, <2>5, <2>6
<1>11. CASE t = 6
  <2> DEFINE n == Iterations[6]
             Both(k) == test_mov_inv_walk1(n, k - 1, FALSE) \o test_mov_inv_walk1(n, k - 1, TRUE)
             s == [k \in 1 .. TESTWORD_WIDTH |-> Both(k)]
  <2>1. ASSUME NEW k \in 1 .. TESTWORD_WIDTH PROVE Begun(Both(k))
    <3>1. k - 1 \in Bits /\ n \in Nat \ {0}
      BY <1>1, <1>2, <1>11
    <3>2. QED
      BY <3>1, WalkBegun, BegunJoined
  <2>2. s = [k \in 1 .. TESTWORD_WIDTH |-> s[k]] /\ \A k \in 1 .. TESTWORD_WIDTH : s[k] = Both(k)
    OBVIOUS
  <2>3. Phases(6, st, r) = FlattenSeq(s)
    BY Switch, Zenon
  <2> HIDE DEF Both, s
  <2>4. Begun(FlattenSeq(s))
    BY <1>1, <2>1, <2>2, FlattenBegun
  <2>5. QED
    BY <1>3, <1>11, <2>3, <2>4
<1>12. CASE t = 7
  <2>1. Iterations[7] \in Nat \ {0}
    BY <1>1, <1>12
  <2>2. good(test_block_move(Iterations[7]))
    BY <2>1, BlockLinked DEF FirstPhase
  <2>3. QED
    BY <1>12, <2>2, Switch
<1>13. CASE t = 8
  <2> DEFINE n == Iterations[8]
             s == [i \in 1 .. n |-> test_mov_inv_random(r[i])]
  <2>1. \A i \in 1 .. n : r[i] \in Words
    BY <1>1, <1>13, ReadingsOf
  <2>2. s = [i \in 1 .. n |-> s[i]] /\ \A i \in 1 .. n : s[i] = test_mov_inv_random(r[i])
    OBVIOUS
  <2>3. \A i \in 1 .. n : Begun(s[i])
    BY <2>1, <2>2, RandomBegun
  <2> HIDE DEF s
  <2>4. Begun(FlattenSeq(s))
    BY <1>1, <1>13, <2>2, <2>3, FlattenBegun
  <2>5. Phases(8, st, r) = FlattenSeq(s)
    BY Switch DEF s
  <2>6. QED
    BY <1>3, <1>13, <2>4, <2>5
<1>14. CASE t = 9
  <2> DEFINE n == Iterations[9] * MODULO_N
             s == [i \in 1 .. n |-> Test9(r[1], i)]
  <2>1. n \in Nat \ {0}
    <3>1. Iterations[9] \in Nat \ {0}
      BY <1>1, <1>14
    <3> DEFINE a == Iterations[9]
    <3> HIDE DEF a
    <3>2. \A x, y \in Nat \ {0} : x * y \in Nat \ {0}
      OBVIOUS
    <3>3. QED
      BY <1>1, <3>1, <3>2
  <2>2. r[1] \in Words
    BY <1>1, <1>14, ReadingsOf
  <2>3. ASSUME NEW i \in 1 .. n PROVE Begun(Test9(r[1], i))
    <3> DEFINE pattern1 == Random(r[1], i)
               offset   == (i - 1) % MODULO_N
    <3>1. i \in Nat /\ offset \in 0 .. MODULO_N - 1
      BY <1>1, <2>1
    <3>2. pattern1 \in Words
      BY <2>2, <3>1, RandomWord
    <3>3. Test9(r[1], i) = test_modulo_n(2, pattern1, offset) \o test_modulo_n(2, Not(pattern1), offset)
      BY Zenon DEF Test9
    <3> HIDE DEF pattern1, offset
    <3>4. QED
      BY <1>2, <3>1, <3>2, <3>3, ModuloBegun, BegunJoined
  <2> HIDE DEF n
  <2>4. s = [i \in 1 .. n |-> s[i]] /\ \A i \in 1 .. n : s[i] = Test9(r[1], i)
    OBVIOUS
  <2> HIDE DEF s
  <2>5. Begun(FlattenSeq(s))
    BY <2>1, <2>3, <2>4, FlattenBegun
  <2>6. Phases(9, st, r) = FlattenSeq(s)
    BY Switch DEF s, n
  <2>7. QED
    BY <1>3, <1>14, <2>5, <2>6
<1>15. CASE t = 10
  <2>1. Stages(10) = 6
    <3>1. 10 # 2
      OBVIOUS
    <3>2. QED
      BY <3>1, Zenon DEF Stages
  <2>2. st \in 0 .. 5
    BY <1>15, <2>1
  <2> DEFINE n == Iterations[10]
  <2>3. Phases(10, st, r) = test_bit_fade(st, n) /\ n \in Nat \ {0}
    BY <1>1, <1>15, Switch
  <2> HIDE DEF n
  <2>4. \A w \in Words :
          /\ GoodPhase(Fill(w, "none")) /\ Sown(Fill(w, "none"))
          /\ ~Fill(w, "none").flip /\ Opens(Fill(w, "none"))
          /\ GoodPhase(Check(w, "none")) /\ Sown(Check(w, "none")) /\ ~Check(w, "none").flip
    BY FillSown DEF Turns
  <2>5. \A w \in Words : good(<<Fill(w, "none")>>)
    BY <2>4, OneFirst DEF FirstPhase
  <2>6. good(<<Delay(n)>>)
    BY <2>3, DelaySown, OneFirst DEF FirstPhase
  <2>7. st = 2 => good(<<Check({}, "none")>>)
    BY <1>2, <1>15, <2>4, OneFirst DEF FirstPhase, Stays
  <2>8. st = 5 => good(<<Check(Bits, "none")>>)
    BY <1>2, <1>15, <2>4, OneFirst DEF FirstPhase, Stays
  <2> HIDE DEF good
  <2>9. good(test_bit_fade(st, n))
    <3>1. CASE st \in {0, 1, 3, 4}
      BY <1>2, <2>3, <2>5, <2>6, <3>1, FadeList
    <3>2. CASE st \in {2, 5}
      BY <2>3, <2>7, <2>8, <3>2, FadeList
    <3>3. QED
      BY <2>2, <3>1, <3>2
  <2>10. QED
    BY <1>15, <2>3, <2>9 DEF good
<1>16. QED
  BY <1>1, <1>5, <1>6, <1>7, <1>8, <1>9, <1>10, <1>11, <1>12, <1>13, <1>14, <1>15

-----------------------------------------------------------------------------
(***************************************************************************)
(* The cells behind the words of a window.                                 *)
(***************************************************************************)
CellIn(w, v) ==
    page_of(v \div PAGE_WORDS, WindowOf(Segments[w].first)) * PAGE_WORDS + (v % PAGE_WORDS)

LEMMA PageOfWord ==
    ASSUME NEW n \in Nat \ {0}, NEW a \in Nat, NEW b \in Nat, NEW v \in a * n .. b * n + n - 1
    PROVE  /\ v \div n \in a .. b /\ v % n \in 0 .. n - 1
           /\ v = (v \div n) * n + (v % n)
<1>1. a * n \in Nat /\ b * n \in Nat
  OBVIOUS
<1>2. v \in Nat
  BY <1>1
<1>3. v \div n \in Nat /\ v % n \in 0 .. n - 1 /\ v = n * (v \div n) + (v % n)
  BY <1>2
<1> DEFINE k == v \div n
           r == v % n
<1> HIDE DEF k, r
<1>4. k \in Nat /\ r \in 0 .. n - 1 /\ v = k * n + r
  BY <1>3 DEF k, r
<1>5. a <= k
  <2> SUFFICES ASSUME k < a PROVE FALSE
    BY <1>4
  <2>1. PICK d \in Nat : a = k + 1 + d
    <3>1. a - k - 1 \in Nat /\ a = k + 1 + (a - k - 1)
      BY <1>4
    <3>2. QED
      BY <3>1
  <2>2. a * n = k * n + n + d * n /\ d * n \in Nat /\ k * n \in Nat
    BY <1>4, <2>1
  <2>3. QED
    BY <1>1, <1>4, <2>2
<1>6. k <= b
  <2> SUFFICES ASSUME b < k PROVE FALSE
    BY <1>4
  <2>1. PICK d \in Nat : k = b + 1 + d
    <3>1. k - b - 1 \in Nat /\ k = b + 1 + (k - b - 1)
      BY <1>4
    <3>2. QED
      BY <3>1
  <2>2. k * n = b * n + n + d * n /\ d * n \in Nat
    BY <1>4, <2>1
  <2>3. QED
    BY <1>1, <1>4, <2>2
<1>7. QED
  BY <1>4, <1>5, <1>6 DEF k, r

LEMMA CellsOf ==
    ASSUME NEW w \in Windows, NEW v \in FirstWord(w) .. FinalWord(w)
    PROVE  /\ CellIn(w, v) = v - FirstWord(w) + Segments[w].first * PAGE_WORDS
           /\ CellIn(w, v) \in SegmentCells(w)
           /\ v \in Nat /\ FirstWord(w) \in Nat /\ Segments[w].first * PAGE_WORDS \in Nat
           /\ FinalWord(w) - FirstWord(w)
                = Segments[w].last * PAGE_WORDS + PAGE_WORDS - 1 - Segments[w].first * PAGE_WORDS
<1> DEFINE a == Segments[w].first
           b == Segments[w].last
           n == PAGE_WORDS
           W == VM_WINDOW_SIZE
           x == first_word_mapping(a)
           y == first_word_mapping(b)
           g == v \div n
           m == v % n
           h == a \div W
           e == a % W
<1>1. /\ a \in Nat /\ b \in Nat /\ a <= b /\ WindowOf(a) = WindowOf(b)
      /\ n \in Nat \ {0} /\ W \in Nat \ {0} /\ VM_PINNED_SIZE = 2 * W
  BY MemTestsAssumption, VmemAssumption
<1>2. x \in Nat /\ y \in Nat
  BY <1>1, MappedInOrder
<1>3. FirstWord(w) = x * n /\ FinalWord(w) = y * n + n - 1
  BY DEF FirstWord, FinalWord
<1>4. CellIn(w, v) = page_of(g, WindowOf(a)) * n + m
  BY DEF CellIn
<1>5. v \in x * n .. y * n + n - 1
  BY <1>3
<1>6. x = (IF a < 2 * W THEN a ELSE 2 * W + e) /\ WindowOf(a) = h
      /\ y = (IF b < 2 * W THEN b ELSE 2 * W + (b % W)) /\ WindowOf(b) = b \div W
  BY <1>1 DEF first_word_mapping, WindowOf
<1>7. page_of(g, h) = IF g < 2 * W THEN g ELSE (g % W) + h * W
  BY <1>1 DEF page_of
<1>8. SegmentCells(w) = a * n .. b * n + n - 1
  BY DEF SegmentCells
<1> HIDE DEF a, b, n, W, x, y
<1>9. g \in x .. y /\ m \in 0 .. n - 1 /\ v = g * n + m
  BY <1>1, <1>2, <1>5, PageOfWord
<1>10. /\ h \in Nat /\ e \in 0 .. W - 1 /\ a = h * W + e
       /\ b % W \in 0 .. W - 1 /\ b = h * W + (b % W)
  <2>1. h = b \div W
    BY <1>1, <1>6
  <2>2. \A k \in Nat : k \div W \in Nat /\ k % W \in 0 .. W - 1 /\ k = (k \div W) * W + (k % W)
    BY <1>1
  <2>3. QED
    BY <1>1, <2>1, <2>2
<1>11. (a < 2 * W <=> h < 2) /\ (b < 2 * W <=> b \div W < 2)
  BY <1>1
<1>12. a < 2 * W <=> b < 2 * W
  BY <1>1, <1>6, <1>11
<1>13. y - x = b - a
  BY <1>1, <1>6, <1>10, <1>12
<1> HIDE DEF g, m, h, e
<1>14. page_of(g, h) = g - x + a
  <2>1. CASE a < 2 * W
    BY <1>1, <1>2, <1>6, <1>7, <1>9, <1>12, <2>1
  <2>2. CASE ~(a < 2 * W)
    <3>1. x = 2 * W + e /\ y = 2 * W + (b % W)
      BY <1>6, <1>12, <2>2
    <3>2. PICK r \in 0 .. W - 1 : g = 2 * W + r
      <4>1. g - 2 * W \in 0 .. W - 1 /\ g = 2 * W + (g - 2 * W)
        BY <1>1, <1>9, <1>10, <3>1
      <4>2. QED
        BY <4>1
    <3>3. g % W = r
      BY <1>1, <3>2
    <3>4. page_of(g, h) = r + h * W
      BY <1>1, <1>7, <3>2, <3>3
    <3>5. h * W \in Nat
      BY <1>1, <1>10
    <3>6. QED
      BY <1>1, <1>10, <3>1, <3>2, <3>4, <3>5
  <2>3. QED
    BY <2>1, <2>2
<1>15. (g - x + a) * n = g * n - x * n + a * n /\ g * n \in Nat /\ x * n \in Nat /\ a * n \in Nat
       /\ b * n \in Nat /\ y * n \in Nat
  BY <1>1, <1>2, <1>9
<1>16. CellIn(w, v) = v - x * n + a * n
  BY <1>1, <1>4, <1>6, <1>9, <1>14, <1>15
<1>17. y * n - x * n = b * n - a * n
  <2>1. (y - x) * n = y * n - x * n /\ (b - a) * n = b * n - a * n
    BY <1>1, <1>2
  <2>2. QED
    BY <1>13, <2>1
<1>18. CellIn(w, v) \in SegmentCells(w)
  BY <1>1, <1>5, <1>8, <1>15, <1>16, <1>17
<1>19. FinalWord(w) - FirstWord(w) = b * n + n - 1 - a * n
  <2> DEFINE an == a * n
             bn == b * n
             xn == x * n
             yn == y * n
  <2>1. yn - xn = bn - an /\ FirstWord(w) = xn /\ FinalWord(w) = yn + n - 1
    BY <1>3, <1>17
  <2>2. an \in Nat /\ bn \in Nat /\ xn \in Nat /\ yn \in Nat /\ n \in Nat
    BY <1>1, <1>15
  <2> HIDE DEF an, bn, xn, yn
  <2>3. FinalWord(w) - FirstWord(w) = bn + n - 1 - an
    BY <2>1, <2>2
  <2>4. QED
    BY <2>3 DEF an, bn
<1>20. v \in Nat /\ FirstWord(w) \in Nat /\ CellIn(w, v) = v - FirstWord(w) + a * n
  BY <1>3, <1>5, <1>15, <1>16
<1>21. QED
  BY <1>15, <1>18, <1>19, <1>20 DEF a, b, n

LEMMA SegmentsApart ==
    ASSUME NEW u \in Windows, NEW w \in Windows, u # w
    PROVE  SegmentCells(u) \cap SegmentCells(w) = {}
<1>1. ASSUME NEW i \in Windows, NEW j \in Windows, i < j, NEW c \in SegmentCells(i)
      PROVE  c \notin SegmentCells(j)
  <2> DEFINE b == Segments[i].last
             a == Segments[j].first
             n == PAGE_WORDS
  <2>1. a \in Nat /\ b \in Nat /\ b < a /\ n \in Nat /\ c <= b * n + n - 1
        /\ Segments[i].first \in Nat
    BY <1>1, MemTestsAssumption DEF SegmentCells
  <2>2. c \in Int
    BY <2>1, MemTestsAssumption DEF SegmentCells
  <2>3. c \in SegmentCells(j) => c >= a * n
    BY DEF SegmentCells
  <2> HIDE DEF a, b, n
  <2>4. PICK d \in Nat : a = b + 1 + d
    <3>1. a - b - 1 \in Nat /\ a = b + 1 + (a - b - 1)
      BY <2>1
    <3>2. QED
      BY <3>1
  <2>5. a * n = b * n + n + d * n /\ d * n \in Nat /\ b * n \in Nat
    BY <2>1, <2>4
  <2>6. QED
    BY <2>1, <2>2, <2>3, <2>5
<1>2. u \in Int /\ w \in Int
  BY MemTestsAssumption DEF Windows
<1>3. QED
  BY <1>1, <1>2

\* The words of the window that is tested.
LEMMA RangeCells ==
    ASSUME window \in Windows
    PROVE  /\ Start = FirstWord(window) /\ LastWord = FinalWord(window)
           /\ \A v : Cell(v) = CellIn(window, v)
           /\ \A v \in Start .. LastWord : Cell(v) \in SegmentCells(window) /\ Cell(v) \in Cells
           /\ \A u, v \in Start .. LastWord : Cell(u) = Cell(v) => u = v
<1>1. Start = FirstWord(window) /\ LastWord = FinalWord(window)
  BY DEF Start, LastWord, FirstWord, FinalWord, Base
<1>2. \A v : Cell(v) = CellIn(window, v)
  BY DEF Cell, CellIn, Base
<1>3. \A v \in Start .. LastWord :
        /\ Cell(v) = v - Start + Segments[window].first * PAGE_WORDS
        /\ Cell(v) \in SegmentCells(window)
        /\ v \in Nat /\ Start \in Nat /\ Segments[window].first * PAGE_WORDS \in Nat
  BY <1>1, <1>2, CellsOf
<1>4. \A v \in Start .. LastWord : Cell(v) \in Cells
  BY <1>3 DEF Cells
<1> DEFINE k == Segments[window].first * PAGE_WORDS
<1> HIDE DEF k
<1>5. \A v \in Start .. LastWord : Cell(v) = v - Start + k /\ v \in Nat /\ Start \in Nat /\ k \in Nat
  BY <1>3 DEF k
<1>6. ASSUME NEW u \in Start .. LastWord, NEW v \in Start .. LastWord, Cell(u) = Cell(v)
      PROVE  u = v
  BY <1>5, <1>6
<1>7. QED
  BY <1>1, <1>2, <1>3, <1>4, <1>6

-----------------------------------------------------------------------------
(***************************************************************************)
(* A cell that the fault has nothing to do with is as good as memory can   *)
(* be: it is read as it was written, and written only when it is meant.    *)
(***************************************************************************)
LEMMA FaultyBy ==
    /\ fault.kind \in {"stuck", "fade"} => FaultyCells = {fault.cell}
    /\ fault.kind \in {"alias", "couple"} => FaultyCells = {fault.cell, fault.other}
    /\ fault.kind = "none" => FaultyCells = {}
  BY Zenon DEF FaultyCells

LEMMA SoundHits ==
    ASSUME NEW c, NEW d, d \notin FaultyCells
    PROVE  d \in Hits(c) <=> d = c
<1>1. CASE fault.kind = "alias" /\ c = fault.cell
  <2>1. Hits(c) = {fault.other}
    BY <1>1, Zenon DEF Hits
  <2>2. FaultyCells = {fault.cell, fault.other}
    BY <1>1, FaultyBy
  <2>3. QED
    BY <1>1, <2>1, <2>2
<1>2. CASE fault.kind = "couple" /\ c = fault.cell
  <2>1. Hits(c) = {c, fault.other}
    BY <1>2, Zenon DEF Hits
  <2>2. FaultyCells = {fault.cell, fault.other}
    BY <1>2, FaultyBy
  <2>3. QED
    BY <1>2, <2>1, <2>2
<1>3. CASE ~(fault.kind \in {"alias", "couple"} /\ c = fault.cell)
  <2>1. Hits(c) = {c}
    BY <1>3, Zenon DEF Hits
  <2>2. QED
    BY <2>1
<1>4. QED
  BY <1>1, <1>2, <1>3

LEMMA SoundRead ==
    ASSUME NEW m, NEW v, Cell(v) \notin FaultyCells
    PROVE  Read(m, v) = m[Cell(v)]
<1>1. ~(fault.kind \in {"stuck", "alias"} /\ Cell(v) = fault.cell)
  BY FaultyBy
<1>2. QED
  BY <1>1, Zenon DEF Read

LEMMA SoundWrite ==
    ASSUME NEW m, NEW v, NEW x
    PROVE  /\ DOMAIN write_word(m, v, x) = DOMAIN m
           /\ \A c \in DOMAIN m : c \notin FaultyCells =>
                write_word(m, v, x)[c] = IF c = Cell(v) THEN x ELSE m[c]
<1> DEFINE f == [c \in DOMAIN m |-> IF c \in Hits(Cell(v)) THEN x ELSE m[c]]
<1>1. write_word(m, v, x) = f
  BY DEF write_word
<1>2. \A c \in DOMAIN m : c \notin FaultyCells => (c \in Hits(Cell(v)) <=> c = Cell(v))
  BY SoundHits
<1>3. QED
  BY <1>1, <1>2

LEMMA WritesWhole ==
    ASSUME window \in Windows, fault.kind = "none", NEW m, DOMAIN m = Cells,
           NEW f, DOMAIN f \subseteq Start .. LastWord
    PROVE  /\ DOMAIN write_words(m, f) = Cells
           /\ \A v \in Start .. LastWord :
                write_words(m, f)[Cell(v)] = IF v \in DOMAIN f THEN f[v] ELSE m[Cell(v)]
<1> DEFINE D == DOMAIN f
           hit == [v \in D |-> Hits(Cell(v))]
           hits(c) == {v \in D : c \in hit[v]}
           written == UNION {hit[v] : v \in D}
           last(c) == CHOOSE v \in hits(c) : \A u \in hits(c) : u <= v
           g == [c \in DOMAIN m |-> IF c \in written THEN f[last(c)] ELSE m[c]]
<1>1. write_words(m, f) = g
  BY DEF write_words
<1>2. \A v \in D : hit[v] = {Cell(v)}
  <2>1. FaultyCells = {}
    BY FaultyBy
  <2>2. \A c, d : d \in Hits(c) <=> d = c
    BY <2>1, SoundHits
  <2>3. QED
    BY <2>2
<1> HIDE DEF hit
<1>3. ASSUME NEW v \in Start .. LastWord
      PROVE  g[Cell(v)] = IF v \in D THEN f[v] ELSE m[Cell(v)]
  <2>1. /\ Cell(v) \in DOMAIN m
        /\ \A u \in D : Cell(u) = Cell(v) => u = v
    BY RangeCells
  <2>2. Cell(v) \in written <=> v \in D
    BY <1>2, <2>1
  <2>3. CASE v \in D
    <3>1. hits(Cell(v)) = {v}
      BY <1>2, <2>1, <2>3
    <3>2. v <= v
      BY RangeOfWindow
    <3> HIDE DEF hits
    <3>3. last(Cell(v)) = v
      BY <3>1, <3>2
    <3> HIDE DEF last, written
    <3>4. QED
      BY <2>1, <2>2, <2>3, <3>3
  <2>4. CASE v \notin D
    <3> HIDE DEF hits, written
    <3>1. QED
      BY <2>1, <2>2, <2>4
  <2>5. QED
    BY <2>3, <2>4
<1>4. DOMAIN g = DOMAIN m
  OBVIOUS
<1> HIDE DEF g
<1>5. QED
  BY <1>1, <1>3, <1>4

-----------------------------------------------------------------------------
(***************************************************************************)
(* The inductive invariant.  While a phase goes on, its pattern is what    *)
(* the next word is to be compared with; the words behind hold what the    *)
(* phase leaves, and those ahead what it expects.  Between two phases the  *)
(* words hold what the last one has left, and between two calls what the   *)
(* stages of tests 2 and 10 have left in the other windows.  All this of   *)
(* the cells that the fault has nothing to do with.                        *)
(***************************************************************************)
SeedNow == SeedOf(phases, phase)

Holds(v, x) == Cell(v) \notin FaultyCells => mem[Cell(v)] = x

\* The words that the strides from off visit.
Strides(off) ==
    {v \in Start .. LastWord :
        (v - Start) % MODULO_N = off /\ (v = Start + off \/ v + MODULO_N <= LastWord)}

Twins(v) == v % 2 = 0 => mem[Cell(v)] = mem[Cell(v + 1)]

Paired == fault.kind = "none" => \A v \in Start .. LastWord : Twins(v)

LeftBy(ph, s) ==
    /\ Whole(ph) => \A v \in Start .. LastWord : Holds(v, Leaves(ph, s, window, v))
    /\ Whole(ph) /\ ph.turn = "left" => pattern = Orbit(RotL, s)[LastWord - Start + 1]
    /\ Spared(ph) => \A v \in Strides(ph.skip) : Holds(v, Not(ph.seed))
    /\ ph.kind = "nth" => \A v \in Strides(ph.off) : Holds(v, ph.seed)
    /\ ph.kind \in {"blocks", "move", "pairs"} => Paired

Ready(ph, s) ==
    /\ ph.flip => pattern = Orbit(RotL, s)[LastWord - Start + 1]
    /\ Whole(ph) /\ ph.check => \A v \in Start .. LastWord : Holds(v, Want(ph, s, window, v))
    /\ Spared(ph) => \A v \in Strides(ph.skip) : Holds(v, Not(ph.seed))
    /\ ph.kind = "nth" /\ ph.check => \A v \in Strides(ph.off) : Holds(v, ph.seed)
    /\ ph.kind \in {"move", "pairs"} => Paired

PhasesInv ==
    /\ \E r \in Readings(test) : phases = Phases(test, stage, r)
    /\ phase \in 1 .. Len(phases) + 1

MemInv == DOMAIN mem = Cells

\* What the pattern x is when the next word is the kth of the window.
Carried(ph, s, x, k) ==
    CASE ph.turn = "left"  -> Orbit(RotL, s)[k]
      [] ph.turn = "right" -> Not(Orbit(RotL, s)[k + 1])
      [] ph.turn = "prsg"  -> Orbit(Prsg, s)[k]
      [] ph.turn \in {"own", "own+window"} -> x
      [] OTHER -> s

Behind(v) == IF Cur.up THEN v < p ELSE v > p

WholeInv ==
    /\ pattern = Carried(Cur, SeedNow, pattern, p - Start)
    /\ \A v \in Start .. LastWord :
         /\ Behind(v) => Holds(v, Leaves(Cur, SeedNow, window, v))
         /\ ~Behind(v) /\ Cur.check => Holds(v, Want(Cur, SeedNow, window, v))

SparedInv == pattern = Cur.seed /\ \A v \in Strides(Cur.skip) : Holds(v, Not(Cur.seed))

NthInv ==
    /\ pattern = Cur.seed
    /\ p >= Start + Cur.off /\ (p - Start) % MODULO_N = Cur.off
    /\ p = Start + Cur.off \/ p + MODULO_N <= LastWord
    /\ pc = "tick" => p > pe - MODULO_N
    /\ \A v \in Strides(Cur.off) :
         Cur.check \/ v < p \/ (pc = "tick" /\ v = p) => Holds(v, Cur.seed)

BlocksInv ==
    /\ pc = "tick" => p + 15 = pe
    /\ fault.kind = "none" =>
         \A v \in Start .. LastWord : v < p \/ (pc = "tick" /\ v <= pe) => Twins(v)

MoveInv == Paired /\ pe % 16 = 15

WalkInv ==
    /\ pc = "tick" => q = 0
    /\ q > 0 /\ fault.kind = "none" =>
         mem[Cell(Masked(p))] = WalkValue(Masked(p), Cur.invert)

WorkInv ==
    my_cpu = 0 /\ pc \in {"words", "tick"} =>
        /\ Whole(Cur) => WholeInv
        /\ Spared(Cur) => SparedInv
        /\ Cur.kind = "nth" => NthInv
        /\ Cur.kind = "blocks" => BlocksInv
        /\ Cur.kind = "move" => MoveInv
        /\ Cur.kind = "pairs" => Paired
        /\ Cur.kind = "walk" => WalkInv

RestInv ==
    my_cpu = 0 /\ pc = "call" /\ phase > 1 =>
        LeftBy(phases[phase - 1], SeedOf(phases, phase - 1))

\* What tests 2 and 10 keep in a window from one stage to the next.
Kept(w, v) ==
    IF test = 2 THEN Number(v + OffsetOf(w) * PAGE_WORDS)
    ELSE IF stage < 3 THEN {} ELSE Bits

Filling == stage = 0 \/ (test = 10 /\ stage = 3)

Stored(w) ==
    \A v \in FirstWord(w) .. FinalWord(w) :
        CellIn(w, v) \notin FaultyCells => mem[CellIn(w, v)] = Kept(w, v)

StoreInv ==
    my_cpu = 0 /\ test \in {2, 10} /\ pc \in {"call", "words", "tick"} =>
        \A w \in Windows : w < window \/ ~Filling => Stored(w)

PatternInv == PhasesInv /\ MemInv /\ WorkInv /\ RestInv /\ StoreInv

ErrorsInv == NoFalseAlarm /\ BlamesTheFault

-----------------------------------------------------------------------------
LEMMA ListLinked ==
    ASSUME CallInv, PhasesInv
    PROVE  Linked(phases) /\ FirstPhase(test, stage, phases[1])
<1>1. PICK r \in Readings(test) : phases = Phases(test, stage, r)
  BY DEF PhasesInv
<1>2. QED
  BY <1>1, PhasesLinked DEF CallInv

LEMMA CurLinked ==
    ASSUME CallInv, PhasesInv, phase <= Len(phases)
    PROVE  /\ GoodPhase(Cur) /\ Sown(Cur) /\ SeedNow \in Words
           /\ ~Cur.flip => SeedNow = Cur.seed
           /\ phase > 1 => Fits(phases[phase - 1], SeedOf(phases, phase - 1), Cur, SeedNow)
           /\ phase = 1 => ~Cur.flip /\ FirstPhase(test, stage, Cur)
<1>1. Linked(phases) /\ FirstPhase(test, stage, phases[1])
  BY ListLinked
<1>2. Len(phases) \in Nat /\ phase \in 1 .. Len(phases)
  BY <1>1, ListOf DEF PhasesInv, Linked
<1>3. /\ \A i \in 1 .. Len(phases) : Sown(phases[i])
      /\ ~phases[1].flip
      /\ \A i \in 2 .. Len(phases) :
           Fits(phases[i - 1], SeedOf(phases, i - 1), phases[i], SeedOf(phases, i))
  BY <1>1 DEF Linked
<1>4. Sown(Cur) /\ GoodPhase(Cur)
  BY <1>2, <1>3, CurGood DEF Cur
<1>5. SeedNow \in Words
  <2>1. CASE Cur.flip
    <3>1. phase - 1 \in 1 .. Len(phases) /\ SeedNow = phases[phase - 1].seed
      BY <1>2, <1>3, <2>1 DEF Cur, SeedNow, SeedOf
    <3>2. QED
      BY <1>3, <3>1 DEF Sown
  <2>2. CASE ~Cur.flip
    BY <1>4, <2>2 DEF Cur, SeedNow, SeedOf, Sown
  <2>3. QED
    BY <2>1, <2>2
<1>6. ~Cur.flip => SeedNow = Cur.seed
  BY DEF Cur, SeedNow, SeedOf
<1>7. ASSUME phase > 1
      PROVE  Fits(phases[phase - 1], SeedOf(phases, phase - 1), Cur, SeedNow)
  <2>1. phase \in 2 .. Len(phases)
    BY <1>2, <1>7
  <2>2. QED
    BY <1>3, <2>1 DEF Cur, SeedNow
<1>8. phase = 1 => ~Cur.flip /\ FirstPhase(test, stage, Cur)
  BY <1>1, <1>3 DEF Cur
<1>9. QED
  BY <1>4, <1>5, <1>6, <1>7, <1>8

LEMMA RangeFacts ==
    ASSUME CallInv
    PROVE  /\ Start \in Nat /\ LastWord \in Nat /\ Start % 16 = 0 /\ LastWord % 16 = 15
           /\ Start + MODULO_N <= LastWord /\ Start + 15 <= LastWord /\ MODULO_N \in Nat \ {0, 1}
           /\ Start = FirstWord(window) /\ LastWord = FinalWord(window) /\ window \in Windows
  BY RangeOfWindow, RangeCells, MemTestsAssumption DEF CallInv

-----------------------------------------------------------------------------
(***************************************************************************)
(* A phase finds what it expects.                                          *)
(***************************************************************************)
LEMMA FitsReady ==
    ASSUME CallInv, NEW a, NEW s, NEW b, NEW u, LeftBy(a, s), Fits(a, s, b, u)
    PROVE  Ready(b, u)
<1>1. b.flip => pattern = Orbit(RotL, u)[LastWord - Start + 1]
  BY DEF LeftBy, Fits
<1>2. ASSUME Whole(b), b.check, NEW v \in Start .. LastWord
      PROVE  Holds(v, Want(b, u, window, v))
  <2>1. Whole(a) /\ Leaves(a, s, window, v) = Want(b, u, window, v)
    BY <1>2, RangeFacts DEF Fits
  <2>2. Holds(v, Leaves(a, s, window, v))
    BY <2>1 DEF LeftBy
  <2>3. QED
    BY <2>1, <2>2
<1>3. Spared(b) => \A v \in Strides(b.skip) : Holds(v, Not(b.seed))
  BY DEF LeftBy, Fits
<1>4. b.kind = "nth" /\ b.check => \A v \in Strides(b.off) : Holds(v, b.seed)
  BY DEF LeftBy, Fits
<1>5. b.kind \in {"move", "pairs"} => Paired
  BY DEF LeftBy, Fits
<1>6. QED
  BY <1>1, <1>2, <1>3, <1>4, <1>5 DEF Ready

LEMMA StoreReady ==
    ASSUME CallInv, StoreInv, my_cpu = 0, pc = "call", NEW ph, NEW s,
           Stays(test, stage, ph), s = ph.seed
    PROVE  Ready(ph, s)
<1>1. {} \in Words /\ Bits \in Words
  BY WordsClosed
<1>2. test \in {2, 10} /\ ~Filling
  BY DEF Stays, Filling
<1>3. Stored(window)
  BY <1>2, RangeFacts DEF StoreInv
<1>4. \A v \in Start .. LastWord : Holds(v, Kept(window, v))
  BY <1>3, RangeFacts, RangeCells DEF Stored, Holds
<1>5. PICK turn \in {"none", "own+window"}, x \in {{}, Bits} : ph = Check(x, turn)
  BY DEF Stays
<1>6. Whole(ph) /\ ~ph.flip /\ ph.seed = x /\ ph.turn = turn /\ ~ph.invert
  BY <1>1, <1>5, FillSown DEF Turns
<1>7. ASSUME NEW v PROVE Want(ph, s, window, v) = Kept(window, v)
  <2>1. Want(ph, s, window, v) = Plain(ph, s, window, v)
    BY <1>6 DEF Want
  <2>2. CASE test = 2
    <3>1. ph.turn = "own+window"
      <4>1. ph = Check({}, "own+window")
        BY <2>2 DEF Stays
      <4>2. QED
        BY <4>1, <1>1, FillSown DEF Turns
    <3>2. QED
      BY <2>1, <2>2, <3>1, PlainBy DEF Kept
  <2>3. CASE test = 10
    <3>1. ph.turn = "none" /\ ph.seed = IF stage < 3 THEN {} ELSE Bits
      <4>1. CASE stage = 2 /\ ph = Check({}, "none")
        BY <4>1, <1>1, FillSown DEF Turns
      <4>2. CASE stage = 5 /\ ph = Check(Bits, "none")
        BY <4>2, <1>1, FillSown DEF Turns
      <4>3. QED
        BY <2>3, <4>1, <4>2 DEF Stays
    <3>2. QED
      BY <2>1, <2>3, <3>1, PlainBy DEF Kept
  <2>4. QED
    BY <1>2, <2>2, <2>3
<1>8. QED
  BY <1>4, <1>6, <1>7 DEF Ready, Whole, Spared

LEMMA PhaseReady ==
    ASSUME CallInv, PatternInv, my_cpu = 0, pc = "call", phase <= Len(phases)
    PROVE  Ready(Cur, SeedNow)
<1>1. /\ Sown(Cur) /\ (~Cur.flip => SeedNow = Cur.seed)
      /\ phase > 1 => Fits(phases[phase - 1], SeedOf(phases, phase - 1), Cur, SeedNow)
      /\ phase = 1 => ~Cur.flip /\ FirstPhase(test, stage, Cur)
  BY CurLinked DEF PatternInv
<1>2. CASE phase > 1
  BY <1>1, <1>2, FitsReady DEF PatternInv, RestInv
<1>3. CASE ~(phase > 1)
  <2>1. phase = 1
    BY <1>3 DEF CallInv
  <2>2. CASE Stays(test, stage, Cur)
    BY <1>1, <2>1, <2>2, StoreReady DEF PatternInv
  <2>3. CASE ~Stays(test, stage, Cur)
    BY <1>1, <2>1, <2>3 DEF FirstPhase, Opens, Ready, Whole, Spared
  <2>4. QED
    BY <2>2, <2>3
<1>4. QED
  BY <1>2, <1>3

LEMMA CarriedBy ==
    ASSUME NEW ph, NEW s, NEW x, NEW k
    PROVE  /\ ph.turn = "none"  => Carried(ph, s, x, k) = s
           /\ ph.turn = "left"  => Carried(ph, s, x, k) = Orbit(RotL, s)[k]
           /\ ph.turn = "right" => Carried(ph, s, x, k) = Not(Orbit(RotL, s)[k + 1])
           /\ ph.turn = "prsg"  => Carried(ph, s, x, k) = Orbit(Prsg, s)[k]
           /\ ph.turn \in {"own", "own+window"} => Carried(ph, s, x, k) = x
<1>1. ph.turn \in {"own", "own+window"} => Carried(ph, s, x, k) = x
  <2>1. ASSUME ph.turn \in {"own", "own+window"}
        PROVE  ph.turn # "left" /\ ph.turn # "right" /\ ph.turn # "prsg"
    BY <2>1
  <2>2. QED
    BY <2>1, Zenon DEF Carried
<1>2. /\ ph.turn = "left"  => Carried(ph, s, x, k) = Orbit(RotL, s)[k]
      /\ ph.turn = "right" => Carried(ph, s, x, k) = Not(Orbit(RotL, s)[k + 1])
      /\ ph.turn = "prsg"  => Carried(ph, s, x, k) = Orbit(Prsg, s)[k]
  <2>1. "left" \notin {"own", "own+window"} /\ "right" \notin {"own", "own+window"}
        /\ "prsg" \notin {"own", "own+window"}
    OBVIOUS
  <2>2. QED
    BY <2>1, Zenon DEF Carried
<1>3. ph.turn = "none"  => Carried(ph, s, x, k) = s
  <2>1. "none" \notin {"own", "own+window"}
    OBVIOUS
  <2>2. QED
    BY <2>1, Zenon DEF Carried
<1>4. QED
  BY <1>1, <1>2, <1>3

LEMMA FrameCells ==
    ASSUME UNCHANGED <<fault, window>>
    PROVE  FaultyCells' = FaultyCells /\ \A v : Cell(v)' = Cell(v)
  BY DEF FaultyCells, Cell, Base

LEMMA FrameHolds ==
    ASSUME UNCHANGED <<fault, window, mem>>
    PROVE  /\ \A v, x : Holds(v, x)' <=> Holds(v, x)
           /\ \A v : Twins(v)' <=> Twins(v)
  BY FrameCells DEF Holds, Twins

LEMMA FramePaired ==
    ASSUME UNCHANGED <<fault, window, mem>>
    PROVE  Paired' <=> Paired
<1>1. Start' = Start /\ LastWord' = LastWord
  BY DEF Start, LastWord, Base
<1>2. QED
  BY <1>1, FrameHolds DEF Paired

LEMMA FrameSeed ==
    ASSUME UNCHANGED <<window, phases, phase>>
    PROVE  SeedNow' = SeedNow /\ \A off : Strides(off)' = Strides(off)
<1>1. Start' = Start /\ LastWord' = LastWord
  BY Frame
<1>2. QED
  BY <1>1 DEF SeedNow, Strides

LEMMA PhaseStarts ==
    ASSUME CallInv, PatternInv, BeginPhase
    PROVE  WorkInv'
<1> SUFFICES ASSUME my_cpu' = 0
             PROVE  WorkInv'
  BY DEF WorkInv
<1>1. /\ phase <= Len(phases) /\ UNCHANGED <<window, phases, phase, fault, mem>>
      /\ my_cpu = 0 /\ pc = "call"
  BY DEF BeginPhase, callVars
<1>2. /\ Cur' = Cur /\ Start' = Start /\ LastWord' = LastWord /\ SeedNow' = SeedNow
      /\ \A off : Strides(off)' = Strides(off)
      /\ \A v, x : Holds(v, x)' <=> Holds(v, x)
      /\ \A v : Twins(v)' <=> Twins(v)
      /\ Paired' <=> Paired
  BY <1>1, Frame, FrameSeed, FrameHolds, FramePaired
<1>3. /\ p' = IF Cur.kind = "walk" THEN 1 ELSE IF Cur.up THEN Start + Cur.off ELSE End
      /\ q' = 0 /\ pc' = "words"
      /\ pattern' = IF Cur.flip THEN Not(pattern) ELSE Cur.seed
      /\ pe' = BlockEnd(IF Cur.up THEN Start ELSE End)
  BY <1>1 DEF BeginPhase, Enter
<1>4. /\ GoodPhase(Cur) /\ Sown(Cur) /\ SeedNow \in Words /\ (~Cur.flip => SeedNow = Cur.seed)
      /\ Ready(Cur, SeedNow)
  BY <1>1, CurLinked, PhaseReady DEF PatternInv
<1>5. /\ Start \in Nat /\ LastWord \in Nat /\ Start % 16 = 0 /\ LastWord % 16 = 15
      /\ Start + MODULO_N <= LastWord /\ Start + 15 <= LastWord /\ MODULO_N \in Nat \ {0, 1}
      /\ End = IF Cur.kind = "nth" THEN LastWord - MODULO_N ELSE LastWord
  BY RangeFacts DEF End
<1>6. Whole(Cur) => WholeInv'
  <2> SUFFICES ASSUME Whole(Cur) PROVE WholeInv'
    OBVIOUS
  <2>1. /\ Cur.kind = "march" /\ Cur.off = 0 /\ Cur.up \in BOOLEAN /\ Cur.kind # "walk"
        /\ Cur.turn \in Turns /\ (Cur.flip <=> Cur.turn = "right")
        /\ Cur.turn = "right" => ~Cur.up
        /\ Cur.turn \in {"left", "prsg"} => Cur.up
    BY <1>4 DEF Whole, GoodPhase, Sown
  <2>2. p' = IF Cur.up THEN Start ELSE LastWord
    BY <1>3, <1>5, <2>1
  <2>3. pattern' = Carried(Cur, SeedNow, pattern', p' - Start)
    <3>1. CASE Cur.turn = "left"
      <4>1. p' - Start = 0 /\ pattern' = SeedNow
        BY <1>3, <1>4, <1>5, <2>1, <2>2, <3>1
      <4>2. QED
        BY <1>4, <3>1, <4>1, CarriedBy, Orbits
    <3>2. CASE Cur.turn = "prsg"
      <4>1. p' - Start = 0 /\ pattern' = SeedNow
        BY <1>3, <1>4, <1>5, <2>1, <2>2, <3>2
      <4>2. QED
        BY <1>4, <3>2, <4>1, CarriedBy, Orbits
    <3>3. CASE Cur.turn = "right"
      <4>1. p' - Start + 1 = LastWord - Start + 1 /\ pattern' = Not(pattern)
        BY <1>3, <1>5, <2>1, <2>2, <3>3
      <4>2. pattern = Orbit(RotL, SeedNow)[LastWord - Start + 1]
        BY <1>4, <2>1, <3>3 DEF Ready
      <4>3. QED
        BY <3>3, <4>1, <4>2, CarriedBy
    <3>4. CASE Cur.turn \in {"none", "own", "own+window"}
      <4>1. pattern' = SeedNow
        BY <1>3, <1>4, <2>1, <3>4
      <4>2. QED
        BY <3>4, <4>1, CarriedBy
    <3>5. QED
      BY <2>1, <3>1, <3>2, <3>3, <3>4 DEF Turns
  <2>4. ASSUME NEW v \in Start .. LastWord PROVE ~Behind(v)'
    BY <1>2, <1>5, <2>1, <2>2 DEF Behind
  <2>5. Cur.check => \A v \in Start .. LastWord : Holds(v, Want(Cur, SeedNow, window, v))
    BY <1>4 DEF Ready
  <2>6. QED
    BY <1>1, <1>2, <2>3, <2>4, <2>5 DEF WholeInv
<1>7. Spared(Cur) => SparedInv'
  <2> SUFFICES ASSUME Spared(Cur) PROVE SparedInv'
    OBVIOUS
  <2>1. ~Cur.flip
    BY <1>4 DEF Sown
  <2>2. QED
    BY <1>2, <1>3, <1>4, <2>1 DEF SparedInv, Ready
<1>8. Cur.kind = "nth" => NthInv'
  <2> SUFFICES ASSUME Cur.kind = "nth" PROVE NthInv'
    OBVIOUS
  <2>1. ~Cur.flip /\ Cur.up /\ Cur.off \in 0 .. MODULO_N - 1
    BY <1>4 DEF Sown, GoodPhase
  <2>2. p' = Start + Cur.off /\ pattern' = Cur.seed
    BY <1>3, <2>1
  <2>3. (p' - Start) % MODULO_N = Cur.off
    <3>1. p' - Start = Cur.off
      BY <1>5, <2>1, <2>2
    <3>2. QED
      BY <1>5, <2>1, <3>1
  <2>4. \A v \in Strides(Cur.off) : v >= Start + Cur.off
    <3> SUFFICES ASSUME NEW v \in Start .. LastWord, (v - Start) % MODULO_N = Cur.off
                 PROVE  v >= Start + Cur.off
      BY DEF Strides
    <3>1. v - Start \in Nat
      BY <1>5
    <3>2. \A n \in Nat : n % MODULO_N <= n
      BY <1>5
    <3>3. Cur.off <= v - Start
      BY <3>1, <3>2
    <3>4. QED
      BY <1>5, <2>1, <3>3
  <2>5. Cur.check => \A v \in Strides(Cur.off) : Holds(v, Cur.seed)
    BY <1>4 DEF Ready
  <2>6. \A v \in Strides(Cur.off) : v \in Nat /\ ~(v < p')
    BY <1>5, <2>1, <2>2, <2>4 DEF Strides
  <2>7. QED
    BY <1>2, <1>3, <1>5, <2>1, <2>2, <2>3, <2>5, <2>6 DEF NthInv
<1>9. Cur.kind = "blocks" => BlocksInv'
  <2> SUFFICES ASSUME Cur.kind = "blocks" PROVE BlocksInv'
    OBVIOUS
  <2>1. p' = Start
    BY <1>3, <1>4, <1>5 DEF GoodPhase
  <2>2. \A v \in Start .. LastWord : ~(v < p')
    BY <1>5, <2>1
  <2>3. QED
    BY <1>2, <1>3, <2>2 DEF BlocksInv
<1>10. Cur.kind \in {"move", "pairs"} => Paired'
  BY <1>2, <1>4 DEF Ready
<1>11. Cur.kind = "move" => pe' % 16 = 15
  <2>1. SUFFICES ASSUME Cur.kind = "move" PROVE pe' % 16 = 15
    OBVIOUS
  <2>2. Cur.up /\ End = LastWord /\ Start \in Start .. End
    BY <1>4, <1>5, <2>1 DEF GoodPhase
  <2>3. QED
    BY <1>1, <1>3, <1>5, <2>2, BlockInside
<1>12. Cur.kind = "walk" => WalkInv'
  BY <1>3 DEF WalkInv
<1>13. QED
  BY <1>2, <1>6, <1>7, <1>8, <1>9, <1>10, <1>11, <1>12 DEF WorkInv, MoveInv

LEMMA OneWrite ==
    ASSUME CallInv, MemInv, UNCHANGED <<fault, window>>, NEW u \in Start .. LastWord, NEW y,
           mem' = write_word(mem, u, y)
    PROVE  /\ MemInv' /\ Holds(u, y)'
           /\ \A v \in Start .. LastWord : v # u => \A x : Holds(v, x)' <=> Holds(v, x)
           /\ \A c \in Cells : c \notin FaultyCells /\ c # Cell(u) => mem'[c] = mem[c]
<1>1. /\ \A v \in Start .. LastWord : Cell(v) \in Cells
      /\ \A v \in Start .. LastWord : Cell(v) = Cell(u) => v = u
  BY RangeCells DEF CallInv
<1>2. /\ DOMAIN mem' = DOMAIN mem
      /\ \A c \in DOMAIN mem : c \notin FaultyCells =>
           mem'[c] = IF c = Cell(u) THEN y ELSE mem[c]
  BY SoundWrite
<1>3. FaultyCells' = FaultyCells /\ \A v : Cell(v)' = Cell(v)
  BY FrameCells
<1>4. MemInv'
  BY <1>2 DEF MemInv
<1>5. Holds(u, y)'
  BY <1>1, <1>2, <1>3 DEF Holds, MemInv
<1>6. ASSUME NEW v \in Start .. LastWord, v # u, NEW x PROVE Holds(v, x)' <=> Holds(v, x)
  BY <1>1, <1>2, <1>3, <1>6 DEF Holds, MemInv
<1>7. \A c \in Cells : c \notin FaultyCells /\ c # Cell(u) => mem'[c] = mem[c]
  BY <1>2 DEF MemInv
<1>8. QED
  BY <1>4, <1>5, <1>6, <1>7

LEMMA TurnedBy ==
    /\ Cur.turn = "right" => Turned = RotateRight(pattern)
    /\ Cur.turn = "prsg" => Turned = prsg(pattern)
    /\ Cur.turn = "own" => Turned = Number(p)
    /\ Cur.turn = "own+window" => Turned = Number(p + OffsetOf(window) * PAGE_WORDS)
    /\ Cur.turn \in {"none", "left"} => Turned = pattern
<1>1. OwnOffset = OffsetOf(window)
  BY DEF OwnOffset, OffsetOf, Base
<1>2. /\ Cur.turn = "right" => Turned = RotateRight(pattern)
      /\ Cur.turn = "prsg" => Turned = prsg(pattern)
      /\ Cur.turn = "own" => Turned = Number(p)
      /\ Cur.turn = "own+window" => Turned = Number(p + OwnOffset * PAGE_WORDS)
      /\ Cur.turn = "none" => Turned = pattern
      /\ Cur.turn = "left" => Turned = pattern
  BY Zenon DEF Turned
<1>3. QED
  BY <1>1, <1>2

\* The pattern after the word at p.
Onwards == IF Cur.turn = "left" THEN RotateLeft(Turned) ELSE Turned

\* Each word is compared with what it should be, and the pattern goes on.
LEMMA PatternGoesOn ==
    ASSUME CallInv, PatternInv, phase <= Len(phases), Whole(Cur), p \in Start .. LastWord,
           pattern = Carried(Cur, SeedNow, pattern, p - Start)
    PROVE  /\ Expected = Want(Cur, SeedNow, window, p)
           /\ Onwards = Carried(Cur, SeedNow, Onwards, (IF Cur.up THEN p + 1 ELSE p - 1) - Start)
<1> DEFINE s == SeedNow
           k == p - Start
           next == (IF Cur.up THEN p + 1 ELSE p - 1) - Start
<1>1. /\ Sown(Cur) /\ s \in Words /\ Cur.turn \in Turns /\ Cur.up \in BOOLEAN
      /\ Cur.turn = "right" => ~Cur.up
      /\ Cur.turn \in {"left", "prsg"} => Cur.up
  BY CurLinked DEF PatternInv, Sown, GoodPhase
<1>2. /\ Start \in Nat /\ LastWord \in Nat /\ Start = FirstWord(window) /\ k \in Nat
      /\ Cur.up => next = k + 1
      /\ ~Cur.up => next + 1 = k
  BY RangeFacts
<1>3. /\ Orbit(RotL, s)[k] \in Words /\ Orbit(Prsg, s)[k] \in Words
      /\ Orbit(RotL, s)[k + 1] = RotateLeft(Orbit(RotL, s)[k])
      /\ Orbit(Prsg, s)[k + 1] = prsg(Orbit(Prsg, s)[k])
  BY <1>1, <1>2, Orbits
<1>4. Turned = Plain(Cur, s, window, p) /\ Onwards = Carried(Cur, s, Onwards, next)
  <2>1. CASE Cur.turn = "left"
    <3>1. pattern = Orbit(RotL, s)[k] /\ Turned = pattern /\ Onwards = RotateLeft(pattern)
      BY <2>1, CarriedBy, TurnedBy DEF Onwards
    <3>2. Onwards = Orbit(RotL, s)[next]
      BY <1>1, <1>2, <1>3, <2>1, <3>1
    <3>3. QED
      BY <1>2, <2>1, <3>1, <3>2, CarriedBy, PlainBy
  <2>2. CASE Cur.turn = "prsg"
    <3>1. pattern = Orbit(Prsg, s)[k] /\ Turned = prsg(pattern) /\ Onwards = prsg(pattern)
      BY <2>2, CarriedBy, TurnedBy DEF Onwards
    <3>2. Onwards = Orbit(Prsg, s)[next] /\ Turned = Orbit(Prsg, s)[k + 1]
      BY <1>1, <1>2, <1>3, <2>2, <3>1
    <3>3. QED
      BY <1>2, <2>2, <3>2, CarriedBy, PlainBy
  <2>3. CASE Cur.turn = "right"
    <3>1. pattern = Not(Orbit(RotL, s)[k + 1]) /\ Turned = RotateRight(pattern) /\ Onwards = Turned
      BY <2>3, CarriedBy, TurnedBy DEF Onwards
    <3>2. Turned = Not(Orbit(RotL, s)[k])
      BY <1>3, <3>1, RotateBack
    <3>3. Onwards = Not(Orbit(RotL, s)[next + 1])
      BY <1>1, <1>2, <2>3, <3>1, <3>2
    <3>4. QED
      BY <1>2, <2>3, <3>2, <3>3, CarriedBy, PlainBy
  <2>4. CASE Cur.turn = "none"
    BY <2>4, CarriedBy, TurnedBy, PlainBy DEF Onwards
  <2>5. CASE Cur.turn = "own"
    BY <2>5, CarriedBy, TurnedBy, PlainBy DEF Onwards
  <2>6. CASE Cur.turn = "own+window"
    BY <2>6, CarriedBy, TurnedBy, PlainBy DEF Onwards
  <2>7. QED
    BY <1>1, <2>1, <2>2, <2>3, <2>4, <2>5, <2>6 DEF Turns
<1>5. QED
  BY <1>4 DEF Expected, Want

\* What a step at a word has to do for the invariant.
WordDone ==
    /\ UNCHANGED <<fault, window, phases, phase, test, stage, my_cpu, pe, left>>
    /\ phase <= Len(phases) /\ pc = "words" /\ my_cpu = 0

LEMMA WordFrame ==
    ASSUME CallInv, WordStep
    PROVE  WordDone
<1>1. /\ UNCHANGED <<test, my_cpu, stage, window, phases, phase, pe, left>>
      /\ pc = "words"
  BY WordStepKeeps
<1>2. phase <= Len(phases) /\ my_cpu = 0
  BY <1>1 DEF CallInv
<1>3. fault' = fault
  <2>1. CASE Word \/ PairWord \/ BlockWords
    <3>1. ToNextWord
      BY <2>1 DEF Word, PairWord, BlockWords
    <3>2. QED
      BY <3>1, Zenon DEF ToNextWord
  <2>2. CASE MoveUp \/ MoveDown \/ Sleep \/ WalkFirst
    BY <2>2 DEF MoveUp, MoveDown, Sleep, WalkFirst
  <2>3. CASE WalkSecond
    BY <2>3 DEF WalkSecond
  <2>4. QED
    BY <2>1, <2>2, <2>3 DEF WordStep
<1>4. QED
  BY <1>1, <1>2, <1>3 DEF WordDone

LEMMA WordWhole ==
    ASSUME CallInv, PointerInv, PatternInv, Word, Whole(Cur)
    PROVE  /\ MemInv' /\ WholeInv'
           /\ Cur.check /\ read_word(p) # Expected => Cell(p) \in FaultyCells
           /\ \A c \in Cells : c \notin FaultyCells /\ c # Cell(p) => mem'[c] = mem[c]
           /\ Cur.put = "none" => mem' = mem
           /\ Cell(p) \in SegmentCells(window)
<1>1. WordDone
  BY WordFrame DEF WordStep
<1>2. /\ Cur' = Cur /\ Start' = Start /\ LastWord' = LastWord /\ SeedNow' = SeedNow
      /\ window' = window
  BY <1>1, Frame, FrameSeed DEF WordDone
<1>3. /\ GoodPhase(Cur) /\ Sown(Cur) /\ Cur.up \in BOOLEAN /\ Cur.step = 1
      /\ Cur.kind = "march" /\ Cur.skip = MODULO_N
  BY <1>1, CurLinked DEF WordDone, PatternInv, GoodPhase, Whole
<1>4. /\ Start \in Nat /\ LastWord \in Nat /\ Start = FirstWord(window) /\ MODULO_N \in Nat \ {0, 1}
      /\ LastWord = FinalWord(window)
  BY RangeFacts
<1>5. p \in Start .. LastWord
  BY <1>1, <1>3, <1>4 DEF WordDone, PointerInv, InBlock
<1>6. WholeInv
  BY <1>1 DEF PatternInv, WorkInv, WordDone
<1>7. /\ Expected = Want(Cur, SeedNow, window, p)
      /\ Onwards = Carried(Cur, SeedNow, Onwards, (IF Cur.up THEN p + 1 ELSE p - 1) - Start)
  BY <1>1, <1>5, <1>6, PatternGoesOn DEF WordDone, WholeInv
<1>8. pattern' = Onwards /\ p' = IF Cur.up THEN p + 1 ELSE p - 1
  BY <1>3 DEF Word, Onwards, ToNextWord, NextWord
<1>9. ~Behind(p)
  BY <1>5, <1>4 DEF Behind
<1>10. Cur.check => Holds(p, Expected)
  BY <1>5, <1>6, <1>7, <1>9 DEF WholeInv
<1>11. Cur.check /\ read_word(p) # Expected => Cell(p) \in FaultyCells
  BY <1>10, SoundRead DEF Holds, read_word
<1>12. (p - Start) % MODULO_N # Cur.skip
  <2>1. p - Start \in Nat
    BY <1>4, <1>5
  <2>2. QED
    BY <1>3, <1>4, <2>1
<1>13. mem' = IF Cur.put = "none" THEN mem
              ELSE write_word(mem, p, Leaves(Cur, SeedNow, window, p))
  <2>1. mem' = IF Cur.put = "none" THEN mem
               ELSE write_word(mem, p, IF Cur.put = "same" THEN Expected ELSE Not(Expected))
    BY <1>12 DEF Word
  <2>2. Cur.put \in {"same", "inverse", "none"}
    BY <1>3 DEF Sown
  <2>3. Cur.put # "none" =>
          Leaves(Cur, SeedNow, window, p) = IF Cur.put = "same" THEN Expected ELSE Not(Expected)
    BY <1>7, <2>2 DEF Leaves
  <2>4. QED
    BY <2>1, <2>3
<1>14. PICK u, z : u \in Start .. LastWord /\ u = p /\ z = Leaves(Cur, SeedNow, window, p)
  BY <1>5
<1>15. /\ MemInv' /\ Holds(u, z)'
       /\ \A v \in Start .. LastWord : v # u => \A x : Holds(v, x)' <=> Holds(v, x)
       /\ \A c \in Cells : c \notin FaultyCells /\ c # Cell(u) => mem'[c] = mem[c]
  <2>1. CASE Cur.put # "none"
    <3>1. mem' = write_word(mem, u, z)
      BY <1>13, <1>14, <2>1
    <3>2. QED
      BY <1>1, <1>14, <3>1, OneWrite DEF PatternInv, WordDone
  <2>2. CASE Cur.put = "none"
    <3>1. mem' = mem
      BY <1>13, <2>2
    <3>2. \A v, x : Holds(v, x)' <=> Holds(v, x)
      BY <1>1, <3>1, FrameHolds DEF WordDone
    <3>3. MemInv'
      BY <3>1 DEF PatternInv, MemInv
    <3>4. Holds(u, z)
      <4>1. Cur.check /\ Leaves(Cur, SeedNow, window, p) = Expected
        BY <1>3, <1>7, <2>2 DEF Sown, Leaves
      <4>2. QED
        BY <1>10, <1>14, <4>1
    <3>5. QED
      BY <3>1, <3>2, <3>3, <3>4
  <2>3. QED
    BY <2>1, <2>2
<1>16. ASSUME NEW v \in Start .. LastWord
       PROVE  /\ Behind(v)' => Holds(v, Leaves(Cur, SeedNow, window, v))'
              /\ ~Behind(v)' /\ Cur.check => Holds(v, Want(Cur, SeedNow, window, v))'
  <2>1. Behind(v)' <=> Behind(v) \/ v = u
    BY <1>2, <1>3, <1>4, <1>5, <1>8, <1>14 DEF Behind
  <2>2. CASE v = u
    <3>1. z = Leaves(Cur, SeedNow, window, v)
      BY <1>14, <2>2
    <3>2. z' = Leaves(Cur, SeedNow, window, v)'
      BY <1>2, <3>1
    <3>3. QED
      BY <1>2, <1>15, <2>1, <2>2, <3>1
  <2>3. CASE v # u
    <3>1. /\ Behind(v) => Holds(v, Leaves(Cur, SeedNow, window, v))
          /\ ~Behind(v) /\ Cur.check => Holds(v, Want(Cur, SeedNow, window, v))
      BY <1>6 DEF WholeInv
    <3>2. PICK x, y : x = Leaves(Cur, SeedNow, window, v) /\ y = Want(Cur, SeedNow, window, v)
      OBVIOUS
    <3>3. (Holds(v, x)' <=> Holds(v, x)) /\ (Holds(v, y)' <=> Holds(v, y))
      BY <1>15, <2>3
    <3>4. QED
      BY <1>2, <2>1, <2>3, <3>1, <3>2, <3>3
  <2>4. QED
    BY <2>2, <2>3
<1>17. pattern' = Carried(Cur, SeedNow, pattern', p' - Start)
  BY <1>7, <1>8
<1>18. WholeInv'
  BY <1>2, <1>16, <1>17 DEF WholeInv
<1>19. Cell(p) \in SegmentCells(window)
  BY <1>5, RangeCells DEF CallInv
<1>20. Cur.put = "none" => mem' = mem
  BY <1>13
<1>21. QED
  BY <1>11, <1>14, <1>15, <1>18, <1>19, <1>20

(***************************************************************************)
(* The modulo test: the words of the strides are left alone by the marches *)
(* that fill the others.                                                   *)
(***************************************************************************)
LEMMA PlainWords ==
    ASSUME Cur.turn = "none", ~Cur.invert
    PROVE  Expected = pattern /\ Onwards = pattern
  BY TurnedBy DEF Expected, Onwards

LEMMA WordSpared ==
    ASSUME CallInv, PointerInv, PatternInv, Word, Spared(Cur)
    PROVE  MemInv' /\ SparedInv' /\ ~Cur.check
<1>1. WordDone
  BY WordFrame DEF WordStep
<1>2. /\ Cur' = Cur /\ Start' = Start /\ LastWord' = LastWord
      /\ \A off : Strides(off)' = Strides(off)
  BY <1>1, Frame, FrameSeed DEF WordDone
<1>3. /\ Cur.up \in BOOLEAN /\ Cur.kind = "march" /\ Cur.turn = "none" /\ ~Cur.invert
      /\ ~Cur.check /\ Cur.put = "same"
  BY <1>1, CurLinked DEF WordDone, PatternInv, GoodPhase, Spared, Sown
<1>4. Start \in Nat /\ LastWord \in Nat
  BY RangeFacts
<1>5. PICK u, y : u \in Start .. LastWord /\ u = p /\ y = Expected
  BY <1>1, <1>3, <1>4 DEF WordDone, PointerInv, InBlock
<1>6. pattern = Cur.seed /\ \A v \in Strides(Cur.skip) : Holds(v, Not(Cur.seed))
  BY <1>1, <1>3 DEF PatternInv, WorkInv, WordDone, SparedInv
<1>7. pattern' = Cur.seed
  <2>1. pattern' = Onwards
    BY DEF Word, Onwards
  <2>2. QED
    BY <1>3, <1>6, <2>1, PlainWords
<1>8. CASE (p - Start) % MODULO_N = Cur.skip
  <2>1. mem' = mem
    BY <1>8 DEF Word
  <2>2. \A v, x : Holds(v, x)' <=> Holds(v, x)
    BY <1>1, <2>1, FrameHolds DEF WordDone
  <2>3. MemInv'
    BY <2>1 DEF PatternInv, MemInv
  <2>4. QED
    BY <1>2, <1>3, <1>6, <1>7, <2>2, <2>3 DEF SparedInv
<1>9. CASE (p - Start) % MODULO_N # Cur.skip
  <2>1. mem' = write_word(mem, u, y)
    BY <1>3, <1>5, <1>9 DEF Word
  <2>2. /\ MemInv'
        /\ \A v \in Start .. LastWord : v # u => \A x : Holds(v, x)' <=> Holds(v, x)
    BY <1>1, <1>5, <2>1, OneWrite DEF PatternInv, WordDone
  <2>3. \A v \in Strides(Cur.skip) : v \in Start .. LastWord /\ v # u
    BY <1>5, <1>9 DEF Strides
  <2>4. ASSUME NEW v \in Strides(Cur.skip) PROVE Holds(v, Not(Cur.seed))'
    <3>1. PICK x : x = Not(Cur.seed)
      OBVIOUS
    <3>2. Holds(v, x)' <=> Holds(v, x)
      BY <2>2, <2>3
    <3>3. QED
      BY <1>2, <1>6, <3>1, <3>2
  <2>5. QED
    BY <1>2, <1>3, <1>7, <2>2, <2>4 DEF SparedInv
<1>10. QED
  BY <1>8, <1>9

\* Two words of a stride are at least MODULO_N words apart.
LEMMA StrideApart ==
    ASSUME CallInv, NEW u \in Start .. LastWord, NEW v \in Start .. LastWord,
           (u - Start) % MODULO_N = (v - Start) % MODULO_N, u < v
    PROVE  u + MODULO_N <= v
<1> DEFINE n == MODULO_N
           a == u - Start
           b == v - Start
<1>1. Start \in Nat /\ LastWord \in Nat /\ n \in Nat \ {0, 1} /\ a \in Nat /\ b \in Nat /\ a < b
  BY RangeFacts
<1>2. /\ a = n * (a \div n) + (a % n) /\ a \div n \in Nat
      /\ b = n * (b \div n) + (b % n) /\ b \div n \in Nat
      /\ a % n = b % n /\ a % n \in 0 .. n - 1
  BY <1>1
<1> DEFINE i == a \div n
           j == b \div n
           r == a % n
<1>3. a = n * i + r /\ b = n * j + r /\ i \in Nat /\ j \in Nat /\ r \in Nat
  BY <1>2
<1> HIDE DEF n, i, j, r
<1>4. n * i < n * j /\ n * i \in Nat /\ n * j \in Nat
  BY <1>1, <1>3
<1>5. i < j
  <2> SUFFICES ASSUME j <= i PROVE FALSE
    BY <1>3
  <2>1. PICK d \in Nat : i = j + d
    <3>1. i - j \in Nat /\ i = j + (i - j)
      BY <1>3
    <3>2. QED
      BY <3>1
  <2>2. n * i = n * j + n * d /\ n * d \in Nat
    BY <1>1, <1>3, <2>1
  <2>3. QED
    BY <1>4, <2>2
<1>6. PICK d \in Nat : j = i + 1 + d
  <2>1. j - i - 1 \in Nat /\ j = i + 1 + (j - i - 1)
    BY <1>3, <1>5
  <2>2. QED
    BY <2>1
<1>7. n * j = n * i + n + n * d /\ n * d \in Nat
  BY <1>1, <1>3, <1>6
<1>8. a + n <= b
  BY <1>1, <1>3, <1>4, <1>7
<1>9. QED
  BY <1>1, <1>8 DEF n

LEMMA StrideGoesOn ==
    ASSUME CallInv, PointerInv, PatternInv, WordDone, Cur.kind = "nth"
    PROVE  /\ Cur.up /\ Cur.step = MODULO_N /\ Cur.off \in 0 .. MODULO_N - 1
           /\ p \in Strides(Cur.off) /\ pe \in Nat /\ pe <= LastWord - MODULO_N
           /\ p + MODULO_N <= pe => (p + MODULO_N - Start) % MODULO_N = Cur.off
<1>1. /\ GoodPhase(Cur) /\ p \in Start .. LastWord /\ pe \in Start .. LastWord
      /\ pe <= LastWord - MODULO_N /\ NthInv
  BY CurLinked DEF WordDone, PatternInv, PointerInv, InRange, WorkInv
<1>2. Start \in Nat /\ LastWord \in Nat /\ MODULO_N \in Nat \ {0, 1}
  BY RangeFacts
<1>3. p \in Strides(Cur.off)
  BY <1>1 DEF NthInv, Strides
<1>4. (p + MODULO_N - Start) % MODULO_N = Cur.off
  <2> DEFINE n == MODULO_N
             a == p - Start
             i == a \div n
             r == Cur.off
  <2>1. a \in Nat /\ a = n * i + r /\ i \in Nat /\ r \in 0 .. n - 1
    <3>1. a \in Nat /\ a % n = r
      BY <1>1, <1>2 DEF NthInv
    <3>2. \A k \in Nat : k = n * (k \div n) + (k % n) /\ k \div n \in Nat
      BY <1>2
    <3>3. r \in 0 .. n - 1
      BY <1>1 DEF GoodPhase
    <3> HIDE DEF n, a, r
    <3>4. QED
      BY <3>1, <3>2, <3>3 DEF i
  <2>2. p + n - Start = a + n
    BY <1>1, <1>2
  <2> HIDE DEF n, a, i, r
  <2>3. n \in Nat \ {0, 1}
    BY <1>2 DEF n
  <2>4. a + n = n * (i + 1) + r
    BY <2>1, <2>3
  <2>5. (n * (i + 1) + r) % n = r
    <3>1. PICK k \in Nat : k = i + 1
      BY <2>1
    <3>2. (n * k + r) % n = r
      BY ONLY <2>1, <2>3, <3>1
    <3>3. QED
      BY <3>1, <3>2
  <2>6. QED
    BY <2>2, <2>4, <2>5 DEF n, r
<1>5. QED
  BY <1>1, <1>2, <1>3, <1>4 DEF GoodPhase

LEMMA WordNth ==
    ASSUME CallInv, PointerInv, PatternInv, Word, Cur.kind = "nth"
    PROVE  /\ MemInv' /\ NthInv'
           /\ Cur.check /\ read_word(p) # Expected => Cell(p) \in FaultyCells
<1>1. WordDone
  BY WordFrame DEF WordStep
<1>2. /\ Cur' = Cur /\ Start' = Start /\ LastWord' = LastWord
      /\ \A off : Strides(off)' = Strides(off)
  BY <1>1, Frame, FrameSeed DEF WordDone
<1>3. /\ Cur.up /\ Cur.turn = "none" /\ ~Cur.invert /\ Cur.skip = MODULO_N
      /\ Cur.check \in BOOLEAN /\ Cur.put = IF Cur.check THEN "none" ELSE "same"
  BY <1>1, CurLinked DEF WordDone, PatternInv, GoodPhase, Sown
<1>4. Start \in Nat /\ LastWord \in Nat /\ MODULO_N \in Nat \ {0, 1}
  BY RangeFacts
<1>5. /\ Cur.step = MODULO_N /\ Cur.off \in 0 .. MODULO_N - 1
      /\ p \in Strides(Cur.off) /\ pe \in Nat /\ pe <= LastWord - MODULO_N
      /\ p + MODULO_N <= pe => (p + MODULO_N - Start) % MODULO_N = Cur.off
  BY <1>1, StrideGoesOn
<1>6. NthInv
  BY <1>1 DEF PatternInv, WorkInv, WordDone
<1>7. /\ p' = (IF p + MODULO_N <= pe THEN p + MODULO_N ELSE p) /\ pe' = pe
      /\ pc' = IF p + MODULO_N <= pe THEN "words" ELSE "tick"
  <2>1. p \in Nat
    BY <1>4, <1>5 DEF Strides
  <2>2. MoreWords <=> p + MODULO_N <= pe
    BY <1>4, <1>5, <2>1 DEF MoreWords
  <2>3. /\ p' = IF MoreWords THEN p + Cur.step ELSE p
        /\ pc' = IF MoreWords THEN "words" ELSE "tick"
    BY <1>4, <1>5 DEF Word, ToNextWord, NextWord
  <2>4. QED
    BY <1>1, <1>5, <2>2, <2>3 DEF WordDone
<1>8. Expected = pattern /\ pattern' = pattern /\ pattern = Cur.seed
  <2>1. pattern' = Onwards
    BY DEF Word, Onwards
  <2>2. QED
    BY <1>3, <1>6, <2>1, PlainWords DEF NthInv
<1>9. PICK u, y : u \in Strides(Cur.off) /\ u = p /\ y = Cur.seed
  BY <1>5
<1>10. u \in Start .. LastWord
  BY <1>9 DEF Strides
<1>11. Cur.check => Holds(p, Expected)
  BY <1>5, <1>6, <1>8 DEF NthInv
<1>12. Cur.check /\ read_word(p) # Expected => Cell(p) \in FaultyCells
  BY <1>11, SoundRead DEF Holds, read_word
<1>13. (p - Start) % MODULO_N # Cur.skip
  BY <1>3, <1>4, <1>5 DEF Strides
<1>14. /\ MemInv' /\ (Holds(u, y)' \/ Cur.check)
       /\ \A v \in Start .. LastWord : v # u \/ Cur.check => \A x : Holds(v, x)' <=> Holds(v, x)
  <2>1. CASE Cur.check
    <3>1. mem' = mem
      BY <1>3, <2>1 DEF Word
    <3>2. \A v, x : Holds(v, x)' <=> Holds(v, x)
      BY <1>1, <3>1, FrameHolds DEF WordDone
    <3>3. MemInv'
      BY <3>1 DEF PatternInv, MemInv
    <3>4. QED
      BY <2>1, <3>2, <3>3
  <2>2. CASE ~Cur.check
    <3>1. mem' = write_word(mem, u, y)
      BY <1>3, <1>8, <1>9, <1>13, <2>2 DEF Word
    <3>2. QED
      BY <1>1, <1>10, <2>2, <3>1, OneWrite DEF PatternInv, WordDone
  <2>3. QED
    BY <2>1, <2>2
<1>15. ASSUME NEW v \in Strides(Cur.off),
              Cur.check \/ v < p' \/ (pc' = "tick" /\ v = p')
       PROVE  Holds(v, Cur.seed)'
  <2>1. /\ v \in Start .. LastWord /\ u \in Start .. LastWord
        /\ (v - Start) % MODULO_N = (u - Start) % MODULO_N
    BY <1>9 DEF Strides
  <2>2. CASE Cur.check
    BY <1>2, <1>6, <1>14, <2>1, <2>2 DEF NthInv
  <2>3. CASE ~Cur.check /\ v = u
    BY <1>2, <1>9, <1>14, <2>3
  <2>4. CASE ~Cur.check /\ v # u
    <3>1. ~(u < v)
      <4>1. SUFFICES ASSUME u < v PROVE FALSE
        OBVIOUS
      <4>2. u + MODULO_N <= v
        BY <2>1, <4>1, StrideApart
      <4>3. QED
        BY <1>4, <1>7, <1>9, <1>15, <2>1, <2>4, <4>2
    <3>2. v < p
      BY <1>4, <1>9, <2>1, <2>4, <3>1
    <3>3. Holds(v, Cur.seed)
      BY <1>6, <3>2 DEF NthInv
    <3>4. QED
      BY <1>2, <1>14, <2>1, <2>4, <3>3
  <2>5. QED
    BY <2>2, <2>3, <2>4
<1>16. /\ p' >= Start + Cur.off /\ (p' - Start) % MODULO_N = Cur.off
       /\ p' = Start + Cur.off \/ p' + MODULO_N <= LastWord
       /\ pc' = "tick" => p' > pe' - MODULO_N
  <2>1. p \in Nat /\ p >= Start + Cur.off /\ (p - Start) % MODULO_N = Cur.off
        /\ (p = Start + Cur.off \/ p + MODULO_N <= LastWord)
    BY <1>4, <1>5, <1>6 DEF NthInv, Strides
  <2>2. CASE p + MODULO_N <= pe
    BY <1>4, <1>5, <1>7, <2>1, <2>2
  <2>3. CASE ~(p + MODULO_N <= pe)
    BY <1>4, <1>5, <1>7, <2>1, <2>3
  <2>4. QED
    BY <2>2, <2>3
<1>17. NthInv'
  BY <1>2, <1>8, <1>15, <1>16 DEF NthInv
<1>18. QED
  BY <1>12, <1>14, <1>17

(***************************************************************************)
(* The block move: in good memory every word at an even address equals the *)
(* next one, before, between and after the moves.                          *)
(***************************************************************************)
LEMMA SoundWord == fault.kind = "none" => \A v : read_word(v) = mem[Cell(v)]
  BY FaultyBy, SoundRead DEF read_word

LEMMA FrameTwins ==
    ASSUME UNCHANGED <<fault, window>>, NEW v
    PROVE  Twins(v)' <=> (v % 2 = 0 => mem'[Cell(v)] = mem'[Cell(v + 1)])
  BY FrameCells DEF Twins

LEMMA WordPairs ==
    ASSUME CallInv, PointerInv, PatternInv, PairWord
    PROVE  /\ mem' = mem /\ Paired'
           /\ fault.kind = "none" => read_word(p) = read_word(p + 1)
<1>1. WordDone
  BY WordFrame DEF WordStep
<1>2. mem' = mem /\ Cur.kind = "pairs"
  BY DEF PairWord
<1>3. Paired
  BY <1>1, <1>2 DEF PatternInv, WorkInv, WordDone
<1>4. Paired'
  BY <1>1, <1>2, <1>3, FramePaired DEF WordDone
<1>5. p \in Start .. LastWord /\ p % 2 = 0
  BY <1>1, <1>2 DEF PointerInv, InRange, WordDone
<1>6. fault.kind = "none" => mem[Cell(p)] = mem[Cell(p + 1)]
  BY <1>3, <1>5 DEF Paired, Twins
<1>7. QED
  BY <1>2, <1>4, <1>6, SoundWord

\* Pairs are written by pairs.
LEMMA PairsWritten ==
    ASSUME CallInv, MemInv, fault.kind = "none", UNCHANGED <<fault, window>>,
           NEW a \in Start .. LastWord, NEW b \in Start .. LastWord, a % 2 = 0, b % 2 = 1,
           NEW f, DOMAIN f = a .. b, mem' = write_words(mem, f),
           \A v \in a .. b : v % 2 = 0 => f[v] = f[v + 1],
           NEW v \in Start .. LastWord, v \in a .. b \/ Twins(v)
    PROVE  Twins(v)'
<1>1. Start \in Nat /\ LastWord \in Nat /\ LastWord % 16 = 15
  BY RangeFacts
<1>2. \A u \in Start .. LastWord : mem'[Cell(u)] = IF u \in a .. b THEN f[u] ELSE mem[Cell(u)]
  BY <1>1, WritesWhole DEF MemInv, CallInv
<1>3. SUFFICES ASSUME v % 2 = 0 PROVE mem'[Cell(v)] = mem'[Cell(v + 1)]
  BY FrameTwins
<1>4. v + 1 \in Start .. LastWord
  BY <1>1, <1>3
<1>5. CASE v \in a .. b
  <2>1. v + 1 \in a .. b
    BY <1>1, <1>3, <1>5
  <2>2. QED
    BY <1>2, <1>3, <1>4, <1>5, <2>1
<1>6. CASE v \notin a .. b
  <2>1. v + 1 \notin a .. b
    BY <1>1, <1>3, <1>6
  <2>2. mem[Cell(v)] = mem[Cell(v + 1)]
    BY <1>3, <1>6 DEF Twins
  <2>3. QED
    BY <1>2, <1>4, <1>6, <2>1, <2>2
<1>7. QED
  BY <1>5, <1>6

LEMMA WritesDomain ==
    ASSUME NEW m, NEW f
    PROVE  DOMAIN write_words(m, f) = DOMAIN m
<1> DEFINE hit == [v \in DOMAIN f |-> Hits(Cell(v))]
           hits(c) == {v \in DOMAIN f : c \in hit[v]}
           written == UNION {hit[v] : v \in DOMAIN f}
           x(c) == IF c \in written THEN f[CHOOSE v \in hits(c) : \A u \in hits(c) : u <= v] ELSE m[c]
<1>1. write_words(m, f) = [c \in DOMAIN m |-> x(c)]
  BY DEF write_words
<1> HIDE DEF x
<1>2. QED
  BY <1>1

LEMMA WordBlocks ==
    ASSUME CallInv, PointerInv, PatternInv, BlockWords
    PROVE  MemInv' /\ BlocksInv'
<1>1. WordDone
  BY WordFrame DEF WordStep
<1>2. Start' = Start /\ LastWord' = LastWord
  BY <1>1, Frame DEF WordDone
<1>3. Start \in Nat /\ LastWord \in Nat
  BY RangeFacts
<1>4. Cur.kind = "blocks" /\ Cur.step = 16 /\ BlocksInv
  BY <1>1, CurLinked DEF PatternInv, WorkInv, WordDone, BlockWords, GoodPhase
<1>5. /\ p \in Start .. LastWord /\ pe \in Start .. LastWord
      /\ p % 16 = 0 /\ pe % 16 = 15 /\ p + 15 <= pe
  BY <1>1, <1>4 DEF PointerInv, InRange, WordDone
<1> DEFINE f == [v \in p .. p + 15 |->
                    IF v - p \in {4, 5, 10, 11, 14, 15} THEN Not(pattern) ELSE pattern]
<1>6. mem' = write_words(mem, f)
  BY DEF BlockWords
<1>7. MemInv'
  BY <1>6, WritesDomain DEF PatternInv, MemInv
<1>8. /\ p' = IF p <= pe - 16 THEN p + 16 ELSE p
      /\ pc' = IF p <= pe - 16 THEN "words" ELSE "tick"
  BY <1>4 DEF BlockWords, ToNextWord, NextWord, MoreWords
<1>9. /\ pc' = "tick" => p' + 15 = pe
      /\ \A v \in Start .. LastWord : v < p' \/ (pc' = "tick" /\ v <= pe) => v <= p + 15
  BY <1>3, <1>5, <1>8
<1>10. \A v \in p .. p + 15 : v % 2 = 0 => f[v] = f[v + 1]
  BY <1>3, <1>5
<1>11. DOMAIN f = p .. p + 15
  OBVIOUS
<1> HIDE DEF f
<1>12. ASSUME fault.kind = "none", NEW v \in Start .. LastWord, v <= p + 15
       PROVE  Twins(v)'
  <2>1. PICK a \in Start .. LastWord, b \in Start .. LastWord : a = p /\ b = p + 15
    BY <1>3, <1>5
  <2>2. v \in a .. b \/ Twins(v)
    BY <1>1, <1>3, <1>4, <1>5, <1>12, <2>1 DEF BlocksInv, WordDone
  <2>3. a % 2 = 0 /\ b % 2 = 1
    BY <1>3, <1>5, <2>1
  <2>4. QED
    BY <1>1, <1>6, <1>10, <1>11, <1>12, <2>1, <2>2, <2>3, PairsWritten DEF PatternInv, WordDone
<1>13. QED
  BY <1>1, <1>2, <1>7, <1>9, <1>12 DEF BlocksInv, WordDone

LEMMA HalfFacts ==
    ASSUME CallInv, PointerInv, PatternInv, WordDone, Cur.kind = "move"
    PROVE  /\ p = Start /\ pe \in Start .. LastWord /\ pe % 16 = 15
           /\ Half \in Nat /\ Half >= 8 /\ Half % 8 = 0 /\ p + 2 * Half - 1 = pe
<1>1. p = Start /\ pe \in Start .. LastWord /\ pe % 16 = 15
  BY DEF PatternInv, WorkInv, WordDone, PointerInv, InRange, MoveInv
<1>2. Start \in Nat /\ LastWord \in Nat /\ Start % 16 = 0
  BY RangeFacts
<1>3. PICK i \in Nat, j \in Nat : p = 16 * i /\ pe = 16 * j + 15 /\ i <= j
  <2>1. p = 16 * (p \div 16) /\ pe = 16 * (pe \div 16) + 15
        /\ p \div 16 \in Nat /\ pe \div 16 \in Nat /\ p \div 16 <= pe \div 16
    BY <1>1, <1>2
  <2>2. QED
    BY <2>1
<1>4. Half = 8 * (j - i + 1)
  BY <1>3 DEF Half
<1>5. QED
  BY <1>1, <1>3, <1>4

\* Pairs are copied from pairs.
LEMMA PairsMoved ==
    ASSUME CallInv, MemInv, Paired, UNCHANGED <<fault, window>>,
           NEW a \in Start .. LastWord, NEW b \in Start .. LastWord, a % 2 = 0, b % 2 = 1,
           NEW g \in [a .. b -> Start .. LastWord],
           \A v \in a .. b : v % 2 = 0 => g[v] % 2 = 0 /\ g[v + 1] = g[v] + 1,
           NEW f, DOMAIN f = a .. b, \A v \in a .. b : f[v] = read_word(g[v]),
           mem' = write_words(mem, f)
    PROVE  MemInv' /\ Paired'
<1>1. MemInv'
  BY WritesDomain DEF MemInv
<1>2. Start' = Start /\ LastWord' = LastWord
  BY DEF Start, LastWord, Base
<1>3. ASSUME fault.kind = "none", NEW v \in Start .. LastWord
      PROVE  Twins(v)'
  <2>1. Start \in Nat /\ LastWord \in Nat
    BY RangeFacts
  <2>2. ASSUME NEW u \in a .. b, u % 2 = 0 PROVE f[u] = f[u + 1]
    <3>1. u + 1 \in a .. b
      <4>1. a \in Nat /\ b \in Nat /\ u \in a .. b /\ b % 2 = 1 /\ u % 2 = 0
        BY <2>1, <2>2
      <4>2. QED
        BY ONLY <4>1
    <3>2. g[u] \in Start .. LastWord /\ g[u] % 2 = 0 /\ g[u + 1] = g[u] + 1
      BY <2>2
    <3>3. mem[Cell(g[u])] = mem[Cell(g[u + 1])]
      BY <1>3, <3>2 DEF Paired, Twins
    <3>4. f[u] = mem[Cell(g[u])] /\ f[u + 1] = mem[Cell(g[u + 1])]
      BY <1>3, <3>1, SoundWord
    <3>5. QED
      BY <3>3, <3>4
  <2>4. Twins(v)
    BY <1>3 DEF Paired
  <2>5. \A u \in a .. b : u % 2 = 0 => f[u] = f[u + 1]
    BY <2>2
  <2>6. v \in a .. b \/ Twins(v)
    BY <2>4
  <2>7. /\ CallInv /\ MemInv /\ fault.kind = "none" /\ UNCHANGED <<fault, window>>
        /\ a \in Start .. LastWord /\ b \in Start .. LastWord /\ a % 2 = 0 /\ b % 2 = 1
        /\ DOMAIN f = a .. b /\ mem' = write_words(mem, f) /\ v \in Start .. LastWord
    BY <1>3
  <2>8. QED
    BY ONLY <2>5, <2>6, <2>7, PairsWritten, ZenonT(30)
<1>4. QED
  BY <1>1, <1>2, <1>3 DEF Paired

LEMMA WordMoves ==
    ASSUME CallInv, PointerInv, PatternInv, MoveUp \/ MoveDown
    PROVE  MemInv' /\ MoveInv'
<1>1. WordDone
  BY WordFrame DEF WordStep
<1>2. Cur.kind = "move"
  BY DEF MoveUp, MoveDown
<1>3. /\ Start \in Nat /\ LastWord \in Nat /\ Start % 16 = 0
      /\ p = Start /\ pe \in Start .. LastWord /\ pe % 16 = 15
      /\ Half \in Nat /\ Half >= 8 /\ Half % 8 = 0 /\ p + 2 * Half - 1 = pe
  BY <1>1, <1>2, HalfFacts, RangeFacts
<1>4. Paired /\ MemInv
  BY <1>1, <1>2 DEF PatternInv, WorkInv, WordDone, MoveInv
<1>5. PICK s \in Nat, h \in Nat, e \in Nat : s = p /\ h = Half /\ e = pe
  BY <1>3
<1>6. CASE MoveUp
  <2> DEFINE a == s + h
             g == [v \in a .. e |-> v - h]
             f == [v \in a .. e |-> read_word(g[v])]
  <2>1. mem' = write_words(mem, f)
    <3>1. mem' = write_words(mem, [v \in p + Half .. p + 2 * Half - 1 |-> read_word(v - Half)])
      BY <1>6 DEF MoveUp
    <3>2. [v \in p + Half .. p + 2 * Half - 1 |-> read_word(v - Half)] = f
      BY <1>3, <1>5
    <3>3. QED
      BY <3>1, <3>2
  <2>2. /\ a \in Start .. LastWord /\ e \in Start .. LastWord /\ a % 2 = 0 /\ e % 2 = 1
        /\ g \in [a .. e -> Start .. LastWord]
        /\ \A v \in a .. e : v % 2 = 0 => g[v] % 2 = 0 /\ g[v + 1] = g[v] + 1
    BY <1>3, <1>5
  <2> HIDE DEF a, g
  <2>5. DOMAIN f = a .. e /\ \A v \in a .. e : f[v] = read_word(g[v])
    OBVIOUS
  <2> HIDE DEF f
  <2>3. MemInv' /\ Paired'
    BY <1>1, <1>4, <2>1, <2>2, <2>5, PairsMoved DEF WordDone
  <2>4. QED
    BY <1>1, <1>3, <2>3 DEF MoveInv, WordDone
<1>7. CASE MoveDown
  <2> DEFINE b == s + h - 1
             g == [v \in s .. b |-> IF v < s + 8 THEN v + 2 * h - 8 ELSE v + h - 8]
             f == [v \in s .. b |-> read_word(g[v])]
  <2>1. mem' = write_words(mem, f)
    <3>1. mem' = write_words(mem, [v \in p .. p + Half - 1 |->
                   read_word(IF v < p + 8 THEN v + 2 * Half - 8 ELSE v + Half - 8)])
      BY <1>7 DEF MoveDown
    <3>2. [v \in p .. p + Half - 1 |->
              read_word(IF v < p + 8 THEN v + 2 * Half - 8 ELSE v + Half - 8)] = f
      BY <1>3, <1>5
    <3>3. QED
      BY <3>1, <3>2
  <2>2. /\ s \in Start .. LastWord /\ b \in Start .. LastWord /\ s % 2 = 0 /\ b % 2 = 1
    BY <1>3, <1>5
  <2>3. g \in [s .. b -> Start .. LastWord]
    BY <1>3, <1>5
  <2>4. \A v \in s .. b : v % 2 = 0 => g[v] % 2 = 0 /\ g[v + 1] = g[v] + 1
    BY <1>3, <1>5
  <2> HIDE DEF b, g
  <2>7. DOMAIN f = s .. b /\ \A v \in s .. b : f[v] = read_word(g[v])
    OBVIOUS
  <2> HIDE DEF f
  <2>5. MemInv' /\ Paired'
    BY <1>1, <1>4, <2>1, <2>2, <2>3, <2>4, <2>7, PairsMoved DEF WordDone
  <2>6. QED
    BY <1>1, <1>3, <2>5 DEF MoveInv, WordDone
<1>8. QED
  BY <1>6, <1>7

(***************************************************************************)
(* A sleep does nothing to a sound cell.                                   *)
(***************************************************************************)
LEMMA WordSleeps ==
    ASSUME MemInv, Sleep
    PROVE  /\ MemInv'
           /\ \A c \in Cells : c \notin FaultyCells => mem'[c] = mem[c]
           /\ fault.kind = "none" => mem' = mem
<1>1. CASE fault.kind = "fade"
  <2>1. mem' = [mem EXCEPT ![fault.cell] = fault.to]
    BY <1>1 DEF Sleep
  <2>2. FaultyCells = {fault.cell}
    BY <1>1, FaultyBy
  <2>3. QED
    BY <1>1, <2>1, <2>2 DEF MemInv
<1>2. CASE fault.kind # "fade"
  BY <1>2 DEF Sleep, MemInv
<1>3. QED
  BY <1>1, <1>2

(***************************************************************************)
(* Test 0: the word at p's distance keeps its value while the other one    *)
(* goes over all those at a distance of one bit.                           *)
(***************************************************************************)
LEMMA MaskedInside ==
    ASSUME CallInv, NEW k \in Nat, Masked(k) <= LastWord
    PROVE  Masked(k) \in Start .. LastWord
  BY RangeFacts DEF Masked

LEMMA FrameWalk ==
    ASSUME WordDone, pc' = "words", p' = p, NEW u, u = Masked(p), mem'[Cell(u)] = WalkValue(u, Cur.invert)
    PROVE  WalkInv'
<1>1. Cur' = Cur /\ Masked(p)' = u /\ \A v : Cell(v)' = Cell(v)
  BY Frame, FrameMasked, FrameCells DEF WordDone
<1>2. QED
  BY <1>1 DEF WalkInv

LEMMA WalkBegins ==
    ASSUME CallInv, PointerInv, PatternInv, WalkFirst
    PROVE  MemInv' /\ WalkInv' /\ errors' = errors
<1>1. WordDone /\ errors' = errors /\ Cur.kind = "walk" /\ End = LastWord /\ p' = p
  BY WordFrame DEF WordStep, WalkFirst, End
<1>2. CASE Masked(p) > End
  BY <1>2 DEF WalkFirst, WalkInv, PatternInv, MemInv
<1>3. CASE ~(Masked(p) > End)
  <2>0. pc' = "words"
    BY <1>1, <1>3 DEF WalkFirst, WordDone
  <2>1. p \in Nat /\ Masked(p) \in Nat /\ LastWord \in Nat
    BY <1>1, RangeFacts DEF PointerInv, WordDone, Masked
  <2>2. PICK u, y : u \in Start .. LastWord /\ u = Masked(p) /\ y = WalkValue(u, Cur.invert)
    BY <1>1, <1>3, <2>1, MaskedInside
  <2>3. mem' = write_word(mem, u, y)
    BY <1>3, <2>2 DEF WalkFirst
  <2>4. MemInv' /\ Holds(u, y)'
    BY <1>1, <2>2, <2>3, OneWrite DEF PatternInv, WordDone
  <2>5. FaultyCells' = FaultyCells /\ \A v : Cell(v)' = Cell(v)
    BY <1>1, FrameCells DEF WordDone
  <2>6. fault.kind = "none" => mem'[Cell(u)] = y
    BY <2>4, <2>5, FaultyBy DEF Holds
  <2>7. CASE fault.kind = "none"
    BY <1>1, <2>0, <2>2, <2>4, <2>6, <2>7, FrameWalk
  <2>8. CASE fault.kind # "none"
    BY <1>1, <2>0, <2>4, <2>8 DEF WalkInv, WordDone
  <2>9. QED
    BY <2>7, <2>8
<1>4. QED
  BY <1>1, <1>2, <1>3

LEMMA WalkGoesOn ==
    ASSUME CallInv, PointerInv, PatternInv, WalkSecond
    PROVE  MemInv' /\ WalkInv' /\ (fault.kind = "none" => errors' = errors)
<1>1. WordDone /\ Cur.kind = "walk" /\ End = LastWord /\ q > 0 /\ pc' = "words"
  BY WordFrame DEF WordStep, WalkSecond, End
<1>2. p \in Nat \ {0} /\ q \in Nat /\ Masked(p) <= LastWord /\ MemInv /\ WalkInv
  BY <1>1 DEF PointerInv, PatternInv, WorkInv, WordDone
<1>3. PICK u \in Start .. LastWord : u = Masked(p)
  BY <1>2, MaskedInside
<1> DEFINE p2 == Masked(q)
           expect == WalkValue(u, Cur.invert)
           after == write_word(mem, p2, WalkValue(p2, ~Cur.invert))
           wrong == Read(after, u) # expect
<1>4. /\ IF p2 > End /\ p2 # u THEN p' = 2 * p /\ q' = 0 ELSE p' = p /\ q' = 2 * q
      /\ p2 = u \/ p2 > End => UNCHANGED <<mem, errors>>
      /\ ~(p2 = u \/ p2 > End) =>
           /\ errors' = errors \cup (IF wrong THEN Error(u, FALSE) ELSE {})
           /\ mem' = IF wrong THEN write_word(after, u, expect) ELSE after
  BY <1>3 DEF WalkSecond
<1>5. fault.kind = "none" => mem[Cell(u)] = expect
  BY <1>1, <1>2, <1>3 DEF WalkInv, WordDone
<1>6. CASE p2 = u \/ p2 > End
  <2>1. MemInv' /\ errors' = errors /\ mem' = mem
    BY <1>2, <1>4, <1>6 DEF MemInv
  <2>2. q' = 0 \/ p' = p
    BY <1>4
  <2>3. WalkInv'
    <3>1. CASE q' = 0
      BY <3>1 DEF WalkInv
    <3>2. CASE p' = p /\ fault.kind = "none"
      BY <1>1, <1>3, <1>5, <2>1, <3>2, FrameWalk
    <3>3. CASE fault.kind # "none"
      BY <1>1, <3>3 DEF WalkInv, WordDone
    <3>4. QED
      BY <2>2, <3>1, <3>2, <3>3
  <2>4. QED
    BY <2>1, <2>3
<1>7. CASE ~(p2 = u \/ p2 > End)
  <2>1. Masked(q) \in Nat /\ LastWord \in Nat
    BY <1>2, RangeFacts DEF Masked
  <2>2. p2 \in Start .. LastWord /\ p2 # u
    BY <1>1, <1>2, <1>7, <2>1, MaskedInside
  <2> HIDE DEF p2, expect
  <2>3. Cell(p2) # Cell(u) /\ Cell(u) \in Cells
    BY <1>1, <2>2, RangeCells DEF CallInv
  <2>4. DOMAIN after = Cells /\ (fault.kind = "none" => after[Cell(u)] = mem[Cell(u)])
    BY <1>2, <2>3, SoundWrite, FaultyBy DEF MemInv
  <2> HIDE DEF after
  <2>5. DOMAIN write_word(after, u, expect) = Cells
    BY <2>4, SoundWrite
  <2>6. MemInv'
    BY <1>4, <1>7, <2>4, <2>5 DEF MemInv
  <2>7. p' = p
    BY <1>4, <1>7
  <2>8. CASE fault.kind = "none"
    <3>1. Read(after, u) = after[Cell(u)]
      BY <2>8, SoundRead, FaultyBy
    <3>2. ~wrong /\ after[Cell(u)] = expect
      BY <1>5, <2>4, <2>8, <3>1
    <3>3. mem' = after /\ errors' = errors
      BY <1>4, <1>7, <3>2
    <3>4. WalkInv'
      BY <1>1, <1>3, <2>7, <3>2, <3>3, FrameWalk DEF expect
    <3>5. QED
      BY <2>6, <3>3, <3>4
  <2>9. CASE fault.kind # "none"
    BY <1>1, <2>6, <2>9 DEF WalkInv, WordDone
  <2>10. QED
    BY <2>8, <2>9
<1>8. QED
  BY <1>6, <1>7

-----------------------------------------------------------------------------
(***************************************************************************)
(* Between blocks: the next one goes on where the last has ended, or the   *)
(* phase is over, and has left what it was to leave.                       *)
(***************************************************************************)
LEMMA FrameLeft ==
    ASSUME UNCHANGED <<fault, window, mem, pattern>>, NEW ph, NEW s, LeftBy(ph, s)
    PROVE  LeftBy(ph, s)'
<1>1. /\ Start' = Start /\ LastWord' = LastWord /\ window' = window
      /\ \A off : Strides(off)' = Strides(off)
      /\ \A v, x : Holds(v, x)' <=> Holds(v, x)
      /\ Paired' <=> Paired
  <2>1. Start' = Start /\ LastWord' = LastWord
    BY DEF Start, LastWord, Base
  <2>2. \A off : Strides(off)' = Strides(off)
    BY <2>1 DEF Strides
  <2>3. QED
    BY <2>1, <2>2, FrameHolds, FramePaired
<1>2. ASSUME Whole(ph), NEW v \in Start .. LastWord
      PROVE  Holds(v, Leaves(ph, s, window, v))'
  <2>1. PICK x : x = Leaves(ph, s, window, v)
    OBVIOUS
  <2>2. Holds(v, x)
    BY <1>2, <2>1 DEF LeftBy
  <2>3. QED
    BY <1>1, <2>1, <2>2
<1>3. QED
  BY <1>1, <1>2 DEF LeftBy

\* The modulo test has checked or filled its stride up to the last word.
LEMMA StrideOver ==
    ASSUME CallInv, PointerInv, PatternInv, my_cpu = 0, pc = "tick", Cur.kind = "nth", AtEnd
    PROVE  \A v \in Strides(Cur.off) : Holds(v, Cur.seed)
<1>1. /\ phase <= Len(phases) /\ NthInv
      /\ p \in Start .. LastWord /\ pe \in Start .. LastWord
  BY DEF CallInv, PatternInv, WorkInv, PointerInv, InRange
<1>2. /\ Start \in Nat /\ LastWord \in Nat /\ MODULO_N \in Nat \ {0, 1}
      /\ Cur.up /\ Cur.off \in 0 .. MODULO_N - 1
  BY <1>1, RangeFacts, CurLinked DEF PatternInv, GoodPhase
<1>3. pe = LastWord - MODULO_N
  BY <1>2 DEF AtEnd, End
<1>4. ASSUME NEW v \in Strides(Cur.off) PROVE v < p \/ v = p
  <2>1. v \in Start .. LastWord /\ (v - Start) % MODULO_N = Cur.off
        /\ (v = Start + Cur.off \/ v + MODULO_N <= LastWord)
    BY DEF Strides
  <2>2. (p - Start) % MODULO_N = Cur.off /\ p >= Start + Cur.off /\ p > pe - MODULO_N
    BY <1>1 DEF NthInv
  <2>3. SUFFICES ASSUME p < v PROVE FALSE
    BY <1>1, <1>2, <2>1
  <2>4. p + MODULO_N <= v
    BY <1>1, <2>1, <2>2, <2>3, StrideApart
  <2>5. v + MODULO_N <= LastWord
    BY <1>1, <1>2, <2>1, <2>2, <2>3
  <2>6. QED
    BY <1>1, <1>2, <1>3, <2>1, <2>2, <2>4, <2>5
<1>5. QED
  BY <1>1, <1>4 DEF NthInv

LEMMA PhaseOver ==
    ASSUME CallInv, PointerInv, PatternInv, my_cpu = 0, pc = "tick", AtEnd
    PROVE  LeftBy(Cur, SeedNow)
<1>1. phase <= Len(phases)
  BY DEF CallInv
<1>2. /\ Start \in Nat /\ LastWord \in Nat
      /\ GoodPhase(Cur) /\ Sown(Cur) /\ Cur.up \in BOOLEAN
  BY <1>1, RangeFacts, CurLinked DEF PatternInv, GoodPhase
<1>3. ASSUME Whole(Cur)
      PROVE  /\ \A v \in Start .. LastWord : Holds(v, Leaves(Cur, SeedNow, window, v))
             /\ Cur.turn = "left" => pattern = Orbit(RotL, SeedNow)[LastWord - Start + 1]
  <2>1. Cur.kind = "march" /\ WholeInv /\ InBlock
    BY <1>3 DEF PatternInv, WorkInv, PointerInv, Whole
  <2>2. p = IF Cur.up THEN LastWord + 1 ELSE Start - 1
    BY <1>2, <2>1 DEF InBlock, AtEnd, End
  <2>3. \A v \in Start .. LastWord : Behind(v)
    BY <1>2, <2>2 DEF Behind
  <2>4. ASSUME Cur.turn = "left" PROVE pattern = Orbit(RotL, SeedNow)[LastWord - Start + 1]
    <3>1. Cur.up /\ p - Start = LastWord - Start + 1
      BY <1>2, <2>2, <2>4 DEF Sown
    <3>2. pattern = Carried(Cur, SeedNow, pattern, p - Start)
      BY <2>1 DEF WholeInv
    <3>3. QED
      BY <2>4, <3>1, <3>2, CarriedBy
  <2>5. QED
    BY <2>1, <2>3, <2>4 DEF WholeInv
<1>4. Spared(Cur) => \A v \in Strides(Cur.skip) : Holds(v, Not(Cur.seed))
  BY DEF PatternInv, WorkInv, SparedInv
<1>5. Cur.kind = "nth" => \A v \in Strides(Cur.off) : Holds(v, Cur.seed)
  BY StrideOver
<1>6. Cur.kind \in {"blocks", "move", "pairs"} => Paired
  <2>1. Cur.kind \in {"move", "pairs"} => Paired
    BY DEF PatternInv, WorkInv, MoveInv
  <2>2. ASSUME Cur.kind = "blocks" PROVE Paired
    <3>1. pe = LastWord
      BY <1>2, <2>2 DEF AtEnd, End, GoodPhase
    <3>2. QED
      BY <1>2, <2>2, <3>1 DEF PatternInv, WorkInv, BlocksInv, Paired
  <2>3. QED
    BY <2>1, <2>2
<1>7. QED
  BY <1>3, <1>4, <1>5, <1>6 DEF LeftBy

LEMMA PhaseRests ==
    ASSUME CallInv, PointerInv, PatternInv, EndBlock
    PROVE  RestInv'
<1> SUFFICES ASSUME my_cpu' = 0, pc' = "call"
             PROVE  LeftBy(phases[phase - 1], SeedOf(phases, phase - 1))'
  BY DEF RestInv
<1>1. /\ my_cpu = 0 /\ pc = "tick" /\ AtEnd /\ phase' = phase + 1 /\ phases' = phases
      /\ UNCHANGED <<fault, window, mem, pattern>>
  BY DEF EndBlock, Enter, callVars
<1>2. PICK ph, s : ph = Cur /\ s = SeedNow
  OBVIOUS
<1>3. LeftBy(ph, s)'
  BY <1>1, <1>2, PhaseOver, FrameLeft
<1>4. phase' - 1 = phase
  BY <1>1 DEF CallInv
<1>5. phases'[phase' - 1] = ph /\ SeedOf(phases', phase' - 1) = s
  BY <1>1, <1>2, <1>4 DEF Cur, SeedNow
<1>6. QED
  BY <1>3, <1>5

LEMMA SleepRests ==
    ASSUME CallInv, SkipSleep
    PROVE  RestInv'
<1>1. phases'[phase' - 1].kind = "sleep"
  <2>1. phase' = phase + 1 /\ phases' = phases /\ Cur.kind = "sleep"
    BY DEF SkipSleep, Slept, callVars
  <2>2. phase' - 1 = phase
    BY <2>1 DEF CallInv
  <2>3. QED
    BY <2>1, <2>2 DEF Cur
<1>2. LeftBy(phases[phase - 1], SeedOf(phases, phase - 1))'
  BY <1>1 DEF LeftBy, Whole, Spared
<1>3. QED
  BY <1>2 DEF RestInv

LEMMA BlockFollows ==
    ASSUME CallInv, PointerInv, PatternInv, EndBlock
    PROVE  WorkInv'
<1> SUFFICES ASSUME my_cpu' = 0, pc' \in {"words", "tick"}
             PROVE  WorkInv'
  BY DEF WorkInv
<1>1. /\ phase <= Len(phases) /\ UNCHANGED <<window, phases, phase, my_cpu, p, q, mem, fault>>
      /\ my_cpu = 0 /\ pc = "tick" /\ pc' = "words"
      /\ Cur.kind # "blocks" => pattern' = pattern
  BY DEF CallInv, EndBlock, Enter, callVars
<1>2. /\ Cur' = Cur /\ Start' = Start /\ LastWord' = LastWord /\ SeedNow' = SeedNow
      /\ Masked(p)' = Masked(p)
      /\ \A off : Strides(off)' = Strides(off)
      /\ \A v, x : Holds(v, x)' <=> Holds(v, x)
      /\ \A v : Twins(v)' <=> Twins(v)
      /\ Paired' <=> Paired
      /\ \A v : Behind(v)' <=> Behind(v)
  <2>1. /\ Cur' = Cur /\ Start' = Start /\ LastWord' = LastWord /\ Masked(p)' = Masked(p)
        /\ \A v : Behind(v)' <=> Behind(v)
    BY <1>1, Frame, FrameMasked DEF Behind
  <2>2. QED
    BY <1>1, <2>1, FrameSeed, FrameHolds, FramePaired
<1>3. /\ Whole(Cur) => WholeInv
      /\ Spared(Cur) => SparedInv
      /\ Cur.kind = "nth" => NthInv
      /\ Cur.kind = "blocks" => BlocksInv
      /\ Cur.kind = "move" => MoveInv
      /\ Cur.kind = "pairs" => Paired
      /\ Cur.kind = "walk" => WalkInv
  BY <1>1 DEF PatternInv, WorkInv
<1>4. ASSUME Whole(Cur) PROVE WholeInv'
  <2>1. pattern' = pattern /\ WholeInv
    BY <1>1, <1>3, <1>4 DEF Whole
  <2>2. pattern' = Carried(Cur, SeedNow, pattern', p - Start)
    BY <2>1 DEF WholeInv
  <2>3. ASSUME NEW v \in Start .. LastWord
        PROVE  /\ Behind(v)' => Holds(v, Leaves(Cur, SeedNow, window, v))'
               /\ ~Behind(v)' /\ Cur.check => Holds(v, Want(Cur, SeedNow, window, v))'
    <3>1. PICK x, y : x = Leaves(Cur, SeedNow, window, v) /\ y = Want(Cur, SeedNow, window, v)
      OBVIOUS
    <3>2. (Behind(v) => Holds(v, x)) /\ (~Behind(v) /\ Cur.check => Holds(v, y))
      BY <2>1, <3>1 DEF WholeInv
    <3>3. QED
      BY <1>1, <1>2, <3>1, <3>2
  <2>4. QED
    BY <1>1, <1>2, <2>2, <2>3 DEF WholeInv
<1>5. ASSUME Spared(Cur) PROVE SparedInv'
  <2>1. SparedInv /\ pattern' = pattern
    BY <1>1, <1>3, <1>5 DEF Spared
  <2>2. PICK x : x = Not(Cur.seed)
    OBVIOUS
  <2>3. \A v \in Strides(Cur.skip) : Holds(v, x)'
    BY <1>2, <2>1, <2>2 DEF SparedInv
  <2>4. QED
    BY <1>2, <2>1, <2>2, <2>3 DEF SparedInv
<1>6. ASSUME Cur.kind = "nth" PROVE NthInv'
  <2>1. NthInv /\ pattern' = pattern
    BY <1>1, <1>3, <1>6
  <2>2. PICK x : x = Cur.seed
    OBVIOUS
  <2>3. \A v \in Strides(Cur.off) : Cur.check \/ v < p => Holds(v, x)'
    BY <1>2, <2>1, <2>2 DEF NthInv
  <2>4. QED
    BY <1>1, <1>2, <2>1, <2>2, <2>3 DEF NthInv
<1>7. Cur.kind = "blocks" => BlocksInv'
  BY <1>1, <1>2, <1>3 DEF BlocksInv
<1>8. ASSUME Cur.kind = "move" PROVE pe' % 16 = 15
  <2>1. pe % 16 = 15 /\ pe \in Start .. LastWord /\ Cur.up /\ End = LastWord
    BY <1>1, <1>3, <1>8, CurGood DEF MoveInv, PointerInv, InRange, End, GoodPhase
  <2>2. CASE left > 1
    BY <1>1, <2>1, <2>2 DEF EndBlock, Enter
  <2>3. CASE ~(left > 1)
    <3>1. ~AtEnd /\ pe' = BlockEnd(pe + 1)
      BY <1>1, <2>1, <2>3 DEF EndBlock, Enter
    <3>2. Start \in Nat /\ LastWord \in Nat /\ LastWord % 16 = 15
      BY RangeFacts
    <3>3. pe + 1 \in Start .. End /\ (pe + 1) % 16 = 0 /\ End % 16 = 15
      BY <2>1, <3>1, <3>2 DEF AtEnd
    <3>4. QED
      BY <1>1, <2>1, <3>1, <3>3, BlockInside
  <2>4. QED
    BY <2>2, <2>3
<1>9. Cur.kind \in {"move", "pairs"} => Paired'
  BY <1>2, <1>3 DEF MoveInv
<1>10. Cur.kind = "walk" => WalkInv'
  BY <1>1, <1>3 DEF WalkInv
<1>11. QED
  BY <1>2, <1>4, <1>5, <1>6, <1>7, <1>8, <1>9, <1>10 DEF WorkInv, MoveInv

-----------------------------------------------------------------------------
(***************************************************************************)
(* Tests 2 and 10 come back to a window in a later call.  What an earlier  *)
(* stage has left there stays as it is while the other windows are tested, *)
(* whose words are other cells, and while the program sleeps.              *)
(***************************************************************************)
LEMMA StagesBy == Stages(2) = 2 /\ Stages(10) = 6
<1>1. 10 # 2
  OBVIOUS
<1>2. QED
  BY <1>1, Zenon DEF Stages

\* The one phase of a call of these tests.
Storing(ph) ==
    \/ /\ Filling /\ Whole(ph) /\ ph.put = "same" /\ ~ph.invert
       /\ ph.turn = IF test = 2 THEN "own+window" ELSE "none"
       /\ test = 10 => ph.seed = (IF stage < 3 THEN {} ELSE Bits)
       /\ ~ph.flip
    \/ ~Filling /\ ph.kind = "sleep"
    \/ ~Filling /\ Whole(ph) /\ ph.put = "none"

LEMMA OnePhase ==
    ASSUME CallInv, PhasesInv, test \in {2, 10}
    PROVE  Len(phases) = 1 /\ Storing(phases[1])
<1>1. PICK r : phases = Phases(test, stage, r)
  BY DEF PhasesInv
<1>2. {} \in Words /\ Bits \in Words
  BY WordsClosed
<1>3. CASE test = 2
  <2>1. stage \in 0 .. 1
    BY <1>3, StagesBy DEF CallInv
  <2>2. CASE stage = 0
    <3>1. phases = <<Fill({}, "own+window")>>
      BY <1>1, <1>3, <2>2, Switch
    <3>2. /\ Whole(Fill({}, "own+window")) /\ Fill({}, "own+window").put = "same"
          /\ ~Fill({}, "own+window").invert /\ ~Fill({}, "own+window").flip
          /\ Fill({}, "own+window").turn = "own+window"
      BY <1>2, FillSown DEF Turns
    <3>3. QED
      BY <1>3, <2>2, <3>1, <3>2 DEF Storing, Filling
  <2>3. CASE stage = 1
    <3>1. phases = <<Check({}, "own+window")>>
      <4>1. stage # 0
        BY <2>3
      <4>2. Phases(2, stage, r) = IF stage = 0 THEN <<Fill({}, "own+window")>>
                                               ELSE <<Check({}, "own+window")>>
        BY Switch
      <4>3. phases = Phases(2, stage, r)
        BY <1>1, <1>3
      <4>4. QED
        BY <4>1, <4>2, <4>3, Zenon
    <3>2. Whole(Check({}, "own+window")) /\ Check({}, "own+window").put = "none"
      BY <1>2, FillSown DEF Turns
    <3>3. QED
      BY <1>3, <2>3, <3>1, <3>2 DEF Storing, Filling
  <2>4. QED
    BY <2>1, <2>2, <2>3
<1>4. CASE test = 10
  <2>1. stage \in 0 .. 5
    BY <1>4, StagesBy DEF CallInv
  <2>2. Iterations[10] \in Nat \ {0}
    BY <1>4, MemTestsAssumption DEF CallInv
  <2>3. phases = test_bit_fade(stage, Iterations[10])
    BY <1>1, <1>4, Switch
  <2>4. ASSUME NEW x \in {{}, Bits}
        PROVE  /\ Whole(Fill(x, "none")) /\ Fill(x, "none").put = "same"
               /\ ~Fill(x, "none").invert /\ ~Fill(x, "none").flip
               /\ Fill(x, "none").turn = "none" /\ Fill(x, "none").seed = x
               /\ Whole(Check(x, "none")) /\ Check(x, "none").put = "none"
    <3>1. x \in Words /\ "none" \in Turns \ {"right"}
      BY <1>2 DEF Turns
    <3>2. QED
      BY <3>1, FillSown
  <2>5. CASE stage = 0
    <3>1. phases = <<Fill({}, "none")>>
      BY <2>2, <2>3, <2>5, FadeList
    <3>2. QED
      BY <1>4, <2>4, <2>5, <3>1 DEF Storing, Filling
  <2>6. CASE stage = 3
    <3>1. phases = <<Fill(Bits, "none")>>
      BY <2>2, <2>3, <2>6, FadeList
    <3>2. QED
      BY <1>4, <2>4, <2>6, <3>1 DEF Storing, Filling
  <2>7. CASE stage \in {1, 4}
    <3>1. phases = <<Delay(Iterations[10])>>
      BY <2>2, <2>3, <2>7, FadeList
    <3>2. Delay(Iterations[10]).kind = "sleep"
      BY <2>2, DelaySown
    <3>3. QED
      BY <1>4, <2>7, <3>1, <3>2 DEF Storing, Filling
  <2>8. CASE stage = 2
    <3>1. phases = <<Check({}, "none")>>
      BY <2>2, <2>3, <2>8, FadeList
    <3>2. QED
      BY <1>4, <2>4, <2>8, <3>1 DEF Storing, Filling
  <2>9. CASE stage = 5
    <3>1. phases = <<Check(Bits, "none")>>
      BY <2>2, <2>3, <2>9, FadeList
    <3>2. QED
      BY <1>4, <2>4, <2>9, <3>1 DEF Storing, Filling
  <2>10. QED
    BY <2>1, <2>5, <2>6, <2>7, <2>8, <2>9
<1>5. QED
  BY <1>3, <1>4

LEMMA FrameStored ==
    ASSUME CallInv, UNCHANGED fault, NEW w \in Windows,
           \A v : Kept(w, v)' = Kept(w, v),
           \A c \in SegmentCells(w) : c \notin FaultyCells => mem'[c] = mem[c], Stored(w)
    PROVE  Stored(w)'
<1>1. FaultyCells' = FaultyCells
  BY DEF FaultyCells
<1>2. ASSUME NEW v \in FirstWord(w) .. FinalWord(w), CellIn(w, v) \notin FaultyCells
      PROVE  mem'[CellIn(w, v)] = Kept(w, v)'
  <2>1. CellIn(w, v) \in SegmentCells(w)
    BY CellsOf
  <2>2. mem[CellIn(w, v)] = Kept(w, v)
    BY <1>2 DEF Stored
  <2>3. QED
    BY <1>2, <2>1, <2>2
<1>3. QED
  BY <1>1, <1>2 DEF Stored

\* What a step at a word leaves alone.
Untouched ==
    \A c \in Cells : c \notin FaultyCells =>
        mem'[c] = mem[c] \/ (Filling /\ c \in SegmentCells(window))

LEMMA StoreStays ==
    ASSUME CallInv, StoreInv, UNCHANGED <<fault, window, test, stage, my_cpu>>,
           pc \in {"call", "words", "tick"},
           test \in {2, 10} => Untouched
    PROVE  StoreInv'
<1> SUFFICES ASSUME my_cpu = 0, test \in {2, 10}, NEW w \in Windows, w < window \/ ~Filling
             PROVE  Stored(w)'
  BY DEF StoreInv, Filling
<1>1. Stored(w)
  BY DEF StoreInv
<1>2. w # window => SegmentCells(w) \cap SegmentCells(window) = {}
  BY SegmentsApart DEF CallInv
<1>3. \A c \in SegmentCells(w) : c \in Cells
  BY DEF Cells
<1>4. w < window => w # window
  BY MemTestsAssumption DEF CallInv, Windows
<1>5. \A c \in SegmentCells(w) : c \notin FaultyCells => mem'[c] = mem[c]
  BY <1>2, <1>3, <1>4 DEF Untouched
<1>6. \A v : Kept(w, v)' = Kept(w, v)
  BY DEF Kept
<1>7. QED
  BY <1>1, <1>5, <1>6, FrameStored

LEMMA CallStored ==
    ASSUME CallInv, PatternInv, my_cpu = 0, pc = "call", phase > Len(phases), test \in {2, 10},
           NEW w \in Windows, w <= window \/ ~Filling
    PROVE  Stored(w)
<1>1. CASE w < window \/ ~Filling
  BY <1>1 DEF PatternInv, StoreInv
<1>2. CASE w = window /\ Filling
  <2>1. Len(phases) = 1 /\ Storing(phases[1])
    BY OnePhase DEF PatternInv
  <2>2. phase = 2
    BY <2>1 DEF PatternInv, PhasesInv
  <2> DEFINE ph == phases[1]
             s == SeedOf(phases, 1)
  <2>3. LeftBy(ph, s)
    BY <2>2 DEF PatternInv, RestInv
  <2>4. /\ Whole(ph) /\ ph.put = "same" /\ ~ph.invert /\ ~ph.flip
        /\ ph.turn = IF test = 2 THEN "own+window" ELSE "none"
        /\ test = 10 => ph.seed = (IF stage < 3 THEN {} ELSE Bits)
    BY <1>2, <2>1 DEF Storing
  <2>5. s = ph.seed
    BY <2>4 DEF SeedOf
  <2> HIDE DEF ph, s
  <2>6. ASSUME NEW v PROVE Leaves(ph, s, window, v) = Kept(window, v)
    <3>1. Leaves(ph, s, window, v) = Plain(ph, s, window, v)
      BY <2>4 DEF Leaves, Want
    <3>2. test = 2 => Plain(ph, s, window, v) = Number(v + OffsetOf(window) * PAGE_WORDS)
      BY <2>4, PlainBy
    <3>3. test = 10 => Plain(ph, s, window, v) = IF stage < 3 THEN {} ELSE Bits
      BY <2>4, <2>5, PlainBy
    <3>4. QED
      BY <3>1, <3>2, <3>3 DEF Kept
  <2>7. \A v \in Start .. LastWord : Holds(v, Kept(window, v))
    BY <2>3, <2>4, <2>6 DEF LeftBy
  <2>8. QED
    BY <1>2, <2>7, RangeCells DEF Stored, Holds
<1>3. QED
  <2>1. w \in Int /\ window \in Int
    BY MemTestsAssumption DEF CallInv, Windows
  <2>2. QED
    BY <1>1, <1>2, <2>1

(***************************************************************************)
(* run_test returns.                                                       *)
(***************************************************************************)
LEMMA CallEnds ==
    ASSUME CallInv, PatternInv, EndCall
    PROVE  PatternInv'
<1>1. /\ pc = "call" /\ phase > Len(phases) /\ phase' = 1 /\ pc' \in {"call", "done"}
      /\ UNCHANGED <<fault, mem, test>>
  BY DEF EndCall
<1>2. PhasesInv'
  <2>1. PICK call \in Calls : call.test = test /\ call.stage = stage' /\ phases' = call.phases
    BY DEF EndCall
  <2>2. \E t \in Tests : \E st \in 0 .. Stages(t) - 1 : \E r \in Readings(t) :
          call = [test |-> t, stage |-> st, phases |-> Phases(t, st, r)]
    BY DEF Calls
  <2>3. \E r \in Readings(test) : phases' = Phases(test, stage', r)
    BY <2>1, <2>2
  <2>4. Listed(phases')
    BY <2>1, CallsListed
  <2>5. Len(phases') \in Nat
    BY <2>4, ListOf
  <2>6. QED
    BY <1>1, <2>3, <2>5 DEF PhasesInv
<1>3. MemInv' /\ WorkInv' /\ RestInv'
  BY <1>1 DEF PatternInv, MemInv, WorkInv, RestInv
<1>4. StoreInv'
  <2> SUFFICES ASSUME my_cpu' = 0, test \in {2, 10}, pc' = "call",
                      NEW w \in Windows, w < window' \/ ~Filling'
               PROVE  Stored(w)'
    BY <1>1 DEF StoreInv
  <2>1. /\ window \in Windows /\ \A v \in Windows : v \in Nat /\ v >= 1 /\ v <= Len(Segments)
        /\ Len(Segments) \in Nat /\ stage \in Nat
    BY MemTestsAssumption, StagesOf DEF CallInv, Windows
  <2>2. \/ window < Len(Segments) /\ window' = window + 1 /\ UNCHANGED <<stage, my_cpu>>
        \/ window = Len(Segments) /\ window' = 1 /\ stage' = stage + 1 /\ UNCHANGED my_cpu
        \/ window' = 1 /\ stage' = 0
    BY DEF EndCall
  <2>3. ASSUME my_cpu = 0, w <= window \/ ~Filling, \A v : Kept(w, v)' = Kept(w, v)
        PROVE  Stored(w)'
    <3>1. Stored(w)
      BY <1>1, <2>3, CallStored
    <3>2. QED
      BY <1>1, <2>3, <3>1, FrameStored
  <2>4. CASE window' = window + 1 /\ UNCHANGED <<stage, my_cpu>>
    <3>1. w <= window \/ ~Filling
      BY <1>1, <2>1, <2>4 DEF Filling
    <3>2. \A v : Kept(w, v)' = Kept(w, v)
      BY <1>1, <2>4 DEF Kept
    <3>3. QED
      BY <2>3, <2>4, <3>1, <3>2
  <2>5. CASE window = Len(Segments) /\ window' = 1 /\ stage' = stage + 1 /\ UNCHANGED my_cpu
    <3>1. ~Filling' /\ w <= window
      BY <2>1, <2>5
    <3>2. stage' # 0 /\ ~(test = 10 /\ stage' = 3)
      BY <1>1, <3>1 DEF Filling
    <3>3. \A v : Kept(w, v)' = Kept(w, v)
      <4>1. CASE test = 2
        BY <1>1, <4>1 DEF Kept
      <4>2. CASE test = 10
        <5>1. stage' < 3 <=> stage < 3
          BY <2>1, <2>5, <3>2, <4>2
        <5>2. QED
          BY <1>1, <4>2, <5>1 DEF Kept
      <4>3. QED
        BY <4>1, <4>2
    <3>4. QED
      BY <2>3, <2>5, <3>1, <3>3
  <2>6. CASE window' = 1 /\ stage' = 0
    <3>1. Filling' /\ ~(w < window')
      BY <2>1, <2>6 DEF Filling, Windows
    <3>2. QED
      BY <3>1
  <2>7. QED
    BY <2>2, <2>4, <2>5, <2>6
<1>5. QED
  BY <1>2, <1>3, <1>4 DEF PatternInv

-----------------------------------------------------------------------------
(***************************************************************************)
(* Every step at a word keeps the invariant, and blames a faulty cell only.*)
(***************************************************************************)
ErrorsSound ==
    /\ fault.kind = "none" => errors' = errors
    /\ \A e \in errors' : e \in errors \/ (e.use => e.cell \in FaultyCells)

LEMMA ErrorAt ==
    ASSUME NEW v, NEW use, NEW wrong \in BOOLEAN,
           errors' = errors \cup (IF wrong THEN Error(v, use) ELSE {}),
           wrong => Cell(v) \in FaultyCells
    PROVE  ErrorsSound
<1>1. fault.kind = "none" => ~wrong
  BY FaultyBy
<1>2. Error(v, use) = {[cell |-> Cell(v), use |-> use]}
  BY DEF Error
<1>3. ~wrong => errors' = errors
  OBVIOUS
<1>4. ASSUME wrong, NEW e \in errors' PROVE e \in errors \/ (e.use => e.cell \in FaultyCells)
  <2>1. e \in errors \/ e = [cell |-> Cell(v), use |-> use]
    BY <1>2, <1>4
  <2>2. [cell |-> Cell(v), use |-> use].cell = Cell(v)
    OBVIOUS
  <2>3. QED
    BY <1>4, <2>1, <2>2, Zenon
<1>5. QED
  BY <1>1, <1>3, <1>4 DEF ErrorsSound

LEMMA StoringNow ==
    ASSUME CallInv, PhasesInv, phase <= Len(phases), test \in {2, 10}
    PROVE  Storing(Cur)
<1>1. phase = 1 /\ Storing(phases[1])
  <2>1. Len(phases) = 1 /\ Storing(phases[1])
    BY OnePhase
  <2>2. phase \in Nat \ {0}
    BY DEF CallInv
  <2>3. QED
    BY <2>1, <2>2
<1>2. QED
  BY <1>1 DEF Cur

LEMMA WordSound ==
    ASSUME CallInv, PointerInv, PatternInv, Word
    PROVE  WorkInv' /\ MemInv' /\ ErrorsSound /\ (test \in {2, 10} => Untouched)
<1>1. WordDone
  BY WordFrame DEF WordStep
<1>2. Cur' = Cur /\ Cur.kind \in {"march", "nth"}
  BY <1>1, Frame DEF WordDone, Word
<1>3. errors' = errors \cup (IF Cur.check /\ read_word(p) # Expected THEN Error(p, TRUE) ELSE {})
  BY DEF Word
<1>4. test \in {2, 10} => Storing(Cur)
  BY <1>1, StoringNow DEF PatternInv, WordDone
<1>5. ASSUME Cur.check /\ read_word(p) # Expected => Cell(p) \in FaultyCells
      PROVE  ErrorsSound
  <2>1. PICK wrong \in BOOLEAN : wrong <=> Cur.check /\ read_word(p) # Expected
    OBVIOUS
  <2>2. errors' = errors \cup (IF wrong THEN Error(p, TRUE) ELSE {})
    BY <1>3, <2>1
  <2>3. QED
    BY <1>5, <2>1, <2>2, ErrorAt
<1>6. CASE Whole(Cur)
  <2>1. /\ MemInv' /\ WholeInv' /\ ErrorsSound
        /\ \A c \in Cells : c \notin FaultyCells /\ c # Cell(p) => mem'[c] = mem[c]
        /\ Cur.put = "none" => mem' = mem
        /\ Cell(p) \in SegmentCells(window)
    BY <1>5, <1>6, WordWhole
  <2>2. WorkInv'
    BY <1>2, <1>6, <2>1 DEF WorkInv, Whole, Spared
  <2>3. ASSUME test \in {2, 10} PROVE Untouched
    <3>1. Filling \/ Cur.put = "none"
      BY <1>4, <1>6, <2>3 DEF Storing, Whole
    <3>2. QED
      BY <2>1, <3>1 DEF Untouched
  <2>4. QED
    BY <2>1, <2>2, <2>3
<1>7. CASE Spared(Cur)
  <2>1. MemInv' /\ SparedInv' /\ ErrorsSound
    BY <1>5, <1>7, WordSpared
  <2>2. WorkInv'
    BY <1>2, <1>7, <2>1 DEF WorkInv, Whole, Spared
  <2>3. test \notin {2, 10}
    BY <1>4, <1>7 DEF Storing, Whole, Spared
  <2>4. QED
    BY <2>1, <2>2, <2>3
<1>8. CASE Cur.kind = "nth"
  <2>1. MemInv' /\ NthInv' /\ ErrorsSound
    BY <1>5, <1>8, WordNth
  <2>2. WorkInv'
    BY <1>2, <1>8, <2>1 DEF WorkInv, Whole, Spared
  <2>3. test \notin {2, 10}
    BY <1>4, <1>8 DEF Storing, Whole
  <2>4. QED
    BY <2>1, <2>2, <2>3
<1>9. QED
  BY <1>2, <1>6, <1>7, <1>8 DEF Whole, Spared

LEMMA StepSound ==
    ASSUME CallInv, PointerInv, PatternInv, WordStep
    PROVE  WorkInv' /\ MemInv' /\ ErrorsSound /\ (test \in {2, 10} => Untouched)
<1>1. WordDone
  BY WordFrame
<1>2. Cur' = Cur
  BY <1>1, Frame DEF WordDone
<1>3. test \in {2, 10} => Cur.kind \in {"march", "sleep"}
  BY <1>1, StoringNow DEF Storing, Whole, PatternInv, WordDone
<1>4. errors' = errors => ErrorsSound
  BY DEF ErrorsSound
<1>5. CASE Word
  BY <1>5, WordSound
<1>6. CASE PairWord
  <2>1. /\ mem' = mem /\ Paired' /\ Cur.kind = "pairs"
        /\ fault.kind = "none" => read_word(p) = read_word(p + 1)
    BY <1>6, WordPairs DEF PairWord
  <2>2. ErrorsSound
    <3>1. errors' = errors \cup (IF read_word(p) # read_word(p + 1) THEN Error(p, FALSE) ELSE {})
      BY <1>6 DEF PairWord
    <3>2. Error(p, FALSE) = {[cell |-> Cell(p), use |-> FALSE]}
      BY DEF Error
    <3>3. [cell |-> Cell(p), use |-> FALSE].use = FALSE
      OBVIOUS
    <3>4. \A e \in errors' : e \in errors \/ e.use = FALSE
      BY <3>1, <3>2, <3>3
    <3>5. QED
      BY <2>1, <3>1, <3>4 DEF ErrorsSound
  <2>3. WorkInv' /\ MemInv'
    BY <1>2, <2>1 DEF WorkInv, Whole, Spared, PatternInv, MemInv
  <2>4. QED
    BY <1>3, <2>1, <2>2, <2>3
<1>7. CASE BlockWords
  <2>1. MemInv' /\ BlocksInv' /\ Cur.kind = "blocks" /\ errors' = errors
    BY <1>7, WordBlocks DEF BlockWords
  <2>2. QED
    BY <1>2, <1>3, <1>4, <2>1 DEF WorkInv, Whole, Spared
<1>8. CASE MoveUp \/ MoveDown
  <2>1. MemInv' /\ MoveInv' /\ Cur.kind = "move" /\ errors' = errors
    BY <1>8, WordMoves DEF MoveUp, MoveDown
  <2>2. QED
    BY <1>2, <1>3, <1>4, <2>1 DEF WorkInv, Whole, Spared
<1>9. CASE Sleep
  <2>1. /\ MemInv' /\ Cur.kind = "sleep" /\ errors' = errors
        /\ \A c \in Cells : c \notin FaultyCells => mem'[c] = mem[c]
    BY <1>9, WordSleeps DEF PatternInv, Sleep
  <2>2. QED
    BY <1>2, <1>4, <2>1 DEF WorkInv, Whole, Spared, Untouched
<1>10. CASE WalkFirst
  <2>1. MemInv' /\ WalkInv' /\ Cur.kind = "walk" /\ errors' = errors
    BY <1>10, WalkBegins DEF WalkFirst
  <2>2. QED
    BY <1>2, <1>3, <1>4, <2>1 DEF WorkInv, Whole, Spared
<1>11. CASE WalkSecond
  <2>1. MemInv' /\ WalkInv' /\ Cur.kind = "walk" /\ (fault.kind = "none" => errors' = errors)
    BY <1>11, WalkGoesOn DEF WalkSecond
  <2>2. ErrorsSound
    <3>1. \A e \in errors' : e \in errors \/ e \in Error(Masked(p), FALSE)
      BY <1>11 DEF WalkSecond
    <3>2. \A e \in Error(Masked(p), FALSE) : e.use = FALSE
      BY DEF Error
    <3>3. QED
      BY <2>1, <3>1, <3>2 DEF ErrorsSound
  <2>3. QED
    BY <1>2, <1>3, <2>1, <2>2 DEF WorkInv, Whole, Spared
<1>12. QED
  BY <1>5, <1>6, <1>7, <1>8, <1>9, <1>10, <1>11 DEF WordStep

LEMMA StutterWorks ==
    ASSUME WorkInv,
           UNCHANGED <<fault, mem, pc, my_cpu, window, phases, phase, p, pe, q, pattern>>
    PROVE  WorkInv'
<1> SUFFICES ASSUME my_cpu = 0, pc \in {"words", "tick"}
             PROVE  WorkInv'
  BY DEF WorkInv
<1>1. /\ Cur' = Cur /\ Start' = Start /\ LastWord' = LastWord /\ SeedNow' = SeedNow
      /\ Masked(p)' = Masked(p)
      /\ \A off : Strides(off)' = Strides(off)
      /\ \A v, x : Holds(v, x)' <=> Holds(v, x)
      /\ \A v : Twins(v)' <=> Twins(v)
      /\ Paired' <=> Paired
      /\ \A v : Behind(v)' <=> Behind(v)
      /\ \A v : Cell(v)' = Cell(v)
  <2>1. /\ Cur' = Cur /\ Start' = Start /\ LastWord' = LastWord /\ Masked(p)' = Masked(p)
        /\ \A v : Behind(v)' <=> Behind(v)
    BY Frame, FrameMasked DEF Behind
  <2>2. QED
    BY <2>1, FrameSeed, FrameHolds, FramePaired, FrameCells
<1>2. ASSUME WholeInv PROVE WholeInv'
  <2>1. pattern' = Carried(Cur, SeedNow, pattern', p - Start)
    BY <1>2 DEF WholeInv
  <2>2. ASSUME NEW v \in Start .. LastWord
        PROVE  /\ Behind(v)' => Holds(v, Leaves(Cur, SeedNow, window, v))'
               /\ ~Behind(v)' /\ Cur.check => Holds(v, Want(Cur, SeedNow, window, v))'
    <3>1. PICK x, y : x = Leaves(Cur, SeedNow, window, v) /\ y = Want(Cur, SeedNow, window, v)
      OBVIOUS
    <3>2. (Behind(v) => Holds(v, x)) /\ (~Behind(v) /\ Cur.check => Holds(v, y))
      BY <1>2, <3>1 DEF WholeInv
    <3>3. QED
      BY <1>1, <3>1, <3>2
  <2>3. QED
    BY <1>1, <2>1, <2>2 DEF WholeInv
<1>3. ASSUME SparedInv PROVE SparedInv'
  <2>1. PICK x : x = Not(Cur.seed)
    OBVIOUS
  <2>2. \A v \in Strides(Cur.skip) : Holds(v, x)'
    BY <1>1, <1>3, <2>1 DEF SparedInv
  <2>3. QED
    BY <1>1, <1>3, <2>1, <2>2 DEF SparedInv
<1>4. ASSUME NthInv PROVE NthInv'
  <2>1. PICK x : x = Cur.seed
    OBVIOUS
  <2>2. \A v \in Strides(Cur.off) :
          Cur.check \/ v < p \/ (pc = "tick" /\ v = p) => Holds(v, x)'
    BY <1>1, <1>4, <2>1 DEF NthInv
  <2>3. QED
    BY <1>1, <1>4, <2>1, <2>2 DEF NthInv
<1>5. BlocksInv => BlocksInv'
  BY <1>1 DEF BlocksInv
<1>6. WalkInv => WalkInv'
  BY <1>1 DEF WalkInv
<1>7. QED
  BY <1>1, <1>2, <1>3, <1>4, <1>5, <1>6 DEF WorkInv, MoveInv

LEMMA NextPatternInv == CallInv /\ PointerInv /\ PatternInv /\ [Next]_vars => PatternInv'
<1> SUFFICES ASSUME CallInv, PointerInv, PatternInv, [Next]_vars PROVE PatternInv'
  OBVIOUS
<1>1. CASE EndCall
  BY <1>1, CallEnds
<1>2. CASE WordStep
  <2>1. WordDone /\ WorkInv' /\ MemInv' /\ (test \in {2, 10} => Untouched)
    BY <1>2, WordFrame, StepSound
  <2>2. PhasesInv'
    BY <2>1 DEF PatternInv, PhasesInv, WordDone
  <2>3. RestInv'
    <3>1. pc' # "call"
      BY <1>2, <2>1 DEF WordStep, WordDone, Word, PairWord, BlockWords, ToNextWord, MoveUp,
                        MoveDown, Sleep, WalkFirst, WalkSecond
    <3>2. QED
      BY <3>1 DEF RestInv
  <2>4. StoreInv'
    BY <2>1, StoreStays DEF PatternInv, WordDone
  <2>5. QED
    BY <2>1, <2>2, <2>3, <2>4 DEF PatternInv
<1>3. CASE BeginPhase
  <2>1. /\ UNCHANGED <<fault, mem, test, my_cpu, stage, window, phases, phase>>
        /\ pc = "call" /\ pc' # "call"
    BY <1>3 DEF BeginPhase, Enter, callVars
  <2>2. PhasesInv' /\ MemInv' /\ RestInv'
    BY <2>1 DEF PatternInv, PhasesInv, MemInv, RestInv
  <2>3. StoreInv'
    BY <2>1, StoreStays DEF PatternInv, Untouched
  <2>4. QED
    BY <1>3, <2>2, <2>3, PhaseStarts DEF PatternInv
<1>4. CASE SkipSleep
  <2>1. /\ UNCHANGED <<fault, mem, test, my_cpu, stage, window, phases>>
        /\ pc = "call" /\ pc' = "call" /\ phase <= Len(phases) /\ phase' = phase + 1
    BY <1>4 DEF SkipSleep, callVars
  <2>2. MemInv' /\ WorkInv'
    BY <2>1 DEF PatternInv, MemInv, WorkInv
  <2>3. PhasesInv'
    BY <2>1, ListOf DEF CallInv, PatternInv, PhasesInv
  <2>4. StoreInv'
    BY <2>1, StoreStays DEF PatternInv, Untouched
  <2>5. QED
    BY <1>4, <2>2, <2>3, <2>4, SleepRests DEF PatternInv
<1>5. CASE EndBlock
  <2>1. /\ UNCHANGED <<fault, mem, test, my_cpu, stage, window, phases>>
        /\ pc = "tick" /\ phase' \in {phase, phase + 1}
    BY <1>5 DEF EndBlock, Enter, callVars
  <2>2. MemInv'
    BY <2>1 DEF PatternInv, MemInv
  <2>3. PhasesInv'
    BY <2>1, ListOf DEF CallInv, PatternInv, PhasesInv
  <2>4. StoreInv'
    BY <2>1, StoreStays DEF PatternInv, Untouched
  <2>5. QED
    BY <1>5, <2>2, <2>3, <2>4, BlockFollows, PhaseRests DEF PatternInv
<1>6. CASE UNCHANGED vars
  <2>1. /\ UNCHANGED <<fault, mem, pc, test, my_cpu, stage, window, phases, phase>>
        /\ UNCHANGED <<p, pe, q, pattern>>
    BY <1>6 DEF vars, callVars, blockVars
  <2>2. PhasesInv' /\ MemInv'
    BY <2>1 DEF PatternInv, PhasesInv, MemInv
  <2>3. WorkInv'
    BY <2>1, StutterWorks DEF PatternInv
  <2>4. RestInv'
    <3>1. SUFFICES ASSUME my_cpu = 0, pc = "call", phase > 1
                   PROVE  LeftBy(phases[phase - 1], SeedOf(phases, phase - 1))'
      BY <2>1 DEF RestInv
    <3>2. PICK ph, s : ph = phases[phase - 1] /\ s = SeedOf(phases, phase - 1)
      OBVIOUS
    <3>3. LeftBy(ph, s)
      BY <3>1, <3>2 DEF PatternInv, RestInv
    <3>4. LeftBy(ph, s)'
      BY <2>1, <3>3, FrameLeft
    <3>5. QED
      BY <2>1, <3>2, <3>4
  <2>5. StoreInv'
    <3>1. CASE pc \in {"call", "words", "tick"}
      BY <2>1, <3>1, StoreStays DEF PatternInv, Untouched
    <3>2. CASE pc \notin {"call", "words", "tick"}
      BY <2>1, <3>2 DEF StoreInv
    <3>3. QED
      BY <3>1, <3>2
  <2>6. QED
    BY <2>2, <2>3, <2>4, <2>5 DEF PatternInv
<1>7. QED
  BY <1>1, <1>2, <1>3, <1>4, <1>5, <1>6 DEF Next, Run, Over, WordStep

LEMMA NextErrorsInv == CallInv /\ PointerInv /\ PatternInv /\ ErrorsInv /\ [Next]_vars => ErrorsInv'
<1> SUFFICES ASSUME CallInv, PointerInv, PatternInv, ErrorsInv, [Next]_vars PROVE ErrorsInv'
  OBVIOUS
<1>1. UNCHANGED fault /\ ErrorsSound
  <2>1. CASE WordStep
    BY <2>1, WordFrame, StepSound DEF WordDone
  <2>2. CASE ~WordStep
    <3>1. UNCHANGED <<fault, errors>>
      BY <2>2 DEF Next, Run, Over, WordStep, BeginPhase, SkipSleep, EndBlock, EndCall, vars
    <3>2. QED
      BY <3>1 DEF ErrorsSound
  <2>3. QED
    BY <2>1, <2>2
<1>2. FaultyCells' = FaultyCells
  BY <1>1 DEF FaultyCells
<1>3. NoFalseAlarm'
  BY <1>1 DEF NoFalseAlarm, ErrorsInv, ErrorsSound
<1>4. BlamesTheFault'
  BY <1>1, <1>2 DEF BlamesTheFault, ErrorsInv, ErrorsSound
<1>5. QED
  BY <1>3, <1>4 DEF ErrorsInv

LEMMA InitPatternInv == Init => PatternInv /\ ErrorsInv
<1> SUFFICES ASSUME Init PROVE PatternInv /\ ErrorsInv
  OBVIOUS
<1>1. PhasesInv
  <2>1. PICK call \in Calls : call.test = test /\ call.stage = 0 /\ phases = call.phases
    BY DEF Init
  <2>2. \E t \in Tests : \E st \in 0 .. Stages(t) - 1 : \E r \in Readings(t) :
          call = [test |-> t, stage |-> st, phases |-> Phases(t, st, r)]
    BY DEF Calls
  <2>3. \E r \in Readings(test) : phases = Phases(test, stage, r)
    BY <2>1, <2>2 DEF Init
  <2>4. Listed(phases)
    BY <2>1, CallsListed
  <2>5. Len(phases) \in Nat
    BY <2>4, ListOf
  <2>6. QED
    BY <2>3, <2>5 DEF PhasesInv, Init
<1>2. MemInv
  BY DEF Init, MemInv
<1>3. WorkInv /\ RestInv /\ StoreInv
  BY DEF Init, WorkInv, RestInv, StoreInv
<1>4. ErrorsInv
  BY DEF Init, ErrorsInv, NoFalseAlarm, BlamesTheFault
<1>5. QED
  BY <1>1, <1>2, <1>3, <1>4 DEF PatternInv

LEMMA AlwaysPattern == Spec => []ErrorsInv
  BY AlwaysInv, InitPatternInv, NextPatternInv, NextErrorsInv, PTL DEF Spec

(***************************************************************************)
(* Good memory passes every test, with whatever seeds, sizes, windows and  *)
(* iterations: no word is ever compared with anything but what was written *)
(* to it last, by the phase before or an earlier call.                     *)
(***************************************************************************)
THEOREM GoodMemoryPasses == Spec => []NoFalseAlarm
  BY AlwaysPattern, PTL DEF ErrorsInv

(***************************************************************************)
(* In memory that has a fault, every error that counts for BadRAM patterns *)
(* is at a cell that the fault involves: what the fault spoils is never    *)
(* taken for an error of a sound cell.                                     *)
(***************************************************************************)
THEOREM OnlyFaultsBlamed == Spec => []BlamesTheFault
  BY AlwaysPattern, PTL DEF ErrorsInv

-----------------------------------------------------------------------------
(***************************************************************************)
(* A list of phases has another as a part of it.                           *)
(***************************************************************************)
Within(s, list) ==
    \E k \in Nat : k + Len(s) <= Len(list) /\ \A i \in 1 .. Len(s) : list[k + i] = s[i]

LEMMA JoinedAt ==
    ASSUME NEW s, Listed(s), NEW u, Listed(u)
    PROVE  /\ Listed(s \o u) /\ Len(s) \in Nat /\ Len(u) \in Nat /\ Len(s \o u) = Len(s) + Len(u)
           /\ \A i \in 1 .. Len(s) : (s \o u)[i] = s[i]
           /\ \A i \in 1 .. Len(u) : (s \o u)[Len(s) + i] = u[i]
<1>1. PICK S : s \in Seq(S)
  BY DEF Listed
<1>2. PICK U : u \in Seq(U)
  BY DEF Listed
<1>3. s \in Seq(S \cup U) /\ u \in Seq(S \cup U)
  <2>1. S \subseteq S \cup U /\ U \subseteq S \cup U
    OBVIOUS
  <2>2. QED
    BY <1>1, <1>2, <2>1, SeqMonotonic
<1>4. QED
  BY <1>3, Joined

LEMMA WithinItself ==
    ASSUME NEW s, Listed(s)
    PROVE  Within(s, s)
<1>1. Len(s) \in Nat
  BY ListOf
<1>2. 0 + Len(s) <= Len(s) /\ \A i \in 1 .. Len(s) : s[0 + i] = s[i]
  BY <1>1
<1>3. QED
  BY <1>2 DEF Within

LEMMA WithinJoined ==
    ASSUME NEW x, Listed(x), NEW s, Listed(s), NEW u, Listed(u)
    PROVE  /\ Within(x, s) => Within(x, s \o u)
           /\ Within(x, u) => Within(x, s \o u)
<1> DEFINE m == Len(s)
           n == Len(u)
           l == Len(x)
           c == s \o u
<1>1. /\ m \in Nat /\ n \in Nat /\ l \in Nat /\ Len(c) = m + n
      /\ \A i \in 1 .. m : c[i] = s[i]
      /\ \A i \in 1 .. n : c[m + i] = u[i]
  BY JoinedAt, ListOf
<1> HIDE DEF m, n, l, c
<1>2. ASSUME Within(x, s) PROVE Within(x, c)
  <2>1. PICK k \in Nat : k + l <= m /\ \A i \in 1 .. l : s[k + i] = x[i]
    BY <1>2 DEF Within, m, l
  <2>2. \A i \in 1 .. l : c[k + i] = x[i]
    BY <1>1, <2>1
  <2>3. k + l <= Len(c)
    BY <1>1, <2>1
  <2>4. QED
    BY <2>1, <2>2, <2>3 DEF Within, l
<1>3. ASSUME Within(x, u) PROVE Within(x, c)
  <2>1. PICK k \in Nat : k + l <= n /\ \A i \in 1 .. l : u[k + i] = x[i]
    BY <1>3 DEF Within, n, l
  <2>2. ASSUME NEW i \in 1 .. l PROVE c[m + k + i] = x[i]
    <3>1. k + i \in 1 .. n /\ m + k + i = m + (k + i)
      BY <1>1, <2>1
    <3>2. QED
      BY <1>1, <2>1, <3>1
  <2>3. m + k \in Nat /\ (m + k) + l <= Len(c)
    BY <1>1, <2>1
  <2>4. QED
    BY <2>2, <2>3 DEF Within, l
<1>4. QED
  BY <1>2, <1>3 DEF c

LEMMA WithinPart ==
    ASSUME NEW x, NEW s, NEW list, Listed(x), Listed(s), Listed(list), Within(x, s), Within(s, list)
    PROVE  Within(x, list)
<1>1. Len(x) \in Nat /\ Len(s) \in Nat /\ Len(list) \in Nat
  BY ListOf
<1>2. PICK j \in Nat : j + Len(x) <= Len(s) /\ \A i \in 1 .. Len(x) : s[j + i] = x[i]
  BY DEF Within
<1>3. PICK k \in Nat : k + Len(s) <= Len(list) /\ \A i \in 1 .. Len(s) : list[k + i] = s[i]
  BY DEF Within
<1>4. ASSUME NEW i \in 1 .. Len(x) PROVE list[(k + j) + i] = x[i]
  <2>1. j + i \in 1 .. Len(s) /\ (k + j) + i = k + (j + i)
    BY <1>1, <1>2
  <2>2. QED
    BY <1>2, <1>3, <2>1
<1>5. k + j \in Nat /\ (k + j) + Len(x) <= Len(list)
  BY <1>1, <1>2, <1>3
<1>6. QED
  BY <1>4, <1>5 DEF Within

LEMMA WithinFlatten ==
    ASSUME NEW n \in Nat \ {0}, NEW seqs, seqs = [i \in 1 .. n |-> seqs[i]],
           \A i \in 1 .. n : Listed(seqs[i]),
           NEW k \in 1 .. n
    PROVE  Within(seqs[k], FlattenSeq(seqs))
<1>1. PICK f : Unrolled(seqs, n, f) /\ FlattenSeq(seqs) = f[n]
  BY FlattenUnrolled
<1>2. /\ \A i \in 1 .. n : f[i] = IF i = 1 THEN seqs[i] ELSE f[i - 1] \o seqs[i]
      /\ \A i \in 1 .. n : Listed(f[i])
  BY <1>1, UnrolledAt, UnrolledListed
<1> DEFINE bad == {i \in k .. n : ~Within(seqs[k], f[i])}
<1>3. SUFFICES ASSUME bad # {} PROVE FALSE
  BY <1>1
<1>4. PICK m \in bad : \A i \in bad : m <= i
  <2> bad \subseteq Nat
    OBVIOUS
  <2> HIDE DEF bad
  <2> QED
    BY <1>3, LeastNat
<1>5. m \in k .. n /\ m \in 1 .. n /\ ~Within(seqs[k], f[m])
  OBVIOUS
<1>6. CASE m = k
  <2>1. Within(seqs[k], seqs[k])
    BY WithinItself
  <2>2. m # 1 => Listed(f[m - 1])
    BY <1>2, <1>5
  <2>3. QED
    BY <1>2, <1>5, <1>6, <2>1, <2>2, WithinJoined
<1>7. CASE m # k
  <2>1. m - 1 \in k .. n /\ m - 1 \in 1 .. n /\ m - 1 \notin bad /\ m # 1
    BY <1>4, <1>5, <1>7
  <2>2. Within(seqs[k], f[m - 1]) /\ f[m] = f[m - 1] \o seqs[m]
    BY <1>2, <1>5, <2>1
  <2>3. QED
    BY <1>2, <1>5, <2>1, <2>2, WithinJoined
<1>8. QED
  BY <1>6, <1>7

\* What is in one of the lists is in the long one.
LEMMA WithinAll ==
    ASSUME NEW n \in Nat \ {0}, NEW seqs, seqs = [i \in 1 .. n |-> seqs[i]],
           \A i \in 1 .. n : Listed(seqs[i]),
           NEW k \in 1 .. n, NEW x, Listed(x), Within(x, seqs[k])
    PROVE  Within(x, FlattenSeq(seqs))
  BY WithinFlatten, WithinPart, FlattenListed

LEMMA WithinTimes ==
    ASSUME NEW n \in Nat \ {0}, NEW list, Listed(list)
    PROVE  Within(list, Times(n, list))
<1> DEFINE s == [i \in 1 .. n |-> list]
<1>1. s = [i \in 1 .. n |-> s[i]] /\ \A i \in 1 .. n : s[i] = list
  OBVIOUS
<1> HIDE DEF s
<1>2. 1 \in 1 .. n
  OBVIOUS
<1>3. Within(s[1], FlattenSeq(s))
  BY <1>1, <1>2, WithinFlatten
<1>4. QED
  BY <1>1, <1>2, <1>3 DEF Times, s

-----------------------------------------------------------------------------
(***************************************************************************)
(* What the lists of the tests have in them.  A moving inversion checks    *)
(* every word twice, for a value and for its complement, and once on the   *)
(* way up and once on the way down; so do the phases of the modulo test    *)
(* for the words of each stride.                                           *)
(***************************************************************************)
Inverts(ph) == Whole(ph) /\ ph.check /\ ph.put = "inverse"

Opposed(list) == \E x, y : Within(<<x, y>>, list) /\ Inverts(x) /\ Inverts(y)

Lone(w) == \E i \in Bits : w = {i}

BothWays(list) ==
    \E x, y : /\ Within(<<x, y>>, list)
              /\ Inverts(x) /\ x.up /\ ~x.invert /\ ~x.flip
              /\ Inverts(y) /\ ~y.up /\ ~y.invert
              /\ \/ x.turn = "none" /\ y.turn = "none"
                 \/ x.turn = "left" /\ y.turn = "right" /\ Lone(x.seed)

StrideChecked(list, off, seed) ==
    \E x, y : /\ Within(<<x, y>>, list)
              /\ Spared(x) /\ x.skip = off /\ x.seed = Not(seed)
              /\ y.kind = "nth" /\ y.check /\ y.off = off /\ y.seed = seed

\* A fill, and a check on the same way up that writes what it finds inverted,
\* or wants another value at each word.
Fills(ph) == Whole(ph) /\ ph.up /\ ~ph.check

Rereads(ph) ==
    /\ Whole(ph) /\ ph.up /\ ph.check
    /\ ph.put = "inverse" \/ (ph.turn = "own" /\ ph.put = "none" /\ ~ph.invert)

Refilled(list) == \E x, y : Within(<<x, y>>, list) /\ Fills(x) /\ Rereads(y)

LEMMA PairListed ==
    ASSUME NEW x, NEW y, NEW list, Listed(list), Within(<<x, y>>, list)
    PROVE  /\ Listed(<<x, y>>)
           /\ \E k \in Nat : /\ k + 1 \in 1 .. Len(list) /\ k + 2 \in 1 .. Len(list)
                             /\ list[k + 1] = x /\ list[k + 2] = y
<1>1. Len(list) \in Nat /\ \A i \in 1 .. Len(list) : GoodPhase(list[i])
  BY ListOf
<1>2. Len(<<x, y>>) = 2 /\ <<x, y>>[1] = x /\ <<x, y>>[2] = y
  OBVIOUS
<1>3. PICK k \in Nat : k + 2 <= Len(list) /\ \A i \in 1 .. 2 : list[k + i] = <<x, y>>[i]
  BY <1>2 DEF Within
<1>4. k + 1 \in 1 .. Len(list) /\ k + 2 \in 1 .. Len(list) /\ list[k + 1] = x /\ list[k + 2] = y
  BY <1>1, <1>2, <1>3
<1>5. GoodPhase(x) /\ GoodPhase(y)
  BY <1>1, <1>4
<1>6. QED
  BY <1>4, <1>5, TwoListed

\* The first two of a list.
LEMMA TwoFirst ==
    ASSUME NEW list, NEW x, NEW y, Len(list) \in Nat, Len(list) >= 2, list[1] = x, list[2] = y
    PROVE  Within(<<x, y>>, list)
<1>1. Len(<<x, y>>) = 2 /\ <<x, y>>[1] = x /\ <<x, y>>[2] = y
  OBVIOUS
<1>2. \A i \in 1 .. 2 : list[0 + i] = <<x, y>>[i]
  <2>1. \A i \in 1 .. 2 : i = 1 \/ i = 2
    OBVIOUS
  <2>2. QED
    BY <1>1, <2>1
<1>3. 0 + Len(<<x, y>>) <= Len(list)
  BY <1>1
<1>4. QED
  BY <1>1, <1>2, <1>3 DEF Within

\* A list of lists begins like the first of them.
LEMMA FlattenStarts ==
    ASSUME NEW n \in Nat \ {0}, NEW seqs, seqs = [i \in 1 .. n |-> seqs[i]],
           \A i \in 1 .. n : Listed(seqs[i]), Len(seqs[1]) >= 1
    PROVE  Len(FlattenSeq(seqs)) >= 1 /\ FlattenSeq(seqs)[1] = seqs[1][1]
<1>1. PICK f : Unrolled(seqs, n, f) /\ FlattenSeq(seqs) = f[n]
  BY FlattenUnrolled
<1>2. /\ \A i \in 1 .. n : f[i] = IF i = 1 THEN seqs[i] ELSE f[i - 1] \o seqs[i]
      /\ \A i \in 1 .. n : Listed(f[i])
  BY <1>1, UnrolledAt, UnrolledListed
<1> DEFINE bad == {i \in 1 .. n : ~(Len(f[i]) >= 1 /\ f[i][1] = seqs[1][1])}
<1>3. SUFFICES ASSUME bad # {} PROVE FALSE
  BY <1>1
<1>4. PICK m \in bad : \A i \in bad : m <= i
  <2> bad \subseteq Nat
    OBVIOUS
  <2> HIDE DEF bad
  <2> QED
    BY <1>3, LeastNat
<1>5. m \in 1 .. n /\ ~(Len(f[m]) >= 1 /\ f[m][1] = seqs[1][1])
  OBVIOUS
<1>6. m # 1
  BY <1>2, <1>5
<1>7. m - 1 \in 1 .. n /\ m - 1 \notin bad
  <2>1. m - 1 \in 1 .. n /\ ~(m <= m - 1)
    BY <1>5, <1>6
  <2> HIDE DEF bad
  <2>2. QED
    BY <1>4, <2>1
<1>8. Len(f[m - 1]) >= 1 /\ f[m - 1][1] = seqs[1][1] /\ f[m] = f[m - 1] \o seqs[m]
  <2>1. Len(f[m - 1]) >= 1 /\ f[m - 1][1] = seqs[1][1]
    BY <1>7
  <2>2. f[m] = f[m - 1] \o seqs[m]
    BY <1>2, <1>5, <1>6
  <2>3. QED
    BY <2>1, <2>2
<1> DEFINE s == f[m - 1]
           u == seqs[m]
<1>9. Listed(s) /\ Listed(u)
  BY <1>2, <1>5, <1>7
<1> HIDE DEF s, u
<1>10. /\ Len(s) \in Nat /\ Len(u) \in Nat /\ Len(s \o u) = Len(s) + Len(u)
       /\ \A i \in 1 .. Len(s) : (s \o u)[i] = s[i]
  BY <1>9, JoinedAt
<1>11. Len(s) >= 1 /\ s[1] = seqs[1][1] /\ f[m] = s \o u
  BY <1>8 DEF s, u
<1>12. Len(f[m]) >= 1 /\ f[m][1] = seqs[1][1]
  BY <1>10, <1>11
<1>13. QED
  BY <1>5, <1>12

LEMMA FillWhole ==
    ASSUME NEW s, NEW turn
    PROVE  Fills(Fill(s, turn))
  BY MemTestsAssumption DEF Fill, March, Fills, Whole

LEMMA RefillBy ==
    ASSUME NEW n \in Nat \ {0}, NEW x, GoodPhase(x), Fills(x),
           NEW y, GoodPhase(y), Rereads(y), NEW z, GoodPhase(z)
    PROVE  Refilled(<<x>> \o Times(n, <<y, z>>))
<1> DEFINE s == [i \in 1 .. n |-> <<y, z>>]
           u == Times(n, <<y, z>>)
           list == <<x>> \o u
<1>1. Listed(<<x>>) /\ Listed(<<y, z>>)
  BY OneListed, TwoListed
<1>2. s = [i \in 1 .. n |-> s[i]] /\ (\A i \in 1 .. n : s[i] = <<y, z>>) /\ u = FlattenSeq(s)
      /\ 1 \in 1 .. n
  BY DEF Times
<1>3. Listed(u)
  BY <1>1, TimesListed
<1> HIDE DEF s, u
<1>4. Len(<<y, z>>) = 2 /\ <<y, z>>[1] = y
  OBVIOUS
<1>5. Len(s[1]) >= 1 /\ s[1][1] = y /\ \A i \in 1 .. n : Listed(s[i])
  BY <1>1, <1>2, <1>4
<1>6. Len(u) >= 1 /\ u[1] = y
  BY <1>2, <1>5, FlattenStarts
<1>7. PICK d : d = <<x>>
  OBVIOUS
<1>8. Len(d) = 1 /\ d[1] = x /\ Listed(d) /\ list = d \o u
  BY <1>1, <1>7
<1>9. /\ Len(list) = Len(d) + Len(u) /\ Len(u) \in Nat
      /\ \A i \in 1 .. Len(d) : list[i] = d[i]
      /\ \A i \in 1 .. Len(u) : list[Len(d) + i] = u[i]
  <2>1. /\ Len(d \o u) = Len(d) + Len(u) /\ Len(u) \in Nat
        /\ \A i \in 1 .. Len(d) : (d \o u)[i] = d[i]
        /\ \A i \in 1 .. Len(u) : (d \o u)[Len(d) + i] = u[i]
    <3>1. Listed(d)
      BY <1>8
    <3> HIDE DEF list
    <3>2. QED
      BY <1>3, <3>1, JoinedAt
  <2>2. QED
    BY <1>7, <2>1
<1> HIDE DEF list
<1>10. Len(list) >= 2 /\ list[1] = x /\ list[2] = y
  <2>1. 1 \in 1 .. Len(d) /\ 1 \in 1 .. Len(u) /\ Len(d) + 1 = 2
    BY <1>6, <1>8, <1>9
  <2>2. list[1] = x /\ list[Len(d) + 1] = y
    BY <1>6, <1>8, <1>9, <2>1
  <2>3. QED
    BY <1>6, <1>8, <1>9, <2>1, <2>2
<1>11. Len(list) \in Nat
  BY <1>8, <1>9
<1>12. Within(<<x, y>>, list)
  BY <1>10, <1>11, TwoFirst
<1>13. QED
  BY <1>12 DEF Refilled, list, u

LEMMA FixedPair ==
    ASSUME NEW n \in Nat \ {0}, NEW pattern1 \in Words
    PROVE  /\ BothWays(test_mov_inv_fixed(n, pattern1)) /\ Refilled(test_mov_inv_fixed(n, pattern1))
           /\ Listed(test_mov_inv_fixed(n, pattern1))
<1> DEFINE fill == Fill(pattern1, "none")
           up   == [March EXCEPT !.seed = pattern1]
           down == [March EXCEPT !.seed = Not(pattern1), !.up = FALSE]
<1>1. MODULO_N \in Nat \ {0, 1}
  BY MemTestsAssumption
<1>2. GoodPhase(up) /\ Inverts(up) /\ up.up /\ ~up.flip /\ up.turn = "none" /\ ~up.invert /\ Rereads(up)
  BY <1>1 DEF March, GoodPhase, Single, Whole, Inverts, Rereads
<1>3. GoodPhase(down) /\ Inverts(down) /\ ~down.up /\ ~down.flip /\ down.turn = "none" /\ ~down.invert
  BY <1>1 DEF March, GoodPhase, Single, Whole, Inverts
<1>4. Listed(<<fill>>) /\ GoodPhase(fill) /\ Fills(fill)
  BY FillGood, OneListed, FillWhole
<1>5. test_mov_inv_fixed(n, pattern1) = <<fill>> \o Times(n, <<up, down>>)
  BY Zenon DEF test_mov_inv_fixed
<1> HIDE DEF fill, up, down
<1>6. Listed(<<up, down>>) /\ Listed(Times(n, <<up, down>>))
  BY <1>2, <1>3, TwoListed, TimesListed
<1>7. Within(<<up, down>>, <<fill>> \o Times(n, <<up, down>>))
  BY <1>4, <1>6, WithinTimes, WithinJoined
<1>8. BothWays(test_mov_inv_fixed(n, pattern1))
  BY <1>2, <1>3, <1>5, <1>7 DEF BothWays
<1>9. Refilled(<<fill>> \o Times(n, <<up, down>>))
  BY <1>2, <1>3, <1>4, RefillBy
<1>10. QED
  BY <1>4, <1>5, <1>6, <1>8, <1>9, Joined

LEMMA WalkPair ==
    ASSUME NEW n \in Nat \ {0}, NEW offset \in Bits
    PROVE  /\ BothWays(test_mov_inv_walk1(n, offset, FALSE))
           /\ Refilled(test_mov_inv_walk1(n, offset, FALSE))
           /\ Listed(test_mov_inv_walk1(n, offset, FALSE))
<1> DEFINE first == {offset}
           fill == Fill(first, "left")
           up   == [March EXCEPT !.seed = first, !.turn = "left"]
           down == [March EXCEPT !.flip = TRUE, !.turn = "right", !.up = FALSE]
<1>1. Lone(first) /\ MODULO_N \in Nat \ {0, 1}
  BY MemTestsAssumption DEF Lone
<1>2. test_mov_inv_walk1(n, offset, FALSE) = <<fill>> \o Times(n, <<up, down>>)
  BY Zenon DEF test_mov_inv_walk1
<1> HIDE DEF first
<1>3. /\ GoodPhase(up) /\ Inverts(up) /\ up.up /\ ~up.flip /\ up.turn = "left" /\ ~up.invert
      /\ up.seed = first /\ Rereads(up)
  BY <1>1 DEF March, GoodPhase, Single, Whole, Inverts, Rereads
<1>4. GoodPhase(down) /\ Inverts(down) /\ ~down.up /\ down.turn = "right" /\ ~down.invert
  BY <1>1 DEF March, GoodPhase, Single, Whole, Inverts
<1>5. Listed(<<fill>>) /\ GoodPhase(fill) /\ Fills(fill)
  BY FillGood, OneListed, FillWhole
<1> HIDE DEF fill, up, down
<1>6. Listed(<<up, down>>) /\ Listed(Times(n, <<up, down>>))
  BY <1>3, <1>4, TwoListed, TimesListed
<1>7. Within(<<up, down>>, <<fill>> \o Times(n, <<up, down>>))
  BY <1>5, <1>6, WithinTimes, WithinJoined
<1>8. BothWays(test_mov_inv_walk1(n, offset, FALSE))
  BY <1>1, <1>2, <1>3, <1>4, <1>7 DEF BothWays
<1>9. Refilled(<<fill>> \o Times(n, <<up, down>>))
  BY <1>3, <1>4, <1>5, RefillBy
<1>10. QED
  BY <1>2, <1>5, <1>6, <1>8, <1>9, Joined

LEMMA RandomPair ==
    ASSUME NEW seed
    PROVE  /\ Opposed(test_mov_inv_random(seed)) /\ Refilled(test_mov_inv_random(seed))
           /\ Listed(test_mov_inv_random(seed))
<1> DEFINE fill == Fill(seed, "prsg")
           a == [March EXCEPT !.seed = seed, !.turn = "prsg"]
           b == [March EXCEPT !.seed = seed, !.turn = "prsg", !.invert = TRUE]
           list == <<fill, a, b>>
<1>1. MODULO_N \in Nat \ {0, 1}
  BY MemTestsAssumption
<1>2. Inverts(a) /\ Inverts(b) /\ Rereads(a) /\ Fills(fill) /\ test_mov_inv_random(seed) = list
  BY <1>1, FillWhole DEF March, Whole, Inverts, Rereads, test_mov_inv_random
<1> HIDE DEF fill, a, b
<1>3. Within(<<a, b>>, list)
  <2>1. /\ Len(list) = 3 /\ list[1 + 1] = a /\ list[1 + 2] = b
        /\ Len(<<a, b>>) = 2 /\ <<a, b>>[1] = a /\ <<a, b>>[2] = b
    OBVIOUS
  <2>2. \A i \in 1 .. 2 : list[1 + i] = <<a, b>>[i]
    <3>1. \A i \in 1 .. 2 : i = 1 \/ i = 2
      OBVIOUS
    <3>2. QED
      BY <2>1, <3>1
  <2>3. QED
    BY <2>1, <2>2 DEF Within
<1>4. Within(<<fill, a>>, list)
  <2>1. Len(list) = 3 /\ list[1] = fill /\ list[2] = a
    OBVIOUS
  <2> HIDE DEF list
  <2>2. QED
    BY <2>1, TwoFirst
<1>5. QED
  BY <1>2, <1>3, <1>4, RandomListed DEF Opposed, Refilled

LEMMA ModuloPair ==
    ASSUME NEW n \in Nat \ {0}, NEW pattern1 \in Words, NEW offset \in 0 .. MODULO_N - 1
    PROVE  /\ StrideChecked(test_modulo_n(n, pattern1, offset), offset, pattern1)
           /\ Listed(test_modulo_n(n, pattern1, offset))
<1> DEFINE a == [Fill(pattern1, "none") EXCEPT !.kind = "nth", !.step = MODULO_N, !.off = offset]
           b == [Fill(Not(pattern1), "none") EXCEPT !.skip = offset]
           c == [Check(pattern1, "none") EXCEPT !.kind = "nth", !.step = MODULO_N, !.off = offset]
<1>1. Not(pattern1) \in Words /\ MODULO_N \in Nat \ {0, 1}
  BY NotNot, MemTestsAssumption
<1>2. GoodPhase(a)
  BY <1>1 DEF Fill, March, GoodPhase, Single
<1>3. /\ GoodPhase(b) /\ Sown(b) /\ Spared(b) /\ b.skip = offset /\ b.seed = Not(pattern1) /\ ~b.flip
  BY <1>1 DEF Fill, March, GoodPhase, Single, Sown, Whole, Spared, Turns
<1>4. GoodPhase(c) /\ c.kind = "nth" /\ c.check /\ c.off = offset /\ c.seed = pattern1
  BY <1>1 DEF Check, March, GoodPhase, Single
<1>5. test_modulo_n(n, pattern1, offset) = <<a>> \o Times(n, <<b>>) \o <<c>>
  BY Zenon DEF test_modulo_n
<1> HIDE DEF a, b, c
<1>6. Chain(Times(n, <<b>>), b, b, Not(pattern1))
  <2>1. Chain(<<b>>, b, b, Not(pattern1)) /\ Fits(b, Not(pattern1), b, Not(pattern1))
    BY <1>3, OneChain DEF Fits, Whole, Spared
  <2>2. QED
    BY <1>3, <2>1, TimesChain
<1> DEFINE s == Times(n, <<b>>)
           u == <<a>> \o s
<1>7. Listed(s) /\ Len(s) \in Nat /\ Len(s) >= 1 /\ s[Len(s)] = b
  BY <1>6, ListOf DEF Chain, Linked
<1> HIDE DEF s
<1>8. Listed(<<a>>) /\ Listed(<<c>>) /\ Len(<<a>>) = 1 /\ Len(<<c>>) = 1 /\ <<c>>[1] = c
  BY <1>2, <1>4, OneListed
<1>9. Listed(u) /\ Len(u) = Len(s) + 1 /\ u[Len(u)] = b
  <2>1. Listed(u) /\ Len(u) = 1 + Len(s) /\ \A i \in 1 .. Len(s) : u[1 + i] = s[i]
    BY <1>7, <1>8, JoinedAt
  <2>2. Len(u) = Len(s) + 1 /\ u[1 + Len(s)] = b
    BY <1>7, <2>1
  <2>3. QED
    BY <2>1, <2>2
<1> HIDE DEF u
<1>10. Within(<<b, c>>, u \o <<c>>) /\ Listed(u \o <<c>>)
  <2> DEFINE list == u \o <<c>>
             k    == Len(u) - 1
  <2>1. /\ Listed(list) /\ Len(list) = Len(u) + Len(<<c>>)
        /\ \A i \in 1 .. Len(u) : list[i] = u[i]
        /\ \A i \in 1 .. Len(<<c>>) : list[Len(u) + i] = <<c>>[i]
    <3>1. PICK d : d = <<c>>
      OBVIOUS
    <3>2. Listed(u) /\ Listed(d) /\ list = u \o d
      BY <1>8, <1>9, <3>1
    <3> HIDE DEF list
    <3>3. QED
      BY <3>1, <3>2, JoinedAt
  <2> HIDE DEF list
  <2>2. k \in Nat /\ list[k + 1] = b /\ list[k + 2] = c /\ k + 2 <= Len(list)
    <3>1. k \in Nat /\ k + 1 = Len(u) /\ k + 2 = Len(u) + 1 /\ Len(u) \in 1 .. Len(u)
      BY <1>7, <1>9
    <3>2. QED
      BY <1>8, <1>9, <2>1, <3>1
  <2> HIDE DEF k
  <2>3. Len(<<b, c>>) = 2 /\ <<b, c>>[1] = b /\ <<b, c>>[2] = c
    OBVIOUS
  <2>4. \A i \in 1 .. 2 : list[k + i] = <<b, c>>[i]
    <3>1. \A i \in 1 .. 2 : i = 1 \/ i = 2
      OBVIOUS
    <3>2. QED
      BY <2>2, <2>3, <3>1
  <2>5. Within(<<b, c>>, list)
    BY <2>2, <2>3, <2>4 DEF Within
  <2>6. QED
    BY <2>1, <2>5 DEF list
<1>11. test_modulo_n(n, pattern1, offset) = u \o <<c>>
  BY <1>5 DEF u, s
<1>12. QED
  BY <1>3, <1>4, <1>10, <1>11 DEF StrideChecked

LEMMA FoundWithin ==
    ASSUME NEW s, Listed(s), NEW list, Listed(list), Within(s, list)
    PROVE  /\ Opposed(s) => Opposed(list)
           /\ BothWays(s) => BothWays(list)
           /\ Refilled(s) => Refilled(list)
           /\ \A off, seed : StrideChecked(s, off, seed) => StrideChecked(list, off, seed)
<1>1. \A x, y : Within(<<x, y>>, s) => Within(<<x, y>>, list)
  <2> SUFFICES ASSUME NEW x, NEW y, Within(<<x, y>>, s) PROVE Within(<<x, y>>, list)
    OBVIOUS
  <2>1. PICK d : d = <<x, y>>
    OBVIOUS
  <2>2. Within(d, s) /\ Listed(d)
    BY <2>1, PairListed
  <2>3. QED
    BY <2>1, <2>2, WithinPart
<1>2. Opposed(s) => Opposed(list)
  BY <1>1 DEF Opposed
<1>3. BothWays(s) => BothWays(list)
  BY <1>1 DEF BothWays
<1>4. \A off, seed : StrideChecked(s, off, seed) => StrideChecked(list, off, seed)
  BY <1>1 DEF StrideChecked
<1>5. Refilled(s) => Refilled(list)
  BY <1>1 DEF Refilled
<1>6. QED
  BY <1>2, <1>3, <1>4, <1>5

LEMMA FoundJoined ==
    ASSUME NEW s, Listed(s), NEW u, Listed(u)
    PROVE  /\ Listed(s \o u)
           /\ BothWays(s) => BothWays(s \o u)
           /\ Refilled(s) => Refilled(s \o u)
           /\ \A off, seed : StrideChecked(s, off, seed) \/ StrideChecked(u, off, seed) =>
                StrideChecked(s \o u, off, seed)
<1>1. Listed(s \o u) /\ Within(s, s \o u) /\ Within(u, s \o u)
  BY JoinedAt, WithinItself, WithinJoined
<1>2. QED
  BY <1>1, FoundWithin

Swept(list) == BothWays(list) /\ Refilled(list)

LEMMA InversionsFound ==
    ASSUME NEW t \in Tests, NEW st, NEW r \in Readings(t)
    PROVE  /\ t \in {3, 4, 5, 6} => Swept(Phases(t, st, r))
           /\ t = 8 => Opposed(Phases(t, st, r)) /\ Refilled(Phases(t, st, r))
           /\ t = 1 => Refilled(Phases(t, st, r))
<1>1. /\ \A u \in Tests : Iterations[u] \in Nat \ {0}
      /\ BYTE \in Nat \ {0} /\ TESTWORD_WIDTH \in Nat \ {0} /\ Seeds \subseteq Words
      /\ {} \in Words /\ Bits \in Words /\ 0 .. TESTWORD_WIDTH - 1 = Bits
      /\ \A w \in Words : Not(w) \in Words
  BY MemTestsAssumption, NotNot DEF Words, Bits
<1>2. \A n \in Nat \ {0} : \A a, b \in Words :
        /\ Swept(test_mov_inv_fixed(n, a) \o test_mov_inv_fixed(n, b))
        /\ Listed(test_mov_inv_fixed(n, a) \o test_mov_inv_fixed(n, b))
  BY FixedPair, FoundJoined DEF Swept
<1>3. CASE t = 3
  <2>1. Iterations[3] \in Nat \ {0}
    BY <1>1, <1>3
  <2>2. Phases(3, st, r) = test_mov_inv_fixed(Iterations[3], {}) \o test_mov_inv_fixed(Iterations[3], Bits)
    BY Switch
  <2>3. Swept(Phases(3, st, r))
    BY <1>1, <1>2, <2>1, <2>2
  <2>4. QED
    BY <1>3, <2>3
<1>4. ASSUME NEW n \in Nat \ {0}, NEW s, s = [i \in 1 .. n |-> s[i]],
             \A i \in 1 .. n : Listed(s[i])
      PROVE  /\ Swept(s[1]) => Swept(FlattenSeq(s))
             /\ Opposed(s[1]) => Opposed(FlattenSeq(s))
             /\ Refilled(s[1]) => Refilled(FlattenSeq(s))
  <2>1. 1 \in 1 .. n
    OBVIOUS
  <2>2. Within(s[1], FlattenSeq(s)) /\ Listed(FlattenSeq(s))
    BY <1>4, <2>1, WithinFlatten, FlattenListed
  <2>3. QED
    BY <1>4, <2>1, <2>2, FoundWithin DEF Swept
<1>5. CASE t = 4
  <2> DEFINE n == Iterations[4]
             s == [k \in 1 .. BYTE |-> Test4(n, k)]
  <2>1. n \in Nat \ {0}
    BY <1>1, <1>5
  <2>2. ASSUME NEW k \in 1 .. BYTE PROVE Swept(Test4(n, k)) /\ Listed(Test4(n, k))
    <3> DEFINE pattern1 == {i \in Bits : i % BYTE = BYTE - k}
    <3>1. pattern1 \in Words
      BY DEF Words
    <3>2. Test4(n, k) = test_mov_inv_fixed(n, pattern1) \o test_mov_inv_fixed(n, Not(pattern1))
      BY Zenon DEF Test4
    <3> HIDE DEF pattern1, n
    <3>3. QED
      BY <1>1, <1>2, <2>1, <3>1, <3>2
  <2>3. s = [k \in 1 .. BYTE |-> s[k]] /\ \A k \in 1 .. BYTE : s[k] = Test4(n, k)
    OBVIOUS
  <2>4. Phases(4, st, r) = FlattenSeq(s)
    BY Switch
  <2> HIDE DEF s, n
  <2>5. 1 \in 1 .. BYTE
    BY <1>1
  <2>6. Swept(s[1]) /\ \A k \in 1 .. BYTE : Listed(s[k])
    BY <2>2, <2>3, <2>5
  <2>7. Swept(FlattenSeq(s))
    BY <1>1, <1>4, <2>3, <2>6
  <2>8. QED
    BY <1>5, <2>4, <2>7
<1>6. CASE t = 5
  <2> DEFINE n == Iterations[5]
             s == [i \in 1 .. n |-> test_mov_inv_fixed(2, Random(r[1], i))]
  <2>1. n \in Nat \ {0} /\ r[1] \in Words
    BY <1>1, <1>6, ReadingsOf
  <2>2. \A i \in 1 .. n : Random(r[1], i) \in Words
    BY <2>1, RandomWord
  <2>3. s = [i \in 1 .. n |-> s[i]]
        /\ \A i \in 1 .. n : s[i] = test_mov_inv_fixed(2, Random(r[1], i))
    OBVIOUS
  <2>4. Phases(5, st, r) = FlattenSeq(s)
    BY Switch
  <2> HIDE DEF s, n
  <2>5. \A i \in 1 .. n : Swept(s[i]) /\ Listed(s[i])
    <3>1. \A w \in Words : Swept(test_mov_inv_fixed(2, w)) /\ Listed(test_mov_inv_fixed(2, w))
      BY FixedPair DEF Swept
    <3>2. QED
      BY <2>2, <2>3, <3>1
  <2>6. Swept(FlattenSeq(s))
    BY <1>4, <2>1, <2>3, <2>5
  <2>7. QED
    BY <1>6, <2>4, <2>6
<1>7. CASE t = 6
  <2> DEFINE n == Iterations[6]
             Both(k) == test_mov_inv_walk1(n, k - 1, FALSE) \o test_mov_inv_walk1(n, k - 1, TRUE)
             s == [k \in 1 .. TESTWORD_WIDTH |-> Both(k)]
  <2>1. ASSUME NEW k \in 1 .. TESTWORD_WIDTH PROVE Swept(Both(k)) /\ Listed(Both(k))
    <3>1. k - 1 \in Bits /\ n \in Nat \ {0}
      BY <1>1, <1>7
    <3>2. Listed(test_mov_inv_walk1(n, k - 1, TRUE))
      BY <3>1, WalkListed
    <3>3. QED
      BY <3>1, <3>2, WalkPair, FoundJoined DEF Swept
  <2>2. s = [k \in 1 .. TESTWORD_WIDTH |-> s[k]] /\ \A k \in 1 .. TESTWORD_WIDTH : s[k] = Both(k)
    OBVIOUS
  <2>3. Phases(6, st, r) = FlattenSeq(s)
    BY Switch, Zenon
  <2> HIDE DEF Both, s
  <2>4. 1 \in 1 .. TESTWORD_WIDTH
    BY <1>1
  <2>5. Swept(s[1]) /\ \A k \in 1 .. TESTWORD_WIDTH : Listed(s[k])
    BY <2>1, <2>2, <2>4
  <2>6. Swept(FlattenSeq(s))
    BY <1>1, <1>4, <2>2, <2>5
  <2>7. QED
    BY <1>7, <2>3, <2>6
<1>8. CASE t = 8
  <2> DEFINE n == Iterations[8]
             s == [i \in 1 .. n |-> test_mov_inv_random(r[i])]
  <2>1. n \in Nat \ {0}
    BY <1>1, <1>8
  <2>2. s = [i \in 1 .. n |-> s[i]] /\ \A i \in 1 .. n : s[i] = test_mov_inv_random(r[i])
    OBVIOUS
  <2>3. Phases(8, st, r) = FlattenSeq(s)
    BY Switch
  <2> HIDE DEF s, n
  <2>4. \A i \in 1 .. n : Opposed(s[i]) /\ Refilled(s[i]) /\ Listed(s[i])
    BY <2>2, RandomPair
  <2>5. Opposed(FlattenSeq(s)) /\ Refilled(FlattenSeq(s))
    BY <1>4, <2>1, <2>2, <2>4
  <2>6. QED
    BY <1>8, <2>3, <2>5
<1>9. CASE t = 1
  <2> DEFINE x == Fill({}, "own")
             y == Check({}, "own")
  <2>1. Phases(1, st, r) = <<x, y>>
    BY Switch
  <2>2. Fills(x) /\ Rereads(y)
    BY FillWhole, MemTestsAssumption DEF Check, March, Whole, Rereads
  <2>3. Within(<<x, y>>, <<x, y>>)
    <3>1. PICK d : d = <<x, y>>
      OBVIOUS
    <3>2. Len(d) = 2 /\ d[1] = x /\ d[2] = y
      BY <3>1
    <3> HIDE DEF x, y
    <3>3. QED
      BY <3>1, <3>2, TwoFirst
  <2>4. QED
    BY <1>9, <2>1, <2>2, <2>3 DEF Refilled
<1>10. QED
  BY <1>3, <1>5, <1>6, <1>7, <1>8, <1>9

LEMMA StridesFound ==
    ASSUME 9 \in Tests, NEW st, NEW r \in Readings(9), NEW off \in 0 .. MODULO_N - 1
    PROVE  \E seed \in Words : /\ StrideChecked(Phases(9, st, r), off, seed)
                               /\ StrideChecked(Phases(9, st, r), off, Not(seed))
<1> DEFINE m == Iterations[9]
           n == m * MODULO_N
           s == [i \in 1 .. n |-> Test9(r[1], i)]
           k == off + 1
<1>1. m \in Nat \ {0} /\ MODULO_N \in Nat \ {0, 1} /\ r[1] \in Words
  BY MemTestsAssumption, ReadingsOf
<1>2. n \in Nat \ {0} /\ k \in 1 .. n
  <2> DEFINE N == MODULO_N
  <2> HIDE DEF m, N
  <2>1. \A x, y \in Nat \ {0} : x * y \in Nat \ {0}
    OBVIOUS
  <2>2. PICK x \in Nat : m = x + 1
    <3>1. m - 1 \in Nat /\ m = (m - 1) + 1
      BY <1>1
    <3>2. QED
      BY <3>1
  <2>3. m * N = x * N + N /\ x * N \in Nat
    BY <1>1, <2>2 DEF N
  <2>4. QED
    BY <1>1, <2>1, <2>3 DEF N
<1>3. s = [i \in 1 .. n |-> s[i]] /\ \A i \in 1 .. n : s[i] = Test9(r[1], i)
  OBVIOUS
<1>4. Phases(9, st, r) = FlattenSeq(s)
  BY Switch
<1> HIDE DEF n, s, m
<1>5. ASSUME NEW i \in 1 .. n
      PROVE  LET seed == Random(r[1], i)
                 offset == (i - 1) % MODULO_N
             IN  /\ seed \in Words /\ Listed(s[i])
                 /\ StrideChecked(s[i], offset, seed) /\ StrideChecked(s[i], offset, Not(seed))
  <2> DEFINE seed == Random(r[1], i)
             offset == (i - 1) % MODULO_N
  <2>1. i \in Nat /\ offset \in 0 .. MODULO_N - 1
    BY <1>1, <1>2
  <2>2. seed \in Words /\ Not(seed) \in Words
    BY <1>1, <2>1, RandomWord, NotNot
  <2>3. Test9(r[1], i) = test_modulo_n(2, seed, offset) \o test_modulo_n(2, Not(seed), offset)
    BY Zenon DEF Test9
  <2> HIDE DEF seed, offset
  <2>4. /\ StrideChecked(test_modulo_n(2, seed, offset), offset, seed)
        /\ StrideChecked(test_modulo_n(2, Not(seed), offset), offset, Not(seed))
        /\ Listed(test_modulo_n(2, seed, offset)) /\ Listed(test_modulo_n(2, Not(seed), offset))
    BY <2>1, <2>2, ModuloPair
  <2>5. /\ Listed(s[i]) /\ StrideChecked(s[i], offset, seed) /\ StrideChecked(s[i], offset, Not(seed))
    BY <1>3, <2>3, <2>4, FoundJoined
  <2>6. QED
    BY <2>2, <2>5 DEF seed, offset
<1>6. (k - 1) % MODULO_N = off
  BY <1>1
<1> HIDE DEF k
<1>7. PICK seed : seed \in Words /\ StrideChecked(s[k], off, seed) /\ StrideChecked(s[k], off, Not(seed))
  BY <1>2, <1>5, <1>6
<1>8. Within(s[k], FlattenSeq(s)) /\ Listed(FlattenSeq(s)) /\ Listed(s[k])
  <2>1. \A i \in 1 .. n : Listed(s[i])
    BY <1>5
  <2>2. n \in Nat
    BY <1>2
  <2>3. QED
    BY <1>2, <1>3, <2>1, <2>2, WithinFlatten, FlattenListed
<1>9. QED
  BY <1>4, <1>7, <1>8, FoundWithin

-----------------------------------------------------------------------------
(***************************************************************************)
(* A phase that has checked a faulty cell has reported it, unless what the *)
(* phase wanted to read there was what the fault makes of the cell.  The   *)
(* victim of a coupling escapes from a phase only if that came to it       *)
(* before it came to the cell that is written with it.                     *)
(***************************************************************************)
Suspect == IF fault.kind = "couple" THEN fault.other ELSE fault.cell

Checks(ph, v) == ph.check /\ (Whole(ph) \/ (ph.kind = "nth" /\ v \in Strides(ph.off)))

Agrees(x) == fault.ones \ fault.zeros \subseteq x /\ fault.zeros \cap x = {}

Caught(ph, s, v) ==
    \E u \in Start .. LastWord :
        /\ Cell(u) = fault.cell
        /\ \/ /\ Inverts(ph)
              /\ IF ph.up THEN u < v ELSE v < u
              /\ Want(ph, s, window, v) # Leaves(ph, s, window, u)
           \/ /\ ph.kind = "nth"
              /\ (u - Start) % MODULO_N # ph.off

Escaped(ph, s, v) ==
    /\ fault.kind = "stuck" => Agrees(Want(ph, s, window, v))
    /\ fault.kind = "fade" /\ test = 10 => Want(ph, s, window, v) = fault.to
    /\ fault.kind = "couple" => ~Caught(ph, s, v)

Visited(v) == IF Cur.kind = "nth" THEN v < p \/ (pc = "tick" /\ v = p) ELSE Behind(v)

EscapeInv ==
    my_cpu = 0 /\ ~Reported(Suspect) =>
        \A v \in Start .. LastWord : Cell(v) = Suspect =>
            /\ \A j \in 1 .. phase - 1 :
                 Checks(phases[j], v) => Escaped(phases[j], SeedOf(phases, j), v)
            /\ pc \in {"words", "tick"} /\ Visited(v) /\ Checks(Cur, v) =>
                 Escaped(Cur, SeedNow, v)

\* The modulo test leaves v alone, and not u.
Crossed(off, u, v) == v \in Strides(off) /\ (u - Start) % MODULO_N # off

\* What the victim of a coupling holds, once the other cell is written.
SpoilInv ==
    my_cpu = 0 /\ fault.kind = "couple" =>
        \A u, v \in Start .. LastWord : Cell(u) = fault.cell /\ Cell(v) = fault.other =>
            /\ pc \in {"words", "tick"} =>
                 /\ Inverts(Cur) /\ Behind(u) /\ ~Behind(v) =>
                      mem[fault.other] = Leaves(Cur, SeedNow, window, u)
                 /\ Spared(Cur) /\ Crossed(Cur.skip, u, v) /\ Behind(u) =>
                      mem[fault.other] = Cur.seed
                 /\ Cur.kind = "nth" /\ Cur.check /\ Crossed(Cur.off, u, v) =>
                      mem[fault.other] = Not(Cur.seed)
            /\ pc = "call" /\ phase > 1 =>
                 LET last == phases[phase - 1]
                 IN  Spared(last) /\ Crossed(last.skip, u, v) => mem[fault.other] = last.seed

\* A cell that has faded stays as it is until it is filled again.
FadeInv ==
    LET faded == stage \in {2, 5} \/ (stage \in {1, 4} /\ (window > 1 \/ phase > 1 \/ pc = "tick"))
    IN  my_cpu = 0 /\ fault.kind = "fade" /\ test = 10 /\ faded => mem[fault.cell] = fault.to

FaultInv == fault \in Faults

LEMMA FaultFacts ==
    ASSUME FaultInv
    PROVE  /\ fault.kind = "stuck" => /\ fault.cell \in Cells /\ fault.ones \in Words
                                      /\ fault.zeros \in Words /\ fault.ones \cup fault.zeros # {}
           /\ fault.kind = "fade" => fault.cell \in Cells /\ fault.to \in Words
           /\ fault.kind \in {"alias", "couple"} =>
                fault.cell \in Cells /\ fault.other \in Cells /\ fault.cell # fault.other
<1> DEFINE A == [kind : {"none"}]
           B == [kind : {"stuck"}, cell : Cells, ones : Words, zeros : Words]
           C == [kind : {"alias", "couple"}, cell : Cells, other : Cells]
           D == [kind : {"fade"}, cell : Cells, to : Words]
<1>1. fault \in A \/ fault \in B \/ fault \in C \/ fault \in D
  BY FaultsAssumption DEF FaultInv
<1>2. fault \in A => fault.kind = "none"
  OBVIOUS
<1>3. fault \in B => /\ fault.kind = "stuck" /\ fault.cell \in Cells /\ fault.ones \in Words
                     /\ fault.zeros \in Words
  OBVIOUS
<1>4. fault \in C => fault.kind \in {"alias", "couple"} /\ fault.cell \in Cells /\ fault.other \in Cells
  OBVIOUS
<1>5. fault \in D => fault.kind = "fade" /\ fault.cell \in Cells /\ fault.to \in Words
  OBVIOUS
<1>6. /\ fault.kind = "stuck" => fault.ones \cup fault.zeros # {}
      /\ fault.kind \in {"alias", "couple"} => fault.cell # fault.other
  BY FaultsAssumption DEF FaultInv
<1> HIDE DEF A, B, C, D
<1>7. QED
  BY <1>1, <1>2, <1>3, <1>4, <1>5, <1>6

LEMMA NotItself == \A x \in Words : x # Not(x)
<1> SUFFICES ASSUME NEW x \in Words PROVE x # Not(x)
  OBVIOUS
<1>1. PICK b : b \in Bits
  <2>1. 0 \in Bits
    BY MemTestsAssumption DEF Bits
  <2>2. QED
    BY <2>1
<1>2. QED
  BY <1>1 DEF Not

LEMMA AgreesOnce ==
    ASSUME FaultInv, fault.kind = "stuck", NEW x \in Words, Agrees(x), Agrees(Not(x))
    PROVE  FALSE
<1>1. fault.ones \subseteq Bits /\ fault.zeros \subseteq Bits /\ fault.ones \cup fault.zeros # {}
  BY FaultFacts DEF Words
<1>2. fault.zeros = {}
  BY <1>1 DEF Agrees, Not
<1>3. fault.ones = {}
  BY <1>1, <1>2 DEF Agrees, Not
<1>4. QED
  BY <1>1, <1>2, <1>3

\* What is read at a cell that is stuck.
LEMMA StuckReads ==
    ASSUME fault.kind = "stuck", NEW v, Cell(v) = fault.cell
    PROVE  Agrees(read_word(v))
<1>1. read_word(v) = (mem[Cell(v)] \cup fault.ones) \ fault.zeros
  BY Zenon DEF read_word, Read
<1>2. QED
  BY <1>1 DEF Agrees

\* The cells of a window, and the words before them.
LEMMA WindowSpan ==
    ASSUME NEW w \in Windows, FirstWord(w) <= FinalWord(w), FinalWord(w) \in Nat
    PROVE  \E k \in Nat :
              /\ SegmentCells(w) = k .. k + (FinalWord(w) - FirstWord(w))
              /\ \A v \in FirstWord(w) .. FinalWord(w) : CellIn(w, v) = v - FirstWord(w) + k
<1> DEFINE k == Segments[w].first * PAGE_WORDS
           m == Segments[w].last * PAGE_WORDS
           l == m + PAGE_WORDS - 1
<1>1. PICK i : i = FirstWord(w)
  OBVIOUS
<1>2. i \in FirstWord(w) .. FinalWord(w)
  BY <1>1, FirstWordNat
<1>3. k \in Nat /\ FinalWord(w) - FirstWord(w) = m + PAGE_WORDS - 1 - k
  BY <1>2, CellsOf, Zenon
<1>4. PAGE_WORDS \in Nat /\ m \in Nat
  BY MemTestsAssumption
<1>5. SegmentCells(w) = k .. l
  BY DEF SegmentCells
<1>6. \A v \in FirstWord(w) .. FinalWord(w) : CellIn(w, v) = v - FirstWord(w) + k
  BY CellsOf
<1> HIDE DEF k, m
<1>7. l = k + (FinalWord(w) - FirstWord(w))
  BY <1>3, <1>4
<1>8. QED
  BY <1>3, <1>5, <1>6, <1>7

LEMMA RangeSpan ==
    ASSUME CallInv
    PROVE  \E k \in Nat : /\ SegmentCells(window) = k .. k + (LastWord - Start)
                         /\ \A v \in Start .. LastWord : Cell(v) = v - Start + k
<1>1. /\ Start \in Nat /\ LastWord \in Nat /\ Start <= LastWord
      /\ Start = FirstWord(window) /\ LastWord = FinalWord(window) /\ window \in Windows
  BY RangeFacts
<1>2. PICK w \in Windows : w = window
  BY <1>1
<1>3. \E k \in Nat :
        /\ SegmentCells(w) = k .. k + (FinalWord(w) - FirstWord(w))
        /\ \A v \in FirstWord(w) .. FinalWord(w) : CellIn(w, v) = v - FirstWord(w) + k
  BY <1>1, <1>2, WindowSpan
<1>4. QED
  BY <1>1, <1>2, <1>3, RangeCells

LEMMA RangeOnto ==
    ASSUME CallInv, NEW c \in SegmentCells(window)
    PROVE  \E v \in Start .. LastWord : Cell(v) = c
<1>1. Start \in Nat /\ LastWord \in Nat /\ Start <= LastWord
  BY RangeFacts
<1>2. PICK k \in Nat : /\ SegmentCells(window) = k .. k + (LastWord - Start)
                      /\ \A v \in Start .. LastWord : Cell(v) = v - Start + k
  BY RangeSpan
<1>3. PICK v : v = c - k + Start
  OBVIOUS
<1>4. v \in Start .. LastWord /\ v - Start + k = c
  BY <1>1, <1>2, <1>3
<1>5. QED
  BY <1>2, <1>4

LEMMA WantWord ==
    ASSUME NEW ph, Sown(ph), NEW s \in Words, NEW w \in Windows, NEW v \in FirstWord(w) .. FinalWord(w)
    PROVE  Want(ph, s, w, v) \in Words
<1>1. v - FirstWord(w) \in Nat /\ ph.turn \in Turns
  BY FirstWordNat DEF Sown
<1>2. PICK k \in Nat : k = v - FirstWord(w)
  BY <1>1
<1>3. /\ Orbit(RotL, s)[k] \in Words /\ Orbit(Prsg, s)[k + 1] \in Words
      /\ \A n : Number(n) \in Words
      /\ \A x : Not(x) \in Words
  <2>1. Orbit(RotL, s)[k] \in Words /\ Orbit(Prsg, s)[k + 1] \in Words
    BY <1>2, Orbits
  <2>2. \A n : Number(n) \in Words
    BY DEF Number, Words
  <2>3. \A x : Not(x) \in Words
    BY DEF Not, Words
  <2>4. QED
    BY <2>1, <2>2, <2>3
<1>4. Plain(ph, s, w, v) \in Words
  BY <1>1, <1>2, <1>3, PlainBy DEF Turns
<1>5. QED
  BY <1>3, <1>4 DEF Want

-----------------------------------------------------------------------------
(***************************************************************************)
(* A step at a word.                                                       *)
(***************************************************************************)
LEMMA FrameEscape ==
    ASSUME UNCHANGED <<fault, window, test>>
    PROVE  /\ Suspect' = Suspect /\ Start' = Start /\ LastWord' = LastWord
           /\ \A v : Cell(v)' = Cell(v)
           /\ \A ph, v : Checks(ph, v)' <=> Checks(ph, v)
           /\ \A ph, s, v : Escaped(ph, s, v)' <=> Escaped(ph, s, v)
<1>1. Suspect' = Suspect /\ Start' = Start /\ LastWord' = LastWord /\ \A v : Cell(v)' = Cell(v)
  BY DEF Suspect, Start, LastWord, Base, Cell
<1>2. \A off : Strides(off)' = Strides(off)
  BY DEF Strides, Start, LastWord, Base
<1>3. \A ph, v : Checks(ph, v)' <=> Checks(ph, v)
  BY <1>2 DEF Checks
<1>4. \A x : Agrees(x)' <=> Agrees(x)
  BY DEF Agrees
<1>5. \A ph, s, v : Caught(ph, s, v)' <=> Caught(ph, s, v)
  BY <1>1 DEF Caught
<1>6. \A ph, s, v : Escaped(ph, s, v)' <=> Escaped(ph, s, v)
  BY <1>4, <1>5 DEF Escaped
<1>7. QED
  BY <1>1, <1>3, <1>6

LEMMA ReportsStay ==
    ASSUME UNCHANGED fault, errors \subseteq errors'
    PROVE  /\ \A c : Reported(c) => Reported(c)'
           /\ Reported(Suspect) => Reported(Suspect)'
<1>1. \A c : Reported(c) => Reported(c)'
  BY DEF Reported
<1>2. Suspect' = Suspect
  BY DEF Suspect
<1>3. QED
  BY <1>1, <1>2

LEMMA EscapeFrame ==
    ASSUME CallInv, EscapeInv, UNCHANGED <<fault, window, test, phases, phase, my_cpu>>,
           errors \subseteq errors',
           ASSUME NEW v \in Start .. LastWord, pc' \in {"words", "tick"}, my_cpu = 0,
                  Cell(v) = Suspect, ~Reported(Suspect)', Visited(v)', Checks(Cur, v)
           PROVE  (pc \in {"words", "tick"} /\ Visited(v)) \/ Escaped(Cur, SeedNow, v)
    PROVE  EscapeInv'
<1>1. /\ Suspect' = Suspect /\ Start' = Start /\ LastWord' = LastWord
      /\ \A v : Cell(v)' = Cell(v)
      /\ \A ph, v : Checks(ph, v)' <=> Checks(ph, v)
      /\ \A ph, s, v : Escaped(ph, s, v)' <=> Escaped(ph, s, v)
  BY FrameEscape
<1>2. Cur' = Cur /\ SeedNow' = SeedNow
  BY Frame, FrameSeed
<1>3. SUFFICES ASSUME my_cpu = 0, ~Reported(Suspect)', NEW v \in Start .. LastWord, Cell(v) = Suspect
               PROVE  /\ \A j \in 1 .. phase - 1 :
                           Checks(phases[j], v) => Escaped(phases[j], SeedOf(phases, j), v)
                      /\ pc' \in {"words", "tick"} /\ Visited(v)' /\ Checks(Cur, v) =>
                           Escaped(Cur, SeedNow, v)
  BY <1>1, <1>2 DEF EscapeInv
<1>4. ~Reported(Suspect)
  BY <1>3, ReportsStay
<1>5. /\ \A j \in 1 .. phase - 1 :
           Checks(phases[j], v) => Escaped(phases[j], SeedOf(phases, j), v)
      /\ pc \in {"words", "tick"} /\ Visited(v) /\ Checks(Cur, v) => Escaped(Cur, SeedNow, v)
  BY <1>3, <1>4 DEF EscapeInv
<1>6. QED
  BY <1>3, <1>5

\* What the phases of test 10 are.
LEMMA FadeNow ==
    ASSUME CallInv, PhasesInv, test = 10
    PROVE  /\ Len(phases) = 1 /\ stage \in 0 .. 5
           /\ stage \in {0, 3} => ~phases[1].check
           /\ stage \in {1, 4} => phases[1] = Delay(Iterations[10])
           /\ stage = 2 => phases[1] = Check({}, "none")
           /\ stage = 5 => phases[1] = Check(Bits, "none")
<1> DEFINE n == Iterations[10]
<1>1. n \in Nat \ {0} /\ stage \in 0 .. 5
  BY MemTestsAssumption, StagesBy DEF CallInv
<1>2. phases = test_bit_fade(stage, n)
  BY Switch DEF PhasesInv
<1> HIDE DEF n
<1>3. /\ stage = 0 => phases = <<Fill({}, "none")>>
      /\ stage = 1 => phases = <<Delay(n)>>
      /\ stage = 2 => phases = <<Check({}, "none")>>
      /\ stage = 3 => phases = <<Fill(Bits, "none")>>
      /\ stage = 4 => phases = <<Delay(n)>>
      /\ stage = 5 => phases = <<Check(Bits, "none")>>
  BY <1>1, <1>2, FadeList
<1>4. \A x : Len(<<x>>) = 1 /\ <<x>>[1] = x
  OBVIOUS
<1>5. \A s : ~Fill(s, "none").check
  BY DEF Fill, March
<1>7. stage \in {0, 3} => Len(phases) = 1 /\ ~phases[1].check
  BY <1>3, <1>4, <1>5
<1>8. stage \in {1, 4} => Len(phases) = 1 /\ phases[1] = Delay(n)
  BY <1>3, <1>4
<1>9. /\ stage = 2 => Len(phases) = 1 /\ phases[1] = Check({}, "none")
      /\ stage = 5 => Len(phases) = 1 /\ phases[1] = Check(Bits, "none")
  BY <1>3, <1>4
<1>10. QED
  BY <1>1, <1>7, <1>8, <1>9 DEF n

\* What is compared at p tells that there is something wrong, or the fault
\* makes the cell hold what the phase wants to read.
LEMMA Fooled ==
    ASSUME CallInv, PhasesInv, SpoilInv, FadeInv, my_cpu = 0, pc = "words",
           p \in Start .. LastWord, Cell(p) = Suspect, Checks(Cur, p),
           read_word(p) = Want(Cur, SeedNow, window, p)
    PROVE  Escaped(Cur, SeedNow, p)
<1> DEFINE want == Want(Cur, SeedNow, window, p)
<1>1. phase <= Len(phases)
  BY DEF CallInv
<1>2. GoodPhase(Cur) /\ Sown(Cur) /\ SeedNow \in Words /\ (~Cur.flip => SeedNow = Cur.seed)
  BY <1>1, CurLinked
<1>3. fault.kind \in {"fade", "couple"} => read_word(p) = mem[Cell(p)]
  BY Zenon DEF read_word, Read
<1>4. fault.kind = "stuck" => Agrees(want)
  <2>1. fault.kind = "stuck" => Cell(p) = fault.cell
    BY DEF Suspect
  <2>2. QED
    BY <2>1, StuckReads
<1>5. fault.kind = "fade" /\ test = 10 => want = fault.to
  <2> SUFFICES ASSUME fault.kind = "fade", test = 10 PROVE want = fault.to
    OBVIOUS
  <2>1. phase = 1 /\ stage \in 0 .. 5 /\ Cur = phases[1]
    <3>1. Len(phases) = 1 /\ stage \in 0 .. 5
      BY FadeNow
    <3>2. phase \in Nat \ {0}
      BY DEF CallInv
    <3>3. phase = 1
      BY <1>1, <3>1, <3>2
    <3>4. QED
      BY <3>1, <3>3 DEF Cur
  <2>2. ~(stage \in {1, 4})
    <3>1. stage \in {1, 4} => Cur = Delay(Iterations[10])
      BY <2>1, FadeNow
    <3>2. Delay(Iterations[10]).kind = "sleep"
      BY DEF Delay, March
    <3>3. Cur.kind = "march" \/ Cur.kind = "nth"
      BY DEF Checks, Whole
    <3>4. QED
      BY <3>1, <3>2, <3>3
  <2>3. ~(stage \in {0, 3})
    BY <2>1, FadeNow DEF Checks
  <2>4. stage \in {2, 5}
    BY <2>1, <2>2, <2>3
  <2>5. mem[fault.cell] = fault.to
    BY <2>4 DEF FadeInv
  <2>6. QED
    BY <1>3, <2>5 DEF Suspect
<1>6. fault.kind = "couple" => ~Caught(Cur, SeedNow, p)
  <2> SUFFICES ASSUME fault.kind = "couple",
                      NEW u \in Start .. LastWord, Cell(u) = fault.cell,
                      \/ /\ Inverts(Cur)
                         /\ IF Cur.up THEN u < p ELSE p < u
                         /\ want # Leaves(Cur, SeedNow, window, u)
                      \/ Cur.kind = "nth" /\ (u - Start) % MODULO_N # Cur.off
               PROVE  FALSE
    BY DEF Caught
  <2>1. Cell(p) = fault.other /\ want = mem[fault.other]
    BY <1>3 DEF Suspect
  <2>2. CASE /\ Inverts(Cur)
             /\ IF Cur.up THEN u < p ELSE p < u
             /\ want # Leaves(Cur, SeedNow, window, u)
    <3>1. p \in Int /\ Cur.up \in BOOLEAN
      BY <1>2 DEF GoodPhase
    <3>2. Behind(u) /\ ~Behind(p)
      BY <2>2, <3>1 DEF Behind
    <3>3. mem[fault.other] = Leaves(Cur, SeedNow, window, u)
      BY <2>1, <2>2, <3>2 DEF SpoilInv
    <3>4. QED
      BY <2>1, <2>2, <3>3
  <2>3. CASE Cur.kind = "nth" /\ (u - Start) % MODULO_N # Cur.off
    <3>1. Cur.check /\ p \in Strides(Cur.off)
      BY <2>3 DEF Checks, Whole
    <3>2. mem[fault.other] = Not(Cur.seed)
      BY <2>1, <2>3, <3>1 DEF SpoilInv, Crossed
    <3>3. Cur.turn = "none" /\ ~Cur.invert /\ ~Cur.flip
      BY <1>2, <2>3 DEF Sown
    <3>4. want = Cur.seed
      BY <1>2, <3>3, PlainBy DEF Want
    <3>5. Cur.seed \in Words
      BY <1>2 DEF Sown
    <3>6. QED
      BY <2>1, <3>2, <3>4, <3>5, NotItself
  <2>4. QED
    BY <2>2, <2>3
<1>7. QED
  BY <1>4, <1>5, <1>6 DEF Escaped

LEMMA WordEscapes ==
    ASSUME CallInv, PointerInv, PatternInv, SpoilInv, FadeInv, my_cpu = 0, Word,
           Cell(p) = Suspect, Checks(Cur, p), ~Reported(Suspect)'
    PROVE  Escaped(Cur, SeedNow, p)
<1>1. /\ phase <= Len(phases) /\ pc = "words" /\ PhasesInv /\ WorkInv
      /\ Cur.kind \in {"march", "nth"}
  BY DEF CallInv, PatternInv, Word
<1>2. GoodPhase(Cur) /\ Sown(Cur) /\ SeedNow \in Words /\ (~Cur.flip => SeedNow = Cur.seed)
  BY <1>1, CurLinked
<1>3. p \in Start .. LastWord
  <2>1. CASE Cur.kind = "march"
    <3>1. InBlock
      BY <1>1, <2>1 DEF PointerInv
    <3>2. QED
      BY <1>1, <3>1, RangeFacts DEF InBlock
  <2>2. CASE Cur.kind = "nth"
    BY <1>1, <2>2 DEF PointerInv, InRange
  <2>3. QED
    BY <1>1, <2>1, <2>2
<1>4. read_word(p) = Expected
  <2>1. SUFFICES ASSUME read_word(p) # Expected PROVE Reported(Suspect)'
    OBVIOUS
  <2>2. Cur.check
    BY DEF Checks
  <2>3. [cell |-> Cell(p), use |-> TRUE] \in errors'
    BY <2>1, <2>2 DEF Word, Error
  <2>4. Suspect' = Suspect
    BY DEF Word, ToNextWord, Suspect
  <2>5. \E e \in errors' : e.cell = Suspect
    BY <2>3
  <2>6. QED
    BY <2>4, <2>5 DEF Reported
<1>5. Expected = Want(Cur, SeedNow, window, p)
  <2>1. CASE Whole(Cur)
    BY <1>1, <1>3, <2>1, PatternGoesOn DEF WorkInv, WholeInv
  <2>2. CASE Cur.kind = "nth"
    <3>1. Cur.turn = "none" /\ ~Cur.invert /\ ~Cur.flip
      BY <1>2, <2>2 DEF Sown
    <3>2. pattern = Cur.seed
      BY <1>1, <2>2 DEF WorkInv, NthInv
    <3>3. Want(Cur, SeedNow, window, p) = Cur.seed
      BY <1>2, <3>1, PlainBy DEF Want
    <3>4. QED
      BY <3>1, <3>2, <3>3, PlainWords
  <2>3. QED
    BY <2>1, <2>2 DEF Checks
<1>6. QED
  BY <1>1, <1>3, <1>4, <1>5, Fooled

\* A step at p visits no other word.
LEMMA WordVisits ==
    ASSUME CallInv, PointerInv, PatternInv, my_cpu = 0, Word,
           NEW v \in Start .. LastWord, Checks(Cur, v), Visited(v)'
    PROVE  Visited(v) \/ v = p
<1>1. /\ phase <= Len(phases) /\ pc = "words" /\ WorkInv /\ Cur' = Cur
      /\ p' = NextWord /\ pc' = IF MoreWords THEN "words" ELSE "tick"
  BY Frame DEF CallInv, PatternInv, Word, ToNextWord, callVars
<1>2. GoodPhase(Cur)
  BY <1>1, CurGood
<1>3. CASE Whole(Cur)
  <2>1. InBlock /\ Cur.step = 1 /\ Cur.up \in BOOLEAN /\ Cur.kind # "nth"
    BY <1>1, <1>2, <1>3 DEF PointerInv, Whole, GoodPhase
  <2>2. p \in Int
    BY <1>1, <2>1, RangeFacts DEF InBlock
  <2>3. p' = IF Cur.up THEN p + 1 ELSE p - 1
    BY <1>1, <2>1 DEF NextWord
  <2>4. IF Cur.up THEN v < p' ELSE v > p'
    BY <1>1, <2>1 DEF Visited, Behind
  <2>5. (IF Cur.up THEN v < p ELSE v > p) \/ v = p
    BY <2>1, <2>2, <2>3, <2>4
  <2>6. QED
    BY <2>1, <2>5 DEF Visited, Behind
<1>4. CASE Cur.kind = "nth"
  <2>1. p \in Start .. LastWord /\ (p - Start) % MODULO_N = Cur.off
    BY <1>1, <1>4 DEF PointerInv, InRange, WorkInv, NthInv
  <2>2. (v - Start) % MODULO_N = Cur.off
    BY <1>4 DEF Checks, Strides, Whole
  <2>3. Cur.step = MODULO_N /\ MODULO_N \in Nat \ {0, 1}
    BY <1>2, <1>4, RangeFacts DEF GoodPhase
  <2>4. p' = (IF MoreWords THEN p + MODULO_N ELSE p) /\ (pc' = "tick" => p' = p)
    BY <1>1, <2>3 DEF NextWord
  <2>5. v < p' \/ (pc' = "tick" /\ v = p')
    BY <1>1, <1>4 DEF Visited
  <2>6. p < v => p + MODULO_N <= v
    BY <2>1, <2>2, StrideApart
  <2>7. v <= p
    BY <2>1, <2>3, <2>4, <2>5, <2>6
  <2>8. QED
    BY <1>4, <2>1, <2>7 DEF Visited
<1>5. QED
  BY <1>3, <1>4 DEF Checks

LEMMA ErrorsGrow ==
    ASSUME [Next]_vars
    PROVE  errors \subseteq errors'
  BY DEF Next, Run, Over, vars, BeginPhase, SkipSleep, Word, PairWord, BlockWords, MoveUp, MoveDown,
         Sleep, WalkFirst, WalkSecond, EndBlock, EndCall

LEMMA StepEscapes ==
    ASSUME CallInv, PointerInv, PatternInv, SpoilInv, FadeInv, EscapeInv, WordStep
    PROVE  EscapeInv'
<1>1. UNCHANGED <<fault, window, test, phases, phase, my_cpu>> /\ phase <= Len(phases) /\ pc = "words"
  BY WordStepKeeps DEF WordStep, Word, ToNextWord, PairWord, BlockWords, MoveUp, MoveDown,
     Sleep, WalkFirst, WalkSecond, CallInv
<1>2. errors \subseteq errors'
  <2>1. [Next]_vars
    BY DEF WordStep, Next, Run
  <2>2. QED
    BY <2>1, ErrorsGrow
<1>3. CASE Word
  <2>1. ASSUME NEW v \in Start .. LastWord, pc' \in {"words", "tick"}, my_cpu = 0,
               Cell(v) = Suspect, ~Reported(Suspect)', Visited(v)', Checks(Cur, v)
        PROVE  (pc \in {"words", "tick"} /\ Visited(v)) \/ Escaped(Cur, SeedNow, v)
    <3>1. Visited(v) \/ v = p
      BY <1>3, <2>1, WordVisits
    <3>2. CASE v = p
      BY <1>3, <2>1, <3>2, WordEscapes
    <3>3. QED
      BY <1>1, <3>1, <3>2
  <2>2. QED
    BY <1>1, <1>2, <2>1, EscapeFrame
<1>4. CASE WordStep /\ ~Word
  <2>1. Cur.kind \notin {"march", "nth"}
    BY <1>4 DEF WordStep, PairWord, BlockWords, MoveUp, MoveDown, Sleep, WalkFirst, WalkSecond
  <2>2. \A v : ~Checks(Cur, v)
    BY <2>1 DEF Checks, Whole
  <2>3. QED
    BY <1>1, <1>2, <2>2, EscapeFrame
<1>5. QED
  BY <1>3, <1>4

-----------------------------------------------------------------------------
(***************************************************************************)
(* What is written to the other cell of a coupling.                        *)
(***************************************************************************)
LEMMA SpoilWrite ==
    ASSUME CallInv, MemInv, FaultInv, fault.kind = "couple", NEW a, NEW x,
           mem' = write_word(mem, a, x)
    PROVE  mem'[fault.other] = IF Cell(a) \in {fault.cell, fault.other} THEN x ELSE mem[fault.other]
<1>1. Hits(Cell(a)) = IF Cell(a) = fault.cell THEN {Cell(a), fault.other} ELSE {Cell(a)}
  BY Zenon DEF Hits
<1>2. fault.other \in DOMAIN mem
  BY FaultFacts DEF MemInv
<1>3. mem' = [c \in DOMAIN mem |-> IF c \in Hits(Cell(a)) THEN x ELSE mem[c]]
  BY DEF write_word
<1>4. mem'[fault.other] = IF fault.other \in Hits(Cell(a)) THEN x ELSE mem[fault.other]
  BY <1>2, <1>3
<1>5. fault.other \in Hits(Cell(a)) <=> Cell(a) \in {fault.cell, fault.other}
  BY <1>1
<1>6. QED
  BY <1>4, <1>5

\* A phase cannot have written the one cell, and not been at it.
SpoilNow(u, v) ==
    /\ Inverts(Cur) /\ Behind(u) /\ ~Behind(v) =>
         mem[fault.other] = Leaves(Cur, SeedNow, window, u)
    /\ Spared(Cur) /\ Crossed(Cur.skip, u, v) /\ Behind(u) => mem[fault.other] = Cur.seed
    /\ Cur.kind = "nth" /\ Cur.check /\ Crossed(Cur.off, u, v) => mem[fault.other] = Not(Cur.seed)

Coupled(u, v) == Cell(u) = fault.cell /\ Cell(v) = fault.other

LEMMA SpoilBy ==
    ASSUME SpoilInv, my_cpu = 0, fault.kind = "couple", pc \in {"words", "tick"},
           NEW u \in Start .. LastWord, NEW v \in Start .. LastWord, Coupled(u, v)
    PROVE  SpoilNow(u, v)
  BY DEF SpoilInv, SpoilNow, Coupled

LEMMA SpoilFrame ==
    ASSUME UNCHANGED <<fault, window, my_cpu>>, pc' \in {"words", "tick"},
           ASSUME NEW u \in Start .. LastWord, NEW v \in Start .. LastWord, Coupled(u, v),
                  my_cpu = 0, fault.kind = "couple"
           PROVE  SpoilNow(u, v)'
    PROVE  SpoilInv'
<1>1. Start' = Start /\ LastWord' = LastWord /\ \A v : Cell(v)' = Cell(v)
  BY DEF Start, LastWord, Base, Cell
<1>2. SUFFICES ASSUME my_cpu = 0, fault.kind = "couple",
                      NEW u \in Start .. LastWord, NEW v \in Start .. LastWord, Coupled(u, v)
               PROVE  SpoilNow(u, v)'
  BY <1>1 DEF SpoilInv, SpoilNow, Coupled
<1>3. QED
  BY <1>2

LEMMA FrameCrossed ==
    ASSUME UNCHANGED window
    PROVE  \A off, u, v : Crossed(off, u, v)' <=> Crossed(off, u, v)
<1>1. Start' = Start /\ LastWord' = LastWord
  BY DEF Start, LastWord, Base
<1>2. \A off : Strides(off)' = Strides(off)
  BY <1>1 DEF Strides
<1>3. QED
  BY <1>1, <1>2 DEF Crossed

LEMMA WordSpoils ==
    ASSUME CallInv, PointerInv, PatternInv, FaultInv, SpoilInv, my_cpu = 0, fault.kind = "couple", Word,
           NEW u \in Start .. LastWord, NEW v \in Start .. LastWord, Coupled(u, v)
    PROVE  SpoilNow(u, v)'
<1>1. /\ phase <= Len(phases) /\ pc = "words" /\ WorkInv /\ MemInv /\ PhasesInv
      /\ p' = NextWord /\ Cur.kind \in {"march", "nth"} /\ UNCHANGED <<fault, window, phases, phase>>
  BY DEF CallInv, PatternInv, Word, ToNextWord, callVars
<1>2. Cur' = Cur /\ SeedNow' = SeedNow /\ Start' = Start
  BY <1>1, Frame, FrameSeed
<1>3. GoodPhase(Cur) /\ Sown(Cur) /\ SeedNow \in Words /\ (~Cur.flip => SeedNow = Cur.seed)
  BY <1>1, CurLinked
<1>4. SpoilNow(u, v) /\ u # v
  <2>1. fault.cell # fault.other
    BY FaultFacts
  <2>2. QED
    BY <1>1, <2>1, SpoilBy DEF Coupled
<1>5. Start \in Nat /\ LastWord \in Nat /\ MODULO_N \in Nat \ {0, 1}
  BY RangeFacts
<1>6. ASSUME p \in Start .. LastWord
      PROVE  /\ p # u /\ p # v => mem'[fault.other] = mem[fault.other]
             /\ Cur.put = "none" \/ (p - Start) % MODULO_N = Cur.skip => mem' = mem
             /\ ~(Cur.put = "none" \/ (p - Start) % MODULO_N = Cur.skip) /\ p \in {u, v} =>
                  mem'[fault.other] = IF Cur.put = "same" THEN Expected ELSE Not(Expected)
  <2>1. Cur.put = "none" \/ (p - Start) % MODULO_N = Cur.skip => mem' = mem
    BY DEF Word
  <2>2. CASE ~(Cur.put = "none" \/ (p - Start) % MODULO_N = Cur.skip)
    <3> DEFINE x == IF Cur.put = "same" THEN Expected ELSE Not(Expected)
    <3>1. mem' = write_word(mem, p, x)
      BY <2>2 DEF Word
    <3> HIDE DEF x
    <3>2. mem'[fault.other] = IF Cell(p) \in {fault.cell, fault.other} THEN x ELSE mem[fault.other]
      BY <1>1, <3>1, SpoilWrite
    <3>3. Cell(p) = fault.cell => p = u
      BY <1>6, RangeCells DEF Coupled, CallInv
    <3>4. Cell(p) = fault.other => p = v
      BY <1>6, RangeCells DEF Coupled, CallInv
    <3>5. p \in {u, v} => mem'[fault.other] = x
      BY <3>2 DEF Coupled
    <3>6. p # u /\ p # v => mem'[fault.other] = mem[fault.other]
      BY <3>2, <3>3, <3>4
    <3>7. QED
      BY <2>1, <2>2, <3>5, <3>6 DEF x
  <2>3. QED
    BY <2>1, <2>2
<1>7. CASE Whole(Cur)
  <2>1. InBlock /\ Cur.step = 1 /\ Cur.up \in BOOLEAN /\ Cur.skip = MODULO_N
    BY <1>1, <1>3, <1>7 DEF PointerInv, Whole, GoodPhase
  <2>2. p \in Start .. LastWord
    BY <1>1, <1>5, <2>1 DEF InBlock
  <2>3. p' = IF Cur.up THEN p + 1 ELSE p - 1
    BY <1>1, <2>1 DEF NextWord
  <2>4. SUFFICES ASSUME Inverts(Cur), Behind(u)', ~Behind(v)'
                 PROVE  mem'[fault.other] = Leaves(Cur, SeedNow, window, u)
    BY <1>1, <1>2, <1>7 DEF SpoilNow, Whole, Spared
  <2>5. p # v /\ ~Behind(v)
    BY <1>2, <1>5, <2>1, <2>2, <2>3, <2>4 DEF Behind
  <2>6. p = u \/ Behind(u)
    BY <1>2, <1>5, <2>1, <2>2, <2>3, <2>4 DEF Behind
  <2>7. CASE p = u
    <3>1. (p - Start) % MODULO_N # Cur.skip
      <4>1. p - Start \in Nat
        BY <1>5, <2>2
      <4>2. PICK k \in Nat : k = p - Start
        BY <4>1
      <4>3. k % MODULO_N < MODULO_N
        BY <1>5
      <4>4. QED
        BY <1>5, <2>1, <4>2, <4>3
    <3>2. Cur.put = "inverse"
      BY <2>4 DEF Inverts
    <3>3. mem'[fault.other] = Not(Expected)
      BY <1>6, <2>2, <2>7, <3>1, <3>2
    <3>4. Expected = Want(Cur, SeedNow, window, p)
      BY <1>1, <1>7, <2>2, PatternGoesOn DEF WorkInv, WholeInv
    <3>5. QED
      BY <2>7, <3>2, <3>3, <3>4 DEF Leaves
  <2>8. CASE p # u
    <3>1. mem[fault.other] = Leaves(Cur, SeedNow, window, u)
      BY <1>4, <2>4, <2>5, <2>6, <2>8 DEF SpoilNow
    <3>2. QED
      BY <1>6, <2>2, <2>5, <2>8, <3>1
  <2>9. QED
    BY <2>7, <2>8
<1>8. CASE Spared(Cur)
  <2>1. InBlock /\ Cur.step = 1 /\ Cur.up
    BY <1>1, <1>3, <1>8 DEF PointerInv, Spared, GoodPhase, Sown
  <2>2. p \in Start .. LastWord
    BY <1>1, <1>5, <2>1 DEF InBlock
  <2>3. p' = p + 1
    BY <1>1, <2>1 DEF NextWord
  <2>4. SUFFICES ASSUME Crossed(Cur.skip, u, v), Behind(u)'
                 PROVE  mem'[fault.other] = Cur.seed
    BY <1>1, <1>2, <1>8, FrameCrossed DEF SpoilNow, Whole, Spared, Inverts
  <2>5. p = u \/ (p # u /\ Behind(u))
    BY <1>2, <1>5, <2>1, <2>2, <2>3, <2>4 DEF Behind
  <2>6. CASE p = u
    <3>1. (p - Start) % MODULO_N # Cur.skip
      BY <2>4, <2>6 DEF Crossed
    <3>2. Cur.put = "same" /\ Cur.turn = "none" /\ ~Cur.invert
      BY <1>3, <1>8 DEF Sown
    <3>3. Expected = Cur.seed
      BY <1>1, <1>8, <3>2, PlainWords DEF WorkInv, SparedInv
    <3>4. QED
      BY <1>6, <2>2, <2>6, <3>1, <3>2, <3>3
  <2>7. CASE p # u /\ Behind(u)
    <3>1. mem[fault.other] = Cur.seed
      BY <1>4, <1>8, <2>4, <2>7 DEF SpoilNow
    <3>2. CASE p = v
      <4>1. (p - Start) % MODULO_N = Cur.skip
        BY <2>4, <3>2 DEF Crossed, Strides
      <4>2. QED
        BY <1>6, <2>2, <3>1, <4>1
    <3>3. QED
      BY <1>6, <2>2, <2>7, <3>1, <3>2
  <2>8. QED
    BY <2>5, <2>6, <2>7
<1>9. CASE Cur.kind = "nth"
  <2>1. SUFFICES ASSUME Cur.check, Crossed(Cur.off, u, v)
                 PROVE  mem'[fault.other] = Not(Cur.seed)
    BY <1>1, <1>2, <1>9, FrameCrossed DEF SpoilNow, Whole, Spared, Inverts
  <2>2. Cur.put = "none"
    BY <1>3, <1>9, <2>1 DEF Sown
  <2>3. mem' = mem
    BY <2>2 DEF Word
  <2>4. QED
    BY <1>4, <1>9, <2>1, <2>3 DEF SpoilNow
<1>10. QED
  BY <1>1, <1>7, <1>8, <1>9 DEF Whole, Spared

LEMMA StepSpoils ==
    ASSUME CallInv, PointerInv, PatternInv, FaultInv, SpoilInv, WordStep
    PROVE  SpoilInv'
<1>1. UNCHANGED <<fault, window, my_cpu, phases, phase>> /\ pc = "words" /\ pc' \in {"words", "tick"}
  BY WordStepKeeps DEF WordStep, Word, ToNextWord, PairWord, BlockWords, MoveUp, MoveDown,
     Sleep, WalkFirst, WalkSecond
<1>2. CASE Word
  BY <1>1, <1>2, WordSpoils, SpoilFrame
<1>3. CASE WordStep /\ ~Word
  <2>1. Cur.kind \notin {"march", "nth"} /\ Cur' = Cur
    BY <1>1, <1>3, Frame DEF WordStep, PairWord, BlockWords, MoveUp, MoveDown, Sleep, WalkFirst, WalkSecond
  <2>2. \A u, v : SpoilNow(u, v)'
    BY <2>1 DEF SpoilNow, Inverts, Whole, Spared
  <2>3. QED
    BY <1>1, <2>2, SpoilFrame
<1>4. QED
  BY <1>2, <1>3

LEMMA StepFades ==
    ASSUME CallInv, PatternInv, FaultInv, FadeInv, WordStep
    PROVE  FadeInv'
<1>1. UNCHANGED <<fault, test, stage, window, my_cpu, phases, phase>> /\ pc = "words"
  BY WordStepKeeps DEF WordStep, Word, ToNextWord, PairWord, BlockWords, MoveUp, MoveDown,
     Sleep, WalkFirst, WalkSecond
<1>2. SUFFICES ASSUME my_cpu = 0, fault.kind = "fade", test = 10, stage \in {1, 2, 4, 5}
               PROVE  /\ Sleep => mem'[fault.cell] = fault.to
                      /\ ~Sleep => stage \in {2, 5} /\ mem' = mem
  BY <1>1 DEF FadeInv
<1>3. fault.cell \in DOMAIN mem
  BY <1>2, FaultFacts DEF PatternInv, MemInv
<1>4. Sleep => mem'[fault.cell] = fault.to
  BY <1>2, <1>3 DEF Sleep
<1>5. ASSUME ~Sleep PROVE stage \in {2, 5} /\ mem' = mem
  <2>1. phase = 1 /\ Cur = phases[1]
    <3>1. Len(phases) = 1 /\ phase \in Nat \ {0} /\ phase <= Len(phases)
      BY <1>1, <1>2, FadeNow DEF PatternInv, CallInv
    <3>2. QED
      BY <3>1 DEF Cur
  <2>2. Cur.kind # "sleep" => stage \in {2, 5}
    <3>1. stage \in {1, 4} => Cur = Delay(Iterations[10])
      BY <1>2, <2>1, FadeNow DEF PatternInv
    <3>2. Delay(Iterations[10]).kind = "sleep"
      BY DEF Delay, March
    <3>3. QED
      BY <1>2, <3>1, <3>2
  <2>3. Cur.kind # "sleep"
    BY <1>5 DEF WordStep, Word, PairWord, BlockWords, MoveUp, MoveDown, WalkFirst, WalkSecond
  <2>4. \A s : Check(s, "none").put = "none" /\ Check(s, "none").kind = "march"
    BY DEF Check, March
  <2>5. Cur.put = "none" /\ Cur.kind = "march"
    <3>1. stage = 2 => Cur = Check({}, "none")
      BY <1>2, <2>1, FadeNow DEF PatternInv
    <3>2. stage = 5 => Cur = Check(Bits, "none")
      BY <1>2, <2>1, FadeNow DEF PatternInv
    <3>3. QED
      BY <2>2, <2>3, <2>4, <3>1, <3>2
  <2>6. Word
    BY <1>5, <2>5 DEF WordStep, PairWord, BlockWords, MoveUp, MoveDown, WalkFirst, WalkSecond
  <2>7. mem' = mem
    BY <2>5, <2>6 DEF Word
  <2>8. QED
    BY <2>2, <2>3, <2>7
<1>6. QED
  BY <1>4, <1>5

-----------------------------------------------------------------------------
(***************************************************************************)
(* Between the words: a phase begins with nothing visited, and when it is  *)
(* over, everything that it checks was.                                    *)
(***************************************************************************)
LEMMA PhaseBegun ==
    ASSUME CallInv, my_cpu = 0, BeginPhase, NEW v \in Start .. LastWord
    PROVE  /\ Checks(Cur, v) => ~Visited(v)'
           /\ Whole(Cur) \/ Spared(Cur) => ~Behind(v)'
<1>1. /\ phase <= Len(phases) /\ Cur' = Cur /\ pc' = "words"
      /\ p' = IF Cur.kind = "walk" THEN 1 ELSE IF Cur.up THEN Start + Cur.off ELSE End
  BY Frame DEF BeginPhase, Enter, callVars
<1>2. GoodPhase(Cur)
  BY <1>1, CurGood
<1>3. Start \in Nat /\ LastWord \in Nat /\ MODULO_N \in Nat \ {0, 1}
  BY RangeFacts
<1>4. Whole(Cur) \/ Spared(Cur) => ~Behind(v)'
  <2> SUFFICES ASSUME Cur.kind = "march" PROVE ~Behind(v)'
    BY DEF Whole, Spared
  <2>1. Cur.off = 0 /\ End = LastWord /\ Cur.up \in BOOLEAN
    BY <1>2 DEF GoodPhase, End
  <2>2. p' = IF Cur.up THEN Start ELSE LastWord
    BY <1>1, <1>3, <2>1
  <2>3. QED
    BY <1>1, <1>3, <2>1, <2>2 DEF Behind
<1>5. CASE Whole(Cur)
  <2>1. Visited(v)' <=> Behind(v)'
    BY <1>1, <1>5 DEF Visited, Whole
  <2>2. QED
    BY <1>4, <1>5, <2>1
<1>6. CASE Cur.kind = "nth" /\ v \in Strides(Cur.off)
  <2>1. Cur.up /\ Cur.off \in 0 .. MODULO_N - 1 /\ (v - Start) % MODULO_N = Cur.off
    BY <1>2, <1>6 DEF GoodPhase, Strides
  <2>2. p' = Start + Cur.off
    BY <1>1, <1>6, <2>1
  <2>3. v >= Start + Cur.off
    <3>1. PICK k \in Nat : k = v - Start
      <4>1. v - Start \in Nat
        BY <1>3
      <4>2. QED
        BY <4>1
    <3>2. k % MODULO_N <= k
      BY <1>3
    <3>3. QED
      BY <1>3, <2>1, <3>1, <3>2
  <2>4. QED
    BY <1>1, <1>3, <1>4, <1>6, <2>1, <2>2, <2>3 DEF Visited, Whole, Spared
<1>7. QED
  BY <1>4, <1>5, <1>6 DEF Checks

LEMMA PhaseDone ==
    ASSUME CallInv, PointerInv, PatternInv, my_cpu = 0, pc = "tick", AtEnd, NEW v \in Start .. LastWord
    PROVE  /\ Checks(Cur, v) => Visited(v)
           /\ Whole(Cur) \/ Spared(Cur) => Behind(v)
<1>1. phase <= Len(phases) /\ WorkInv
  BY DEF CallInv, PatternInv
<1>2. GoodPhase(Cur)
  BY <1>1, CurGood
<1>3. Start \in Nat /\ LastWord \in Nat /\ MODULO_N \in Nat \ {0, 1}
  BY RangeFacts
<1>4. Whole(Cur) \/ Spared(Cur) => Behind(v)
  <2> SUFFICES ASSUME Cur.kind = "march" PROVE Behind(v)
    BY DEF Whole, Spared
  <2>1. InBlock /\ End = LastWord /\ Cur.up \in BOOLEAN
    BY <1>2 DEF PointerInv, GoodPhase, End
  <2>2. QED
    BY <1>3, <2>1 DEF InBlock, AtEnd, Behind
<1>5. CASE Whole(Cur)
  BY <1>4, <1>5 DEF Visited, Whole
<1>6. CASE Cur.kind = "nth" /\ v \in Strides(Cur.off)
  <2>1. /\ p \in Start .. LastWord /\ pe = End /\ End = LastWord - MODULO_N
        /\ p >= Start + Cur.off /\ (p - Start) % MODULO_N = Cur.off /\ p > pe - MODULO_N
        /\ Cur.off \in 0 .. MODULO_N - 1
    BY <1>1, <1>2, <1>6 DEF PointerInv, InRange, WorkInv, NthInv, GoodPhase, AtEnd, End
  <2>2. (v - Start) % MODULO_N = Cur.off /\ (v = Start + Cur.off \/ v + MODULO_N <= LastWord)
    BY <1>6 DEF Strides
  <2>3. p < v => p + MODULO_N <= v
    BY <2>1, <2>2, StrideApart
  <2>4. v <= p
    BY <1>3, <2>1, <2>2, <2>3
  <2>5. QED
    BY <1>3, <1>4, <1>6, <2>1, <2>4 DEF Visited, Whole, Spared
<1>7. QED
  BY <1>4, <1>5, <1>6 DEF Checks

\* A phase is over.
LEMMA EscapeNext ==
    ASSUME CallInv, EscapeInv, UNCHANGED <<fault, window, test, phases, my_cpu, errors>>,
           phase' = phase + 1, pc' = "call",
           ASSUME NEW v \in Start .. LastWord, my_cpu = 0, Cell(v) = Suspect, ~Reported(Suspect),
                  Checks(Cur, v)
           PROVE  Escaped(Cur, SeedNow, v)
    PROVE  EscapeInv'
<1>1. /\ Suspect' = Suspect /\ Start' = Start /\ LastWord' = LastWord
      /\ \A v : Cell(v)' = Cell(v)
      /\ \A ph, v : Checks(ph, v)' <=> Checks(ph, v)
      /\ \A ph, s, v : Escaped(ph, s, v)' <=> Escaped(ph, s, v)
  BY FrameEscape
<1>2. phase \in Nat \ {0}
  BY DEF CallInv
<1>3. Reported(Suspect)' <=> Reported(Suspect)
  BY <1>1 DEF Reported
<1>4. SUFFICES ASSUME my_cpu = 0, ~Reported(Suspect), NEW v \in Start .. LastWord, Cell(v) = Suspect,
                      NEW j \in 1 .. phase, Checks(phases[j], v)
               PROVE  Escaped(phases[j], SeedOf(phases, j), v)
  BY <1>1, <1>2, <1>3 DEF EscapeInv
<1>5. CASE j = phase
  BY <1>4, <1>5 DEF Cur, SeedNow
<1>6. CASE j \in 1 .. phase - 1
  BY <1>4, <1>6 DEF EscapeInv
<1>7. QED
  BY <1>2, <1>5, <1>6

LEMMA RestEscapes ==
    ASSUME CallInv, PointerInv, PatternInv, EscapeInv, [Next]_vars, ~WordStep
    PROVE  EscapeInv'
<1>1. CASE BeginPhase
  <2>1. UNCHANGED <<fault, window, test, phases, phase, my_cpu, errors>>
    BY <1>1 DEF BeginPhase, callVars
  <2>2. \A v \in Start .. LastWord : my_cpu = 0 /\ Checks(Cur, v) => ~Visited(v)'
    BY <1>1, PhaseBegun
  <2>3. QED
    BY <2>1, <2>2, EscapeFrame
<1>2. CASE SkipSleep
  <2>1. UNCHANGED <<fault, window, test, phases, my_cpu, errors>> /\ phase' = phase + 1 /\ pc' = "call"
        /\ Cur.kind = "sleep"
    BY <1>2 DEF SkipSleep, callVars, Slept
  <2>2. \A v : ~Checks(Cur, v)
    BY <2>1 DEF Checks, Whole
  <2>3. QED
    BY <2>1, <2>2, EscapeNext
<1>3. CASE EndBlock
  <2>1. UNCHANGED <<fault, window, test, phases, my_cpu, errors, p>> /\ pc = "tick"
    BY <1>3 DEF EndBlock, callVars
  <2>2. \/ phase' = phase
        \/ phase' = phase + 1 /\ pc' = "call" /\ AtEnd
    BY <1>3 DEF EndBlock, Enter
  <2>3. CASE phase' = phase
    <3>1. Cur' = Cur
      BY <2>1, <2>3, Frame
    <3>2. \A v : Visited(v)' => Visited(v)
      <4>1. \A v : Behind(v)' <=> Behind(v)
        BY <2>1, <3>1 DEF Behind
      <4>2. QED
        BY <2>1, <3>1, <4>1 DEF Visited
    <3>3. QED
      BY <2>1, <2>3, <3>2, EscapeFrame
  <2>4. CASE phase' = phase + 1 /\ pc' = "call" /\ AtEnd
    <3>1. ASSUME NEW v \in Start .. LastWord, my_cpu = 0, Cell(v) = Suspect, ~Reported(Suspect),
                 Checks(Cur, v)
          PROVE  Escaped(Cur, SeedNow, v)
      <4>1. Visited(v)
        BY <2>1, <2>4, <3>1, PhaseDone
      <4>2. QED
        BY <2>1, <3>1, <4>1 DEF EscapeInv
    <3>2. QED
      BY <2>1, <2>4, <3>1, EscapeNext
  <2>5. QED
    BY <2>2, <2>3, <2>4
<1>4. CASE EndCall
  <2>1. phase' = 1 /\ pc' \in {"call", "done"}
    BY <1>4 DEF EndCall
  <2>2. QED
    BY <2>1 DEF EscapeInv
<1>5. CASE UNCHANGED vars
  <2>1. UNCHANGED <<fault, window, test, phases, phase, my_cpu, errors, pc, p>>
    BY <1>5 DEF vars, callVars, blockVars
  <2>2. Cur' = Cur
    BY <2>1, Frame
  <2>3. \A v : Visited(v)' <=> Visited(v)
    <3>1. \A v : Behind(v)' <=> Behind(v)
      BY <2>1, <2>2 DEF Behind
    <3>2. QED
      BY <2>1, <2>2, <3>1 DEF Visited
  <2>4. QED
    BY <2>1, <2>3, EscapeFrame
<1>6. QED
  BY <1>1, <1>2, <1>3, <1>4, <1>5 DEF Next, Run, Over, WordStep

LEMMA RestSpoils ==
    ASSUME CallInv, PointerInv, PatternInv, SpoilInv, [Next]_vars, ~WordStep
    PROVE  SpoilInv'
<1> SUFFICES ASSUME my_cpu' = 0, fault'.kind = "couple" PROVE SpoilInv'
  BY DEF SpoilInv
<1>1. CASE BeginPhase
  <2>1. /\ UNCHANGED <<fault, window, test, phases, phase, my_cpu, mem>> /\ my_cpu = 0
        /\ pc = "call" /\ pc' = "words" /\ phase <= Len(phases) /\ PhasesInv
    BY <1>1 DEF BeginPhase, callVars, Enter, PatternInv
  <2>2. Cur' = Cur
    BY <2>1, Frame
  <2>3. ASSUME NEW u \in Start .. LastWord, NEW v \in Start .. LastWord, Coupled(u, v)
        PROVE  SpoilNow(u, v)'
    <3>1. Whole(Cur) \/ Spared(Cur) => ~Behind(u)'
      BY <1>1, <2>1, PhaseBegun
    <3>2. ASSUME Cur.kind = "nth", Cur.check, Crossed(Cur.off, u, v)
          PROVE  mem[fault.other] = Not(Cur.seed)
      <4> DEFINE last == phases[phase - 1]
      <4>1. phase > 1
        <5>1. phase = 1 => FirstPhase(test, stage, Cur)
          BY <2>1, CurLinked
        <5>2. \A s, turn : Check(s, turn).kind = "march"
          BY DEF Check, March
        <5>3. ~FirstPhase(test, stage, Cur)
          BY <3>2, <5>2 DEF FirstPhase, Opens, Stays
        <5>4. phase \in Nat \ {0}
          BY DEF CallInv
        <5>5. QED
          BY <5>1, <5>3, <5>4
      <4>2. Spared(last) /\ last.skip = Cur.off /\ Cur.seed = Not(last.seed)
        BY <2>1, <3>2, <4>1, CurLinked DEF Fits
      <4>3. mem[fault.other] = last.seed
        BY <2>1, <2>3, <3>2, <4>1, <4>2 DEF SpoilInv, Coupled
      <4>4. last.seed \in Words
        <5>1. Linked(phases) /\ phase - 1 \in 1 .. Len(phases)
          BY <2>1, <4>1, ListLinked DEF CallInv
        <5>2. QED
          BY <5>1 DEF Linked, Sown
      <4>5. QED
        BY <4>2, <4>3, <4>4, NotNot
    <3>3. QED
      BY <2>1, <2>2, <3>1, <3>2, FrameCrossed DEF SpoilNow, Inverts
  <2>4. QED
    BY <2>1, <2>3, SpoilFrame
<1>2. CASE SkipSleep
  <2>1. UNCHANGED phases /\ phase' = phase + 1 /\ pc' = "call" /\ Cur.kind = "sleep" /\ phase \in Nat
    BY <1>2 DEF SkipSleep, callVars, Slept, CallInv
  <2>2. phases'[phase' - 1].kind = "sleep"
    BY <2>1 DEF Cur
  <2>3. QED
    BY <2>1, <2>2 DEF SpoilInv, Spared
<1>3. CASE EndBlock
  <2>1. UNCHANGED <<fault, window, test, phases, my_cpu, mem, p>> /\ pc = "tick" /\ my_cpu = 0
    BY <1>3 DEF EndBlock, callVars
  <2>2. \/ phase' = phase
        \/ phase' = phase + 1 /\ pc' = "call" /\ AtEnd
    BY <1>3 DEF EndBlock, Enter
  <2>3. CASE phase' = phase
    <3>1. Cur' = Cur /\ SeedNow' = SeedNow /\ \A v : Behind(v)' <=> Behind(v)
      <4>1. Cur' = Cur
        BY <2>1, <2>3, Frame
      <4>2. QED
        BY <2>1, <2>3, <4>1, FrameSeed DEF Behind
    <3>2. \A u, v \in Start .. LastWord : Coupled(u, v) => SpoilNow(u, v)
      BY <2>1, SpoilBy
    <3>3. \A u, v : SpoilNow(u, v)' <=> SpoilNow(u, v)
      BY <2>1, <3>1, FrameCrossed DEF SpoilNow
    <3>4. pc' \in {"words", "tick", "bailed"}
      BY <1>3, <2>3 DEF EndBlock, Enter, CallInv
    <3>5. CASE pc' \in {"words", "tick"}
      BY <2>1, <3>2, <3>3, <3>5, SpoilFrame
    <3>6. CASE pc' = "bailed"
      BY <3>6 DEF SpoilInv
    <3>7. QED
      BY <3>4, <3>5, <3>6
  <2>4. CASE phase' = phase + 1 /\ pc' = "call" /\ AtEnd
    <3>1. Start' = Start /\ LastWord' = LastWord /\ \A v : Cell(v)' = Cell(v)
      BY <2>1 DEF Start, LastWord, Base, Cell
    <3>2. phases'[phase' - 1] = Cur
      BY <2>1, <2>4 DEF Cur, CallInv
    <3>3. SUFFICES ASSUME NEW u \in Start .. LastWord, NEW v \in Start .. LastWord, Coupled(u, v),
                          Spared(Cur), Crossed(Cur.skip, u, v)
                   PROVE  mem[fault.other] = Cur.seed
      BY <2>1, <2>4, <3>1, <3>2, FrameCrossed DEF SpoilInv, Coupled
    <3>4. Behind(u)
      BY <2>1, <2>4, <3>3, PhaseDone
    <3>5. SpoilNow(u, v)
      BY <2>1, <3>3, SpoilBy
    <3>6. QED
      BY <3>3, <3>4, <3>5 DEF SpoilNow
  <2>5. QED
    BY <2>2, <2>3, <2>4
<1>4. CASE EndCall
  <2>1. phase' = 1 /\ pc' \in {"call", "done"}
    BY <1>4 DEF EndCall
  <2>2. QED
    BY <2>1 DEF SpoilInv
<1>5. CASE UNCHANGED vars
  <2>1. UNCHANGED <<fault, window, phases, phase, my_cpu, mem, pc, p>>
    BY <1>5 DEF vars, callVars, blockVars
  <2>2. /\ Cur' = Cur /\ SeedNow' = SeedNow /\ (\A v : Behind(v)' <=> Behind(v))
        /\ Start' = Start /\ LastWord' = LastWord /\ (\A v : Cell(v)' = Cell(v))
    <3>1. Cur' = Cur /\ Start' = Start /\ LastWord' = LastWord /\ \A v : Cell(v)' = Cell(v)
      BY <2>1, Frame DEF Base, Cell
    <3>2. QED
      BY <2>1, <3>1, FrameSeed DEF Behind
  <2>3. QED
    BY <2>1, <2>2, FrameCrossed DEF SpoilInv
<1>6. QED
  BY <1>1, <1>2, <1>3, <1>4, <1>5 DEF Next, Run, Over, WordStep

LEMMA RestFades ==
    ASSUME CallInv, SleepInv, PatternInv, FadeInv, [Next]_vars, ~WordStep
    PROVE  FadeInv'
<1>1. CASE BeginPhase
  <2>1. UNCHANGED <<fault, test, stage, window, phase, my_cpu, mem>> /\ (my_cpu = 0 => pc' = "words")
    BY <1>1 DEF BeginPhase, callVars, Enter
  <2>2. QED
    BY <2>1 DEF FadeInv
<1>2. CASE SkipSleep
  <2>1. UNCHANGED <<fault, test, stage, window, my_cpu, mem>> /\ stage = last_stage
    BY <1>2 DEF SkipSleep, callVars, Slept
  <2>2. test = 10 => window > 1
    BY <2>1 DEF SleepInv
  <2>3. QED
    BY <2>1, <2>2 DEF FadeInv
<1>3. CASE EndBlock
  <2>1. UNCHANGED <<fault, test, stage, window, my_cpu, mem>> /\ pc = "tick"
    BY <1>3 DEF EndBlock, callVars
  <2>2. QED
    BY <2>1 DEF FadeInv
<1>4. CASE EndCall
  <2>1. UNCHANGED <<fault, test, mem>> /\ phase' = 1 /\ pc' \in {"call", "done"}
    BY <1>4 DEF EndCall
  <2> SUFFICES ASSUME my_cpu' = 0, fault.kind = "fade", test = 10,
                      stage' \in {2, 5} \/ (stage' \in {1, 4} /\ window' > 1)
               PROVE  mem[fault.cell] = fault.to
    BY <2>1 DEF FadeInv
  <2>2. phase > 1 /\ stage \in 0 .. 5 /\ window \in Nat
    <3>1. Len(phases) = 1 /\ stage \in 0 .. 5
      BY FadeNow DEF PatternInv
    <3>2. phase \in Nat /\ phase > Len(phases) /\ window \in Nat
      BY <1>4 DEF EndCall, CallInv, Windows
    <3>3. QED
      BY <3>1, <3>2
  <2>3. \/ window' = window + 1 /\ stage' = stage /\ my_cpu' = my_cpu
        \/ window' = 1 /\ stage' = stage + 1 /\ my_cpu' = my_cpu
        \/ window' = 1 /\ stage' = 0
    BY <1>4, EndCallMoves
  <2>4. my_cpu = 0 /\ stage \in {1, 2, 4, 5}
    BY <2>2, <2>3
  <2>5. QED
    BY <2>2, <2>4 DEF FadeInv
<1>5. CASE UNCHANGED vars
  BY <1>5 DEF vars, callVars, FadeInv
<1>6. QED
  BY <1>1, <1>2, <1>3, <1>4, <1>5 DEF Next, Run, Over, WordStep

-----------------------------------------------------------------------------
(***************************************************************************)
(* The end of a call.  No fault escapes from two phases that want to read  *)
(* a value and its complement at the same word; and the victim of a        *)
(* coupling is behind the other cell on the way up or on the way down.     *)
(***************************************************************************)
LEMMA RemainderOf ==
    ASSUME NEW n \in Nat \ {0}, NEW k \in Int
    PROVE  (k * n) % n = 0
<1> DEFINE a == k * n
           j == a \div n
           r == a % n
<1>1. a \in Int
  OBVIOUS
<1>2. a = n * j + r /\ j \in Int /\ r \in 0 .. n - 1
  BY <1>1
<1>3. a = n * k
  OBVIOUS
<1> HIDE DEF a, j, r
<1>4. CASE j = k
  BY <1>2, <1>3, <1>4 DEF a, r
<1>5. CASE j < k
  <2>1. PICK d \in Nat : k = j + 1 + d
    <3>1. k - j - 1 \in Nat /\ k = j + 1 + (k - j - 1)
      BY <1>2, <1>5
    <3>2. QED
      BY <3>1
  <2>2. n * k = n * j + n + n * d /\ n * d \in Nat /\ n * j \in Int
    BY <1>2, <2>1
  <2>3. QED
    BY <1>2, <1>3, <2>2
<1>6. CASE j > k
  <2>1. PICK d \in Nat : j = k + 1 + d
    <3>1. j - k - 1 \in Nat /\ j = k + 1 + (j - k - 1)
      BY <1>2, <1>6
    <3>2. QED
      BY <3>1
  <2>2. n * j = n * k + n + n * d /\ n * d \in Nat /\ n * k \in Int
    BY <1>2, <2>1
  <2>3. QED
    BY <1>2, <1>3, <2>2
<1>7. QED
  BY <1>2, <1>4, <1>5, <1>6

LEMMA SameRemainder ==
    ASSUME NEW n \in Nat \ {0}, NEW a \in Nat, NEW b \in Nat, a % n = b % n
    PROVE  (a - b) % n = 0
<1> DEFINE i == a \div n
           j == b \div n
           r == a % n
<1>1. a = i * n + r /\ b = j * n + r /\ i \in Nat /\ j \in Nat /\ r \in Nat
  OBVIOUS
<1> HIDE DEF i, j, r
<1>2. a - b = (i - j) * n /\ i - j \in Int
  <2>1. (i - j) * n = i * n - j * n /\ i * n \in Nat /\ j * n \in Nat
    BY <1>1
  <2>2. QED
    BY <1>1, <2>1
<1>3. ((i - j) * n) % n = 0
  BY <1>2, RemainderOf
<1>4. QED
  BY <1>2, <1>3

\* A single bit stays one as it is turned.
LEMMA LoneOrbit ==
    ASSUME NEW s \in Words, Lone(s), NEW k \in Nat
    PROVE  Lone(Orbit(RotL, s)[k])
<1> DEFINE o == Orbit(RotL, s)
           bad == {j \in Nat : ~Lone(o[j])}
<1>1. o[0] = s /\ \A j \in Nat : o[j] \in Words /\ o[j + 1] = RotateLeft(o[j])
  BY Orbits
<1>2. \A w : Lone(w) => Lone(RotateLeft(w))
  <2> SUFFICES ASSUME NEW i \in Bits PROVE Lone(RotateLeft({i}))
    BY DEF Lone
  <2>1. (i + 1) % TESTWORD_WIDTH \in Bits
    BY MemTestsAssumption DEF Bits
  <2>2. RotateLeft({i}) = {(i + 1) % TESTWORD_WIDTH}
    BY DEF RotateLeft
  <2>3. QED
    BY <2>1, <2>2 DEF Lone
<1> HIDE DEF o
<1>3. SUFFICES ASSUME bad # {} PROVE FALSE
  BY DEF o
<1>4. PICK m \in bad : \A j \in bad : m <= j
  <2> bad \subseteq Nat
    OBVIOUS
  <2> HIDE DEF bad
  <2> QED
    BY <1>3, LeastNat
<1>5. m \in Nat /\ ~Lone(o[m])
  OBVIOUS
<1>6. m # 0
  BY <1>1, <1>5
<1>7. m - 1 \in Nat /\ m - 1 \notin bad
  BY <1>4, <1>5, <1>6
<1>8. o[m] = RotateLeft(o[m - 1])
  <2>1. (m - 1) + 1 = m
    BY <1>5
  <2>2. QED
    BY <1>1, <1>7, <2>1
<1>9. QED
  BY <1>2, <1>5, <1>7, <1>8

LEMMA LoneApart ==
    ASSUME NEW x, NEW y, Lone(x), Lone(y)
    PROVE  x # Not(y)
<1>1. PICK a, b : a \in Bits /\ b \in Bits /\ x = {a} /\ y = {b}
  BY DEF Lone
<1>2. PICK c : c \in Bits /\ c # a /\ c # b
  <2>1. 0 \in Bits /\ 1 \in Bits /\ 2 \in Bits
    BY MemTestsAssumption DEF Bits
  <2>2. QED
    BY <2>1
<1>3. QED
  BY <1>1, <1>2 DEF Not

\* What the phases of a call that is over have let escape.
LEMMA AllEscaped ==
    ASSUME CallInv, PhasesInv, EscapeInv, my_cpu = 0, pc = "call", phase > Len(phases),
           ~Reported(Suspect), NEW v \in Start .. LastWord, Cell(v) = Suspect,
           NEW j \in 1 .. Len(phases), Checks(phases[j], v)
    PROVE  Escaped(phases[j], SeedOf(phases, j), v)
<1>1. Len(phases) \in Nat
  BY ListOf DEF CallInv
<1>2. j \in 1 .. phase - 1
  BY <1>1 DEF PhasesInv
<1>3. QED
  BY <1>2 DEF EscapeInv

\* Two phases, one after the other, both of which check every word.
LEMMA InvertedPair ==
    ASSUME CallInv, PhasesInv, EscapeInv, my_cpu = 0, pc = "call", phase > Len(phases),
           ~Reported(Suspect), NEW v \in Start .. LastWord, Cell(v) = Suspect,
           NEW x, NEW y, Within(<<x, y>>, phases), Inverts(x), Inverts(y)
    PROVE  \E s \in Words, u \in Words :
              /\ Sown(x) /\ Sown(y) /\ x.up \in BOOLEAN /\ y.up \in BOOLEAN
              /\ Escaped(x, s, v) /\ Escaped(y, u, v)
              /\ Want(x, s, window, v) \in Words
              /\ Want(y, u, window, v) = Not(Want(x, s, window, v))
              /\ ~x.flip => s = x.seed
              /\ u = IF y.flip THEN x.seed ELSE y.seed
<1>1. Linked(phases)
  BY ListLinked
<1>2. PICK k \in Nat : /\ k + 1 \in 1 .. Len(phases) /\ k + 2 \in 1 .. Len(phases)
                       /\ phases[k + 1] = x /\ phases[k + 2] = y
  BY PairListed DEF CallInv
<1> DEFINE s == SeedOf(phases, k + 1)
           u == SeedOf(phases, k + 2)
<1>3. /\ Escaped(phases[k + 1], s, v) /\ Escaped(phases[k + 2], u, v)
  <2>1. Checks(phases[k + 1], v) /\ Checks(phases[k + 2], v)
    BY <1>2 DEF Checks, Inverts
  <2>2. QED
    BY <1>2, <2>1, AllEscaped
<1>4. Sown(x) /\ Sown(y) /\ GoodPhase(x) /\ GoodPhase(y)
  BY <1>1, <1>2, ListOf DEF Linked
<1>5. Fits(x, s, y, u)
  <2>1. k + 2 \in 2 .. Len(phases) /\ (k + 2) - 1 = k + 1
    BY <1>2
  <2>2. QED
    BY <1>1, <1>2, <2>1 DEF Linked
<1>6. s \in Words /\ (~x.flip => s = x.seed)
  <2>1. k + 1 = 1 => ~x.flip
    BY <1>1, <1>2 DEF Linked
  <2>2. x.flip => s = phases[k].seed
    <3>1. (k + 1) - 1 = k
      OBVIOUS
    <3>2. QED
      BY <1>2, <3>1 DEF SeedOf
  <2>3. k + 1 # 1 => phases[k].seed \in Words
    <3>1. k + 1 # 1 => k \in 1 .. Len(phases)
      BY <1>2
    <3>2. QED
      BY <1>1, <3>1 DEF Linked, Sown
  <2>4. ~x.flip => s = x.seed
    BY <1>2 DEF SeedOf
  <2>5. QED
    BY <1>4, <2>1, <2>2, <2>3, <2>4 DEF Sown
<1>7. u = (IF y.flip THEN x.seed ELSE y.seed) /\ u \in Words
  <2>1. (k + 2) - 1 = k + 1
    BY <1>2
  <2>2. u = IF y.flip THEN x.seed ELSE y.seed
    BY <1>2, <2>1 DEF SeedOf
  <2>3. QED
    BY <1>4, <2>2 DEF Sown
<1> HIDE DEF s, u
<1>8. /\ window \in Windows /\ v \in FirstWord(window) .. FinalWord(window)
  BY RangeFacts
<1>9. Want(x, s, window, v) \in Words
  BY <1>4, <1>6, <1>8, WantWord
<1>10. Want(y, u, window, v) = Not(Want(x, s, window, v))
  <2>1. Leaves(x, s, window, v) = Want(y, u, window, v)
    BY <1>5, <1>8 DEF Fits, Inverts
  <2>2. QED
    BY <2>1 DEF Leaves, Inverts
<1>11. x.up \in BOOLEAN /\ y.up \in BOOLEAN
  BY <1>4 DEF GoodPhase
<1>12. QED
  BY <1>2, <1>3, <1>4, <1>6, <1>7, <1>9, <1>10, <1>11

LEMMA StuckNotMissed ==
    ASSUME CallInv, PhasesInv, EscapeInv, FaultInv, my_cpu = 0, pc = "call", phase > Len(phases),
           ~Reported(Suspect), NEW v \in Start .. LastWord, Cell(v) = Suspect,
           fault.kind = "stuck", Opposed(phases)
    PROVE  FALSE
<1>1. PICK x, y : Within(<<x, y>>, phases) /\ Inverts(x) /\ Inverts(y)
  BY DEF Opposed
<1>2. PICK s \in Words, u \in Words :
        /\ Escaped(x, s, v) /\ Escaped(y, u, v)
        /\ Want(x, s, window, v) \in Words
        /\ Want(y, u, window, v) = Not(Want(x, s, window, v))
  BY <1>1, InvertedPair
<1>3. Agrees(Want(x, s, window, v)) /\ Agrees(Not(Want(x, s, window, v)))
  BY <1>2 DEF Escaped
<1>4. QED
  BY <1>2, <1>3, AgreesOnce

LEMMA CouplingNotMissed ==
    ASSUME CallInv, PhasesInv, EscapeInv, FaultInv, my_cpu = 0, pc = "call", phase > Len(phases),
           ~Reported(Suspect), NEW v \in Start .. LastWord, Cell(v) = Suspect,
           NEW a \in Start .. LastWord, Cell(a) = fault.cell,
           fault.kind = "couple", BothWays(phases)
    PROVE  FALSE
<1>1. PICK x, y : /\ Within(<<x, y>>, phases)
                  /\ Inverts(x) /\ x.up /\ ~x.invert /\ ~x.flip
                  /\ Inverts(y) /\ ~y.up /\ ~y.invert
                  /\ \/ x.turn = "none" /\ y.turn = "none"
                     \/ x.turn = "left" /\ y.turn = "right" /\ Lone(x.seed)
  BY DEF BothWays
<1>2. PICK s \in Words, u \in Words :
        /\ Sown(x) /\ Sown(y)
        /\ Escaped(x, s, v) /\ Escaped(y, u, v)
        /\ s = x.seed
        /\ u = IF y.flip THEN x.seed ELSE y.seed
  BY <1>1, InvertedPair
<1>3. Suspect = fault.other /\ v # a
  <2>1. fault.cell # fault.other
    BY FaultFacts
  <2>2. QED
    BY <2>1 DEF Suspect
<1>4. /\ window \in Windows /\ Start = FirstWord(window) /\ Start \in Nat /\ LastWord \in Nat
      /\ v - FirstWord(window) \in Nat /\ a - FirstWord(window) \in Nat
  BY RangeFacts
<1>5. /\ Want(x, s, window, v) # Not(Want(x, s, window, a))
      /\ Want(y, u, window, v) # Not(Want(y, u, window, a))
  <2>1. CASE x.turn = "none" /\ y.turn = "none"
    <3>1. /\ Want(x, s, window, v) = s /\ Want(x, s, window, a) = s
          /\ Want(y, u, window, v) = u /\ Want(y, u, window, a) = u
      BY <1>1, <2>1, PlainBy DEF Want
    <3>2. QED
      BY <3>1, NotItself
  <2>2. CASE x.turn = "left" /\ y.turn = "right" /\ Lone(x.seed)
    <3> DEFINE o == Orbit(RotL, s)
               i == v - FirstWord(window)
               j == a - FirstWord(window)
    <3>1. u = s
      BY <1>2, <2>2 DEF Sown
    <3>2. Lone(o[i]) /\ Lone(o[j]) /\ o[i] \in Words /\ o[j] \in Words
      BY <1>2, <1>4, <2>2, LoneOrbit, Orbits
    <3>3. /\ Want(x, s, window, v) = o[i] /\ Want(x, s, window, a) = o[j]
          /\ Want(y, s, window, v) = Not(o[i]) /\ Want(y, s, window, a) = Not(o[j])
      BY <1>1, <2>2, PlainBy DEF Want
    <3> HIDE DEF o, i, j
    <3>4. o[i] # Not(o[j]) /\ o[j] # Not(o[i])
      BY <3>2, LoneApart
    <3>5. Not(Not(o[j])) = o[j]
      BY <3>2, NotNot
    <3>6. QED
      BY <3>1, <3>3, <3>4, <3>5
  <2>3. QED
    BY <1>1, <2>1, <2>2
<1>6. /\ Leaves(x, s, window, a) = Not(Want(x, s, window, a))
      /\ Leaves(y, u, window, a) = Not(Want(y, u, window, a))
  BY <1>1 DEF Leaves, Inverts
<1>7. ~Caught(x, s, v) /\ ~Caught(y, u, v)
  BY <1>2 DEF Escaped
<1>8. CASE a < v
  BY <1>1, <1>5, <1>6, <1>7, <1>8 DEF Caught
<1>9. CASE v < a
  BY <1>1, <1>5, <1>6, <1>7, <1>9 DEF Caught
<1>10. QED
  BY <1>3, <1>4, <1>8, <1>9

\* A stride is checked for a pattern.
LEMMA StrideEscapes ==
    ASSUME CallInv, PhasesInv, EscapeInv, my_cpu = 0, pc = "call", phase > Len(phases),
           ~Reported(Suspect), NEW v \in Start .. LastWord, Cell(v) = Suspect,
           NEW off, v \in Strides(off), NEW seed, StrideChecked(phases, off, seed)
    PROVE  \E y : /\ y.kind = "nth" /\ y.off = off
                  /\ Escaped(y, seed, v) /\ Want(y, seed, window, v) = seed
<1>1. PICK x, y : /\ Within(<<x, y>>, phases)
                  /\ y.kind = "nth" /\ y.check /\ y.off = off /\ y.seed = seed
  BY DEF StrideChecked
<1>2. PICK j \in 1 .. Len(phases) : phases[j] = y
  <2>1. Listed(phases)
    BY DEF CallInv
  <2>2. QED
    BY <1>1, <2>1, PairListed
<1>3. Sown(y)
  BY <1>2, ListLinked DEF Linked
<1>4. y.turn = "none" /\ ~y.invert /\ ~y.flip
  BY <1>1, <1>3 DEF Sown
<1>5. SeedOf(phases, j) = seed
  BY <1>1, <1>2, <1>4 DEF SeedOf
<1>6. Checks(phases[j], v)
  BY <1>1, <1>2 DEF Checks
<1>7. Escaped(y, seed, v)
  BY <1>2, <1>5, <1>6, AllEscaped
<1>8. Want(y, seed, window, v) = seed
  BY <1>4, PlainBy DEF Want
<1>9. QED
  BY <1>1, <1>7, <1>8

-----------------------------------------------------------------------------
(***************************************************************************)
(* The faults that a test is to find, and where they can still be hidden:  *)
(* in the windows that have not been tested, and in test 10 in those of    *)
(* which only the zeros have been checked, if they are not lost.           *)
(***************************************************************************)
Sought ==
    \/ fault.kind = "stuck" /\ FindsStuck(fault.cell)
    \/ fault.kind = "fade" /\ test = 10
    \/ fault.kind = "couple" /\ FindsCoupling(fault.cell, fault.other)

Yields(x) == (fault.kind = "stuck" => Agrees(x)) /\ (fault.kind = "fade" => fault.to = x)

Hidden(w) ==
    IF test = 10
      THEN /\ stage > 2 \/ (stage = 2 /\ w < window) => Yields({})
           /\ stage = 5 /\ w < window => Yields(Bits)
      ELSE window <= w

FoundInv ==
    /\ pc = "done" => my_cpu = 0
    /\ my_cpu = 0 /\ Sought /\ ~Reported(Suspect) =>
         /\ pc # "done"
         /\ \A w \in Windows : Suspect \in SegmentCells(w) => Hidden(w)

LEMMA SuspectSomewhere ==
    ASSUME FaultInv, Sought
    PROVE  \E w \in Windows : Suspect \in SegmentCells(w)
<1>1. Suspect \in Cells
  BY FaultFacts DEF Sought, Suspect
<1>2. QED
  BY <1>1 DEF Cells

\* A test other than bit fade does not leave the fault's window without it.
LEMMA WindowFinds ==
    ASSUME CallInv, PhasesInv, EscapeInv, FaultInv, my_cpu = 0, pc = "call", phase > Len(phases),
           Sought, test # 10, Suspect \in SegmentCells(window)
    PROVE  Reported(Suspect)
<1> SUFFICES ASSUME ~Reported(Suspect) PROVE FALSE
  OBVIOUS
<1>1. PICK r \in Readings(test) : phases = Phases(test, stage, r)
  BY DEF PhasesInv
<1>2. PICK v \in Start .. LastWord : Cell(v) = Suspect
  BY RangeOnto
<1>3. window \in Windows /\ test \in Tests
  BY DEF CallInv
<1>4. \A w \in Windows : Suspect \in SegmentCells(w) => w = window
  BY <1>3, SegmentsApart
<1>5. CASE test \in {3, 4, 5, 6, 8}
  <2>1. CASE fault.kind = "stuck"
    <3>1. BothWays(phases) \/ Opposed(phases)
      BY <1>1, <1>3, <1>5, InversionsFound DEF Swept
    <3>2. Opposed(phases)
      BY <3>1 DEF BothWays, Opposed
    <3>3. QED
      BY <1>2, <2>1, <3>2, StuckNotMissed
  <2>2. CASE fault.kind = "couple"
    <3>1. SameWindow(fault.cell, fault.other) /\ test \in {3, 4, 5, 6}
      BY <1>5, <2>2 DEF Sought, FindsCoupling
    <3>2. fault.cell \in SegmentCells(window)
      BY <1>4, <2>2, <3>1 DEF SameWindow, Suspect
    <3>3. PICK a \in Start .. LastWord : Cell(a) = fault.cell
      BY <3>2, RangeOnto
    <3>4. BothWays(phases)
      BY <1>1, <1>3, <3>1, InversionsFound DEF Swept
    <3>5. QED
      BY <1>2, <2>2, <3>3, <3>4, CouplingNotMissed
  <2>3. QED
    BY <2>1, <2>2 DEF Sought
<1>6. CASE test = 9
  <2> DEFINE off == (v - Start) % MODULO_N
  <2>1. Start \in Nat /\ LastWord \in Nat /\ MODULO_N \in Nat \ {0, 1}
    BY RangeFacts
  <2>2. PICK k \in Nat : /\ SegmentCells(window) = k .. k + (LastWord - Start)
                         /\ \A i \in Start .. LastWord : Cell(i) = i - Start + k
    BY RangeSpan
  <2>3. off \in 0 .. MODULO_N - 1
    <3>1. v - Start \in Nat
      BY <2>1
    <3> DEFINE b == v - Start
    <3> HIDE DEF b
    <3>2. b \in Nat => b % MODULO_N \in 0 .. MODULO_N - 1
      BY <2>1
    <3>3. QED
      BY <3>1, <3>2 DEF b
  <2>4. InStrides(Suspect)
    BY <1>6 DEF Sought, FindsStuck, FindsCoupling, Suspect
  <2>5. Suspect + MODULO_N \in SegmentCells(window)
    BY <1>4, <2>4 DEF InStrides
  <2>6. v + MODULO_N <= LastWord
    BY <1>2, <2>1, <2>2, <2>5
  <2>7. v \in Strides(off)
    BY <2>6 DEF Strides
  <2> HIDE DEF off
  <2>8. PICK seed \in Words : StrideChecked(phases, off, seed) /\ StrideChecked(phases, off, Not(seed))
    BY <1>1, <1>3, <1>6, <2>3, StridesFound
  <2>9. CASE fault.kind = "stuck"
    <3>1. Agrees(seed)
      BY <1>2, <2>7, <2>8, <2>9, StrideEscapes DEF Escaped
    <3>2. Agrees(Not(seed))
      BY <1>2, <2>7, <2>8, <2>9, StrideEscapes DEF Escaped
    <3>3. QED
      BY <2>8, <2>9, <3>1, <3>2, AgreesOnce
  <2>10. CASE fault.kind = "couple"
    <3>1. SameWindow(fault.cell, fault.other) /\ (fault.cell - fault.other) % MODULO_N # 0
          /\ Suspect = fault.other
      BY <1>6, <2>10 DEF Sought, FindsCoupling, Suspect
    <3>2. fault.cell \in SegmentCells(window)
      BY <1>4, <3>1 DEF SameWindow
    <3>3. PICK a \in Start .. LastWord : Cell(a) = fault.cell
      BY <3>2, RangeOnto
    <3>4. a - Start \in Nat /\ v - Start \in Nat /\ fault.cell - fault.other = (a - Start) - (v - Start)
      BY <1>2, <2>1, <2>2, <3>1, <3>3
    <3>5. (a - Start) % MODULO_N # off
      <4> SUFFICES ASSUME (a - Start) % MODULO_N = off PROVE FALSE
        OBVIOUS
      <4>1. PICK i \in Nat, j \in Nat : i = a - Start /\ j = v - Start
        BY <3>4
      <4>2. i % MODULO_N = j % MODULO_N
        BY <4>1 DEF off
      <4>3. (i - j) % MODULO_N = 0
        BY <2>1, <4>2, SameRemainder
      <4>4. fault.cell - fault.other = i - j
        BY <3>4, <4>1
      <4>5. QED
        BY <3>1, <4>3, <4>4
    <3>6. PICK y : y.kind = "nth" /\ y.off = off /\ Escaped(y, seed, v)
      BY <1>2, <2>7, <2>8, StrideEscapes
    <3>7. QED
      BY <2>10, <3>3, <3>5, <3>6 DEF Escaped, Caught
  <2>11. QED
    BY <1>6, <2>9, <2>10 DEF Sought
<1>7. QED
  BY <1>5, <1>6 DEF Sought, FindsStuck, FindsCoupling

\* What escapes the checks of test 10.
LEMMA FadeYields ==
    ASSUME CallInv, PhasesInv, EscapeInv, my_cpu = 0, pc = "call", phase > Len(phases),
           Sought, test = 10, ~Reported(Suspect), Suspect \in SegmentCells(window)
    PROVE  (stage = 2 => Yields({})) /\ (stage = 5 => Yields(Bits))
<1>1. PICK v \in Start .. LastWord : Cell(v) = Suspect
  BY RangeOnto
<1>2. ASSUME NEW x \in {{}, Bits}, phases[1] = Check(x, "none"), Len(phases) = 1 PROVE Yields(x)
  <2>1. x \in Words
    BY WordsClosed
  <2> DEFINE ph == phases[1]
  <2>2. /\ Whole(ph) /\ ph.check /\ ~ph.flip /\ ph.seed = x /\ ph.turn = "none" /\ ~ph.invert
    BY <1>2, <2>1 DEF Check, March, Whole
  <2>3. SeedOf(phases, 1) = x
    BY <2>2 DEF SeedOf
  <2>4. Escaped(ph, x, v)
    <3>1. Checks(phases[1], v) /\ 1 \in 1 .. Len(phases)
      BY <1>2, <2>2 DEF Checks
    <3>2. QED
      BY <1>1, <2>3, <3>1, AllEscaped
  <2>5. Want(ph, x, window, v) = x
    BY <2>2, PlainBy DEF Want
  <2>6. QED
    BY <2>4, <2>5 DEF Escaped, Yields
<1>3. QED
  BY <1>2, FadeNow

LEMMA YieldsOnce ==
    ASSUME FaultInv, Sought, test = 10, Yields({}), Yields(Bits)
    PROVE  FALSE
<1>1. {} \in Words /\ Not({}) = Bits
  BY WordsClosed DEF Not
<1>2. fault.kind # "stuck"
  BY <1>1, AgreesOnce DEF Yields
<1>3. fault.kind # "fade"
  BY <1>1, NotItself DEF Yields
<1>4. QED
  BY <1>2, <1>3 DEF Sought, FindsCoupling

LEMMA FrameSought ==
    ASSUME UNCHANGED <<fault, test>>
    PROVE  /\ (Sought' <=> Sought) /\ Suspect' = Suspect
           /\ \A x : Yields(x)' <=> Yields(x)
<1>1. Suspect' = Suspect
  BY DEF Suspect
<1>2. \A a, b : /\ FindsStuck(a)' <=> FindsStuck(a)
                /\ FindsCoupling(a, b)' <=> FindsCoupling(a, b)
  BY DEF FindsStuck, FindsCoupling
<1>3. \A x : Agrees(x)' <=> Agrees(x)
  BY DEF Agrees
<1>4. QED
  BY <1>1, <1>2, <1>3 DEF Sought, Yields

LEMMA CallFinds ==
    ASSUME CallInv, PatternInv, FaultInv, EscapeInv, FoundInv, EndCall
    PROVE  FoundInv'
<1>1. /\ pc = "call" /\ phase > Len(phases) /\ UNCHANGED <<fault, test, errors>>
      /\ window \in Windows /\ stage \in 0 .. Stages(test) - 1 /\ Windows = 1 .. Len(Segments)
      /\ Len(Segments) \in Nat /\ PhasesInv
  BY MemTestsAssumption DEF EndCall, CallInv, PatternInv, Windows
<1>2. \/ /\ window < Len(Segments)
         /\ window' = window + 1 /\ UNCHANGED <<pc, stage, my_cpu>>
      \/ /\ window = Len(Segments) /\ stage + 1 < Stages(test)
         /\ window' = 1 /\ stage' = stage + 1 /\ UNCHANGED <<pc, my_cpu>>
      \/ /\ window = Len(Segments) /\ stage + 1 = Stages(test)
         /\ window' = 1 /\ stage' = 0
         /\ \/ my_cpu = -1 /\ my_cpu' = 0 /\ UNCHANGED pc
            \/ my_cpu = 0 /\ pc' = "done" /\ UNCHANGED my_cpu
  BY EndCallMoves
<1>3. pc' = "done" => my_cpu' = 0
  BY <1>1, <1>2
<1>4. /\ (Sought' <=> Sought) /\ Suspect' = Suspect
      /\ \A x : Yields(x)' <=> Yields(x)
      /\ Reported(Suspect)' <=> Reported(Suspect)
  <2>1. /\ (Sought' <=> Sought) /\ Suspect' = Suspect
        /\ \A x : Yields(x)' <=> Yields(x)
    BY <1>1, FrameSought
  <2>2. Reported(Suspect)' <=> Reported(Suspect)
    BY <1>1, <2>1 DEF Reported
  <2>3. QED
    BY <2>1, <2>2
<1> SUFFICES ASSUME my_cpu' = 0, Sought, ~Reported(Suspect)
             PROVE  /\ pc' # "done"
                    /\ \A w \in Windows : Suspect \in SegmentCells(w) => Hidden(w)'
  BY <1>3, <1>4 DEF FoundInv
<1>5. CASE my_cpu = -1
  <2>1. stage' = 0 /\ window' = 1 /\ pc' = "call"
    BY <1>1, <1>2, <1>5
  <2>2. \A w \in Windows : window' <= w
    BY <1>1, <2>1
  <2>3. \A w : ~(stage' > 2 \/ (stage' = 2 /\ w < window')) /\ stage' # 5
    BY <2>1
  <2>4. QED
    BY <1>1, <2>1, <2>2, <2>3 DEF Hidden
<1>6. CASE my_cpu = 0 /\ test # 10
  <2>1. \A w \in Windows : Suspect \in SegmentCells(w) => window <= w /\ w # window
    BY <1>1, <1>6, WindowFinds DEF FoundInv, Hidden
  <2>2. \A w \in Windows : Suspect \in SegmentCells(w) => window < w
    BY <1>1, <2>1
  <2>3. window < Len(Segments)
    BY <1>1, <2>2, SuspectSomewhere
  <2>4. window' = window + 1 /\ pc' = "call"
    BY <1>1, <1>2, <2>3
  <2>5. \A w \in Windows : Suspect \in SegmentCells(w) => window' <= w
    BY <1>1, <2>2, <2>4
  <2>6. QED
    BY <1>1, <1>6, <2>4, <2>5 DEF Hidden
<1>7. CASE my_cpu = 0 /\ test = 10
  <2>1. Stages(test) = 6 /\ stage \in 0 .. 5
    BY <1>1, <1>7, StagesBy
  <2>2. ASSUME NEW w \in Windows, Suspect \in SegmentCells(w)
        PROVE  /\ stage > 2 \/ (stage = 2 /\ w <= window) => Yields({})
               /\ stage = 5 /\ w <= window => Yields(Bits)
    <3>1. Hidden(w)
      BY <1>7, <2>2 DEF FoundInv
    <3>2. w = window => (stage = 2 => Yields({})) /\ (stage = 5 => Yields(Bits))
      BY <1>1, <1>7, <2>2, FadeYields
    <3>3. w < window \/ w = window \/ w > window
      BY <1>1
    <3>4. QED
      BY <1>1, <1>7, <2>1, <3>1, <3>2, <3>3 DEF Hidden
  <2>3. PICK w \in Windows : Suspect \in SegmentCells(w)
    BY SuspectSomewhere
  <2>4. ~(window = Len(Segments) /\ stage = 5)
    <3> SUFFICES ASSUME window = Len(Segments), stage = 5 PROVE FALSE
      OBVIOUS
    <3>1. w <= window
      BY <1>1
    <3>2. Yields({}) /\ Yields(Bits)
      BY <2>2, <2>3, <3>1
    <3>3. QED
      BY <1>7, <3>2, YieldsOnce
  <2>5. CASE window < Len(Segments)
    <3>1. window' = window + 1 /\ stage' = stage /\ pc' = "call"
      BY <1>1, <1>2, <2>5
    <3>2. \A i \in Windows : i < window' => i <= window
      BY <1>1, <3>1
    <3>3. QED
      BY <1>1, <1>4, <1>7, <2>2, <3>1, <3>2 DEF Hidden
  <2>6. CASE window = Len(Segments)
    <3>1. window' = 1 /\ stage' = stage + 1 /\ pc' = "call"
      BY <1>1, <1>2, <2>1, <2>4, <2>6
    <3>2. \A i \in Windows : ~(i < window') /\ i <= window
      BY <1>1, <2>6, <3>1
    <3>3. stage' > 2 => stage >= 2
      BY <2>1, <3>1
    <3>4. stage >= 2 => stage = 2 \/ stage > 2
      BY <2>1
    <3>5. QED
      BY <1>1, <1>4, <1>7, <2>2, <3>1, <3>2, <3>3, <3>4 DEF Hidden
  <2>7. QED
    BY <1>1, <2>5, <2>6
<1>8. QED
  BY <1>1, <1>5, <1>6, <1>7 DEF CallInv

LEMMA NextFinds ==
    ASSUME CallInv, PatternInv, FaultInv, EscapeInv, FoundInv, [Next]_vars
    PROVE  FoundInv'
<1>1. CASE EndCall
  BY <1>1, CallFinds
<1>2. CASE ~EndCall
  <2>1. UNCHANGED <<fault, test, stage, window, my_cpu>>
    <3>1. CASE WordStep
      BY <3>1, WordStepKeeps DEF WordStep, Word, ToNextWord, PairWord, BlockWords, MoveUp, MoveDown,
         Sleep, WalkFirst, WalkSecond
    <3>2. CASE ~WordStep
      BY <1>2, <3>2 DEF Next, Run, Over, WordStep, BeginPhase, SkipSleep, EndBlock, vars, callVars
    <3>3. QED
      BY <3>1, <3>2
  <2>2. pc' = "done" => pc = "done"
    <3>1. CASE WordStep
      BY <3>1, WordStepKeeps
    <3>2. CASE ~WordStep
      BY <1>2, <3>2 DEF Next, Run, Over, WordStep, BeginPhase, SkipSleep, EndBlock, Enter, vars
    <3>3. QED
      BY <3>1, <3>2
  <2>3. /\ (Sought' <=> Sought) /\ Suspect' = Suspect
        /\ \A x : Yields(x)' <=> Yields(x)
    BY <2>1, FrameSought
  <2>4. ~Reported(Suspect)' => ~Reported(Suspect)
    BY <2>1, ErrorsGrow, ReportsStay
  <2>5. \A w : Hidden(w)' <=> Hidden(w)
    BY <2>1, <2>3 DEF Hidden
  <2>6. QED
    BY <2>1, <2>2, <2>3, <2>4, <2>5 DEF FoundInv
<1>3. QED
  BY <1>1, <1>2

HuntInv == SpoilInv /\ FadeInv /\ EscapeInv /\ FoundInv /\ FaultInv /\ SleepInv

LEMMA NextHuntInv == CallInv /\ PointerInv /\ PatternInv /\ HuntInv /\ [Next]_vars => HuntInv'
<1> SUFFICES ASSUME CallInv, PointerInv, PatternInv, HuntInv, [Next]_vars PROVE HuntInv'
  OBVIOUS
<1>1. SpoilInv'
  BY StepSpoils, RestSpoils DEF HuntInv
<1>2. FadeInv'
  BY StepFades, RestFades DEF HuntInv
<1>3. EscapeInv'
  BY StepEscapes, RestEscapes DEF HuntInv
<1>4. FoundInv'
  BY NextFinds DEF HuntInv
<1>5. FaultInv'
  <2>1. UNCHANGED fault
    BY DEF Next, Run, Over, vars, BeginPhase, SkipSleep, Word, PairWord, BlockWords, MoveUp, MoveDown,
       Sleep, WalkFirst, WalkSecond, EndBlock, EndCall, ToNextWord
  <2>2. QED
    BY <2>1 DEF HuntInv, FaultInv
<1>6. SleepInv'
  BY NextSleepInv DEF HuntInv
<1>7. QED
  BY <1>1, <1>2, <1>3, <1>4, <1>5, <1>6 DEF HuntInv

LEMMA InitHuntInv == Init => HuntInv
<1> SUFFICES ASSUME Init PROVE HuntInv
  OBVIOUS
<1>1. my_cpu = -1 /\ pc = "call" /\ window = 1 /\ last_stage = -1 /\ stage = 0 /\ fault \in Faults
  BY DEF Init
<1>2. SpoilInv /\ FadeInv /\ EscapeInv /\ FoundInv /\ FaultInv
  BY <1>1 DEF SpoilInv, FadeInv, EscapeInv, FoundInv, FaultInv
<1>3. SleepInv
  BY <1>1 DEF SleepInv
<1>4. QED
  BY <1>2, <1>3 DEF HuntInv

FoundOnes == StuckFound /\ FadeFound /\ CouplingFound

LEMMA HuntFinds == HuntInv => FoundOnes
<1> SUFFICES ASSUME HuntInv, pc = "done", Sought PROVE Reported(Suspect)
  BY DEF FoundOnes, StuckFound, FadeFound, CouplingFound, Sought, Suspect
<1>1. QED
  BY DEF HuntInv, FoundInv

LEMMA AlwaysFound == Spec => []FoundOnes
  BY AlwaysInv, InitPatternInv, NextPatternInv, InitHuntInv, NextHuntInv, HuntFinds, PTL DEF Spec

(***************************************************************************)
(* A stuck bit is found by every test that is to find it, if nobody skips  *)
(* the test: whatever bits are stuck, wherever the cell lies in the        *)
(* windows, and whatever the random patterns are, a test reads the cell    *)
(* once for a value and once for its complement.                           *)
(***************************************************************************)
THEOREM StuckAlwaysFound == Spec => []StuckFound
  BY AlwaysFound, PTL DEF FoundOnes

(***************************************************************************)
(* A cell that loses its zeros or its ones while the program sleeps is     *)
(* found by bit fade in every window, though it sleeps in the first only.  *)
(***************************************************************************)
THEOREM FadeAlwaysFound == Spec => []FadeFound
  BY AlwaysFound, PTL DEF FoundOnes

(***************************************************************************)
(* A cell that is written with another one is found by every moving        *)
(* inversion but the random ones, whichever of the two comes first; and by *)
(* the modulo test if the two are in no common stride.                     *)
(***************************************************************************)
THEOREM CouplingAlwaysFound == Spec => []CouplingFound
  BY AlwaysFound, PTL DEF FoundOnes

-----------------------------------------------------------------------------
(***************************************************************************)
(* Two addresses of one cell.  A fill leaves there what belongs to the     *)
(* second of them.  The first one is then as expected only if both are to  *)
(* hold the same, and what is written there is found at the second.        *)
(***************************************************************************)
Twin(v) == Cell(v) \in {fault.cell, fault.other}

AliasNow(u, v) ==
    LET want == Want(Cur, SeedNow, window, v)
    IN  /\ Fills(Cur) /\ Behind(v) => mem[fault.other] = Leaves(Cur, SeedNow, window, v)
        /\ phase > 1 /\ Fills(phases[phase - 1]) /\ Rereads(Cur) =>
             /\ ~Behind(v)
             /\ mem[fault.other] = IF Behind(u) THEN Not(want) ELSE want

AliasInv ==
    my_cpu = 0 /\ fault.kind = "alias" /\ errors = {} =>
        \A u, v \in Start .. LastWord : u < v /\ Twin(u) /\ Twin(v) =>
            /\ pc \in {"words", "tick"} => AliasNow(u, v)
            /\ pc = "call" /\ phase > 1 =>
                 LET last == phases[phase - 1]
                 IN  Fills(last) =>
                       mem[fault.other] = Leaves(last, SeedOf(phases, phase - 1), window, v)
            /\ pc \in {"call", "words", "tick"} =>
                 \A j \in 1 .. phase - 2 : ~(Fills(phases[j]) /\ Rereads(phases[j + 1]))

LEMMA AliasReads ==
    ASSUME fault.kind = "alias", NEW v, Twin(v)
    PROVE  read_word(v) = mem[fault.other]
<1>1. read_word(v) = IF Cell(v) = fault.cell THEN mem[fault.other] ELSE mem[Cell(v)]
  BY Zenon DEF read_word, Read
<1>2. QED
  BY <1>1 DEF Twin

LEMMA AliasWrite ==
    ASSUME MemInv, FaultInv, fault.kind = "alias", NEW a, NEW x, mem' = write_word(mem, a, x)
    PROVE  mem'[fault.other] = IF Twin(a) THEN x ELSE mem[fault.other]
<1>1. Hits(Cell(a)) = IF Cell(a) = fault.cell THEN {fault.other} ELSE {Cell(a)}
  BY Zenon DEF Hits
<1>2. fault.other \in DOMAIN mem
  BY FaultFacts DEF MemInv
<1>3. mem' = [c \in DOMAIN mem |-> IF c \in Hits(Cell(a)) THEN x ELSE mem[c]]
  BY DEF write_word
<1>4. mem'[fault.other] = IF fault.other \in Hits(Cell(a)) THEN x ELSE mem[fault.other]
  BY <1>2, <1>3
<1>5. fault.other \in Hits(Cell(a)) <=> Twin(a)
  BY <1>1 DEF Twin
<1>6. QED
  BY <1>4, <1>5

\* There are no three of them.
LEMMA TwoTwins ==
    ASSUME CallInv, NEW u \in Start .. LastWord, NEW v \in Start .. LastWord, u < v, Twin(u), Twin(v),
           NEW w \in Start .. LastWord, Twin(w)
    PROVE  w = u \/ w = v
<1>1. \A x, y \in Start .. LastWord : Cell(x) = Cell(y) => x = y
  BY RangeCells DEF CallInv
<1>2. Start \in Nat /\ LastWord \in Nat
  BY RangeFacts
<1>3. u # v
  BY <1>2
<1>4. QED
  BY <1>1, <1>3 DEF Twin

\* A virtual address is no higher than the physical one.
LEMMA MappedLow ==
    ASSUME NEW w \in Windows
    PROVE  /\ FirstWord(w) <= Segments[w].first * PAGE_WORDS
           /\ FirstWord(w) + OffsetOf(w) * PAGE_WORDS = Segments[w].first * PAGE_WORDS
           /\ OffsetOf(w) \in Nat
<1> DEFINE a == Segments[w].first
           n == PAGE_WORDS
           W == VM_WINDOW_SIZE
           h == a \div W
           e == a % W
           x == first_word_mapping(a)
           d == OffsetOf(w)
<1>1. a \in Nat /\ n \in Nat /\ W \in Nat \ {0} /\ VM_PINNED_SIZE = 2 * W
  BY MemTestsAssumption, VmemAssumption
<1>2. FirstWord(w) = x * n
  BY DEF FirstWord
<1>3. x = (IF a < 2 * W THEN a ELSE 2 * W + e) /\ d = (IF h * W >= 2 * W THEN h * W - 2 * W ELSE 0)
  BY <1>1 DEF first_word_mapping, WindowOf, OffsetOf
<1> HIDE DEF a, n, W, x, d
<1>4. h \in Nat /\ e \in 0 .. W - 1 /\ a = h * W + e /\ h * W \in Nat
  BY <1>1
<1>5. (a < 2 * W <=> h < 2) /\ (h * W >= 2 * W <=> h >= 2)
  <2>1. a < 2 * W <=> h < 2
    BY <1>1
  <2>2. CASE h >= 2
    <3>1. PICK k \in Nat : h = k + 2
      <4>1. h - 2 \in Nat /\ h = (h - 2) + 2
        BY <1>4, <2>2
      <4> HIDE DEF h
      <4>2. QED
        BY <4>1
    <3> HIDE DEF h
    <3>2. h * W = k * W + 2 * W /\ k * W \in Nat
      BY <1>1, <3>1
    <3>3. QED
      BY <1>1, <2>1, <2>2, <3>2
  <2>3. CASE h < 2
    <3>1. h = 0 \/ h = 1
      BY <1>4, <2>3
    <3> HIDE DEF h
    <3>2. h * W = 0 \/ h * W = W
      BY <1>1, <3>1
    <3>3. QED
      BY <1>1, <1>4, <2>1, <2>3, <3>2
  <2>4. QED
    BY <1>4, <2>2, <2>3
<1> HIDE DEF h, e
<1>6. x + d = a /\ x \in Nat /\ d \in Nat /\ x <= a
  <2>1. CASE h < 2
    BY <1>1, <1>3, <1>4, <1>5, <2>1
  <2>2. CASE h >= 2
    <3> DEFINE m == h * W
    <3>1. m >= 2 * W /\ m \in Nat /\ a = m + e
      BY <1>4, <1>5, <2>2
    <3>2. x = 2 * W + e /\ d = m - 2 * W
      BY <1>3, <1>4, <1>5, <2>2
    <3> HIDE DEF m
    <3>3. QED
      BY <1>1, <1>4, <3>1, <3>2
  <2>3. QED
    BY <1>4, <2>1, <2>2
<1>7. (x + d) * n = x * n + d * n /\ x * n \in Nat /\ d * n \in Nat /\ a * n \in Nat
  BY <1>1, <1>6
<1>8. x * n + d * n = a * n
  BY <1>6, <1>7
<1> DEFINE X == x * n
           D == d * n
           A == a * n
<1>9. X + D = A /\ X \in Nat /\ D \in Nat /\ A \in Nat
  BY <1>7, <1>8
<1> HIDE DEF X, D, A
<1>10. X <= A
  BY <1>9
<1>11. QED
  BY <1>2, <1>6, <1>9, <1>10 DEF X, D, A, a, n, d

\* No two words of a window have the same address, and no two cells.
LEMMA AddressesDiffer ==
    ASSUME NEW w \in Windows, NEW a \in Nat, NEW b \in Nat, a # b,
           a <= Segments[w].last * PAGE_WORDS + PAGE_WORDS - 1,
           b <= Segments[w].last * PAGE_WORDS + PAGE_WORDS - 1
    PROVE  Number(a) # Number(b)
<1> DEFINE last == Segments[w].last * PAGE_WORDS + PAGE_WORDS - 1
<1>1. \A x, y \in 0 .. last : x # y => Number(x) # Number(y)
  BY AddressAssumption
<1>2. last \in Int
  <2>1. Segments[w].last \in Nat /\ PAGE_WORDS \in Nat
    BY MemTestsAssumption
  <2>2. QED
    BY <2>1
<1> HIDE DEF last
<1>3. a \in 0 .. last /\ b \in 0 .. last
  BY <1>2 DEF last
<1>4. QED
  BY <1>1, <1>3

LEMMA OwnDiffers ==
    ASSUME CallInv, NEW u \in Start .. LastWord, NEW v \in Start .. LastWord, u # v
    PROVE  Number(u) # Number(v)
<1>1. /\ Start = FirstWord(window) /\ LastWord = FinalWord(window) /\ window \in Windows
      /\ Start \in Nat /\ LastWord \in Nat
  BY RangeFacts
<1> DEFINE last == Segments[window].last * PAGE_WORDS + PAGE_WORDS - 1
           F == Segments[window].first * PAGE_WORDS
<1>2. PICK w \in Windows : w = window
  BY <1>1
<1>3. FirstWord(w) <= Segments[w].first * PAGE_WORDS
  BY MappedLow
<1>4. /\ Segments[w].first * PAGE_WORDS \in Nat
      /\ FinalWord(w) - FirstWord(w)
           = Segments[w].last * PAGE_WORDS + PAGE_WORDS - 1 - Segments[w].first * PAGE_WORDS
  BY <1>1, <1>2, CellsOf
<1>5. Start <= F /\ F \in Nat /\ LastWord - Start = last - F /\ last \in Int
  <2> DEFINE m == Segments[window].last * PAGE_WORDS
  <2>1. m \in Nat /\ PAGE_WORDS \in Nat
    BY <1>1, MemTestsAssumption
  <2>2. last = m + PAGE_WORDS - 1 /\ LastWord - Start = m + PAGE_WORDS - 1 - F /\ Start <= F /\ F \in Nat
    BY <1>1, <1>2, <1>3, <1>4
  <2> HIDE DEF m, last, F
  <2>3. QED
    BY <2>1, <2>2
<1> HIDE DEF last, F
<1>6. u <= last /\ v <= last /\ u \in Nat /\ v \in Nat
  BY <1>1, <1>5
<1>7. QED
  BY <1>1, <1>6, AddressesDiffer DEF last

LEMMA AliasPhases ==
    ASSUME phase > 1, Fills(phases[phase - 1]), Rereads(Cur), CallInv, PhasesInv, phase <= Len(phases),
           NEW v \in Start .. LastWord
    PROVE  Leaves(phases[phase - 1], SeedOf(phases, phase - 1), window, v) = Want(Cur, SeedNow, window, v)
<1>1. Fits(phases[phase - 1], SeedOf(phases, phase - 1), Cur, SeedNow)
  BY CurLinked
<1>2. Start = FirstWord(window) /\ LastWord = FinalWord(window) /\ window \in Windows
  BY RangeFacts
<1>3. QED
  BY <1>1, <1>2 DEF Fits, Rereads

LEMMA WordAliases ==
    ASSUME CallInv, PointerInv, PatternInv, FaultInv, my_cpu = 0, fault.kind = "alias", Word, errors' = {},
           NEW u \in Start .. LastWord, NEW v \in Start .. LastWord, u < v, Twin(u), Twin(v),
           AliasNow(u, v)
    PROVE  AliasNow(u, v)'
<1>1. /\ phase <= Len(phases) /\ pc = "words" /\ WorkInv /\ MemInv /\ PhasesInv
      /\ p' = NextWord /\ UNCHANGED <<fault, window, phases, phase>>
  BY DEF CallInv, PatternInv, Word, ToNextWord, callVars
<1>2. Cur' = Cur /\ SeedNow' = SeedNow
  BY <1>1, Frame, FrameSeed
<1>3. GoodPhase(Cur) /\ Sown(Cur) /\ SeedNow \in Words
  BY <1>1, CurLinked
<1>4. Start \in Nat /\ LastWord \in Nat /\ MODULO_N \in Nat \ {0, 1}
  BY RangeFacts
<1>5. SUFFICES ASSUME Whole(Cur), Cur.up PROVE AliasNow(u, v)'
  <2>1. ~(Whole(Cur) /\ Cur.up) => AliasNow(u, v)'
    BY <1>2 DEF AliasNow, Fills, Rereads
  <2>2. QED
    BY <2>1
<1>6. InBlock /\ Cur.step = 1 /\ Cur.skip = MODULO_N
  BY <1>1, <1>3, <1>5 DEF PointerInv, Whole, GoodPhase
<1>7. p \in Start .. LastWord /\ p' = p + 1
  BY <1>1, <1>4, <1>5, <1>6 DEF InBlock, NextWord
<1>8. \A x \in Start .. LastWord : (Behind(x) <=> x < p) /\ (Behind(x)' <=> x <= p)
  BY <1>2, <1>4, <1>5, <1>7 DEF Behind
<1>9. Expected = Want(Cur, SeedNow, window, p)
  BY <1>1, <1>5, <1>7, PatternGoesOn DEF WorkInv, WholeInv
<1>10. Cur.check => read_word(p) = Expected
  <2>1. \A x : Error(p, x) # {}
    BY DEF Error
  <2>2. QED
    BY <2>1 DEF Word
<1>11. (p - Start) % MODULO_N # Cur.skip
  <2>1. p - Start \in Nat
    BY <1>4, <1>7
  <2>2. PICK k \in Nat : k = p - Start
    BY <2>1
  <2>3. k % MODULO_N < MODULO_N
    BY <1>4
  <2>4. QED
    BY <1>4, <1>6, <2>2, <2>3
<1>12. /\ p \notin {u, v} => mem'[fault.other] = mem[fault.other]
       /\ Cur.put = "none" => mem' = mem
       /\ Cur.put # "none" /\ p \in {u, v} =>
            mem'[fault.other] = IF Cur.put = "same" THEN Expected ELSE Not(Expected)
  <2>1. Cur.put = "none" => mem' = mem
    BY DEF Word
  <2>2. CASE Cur.put # "none"
    <3> DEFINE x == IF Cur.put = "same" THEN Expected ELSE Not(Expected)
    <3>1. mem' = write_word(mem, p, x)
      BY <1>11, <2>2 DEF Word
    <3> HIDE DEF x
    <3>2. mem'[fault.other] = IF Twin(p) THEN x ELSE mem[fault.other]
      BY <1>1, <3>1, AliasWrite
    <3>3. Twin(p) <=> p \in {u, v}
      BY <1>7, TwoTwins
    <3>4. QED
      BY <2>2, <3>2, <3>3 DEF x
  <2>3. QED
    BY <2>1, <2>2
<1>13. p \in {u, v} => read_word(p) = mem[fault.other]
  BY AliasReads
<1> DEFINE W(x) == Want(Cur, SeedNow, window, x)
<1>14. ASSUME Fills(Cur), Behind(v)'
       PROVE  mem'[fault.other] = Leaves(Cur, SeedNow, window, v)
  <2>1. Cur.put = "same"
    BY <1>3, <1>14 DEF Fills, Sown
  <2>2. p = v \/ (p \notin {u, v} /\ Behind(v))
    BY <1>4, <1>7, <1>8, <1>14
  <2>3. QED
    BY <1>9, <1>12, <1>14, <2>1, <2>2 DEF AliasNow, Leaves
<1>15. ASSUME phase > 1, Fills(phases[phase - 1]), Rereads(Cur)
       PROVE  ~Behind(v)' /\ mem'[fault.other] = IF Behind(u)' THEN Not(W(v)) ELSE W(v)
  <2>1. ~Behind(v) /\ mem[fault.other] = IF Behind(u) THEN Not(W(v)) ELSE W(v)
    BY <1>15 DEF AliasNow
  <2>2. Cur.check /\ (Cur.put = "inverse" \/ (Cur.turn = "own" /\ Cur.put = "none" /\ ~Cur.invert))
    BY <1>15 DEF Rereads
  <2>3. CASE p = v
    <3>1. Behind(u)
      BY <1>4, <1>8, <2>3
    <3>2. W(v) = Not(W(v))
      BY <1>9, <1>10, <1>13, <2>1, <2>2, <2>3, <3>1
    <3>3. W(v) \in Words
      <4>1. PICK w \in Windows : w = window
        BY DEF CallInv
      <4>2. v \in FirstWord(w) .. FinalWord(w)
        BY <4>1, RangeFacts
      <4>3. QED
        BY <1>3, <4>1, <4>2, WantWord
    <3>4. QED
      BY <3>2, <3>3, NotItself
  <2>4. CASE p = u
    <3>1. ~Behind(u) /\ Behind(u)' /\ ~Behind(v)'
      BY <1>4, <1>8, <2>4
    <3>2. W(u) = W(v)
      BY <1>9, <1>10, <1>13, <2>1, <2>2, <2>4, <3>1
    <3>3. Cur.put = "inverse"
      <4>1. SUFFICES ASSUME Cur.turn = "own", ~Cur.invert PROVE FALSE
        BY <2>2
      <4>2. W(u) = Number(u) /\ W(v) = Number(v)
        BY <4>1, PlainBy DEF Want
      <4>3. Number(u) # Number(v)
        BY <1>4, OwnDiffers
      <4>4. QED
        BY <3>2, <4>2, <4>3
    <3>4. mem'[fault.other] = Not(W(v))
      BY <1>9, <1>12, <2>4, <3>2, <3>3
    <3>5. QED
      BY <3>1, <3>4
  <2>5. CASE p \notin {u, v}
    <3>1. (Behind(u)' <=> Behind(u)) /\ ~Behind(v)'
      BY <1>4, <1>7, <1>8, <2>1, <2>5
    <3>2. QED
      BY <1>12, <2>1, <2>5, <3>1
  <2>6. QED
    BY <2>3, <2>4, <2>5
<1>16. QED
  BY <1>1, <1>2, <1>14, <1>15 DEF AliasNow

\* What there is about each pair of addresses of one cell.
AliasBy(u, v) ==
    /\ pc \in {"words", "tick"} => AliasNow(u, v)
    /\ pc = "call" /\ phase > 1 =>
         LET last == phases[phase - 1]
         IN  Fills(last) => mem[fault.other] = Leaves(last, SeedOf(phases, phase - 1), window, v)
    /\ pc \in {"call", "words", "tick"} =>
         \A j \in 1 .. phase - 2 : ~(Fills(phases[j]) /\ Rereads(phases[j + 1]))

LEMMA AliasFrame ==
    ASSUME AliasInv, UNCHANGED <<fault, window>>, my_cpu' = 0 => my_cpu = 0, errors \subseteq errors',
           ASSUME NEW u \in Start .. LastWord, NEW v \in Start .. LastWord, u < v, Twin(u), Twin(v),
                  my_cpu = 0, my_cpu' = 0, fault.kind = "alias", errors = {}, errors' = {}, AliasBy(u, v)
           PROVE  AliasBy(u, v)'
    PROVE  AliasInv'
<1>1. Start' = Start /\ LastWord' = LastWord /\ \A v : Twin(v)' <=> Twin(v)
  BY DEF Start, LastWord, Base, Cell, Twin
<1>2. SUFFICES ASSUME my_cpu' = 0, fault.kind = "alias", errors' = {},
                      NEW u \in Start .. LastWord, NEW v \in Start .. LastWord, u < v, Twin(u), Twin(v)
               PROVE  AliasBy(u, v)'
  BY <1>1 DEF AliasInv, AliasBy
<1>3. my_cpu = 0 /\ errors = {}
  BY <1>2
<1>4. AliasBy(u, v)
  BY <1>2, <1>3 DEF AliasInv, AliasBy
<1>5. QED
  BY <1>2, <1>3, <1>4

LEMMA StepAliases ==
    ASSUME CallInv, PointerInv, PatternInv, FaultInv, AliasInv, WordStep
    PROVE  AliasInv'
<1>1. /\ UNCHANGED <<fault, window, my_cpu, phases, phase>> /\ pc = "words" /\ pc' \in {"words", "tick"}
      /\ errors \subseteq errors'
  BY WordStepKeeps DEF WordStep, Word, ToNextWord, PairWord, BlockWords, MoveUp, MoveDown,
     Sleep, WalkFirst, WalkSecond
<1>2. ASSUME NEW u \in Start .. LastWord, NEW v \in Start .. LastWord, u < v, Twin(u), Twin(v),
             my_cpu = 0, fault.kind = "alias", errors = {}, errors' = {}, AliasBy(u, v)
      PROVE  AliasBy(u, v)'
  <2>1. AliasNow(u, v)
    BY <1>1, <1>2 DEF AliasBy
  <2>2. AliasNow(u, v)'
    <3>1. CASE Word
      BY <1>2, <2>1, <3>1, WordAliases
    <3>2. CASE WordStep /\ ~Word
      <4>1. Cur.kind \notin {"march", "nth"} /\ Cur' = Cur
        BY <1>1, <3>2, Frame DEF WordStep, PairWord, BlockWords, MoveUp, MoveDown, Sleep, WalkFirst, WalkSecond
      <4>2. QED
        BY <4>1 DEF AliasNow, Fills, Rereads, Whole
    <3>3. QED
      BY <3>1, <3>2
  <2>3. QED
    BY <1>1, <1>2, <2>2 DEF AliasBy
<1>3. QED
  BY <1>1, <1>2, AliasFrame

LEMMA RestAliases ==
    ASSUME CallInv, PointerInv, PatternInv, AliasInv, [Next]_vars, ~WordStep
    PROVE  AliasInv'
<1>1. CASE BeginPhase
  <2>1. /\ UNCHANGED <<fault, window, phases, phase, my_cpu, mem, errors>> /\ pc = "call"
        /\ (my_cpu = 0 => pc' = "words") /\ phase <= Len(phases) /\ PhasesInv
    BY <1>1 DEF BeginPhase, callVars, Enter, PatternInv
  <2>2. Cur' = Cur /\ SeedNow' = SeedNow
    BY <2>1, Frame, FrameSeed
  <2>3. ASSUME NEW u \in Start .. LastWord, NEW v \in Start .. LastWord, my_cpu = 0, AliasBy(u, v)
        PROVE  AliasBy(u, v)'
    <3>1. Whole(Cur) => ~Behind(u)' /\ ~Behind(v)'
      BY <1>1, <2>3, PhaseBegun
    <3>2. AliasNow(u, v)'
      <4>1. ~(Fills(Cur) /\ Behind(v)')
        BY <3>1 DEF Fills
      <4>2. ASSUME phase > 1, Fills(phases[phase - 1]), Rereads(Cur)
            PROVE  ~Behind(v)' /\ ~Behind(u)' /\ mem[fault.other] = Want(Cur, SeedNow, window, v)
        <5>1. mem[fault.other] = Leaves(phases[phase - 1], SeedOf(phases, phase - 1), window, v)
          BY <2>1, <2>3, <4>2 DEF AliasBy
        <5>2. mem[fault.other] = Want(Cur, SeedNow, window, v)
          BY <2>1, <4>2, <5>1, AliasPhases
        <5>3. QED
          BY <3>1, <4>2, <5>2 DEF Rereads
      <4>3. QED
        BY <2>1, <2>2, <4>1, <4>2 DEF AliasNow
    <3>3. QED
      BY <2>1, <2>3, <3>2 DEF AliasBy
  <2>4. QED
    BY <2>1, <2>3, AliasFrame
<1>2. CASE SkipSleep
  <2>1. /\ UNCHANGED <<fault, window, phases, my_cpu, errors>> /\ phase' = phase + 1 /\ pc' = "call"
        /\ pc = "call" /\ Cur.kind = "sleep" /\ phase \in Nat \ {0}
    BY <1>2 DEF SkipSleep, callVars, Slept, CallInv
  <2>2. ~Fills(Cur) /\ ~Rereads(Cur) /\ Cur = phases[phase]
    BY <2>1 DEF Fills, Rereads, Whole, Cur
  <2>3. ASSUME NEW u, NEW v, AliasBy(u, v) PROVE AliasBy(u, v)'
    <3>1. ASSUME NEW j \in 1 .. phase - 1 PROVE ~(Fills(phases[j]) /\ Rereads(phases[j + 1]))
      <4>1. CASE j = phase - 1
        BY <2>1, <2>2, <4>1
      <4>2. CASE j # phase - 1
        BY <2>1, <2>3, <4>2 DEF AliasBy
      <4>3. QED
        BY <4>1, <4>2
    <3>2. phase' - 1 = phase /\ phase' - 2 = phase - 1
      BY <2>1
    <3>3. QED
      BY <2>1, <2>2, <3>1, <3>2 DEF AliasBy
  <2>4. QED
    BY <2>1, <2>3, AliasFrame
<1>3. CASE EndBlock
  <2>1. UNCHANGED <<fault, window, phases, my_cpu, mem, p, errors>> /\ pc = "tick" /\ phase \in Nat \ {0}
    BY <1>3 DEF EndBlock, callVars, CallInv
  <2>2. \/ phase' = phase
        \/ phase' = phase + 1 /\ pc' = "call" /\ AtEnd
    BY <1>3 DEF EndBlock, Enter
  <2>3. CASE phase' = phase
    <3>1. Cur' = Cur
      BY <2>1, <2>3, Frame
    <3>2. SeedNow' = SeedNow /\ \A v : Behind(v)' <=> Behind(v)
      BY <2>1, <2>3, <3>1, FrameSeed DEF Behind
    <3>3. pc' \in {"words", "tick", "bailed"} \/ (pc' = "call" /\ phase' = phase + 1)
      BY <1>3 DEF EndBlock, Enter
    <3>4. pc' # "call"
      BY <2>1, <2>3, <3>3
    <3>5. ASSUME NEW u, NEW v, AliasBy(u, v) PROVE AliasBy(u, v)'
      <4>1. AliasNow(u, v)' <=> AliasNow(u, v)
        BY <2>1, <2>3, <3>1, <3>2 DEF AliasNow
      <4>2. QED
        BY <2>1, <2>3, <3>4, <3>5, <4>1 DEF AliasBy
    <3>6. QED
      BY <2>1, <3>5, AliasFrame
  <2>4. CASE phase' = phase + 1 /\ pc' = "call" /\ AtEnd
    <3>1. ASSUME NEW u \in Start .. LastWord, NEW v \in Start .. LastWord, my_cpu = 0, AliasBy(u, v)
          PROVE  AliasBy(u, v)'
      <4>1. AliasNow(u, v) /\ Cur = phases[phase]
        BY <2>1, <3>1 DEF AliasBy, Cur
      <4>2. Whole(Cur) => Behind(v)
        BY <2>1, <2>4, <3>1, PhaseDone
      <4>3. Fills(Cur) => mem[fault.other] = Leaves(Cur, SeedNow, window, v)
        BY <4>1, <4>2 DEF AliasNow, Fills
      <4>4. phase > 1 => ~(Fills(phases[phase - 1]) /\ Rereads(Cur))
        BY <4>1, <4>2 DEF AliasNow, Rereads
      <4>5. ASSUME NEW j \in 1 .. phase - 1 PROVE ~(Fills(phases[j]) /\ Rereads(phases[j + 1]))
        <5>1. CASE j = phase - 1
          <6>1. phase > 1 /\ j + 1 = phase
            BY <2>1, <5>1
          <6>2. QED
            BY <4>1, <4>4, <5>1, <6>1
        <5>2. CASE j # phase - 1
          BY <2>1, <3>1, <5>2 DEF AliasBy
        <5>3. QED
          BY <5>1, <5>2
      <4>6. phase' - 1 = phase /\ phase' - 2 = phase - 1
        BY <2>1, <2>4
      <4>7. QED
        BY <2>1, <2>4, <4>1, <4>3, <4>5, <4>6 DEF AliasBy, SeedNow
    <3>2. QED
      BY <2>1, <3>1, AliasFrame
  <2>5. QED
    BY <2>2, <2>3, <2>4
<1>4. CASE EndCall
  <2>1. phase' = 1 /\ pc' \in {"call", "done"}
    BY <1>4 DEF EndCall
  <2>2. 1 .. phase' - 2 = {}
    BY <2>1
  <2>3. QED
    BY <2>1, <2>2 DEF AliasInv
<1>5. CASE UNCHANGED vars
  <2>1. UNCHANGED <<fault, window, phases, phase, my_cpu, mem, pc, p, errors>>
    BY <1>5 DEF vars, callVars, blockVars
  <2>2. Cur' = Cur
    BY <2>1, Frame
  <2>3. SeedNow' = SeedNow /\ \A v : Behind(v)' <=> Behind(v)
    BY <2>1, <2>2, FrameSeed DEF Behind
  <2>4. ASSUME NEW u, NEW v, AliasBy(u, v) PROVE AliasBy(u, v)'
    <3>1. AliasNow(u, v)' <=> AliasNow(u, v)
      BY <2>1, <2>2, <2>3 DEF AliasNow
    <3>2. QED
      BY <2>1, <2>4, <3>1 DEF AliasBy
  <2>5. QED
    BY <2>1, <2>4, AliasFrame
<1>6. QED
  BY <1>1, <1>2, <1>3, <1>4, <1>5 DEF Next, Run, Over, WordStep

\* A test that fills a window and then looks at it does not miss two addresses.
LEMMA AliasNotMissed ==
    ASSUME CallInv, AliasInv, FaultInv, my_cpu = 0, pc = "call", phase > Len(phases),
           fault.kind = "alias", {fault.cell, fault.other} \subseteq SegmentCells(window),
           Refilled(phases)
    PROVE  errors # {}
<1> SUFFICES ASSUME errors = {} PROVE FALSE
  OBVIOUS
<1>1. Listed(phases) /\ phase \in Nat /\ Len(phases) \in Nat
  BY ListOf DEF CallInv
<1>2. PICK x, y : Within(<<x, y>>, phases) /\ Fills(x) /\ Rereads(y)
  BY DEF Refilled
<1>3. PICK k \in Nat : /\ k + 1 \in 1 .. Len(phases) /\ k + 2 \in 1 .. Len(phases)
                       /\ phases[k + 1] = x /\ phases[k + 2] = y
  BY <1>1, <1>2, PairListed
<1>4. k + 1 \in 1 .. phase - 2 /\ (k + 1) + 1 = k + 2
  BY <1>1, <1>3
<1>5. PICK a \in Start .. LastWord : Cell(a) = fault.cell
  BY RangeOnto
<1>6. PICK b \in Start .. LastWord : Cell(b) = fault.other
  BY RangeOnto
<1>7. a # b /\ Twin(a) /\ Twin(b)
  BY <1>5, <1>6, FaultFacts DEF Twin
<1>8. Start \in Nat /\ LastWord \in Nat
  BY RangeFacts
<1>9. ASSUME NEW u \in Start .. LastWord, NEW v \in Start .. LastWord, u < v, Twin(u), Twin(v)
      PROVE  FALSE
  <2>1. ~(Fills(phases[k + 1]) /\ Rereads(phases[(k + 1) + 1]))
    BY <1>4, <1>9 DEF AliasInv
  <2>2. QED
    BY <1>2, <1>3, <1>4, <2>1
<1>10. a < b \/ b < a
  BY <1>7, <1>8
<1>11. QED
  BY <1>7, <1>9, <1>10

-----------------------------------------------------------------------------
(***************************************************************************)
(* Test 2 fills all windows before it looks at any of them: the higher one *)
(* of the two cells is filled last, and the lower one is looked at first.  *)
(***************************************************************************)
Reached(c) ==
    IF pc = "call" THEN phase > 1 ELSE \E v \in Start .. LastWord : Cell(v) = c /\ Behind(v)

Passed(c) ==
    \E w \in Windows : c \in SegmentCells(w) /\ (w < window \/ (w = window /\ Reached(c)))

OwnNow(c, d) ==
    /\ pc # "done"
    /\ stage = 0 /\ Passed(d) => mem[fault.other] = Number(d)
    /\ stage = 1 => ~Passed(c) /\ mem[fault.other] = Number(d)

OwnInv ==
    my_cpu = 0 /\ test = 2 /\ fault.kind = "alias" /\ errors = {} =>
        \A c, d \in {fault.cell, fault.other} : c < d => OwnNow(c, d)

OwnPhase(ph) ==
    /\ Whole(ph) /\ ph.up /\ ph.turn = "own+window" /\ ~ph.invert
    /\ (ph.check <=> stage = 1) /\ ph.put = IF stage = 0 THEN "same" ELSE "none"

LEMMA OwnPhases ==
    ASSUME CallInv, PhasesInv, test = 2
    PROVE  Len(phases) = 1 /\ OwnPhase(phases[1]) /\ stage \in {0, 1}
<1>1. stage \in {0, 1}
  BY StagesBy DEF CallInv
<1>2. phases = IF stage = 0 THEN <<Fill({}, "own+window")>> ELSE <<Check({}, "own+window")>>
  <2>1. PICK r : phases = Phases(test, stage, r)
    BY DEF PhasesInv
  <2>2. Phases(2, stage, r) =
          IF stage = 0 THEN <<Fill({}, "own+window")>> ELSE <<Check({}, "own+window")>>
    BY Switch
  <2>3. QED
    BY <2>1, <2>2
<1>3. Len(phases) = 1 /\ phases[1] = IF stage = 0 THEN Fill({}, "own+window") ELSE Check({}, "own+window")
  BY <1>2
<1>4. OwnPhase(phases[1])
  <2> DEFINE f == Fill({}, "own+window")
             c == Check({}, "own+window")
  <2>1. Whole(f) /\ f.up /\ f.turn = "own+window" /\ ~f.invert /\ ~f.check /\ f.put = "same"
    BY DEF Fill, March, Whole
  <2>2. Whole(c) /\ c.up /\ c.turn = "own+window" /\ ~c.invert /\ c.check /\ c.put = "none"
    BY DEF Check, March, Whole
  <2> HIDE DEF f, c
  <2>3. phases[1] = IF stage = 0 THEN f ELSE c
    BY <1>3 DEF f, c
  <2>4. stage = 0 => OwnPhase(phases[1])
    BY <2>1, <2>3 DEF OwnPhase
  <2>5. stage = 1 => OwnPhase(phases[1])
    BY <2>2, <2>3 DEF OwnPhase
  <2>6. QED
    BY <1>1, <2>4, <2>5
<1>5. QED
  BY <1>1, <1>3, <1>4

\* What test 2 writes to a word is the number of its cell.
LEMMA OwnNumber ==
    ASSUME CallInv, NEW v \in Start .. LastWord
    PROVE  v + OffsetOf(window) * PAGE_WORDS = Cell(v)
<1>1. /\ Start = FirstWord(window) /\ LastWord = FinalWord(window) /\ window \in Windows
      /\ Start \in Nat /\ LastWord \in Nat /\ \A i : Cell(i) = CellIn(window, i)
  BY RangeFacts, RangeCells
<1>2. PICK w \in Windows : w = window
  BY <1>1
<1> DEFINE F == Segments[w].first * PAGE_WORDS
           D == OffsetOf(w) * PAGE_WORDS
<1>3. FirstWord(w) + D = F
  BY MappedLow
<1>4. F \in Nat /\ CellIn(w, v) = v - FirstWord(w) + F
  BY <1>1, <1>2, CellsOf
<1>5. D \in Int
  <2>1. OffsetOf(w) \in Nat /\ PAGE_WORDS \in Nat
    BY MappedLow, MemTestsAssumption
  <2>2. QED
    BY <2>1
<1> HIDE DEF F, D
<1>6. v + D = CellIn(w, v)
  BY <1>1, <1>2, <1>3, <1>4, <1>5
<1>7. QED
  BY <1>1, <1>2, <1>6 DEF D

\* The windows are in the order of their cells.
LEMMA WindowsInOrder ==
    ASSUME NEW v \in Windows, NEW w \in Windows, NEW c \in SegmentCells(v), NEW d \in SegmentCells(w), c < d
    PROVE  v <= w
<1> SUFFICES ASSUME w < v PROVE FALSE
  BY DEF Windows
<1> DEFINE a == Segments[v].first
           b == Segments[w].last
<1>1. a \in Nat /\ b \in Nat /\ b + 1 <= a /\ PAGE_WORDS \in Nat
  BY MemTestsAssumption
<1>2. c >= a * PAGE_WORDS /\ d <= b * PAGE_WORDS + PAGE_WORDS - 1 /\ c \in Int /\ d \in Int
  BY DEF SegmentCells
<1> HIDE DEF a, b
<1>3. PICK k \in Nat : a = b + 1 + k
  <2>1. a - (b + 1) \in Nat /\ a = b + 1 + (a - (b + 1))
    BY <1>1
  <2>2. QED
    BY <2>1
<1>4. a * PAGE_WORDS = b * PAGE_WORDS + PAGE_WORDS + k * PAGE_WORDS
  BY <1>1, <1>3
<1>5. k * PAGE_WORDS \in Nat /\ b * PAGE_WORDS \in Nat /\ a * PAGE_WORDS \in Nat
  BY <1>1
<1> DEFINE x == a * PAGE_WORDS
           y == b * PAGE_WORDS
           z == k * PAGE_WORDS
<1>6. x = y + PAGE_WORDS + z /\ x \in Nat /\ y \in Nat /\ z \in Nat /\ c >= x /\ d <= y + PAGE_WORDS - 1
  BY <1>2, <1>4, <1>5
<1> HIDE DEF x, y, z
<1>7. QED
  BY <1>1, <1>2, <1>6

LEMMA CellsInOrder ==
    ASSUME CallInv, NEW u \in Start .. LastWord, NEW v \in Start .. LastWord
    PROVE  Cell(u) < Cell(v) <=> u < v
<1>1. PICK k \in Nat : \A i \in Start .. LastWord : Cell(i) = i - Start + k
  BY RangeSpan
<1>2. Start \in Nat /\ LastWord \in Nat
  BY RangeFacts
<1>3. QED
  BY <1>1, <1>2

LEMMA CellNumbers ==
    ASSUME NEW c \in Cells, NEW d \in Cells, c < d
    PROVE  Number(c) # Number(d)
<1>1. PICK w \in Windows : d \in SegmentCells(w)
  BY DEF Cells
<1>2. c \in Nat /\ d \in Nat
  <2>1. \A i \in Windows : Segments[i].first * PAGE_WORDS \in Nat
    BY MemTestsAssumption
  <2> HIDE DEF Windows
  <2>2. \A i \in Windows : SegmentCells(i) \subseteq Nat
    BY <2>1 DEF SegmentCells
  <2>3. QED
    BY <2>2 DEF Cells
<1>3. d <= Segments[w].last * PAGE_WORDS + PAGE_WORDS - 1
  BY <1>1 DEF SegmentCells
<1>4. Segments[w].last * PAGE_WORDS + PAGE_WORDS - 1 \in Int
  <2>1. Segments[w].last \in Nat /\ PAGE_WORDS \in Nat
    BY MemTestsAssumption
  <2>2. QED
    BY <2>1
<1> DEFINE last == Segments[w].last * PAGE_WORDS + PAGE_WORDS - 1
<1> HIDE DEF last
<1>5. c <= last /\ c # d
  BY <1>2, <1>3, <1>4 DEF last
<1>6. QED
  BY <1>2, <1>3, <1>5, AddressesDiffer DEF last

LEMMA OwnCur ==
    ASSUME CallInv, PhasesInv, test = 2, phase <= Len(phases)
    PROVE  phase = 1 /\ OwnPhase(Cur) /\ stage \in {0, 1}
<1>1. Len(phases) = 1 /\ OwnPhase(phases[1]) /\ stage \in {0, 1}
  BY OwnPhases
<1>2. phase = 1
  BY <1>1 DEF CallInv
<1>3. QED
  BY <1>1, <1>2 DEF Cur

LEMMA WordOwn ==
    ASSUME CallInv, PointerInv, PatternInv, FaultInv, my_cpu = 0, test = 2, fault.kind = "alias",
           Word, errors' = {}, NEW c \in {fault.cell, fault.other}, NEW d \in {fault.cell, fault.other},
           c < d, OwnNow(c, d)
    PROVE  OwnNow(c, d)'
<1>1. /\ phase <= Len(phases) /\ pc = "words" /\ WorkInv /\ MemInv /\ PhasesInv
      /\ p' = NextWord /\ UNCHANGED <<fault, window, phases, phase, stage>> /\ pc' \in {"words", "tick"}
  BY DEF CallInv, PatternInv, Word, ToNextWord, callVars
<1>2. Cur' = Cur /\ Start' = Start /\ LastWord' = LastWord /\ \A v : Cell(v)' = Cell(v)
  BY <1>1, Frame DEF Cell, Base
<1>3. GoodPhase(Cur) /\ OwnPhase(Cur) /\ stage \in {0, 1}
  BY <1>1, CurLinked, OwnCur
<1>4. /\ Start \in Nat /\ LastWord \in Nat /\ MODULO_N \in Nat \ {0, 1} /\ window \in Windows
      /\ Whole(Cur) /\ Cur.up /\ Windows = 1 .. Len(Segments)
  BY <1>3, RangeFacts DEF OwnPhase, Windows
<1>5. InBlock /\ Cur.step = 1 /\ Cur.skip = MODULO_N
  BY <1>1, <1>3, <1>4 DEF PointerInv, Whole, GoodPhase
<1>6. p \in Start .. LastWord /\ p' = p + 1
  BY <1>1, <1>4, <1>5 DEF InBlock, NextWord
<1>7. \A x \in Start .. LastWord : (Behind(x) <=> x < p) /\ (Behind(x)' <=> x <= p)
  BY <1>2, <1>4, <1>6 DEF Behind
<1>8. Expected = Number(Cell(p))
  <2>1. Expected = Want(Cur, SeedNow, window, p)
    BY <1>1, <1>4, <1>6, PatternGoesOn DEF WorkInv, WholeInv
  <2>2. Want(Cur, SeedNow, window, p) = Number(p + OffsetOf(window) * PAGE_WORDS)
    BY <1>3, PlainBy DEF Want, OwnPhase
  <2>3. QED
    BY <1>6, <2>1, <2>2, OwnNumber
<1>9. Cur.check => read_word(p) = Expected
  <2>1. \A x : Error(p, x) # {}
    BY DEF Error
  <2>2. QED
    BY <2>1 DEF Word
<1>10. (p - Start) % MODULO_N # Cur.skip
  <2>1. p - Start \in Nat
    BY <1>4, <1>6
  <2>2. PICK k \in Nat : k = p - Start
    BY <2>1
  <2>3. k % MODULO_N < MODULO_N
    BY <1>4
  <2>4. QED
    BY <1>4, <1>5, <2>2, <2>3
<1>11. Twin(p) <=> Cell(p) \in {c, d}
  <2>1. c # d /\ {c, d} = {fault.cell, fault.other}
    BY <1>1, FaultFacts, CellNumbers
  <2>2. QED
    BY <2>1 DEF Twin
<1>12. \A x : Passed(x)' => Passed(x) \/ Cell(p) = x
  <2> SUFFICES ASSUME NEW x, Passed(x)', Cell(p) # x PROVE Passed(x)
    OBVIOUS
  <2>1. PICK w \in Windows : x \in SegmentCells(w) /\ (w < window \/ (w = window /\ Reached(x)'))
    BY <1>1 DEF Passed
  <2>2. Reached(x)' => Reached(x)
    <3> SUFFICES ASSUME NEW v \in Start .. LastWord, Cell(v) = x, Behind(v)' PROVE Behind(v)
      BY <1>1, <1>2 DEF Reached
    <3>1. v # p
      OBVIOUS
    <3>2. QED
      BY <1>4, <1>6, <1>7, <3>1
  <2>3. QED
    BY <2>1, <2>2 DEF Passed
<1>13. pc' # "done"
  BY <1>1
<1>14. ASSUME stage = 0, Passed(d)' PROVE mem'[fault.other] = Number(d)
  <2>1. mem' = write_word(mem, p, Expected)
    BY <1>3, <1>10, <1>14 DEF Word, OwnPhase
  <2>2. mem'[fault.other] = IF Twin(p) THEN Expected ELSE mem[fault.other]
    BY <1>1, <2>1, AliasWrite
  <2>3. Cell(p) # c
    <3> SUFFICES ASSUME Cell(p) = c PROVE FALSE
      OBVIOUS
    <3>1. PICK w \in Windows : d \in SegmentCells(w) /\ (w < window \/ (w = window /\ Reached(d)'))
      BY <1>1, <1>14 DEF Passed
    <3>2. c \in SegmentCells(window)
      BY <1>4, <1>6, RangeCells
    <3>3. window <= w
      BY <1>4, <3>1, <3>2, WindowsInOrder
    <3>4. PICK v \in Start .. LastWord : Cell(v) = d /\ Behind(v)'
      BY <1>1, <1>2, <1>4, <3>1, <3>3 DEF Reached
    <3>5. p < v /\ v <= p
      BY <1>6, <1>7, <3>4, CellsInOrder
    <3>6. QED
      BY <1>4, <1>6, <3>5
  <2>4. CASE Cell(p) = d
    BY <1>8, <1>11, <2>2, <2>4
  <2>5. CASE Cell(p) # d
    <3>1. Passed(d) /\ ~Twin(p)
      BY <1>11, <1>12, <1>14, <2>3, <2>5
    <3>2. QED
      BY <1>14, <2>2, <3>1 DEF OwnNow
  <2>6. QED
    BY <2>4, <2>5
<1>15. ASSUME stage = 1 PROVE ~Passed(c)' /\ mem'[fault.other] = Number(d)
  <2>1. mem' = mem /\ read_word(p) = Expected
    BY <1>3, <1>9, <1>15 DEF Word, OwnPhase
  <2>2. ~Passed(c) /\ mem[fault.other] = Number(d)
    BY <1>15 DEF OwnNow
  <2>3. Cell(p) # c
    <3> SUFFICES ASSUME Cell(p) = c PROVE FALSE
      OBVIOUS
    <3>1. read_word(p) = mem[fault.other]
      BY <1>11, AliasReads
    <3>2. Number(c) = Number(d)
      BY <1>8, <2>1, <2>2, <3>1
    <3>3. QED
      BY <3>2, FaultFacts, CellNumbers
  <2>4. QED
    BY <1>12, <2>1, <2>2, <2>3
<1>16. QED
  BY <1>1, <1>13, <1>14, <1>15 DEF OwnNow

LEMMA OwnFrame ==
    ASSUME OwnInv, UNCHANGED <<fault, window, test, stage, mem>>, my_cpu' = 0 => my_cpu = 0,
           errors \subseteq errors', pc' = "done" => pc = "done",
           ASSUME NEW x \in SegmentCells(window), my_cpu = 0, test = 2, Reached(x)' PROVE Reached(x)
    PROVE  OwnInv'
<1>1. SUFFICES ASSUME my_cpu' = 0, test = 2, fault.kind = "alias", errors' = {},
                      NEW c \in {fault.cell, fault.other}, NEW d \in {fault.cell, fault.other}, c < d
               PROVE  OwnNow(c, d)'
  BY DEF OwnInv
<1>2. my_cpu = 0 /\ errors = {}
  BY <1>1
<1>3. OwnNow(c, d)
  BY <1>1, <1>2 DEF OwnInv
<1>4. \A x : Passed(x)' => Passed(x)
  <2>1. \A x \in SegmentCells(window) : Reached(x)' => Reached(x)
    BY <1>1, <1>2
  <2>2. QED
    BY <2>1 DEF Passed
<1>5. QED
  BY <1>3, <1>4 DEF OwnNow

LEMMA CallOwn ==
    ASSUME CallInv, PatternInv, FaultInv, OwnInv, EndCall
    PROVE  OwnInv'
<1> SUFFICES ASSUME my_cpu' = 0, test = 2, fault.kind = "alias", errors = {},
                    NEW c \in {fault.cell, fault.other}, NEW d \in {fault.cell, fault.other}, c < d
             PROVE  OwnNow(c, d)'
  BY DEF OwnInv, EndCall
<1>1. /\ pc = "call" /\ phase > Len(phases) /\ phase' = 1 /\ UNCHANGED <<fault, test, errors, mem>>
      /\ window \in Windows /\ Windows = 1 .. Len(Segments) /\ Len(Segments) \in Nat /\ PhasesInv
  BY MemTestsAssumption DEF EndCall, CallInv, PatternInv, Windows
<1>2. Len(phases) = 1 /\ stage \in {0, 1} /\ Stages(test) = 2 /\ phase > 1
  BY <1>1, OwnPhases, StagesBy
<1>3. \/ /\ window < Len(Segments)
         /\ window' = window + 1 /\ UNCHANGED <<pc, stage, my_cpu>>
      \/ /\ window = Len(Segments) /\ stage + 1 < Stages(test)
         /\ window' = 1 /\ stage' = stage + 1 /\ UNCHANGED <<pc, my_cpu>>
      \/ /\ window = Len(Segments) /\ stage + 1 = Stages(test)
         /\ window' = 1 /\ stage' = 0
         /\ \/ my_cpu = -1 /\ my_cpu' = 0 /\ UNCHANGED pc
            \/ my_cpu = 0 /\ pc' = "done" /\ UNCHANGED my_cpu
  BY EndCallMoves
<1>4. ASSUME NEW x, pc' = "call", Passed(x)' PROVE \E w \in Windows : x \in SegmentCells(w) /\ w < window'
  <2>1. ~Reached(x)'
    BY <1>1, <1>4 DEF Reached
  <2>2. QED
    BY <1>4, <2>1 DEF Passed
<1>5. ASSUME window' = 1, pc' = "call" PROVE ~Passed(c)' /\ ~Passed(d)'
  BY <1>1, <1>4, <1>5
<1>6. CASE my_cpu # 0
  <2>1. window' = 1 /\ stage' = 0 /\ pc' = "call"
    BY <1>1, <1>3, <1>6
  <2>2. QED
    BY <1>5, <2>1 DEF OwnNow
<1>7. CASE my_cpu = 0
  <2>1. OwnNow(c, d)
    BY <1>7 DEF OwnInv
  <2>2. ASSUME NEW x, NEW w \in Windows, x \in SegmentCells(w), w <= window PROVE Passed(x)
    <3>1. Reached(x)
      BY <1>1, <1>2 DEF Reached
    <3>2. w < window \/ w = window
      BY <1>1, <2>2
    <3>3. QED
      BY <2>2, <3>1, <3>2 DEF Passed
  <2>3. CASE window < Len(Segments)
    <3>1. window' = window + 1 /\ pc' = "call" /\ stage' = stage
      BY <1>1, <1>3, <2>3
    <3>2. \A x : Passed(x)' => Passed(x)
      <4> SUFFICES ASSUME NEW x, Passed(x)' PROVE Passed(x)
        OBVIOUS
      <4>1. PICK w \in Windows : x \in SegmentCells(w) /\ w < window'
        BY <1>4, <3>1
      <4>2. w <= window
        BY <1>1, <3>1, <4>1
      <4>3. QED
        BY <2>2, <4>1, <4>2
    <3>3. QED
      BY <1>1, <2>1, <3>1, <3>2 DEF OwnNow
  <2>4. CASE window = Len(Segments)
    <3>1. ASSUME NEW x \in {c, d} PROVE Passed(x)
      <4>1. x \in Cells
        BY FaultFacts
      <4>2. PICK w \in Windows : x \in SegmentCells(w)
        BY <4>1 DEF Cells
      <4>3. w <= window
        BY <1>1, <2>4
      <4>4. QED
        BY <2>2, <4>2, <4>3
    <3>2. stage = 0
      BY <1>2, <2>1, <3>1 DEF OwnNow
    <3>3. window' = 1 /\ pc' = "call" /\ stage' = 1
      BY <1>1, <1>2, <1>3, <2>4, <3>2
    <3>4. mem[fault.other] = Number(d)
      BY <2>1, <3>1, <3>2 DEF OwnNow
    <3>5. QED
      BY <1>1, <1>5, <3>3, <3>4 DEF OwnNow
  <2>5. QED
    BY <1>1, <2>3, <2>4
<1>8. QED
  BY <1>6, <1>7

LEMMA NextOwn ==
    ASSUME CallInv, PointerInv, PatternInv, FaultInv, OwnInv, [Next]_vars
    PROVE  OwnInv'
<1> SUFFICES ASSUME test' = 2, my_cpu' = 0, fault'.kind = "alias", errors' = {} PROVE OwnInv'
  BY DEF OwnInv
<1>1. ASSUME WordStep PROVE OwnInv'
  <2>1. /\ UNCHANGED <<fault, window, my_cpu, phases, phase, test, stage>> /\ phase <= Len(phases)
        /\ errors \subseteq errors'
    BY <1>1, WordStepKeeps DEF WordStep, Word, ToNextWord, PairWord, BlockWords, MoveUp, MoveDown,
       Sleep, WalkFirst, WalkSecond, callVars, CallInv
  <2>2. Cur.kind = "march"
    BY <2>1, OwnCur DEF OwnPhase, Whole, PatternInv
  <2>3. Word
    BY <1>1, <2>2 DEF WordStep, PairWord, BlockWords, MoveUp, MoveDown, Sleep, WalkFirst, WalkSecond
  <2>4. QED
    BY <2>1, <2>3, WordOwn DEF OwnInv
<1>2. CASE BeginPhase
  <2>1. /\ UNCHANGED <<fault, window, test, stage, my_cpu, mem, errors, phases, phase>>
        /\ pc' = "words" /\ phase <= Len(phases)
    BY <1>2 DEF BeginPhase, callVars, Enter
  <2>2. Start' = Start /\ LastWord' = LastWord /\ \A v : Cell(v)' = Cell(v)
    BY <2>1 DEF Start, LastWord, Base, Cell
  <2>3. Whole(Cur)
    BY <2>1, OwnCur DEF OwnPhase, PatternInv
  <2>4. \A v \in Start .. LastWord : ~Behind(v)'
    BY <1>2, <2>1, <2>3, PhaseBegun
  <2>5. \A x : ~Reached(x)'
    BY <2>1, <2>2, <2>4 DEF Reached
  <2>6. QED
    BY <2>1, <2>5, OwnFrame
<1>3. CASE SkipSleep
  <2>1. phase <= Len(phases) /\ Cur.kind = "sleep" /\ UNCHANGED test
    BY <1>3 DEF SkipSleep, Slept, callVars
  <2>2. QED
    BY <2>1, OwnCur DEF OwnPhase, Whole, PatternInv
<1>4. CASE EndBlock
  <2>1. /\ UNCHANGED <<fault, window, test, stage, my_cpu, mem, errors, phases, p>> /\ pc = "tick"
        /\ phase <= Len(phases) /\ pc' \in {"bailed", "words", "tick", "call"}
    BY <1>4 DEF EndBlock, callVars, CallInv, Enter
  <2>2. Start' = Start /\ LastWord' = LastWord /\ \A v : Cell(v)' = Cell(v)
    BY <2>1 DEF Start, LastWord, Base, Cell
  <2>3. \/ phase' = phase /\ pc' # "call"
        \/ phase' = phase + 1 /\ pc' = "call" /\ AtEnd
    BY <1>4, <2>1 DEF EndBlock, Enter
  <2>4. ASSUME NEW x \in SegmentCells(window), Reached(x)' PROVE Reached(x)
    <3>1. CASE phase' = phase /\ pc' # "call"
      <4>1. Cur' = Cur
        BY <2>1, <3>1, Frame
      <4>2. \A v : Behind(v)' <=> Behind(v)
        BY <2>1, <4>1 DEF Behind
      <4>3. QED
        BY <2>1, <2>2, <2>4, <3>1, <4>2 DEF Reached
    <3>2. CASE phase' = phase + 1 /\ pc' = "call" /\ AtEnd
      <4>1. PICK v \in Start .. LastWord : Cell(v) = x
        BY RangeOnto
      <4>2. Whole(Cur)
        BY <2>1, OwnCur DEF OwnPhase, PatternInv
      <4>3. Behind(v)
        BY <2>1, <3>2, <4>2, PhaseDone
      <4>4. QED
        BY <2>1, <4>1, <4>3 DEF Reached
    <3>3. QED
      BY <2>3, <3>1, <3>2
  <2>5. QED
    BY <2>1, <2>4, OwnFrame
<1>5. CASE EndCall
  BY <1>5, CallOwn
<1>6. CASE UNCHANGED vars
  <2>1. UNCHANGED <<fault, window, test, stage, my_cpu, mem, errors, phases, phase, p, pc>>
    BY <1>6 DEF vars, callVars, blockVars
  <2>2. Start' = Start /\ LastWord' = LastWord /\ (\A v : Cell(v)' = Cell(v)) /\ Cur' = Cur
    BY <2>1, Frame DEF Start, LastWord, Base, Cell
  <2>3. \A v : Behind(v)' <=> Behind(v)
    BY <2>1, <2>2 DEF Behind
  <2>4. \A x : Reached(x)' <=> Reached(x)
    BY <2>1, <2>2, <2>3 DEF Reached
  <2>5. QED
    BY <2>1, <2>4, OwnFrame
<1>7. QED
  BY <1>1, <1>2, <1>3, <1>4, <1>5, <1>6 DEF Next, Run, Over, WordStep

-----------------------------------------------------------------------------
(***************************************************************************)
(* The other tests have been through no window that has both addresses.    *)
(***************************************************************************)
ApartInv ==
    my_cpu = 0 /\ test # 2 /\ fault.kind = "alias" /\ errors = {}
        /\ FindsAlias(fault.cell, fault.other) =>
        /\ pc # "done"
        /\ \A w \in Windows : {fault.cell, fault.other} \subseteq SegmentCells(w) => window <= w

LEMMA CallApart ==
    ASSUME CallInv, PatternInv, FaultInv, AliasInv, ApartInv, EndCall
    PROVE  ApartInv'
<1>1. /\ pc = "call" /\ phase > Len(phases) /\ UNCHANGED <<fault, test, errors>>
      /\ window \in Windows /\ stage \in 0 .. Stages(test) - 1 /\ Windows = 1 .. Len(Segments)
      /\ Len(Segments) \in Nat /\ PhasesInv /\ test \in Tests
  BY MemTestsAssumption DEF EndCall, CallInv, PatternInv, Windows
<1>2. \/ /\ window < Len(Segments)
         /\ window' = window + 1 /\ UNCHANGED <<pc, stage, my_cpu>>
      \/ /\ window = Len(Segments) /\ stage + 1 < Stages(test)
         /\ window' = 1 /\ stage' = stage + 1 /\ UNCHANGED <<pc, my_cpu>>
      \/ /\ window = Len(Segments) /\ stage + 1 = Stages(test)
         /\ window' = 1 /\ stage' = 0
         /\ \/ my_cpu = -1 /\ my_cpu' = 0 /\ UNCHANGED pc
            \/ my_cpu = 0 /\ pc' = "done" /\ UNCHANGED my_cpu
  BY EndCallMoves
<1>3. FindsAlias(fault.cell, fault.other)' <=> FindsAlias(fault.cell, fault.other)
  BY <1>1 DEF FindsAlias
<1> SUFFICES ASSUME my_cpu' = 0, test # 2, fault.kind = "alias", errors = {},
                    FindsAlias(fault.cell, fault.other)
             PROVE  /\ pc' # "done"
                    /\ \A w \in Windows :
                         {fault.cell, fault.other} \subseteq SegmentCells(w) => window' <= w
  BY <1>1, <1>3 DEF ApartInv
<1>4. CASE my_cpu # 0
  BY <1>1, <1>2, <1>4
<1>5. CASE my_cpu = 0
  <2>1. test \in {1, 3, 4, 5, 6, 8} /\ SameWindow(fault.cell, fault.other)
    BY DEF FindsAlias
  <2>2. PICK w \in Windows : {fault.cell, fault.other} \subseteq SegmentCells(w)
    BY <2>1 DEF SameWindow
  <2>3. PICK r \in Readings(test) : phases = Phases(test, stage, r)
    BY <1>1 DEF PhasesInv
  <2>4. Refilled(phases)
    BY <1>1, <2>1, <2>3, InversionsFound DEF Swept
  <2>5. ~({fault.cell, fault.other} \subseteq SegmentCells(window))
    BY <1>1, <1>5, <2>4, AliasNotMissed
  <2>6. \A i \in Windows : {fault.cell, fault.other} \subseteq SegmentCells(i) => window < i
    <3>1. \A i \in Windows : {fault.cell, fault.other} \subseteq SegmentCells(i) => window <= i /\ i # window
      BY <1>5, <2>5 DEF ApartInv
    <3>2. QED
      BY <1>1, <3>1
  <2>7. window < Len(Segments)
    BY <1>1, <2>2, <2>6
  <2>8. window' = window + 1 /\ pc' = "call"
    BY <1>1, <1>2, <2>7
  <2>9. QED
    BY <1>1, <2>6, <2>8
<1>6. QED
  BY <1>4, <1>5

LEMMA NextApart ==
    ASSUME CallInv, PatternInv, FaultInv, AliasInv, ApartInv, [Next]_vars
    PROVE  ApartInv'
<1>1. CASE EndCall
  BY <1>1, CallApart
<1>2. CASE ~EndCall
  <2>1. UNCHANGED <<fault, test, window, my_cpu>> /\ (pc' = "done" => pc = "done")
    <3>1. CASE WordStep
      BY <3>1, WordStepKeeps DEF WordStep, Word, ToNextWord, PairWord, BlockWords, MoveUp, MoveDown,
         Sleep, WalkFirst, WalkSecond
    <3>2. CASE ~WordStep
      BY <1>2, <3>2 DEF Next, Run, Over, WordStep, BeginPhase, SkipSleep, EndBlock, Enter, vars, callVars
    <3>3. QED
      BY <3>1, <3>2
  <2>2. errors' = {} => errors = {}
    BY ErrorsGrow
  <2>3. FindsAlias(fault.cell, fault.other)' <=> FindsAlias(fault.cell, fault.other)
    BY <2>1 DEF FindsAlias
  <2>4. QED
    BY <2>1, <2>2, <2>3 DEF ApartInv
<1>3. QED
  BY <1>1, <1>2

TwinInv == AliasInv /\ OwnInv /\ ApartInv

LEMMA NextTwinInv == CallInv /\ PointerInv /\ PatternInv /\ HuntInv /\ TwinInv /\ [Next]_vars => TwinInv'
<1> SUFFICES ASSUME CallInv, PointerInv, PatternInv, HuntInv, TwinInv, [Next]_vars PROVE TwinInv'
  OBVIOUS
<1>1. FaultInv
  BY DEF HuntInv
<1>2. AliasInv'
  BY <1>1, StepAliases, RestAliases DEF TwinInv
<1>3. OwnInv'
  BY <1>1, NextOwn DEF TwinInv
<1>4. ApartInv'
  BY <1>1, NextApart DEF TwinInv
<1>5. QED
  BY <1>2, <1>3, <1>4 DEF TwinInv

LEMMA InitTwinInv == Init => TwinInv
  BY DEF Init, TwinInv, AliasInv, OwnInv, ApartInv

LEMMA TwinFinds == HuntInv /\ TwinInv => AliasFound
<1> SUFFICES ASSUME HuntInv, TwinInv, pc = "done", fault.kind = "alias",
                    FindsAlias(fault.cell, fault.other), errors = {}
             PROVE  FALSE
  BY DEF AliasFound
<1>1. my_cpu = 0 /\ FaultInv
  BY DEF HuntInv, FoundInv
<1>2. test = 2
  BY <1>1 DEF TwinInv, ApartInv
<1>3. ~(fault.cell < fault.other) /\ ~(fault.other < fault.cell)
  BY <1>1, <1>2 DEF TwinInv, OwnInv, OwnNow
<1>4. fault.cell \in Cells /\ fault.other \in Cells /\ fault.cell # fault.other
  BY <1>1, FaultFacts
<1>5. Cells \subseteq Nat
  <2>1. \A i \in Windows : Segments[i].first * PAGE_WORDS \in Nat
    <3>1. \A i \in Windows : Segments[i].first \in Nat /\ PAGE_WORDS \in Nat
      BY MemTestsAssumption
    <3> HIDE DEF Windows
    <3>2. QED
      BY <3>1
  <2> HIDE DEF Windows
  <2>2. \A i \in Windows : SegmentCells(i) \subseteq Nat
    BY <2>1 DEF SegmentCells
  <2>3. QED
    BY <2>2 DEF Cells
<1>6. \A c, d \in Nat : c < d \/ d < c \/ c = d
  OBVIOUS
<1>7. QED
  BY <1>3, <1>4, <1>5, <1>6

(***************************************************************************)
(* README.md, "Test 2": two addresses that reach the same cell are found,  *)
(* by test 2 wherever the two are, though it fills all windows before it   *)
(* looks at the first, and by the own address test and the moving          *)
(* inversions when they are in one window.                                 *)
(***************************************************************************)
THEOREM AliasAlwaysFound == Spec => []AliasFound
  BY AlwaysInv, InitPatternInv, NextPatternInv, InitHuntInv, NextHuntInv, InitTwinInv, NextTwinInv,
     TwinFinds, PTL DEF Spec

-----------------------------------------------------------------------------
(***************************************************************************)
(* The types.  Every write is a testword: of the pattern, or of a word     *)
(* that was read, in the block move only, where all words that are moved   *)
(* have been written, so that they hold no more what the memory held.      *)
(***************************************************************************)
Filled(v) == \A c \in Hits(Cell(v)) : mem[c] \in Words

AllFilled == \A v \in Start .. LastWord : Filled(v)

FilledInv ==
    my_cpu = 0 =>
        /\ pc \in {"words", "tick"} /\ Cur.kind = "blocks" =>
             \A v \in Start .. LastWord : v < p \/ (pc = "tick" /\ v <= pe) => Filled(v)
        /\ pc \in {"words", "tick"} /\ Cur.kind \in {"move", "pairs"} => AllFilled
        /\ pc = "call" /\ phase > 1 /\ phases[phase - 1].kind \in {"blocks", "move", "pairs"} => AllFilled

MemTyped == \A c \in DOMAIN mem : mem[c] \in Words \cup {{TESTWORD_WIDTH + c}}

OnlyWords == DOMAIN mem' = DOMAIN mem /\ \A c \in DOMAIN mem : mem'[c] \in Words \/ mem'[c] = mem[c]

LEMMA HitsCells ==
    ASSUME FaultInv, NEW c \in Cells
    PROVE  Hits(c) \subseteq Cells
<1>1. /\ fault.kind = "alias" /\ c = fault.cell => Hits(c) = {fault.other}
      /\ fault.kind = "couple" /\ c = fault.cell => Hits(c) = {c, fault.other}
      /\ ~(fault.kind \in {"alias", "couple"} /\ c = fault.cell) => Hits(c) = {c}
  BY Zenon DEF Hits
<1>2. QED
  BY <1>1, FaultFacts

LEMMA LastIn ==
    ASSUME NEW b \in Nat, NEW S, S \subseteq 0 .. b, S # {}
    PROVE  \E v \in S : \A u \in S : u <= v
<1> DEFINE T == {n \in Nat : b - n \in S}
<1>1. T # {}
  <2>1. PICK v : v \in S
    OBVIOUS
  <2>2. b - v \in Nat /\ b - (b - v) = v
    BY <2>1
  <2>3. QED
    BY <2>1, <2>2
<1>2. PICK n \in T : \A k \in T : n <= k
  <2>1. T \subseteq Nat
    OBVIOUS
  <2> HIDE DEF T
  <2>2. QED
    BY <1>1, <2>1, LeastNat
<1>3. b - n \in S /\ n \in Nat
  OBVIOUS
<1>4. ASSUME NEW u \in S PROVE u <= b - n
  <2>1. b - u \in Nat /\ b - (b - u) = u
    OBVIOUS
  <2>2. b - u \in T
    BY <2>1
  <2>3. n <= b - u
    BY <1>2, <2>2
  <2>4. QED
    BY <1>3, <2>1, <2>3
<1>5. QED
  BY <1>3, <1>4

LEMMA WritesTyped ==
    ASSUME CallInv, MemInv, FaultInv, NEW f, DOMAIN f \subseteq Start .. LastWord,
           \A v \in DOMAIN f : f[v] \in Words, mem' = write_words(mem, f)
    PROVE  /\ OnlyWords
           /\ \A v \in DOMAIN f : \A c \in Hits(Cell(v)) : mem'[c] \in Words
<1> DEFINE D == DOMAIN f
           hit == [v \in D |-> Hits(Cell(v))]
           hits(c) == {v \in D : c \in hit[v]}
           written == UNION {hit[v] : v \in D}
           last(c) == CHOOSE v \in hits(c) : \A u \in hits(c) : u <= v
           g == [c \in DOMAIN mem |-> IF c \in written THEN f[last(c)] ELSE mem[c]]
<1>1. mem' = g
  BY DEF write_words
<1>2. ASSUME NEW c \in written PROVE f[last(c)] \in Words
  <2>1. hits(c) # {} /\ hits(c) \subseteq D
    OBVIOUS
  <2>2. Start \in Nat /\ LastWord \in Nat /\ hits(c) \subseteq 0 .. LastWord
    BY <2>1, RangeFacts
  <2> HIDE DEF hits
  <2>3. \E v \in hits(c) : \A u \in hits(c) : u <= v
    BY <2>1, <2>2, LastIn
  <2>4. last(c) \in hits(c)
    BY <2>3
  <2> HIDE DEF last
  <2>5. QED
    BY <2>1, <2>4
<1>3. ASSUME NEW v \in D, NEW c \in Hits(Cell(v)) PROVE c \in written /\ c \in DOMAIN mem
  <2>1. Cell(v) \in Cells
    BY RangeCells DEF CallInv
  <2>2. c \in Cells
    BY <1>3, <2>1, HitsCells
  <2>3. hit[v] = Hits(Cell(v))
    OBVIOUS
  <2>4. QED
    BY <1>3, <2>2, <2>3 DEF MemInv
<1> HIDE DEF last, written
<1>4. DOMAIN g = DOMAIN mem /\ \A c \in DOMAIN mem : g[c] = IF c \in written THEN f[last(c)] ELSE mem[c]
  OBVIOUS
<1> HIDE DEF g
<1>5. OnlyWords
  BY <1>1, <1>2, <1>4 DEF OnlyWords
<1>6. QED
  BY <1>1, <1>2, <1>3, <1>4, <1>5

LEMMA WriteTyped ==
    ASSUME NEW a, NEW x \in Words, mem' = write_word(mem, a, x)
    PROVE  OnlyWords
<1>1. mem' = [c \in DOMAIN mem |-> IF c \in Hits(Cell(a)) THEN x ELSE mem[c]]
  BY DEF write_word
<1>2. QED
  BY <1>1 DEF OnlyWords

LEMMA StillFilled ==
    ASSUME CallInv, MemInv, FaultInv, OnlyWords, UNCHANGED <<fault, window>>
    PROVE  /\ Start' = Start /\ LastWord' = LastWord
           /\ \A v \in Start .. LastWord : Filled(v) => Filled(v)'
           /\ AllFilled => AllFilled'
<1>1. Start' = Start /\ LastWord' = LastWord /\ \A v : Cell(v)' = Cell(v)
  BY DEF Start, LastWord, Base, Cell
<1>2. \A c : Hits(c)' = Hits(c)
  BY DEF Hits
<1>3. ASSUME NEW v \in Start .. LastWord, Filled(v) PROVE Filled(v)'
  <2>1. Cell(v) \in Cells
    BY RangeCells DEF CallInv
  <2>2. SUFFICES ASSUME NEW c \in Hits(Cell(v)) PROVE mem'[c] \in Words
    BY <1>1, <1>2 DEF Filled
  <2>3. c \in DOMAIN mem
    BY <2>1, HitsCells DEF MemInv
  <2>4. QED
    BY <1>3, <2>3 DEF Filled, OnlyWords
<1>4. QED
  BY <1>1, <1>3 DEF AllFilled

LEMMA FilledReads ==
    ASSUME FaultInv, NEW v, Filled(v)
    PROVE  read_word(v) \in Words
<1> DEFINE c == Cell(v)
<1>1. /\ fault.kind = "stuck" /\ c = fault.cell => read_word(v) = (mem[c] \cup fault.ones) \ fault.zeros
      /\ fault.kind = "alias" /\ c = fault.cell => read_word(v) = mem[fault.other]
      /\ ~(fault.kind \in {"stuck", "alias"} /\ c = fault.cell) => read_word(v) = mem[c]
  BY Zenon DEF read_word, Read
<1>2. /\ fault.kind = "alias" /\ c = fault.cell => fault.other \in Hits(c)
      /\ ~(fault.kind = "alias" /\ c = fault.cell) => c \in Hits(c)
  BY Zenon DEF Hits
<1>3. \A x \in Hits(c) : mem[x] \in Words
  BY DEF Filled
<1> HIDE DEF c
<1>4. CASE fault.kind = "alias" /\ c = fault.cell
  BY <1>1, <1>2, <1>3, <1>4
<1>5. CASE fault.kind = "stuck" /\ c = fault.cell
  <2>1. mem[c] \in Words /\ fault.ones \in Words
    BY <1>2, <1>3, <1>5, FaultFacts
  <2>2. (mem[c] \cup fault.ones) \ fault.zeros \in Words
    BY <2>1 DEF Words
  <2>3. QED
    BY <1>1, <1>5, <2>2
<1>6. CASE ~(fault.kind \in {"stuck", "alias"} /\ c = fault.cell)
  BY <1>1, <1>2, <1>3, <1>6
<1>7. QED
  BY <1>4, <1>5, <1>6

LEMMA TurnedWord ==
    ASSUME pattern \in Words
    PROVE  Turned \in Words /\ Expected \in Words /\ Onwards \in Words
<1>1. RotateRight(pattern) \in Words
  <2>1. TESTWORD_WIDTH \in Nat \ {0}
    BY MemTestsAssumption
  <2>2. \A i \in Bits : (i + TESTWORD_WIDTH - 1) % TESTWORD_WIDTH \in Bits
    BY <2>1 DEF Bits
  <2>3. QED
    BY <2>2 DEF RotateRight, Words
<1>2. Turned \in Words
  <2>1. \A n : Number(n) \in Words
    BY WordsClosed
  <2>2. prsg(pattern) \in Words
    BY WordsClosed
  <2>3. QED
    BY <1>1, <2>1, <2>2, Zenon DEF Turned
<1>3. \A x : Not(x) \in Words
  BY DEF Not, Words
<1>4. QED
  BY <1>2, <1>3, WordsClosed DEF Expected, Onwards

LEMMA WordTyped ==
    ASSUME CallInv, FaultInv, PatternInv, pattern \in Words, Word
    PROVE  OnlyWords /\ pattern' \in Words
<1>1. /\ Turned \in Words /\ Expected \in Words /\ Onwards \in Words
      /\ Not(Expected) \in Words
  BY TurnedWord DEF Not, Words
<1>2. pattern' = Onwards
  BY DEF Word, Onwards
<1>3. mem' = mem \/ \E x \in Words : mem' = write_word(mem, p, x)
  BY <1>1 DEF Word
<1>4. mem' = mem => OnlyWords
  BY DEF OnlyWords
<1>5. QED
  BY <1>1, <1>2, <1>3, <1>4, WriteTyped

LEMMA WalkTyped ==
    ASSUME pattern \in Words, WalkFirst \/ WalkSecond
    PROVE  OnlyWords /\ pattern' \in Words
<1>1. \A v, b : WalkValue(v, b) \in Words
  BY WordsClosed DEF WalkValue, Not, Words
<1>2. pattern' = pattern
  BY DEF WalkFirst, WalkSecond
<1>3. mem' = mem => OnlyWords
  BY DEF OnlyWords
<1>4. CASE WalkFirst
  <2>1. mem' = mem \/ mem' = write_word(mem, Masked(p), WalkValue(Masked(p), Cur.invert))
    BY <1>4 DEF WalkFirst
  <2>2. QED
    BY <1>1, <1>2, <1>3, <2>1, WriteTyped
<1>5. CASE WalkSecond
  <2> DEFINE p1 == Masked(p)
             p2 == Masked(q)
             x == WalkValue(p1, Cur.invert)
             y == WalkValue(p2, ~Cur.invert)
             after == write_word(mem, p2, y)
  <2>1. mem' = mem \/ mem' = after \/ mem' = write_word(after, p1, x)
    BY <1>5, Zenon DEF WalkSecond
  <2>2. x \in Words /\ y \in Words
    BY <1>1
  <2> HIDE DEF x, y, p1, p2
  <2>3. mem' = after => OnlyWords
    BY <2>2, WriteTyped
  <2>4. mem' = write_word(after, p1, x) => OnlyWords
    BY <2>2 DEF OnlyWords, write_word
  <2>5. QED
    BY <1>2, <1>3, <2>1, <2>3, <2>4
<1>6. QED
  BY <1>4, <1>5

LEMMA BlocksTyped ==
    ASSUME CallInv, PointerInv, PatternInv, FaultInv, FilledInv, pattern \in Words, BlockWords
    PROVE  OnlyWords /\ pattern' \in Words /\ FilledInv'
<1>1. WordDone
  BY WordFrame DEF WordStep
<1>2. Start' = Start /\ LastWord' = LastWord /\ Cur' = Cur
  BY <1>1, Frame DEF WordDone
<1>3. Start \in Nat /\ LastWord \in Nat
  BY RangeFacts
<1>4. Cur.kind = "blocks" /\ Cur.step = 16 /\ MemInv
  BY <1>1, CurLinked DEF PatternInv, WordDone, BlockWords, GoodPhase
<1>5. /\ p \in Start .. LastWord /\ pe \in Start .. LastWord /\ p + 15 <= pe
  BY <1>1, <1>4 DEF PointerInv, InRange, WordDone
<1> DEFINE f == [v \in p .. p + 15 |->
                    IF v - p \in {4, 5, 10, 11, 14, 15} THEN Not(pattern) ELSE pattern]
<1>6. mem' = write_words(mem, f) /\ pattern' = RotateLeft(pattern)
  BY DEF BlockWords
<1>7. /\ p' = IF p <= pe - 16 THEN p + 16 ELSE p
      /\ pc' = IF p <= pe - 16 THEN "words" ELSE "tick"
  BY <1>4 DEF BlockWords, ToNextWord, NextWord, MoreWords
<1>8. \A v \in DOMAIN f : f[v] \in Words
  BY DEF Not, Words
<1>9. DOMAIN f = p .. p + 15 /\ p .. p + 15 \subseteq Start .. LastWord
  BY <1>3, <1>5
<1> HIDE DEF f
<1>10. OnlyWords /\ \A v \in p .. p + 15 : \A c \in Hits(Cell(v)) : mem'[c] \in Words
  BY <1>4, <1>6, <1>8, <1>9, WritesTyped
<1>11. \A c : Hits(c)' = Hits(c)
  BY <1>1 DEF Hits, WordDone
<1>12. \A v : Cell(v)' = Cell(v)
  BY <1>1 DEF Cell, Base, WordDone
<1>13. ASSUME NEW v \in Start .. LastWord, v <= p + 15
       PROVE  Filled(v)'
  <2>1. CASE v < p
    <3>1. Filled(v)
      BY <1>1, <1>4, <2>1 DEF FilledInv, WordDone
    <3>2. QED
      BY <1>1, <1>4, <1>10, <3>1, StillFilled DEF WordDone
  <2>2. CASE ~(v < p)
    <3>1. v \in p .. p + 15
      BY <1>3, <1>5, <1>13, <2>2
    <3>2. QED
      BY <1>10, <1>11, <1>12, <3>1 DEF Filled
  <2>3. QED
    BY <2>1, <2>2
<1>14. pc' = "tick" => p + 15 = pe
  <2>1. p % 16 = 0 /\ pe % 16 = 15
    BY <1>1, <1>4 DEF PointerInv, WordDone
  <2>2. QED
    BY <1>3, <1>5, <1>7, <2>1
<1>15. \A v \in Start .. LastWord : v < p' \/ (pc' = "tick" /\ v <= pe) => Filled(v)'
  BY <1>3, <1>5, <1>7, <1>13, <1>14
<1>16. FilledInv'
  <2>1. pc' \in {"words", "tick"} /\ pe' = pe
    BY <1>1, <1>7 DEF WordDone
  <2>2. QED
    BY <1>2, <1>4, <1>15, <2>1 DEF FilledInv
<1>17. QED
  BY <1>6, <1>10, <1>16, WordsClosed

LEMMA MovesTyped ==
    ASSUME CallInv, PointerInv, PatternInv, FaultInv, FilledInv, MoveUp \/ MoveDown
    PROVE  OnlyWords
<1>1. WordDone
  BY WordFrame DEF WordStep
<1>2. Cur.kind = "move"
  BY DEF MoveUp, MoveDown
<1>3. /\ Start \in Nat /\ LastWord \in Nat /\ p = Start /\ pe \in Start .. LastWord
      /\ Half \in Nat /\ Half >= 8 /\ p + 2 * Half - 1 = pe
  BY <1>1, <1>2, HalfFacts, RangeFacts
<1>4. \A v \in Start .. LastWord : read_word(v) \in Words
  BY <1>1, <1>2, FilledReads DEF FilledInv, AllFilled, WordDone
<1>5. MemInv
  BY DEF PatternInv
<1>6. PICK s \in Nat, h \in Nat : s = p /\ h = Half
  BY <1>3
<1>7. CASE MoveUp
  <2> DEFINE f == [v \in p + Half .. p + 2 * Half - 1 |-> read_word(v - Half)]
  <2>1. mem' = write_words(mem, f)
    BY <1>7 DEF MoveUp
  <2>2. \A v \in s + h .. s + 2 * h - 1 : v \in Start .. LastWord /\ v - h \in Start .. LastWord
    BY <1>3, <1>6
  <2>3. DOMAIN f \subseteq Start .. LastWord /\ \A v \in DOMAIN f : f[v] \in Words
    BY <1>4, <1>6, <2>2
  <2> HIDE DEF f
  <2>4. QED
    BY <1>5, <2>1, <2>3, WritesTyped
<1>8. CASE MoveDown
  <2> DEFINE g(v) == IF v < p + 8 THEN v + 2 * Half - 8 ELSE v + Half - 8
             f == [v \in p .. p + Half - 1 |-> read_word(g(v))]
  <2>1. mem' = write_words(mem, f)
    BY <1>8 DEF MoveDown
  <2>2. \A v \in s .. s + h - 1 :
          /\ v \in Start .. LastWord
          /\ (IF v < s + 8 THEN v + 2 * h - 8 ELSE v + h - 8) \in Start .. LastWord
    BY <1>3, <1>6
  <2>3. \A v \in p .. p + Half - 1 : v \in Start .. LastWord /\ g(v) \in Start .. LastWord
    BY <1>6, <2>2
  <2> HIDE DEF g
  <2>4. DOMAIN f \subseteq Start .. LastWord /\ \A v \in DOMAIN f : f[v] \in Words
    BY <1>4, <2>3
  <2> HIDE DEF f
  <2>5. QED
    BY <1>5, <2>1, <2>4, WritesTyped
<1>9. QED
  BY <1>7, <1>8

LEMMA StepTyped ==
    ASSUME CallInv, PointerInv, PatternInv, FaultInv, FilledInv, pattern \in Words, WordStep
    PROVE  OnlyWords /\ pattern' \in Words /\ FilledInv'
<1>1. WordDone
  BY WordFrame
<1>2. CASE BlockWords
  BY <1>2, BlocksTyped
<1>3. CASE ~BlockWords
  <2>1. Cur' = Cur /\ Cur.kind # "blocks" /\ pc' \in {"words", "tick"}
    BY <1>1, <1>3, Frame, WordStepKeeps
       DEF WordDone, WordStep, Word, PairWord, MoveUp, MoveDown, Sleep, WalkFirst, WalkSecond
  <2>2. mem' = mem => OnlyWords
    BY DEF OnlyWords
  <2>3. OnlyWords /\ pattern' \in Words
    <3>1. CASE Word
      BY <3>1, WordTyped
    <3>2. CASE WalkFirst \/ WalkSecond
      BY <3>2, WalkTyped
    <3>3. CASE PairWord
      BY <2>2, <3>3 DEF PairWord
    <3>4. CASE MoveUp \/ MoveDown
      <4>1. pattern' = pattern
        BY <3>4 DEF MoveUp, MoveDown
      <4>2. QED
        BY <3>4, <4>1, MovesTyped
    <3>5. CASE Sleep
      <4>1. pattern' = pattern
        BY <3>5 DEF Sleep, blockVars
      <4>2. fault.kind = "fade" => fault.to \in Words
        BY FaultFacts
      <4>3. OnlyWords
        BY <3>5, <4>2 DEF Sleep, OnlyWords
      <4>4. QED
        BY <4>1, <4>3
    <3>6. QED
      BY <1>3, <3>1, <3>2, <3>3, <3>4, <3>5 DEF WordStep
  <2>4. AllFilled => AllFilled'
    BY <1>1, <2>3, StillFilled DEF PatternInv, WordDone
  <2>5. FilledInv'
    BY <1>1, <2>1, <2>4 DEF FilledInv, WordDone
  <2>6. QED
    BY <2>3, <2>5
<1>4. QED
  BY <1>2, <1>3

LEMMA RestFilled ==
    ASSUME CallInv, PointerInv, PatternInv, FilledInv, [Next]_vars, ~WordStep
    PROVE  FilledInv'
<1> SUFFICES ASSUME my_cpu' = 0 PROVE FilledInv'
  BY DEF FilledInv
<1>1. ASSUME UNCHANGED <<fault, window, mem>>
      PROVE  /\ Start' = Start /\ LastWord' = LastWord
             /\ \A v : Filled(v)' <=> Filled(v)
             /\ AllFilled' <=> AllFilled
  <2>1. Start' = Start /\ LastWord' = LastWord /\ \A v : Cell(v)' = Cell(v)
    BY <1>1 DEF Start, LastWord, Base, Cell
  <2>2. \A c : Hits(c)' = Hits(c)
    BY <1>1 DEF Hits
  <2>3. \A v : Filled(v)' <=> Filled(v)
    BY <1>1, <2>1, <2>2 DEF Filled
  <2>4. QED
    BY <2>1, <2>3 DEF AllFilled
<1>2. CASE BeginPhase
  <2>1. /\ UNCHANGED <<fault, window, mem, phases, phase, my_cpu>> /\ pc = "call" /\ pc' = "words"
        /\ p' = IF Cur.kind = "walk" THEN 1 ELSE IF Cur.up THEN Start + Cur.off ELSE End
        /\ phase <= Len(phases) /\ my_cpu = 0
    BY <1>2 DEF BeginPhase, Enter, callVars
  <2>2. Cur' = Cur /\ GoodPhase(Cur)
    BY <2>1, Frame, CurGood
  <2>3. Cur.kind = "blocks" => p' = Start
    BY <2>1, <2>2, RangeFacts DEF GoodPhase
  <2>4. ASSUME Cur.kind \in {"move", "pairs"} PROVE AllFilled
    <3>1. phase > 1 => phases[phase - 1].kind \in {"blocks", "move", "pairs"}
      BY <2>1, <2>4, CurLinked DEF Fits, PatternInv
    <3>2. phase # 1
      <4>1. \A s, turn : Check(s, turn).kind = "march"
        BY DEF Check, March
      <4>2. ~FirstPhase(test, stage, Cur)
        BY <2>4, <4>1 DEF FirstPhase, Opens, Whole, Stays
      <4>3. QED
        BY <2>1, <4>2, CurLinked DEF PatternInv
    <3>3. phase > 1
      BY <3>2 DEF CallInv
    <3>4. QED
      BY <2>1, <3>1, <3>3 DEF FilledInv
  <2>5. \A v \in Start .. LastWord : ~(v < Start)
    BY RangeFacts
  <2>6. QED
    BY <1>1, <2>1, <2>2, <2>3, <2>4, <2>5 DEF FilledInv
<1>3. CASE SkipSleep
  <2>1. UNCHANGED phases /\ phase' = phase + 1 /\ pc' = "call" /\ Cur.kind = "sleep" /\ phase \in Nat
    BY <1>3 DEF SkipSleep, callVars, Slept, CallInv
  <2>2. phases'[phase' - 1].kind = "sleep"
    BY <2>1 DEF Cur
  <2>3. QED
    BY <2>1, <2>2 DEF FilledInv
<1>4. CASE EndBlock
  <2>1. /\ UNCHANGED <<fault, window, phases, my_cpu, mem, p>> /\ pc = "tick" /\ my_cpu = 0
        /\ phase <= Len(phases)
    BY <1>4 DEF EndBlock, callVars, CallInv
  <2>2. \/ phase' = phase /\ pc' \in {"words", "bailed"}
        \/ phase' = phase + 1 /\ pc' = "call" /\ AtEnd
    BY <1>4, <2>1 DEF EndBlock, Enter
  <2>3. CASE phase' = phase /\ pc' \in {"words", "bailed"}
    <3>1. Cur' = Cur
      BY <2>1, <2>3, Frame
    <3>2. QED
      BY <1>1, <2>1, <2>3, <3>1 DEF FilledInv
  <2>4. CASE phase' = phase + 1 /\ pc' = "call" /\ AtEnd
    <3>1. phases'[phase' - 1] = Cur
      BY <2>1, <2>4 DEF Cur, CallInv
    <3>2. ASSUME Cur.kind = "blocks" PROVE AllFilled
      <4>1. Cur.up
        BY <2>1, <3>2, CurGood DEF GoodPhase
      <4>2. pe = LastWord
        BY <2>4, <3>2, <4>1 DEF AtEnd, End
      <4>3. \A v \in Start .. LastWord : v <= LastWord
        BY RangeFacts
      <4>4. QED
        BY <2>1, <3>2, <4>2, <4>3 DEF FilledInv, AllFilled
    <3>3. Cur.kind \in {"move", "pairs"} => AllFilled
      BY <2>1 DEF FilledInv
    <3>4. QED
      BY <1>1, <2>1, <2>4, <3>1, <3>2, <3>3 DEF FilledInv
  <2>5. QED
    BY <2>2, <2>3, <2>4
<1>5. CASE EndCall
  <2>1. phase' = 1 /\ pc' \in {"call", "done"}
    BY <1>5 DEF EndCall
  <2>2. QED
    BY <2>1 DEF FilledInv
<1>6. CASE UNCHANGED vars
  <2>1. UNCHANGED <<fault, window, phases, phase, my_cpu, mem, pc, p, pe>>
    BY <1>6 DEF vars, callVars, blockVars
  <2>2. Cur' = Cur
    BY <2>1, Frame
  <2>3. QED
    BY <1>1, <2>1, <2>2 DEF FilledInv
<1>7. QED
  BY <1>2, <1>3, <1>4, <1>5, <1>6 DEF Next, Run, Over, WordStep

NumTyped == p \in Nat \cup {-1} /\ pe \in Nat /\ q \in Nat /\ left \in Nat /\ estimate \in Nat /\ ticks \in Nat

KeptTyped ==
    /\ pc \in {"call", "words", "tick", "done", "bailed"}
    /\ last_stage \in -1 .. 5 /\ bail \in BOOLEAN
    /\ errors \subseteq [cell : Cells, use : BOOLEAN]

TypesInv == NumTyped /\ KeptTyped /\ pattern \in Words /\ MemTyped /\ FilledInv

LEMMA BlockEndNat ==
    ASSUME CallInv, phase <= Len(phases), NEW v \in Nat \cup {-1}
    PROVE  BlockEnd(v) \in Nat
<1>1. Start \in Nat /\ LastWord \in Nat /\ MODULO_N \in Nat /\ Start + MODULO_N <= LastWord
  BY RangeFacts
<1>2. End \in Nat
  BY <1>1 DEF End
<1>3. SPIN_SIZE \in Nat /\ SPIN_SIZE >= 2
  BY MemTestsAssumption
<1> DEFINE n == SPIN_SIZE
<1> HIDE DEF n
<1>4. /\ v + n - 1 \in Nat
      /\ v - Start >= n => v - (n - 1) \in Nat
  BY <1>1, <1>3 DEF n
<1>5. QED
  BY <1>1, <1>2, <1>4 DEF BlockEnd, n

LEMMA StepNum ==
    ASSUME CallInv, PointerInv, NumTyped, WordStep
    PROVE  NumTyped'
<1>1. /\ UNCHANGED <<pe, left, estimate, ticks>> /\ pc = "words" /\ phase <= Len(phases) /\ my_cpu = 0
  BY WordStepKeeps DEF CallInv
<1>2. GoodPhase(Cur) /\ Start \in Nat /\ LastWord \in Nat /\ MODULO_N \in Nat
  BY <1>1, CurGood, RangeFacts
<1>3. CASE Word \/ PairWord \/ BlockWords
  <2>1. p' = NextWord /\ q' = q /\ Cur.kind \in {"march", "nth", "pairs", "blocks"}
    BY <1>3 DEF Word, PairWord, BlockWords, ToNextWord
  <2>2. p \in Start .. LastWord
    BY <1>1, <1>2, <2>1 DEF PointerInv, InBlock, InRange
  <2>3. Cur.step \in Nat
    BY <1>2, <2>1 DEF GoodPhase
  <2>4. p' \in Nat \cup {-1}
    BY <1>2, <2>1, <2>2, <2>3 DEF NextWord
  <2>5. QED
    BY <1>1, <2>1, <2>4 DEF NumTyped
<1>4. CASE MoveUp \/ MoveDown \/ Sleep
  BY <1>1, <1>4 DEF MoveUp, MoveDown, Sleep, NumTyped, blockVars
<1>5. CASE WalkFirst
  BY <1>1, <1>5 DEF WalkFirst, NumTyped
<1>6. CASE WalkSecond
  <2>1. p \in Nat
    BY <1>1, <1>6 DEF WalkSecond, PointerInv
  <2>2. (p' = 2 * p /\ q' = 0) \/ (p' = p /\ q' = 2 * q)
    BY <1>6 DEF WalkSecond
  <2>3. QED
    BY <1>1, <2>1, <2>2 DEF NumTyped
<1>7. QED
  BY <1>3, <1>4, <1>5, <1>6 DEF WordStep

LEMMA RestNum ==
    ASSUME CallInv, NumTyped, [Next]_vars, ~WordStep
    PROVE  NumTyped'
<1>1. CASE BeginPhase
  <2>1. phase <= Len(phases)
    BY <1>1 DEF BeginPhase
  <2>2. GoodPhase(Cur) /\ Start \in Nat /\ LastWord \in Nat /\ MODULO_N \in Nat /\ Start + MODULO_N <= LastWord
    BY <2>1, CurGood, RangeFacts
  <2>3. Cur.off \in Nat /\ Cur.repeat \in Nat /\ End \in Nat
    BY <2>2 DEF GoodPhase, End
  <2>4. BlockEnd(IF Cur.up THEN Start ELSE End) \in Nat
    BY <2>1, <2>2, <2>3, BlockEndNat
  <2>5. p' \in Nat
    BY <1>1, <2>2, <2>3 DEF BeginPhase
  <2>6. QED
    BY <1>1, <2>3, <2>4, <2>5 DEF BeginPhase, Enter, NumTyped
<1>2. CASE SkipSleep
  BY <1>2 DEF SkipSleep, blockVars, NumTyped
<1>3. CASE EndBlock
  <2>1. UNCHANGED <<p, q>> /\ (ticks' = ticks \/ ticks' = ticks + 1) /\ phase <= Len(phases)
    BY <1>3 DEF EndBlock, CallInv
  <2>2. estimate' = estimate \/ estimate' = estimate + 1
    BY <1>3 DEF EndBlock, Enter
  <2>3. left' \in Nat
    <3>1. Cur.repeat \in Nat
      BY <2>1, CurGood DEF GoodPhase
    <3>2. left' = left \/ (left > 1 /\ left' = left - 1) \/ left' = Cur.repeat
      BY <1>3 DEF EndBlock, Enter
    <3>3. QED
      BY <3>1, <3>2 DEF NumTyped
  <2>4. pe' \in Nat
    <3>1. pe' = pe \/ pe' = BlockEnd(IF Cur.up THEN pe + 1 ELSE pe - 1)
      BY <1>3 DEF EndBlock, Enter
    <3>2. BlockEnd(IF Cur.up THEN pe + 1 ELSE pe - 1) \in Nat
      <4> DEFINE v == IF Cur.up THEN pe + 1 ELSE pe - 1
      <4>1. v \in Nat \cup {-1}
        BY DEF NumTyped
      <4> HIDE DEF v
      <4>2. BlockEnd(v) \in Nat
        BY <2>1, <4>1, BlockEndNat
      <4>3. QED
        BY <4>2 DEF v
    <3>3. QED
      BY <3>1, <3>2 DEF NumTyped
  <2>5. QED
    BY <2>1, <2>2, <2>3, <2>4 DEF NumTyped
<1>4. CASE EndCall
  BY <1>4 DEF EndCall, blockVars, NumTyped
<1>5. CASE UNCHANGED vars
  BY <1>5 DEF vars, blockVars, NumTyped
<1>6. QED
  BY <1>1, <1>2, <1>3, <1>4, <1>5 DEF Next, Run, Over, WordStep

LEMMA NextKept ==
    ASSUME CallInv, PointerInv, KeptTyped, [Next]_vars
    PROVE  KeptTyped'
<1>1. CASE WordStep
  <2>1. /\ UNCHANGED last_stage /\ pc = "words" /\ pc' \in {"words", "tick"}
        /\ phase <= Len(phases) /\ my_cpu = 0 /\ window \in Windows
    BY <1>1, WordStepKeeps DEF CallInv
  <2>2. UNCHANGED bail
    BY <1>1 DEF WordStep, Word, PairWord, BlockWords, MoveUp, MoveDown, Sleep, WalkFirst, WalkSecond, ToNextWord
  <2>3. GoodPhase(Cur) /\ Start \in Nat /\ LastWord \in Nat
    BY <2>1, CurGood, RangeFacts
  <2>4. \A v \in Start .. LastWord : \A b \in BOOLEAN : Error(v, b) \subseteq [cell : Cells, use : BOOLEAN]
    BY <2>1, RangeCells DEF Error
  <2>5. CASE Word \/ PairWord
    <3>1. p \in Start .. LastWord
      <4>1. Cur.kind \in {"march", "nth", "pairs"}
        BY <2>5 DEF Word, PairWord
      <4>2. QED
        BY <2>1, <2>3, <4>1 DEF PointerInv, InBlock, InRange
    <3>2. errors' \subseteq errors \cup Error(p, TRUE) \cup Error(p, FALSE)
      BY <2>5 DEF Word, PairWord
    <3>3. QED
      BY <2>1, <2>2, <2>4, <3>1, <3>2 DEF KeptTyped
  <2>6. CASE WalkSecond
    <3>1. errors' \subseteq errors \cup Error(Masked(p), FALSE)
      BY <2>6, Zenon DEF WalkSecond
    <3>2. Masked(p) <= LastWord /\ p \in Nat
      BY <2>1, <2>6 DEF WalkSecond, PointerInv
    <3>3. Masked(p) \in Start .. LastWord
      BY <2>3, <3>2 DEF Masked
    <3>4. QED
      BY <2>1, <2>2, <2>4, <3>1, <3>3 DEF KeptTyped
  <2>7. CASE BlockWords \/ MoveUp \/ MoveDown \/ Sleep \/ WalkFirst
    <3>1. UNCHANGED errors
      BY <2>7 DEF BlockWords, MoveUp, MoveDown, Sleep, WalkFirst
    <3>2. QED
      BY <2>1, <2>2, <3>1 DEF KeptTyped
  <2>8. QED
    BY <1>1, <2>5, <2>6, <2>7 DEF WordStep
<1>2. CASE EndCall
  <2>1. stage \in -1 .. 5
    BY StagesOf DEF CallInv
  <2>2. QED
    BY <1>2, <2>1 DEF EndCall, KeptTyped
<1>3. CASE BeginPhase \/ SkipSleep \/ EndBlock
  BY <1>3 DEF BeginPhase, SkipSleep, EndBlock, Enter, KeptTyped
<1>4. CASE UNCHANGED vars
  BY <1>4 DEF vars, KeptTyped
<1>5. QED
  BY <1>1, <1>2, <1>3, <1>4 DEF Next, Run, Over, WordStep

LEMMA NextTypes == CallInv /\ PointerInv /\ PatternInv /\ HuntInv /\ TypesInv /\ [Next]_vars => TypesInv'
<1> SUFFICES ASSUME CallInv, PointerInv, PatternInv, HuntInv, TypesInv, [Next]_vars PROVE TypesInv'
  OBVIOUS
<1>1. NumTyped' /\ KeptTyped'
  BY StepNum, RestNum, NextKept DEF TypesInv
<1>2. OnlyWords => MemTyped'
  BY DEF TypesInv, MemTyped, OnlyWords
<1>3. CASE WordStep
  BY <1>1, <1>2, <1>3, StepTyped DEF TypesInv, HuntInv
<1>4. CASE ~WordStep
  <2>1. FilledInv'
    BY <1>4, RestFilled DEF TypesInv
  <2>2. mem' = mem
    BY <1>4 DEF Next, Run, Over, WordStep, BeginPhase, SkipSleep, EndBlock, EndCall, vars
  <2>3. pattern' \in Words
    <3>1. CASE BeginPhase \/ EndBlock
      <4>1. phase <= Len(phases)
        BY <3>1 DEF BeginPhase, EndBlock, CallInv
      <4>2. Cur.seed \in Words
        BY <4>1, CurLinked DEF PatternInv, Sown
      <4>3. Not(pattern) \in Words
        BY DEF Not, Words
      <4>4. pattern' \in {pattern, Not(pattern), Cur.seed}
        BY <3>1 DEF BeginPhase, EndBlock
      <4>5. QED
        BY <4>2, <4>3, <4>4 DEF TypesInv
    <3>2. CASE ~(BeginPhase \/ EndBlock)
      BY <1>4, <3>2 DEF Next, Run, Over, WordStep, SkipSleep, EndCall, vars, blockVars, TypesInv
    <3>3. QED
      BY <3>1, <3>2
  <2>4. QED
    BY <1>1, <1>2, <2>1, <2>2, <2>3 DEF TypesInv, OnlyWords
<1>5. QED
  BY <1>3, <1>4

LEMMA InitTypes == Init => TypesInv
<1> SUFFICES ASSUME Init PROVE TypesInv
  OBVIOUS
<1>1. NumTyped /\ KeptTyped /\ pattern \in Words
  <2>1. NumTyped
    BY DEF Init, NumTyped
  <2>2. pc = "call" /\ last_stage = -1 /\ bail = FALSE /\ errors = {} /\ pattern = {}
    BY DEF Init
  <2>3. KeptTyped
    <3>1. errors \subseteq [cell : Cells, use : BOOLEAN]
      BY <2>2, Zenon
    <3>2. last_stage \in -1 .. 5
      BY <2>2
    <3>3. QED
      BY <2>2, <3>1, <3>2, Zenon DEF KeptTyped
  <2>4. QED
    BY <2>1, <2>2, <2>3 DEF Words
<1>2. MemTyped
  BY DEF Init, MemTyped
<1>3. FilledInv
  BY DEF Init, FilledInv
<1>4. QED
  BY <1>1, <1>2, <1>3 DEF TypesInv

LEMMA TypesOk == CallInv /\ PatternInv /\ HuntInv /\ TypesInv => TypeOK
<1> SUFFICES ASSUME CallInv, PatternInv, HuntInv, TypesInv PROVE TypeOK
  OBVIOUS
<1>1. fault \in Faults /\ DOMAIN mem = Cells /\ phase \in 1 .. Len(phases) + 1
  BY DEF HuntInv, FaultInv, PatternInv, MemInv, PhasesInv
<1>2. /\ pc \in {"call", "words", "tick", "done", "bailed"}
      /\ last_stage \in -1 .. 5 /\ bail \in BOOLEAN
      /\ errors \subseteq [cell : DOMAIN mem, use : BOOLEAN]
  BY <1>1 DEF TypesInv, KeptTyped
<1>3. p \in Nat \cup {-1} /\ {pe, q, left, estimate, ticks} \subseteq Nat
  BY DEF TypesInv, NumTyped
<1>4. pattern \subseteq Bits
  BY DEF TypesInv, Words
<1>5. \A c \in DOMAIN mem : mem[c] \in Words \cup {{TESTWORD_WIDTH + c}}
  BY DEF TypesInv, MemTyped
<1>6. test \in Tests /\ my_cpu \in {-1, 0} /\ stage \in 0 .. Stages(test) - 1 /\ window \in Windows
  BY DEF CallInv
<1>7. QED
  BY <1>1, <1>2, <1>3, <1>4, <1>5, <1>6 DEF TypeOK

(***************************************************************************)
(* The variables of the tests keep their types: a word of the memory holds *)
(* what it held at the start until it is written, and then a testword; and *)
(* all errors are reported at words of the tested memory.                  *)
(***************************************************************************)
THEOREM TestsTyped == Spec => []TypeOK
  BY AlwaysInv, InitPatternInv, NextPatternInv, InitHuntInv, NextHuntInv, InitTypes, NextTypes,
     TypesOk, PTL DEF Spec

=============================================================================
