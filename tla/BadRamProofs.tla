---------------------------- MODULE BadRamProofs ----------------------------
(***************************************************************************)
(* Proofs about the BadRAM patterns: for every width of words, every       *)
(* length of the list and every order of faults, no fault is lost and the  *)
(* list stays sorted and within its array.                                 *)
(***************************************************************************)
EXTENDS BadRam, FiniteSetTheorems, SequenceTheorems, WellFoundedInduction, TLAPS

LEMMA LeastNat ==
    ASSUME NEW S, S \subseteq Nat, S # {}
    PROVE  \E m \in S : \A k \in S : m <= k
<1>1. PICK m \in S : \A k \in S : ~(<<k, m>> \in OpToRel(<, Nat))
  BY NatLessThanWellFounded, WFMin
<1>2. \A k \in S : ~(k < m)
  BY <1>1 DEF OpToRel
<1>3. QED
  BY <1>2

LEMMA ListIsSeq ==
    ASSUME NEW S, NEW n \in Nat, NEW f \in [1 .. n -> S]
    PROVE  f \in Seq(S) /\ Len(f) = n /\ DOMAIN f = 1 .. n
<1>1. f \in Seq(S)
  BY SeqDef
<1>2. Len(f) \in Nat /\ DOMAIN f = 1 .. Len(f)
  BY <1>1, LenProperties
<1>3. 1 .. n = 1 .. Len(f)
  BY <1>2
<1>4. n = Len(f)
  BY <1>2, <1>3
<1>5. QED
  BY <1>1, <1>3, <1>4

-----------------------------------------------------------------------------
(***************************************************************************)
(* The order of words.                                                     *)
(***************************************************************************)
LEMMA BelowTransitive ==
    ASSUME NEW a \in Words, NEW b \in Words, NEW c \in Words, Below(a, b), Below(b, c)
    PROVE  Below(a, c)
<1>1. PICK i \in b \ a : \A j \in Bits : j > i => (j \in a <=> j \in b)
  BY DEF Below
<1>2. PICK k \in c \ b : \A j \in Bits : j > k => (j \in b <=> j \in c)
  BY DEF Below
<1>3. i \in Bits /\ k \in Bits /\ i \in Int /\ k \in Int /\ Bits \subseteq Int
  BY BadRamAssumption DEF Words, Bits
<1>4. CASE i < k
  <2>1. k \in c \ a
    BY <1>1, <1>2, <1>3, <1>4
  <2>2. \A j \in Bits : j > k => (j \in a <=> j \in c)
    BY <1>1, <1>2, <1>3, <1>4
  <2>3. QED
    BY <2>1, <2>2 DEF Below
<1>5. CASE k < i
  <2>1. i \in c \ a
    BY <1>1, <1>2, <1>3, <1>5
  <2>2. \A j \in Bits : j > i => (j \in a <=> j \in c)
    BY <1>1, <1>2, <1>3, <1>5
  <2>3. QED
    BY <2>1, <2>2 DEF Below
<1>6. i # k
  BY <1>1, <1>2
<1>7. QED
  BY <1>3, <1>4, <1>5, <1>6

LEMMA BelowIrreflexive == \A a : ~Below(a, a)
  BY DEF Below

-----------------------------------------------------------------------------
(***************************************************************************)
(* Covering.  A pattern is normal when its address lies inside its mask,   *)
(* and its mask inside the granularity of the tests.                       *)
(***************************************************************************)
Normal(p) == p \in Pattern /\ p.addr \subseteq p.mask /\ p.mask \subseteq DEFAULT_MASK

LEMMA CombineCovers ==
    ASSUME NEW p, NEW q, Normal(p), Normal(q)
    PROVE  /\ Normal(combine(p, q))
           /\ \A w : Covers(p, w) \/ Covers(q, w) => Covers(combine(p, q), w)
<1> DEFINE mask == CombineMask(p, q)
<1>1. mask \subseteq p.mask /\ mask \subseteq q.mask
  BY DEF CombineMask
<1>2. combine(p, q) = [addr |-> (p.addr \cup q.addr) \cap mask, mask |-> mask]
  BY DEF combine
<1>3. Normal(combine(p, q))
  BY <1>1, <1>2 DEF Normal, Pattern, Words
<1>4. \A i \in mask : i \in p.addr <=> i \in q.addr
  BY DEF CombineMask
<1>5. ASSUME NEW w, Covers(p, w) \/ Covers(q, w)
      PROVE  w \cap mask = (p.addr \cup q.addr) \cap mask
  BY <1>1, <1>4, <1>5 DEF Covers
<1>6. QED
  BY <1>2, <1>3, <1>5 DEF Covers

LEMMA ZerosCount ==
    ASSUME NEW mask \in Words
    PROVE  Cardinality(Bits \ mask) \in 0 .. WIDTH /\ IsFiniteSet(Bits \ mask)
<1>1. IsFiniteSet(Bits) /\ Cardinality(Bits) = WIDTH
  BY FS_Interval, BadRamAssumption DEF Bits
<1>2. Bits \ mask \in SUBSET Bits
  OBVIOUS
<1>3. QED
  BY <1>1, <1>2, FS_Subset, FS_CardinalityType, BadRamAssumption

LEMMA SmallMod ==
    ASSUME NEW m \in Nat, NEW n \in Nat, m < n
    PROVE  m % n = m
  OBVIOUS

LEMMA SameMod ==
    ASSUME NEW n \in Nat \ {0}, NEW a \in 0 .. n - 1, NEW b \in 0 .. n - 1,
           (a - b) % n = 0
    PROVE  a = b
  OBVIOUS

(***************************************************************************)
(* addresses tells masks with different numbers of zeros apart, the empty  *)
(* mask, whose count overflows to 0, included.                             *)
(***************************************************************************)
LEMMA AddressesRange ==
    ASSUME NEW mask \in Words
    PROVE  addresses(mask) \in 0 .. 2^WIDTH - 1 /\ 2^WIDTH \in Nat \ {0}
<1> DEFINE z == Cardinality(Bits \ mask)
<1>1. z \in 0 .. WIDTH /\ WIDTH \in 0 .. WIDTH
  BY ZerosCount, BadRamAssumption
<1>2. 2^z \in Nat /\ 2^WIDTH \in Nat \ {0}
  BY <1>1, PowersAssumption
<1> HIDE DEF z
<1>3. 2^z % 2^WIDTH \in 0 .. 2^WIDTH - 1
  <2>1. \A a \in Nat, b \in Nat \ {0} : a % b \in 0 .. b - 1
    OBVIOUS
  <2>2. QED
    BY <1>2, <2>1
<1>4. QED
  BY <1>2, <1>3 DEF addresses, z

LEMMA AddressesInjective ==
    ASSUME NEW c \in Words, NEW d \in Words, addresses(c) = addresses(d)
    PROVE  Cardinality(Bits \ c) = Cardinality(Bits \ d)
<1> DEFINE count(z) == 2^z % 2^WIDTH
<1>1. ASSUME NEW z \in 0 .. WIDTH - 1
      PROVE  count(z) = 2^z /\ 2^z \in Nat \ {0}
  <2>1. 2^z \in Nat \ {0} /\ 2^WIDTH \in Nat \ {0} /\ 2^z < 2^WIDTH
    BY PowersAssumption, BadRamAssumption
  <2>2. QED
    BY <2>1, SmallMod
<1>2. count(WIDTH) = 0
  <2>1. 2^WIDTH \in Nat \ {0}
    BY PowersAssumption, BadRamAssumption
  <2>2. \A n \in Nat \ {0} : n % n = 0
    OBVIOUS
  <2>3. QED
    BY <2>1, <2>2
<1>3. \A y, z \in 0 .. WIDTH : count(y) = count(z) => y = z
  <2> SUFFICES ASSUME NEW y \in 0 .. WIDTH, NEW z \in 0 .. WIDTH, count(y) = count(z), y < z
               PROVE  FALSE
    BY BadRamAssumption
  <2>1. y \in 0 .. WIDTH - 1 /\ count(y) = 2^y /\ 2^y # 0
    BY <1>1, BadRamAssumption
  <2>2. CASE z = WIDTH
    BY <1>2, <2>1, <2>2
  <2>3. CASE z # WIDTH
    <3>1. count(z) = 2^z
      BY <1>1, <2>3, BadRamAssumption
    <3>2. 2^y < 2^z /\ 2^y \in Nat /\ 2^z \in Nat
      BY PowersAssumption
    <3>3. 2^y = 2^z
      BY <2>1, <3>1
    <3>4. QED
      BY <3>2, <3>3
  <2>4. QED
    BY <2>2, <2>3
<1>4. count(Cardinality(Bits \ c)) = count(Cardinality(Bits \ d))
  BY DEF addresses
<1> HIDE DEF count
<1>5. QED
  BY <1>3, <1>4, ZerosCount

(***************************************************************************)
(* An address that costs nothing is covered already.                       *)
(***************************************************************************)
LEMMA FreeIsCovered ==
    ASSUME NEW p, Normal(p), NEW q, Normal(q), q.mask = DEFAULT_MASK, combi_cost(p, q) = 0
    PROVE  Covers(p, q.addr)
<1> DEFINE mask == CombineMask(p, q)
<1>1. mask \subseteq p.mask /\ mask \in Words /\ p.mask \in Words
  BY DEF CombineMask, Normal, Pattern, Words
<1>2. addresses(mask) = addresses(p.mask)
  <2>1. /\ addresses(mask) \in 0 .. 2^WIDTH - 1 /\ addresses(p.mask) \in 0 .. 2^WIDTH - 1
        /\ 2^WIDTH \in Nat \ {0}
    BY <1>1, AddressesRange
  <2>2. (addresses(mask) - addresses(p.mask)) % 2^WIDTH = 0
    BY DEF combi_cost
  <2> HIDE DEF mask
  <2>3. QED
    BY <2>1, <2>2, SameMod
<1>3. mask = p.mask
  <2>1. Cardinality(Bits \ mask) = Cardinality(Bits \ p.mask)
    BY <1>1, <1>2, AddressesInjective
  <2>2. Bits \ p.mask \in SUBSET (Bits \ mask)
    BY <1>1
  <2>3. Bits \ p.mask = Bits \ mask
    BY <1>1, <2>1, <2>2, ZerosCount, FS_Subset
  <2>4. QED
    BY <1>1, <2>3 DEF Words
<1>4. \A i \in p.mask : i \in p.addr <=> i \in q.addr
  BY <1>3 DEF CombineMask
<1>5. QED
  BY <1>4 DEF Covers, Normal

-----------------------------------------------------------------------------
(***************************************************************************)
(* Lists of normal patterns.                                               *)
(***************************************************************************)
NormalPatterns == {p \in Pattern : Normal(p)}
Entries(ps)    == {ps[i] : i \in DOMAIN ps}
SortedList(ps) == \A i, j \in DOMAIN ps : i < j => ~Below(ps[j].addr, ps[i].addr)

\* idx is where insert_sorted puts p.
IsPlace(ps, p, idx) ==
    /\ idx <= Len(ps) => Below(p.addr, ps[idx].addr)
    /\ \A j \in 1 .. idx - 1 : ~Below(p.addr, ps[j].addr)

LEMMA PlaceExists ==
    ASSUME NEW ps \in Seq(NormalPatterns), NEW p \in NormalPatterns
    PROVE  \E idx \in 1 .. Len(ps) + 1 : IsPlace(ps, p, idx)
<1> DEFINE above == {i \in 1 .. Len(ps) : Below(p.addr, ps[i].addr)}
<1>1. Len(ps) \in Nat
  BY LenProperties
<1>2. CASE above = {}
  <2>1. IsPlace(ps, p, Len(ps) + 1)
    BY <1>1, <1>2 DEF IsPlace
  <2>2. QED
    BY <1>1, <2>1
<1>3. CASE above # {}
  <2>1. PICK m \in above : \A k \in above : m <= k
    <3>1. above \subseteq Nat
      BY <1>1
    <3> HIDE DEF above
    <3>2. QED
      BY <1>3, <3>1, LeastNat
  <2>2. m \in 1 .. Len(ps) /\ \A j \in 1 .. m - 1 : j \notin above
    BY <1>1, <2>1
  <2>3. IsPlace(ps, p, m)
    BY <1>1, <2>1, <2>2 DEF IsPlace
  <2>4. QED
    BY <1>1, <2>2, <2>3
<1>4. QED
  BY <1>2, <1>3

LEMMA InsertSortedPlace ==
    ASSUME NEW ps \in Seq(NormalPatterns), NEW p \in NormalPatterns
    PROVE  \E idx \in 1 .. Len(ps) + 1 :
             IsPlace(ps, p, idx) /\ insert_sorted(ps, p) = insert_at(ps, p, idx)
<1> DEFINE idx == CHOOSE i \in 1 .. Len(ps) + 1 : IsPlace(ps, p, i)
<1>1. idx \in 1 .. Len(ps) + 1 /\ IsPlace(ps, p, idx)
  BY PlaceExists
<1>2. p.addr \cap p.mask = p.addr
  BY DEF NormalPatterns, Normal
<1>3. [p EXCEPT !.addr = @ \cap p.mask] = p
  BY <1>2 DEF NormalPatterns, Pattern
<1>4. insert_sorted(ps, p) = insert_at(ps, p, idx)
  BY <1>3 DEF insert_sorted, IsPlace
<1>5. QED
  BY <1>1, <1>4

LEMMA InsertAtList ==
    ASSUME NEW ps \in Seq(NormalPatterns), NEW p \in NormalPatterns,
           NEW idx \in 1 .. Len(ps) + 1, NEW r, r = insert_at(ps, p, idx)
    PROVE  /\ r \in Seq(NormalPatterns) /\ Len(r) = Len(ps) + 1
           /\ DOMAIN r = 1 .. Len(ps) + 1 /\ DOMAIN ps = 1 .. Len(ps)
           /\ \A i \in DOMAIN r :
                r[i] = IF i < idx THEN ps[i] ELSE IF i = idx THEN p ELSE ps[i - 1]
<1>1. Len(ps) \in Nat /\ ps \in [1 .. Len(ps) -> NormalPatterns] /\ DOMAIN ps = 1 .. Len(ps)
  BY LenProperties
<1>2. r \in [1 .. Len(ps) + 1 -> NormalPatterns]
  BY <1>1 DEF insert_at
<1>3. Len(ps) + 1 \in Nat
  BY <1>1
<1>4. r \in Seq(NormalPatterns) /\ Len(r) = Len(ps) + 1 /\ DOMAIN r = 1 .. Len(ps) + 1
  BY <1>2, <1>3, ListIsSeq
<1>5. QED
  BY <1>1, <1>4 DEF insert_at

\* What insert_sorted does to a list.
LEMMA InsertList ==
    ASSUME NEW ps \in Seq(NormalPatterns), NEW p \in NormalPatterns, SortedList(ps),
           NEW r, r = insert_sorted(ps, p)
    PROVE  /\ r \in Seq(NormalPatterns) /\ Len(r) = Len(ps) + 1
           /\ Entries(r) = Entries(ps) \cup {p}
           /\ SortedList(r)
<1>1. PICK idx \in 1 .. Len(ps) + 1 : IsPlace(ps, p, idx) /\ r = insert_at(ps, p, idx)
  BY InsertSortedPlace
<1>2. /\ r \in Seq(NormalPatterns) /\ Len(r) = Len(ps) + 1
      /\ DOMAIN r = 1 .. Len(ps) + 1 /\ DOMAIN ps = 1 .. Len(ps)
      /\ \A i \in DOMAIN r :
           r[i] = IF i < idx THEN ps[i] ELSE IF i = idx THEN p ELSE ps[i - 1]
  BY <1>1, InsertAtList
<1>3. Len(ps) \in Nat /\ \A i \in DOMAIN ps : ps[i].addr \in Words
  <2>1. Len(ps) \in Nat /\ \A i \in DOMAIN ps : ps[i] \in NormalPatterns
    BY LenProperties
  <2>2. QED
    BY <2>1 DEF NormalPatterns, Pattern
<1>4. p.addr \in Words
  BY DEF NormalPatterns, Pattern
<1>5. Entries(r) = Entries(ps) \cup {p}
  <2>1. Entries(r) \subseteq Entries(ps) \cup {p}
    <3> SUFFICES ASSUME NEW i \in DOMAIN r PROVE r[i] \in Entries(ps) \cup {p}
      BY DEF Entries
    <3>1. \/ i < idx /\ i \in DOMAIN ps /\ r[i] = ps[i]
          \/ i = idx /\ r[i] = p
          \/ i > idx /\ i - 1 \in DOMAIN ps /\ r[i] = ps[i - 1]
      BY <1>2, <1>3
    <3>2. QED
      BY <3>1 DEF Entries
  <2>2. p \in Entries(r)
    BY <1>2, <1>3 DEF Entries
  <2>3. ASSUME NEW i \in DOMAIN ps PROVE ps[i] \in Entries(r)
    <3>1. CASE i < idx
      BY <1>2, <1>3, <3>1 DEF Entries
    <3>2. CASE i >= idx
      <4>1. i + 1 \in DOMAIN r /\ r[i + 1] = ps[i]
        BY <1>2, <1>3, <3>2
      <4>2. QED
        BY <4>1 DEF Entries
    <3>3. QED
      BY <1>2, <1>3, <3>1, <3>2
  <2>4. QED
    BY <2>1, <2>2, <2>3 DEF Entries
<1>6. SortedList(r)
  <2> SUFFICES ASSUME NEW i \in DOMAIN r, NEW j \in DOMAIN r, i < j
               PROVE  ~Below(r[j].addr, r[i].addr)
    BY DEF SortedList
  <2>1. CASE j < idx
    BY <1>2, <1>3, <2>1 DEF SortedList
  <2>2. CASE j = idx
    BY <1>1, <1>2, <1>3, <2>2 DEF IsPlace
  <2>3. CASE i = idx
    <3>1. r[i] = p /\ r[j] = ps[j - 1] /\ j - 1 \in DOMAIN ps /\ idx \in DOMAIN ps /\ idx <= j - 1
      BY <1>2, <1>3, <2>3
    <3>2. Below(p.addr, ps[idx].addr) /\ (idx < j - 1 => ~Below(ps[j - 1].addr, ps[idx].addr))
      BY <1>1, <1>2, <3>1 DEF IsPlace, SortedList
    <3>3. ASSUME Below(ps[j - 1].addr, p.addr) PROVE FALSE
      <4>1. Below(ps[j - 1].addr, ps[idx].addr)
        BY <1>3, <1>4, <3>1, <3>2, <3>3, BelowTransitive
      <4>2. idx = j - 1
        BY <1>3, <3>1, <3>2, <4>1
      <4>3. QED
        BY <4>1, <4>2, BelowIrreflexive
    <3>4. QED
      BY <3>1, <3>3
  <2>4. CASE i < idx /\ idx < j
    <3>1. r[i] = ps[i] /\ r[j] = ps[j - 1] /\ i \in DOMAIN ps /\ j - 1 \in DOMAIN ps
          /\ idx \in DOMAIN ps /\ idx <= j - 1 /\ i < j - 1
      BY <1>2, <1>3, <2>4
    <3>2. QED
      BY <3>1 DEF SortedList
  <2>5. CASE idx < i
    <3>1. r[i] = ps[i - 1] /\ r[j] = ps[j - 1] /\ i - 1 \in DOMAIN ps /\ j - 1 \in DOMAIN ps
          /\ i - 1 < j - 1
      BY <1>2, <1>3, <2>5
    <3>2. QED
      BY <3>1 DEF SortedList
  <2>6. QED
    BY <1>2, <1>3, <2>1, <2>2, <2>3, <2>4, <2>5
<1>7. QED
  BY <1>2, <1>5, <1>6

\* What remove_pair does to a list.
LEMMA RemoveList ==
    ASSUME NEW ps \in Seq(NormalPatterns), SortedList(ps), Len(ps) >= 2,
           NEW idx \in 1 .. Len(ps) - 1, NEW r, r = remove_pair(ps, idx)
    PROVE  /\ r \in Seq(NormalPatterns) /\ Len(r) = Len(ps) - 2
           /\ Entries(ps) \subseteq Entries(r) \cup {ps[idx], ps[idx + 1]}
           /\ SortedList(r)
<1>1. Len(ps) \in Nat /\ ps \in [1 .. Len(ps) -> NormalPatterns] /\ DOMAIN ps = 1 .. Len(ps)
  BY LenProperties
<1>2. r \in [1 .. Len(ps) - 2 -> NormalPatterns]
  BY <1>1 DEF remove_pair
<1>3. /\ r \in Seq(NormalPatterns) /\ Len(r) = Len(ps) - 2 /\ DOMAIN r = 1 .. Len(ps) - 2
  <2>1. Len(ps) - 2 \in Nat
    BY <1>1
  <2>2. QED
    BY <1>2, <2>1, ListIsSeq
<1>4. \A i \in DOMAIN r : r[i] = IF i < idx THEN ps[i] ELSE ps[i + 2]
  BY <1>3 DEF remove_pair
<1>5. ASSUME NEW i \in DOMAIN ps, i # idx, i # idx + 1 PROVE ps[i] \in Entries(r)
  <2>1. CASE i < idx
    BY <1>1, <1>3, <1>4, <2>1 DEF Entries
  <2>2. CASE i > idx + 1
    <3>1. i - 2 \in DOMAIN r /\ r[i - 2] = ps[i]
      BY <1>1, <1>3, <1>4, <2>2
    <3>2. QED
      BY <3>1 DEF Entries
  <2>3. QED
    BY <1>1, <1>5, <2>1, <2>2
<1>6. SortedList(r)
  <2> SUFFICES ASSUME NEW i \in DOMAIN r, NEW j \in DOMAIN r, i < j
               PROVE  ~Below(r[j].addr, r[i].addr)
    BY DEF SortedList
  <2>1. CASE j < idx
    BY <1>1, <1>3, <1>4, <2>1 DEF SortedList
  <2>2. CASE i < idx /\ idx <= j
    <3>1. r[i] = ps[i] /\ r[j] = ps[j + 2] /\ i \in DOMAIN ps /\ j + 2 \in DOMAIN ps /\ i < j + 2
      BY <1>1, <1>3, <1>4, <2>2
    <3>2. QED
      BY <3>1 DEF SortedList
  <2>3. CASE idx <= i
    <3>1. r[i] = ps[i + 2] /\ r[j] = ps[j + 2] /\ i + 2 \in DOMAIN ps /\ j + 2 \in DOMAIN ps
          /\ i + 2 < j + 2
      BY <1>1, <1>3, <1>4, <2>3
    <3>2. QED
      BY <3>1 DEF SortedList
  <2>4. QED
    BY <1>1, <1>3, <2>1, <2>2, <2>3
<1>7. QED
  BY <1>3, <1>5, <1>6 DEF Entries

(***************************************************************************)
(* A list of two or more patterns has a cheapest pair of neighbours.       *)
(***************************************************************************)
LEMMA CostIsNat ==
    ASSUME NEW p \in NormalPatterns, NEW q \in NormalPatterns
    PROVE  combi_cost(p, q) \in Nat
<1>1. CombineMask(p, q) \in Words /\ p.mask \in Words
  BY DEF CombineMask, NormalPatterns, Pattern, Words
<1>2. /\ addresses(CombineMask(p, q)) \in 0 .. 2^WIDTH - 1
      /\ addresses(p.mask) \in 0 .. 2^WIDTH - 1
      /\ 2^WIDTH \in Nat \ {0}
  BY <1>1, AddressesRange
<1>3. \A n \in Nat \ {0} : \A a \in 0 .. n - 1, b \in 0 .. n - 1 : (a - b) % n \in Nat
  OBVIOUS
<1>4. QED
  BY <1>2, <1>3 DEF combi_cost

LEMMA CheapestPair ==
    ASSUME NEW ps \in Seq(NormalPatterns), Len(ps) >= 2
    PROVE  cheapest_pair(ps) \in 1 .. Len(ps) - 1
<1> DEFINE n       == Len(ps) - 1
           cost(i) == combi_cost(ps[i], ps[i + 1])
           costs   == {cost(i) : i \in 1 .. n}
<1>1. n \in Nat \ {0} /\ Len(ps) \in Nat /\ \A i \in 1 .. n : cost(i) \in Nat
  <2>1. Len(ps) \in Nat /\ \A i \in 1 .. Len(ps) : ps[i] \in NormalPatterns
    BY LenProperties
  <2>2. ASSUME NEW i \in 1 .. n PROVE cost(i) \in Nat
    <3>1. ps[i] \in NormalPatterns /\ ps[i + 1] \in NormalPatterns
      BY <2>1
    <3>2. QED
      BY <3>1, CostIsNat
  <2>3. QED
    BY <2>1, <2>2
<1> HIDE DEF n, cost
<1>2. PICK low \in costs : \A c \in costs : low <= c
  <2>1. costs \subseteq Nat /\ costs # {}
    BY <1>1
  <2> HIDE DEF costs
  <2>2. QED
    BY <2>1, LeastNat
<1> DEFINE places == {k \in 0 .. n - 1 : cost(n - k) = low}
<1>3. PICK k \in places : \A l \in places : k <= l
  <2>1. PICK i \in 1 .. n : cost(i) = low
    BY <1>2
  <2>2. n - i \in 0 .. n - 1 /\ n - (n - i) = i
    BY <1>1
  <2>3. places \subseteq Nat /\ n - i \in places
    BY <1>1, <2>1, <2>2
  <2> HIDE DEF places
  <2>4. QED
    BY <2>3, LeastNat
<1> DEFINE idx == n - k
<1>4. idx \in 1 .. n /\ cost(idx) = low
  BY <1>1, <1>3
<1>5. ASSUME NEW j \in 1 .. n
      PROVE  cost(idx) <= cost(j) /\ (cost(idx) = cost(j) => j <= idx)
  <2>1. cost(idx) <= cost(j)
    BY <1>2, <1>4
  <2>2. ASSUME cost(idx) = cost(j) PROVE j <= idx
    <3>1. n - j \in 0 .. n - 1 /\ n - (n - j) = j
      BY <1>1
    <3>2. n - j \in places
      BY <1>4, <2>2, <3>1
    <3>3. k <= n - j /\ k \in Nat
      BY <1>1, <1>3, <3>2
    <3>4. QED
      BY <1>1, <3>3
  <2>3. QED
    BY <2>1, <2>2
<1>6. cheapest_pair(ps) \in 1 .. n
  BY <1>4, <1>5 DEF cheapest_pair, n, cost
<1>7. QED
  BY <1>6 DEF n

-----------------------------------------------------------------------------
(***************************************************************************)
(* A merge shortens the list by one and uncovers nothing.                  *)
(***************************************************************************)
LEMMA CoveredByEntries ==
    ASSUME NEW ps, NEW w \in Words
    PROVE  w \in CoveredBy(ps) <=> \E p \in Entries(ps) : Covers(p, w)
  BY DEF CoveredBy, Entries

LEMMA MergeList ==
    ASSUME NEW ps \in Seq(NormalPatterns), SortedList(ps), Len(ps) >= 2,
           NEW r, r = merge_cheapest(ps)
    PROVE  /\ r \in Seq(NormalPatterns) /\ Len(r) = Len(ps) - 1 /\ SortedList(r)
           /\ CoveredBy(ps) \subseteq CoveredBy(r)
<1> DEFINE idx   == cheapest_pair(ps)
           rest  == remove_pair(ps, idx)
           union == combine(ps[idx], ps[idx + 1])
<1>1. /\ idx \in 1 .. Len(ps) - 1 /\ Len(ps) \in Nat
      /\ ps[idx] \in NormalPatterns /\ ps[idx + 1] \in NormalPatterns
  <2>1. idx \in 1 .. Len(ps) - 1
    BY CheapestPair
  <2>2. Len(ps) \in Nat /\ \A i \in 1 .. Len(ps) : ps[i] \in NormalPatterns
    BY LenProperties
  <2> HIDE DEF idx
  <2>3. QED
    BY <2>1, <2>2
<1>2. /\ union \in NormalPatterns
      /\ \A w : Covers(ps[idx], w) \/ Covers(ps[idx + 1], w) => Covers(union, w)
  BY <1>1, CombineCovers DEF NormalPatterns, Normal
<1>3. r = insert_sorted(rest, union)
  BY DEF merge_cheapest
<1> HIDE DEF idx, union
<1>4. /\ rest \in Seq(NormalPatterns) /\ Len(rest) = Len(ps) - 2 /\ SortedList(rest)
      /\ Entries(ps) \subseteq Entries(rest) \cup {ps[idx], ps[idx + 1]}
  BY <1>1, RemoveList
<1> HIDE DEF rest
<1>5. /\ r \in Seq(NormalPatterns) /\ Len(r) = Len(rest) + 1 /\ SortedList(r)
      /\ Entries(r) = Entries(rest) \cup {union}
  BY <1>2, <1>3, <1>4, InsertList
<1>6. ASSUME NEW w \in Words, w \in CoveredBy(ps) PROVE w \in CoveredBy(r)
  <2>1. PICK p \in Entries(ps) : Covers(p, w)
    BY <1>6, CoveredByEntries
  <2>2. p \in Entries(rest) \/ p = ps[idx] \/ p = ps[idx + 1]
    BY <1>4
  <2>3. \E q \in Entries(r) : Covers(q, w)
    BY <1>2, <1>5, <2>1, <2>2
  <2>4. QED
    BY <2>3, CoveredByEntries
<1>7. QED
  BY <1>1, <1>4, <1>5, <1>6 DEF CoveredBy

-----------------------------------------------------------------------------
(***************************************************************************)
(* The inductive invariant: the list holds normal patterns, sorted and no  *)
(* more than fit, and covers the faults.                                   *)
(***************************************************************************)
ListOf(ps, fs) ==
    /\ ps \in Seq(NormalPatterns)
    /\ fs \subseteq Addresses
    /\ SortedList(ps)
    /\ Len(ps) <= MAX_PATTERNS
    /\ fs \subseteq CoveredBy(ps)

ListInv == ListOf(patterns, faulty)

LEMMA EmptyList == ListOf(<<>>, {})
<1>1. <<>> \in Seq(NormalPatterns) /\ Len(<<>>) = 0 /\ DOMAIN <<>> = {}
  BY EmptySeq
<1>2. QED
  BY <1>1, BadRamAssumption DEF ListOf, SortedList

LEMMA AddressPattern ==
    ASSUME NEW a \in Addresses
    PROVE  /\ a \in Words
           /\ [addr |-> a, mask |-> DEFAULT_MASK] \in NormalPatterns
           /\ Covers([addr |-> a, mask |-> DEFAULT_MASK], a)
<1>1. a \subseteq DEFAULT_MASK /\ DEFAULT_MASK \subseteq Bits
  BY BadRamAssumption DEF DEFAULT_MASK, Bits
<1>2. QED
  BY <1>1 DEF Words, NormalPatterns, Normal, Pattern, Covers

\* What one insertion does.
LEMMA InsertStep ==
    ASSUME NEW ps, NEW fs, ListOf(ps, fs), NEW a \in Addresses, badram_insert_into(ps, fs, a)
    PROVE  /\ ListOf(patterns', faulty')
           /\ CoveredBy(ps) \subseteq CoveredBy(patterns')
           /\ Len(patterns') >= Len(ps)
<1> DEFINE new    == [addr |-> a, mask |-> DEFAULT_MASK]
           longer == insert_sorted(ps, new)
<1> USE DEF ListOf
<1>1. new \in NormalPatterns /\ a \in Words /\ Covers(new, a) /\ new.addr = a /\ new.mask = DEFAULT_MASK
  BY AddressPattern
<1>2. faulty' = fs \cup {a} /\ Len(ps) \in Nat /\ MAX_PATTERNS \in Nat \ {0}
  BY BadRamAssumption, LenProperties DEF badram_insert_into
<1>3. patterns' = IF is_covered(ps, new) THEN ps
                  ELSE IF Len(longer) > MAX_PATTERNS THEN merge_cheapest(longer)
                  ELSE longer
  BY DEF badram_insert_into
<1> HIDE DEF new
<1>4. /\ longer \in Seq(NormalPatterns) /\ Len(longer) = Len(ps) + 1 /\ SortedList(longer)
      /\ Entries(longer) = Entries(ps) \cup {new}
  BY <1>1, InsertList
<1> HIDE DEF longer
<1>5. CASE is_covered(ps, new)
  <2>1. PICK i \in DOMAIN ps : combi_cost(ps[i], new) = 0
    BY <1>5 DEF is_covered
  <2>2. ps[i] \in NormalPatterns
    BY LenProperties
  <2>3. Covers(ps[i], a)
    BY <1>1, <2>1, <2>2, FreeIsCovered DEF NormalPatterns
  <2>4. a \in CoveredBy(ps)
    BY <1>1, <2>3 DEF CoveredBy
  <2>5. QED
    BY <1>2, <1>3, <1>5, <2>4
<1>6. CASE ~is_covered(ps, new)
  <2>1. CoveredBy(ps) \cup {a} \subseteq CoveredBy(longer)
    <3>1. CoveredBy(ps) \subseteq Words
      BY DEF CoveredBy
    <3>2. QED
      BY <1>1, <1>4, <3>1, CoveredByEntries
  <2>2. CASE Len(longer) > MAX_PATTERNS
    <3>1. Len(longer) >= 2
      BY <1>2, <1>4, <2>2
    <3>2. /\ patterns' \in Seq(NormalPatterns) /\ Len(patterns') = Len(longer) - 1
          /\ SortedList(patterns') /\ CoveredBy(longer) \subseteq CoveredBy(patterns')
      BY <1>3, <1>4, <1>6, <2>2, <3>1, MergeList
    <3>3. QED
      BY <1>2, <1>4, <2>1, <3>2
  <2>3. CASE ~(Len(longer) > MAX_PATTERNS)
    BY <1>2, <1>3, <1>4, <1>6, <2>1, <2>3
  <2>4. QED
    BY <2>2, <2>3
<1>7. QED
  BY <1>5, <1>6

LEMMA InitListInv == BadRamInit => ListInv
  BY EmptyList DEF BadRamInit, ListInv

LEMMA NextListInv == ListInv /\ [BadRamNext]_badramVars => ListInv'
<1> SUFFICES ASSUME ListInv, [BadRamNext]_badramVars PROVE ListOf(patterns', faulty')
  BY DEF ListInv
<1>1. CASE badram_init
  BY <1>1, EmptyList DEF badram_init
<1>2. ASSUME NEW a \in Addresses, badram_insert(a) PROVE ListOf(patterns', faulty')
  BY <1>2, InsertStep DEF badram_insert, ListInv
<1>3. CASE UNCHANGED badramVars
  BY <1>3 DEF badramVars, ListInv
<1>4. QED
  BY <1>1, <1>2, <1>3 DEF BadRamNext

LEMMA AlwaysListInv == BadRamSpec => []ListInv
  BY InitListInv, NextListInv, PTL DEF BadRamSpec

(***************************************************************************)
(* Every fault reported since the list was cleared is covered: merging     *)
(* loses none, and a fault that is taken to be covered is.                 *)
(***************************************************************************)
THEOREM NoFaultLost == BadRamSpec => []FaultsCovered
<1>1. ListInv => FaultsCovered
  BY DEF ListInv, ListOf, FaultsCovered, CoveredBy
<1>2. QED
  BY <1>1, AlwaysListInv, PTL

(***************************************************************************)
(* The list holds patterns of words, and the faults are addresses.         *)
(***************************************************************************)
THEOREM ListTyped == BadRamSpec => []BadRamTypeOK
<1>1. ListInv => BadRamTypeOK
  <2>1. NormalPatterns \subseteq Pattern
    BY DEF NormalPatterns
  <2>2. ListInv => patterns \in Seq(Pattern)
    BY <2>1, SeqMonotonic DEF ListInv, ListOf
  <2>3. QED
    BY <2>2 DEF ListInv, ListOf, BadRamTypeOK
<1>2. QED
  BY <1>1, AlwaysListInv, PTL

(***************************************************************************)
(* The list stays sorted and within the array.                             *)
(***************************************************************************)
THEOREM ListSorted == BadRamSpec => []SortedAndBounded
<1>1. ListInv => SortedAndBounded
  BY DEF ListInv, ListOf, SortedAndBounded, SortedList
<1>2. QED
  BY <1>1, AlwaysListInv, PTL

(***************************************************************************)
(* Until the list is cleared, what it covers only grows, and so does the   *)
(* list.                                                                   *)
(***************************************************************************)
THEOREM CoverageGrows == BadRamSpec => OnlyGrows
<1>1. ListInv /\ [BadRamNext]_badramVars =>
        [faulty' # {} =>
           /\ CoveredBy(patterns) \subseteq CoveredBy(patterns')
           /\ Len(patterns') >= Len(patterns)]_badramVars
  <2> SUFFICES ASSUME ListInv, BadRamNext, faulty' # {}
               PROVE  /\ CoveredBy(patterns) \subseteq CoveredBy(patterns')
                      /\ Len(patterns') >= Len(patterns)
    OBVIOUS
  <2>1. QED
    BY InsertStep DEF ListInv, BadRamNext, badram_init, badram_insert
<1>2. QED
  BY <1>1, AlwaysListInv, PTL DEF BadRamSpec, OnlyGrows

-----------------------------------------------------------------------------
(***************************************************************************)
(* As long as the faults fit, there is one pattern for each of them, with  *)
(* the mask of a single address: the list never merges.                    *)
(***************************************************************************)
Exact(ps, fs) ==
    Cardinality(fs) <= MAX_PATTERNS =>
        /\ Len(ps) <= Cardinality(fs)
        /\ \A i \in DOMAIN ps : ps[i].mask = DEFAULT_MASK /\ ps[i].addr \in fs

LEMMA AddressesFinite ==
    ASSUME NEW fs, fs \subseteq Addresses
    PROVE  IsFiniteSet(fs) /\ Cardinality(fs) \in Nat
<1>1. IsFiniteSet(DEFAULT_MASK)
  BY BadRamAssumption, FS_Interval DEF DEFAULT_MASK
<1>2. IsFiniteSet(SUBSET DEFAULT_MASK)
  BY <1>1, FS_SUBSET
<1>3. fs \subseteq SUBSET DEFAULT_MASK
  BY BadRamAssumption
<1>4. IsFiniteSet(fs)
  BY <1>2, <1>3, FS_Subset
<1>5. QED
  BY <1>4, FS_CardinalityType

\* A fault that has its pattern costs nothing to cover.
LEMMA KnownIsCovered ==
    ASSUME NEW ps, NEW a \in Addresses, NEW i \in DOMAIN ps,
           ps[i].mask = DEFAULT_MASK, ps[i].addr = a
    PROVE  is_covered(ps, [addr |-> a, mask |-> DEFAULT_MASK])
<1> DEFINE new == [addr |-> a, mask |-> DEFAULT_MASK]
<1>1. CombineMask(ps[i], new) = ps[i].mask
  BY DEF CombineMask
<1>2. ps[i].mask \in Words
  BY BadRamAssumption DEF DEFAULT_MASK, Words, Bits
<1>3. /\ addresses(ps[i].mask) \in 0 .. 2^WIDTH - 1
      /\ 2^WIDTH \in Nat \ {0}
  BY <1>2, AddressesRange
<1>4. \A n \in Nat \ {0}, x \in Nat : (x - x) % n = 0
  OBVIOUS
<1>5. combi_cost(ps[i], new) = 0
  BY <1>1, <1>3, <1>4 DEF combi_cost
<1>6. QED
  BY <1>5 DEF is_covered

LEMMA ExactStep ==
    ASSUME NEW ps, NEW fs, ListOf(ps, fs), Exact(ps, fs), NEW a \in Addresses,
           badram_insert_into(ps, fs, a)
    PROVE  Exact(patterns', faulty')
<1> SUFFICES ASSUME Cardinality(faulty') <= MAX_PATTERNS
             PROVE  /\ Len(patterns') <= Cardinality(faulty')
                    /\ \A i \in DOMAIN patterns' :
                         patterns'[i].mask = DEFAULT_MASK /\ patterns'[i].addr \in faulty'
  BY DEF Exact
<1> DEFINE new    == [addr |-> a, mask |-> DEFAULT_MASK]
           longer == insert_sorted(ps, new)
<1>1. /\ fs \subseteq Addresses /\ ps \in Seq(NormalPatterns) /\ SortedList(ps)
      /\ fs \subseteq CoveredBy(ps) /\ Len(ps) \in Nat /\ MAX_PATTERNS \in Nat
  BY BadRamAssumption, LenProperties DEF ListOf
<1>2. faulty' = fs \cup {a}
  BY DEF badram_insert_into
<1>3. /\ IsFiniteSet(fs) /\ Cardinality(fs) \in Nat
      /\ Cardinality(fs \cup {a}) = IF a \in fs THEN Cardinality(fs) ELSE Cardinality(fs) + 1
  BY <1>1, AddressesFinite, FS_AddElement
<1>4. /\ Len(ps) <= Cardinality(fs)
      /\ \A i \in DOMAIN ps : ps[i].mask = DEFAULT_MASK /\ ps[i].addr \in fs
  BY <1>1, <1>2, <1>3 DEF Exact
<1>5. CASE is_covered(ps, new)
  BY <1>1, <1>2, <1>3, <1>4, <1>5 DEF badram_insert_into
<1>6. CASE ~is_covered(ps, new)
  <2>1. a \notin fs
    <3> SUFFICES ASSUME a \in fs PROVE FALSE
      OBVIOUS
    <3>1. PICK i \in DOMAIN ps : Covers(ps[i], a)
      BY <1>1 DEF CoveredBy
    <3>2. a \subseteq DEFAULT_MASK
      BY BadRamAssumption
    <3>3. ps[i].addr = a
      BY <1>4, <3>1, <3>2 DEF Covers
    <3>4. QED
      BY <1>4, <1>6, <3>3, KnownIsCovered
  <2>2. /\ longer \in Seq(NormalPatterns) /\ Len(longer) = Len(ps) + 1
        /\ Entries(longer) = Entries(ps) \cup {new}
    BY <1>1, AddressPattern, InsertList
  <2> HIDE DEF longer
  <2>3. patterns' = longer
    <3>1. patterns' = IF Len(longer) > MAX_PATTERNS THEN merge_cheapest(longer) ELSE longer
      BY <1>6 DEF badram_insert_into, longer
    <3>2. ~(Len(longer) > MAX_PATTERNS)
      BY <1>1, <1>2, <1>3, <1>4, <2>1, <2>2
    <3>3. QED
      BY <3>1, <3>2
  <2>4. \A i \in DOMAIN longer : longer[i] \in Entries(ps) \cup {new}
    BY <2>2 DEF Entries
  <2>5. \A p \in Entries(ps) \cup {new} : p.mask = DEFAULT_MASK /\ p.addr \in fs \cup {a}
    BY <1>4 DEF Entries
  <2>6. QED
    BY <1>1, <1>2, <1>3, <1>4, <2>1, <2>2, <2>3, <2>4, <2>5
<1>7. QED
  BY <1>5, <1>6

(***************************************************************************)
(* Sound memory is given up only when there are more faults than patterns. *)
(***************************************************************************)
THEOREM ExactUntilFull == BadRamSpec => []ExactWhileItFits
<1>1. BadRamInit => Exact(patterns, faulty)
  BY EmptySeq, FS_EmptySet DEF BadRamInit, Exact
<1>2. ListInv /\ Exact(patterns, faulty) /\ [BadRamNext]_badramVars => Exact(patterns, faulty)'
  <2> SUFFICES ASSUME ListInv, Exact(patterns, faulty), [BadRamNext]_badramVars
               PROVE  Exact(patterns', faulty')
    BY DEF Exact
  <2>1. CASE badram_init
    BY <2>1, EmptySeq, FS_EmptySet DEF badram_init, Exact
  <2>2. ASSUME NEW a \in Addresses, badram_insert(a) PROVE Exact(patterns', faulty')
    BY <2>2, ExactStep DEF badram_insert, ListInv
  <2>3. CASE UNCHANGED badramVars
    BY <2>3 DEF badramVars, Exact
  <2>4. QED
    BY <2>1, <2>2, <2>3 DEF BadRamNext
<1>3. Exact(patterns, faulty) => ExactWhileItFits
  BY DEF Exact, ExactWhileItFits, Covers
<1>4. QED
  BY <1>1, <1>2, <1>3, AlwaysListInv, PTL DEF BadRamSpec
=============================================================================
