----------------------------- MODULE BasicFacts -----------------------------
(***************************************************************************)
(* Facts the proofs about several components use: about sequences without  *)
(* repetition, which stand for free lists and queues, about the least and  *)
(* the greatest element of a set of numbers, and about division.           *)
(***************************************************************************)
EXTENDS SequencesExt, FiniteSetsExt, FiniteSetTheorems, WellFoundedInduction, TLAPS

\* A set of natural numbers has its minimum.
LEMMA MinIn ==
  ASSUME NEW S \in SUBSET Nat, S # {}
  PROVE  Min(S) \in S /\ \A y \in S : Min(S) <= y
<1> DEFINE Less == {p \in Nat \X Nat : p[1] < p[2]}
<1>1. IsWellFoundedOn(Less, Nat)
  BY NatLessThanWellFounded DEF OpToRel
<1> HIDE DEF Less
<1>2. \E x \in S : \A y \in S : ~(<<y, x>> \in Less)
  BY <1>1, WFMin
<1>3. \A x, y \in Nat : y < x => <<y, x>> \in Less
  BY DEF Less
<1>4. PICK x \in S : \A y \in S : ~(<<y, x>> \in Less)
  BY <1>2
<1>5. ASSUME NEW y \in S PROVE x <= y
  <2>1. x \in Nat /\ y \in Nat
    OBVIOUS
  <2>2. ~(y < x)
    BY <1>3, <1>4, <2>1
  <2> QED
    BY <2>1, <2>2
<1> QED
  BY <1>5 DEF Min

\* A set of natural numbers below a bound has its maximum.
LEMMA MaxIn ==
  ASSUME NEW S \in SUBSET Nat, S # {}, NEW n \in Nat, \A x \in S : x <= n
  PROVE  Max(S) \in S /\ \A y \in S : Max(S) >= y
<1> DEFINE T == {n - x : x \in S}
<1>0. \A x \in S : n - x \in Nat
  OBVIOUS
<1>1. T \in SUBSET Nat /\ T # {}
  BY <1>0
<1>2. PICK x \in S : Min(T) = n - x
  BY <1>1, MinIn
<1>3. \A y \in S : n - x <= n - y
  BY <1>1, <1>2, MinIn
<1>4. \A y \in S : x >= y
  BY <1>3
<1> QED
  BY <1>4 DEF Max

\* Induction up to a number, over a set that holds 0 and with each number the next.
LEMMA Climb ==
  ASSUME NEW n \in Nat, NEW G, 0 \in G, \A k \in 1 .. n : k - 1 \in G => k \in G
  PROVE  \A k \in 0 .. n : k \in G
<1> DEFINE Bad == (0 .. n) \ G
<1> SUFFICES ASSUME Bad # {} PROVE FALSE
  OBVIOUS
<1>1. Bad \in SUBSET Nat
  OBVIOUS
<1>2. PICK m \in Bad : \A y \in Bad : m <= y
  <2> HIDE DEF Bad
  <2> QED
    BY <1>1, MinIn
<1>3. m \in 1 .. n /\ m - 1 \in 0 .. n /\ ~(m <= m - 1)
  OBVIOUS
<1>4. m - 1 \notin Bad
  BY <1>2, <1>3
<1> QED
  BY <1>3, <1>4

\* g computes n values of S one from the other, from a on.
Computed(g, S, a, n, step) ==
  g \in [0 .. n -> S] /\ g[0] = a /\ \A k \in 1 .. n : g[k] = step[k][g[k - 1]]

\* Values that are computed one from the other, a number of times, are there.
LEMMA Recursion ==
  ASSUME NEW S, NEW a \in S, NEW n \in Nat, NEW step \in [1 .. n -> [S -> S]]
  PROVE  \E g : Computed(g, S, a, n, step)
<1> DEFINE Computes(m, g) == g[0] = a /\ \A k \in 1 .. m : g[k] = step[k][g[k - 1]]
           G == {m \in 0 .. n : \E g \in [0 .. m -> S] : Computes(m, g)}
<1>1. 0 \in G
  <2> DEFINE g == [k \in 0 .. 0 |-> a]
  <2>1. g \in [0 .. 0 -> S] /\ Computes(0, g)
    OBVIOUS
  <2> HIDE DEF g, Computes
  <2> QED
    BY <2>1
<1>2. ASSUME NEW m \in 1 .. n, m - 1 \in G PROVE m \in G
  <2>1. PICK g \in [0 .. m - 1 -> S] : Computes(m - 1, g)
    BY <1>2
  <2> DEFINE h == [k \in 0 .. m |-> IF k = m THEN step[m][g[m - 1]] ELSE g[k]]
  <2>2. m - 1 \in 0 .. m - 1 /\ g[m - 1] \in S /\ step[m][g[m - 1]] \in S
    BY <2>1
  <2>3. h \in [0 .. m -> S]
    BY <2>1, <2>2
  <2>4. h[0] = a
    BY <2>1
  <2>5. ASSUME NEW k \in 1 .. m PROVE h[k] = step[k][h[k - 1]]
    <3>1. CASE k = m
      BY <3>1
    <3>2. CASE k # m
      <4>1. k \in 1 .. m - 1 /\ h[k] = g[k] /\ h[k - 1] = g[k - 1]
        BY <3>2
      <4> HIDE DEF h
      <4> QED
        BY <2>1, <4>1
    <3> QED
      BY <3>1, <3>2
  <2>6. Computes(m, h)
    BY <2>4, <2>5
  <2> HIDE DEF h, Computes
  <2> QED
    BY <2>3, <2>6
<1>3. n \in 0 .. n /\ n \in G
  <2> HIDE DEF G
  <2>1. \A m \in 1 .. n : m - 1 \in G => m \in G
    BY <1>2
  <2>2. \A m \in 0 .. n : m \in G
    BY <1>1, <2>1, Climb
  <2> QED
    BY <2>2
<1> QED
  BY <1>3 DEF Computed

\* A product with a positive factor is no smaller than the other.
LEMMA TimesPositive ==
  ASSUME NEW b \in Nat, NEW d \in Nat \ {0}
  PROVE  b * d \in Nat /\ b * d >= b
<1>1. PICK e \in Nat : d = e + 1
  BY d - 1 \in Nat
<1>2. b * e \in Nat
  OBVIOUS
<1>3. b * (e + 1) = b * e + b
  OBVIOUS
<1> QED
  BY <1>1, <1>2, <1>3

\* The quotient and the remainder are the only ones.
LEMMA DivIs ==
  ASSUME NEW b \in Nat \ {0}, NEW q \in Int, NEW r \in 0 .. b - 1
  PROVE  (b * q + r) \div b = q /\ (b * q + r) % b = r
<1> DEFINE a == b * q + r
           p == a \div b
           m == a % b
<1>1. a \in Int /\ p \in Int /\ m \in 0 .. b - 1 /\ a = b * p + m
  OBVIOUS
<1> HIDE DEF p, m
<1>2. b * q + r = b * p + m
  BY <1>1 DEF a
<1>3. b * (q - p) = m - r /\ b * (p - q) = r - m
  BY <1>1, <1>2
<1>4. CASE q > p
  <2>1. q - p \in Nat \ {0}
    BY <1>1, <1>4
  <2>2. b * (q - p) >= b
    BY <2>1, TimesPositive
  <2> QED
    BY <1>1, <1>3, <2>2
<1>5. CASE q < p
  <2>1. p - q \in Nat \ {0}
    BY <1>1, <1>5
  <2>2. b * (p - q) >= b
    BY <2>1, TimesPositive
  <2> QED
    BY <1>1, <1>3, <2>2
<1>6. CASE q = p
  BY <1>1, <1>2, <1>6 DEF p, m, a
<1> QED
  BY <1>1, <1>4, <1>5, <1>6

\* A quotient grows by one at each multiple.
LEMMA DivNext ==
  ASSUME NEW b \in Nat \ {0}, NEW y \in Nat
  PROVE  (y + 1) \div b = y \div b + (IF (y + 1) % b = 0 THEN 1 ELSE 0)
<1>1. PICK q \in Nat, r \in 0 .. b - 1 : y = b * q + r /\ q = y \div b
  <2>1. y \div b \in Nat /\ y % b \in 0 .. b - 1 /\ y = b * (y \div b) + (y % b)
    OBVIOUS
  <2> QED
    BY <2>1
<1>2. CASE r = b - 1
  <2>1. q + 1 \in Int /\ 0 \in 0 .. b - 1
    OBVIOUS
  <2>2. y + 1 = b * (q + 1) + 0
    <3>1. b * (q + 1) = b * q + b
      OBVIOUS
    <3> QED
      BY <1>1, <1>2, <3>1
  <2>3. (y + 1) \div b = q + 1 /\ (y + 1) % b = 0
    BY <2>1, <2>2, DivIs
  <2> QED
    BY <1>1, <2>3
<1>3. CASE r # b - 1
  <2>1. q \in Int /\ r + 1 \in 0 .. b - 1 /\ r + 1 # 0
    BY <1>3
  <2>2. y + 1 = b * q + (r + 1)
    BY <1>1
  <2>3. (y + 1) \div b = q /\ (y + 1) % b = r + 1
    BY <2>1, <2>2, DivIs
  <2> QED
    BY <1>1, <2>1, <2>3
<1> QED
  BY <1>2, <1>3

\* What a sequence of different elements has behind its head.
LEMMA SeqTail ==
  ASSUME NEW S, NEW q \in Seq(S), q # <<>>, IsInjective(q)
  PROVE  /\ Head(q) \in ToSet(q) /\ Head(q) \in S
         /\ Tail(q) \in Seq(S) /\ IsInjective(Tail(q)) /\ Len(Tail(q)) = Len(q) - 1
         /\ ToSet(Tail(q)) = ToSet(q) \ {Head(q)}
<1>1. Len(q) \in Nat \ {0} /\ DOMAIN q = 1 .. Len(q) /\ Head(q) = q[1]
  OBVIOUS
<1>2. /\ Tail(q) \in Seq(S) /\ Len(Tail(q)) = Len(q) - 1
      /\ DOMAIN Tail(q) = 1 .. Len(q) - 1
      /\ \A i \in 1 .. Len(q) - 1 : Tail(q)[i] = q[i + 1]
  BY <1>1
<1>3. IsInjective(Tail(q))
  <2> SUFFICES ASSUME NEW a \in 1 .. Len(q) - 1, NEW b \in 1 .. Len(q) - 1, q[a + 1] = q[b + 1]
               PROVE  a = b
    BY <1>2 DEF IsInjective
  <2>1. a + 1 \in 1 .. Len(q) /\ b + 1 \in 1 .. Len(q)
    BY <1>1
  <2>2. a + 1 = b + 1
    BY <1>1, <2>1 DEF IsInjective
  <2> QED
    BY <2>2
<1>4. ToSet(Tail(q)) \subseteq ToSet(q) \ {Head(q)}
  <2> SUFFICES ASSUME NEW a \in 1 .. Len(q) - 1
               PROVE  q[a + 1] \in ToSet(q) \ {Head(q)}
    BY <1>2 DEF ToSet
  <2>1. a + 1 \in 1 .. Len(q) /\ 1 \in 1 .. Len(q) /\ a + 1 # 1
    BY <1>1
  <2> QED
    BY <1>1, <2>1 DEF IsInjective, ToSet
<1>5. ToSet(q) \ {Head(q)} \subseteq ToSet(Tail(q))
  <2> SUFFICES ASSUME NEW a \in 1 .. Len(q), q[a] # Head(q)
               PROVE  q[a] \in ToSet(Tail(q))
    BY <1>1 DEF ToSet
  <2>1. a - 1 \in 1 .. Len(q) - 1 /\ (a - 1) + 1 = a
    BY <1>1
  <2> QED
    BY <1>2, <2>1 DEF ToSet
<1>6. Head(q) \in ToSet(q) /\ Head(q) \in S
  BY <1>1 DEF ToSet
<1> QED
  BY <1>2, <1>3, <1>4, <1>5, <1>6

\* Another element put in front of a sequence of different ones.
LEMMA SeqCons ==
  ASSUME NEW S, NEW q \in Seq(S), NEW s \in S, IsInjective(q), s \notin ToSet(q)
  PROVE  /\ <<s>> \o q \in Seq(S) /\ IsInjective(<<s>> \o q)
         /\ Len(<<s>> \o q) = Len(q) + 1
         /\ ToSet(<<s>> \o q) = ToSet(q) \cup {s}
<1> DEFINE r == <<s>> \o q
<1>1. /\ r \in Seq(S) /\ Len(r) = Len(q) + 1 /\ DOMAIN r = 1 .. Len(q) + 1
      /\ Len(q) \in Nat /\ DOMAIN q = 1 .. Len(q)
  OBVIOUS
<1>2. r[1] = s /\ \A i \in 2 .. Len(q) + 1 : r[i] = q[i - 1]
  OBVIOUS
<1> HIDE DEF r
<1>3. \A i \in 2 .. Len(q) + 1 : i - 1 \in DOMAIN q /\ q[i - 1] # s
  BY <1>1 DEF ToSet
<1>4. IsInjective(r)
  <2> SUFFICES ASSUME NEW a \in 1 .. Len(q) + 1, NEW b \in 1 .. Len(q) + 1, r[a] = r[b]
               PROVE  a = b
    BY <1>1 DEF IsInjective
  <2>1. CASE a = 1 \/ b = 1
    BY <1>1, <1>2, <1>3, <2>1
  <2>2. CASE a # 1 /\ b # 1
    <3>1. a \in 2 .. Len(q) + 1 /\ b \in 2 .. Len(q) + 1
      BY <1>1, <2>2
    <3>2. a - 1 = b - 1
      BY <1>2, <1>3, <3>1 DEF IsInjective
    <3> QED
      BY <3>2
  <2> QED
    BY <2>1, <2>2
<1>5. ToSet(r) \subseteq ToSet(q) \cup {s}
  <2> SUFFICES ASSUME NEW a \in 1 .. Len(q) + 1 PROVE r[a] \in ToSet(q) \cup {s}
    BY <1>1 DEF ToSet
  <2>1. a = 1 \/ a \in 2 .. Len(q) + 1
    BY <1>1
  <2> QED
    BY <1>2, <1>3, <2>1 DEF ToSet
<1>6. ToSet(q) \cup {s} \subseteq ToSet(r)
  <2>1. s \in ToSet(r)
    BY <1>1, <1>2 DEF ToSet
  <2>2. ASSUME NEW a \in 1 .. Len(q) PROVE q[a] \in ToSet(r)
    <3>1. a + 1 \in 2 .. Len(q) + 1 /\ a + 1 \in DOMAIN r /\ (a + 1) - 1 = a
      BY <1>1
    <3> QED
      BY <1>2, <3>1 DEF ToSet
  <2> QED
    BY <1>1, <2>1, <2>2 DEF ToSet
<1> QED
  BY <1>1, <1>4, <1>5, <1>6 DEF r

\* A sequence of different elements with others, all different from these, behind it.
LEMMA SeqConcat ==
  ASSUME NEW S, NEW q \in Seq(S), NEW p \in Seq(S), IsInjective(q), IsInjective(p),
         \A i \in DOMAIN q, j \in DOMAIN p : q[i] # p[j]
  PROVE  /\ q \o p \in Seq(S) /\ IsInjective(q \o p)
         /\ \A i \in DOMAIN (q \o p) :
              \/ i \in DOMAIN q /\ (q \o p)[i] = q[i]
              \/ i - Len(q) \in DOMAIN p /\ (q \o p)[i] = p[i - Len(q)]
<1> DEFINE r == q \o p
<1>1. /\ Len(q) \in Nat /\ Len(p) \in Nat /\ DOMAIN q = 1 .. Len(q) /\ DOMAIN p = 1 .. Len(p)
      /\ r \in Seq(S) /\ DOMAIN r = 1 .. Len(q) + Len(p)
      /\ \A i \in 1 .. Len(q) + Len(p) : r[i] = IF i <= Len(q) THEN q[i] ELSE p[i - Len(q)]
  OBVIOUS
<1> HIDE DEF r
<1>2. ASSUME NEW i \in DOMAIN r
      PROVE  \/ i \in DOMAIN q /\ r[i] = q[i]
             \/ i - Len(q) \in DOMAIN p /\ r[i] = p[i - Len(q)]
  BY <1>1
<1>3. ASSUME NEW a \in DOMAIN r, NEW b \in DOMAIN r, r[a] = r[b]
      PROVE  a = b
  <2>1. a \in Int /\ b \in Int
    BY <1>1
  <2>2. CASE a \in DOMAIN q /\ r[a] = q[a]
    <3>1. b \in DOMAIN q /\ r[b] = q[b]
      BY <1>2, <1>3, <2>2
    <3> QED
      BY <1>3, <2>2, <3>1 DEF IsInjective
  <2>3. CASE a - Len(q) \in DOMAIN p /\ r[a] = p[a - Len(q)]
    <3>1. b - Len(q) \in DOMAIN p /\ r[b] = p[b - Len(q)]
      BY <1>2, <1>3, <2>3
    <3>2. a - Len(q) = b - Len(q)
      BY <1>3, <2>3, <3>1 DEF IsInjective
    <3> QED
      BY <1>1, <2>1, <3>2
  <2> QED
    BY <1>2, <2>2, <2>3
<1>4. IsInjective(r)
  BY <1>3 DEF IsInjective
<1> QED
  BY <1>1, <1>2, <1>4 DEF r

\* SetToSeq lists each element of a finite set once.
LEMMA SeqOfSet ==
  ASSUME NEW S, IsFiniteSet(S)
  PROVE  /\ SetToSeq(S) \in Seq(S) /\ IsInjective(SetToSeq(S))
         /\ ToSet(SetToSeq(S)) = S /\ Len(SetToSeq(S)) = Cardinality(S)
<1> DEFINE n == Cardinality(S)
<1>1. n \in Nat /\ ExistsBijection(1 .. n, S)
  BY FS_CardinalityType
<1>2. PICK f \in Bijection(1 .. n, S) : TRUE
  BY <1>1 DEF ExistsBijection
<1>3. f \in [1 .. n -> S] /\ IsInjective(f)
  BY <1>2 DEF Bijection, Injection, Surjection, IsInjective
<1> DEFINE q == SetToSeq(S)
<1>4. q \in [1 .. n -> S] /\ IsInjective(q)
  BY <1>3 DEF SetToSeq
<1> HIDE DEF q
<1>5. q \in Injection(1 .. n, S)
  BY <1>4 DEF Injection, IsInjective
<1>6. IsFiniteSet(1 .. n) /\ Cardinality(1 .. n) = n
  BY <1>1, FS_Interval
<1>7. q \in Surjection(1 .. n, S)
  BY <1>5, <1>6, FS_Injection
<1>8. q \in Seq(S) /\ Len(q) = n /\ DOMAIN q = 1 .. n
  BY <1>1, <1>4
<1>9. ToSet(q) = S
  BY <1>7, <1>8 DEF Surjection, ToSet
<1> QED
  BY <1>4, <1>8, <1>9 DEF q
=============================================================================
