---------------------------- MODULE OutputProofs ----------------------------
(***************************************************************************)
(* Proofs about OutputChain: the bytes that are queued are sent in order   *)
(* and each once, for any chains, limits and numbers of iovecs.            *)
(***************************************************************************)
EXTENDS OutputChain, BasicFacts

\* A buffer of a chain: the bytes pos .. last - 1, in memory or in a file.
Buffer == [memory : BOOLEAN, joined : BOOLEAN, pos : Nat, last : Nat]

\* The buffers of a chain hold the bytes a .. b - 1, in order.
Holds(c, a, b) ==
  /\ c \in Seq(Buffer)
  /\ \A k \in 1 .. Len(c) : c[k].pos <= c[k].last
  /\ \A k \in 1 .. Len(c) - 1 : c[k + 1].pos = c[k].last
  /\ c = <<>> => a = b
  /\ c # <<>> => c[1].pos = a /\ c[Len(c)].last = b

\* Behind an empty memory buffer there is another memory buffer.
Sendable(c) ==
  \A k \in 1 .. Len(c) :
    c[k].memory /\ c[k].pos = c[k].last => k < Len(c) /\ c[k + 1].memory

\* The sums of the first numbers of a sequence are there, and grow.
LEMMA SumsAre ==
  ASSUME NEW s \in Seq(Nat)
  PROVE  /\ Sums(s) \in [0 .. Len(s) -> Nat]
         /\ Sums(s)[0] = 0
         /\ \A k \in 1 .. Len(s) : Sums(s)[k] = Sums(s)[k - 1] + s[k]
         /\ \A i, j \in 0 .. Len(s) : i <= j => Sums(s)[i] <= Sums(s)[j]
<1> DEFINE n == Len(s)
           step == [k \in 1 .. n |-> [x \in Nat |-> x + s[k]]]
           sum == CHOOSE sum : sum = [k \in 0 .. n |-> IF k = 0 THEN 0 ELSE sum[k - 1] + s[k]]
<1>1. n \in Nat /\ \A k \in 1 .. n : s[k] \in Nat
  OBVIOUS
<1>2. step \in [1 .. n -> [Nat -> Nat]]
  BY <1>1
<1>3. Sums(s) = sum
  BY DEF Sums
<1> HIDE DEF n
<1>4. PICK g \in [0 .. n -> Nat] : g[0] = 0 /\ \A k \in 1 .. n : g[k] = step[k][g[k - 1]]
  <2> HIDE DEF step
  <2>1. PICK g : Computed(g, Nat, 0, n, step)
    BY <1>1, <1>2, Recursion
  <2> QED
    BY <2>1 DEF Computed
<1>5. ASSUME NEW k \in 0 .. n
      PROVE  g[k] = IF k = 0 THEN 0 ELSE g[k - 1] + s[k]
  <2>1. k # 0 => k \in 1 .. n /\ k - 1 \in 0 .. n /\ g[k - 1] \in Nat
    BY <1>1
  <2>2. k # 0 => step[k][g[k - 1]] = g[k - 1] + s[k]
    BY <2>1
  <2> QED
    BY <1>4, <2>1, <2>2
<1>6. g = [k \in 0 .. n |-> IF k = 0 THEN 0 ELSE g[k - 1] + s[k]]
  <2> HIDE DEF step
  <2> QED
    BY <1>5
<1>7. sum = [k \in 0 .. n |-> IF k = 0 THEN 0 ELSE sum[k - 1] + s[k]]
  BY <1>6
<1> HIDE DEF sum, step
<1>8. /\ sum[0] = 0
      /\ \A k \in 1 .. n : sum[k] = sum[k - 1] + s[k]
  BY <1>1, <1>7
<1>9. \A k \in 0 .. n : sum[k] \in Nat
  <2> DEFINE G == {k \in 0 .. n : sum[k] \in Nat}
  <2>1. 0 \in G
    BY <1>1, <1>8
  <2>2. ASSUME NEW k \in 1 .. n, k - 1 \in G PROVE k \in G
    <3>1. sum[k - 1] \in Nat /\ s[k] \in Nat /\ sum[k] = sum[k - 1] + s[k] /\ k \in 0 .. n
      BY <1>1, <1>8, <2>2
    <3> QED
      BY <3>1
  <2>3. \A k \in 0 .. n : k \in G
    <3> HIDE DEF G
    <3>1. \A k \in 1 .. n : k - 1 \in G => k \in G
      BY <2>2
    <3> QED
      BY <1>1, <2>1, <3>1, Climb
  <2> QED
    BY <2>3
<1>10. sum \in [0 .. n -> Nat]
  BY <1>7, <1>9
<1>11. \A j \in 0 .. n : \A i \in 0 .. n : i <= j => sum[i] <= sum[j]
  <2> DEFINE G == {j \in 0 .. n : \A i \in 0 .. n : i <= j => sum[i] <= sum[j]}
  <2>1. 0 \in G
    BY <1>1, <1>9
  <2>2. ASSUME NEW k \in 1 .. n, k - 1 \in G PROVE k \in G
    <3>1. sum[k - 1] <= sum[k] /\ sum[k] \in Nat /\ sum[k - 1] \in Nat
      <4>1. k \in 0 .. n /\ k - 1 \in 0 .. n /\ s[k] \in Nat
        BY <1>1
      <4>2. sum[k] = sum[k - 1] + s[k] /\ sum[k] \in Nat /\ sum[k - 1] \in Nat
        BY <1>8, <1>9, <4>1
      <4> QED
        BY <4>1, <4>2
    <3>2. \A i \in 0 .. n : i <= k - 1 => sum[i] <= sum[k - 1] /\ sum[i] \in Nat
      BY <1>9, <2>2
    <3>3. ASSUME NEW i \in 0 .. n, i <= k PROVE sum[i] <= sum[k]
      <4>1. CASE i = k
        BY <3>1, <4>1
      <4>2. CASE i <= k - 1
        BY <3>1, <3>2, <4>2
      <4> QED
        BY <1>1, <3>3, <4>1, <4>2
    <3> QED
      BY <1>1, <3>3
  <2>3. \A k \in 1 .. n : k - 1 \in G => k \in G
    <3> HIDE DEF G
    <3> QED
      BY <2>2
  <2>4. \A k \in 0 .. n : k \in G
    <3> HIDE DEF G
    <3> QED
      BY <1>1, <2>1, <2>3, Climb
  <2> QED
    BY <2>4
<1> QED
  BY <1>3, <1>8, <1>10, <1>11 DEF n

\* Where the buffers of a chain end, counted from its first byte.
Measured(c, a, b) ==
  /\ Ends(c) \in [0 .. Len(c) -> Nat] /\ Ends(c)[0] = 0
  /\ \A k \in 1 .. Len(c) : /\ Ends(c)[k] = c[k].last - a
                            /\ Ends(c)[k - 1] = c[k].pos - a
  /\ Ends(c)[Len(c)] = b - a
  /\ \A i, j \in 0 .. Len(c) : i <= j => Ends(c)[i] <= Ends(c)[j]

\* The buffers of such a chain end where the bytes before the next one end.
LEMMA EndsAre ==
  ASSUME NEW a \in Nat, NEW b \in Nat, NEW c, Holds(c, a, b)
  PROVE  Measured(c, a, b)
<1> DEFINE n == Len(c)
           s == [k \in DOMAIN c |-> buffer_size(c[k])]
<1>1. n \in Nat /\ c \in Seq(Buffer) /\ DOMAIN c = 1 .. n
  BY DEF Holds
<1>2. \A k \in 1 .. n : c[k].pos \in Nat /\ c[k].last \in Nat /\ c[k].pos <= c[k].last
  <2>1. \A k \in 1 .. n : c[k] \in Buffer
    BY <1>1
  <2> QED
    BY <2>1 DEF Holds, Buffer
<1>3. s \in Seq(Nat) /\ Len(s) = n
  <2>1. \A k \in 1 .. n : buffer_size(c[k]) \in Nat
    BY <1>2 DEF buffer_size
  <2>2. s \in [1 .. n -> Nat]
    BY <1>1, <2>1
  <2> HIDE DEF s, n
  <2> QED
    BY <1>1, <2>2
<1>4. Ends(c) = Sums(s)
  BY DEF Ends
<1>5. \A k \in 1 .. n : s[k] = c[k].last - c[k].pos
  BY <1>1 DEF buffer_size
<1> HIDE DEF s
<1>6. /\ Ends(c) \in [0 .. n -> Nat] /\ Ends(c)[0] = 0
      /\ \A k \in 1 .. n : Ends(c)[k] = Ends(c)[k - 1] + s[k]
      /\ \A i, j \in 0 .. n : i <= j => Ends(c)[i] <= Ends(c)[j]
  BY <1>3, <1>4, SumsAre
<1>7. /\ \A k \in 1 .. n - 1 : c[k + 1].pos = c[k].last
      /\ n # 0 => c[1].pos = a /\ c[n].last = b
      /\ n = 0 => a = b
  BY <1>1 DEF Holds
<1> HIDE DEF n
<1> DEFINE G == {k \in 0 .. n : k # 0 => /\ Ends(c)[k] = c[k].last - a
                                         /\ Ends(c)[k - 1] = c[k].pos - a}
<1>8. 0 \in G
  BY <1>1
<1>9. ASSUME NEW k \in 1 .. n, k - 1 \in G PROVE k \in G
  <2>1. /\ Ends(c)[k] = Ends(c)[k - 1] + (c[k].last - c[k].pos)
        /\ c[k].pos \in Nat /\ c[k].last \in Nat
    BY <1>2, <1>5, <1>6
  <2>2. CASE k = 1
    <3>1. Ends(c)[k - 1] = 0 /\ c[k].pos = a
      BY <1>1, <1>6, <1>7, <2>2
    <3> QED
      BY <2>1, <3>1
  <2>3. CASE k # 1
    <3>1. k - 1 \in 1 .. n - 1 /\ k - 1 \in 1 .. n /\ k - 1 + 1 = k
      BY <1>1, <2>3
    <3>2. Ends(c)[k - 1] = c[k - 1].last - a
      BY <1>9, <3>1
    <3>3. c[k].pos = c[k - 1].last
      BY <1>7, <3>1
    <3> QED
      BY <2>1, <3>2, <3>3
  <2> QED
    BY <2>2, <2>3
<1>10. \A k \in 0 .. n : k \in G
  <2>1. \A k \in 1 .. n : k - 1 \in G => k \in G
    <3> HIDE DEF G
    <3> QED
      BY <1>9
  <2> HIDE DEF G
  <2> QED
    BY <1>1, <1>8, <2>1, Climb
<1>11. \A k \in 1 .. n : Ends(c)[k] = c[k].last - a /\ Ends(c)[k - 1] = c[k].pos - a
  BY <1>10
<1>12. Ends(c)[n] = b - a
  <2>1. CASE n = 0
    BY <1>6, <1>7, <2>1
  <2>2. CASE n # 0
    <3>1. n \in 1 .. n
      BY <1>1, <2>2
    <3> QED
      BY <1>7, <1>11, <2>2, <3>1
  <2> QED
    BY <2>1, <2>2
<1> QED
  BY <1>6, <1>11, <1>12 DEF n, Measured

\* Of such a chain the buffers before one hold the bytes before it.
LEMMA Prefix ==
  ASSUME NEW a \in Nat, NEW b \in Nat, NEW c, Holds(c, a, b), NEW k \in 1 .. Len(c)
  PROVE  Holds(SubSeq(c, 1, k - 1), a, c[k].pos)
<1> DEFINE p == SubSeq(c, 1, k - 1)
<1>1. c \in Seq(Buffer) /\ Len(c) \in Nat
  BY DEF Holds
<1>2. p \in Seq(Buffer) /\ Len(p) = k - 1 /\ \A i \in 1 .. k - 1 : p[i] = c[i]
  BY <1>1
<1>3. k = 1 => p = <<>> /\ c[k].pos = a
  BY <1>1, <1>2 DEF Holds
<1>4. k # 1 => p # <<>> /\ p[1] = c[1] /\ p[k - 1] = c[k - 1] /\ c[k].pos = c[k - 1].last
  <2> SUFFICES ASSUME k # 1 PROVE p # <<>> /\ p[1] = c[1] /\ p[k - 1] = c[k - 1]
                                  /\ c[k].pos = c[k - 1].last
    OBVIOUS
  <2>1. k - 1 \in 1 .. Len(c) - 1 /\ 1 \in 1 .. k - 1 /\ k - 1 + 1 = k
    BY <1>1
  <2>2. c[k - 1 + 1].pos = c[k - 1].last
    BY <2>1 DEF Holds
  <2> HIDE DEF p
  <2> QED
    BY <1>2, <2>1, <2>2
<1>5. c # <<>> /\ c[1].pos = a
  BY <1>1 DEF Holds
<1> HIDE DEF p
<1>6. \A i \in 1 .. Len(p) : p[i].pos <= p[i].last
  <2> SUFFICES ASSUME NEW i \in 1 .. Len(p) PROVE p[i].pos <= p[i].last
    OBVIOUS
  <2>1. i \in 1 .. k - 1 /\ i \in 1 .. Len(c)
    BY <1>1, <1>2
  <2>2. c[i].pos <= c[i].last
    BY <2>1, Zenon DEF Holds
  <2> QED
    BY <1>2, <2>1, <2>2, Zenon
<1>7. \A i \in 1 .. Len(p) - 1 : p[i + 1].pos = p[i].last
  <2> SUFFICES ASSUME NEW i \in 1 .. Len(p) - 1 PROVE p[i + 1].pos = p[i].last
    OBVIOUS
  <2>1. i \in 1 .. k - 1 /\ i + 1 \in 1 .. k - 1 /\ i \in 1 .. Len(c) - 1
    BY <1>1, <1>2
  <2> QED
    BY <1>2, <2>1 DEF Holds
<1>8. Holds(p, a, c[k].pos)
  BY <1>2, <1>3, <1>4, <1>5, <1>6, <1>7 DEF Holds
<1> QED
  BY <1>8 DEF p

\* What is left of a chain after some of its bytes are sent holds the others.
LEMMA UpdateIs ==
  ASSUME NEW a \in Nat, NEW b \in Nat, NEW c, Holds(c, a, b), Sendable(c),
         NEW size \in 1 .. b - a
  PROVE  /\ Holds(chain_write_update(c, size), a + size, b)
         /\ Sendable(chain_write_update(c, size))
<1> DEFINE n == Len(c)
           e == Ends(c)
           K == {k \in 0 .. Len(c) : k = Len(c) \/ Ends(c)[k] = size \/ size < Ends(c)[k + 1]}
           k == Passed(c, size)
           rest == SubSeq(c, k + 1, n)
           h == [Head(rest) EXCEPT !.pos = @ + size - e[k]]
           r == <<h>> \o Tail(rest)
<1>1. c \in Seq(Buffer) /\ n \in Nat
  BY DEF Holds
<1>2. /\ e \in [0 .. n -> Nat] /\ e[0] = 0
      /\ \A i \in 1 .. n : e[i] = c[i].last - a /\ e[i - 1] = c[i].pos - a
      /\ e[n] = b - a
      /\ \A i, j \in 0 .. n : i <= j => e[i] <= e[j]
  <2>1. Measured(c, a, b)
    BY EndsAre
  <2> QED
    BY <2>1, Zenon DEF Measured
<1>3. k \in K /\ \A i \in K : k <= i
  <2>1. n \in K /\ K \in SUBSET Nat
    BY <1>1
  <2>2. k = Min(K)
    BY DEF Passed
  <2> HIDE DEF K, k
  <2> QED
    BY <2>1, <2>2, MinIn
<1>4. k \in 0 .. n /\ (k = n \/ e[k] = size \/ size < e[k + 1])
  BY <1>3
<1>5. e[k] <= size
  <2>1. CASE k = 0
    BY <1>2, <2>1
  <2>2. CASE k # 0
    <3>1. k - 1 \in 0 .. n /\ ~(k <= k - 1) /\ k - 1 # n /\ k - 1 + 1 = k
      BY <1>1, <1>4, <2>2
    <3>2. k - 1 \notin K
      <4> HIDE DEF K, k
      <4> QED
        BY <1>3, <3>1
    <3>3. ~(size < e[k - 1 + 1])
      <4> HIDE DEF k
      <4> QED
        BY <3>1, <3>2
    <3>4. e[k] \in Nat
      BY <1>2, <1>4
    <3> HIDE DEF e, k
    <3> QED
      BY <3>1, <3>3, <3>4
  <2> QED
    BY <2>1, <2>2
<1>6. chain_write_update(c, size) = IF rest = <<>> THEN rest ELSE r
  BY DEF chain_write_update
<1> HIDE DEF K, k
<1>7. /\ rest \in Seq(Buffer) /\ Len(rest) = n - k
      /\ \A i \in 1 .. n - k : rest[i] = c[k + i]
  BY <1>1, <1>4
<1> HIDE DEF n, rest, e
<1>8. CASE k = n
  <2>1. rest = <<>> /\ e[n] = b - a /\ e[n] <= size
    BY <1>1, <1>2, <1>5, <1>7, <1>8
  <2>2. a + size = b
    BY <2>1
  <2> QED
    BY <1>6, <1>7, <2>1, <2>2 DEF Holds, Sendable
<1>9. CASE k # n
  <2>1. /\ k + 1 \in 1 .. n /\ k + 1 - 1 = k /\ k \in 0 .. n /\ k + 1 \in 0 .. n
        /\ rest # <<>> /\ Head(rest) = c[k + 1]
    BY <1>1, <1>4, <1>7, <1>9
  <2>2. /\ c[k + 1] \in Buffer
        /\ e[k] = c[k + 1].pos - a /\ e[k + 1] = c[k + 1].last - a
        /\ e[k] \in Nat /\ e[k + 1] \in Nat /\ e[k] <= e[k + 1]
    <3>1. k <= k + 1
      BY <1>4
    <3>2. e[k] <= e[k + 1] /\ e[k] \in Nat /\ e[k + 1] \in Nat
      BY <1>2, <2>1, <3>1
    <3>3. e[k + 1 - 1] = c[k + 1].pos - a /\ e[k + 1] = c[k + 1].last - a
      BY <1>2, <2>1
    <3> QED
      BY <1>1, <2>1, <3>2, <3>3 DEF n
  <2>3. /\ h \in Buffer /\ h.pos = a + size /\ h.last = c[k + 1].last /\ h.pos <= h.last
        /\ h.memory = c[k + 1].memory
        /\ h.pos = h.last => c[k + 1].pos = c[k + 1].last
    <3>1. c[k + 1].pos \in Nat /\ c[k + 1].last \in Nat
      BY <2>2 DEF Buffer
    <3>2. c[k + 1].pos + size - e[k] = a + size
      BY <2>2, <3>1
    <3>3. a + size <= c[k + 1].last
      BY <1>4, <1>5, <1>9, <2>2, <3>1
    <3>4. a + size = c[k + 1].last => c[k + 1].pos = c[k + 1].last
      BY <1>4, <1>5, <1>9, <2>2, <3>1
    <3>5. h = [c[k + 1] EXCEPT !.pos = a + size]
      BY <2>1, <3>2
    <3> HIDE DEF h
    <3> QED
      BY <2>2, <3>1, <3>3, <3>4, <3>5 DEF Buffer
  <2> HIDE DEF h
  <2>4. /\ r \in Seq(Buffer) /\ Len(r) = n - k /\ r[1] = h /\ r # <<>>
        /\ \A i \in 2 .. n - k : r[i] = c[k + i]
    <3>1. Tail(rest) \in Seq(Buffer) /\ Len(Tail(rest)) = n - k - 1
          /\ \A i \in 1 .. n - k - 1 : Tail(rest)[i] = rest[i + 1]
      BY <1>7, <2>1
    <3>2. /\ r \in Seq(Buffer) /\ Len(r) = n - k /\ r[1] = h
          /\ \A i \in 2 .. n - k : r[i] = Tail(rest)[i - 1]
      BY <1>1, <1>4, <2>1, <2>3, <3>1
    <3> HIDE DEF r
    <3>3. ASSUME NEW i \in 2 .. n - k PROVE r[i] = c[k + i]
      <4>1. i - 1 \in 1 .. n - k - 1 /\ i - 1 + 1 = i /\ i \in 1 .. n - k
        BY <1>1, <1>4
      <4> QED
        BY <1>7, <3>1, <3>2, <4>1
    <3> QED
      BY <1>1, <1>4, <2>1, <3>2, <3>3
  <2>5. chain_write_update(c, size) = r
    BY <1>6, <2>1
  <2> HIDE DEF r
  <2>6. \A i \in 1 .. n - k : /\ r[i].pos <= r[i].last
                              /\ r[i].last = c[k + i].last /\ r[i].memory = c[k + i].memory
                              /\ i # 1 => r[i].pos = c[k + i].pos
                              /\ r[i].pos = r[i].last => c[k + i].pos = c[k + i].last
    <3> SUFFICES ASSUME NEW i \in 1 .. n - k
                 PROVE  /\ r[i].pos <= r[i].last
                        /\ r[i].last = c[k + i].last /\ r[i].memory = c[k + i].memory
                        /\ i # 1 => r[i].pos = c[k + i].pos
                        /\ r[i].pos = r[i].last => c[k + i].pos = c[k + i].last
      OBVIOUS
    <3>1. CASE i = 1
      BY <2>3, <2>4, <3>1
    <3>2. CASE i # 1
      <4>1. i \in 2 .. n - k /\ k + i \in 1 .. n
        BY <1>1, <1>4, <3>2
      <4> QED
        BY <2>4, <3>2, <4>1 DEF Holds, n
    <3> QED
      BY <3>1, <3>2
  <2>7. \A i \in 1 .. n - k - 1 : r[i + 1].pos = r[i].last
    <3> SUFFICES ASSUME NEW i \in 1 .. n - k - 1 PROVE r[i + 1].pos = r[i].last
      OBVIOUS
    <3>1. /\ k + i \in 1 .. n - 1 /\ i + 1 \in 1 .. n - k /\ i \in 1 .. n - k /\ i + 1 # 1
          /\ k + (i + 1) = k + i + 1
      BY <1>1, <1>4
    <3>2. c[k + i + 1].pos = c[k + i].last
      BY <3>1 DEF Holds, n
    <3> QED
      BY <2>6, <3>1, <3>2
  <2>8. r[n - k].last = b
    <3>1. n - k \in 1 .. n - k /\ k + (n - k) = n /\ c # <<>>
      BY <1>1, <1>4, <1>9 DEF n
    <3>2. c[n].last = b
      BY <3>1 DEF Holds, n
    <3> QED
      BY <2>6, <3>1, <3>2
  <2>9. Holds(r, a + size, b)
    <3>1. r[1].pos = a + size
      BY <2>3, <2>4
    <3>2. \A i \in 1 .. Len(r) : r[i].pos <= r[i].last
      BY <2>4, <2>6
    <3>3. \A i \in 1 .. Len(r) - 1 : r[i + 1].pos = r[i].last
      BY <2>4, <2>7
    <3> QED
      BY <2>4, <2>8, <3>1, <3>2, <3>3 DEF Holds
  <2>10. Sendable(r)
    <3> SUFFICES ASSUME NEW i \in 1 .. n - k, r[i].memory, r[i].pos = r[i].last
                 PROVE  i < n - k /\ r[i + 1].memory
      BY <2>4 DEF Sendable
    <3>1. c[k + i].memory /\ c[k + i].pos = c[k + i].last /\ k + i \in 1 .. n
      BY <1>1, <1>4, <2>6
    <3>2. k + i < n /\ c[k + i + 1].memory
      BY <3>1 DEF Sendable, n
    <3>3. i + 1 \in 1 .. n - k /\ k + (i + 1) = k + i + 1 /\ i < n - k
      BY <1>1, <1>4, <3>2
    <3> QED
      BY <2>6, <3>2, <3>3
  <2> QED
    BY <2>5, <2>9, <2>10
<1> QED
  BY <1>8, <1>9

\* The bytes that go out are the first ones the chain holds.
LEMMA BytesAre ==
  ASSUME NEW a \in Nat, NEW b \in Nat, NEW c, Holds(c, a, b), NEW size \in 1 .. b - a
  PROVE  Bytes(c, size) = [i \in 1 .. size |-> a + i - 1]
<1>1. c \in Seq(Buffer) /\ Len(c) \in Nat /\ \A j \in 1 .. Len(c) : c[j] \in Buffer
  BY DEF Holds
<1>2. /\ Ends(c) \in [0 .. Len(c) -> Nat] /\ Ends(c)[0] = 0
      /\ \A j \in 1 .. Len(c) : /\ Ends(c)[j] = c[j].last - a
                                /\ Ends(c)[j - 1] = c[j].pos - a
      /\ Ends(c)[Len(c)] = b - a
  <2>1. Measured(c, a, b)
    BY EndsAre
  <2> QED
    BY <2>1, Zenon DEF Measured
<1> SUFFICES ASSUME NEW i \in 1 .. size
             PROVE  LET k == Min({j \in 1 .. Len(c) : i <= Ends(c)[j]})
                    IN  c[k].pos + i - 1 - Ends(c)[k - 1] = a + i - 1
  BY DEF Bytes
<1> DEFINE J == {j \in 1 .. Len(c) : i <= Ends(c)[j]}
           k == Min(J)
<1>3. Len(c) # 0
  BY <1>1, <1>2
<1>4. Len(c) \in J /\ J \in SUBSET Nat
  BY <1>1, <1>2, <1>3
<1>5. k \in J
  <2> HIDE DEF J
  <2> QED
    BY <1>4, MinIn
<1>6. k \in 1 .. Len(c) /\ c[k].pos \in Nat
  <2>1. k \in 1 .. Len(c)
    BY <1>5
  <2> HIDE DEF k
  <2> QED
    BY <1>1, <2>1 DEF Buffer
<1>7. Ends(c)[k - 1] = c[k].pos - a
  <2> HIDE DEF k
  <2> QED
    BY <1>2, <1>6
<1> HIDE DEF k
<1>8. c[k].pos + i - 1 - Ends(c)[k - 1] = a + i - 1
  BY <1>6, <1>7
<1> QED
  BY <1>8 DEF k

\* A chain that callers queue holds the next bytes.
LEMMA NumberedIs ==
  ASSUME NEW c \in Chains, NEW n \in Nat
  PROVE  \E m \in Nat : /\ m >= n /\ Holds(Numbered(c, n), n, m)
                        /\ Sendable(Numbered(c, n))
<1> DEFINE s == [k \in DOMAIN c |-> c[k].size]
           end == Sums(s)
           d == Numbered(c, n)
           l == Len(c)
<1>1. /\ c \in Seq(Piece)
      /\ \A k \in DOMAIN c : c[k].memory /\ c[k].size = 0 => k < Len(c) /\ c[k + 1].memory
  BY OutputAssumption DEF OutputAssumption
<1>2. l \in Nat /\ DOMAIN c = 1 .. l
      /\ \A k \in 1 .. l : c[k].size \in Nat /\ c[k].memory \in BOOLEAN /\ c[k].joined \in BOOLEAN
  <2>1. Len(c) \in Nat /\ DOMAIN c = 1 .. Len(c) /\ \A k \in 1 .. Len(c) : c[k] \in Piece
    BY <1>1
  <2> QED
    BY <2>1 DEF Piece
<1>3. s \in Seq(Nat) /\ Len(s) = l
  <2>1. s \in [1 .. l -> Nat]
    BY <1>2
  <2> HIDE DEF s, l
  <2> QED
    BY <1>2, <2>1
<1>4. \A k \in 1 .. l : s[k] = c[k].size
  BY <1>2
<1>5. d = [k \in 1 .. l |-> [memory |-> c[k].memory, joined |-> c[k].joined,
                            pos |-> n + end[k - 1], last |-> n + end[k]]]
  BY <1>2 DEF Numbered
<1> HIDE DEF s
<1>6. /\ end \in [0 .. l -> Nat] /\ end[0] = 0
      /\ \A k \in 1 .. l : end[k] = end[k - 1] + s[k]
  BY <1>3, SumsAre
<1> HIDE DEF end, d, l
<1>7. \A k \in 1 .. l : /\ d[k].memory = c[k].memory /\ d[k].pos = n + end[k - 1]
                        /\ d[k].last = n + end[k]
                        /\ end[k - 1] \in Nat /\ end[k] \in Nat
                        /\ end[k] = end[k - 1] + c[k].size
  <2> SUFFICES ASSUME NEW k \in 1 .. l
               PROVE  /\ d[k].memory = c[k].memory /\ d[k].pos = n + end[k - 1]
                      /\ d[k].last = n + end[k]
                      /\ end[k - 1] \in Nat /\ end[k] \in Nat
                      /\ end[k] = end[k - 1] + c[k].size
    OBVIOUS
  <2>1. k - 1 \in 0 .. l /\ k \in 0 .. l
    BY <1>2
  <2> QED
    BY <1>4, <1>5, <1>6, <2>1
<1>8. d \in Seq(Buffer) /\ Len(d) = l
  <2>1. \A k \in 1 .. l : d[k] \in Buffer
    <3> SUFFICES ASSUME NEW k \in 1 .. l PROVE d[k] \in Buffer
      OBVIOUS
    <3>1. d[k] = [memory |-> c[k].memory, joined |-> c[k].joined,
                  pos |-> n + end[k - 1], last |-> n + end[k]]
      BY <1>5
    <3>2. n + end[k - 1] \in Nat /\ n + end[k] \in Nat
      BY <1>7
    <3> QED
      BY <1>2, <3>1, <3>2 DEF Buffer
  <2>2. d \in [1 .. l -> Buffer]
    BY <1>5, <2>1
  <2> QED
    BY <1>2, <2>2
<1>9. n + end[l] \in Nat /\ n + end[l] >= n
  <2>1. end[l] \in Nat
    BY <1>2, <1>6
  <2> QED
    BY <2>1
<1>10. Holds(d, n, n + end[l])
  <2>1. \A k \in 1 .. Len(d) : d[k].pos <= d[k].last
    <3> SUFFICES ASSUME NEW k \in 1 .. l PROVE d[k].pos <= d[k].last
      BY <1>8
    <3>1. c[k].size \in Nat
      BY <1>2
    <3>2. /\ d[k].pos = n + end[k - 1] /\ d[k].last = n + (end[k - 1] + c[k].size)
          /\ end[k - 1] \in Nat
      BY <1>7
    <3> QED
      BY <3>1, <3>2
  <2>2. \A k \in 1 .. Len(d) - 1 : d[k + 1].pos = d[k].last
    <3> SUFFICES ASSUME NEW k \in 1 .. l - 1 PROVE d[k + 1].pos = d[k].last
      BY <1>8
    <3>1. k + 1 \in 1 .. l /\ k \in 1 .. l /\ k + 1 - 1 = k
      BY <1>2
    <3> QED
      BY <1>7, <3>1
  <2>3. d = <<>> => n = n + end[l]
    BY <1>6, <1>8
  <2>4. d # <<>> => d[1].pos = n /\ d[Len(d)].last = n + end[l]
    <3> SUFFICES ASSUME d # <<>> PROVE d[1].pos = n /\ d[Len(d)].last = n + end[l]
      OBVIOUS
    <3>1. 1 \in 1 .. l /\ l \in 1 .. l /\ 1 - 1 = 0
      BY <1>2, <1>8
    <3> QED
      BY <1>6, <1>7, <1>8, <3>1
  <2> QED
    BY <1>8, <2>1, <2>2, <2>3, <2>4 DEF Holds
<1>11. Sendable(d)
  <2> SUFFICES ASSUME NEW k \in 1 .. l, d[k].memory, d[k].pos = d[k].last
               PROVE  k < l /\ d[k + 1].memory
    BY <1>8 DEF Sendable
  <2>1. c[k].memory /\ c[k].size = 0
    <3>1. c[k].size \in Nat
      BY <1>2
    <3>2. /\ d[k].memory = c[k].memory /\ d[k].pos = n + end[k - 1]
          /\ d[k].last = n + (end[k - 1] + c[k].size) /\ end[k - 1] \in Nat
      BY <1>7
    <3>3. \A x, y \in Nat : n + x = n + (x + y) => y = 0
      OBVIOUS
    <3>4. c[k].size = 0
      BY <3>1, <3>2, <3>3, Zenon
    <3> QED
      BY <3>2, <3>4
  <2>2. k < l /\ c[k + 1].memory
    BY <1>1, <1>2, <2>1 DEF l
  <2>3. k + 1 \in 1 .. l
    BY <1>2, <2>2
  <2> QED
    BY <1>7, <2>2, <2>3
<1> QED
  BY <1>9, <1>10, <1>11 DEF d

\* Chains that hold bytes and the next bytes hold both together.
LEMMA Appended ==
  ASSUME NEW a \in Nat, NEW b \in Nat, NEW m \in Nat, NEW c, NEW d,
         Holds(c, a, b), Holds(d, b, m), Sendable(c), Sendable(d)
  PROVE  Holds(c \o d, a, m) /\ Sendable(c \o d)
<1> DEFINE r == c \o d
           n == Len(c)
           l == Len(d)
<1>1. c \in Seq(Buffer) /\ d \in Seq(Buffer) /\ n \in Nat /\ l \in Nat
  BY DEF Holds
<1>2. /\ r \in Seq(Buffer) /\ Len(r) = n + l
      /\ \A k \in 1 .. n : r[k] = c[k]
      /\ \A k \in 1 .. l : r[n + k] = d[k]
  BY <1>1
<1>3. c = <<>> => n = 0 /\ a = b
  BY DEF Holds
<1>4. c # <<>> => n \in 1 .. n /\ c[1].pos = a /\ c[n].last = b /\ r[1] = c[1]
  BY <1>1 DEF Holds
<1>5. d = <<>> => l = 0 /\ b = m
  BY DEF Holds
<1>6. d # <<>> => 1 \in 1 .. l /\ l \in 1 .. l /\ d[1].pos = b /\ d[l].last = m
  BY <1>1 DEF Holds
<1> HIDE DEF r, n, l
<1>7. \A k \in 1 .. Len(r) : r[k].pos <= r[k].last
  <2> SUFFICES ASSUME NEW k \in 1 .. n + l PROVE r[k].pos <= r[k].last
    BY <1>2
  <2>1. CASE k \in 1 .. n
    BY <1>2, <2>1 DEF Holds, n
  <2>2. CASE k \notin 1 .. n
    <3>1. k - n \in 1 .. l /\ n + (k - n) = k
      BY <1>1, <2>2
    <3>2. r[k] = d[k - n]
      BY <1>2, <3>1
    <3> QED
      BY <3>1, <3>2 DEF Holds, l
  <2> QED
    BY <2>1, <2>2
<1>8. \A k \in 1 .. Len(r) - 1 : r[k + 1].pos = r[k].last
  <2>0. Len(r) - 1 = (n + l) - 1
    BY <1>1, <1>2
  <2> SUFFICES ASSUME NEW k \in 1 .. (n + l) - 1 PROVE r[k + 1].pos = r[k].last
    BY <2>0, Zenon
  <2>1. CASE k < n
    <3>1. k \in 1 .. n - 1 /\ k \in 1 .. n /\ k + 1 \in 1 .. n
      BY <1>1, <2>1
    <3> QED
      BY <1>2, <3>1 DEF Holds, n
  <2>2. CASE k = n
    <3>1. 1 \in 1 .. l /\ n \in 1 .. n /\ l # 0 /\ n # 0
      BY <1>1, <2>2
    <3>2. c # <<>> /\ d # <<>>
      BY <3>1, <1>3, <1>5
    <3> QED
      BY <1>2, <1>4, <1>6, <2>2, <3>1, <3>2
  <2>3. CASE k > n
    <3>1. /\ k - n \in 1 .. l - 1 /\ k - n \in 1 .. l /\ k - n + 1 \in 1 .. l
          /\ n + (k - n) = k /\ n + (k - n + 1) = k + 1
      BY <1>1, <2>3
    <3>2. r[k] = d[k - n] /\ r[k + 1] = d[k - n + 1]
      BY <1>2, <3>1
    <3>3. d[k - n + 1].pos = d[k - n].last
      BY <3>1 DEF Holds, l
    <3> QED
      BY <3>2, <3>3
  <2> QED
    BY <1>1, <2>1, <2>2, <2>3
<1>9. r = <<>> => a = m
  <2> SUFFICES ASSUME r = <<>> PROVE a = m
    OBVIOUS
  <2>1. n = 0 /\ l = 0
    BY <1>1, <1>2
  <2> QED
    BY <1>1, <1>3, <1>5, <2>1 DEF n, l
<1>10. r # <<>> => r[1].pos = a /\ r[Len(r)].last = m
  <2> SUFFICES ASSUME r # <<>> PROVE r[1].pos = a /\ r[n + l].last = m
    BY <1>2
  <2>1. n + l # 0
    BY <1>2
  <2>2. r[1].pos = a
    <3>1. CASE c # <<>>
      BY <1>4, <3>1
    <3>2. CASE c = <<>>
      <4>1. d # <<>> /\ n + 1 = 1
        BY <1>1, <1>3, <1>5, <2>1, <3>2
      <4>2. r[n + 1] = d[1]
        BY <1>2, <1>6, <4>1
      <4> QED
        BY <1>3, <1>6, <3>2, <4>1, <4>2
    <3> QED
      BY <3>1, <3>2
  <2>3. r[n + l].last = m
    <3>1. CASE d # <<>>
      BY <1>2, <1>6, <3>1
    <3>2. CASE d = <<>>
      <4>1. c # <<>> /\ n + l = n
        BY <1>1, <1>3, <1>5, <2>1, <3>2
      <4> QED
        BY <1>2, <1>4, <1>5, <3>2, <4>1
    <3> QED
      BY <3>1, <3>2
  <2> QED
    BY <2>2, <2>3
<1>11. Sendable(r)
  <2> SUFFICES ASSUME NEW k \in 1 .. n + l, r[k].memory, r[k].pos = r[k].last
               PROVE  k < n + l /\ r[k + 1].memory
    BY <1>2 DEF Sendable
  <2>1. CASE k \in 1 .. n
    <3>1. k < n /\ c[k + 1].memory
      BY <1>2, <2>1 DEF Sendable, n
    <3>2. k + 1 \in 1 .. n /\ k < n + l
      BY <1>1, <2>1, <3>1
    <3> QED
      BY <1>2, <3>1, <3>2
  <2>2. CASE k \notin 1 .. n
    <3>1. k - n \in 1 .. l /\ n + (k - n) = k
      BY <1>1, <2>2
    <3>2. r[k] = d[k - n]
      BY <1>2, <3>1
    <3>3. k - n < l /\ d[k - n + 1].memory
      BY <3>1, <3>2 DEF Sendable, l
    <3>4. k - n + 1 \in 1 .. l /\ n + (k - n + 1) = k + 1 /\ k < n + l
      BY <1>1, <3>1, <3>3
    <3>5. r[n + (k - n + 1)] = d[k - n + 1]
      BY <1>2, <3>4
    <3> QED
      BY <3>3, <3>4, <3>5
  <2> QED
    BY <2>1, <2>2
<1> QED
  BY <1>2, <1>7, <1>8, <1>9, <1>10, <1>11 DEF Holds, r

\* One round of the loop of sysio_pack_chain_to_iovs.
Filled(c, lim, k, q) ==
  IF q.n = DFS_IOVS_MAX \/ q.size >= lim \/ buffer_size(c[k]) <= 0 THEN q
  ELSE [n |-> IF c[k].joined /\ q.n > 0 THEN q.n ELSE q.n + 1,
        size |-> IF q.size + buffer_size(c[k]) > lim THEN lim
                 ELSE q.size + buffer_size(c[k])]

\* What the loop keeps: the iovecs in use and packall_size.
Packing == [n : Nat, size : Nat]

\* A round packs no more than its buffer holds and the limit admits, and some of a buffer
\* that is not empty when there is an iovec for it.
Adds(c, lim, k, q, p) ==
  /\ p \in Packing
  /\ p.size >= q.size
  /\ q.size <= lim => p.size <= lim
  /\ p.size - q.size <= c[k].last - c[k].pos
  /\ c[k].pos = c[k].last => p = q
  /\ q.n # DFS_IOVS_MAX /\ q.size < lim /\ c[k].pos # c[k].last => p.size > q.size

\* That is what a round of sysio_pack_chain_to_iovs does.
LEMMA FilledIs ==
  ASSUME NEW c, NEW k, c[k] \in Buffer, c[k].pos <= c[k].last,
         NEW lim \in Nat, NEW q \in Packing
  PROVE  Adds(c, lim, k, q, Filled(c, lim, k, q))
<1>1. c[k].pos \in Nat /\ c[k].last \in Nat /\ buffer_size(c[k]) = c[k].last - c[k].pos
  BY DEF Buffer, buffer_size
<1>2. q.n \in Nat /\ q.size \in Nat
  BY DEF Packing
<1> DEFINE bs == buffer_size(c[k])
           f == Filled(c, lim, k, q)
<1>3. bs \in Nat
  BY <1>1
<1>4. CASE q.n = DFS_IOVS_MAX \/ q.size >= lim \/ bs <= 0
  <2>1. f = q
    BY <1>4 DEF Filled
  <2> HIDE DEF f
  <2>2. f.size >= q.size /\ f.size - q.size <= c[k].last - c[k].pos
    BY <1>1, <1>2, <2>1
  <2>3. ~(q.n # DFS_IOVS_MAX /\ q.size < lim /\ c[k].pos # c[k].last)
    BY <1>1, <1>2, <1>4
  <2> QED
    BY <2>1, <2>2, <2>3 DEF f, Adds
<1>5. CASE ~(q.n = DFS_IOVS_MAX \/ q.size >= lim \/ bs <= 0)
  <2> DEFINE m == IF c[k].joined /\ q.n > 0 THEN q.n ELSE q.n + 1
             z == IF q.size + bs > lim THEN lim ELSE q.size + bs
  <2>1. f = [n |-> m, size |-> z]
    BY <1>5 DEF Filled
  <2>2. m \in Nat
    BY <1>2
  <2>3. /\ z \in Nat /\ z > q.size /\ z <= lim /\ z - q.size <= bs
        /\ c[k].pos # c[k].last
    BY <1>1, <1>2, <1>3, <1>5
  <2> HIDE DEF m, z, f, bs
  <2>4. f \in Packing /\ f.size = z
    BY <2>1, <2>2, <2>3 DEF Packing
  <2>5. z >= q.size /\ z - q.size <= c[k].last - c[k].pos
    BY <1>1, <1>2, <2>3 DEF bs
  <2> QED
    BY <2>3, <2>4, <2>5 DEF f, Adds
<1> QED
  BY <1>4, <1>5

\* Packing a chain that begins in memory finds something to send, and no more than the
\* chain holds and the limit admits.
LEMMA PackIs ==
  ASSUME NEW a \in Nat, NEW b \in Nat, NEW c, Holds(c, a, b), Sendable(c),
         c # <<>>, c[1].memory, NEW size \in Nat, NEW lim \in Nat, size < lim
  PROVE  /\ pack(c, size, lim) \in Nat
         /\ size < pack(c, size, lim) /\ pack(c, size, lim) <= lim
         /\ pack(c, size, lim) - size <= b - a
<1> DEFINE n == Len(c)
           R == {k \in 0 .. Len(c) : k = Len(c) \/ ~c[k + 1].memory}
           run == Min(R)
           init == [n |-> 0, size |-> size]
           step == [k \in 1 .. run |-> [q \in Packing |-> Filled(c, lim, k, q)]]
           F == CHOOSE f : f = [k \in 0 .. run |-> IF k = 0 THEN init
                                                   ELSE Filled(c, lim, k, f[k - 1])]
<1>1. c \in Seq(Buffer) /\ n \in Nat /\ n # 0
      /\ \A k \in 1 .. n : c[k] \in Buffer /\ c[k].pos <= c[k].last
  BY DEF Holds
<1>2. /\ Ends(c) \in [0 .. n -> Nat] /\ Ends(c)[0] = 0
      /\ \A k \in 1 .. n : Ends(c)[k] = c[k].last - a /\ Ends(c)[k - 1] = c[k].pos - a
      /\ Ends(c)[n] = b - a
      /\ \A i, j \in 0 .. n : i <= j => Ends(c)[i] <= Ends(c)[j]
  <2>1. Measured(c, a, b)
    BY EndsAre
  <2> QED
    BY <2>1, Zenon DEF Measured
<1>3. run \in R /\ \A k \in R : run <= k
  <2>1. n \in R /\ R \in SUBSET Nat
    BY <1>1
  <2> HIDE DEF R
  <2> QED
    BY <2>1, MinIn
<1>4. run \in 0 .. n
  BY <1>3
<1>5. pack(c, size, lim) = F[run].size
  BY DEF pack, Filled
<1> HIDE DEF run
<1>6. \A k \in 0 .. n : k < run => k # n /\ c[k + 1].memory
  <2> SUFFICES ASSUME NEW k \in 0 .. n, k < run PROVE k # n /\ c[k + 1].memory
    OBVIOUS
  <2>1. k \notin R
    <3> HIDE DEF R
    <3>1. ~(run <= k)
      BY <1>1, <1>4
    <3> QED
      BY <1>3, <3>1
  <2> QED
    BY <2>1
<1> HIDE DEF R
<1>7. init \in Packing
  BY DEF Packing
<1>8. run \in Nat /\ \A k \in 1 .. run : k \in 1 .. n /\ c[k] \in Buffer /\ c[k].pos <= c[k].last
  BY <1>1, <1>4
<1> HIDE DEF init, n
<1>9. \A k \in 1 .. run : \A q \in Packing : Filled(c, lim, k, q) \in Packing
  BY <1>8, FilledIs DEF Adds
<1>10. step \in [1 .. run -> [Packing -> Packing]]
  BY <1>9
<1>11. PICK g : Computed(g, Packing, init, run, step)
  <2> HIDE DEF step
  <2> QED
    BY <1>7, <1>8, <1>10, Recursion
<1>12. /\ g \in [0 .. run -> Packing] /\ g[0] = init
       /\ \A k \in 1 .. run : g[k] = Filled(c, lim, k, g[k - 1])
  <2>1. /\ g \in [0 .. run -> Packing] /\ g[0] = init
        /\ \A k \in 1 .. run : g[k] = step[k][g[k - 1]]
    <3> HIDE DEF step
    <3> QED
      BY <1>11 DEF Computed
  <2>2. ASSUME NEW k \in 1 .. run PROVE g[k] = Filled(c, lim, k, g[k - 1])
    <3>1. k - 1 \in 0 .. run
      BY <1>8
    <3>2. g[k - 1] \in Packing
      BY <2>1, <3>1
    <3>3. step[k][g[k - 1]] = Filled(c, lim, k, g[k - 1])
      BY <3>2
    <3> QED
      BY <2>1, <3>3
  <2> QED
    BY <2>1, <2>2
<1>13. g = [k \in 0 .. run |-> IF k = 0 THEN init ELSE Filled(c, lim, k, g[k - 1])]
  <2>1. ASSUME NEW k \in 0 .. run
        PROVE  g[k] = IF k = 0 THEN init ELSE Filled(c, lim, k, g[k - 1])
    <3>1. k # 0 => k \in 1 .. run
      BY <1>8
    <3> QED
      BY <1>12, <3>1
  <2> QED
    BY <1>12, <2>1
<1>14. F = [k \in 0 .. run |-> IF k = 0 THEN init ELSE Filled(c, lim, k, F[k - 1])]
  BY <1>13
<1> HIDE DEF F, step
<1>15. F[0] = init /\ \A k \in 1 .. run : F[k] = Filled(c, lim, k, F[k - 1])
  <2>1. 0 \in 0 .. run /\ \A k \in 1 .. run : k \in 0 .. run /\ k # 0
    BY <1>8
  <2> QED
    BY <1>14, <2>1
<1>16. \A k \in 0 .. run : /\ F[k] \in Packing /\ F[k].size \in Nat
                           /\ F[k].size >= size /\ F[k].size <= lim
                           /\ F[k].size - size <= Ends(c)[k]
  <2> DEFINE G == {k \in 0 .. run : /\ F[k] \in Packing /\ F[k].size \in Nat
                                    /\ F[k].size >= size /\ F[k].size <= lim
                                    /\ F[k].size - size <= Ends(c)[k]}
  <2>1. 0 \in G
    <3>1. F[0] = init /\ init.size = size
      BY <1>15 DEF init
    <3> QED
      BY <1>2, <1>7, <1>8, <3>1
  <2>2. ASSUME NEW k \in 1 .. run, k - 1 \in G PROVE k \in G
    <3>1. /\ F[k - 1] \in Packing /\ F[k - 1].size \in Nat
          /\ F[k - 1].size >= size /\ F[k - 1].size <= lim
          /\ F[k - 1].size - size <= Ends(c)[k - 1]
      BY <2>2
    <3>2. /\ F[k] = Filled(c, lim, k, F[k - 1])
          /\ c[k] \in Buffer /\ c[k].pos <= c[k].last /\ k \in 1 .. n
      BY <1>8, <1>15
    <3>3. Adds(c, lim, k, F[k - 1], F[k])
      BY <3>1, <3>2, FilledIs
    <3>4. /\ F[k] \in Packing /\ F[k].size >= F[k - 1].size /\ F[k].size <= lim
          /\ F[k].size - F[k - 1].size <= c[k].last - c[k].pos
      BY <3>1, <3>3, Zenon DEF Adds
    <3>5. F[k].size \in Nat /\ c[k].last \in Nat /\ c[k].pos \in Nat
      BY <3>2, <3>4 DEF Packing, Buffer
    <3>6. Ends(c)[k] = c[k].last - a /\ Ends(c)[k - 1] = c[k].pos - a
      BY <1>2, <3>2
    <3>7. F[k].size >= size /\ F[k].size - size <= Ends(c)[k]
      <4>1. PICK x \in Nat : x = F[k - 1].size
        BY <3>1
      <4>2. PICK y \in Nat : y = F[k].size
        BY <3>5
      <4>3. PICK p \in Nat : p = c[k].pos
        BY <3>5
      <4>4. PICK l \in Nat : l = c[k].last
        BY <3>5
      <4>5. Ends(c)[k] = l - a /\ Ends(c)[k - 1] = p - a
        BY <3>6, <4>3, <4>4, Zenon
      <4>6. x >= size /\ x - size <= p - a /\ y >= x /\ y - x <= l - p
        BY <3>1, <3>4, <4>1, <4>2, <4>3, <4>4, <4>5, Zenon
      <4>7. y >= size /\ y - size <= l - a
        BY <4>6
      <4> QED
        BY <4>2, <4>5, <4>7, Zenon
    <3>8. k \in 0 .. run
      BY <1>8
    <3> QED
      BY <3>4, <3>5, <3>7, <3>8
  <2>3. \A k \in 1 .. run : k - 1 \in G => k \in G
    <3> HIDE DEF G
    <3> QED
      BY <2>2
  <2>4. \A k \in 0 .. run : k \in G
    <3> HIDE DEF G
    <3> QED
      BY <1>8, <2>1, <2>3, Climb
  <2> QED
    BY <2>4
<1> DEFINE J == {k \in 1 .. run : c[k].pos # c[k].last}
<1>17. J # {}
  <2> SUFFICES ASSUME J = {} PROVE FALSE
    OBVIOUS
  <2>1. \A k \in 1 .. run : c[k].pos = c[k].last
    OBVIOUS
  <2>2. run # 0
    <3> SUFFICES ASSUME run = 0 PROVE FALSE
      OBVIOUS
    <3>1. 0 = n \/ ~c[0 + 1].memory
      BY <1>3 DEF R, n
    <3> QED
      BY <1>1, <3>1 DEF n
  <2>3. run \in 1 .. n /\ run - 1 \in 0 .. n /\ run - 1 < run /\ (run - 1) + 1 = run
        /\ run \in 1 .. run
    BY <1>1, <1>4, <2>2 DEF n
  <2>4. c[run].memory
    BY <1>6, <2>3
  <2>5. run < n /\ c[run + 1].memory
    BY <2>1, <2>3, <2>4 DEF Sendable, n
  <2>6. run = n \/ ~c[run + 1].memory
    BY <1>3 DEF R, n
  <2> QED
    BY <1>8, <2>3, <2>5, <2>6
<1>18. PICK j \in J : \A k \in J : j <= k
  <2>1. J \in SUBSET Nat
    BY <1>8
  <2> HIDE DEF J
  <2> QED
    BY <1>17, <2>1, MinIn
<1>19. /\ j \in 1 .. run /\ c[j].pos # c[j].last
       /\ \A k \in 1 .. run : k < j => c[k].pos = c[k].last
  <2>1. ASSUME NEW k \in 1 .. run, k < j PROVE c[k].pos = c[k].last
    <3>1. k \notin J
      <4>1. j \in Nat /\ k \in Nat
        BY <1>8
      <4>2. ~(j <= k)
        BY <2>1, <4>1
      <4> QED
        BY <1>18, <4>2
    <3> QED
      BY <3>1
  <2> QED
    BY <2>1
<1> HIDE DEF J
<1>20. \A k \in 0 .. run : (k < j => F[k] = init) /\ (k >= j => F[k].size > size)
  <2> DEFINE G == {k \in 0 .. run : (k < j => F[k] = init) /\ (k >= j => F[k].size > size)}
  <2>1. 0 \in G
    BY <1>8, <1>15, <1>19
  <2>2. ASSUME NEW k \in 1 .. run, k - 1 \in G PROVE k \in G
    <3>1. (k - 1 < j => F[k - 1] = init) /\ (k - 1 >= j => F[k - 1].size > size)
      BY <2>2
    <3>2. k \in 0 .. run /\ k - 1 \in 0 .. run /\ k \in Int /\ j \in Int
      BY <1>8, <1>19
    <3>3. /\ F[k] = Filled(c, lim, k, F[k - 1]) /\ F[k - 1] \in Packing
          /\ c[k] \in Buffer /\ c[k].pos <= c[k].last
      BY <1>8, <1>15, <1>16, <3>2
    <3>4. Adds(c, lim, k, F[k - 1], F[k])
      BY <3>3, FilledIs
    <3>5. /\ F[k].size >= F[k - 1].size
          /\ c[k].pos = c[k].last => F[k] = F[k - 1]
          /\ F[k - 1].n # DFS_IOVS_MAX /\ F[k - 1].size < lim /\ c[k].pos # c[k].last =>
               F[k].size > F[k - 1].size
      BY <3>4, Zenon DEF Adds
    <3>6. CASE k < j
      <4>1. k - 1 < j /\ ~(k >= j)
        BY <3>2, <3>6
      <4>2. c[k].pos = c[k].last
        BY <1>19, <3>6
      <4> QED
        BY <3>1, <3>2, <3>5, <4>1, <4>2
    <3>7. CASE k = j
      <4>1. k - 1 < j /\ ~(k < j)
        BY <3>2, <3>7
      <4>2. F[k - 1].n = 0 /\ F[k - 1].size = size
        BY <3>1, <4>1 DEF init
      <4>3. 0 # DFS_IOVS_MAX
        BY OutputAssumption DEF OutputAssumption
      <4>4. F[k].size > size
        BY <1>19, <3>5, <3>7, <4>2, <4>3
      <4> QED
        BY <3>2, <4>1, <4>4
    <3>8. CASE k > j
      <4>1. k - 1 >= j /\ ~(k < j)
        BY <3>2, <3>8
      <4>2. F[k].size \in Nat /\ F[k - 1].size \in Nat
        BY <1>16, <3>2
      <4>3. F[k].size > size
        BY <3>1, <3>5, <4>1, <4>2
      <4> QED
        BY <3>2, <4>1, <4>3
    <3> QED
      BY <3>2, <3>6, <3>7, <3>8
  <2>3. \A k \in 1 .. run : k - 1 \in G => k \in G
    <3> HIDE DEF G
    <3> QED
      BY <2>2
  <2>4. \A k \in 0 .. run : k \in G
    <3> HIDE DEF G
    <3> QED
      BY <1>8, <2>1, <2>3, Climb
  <2> QED
    BY <2>4
<1>21. run \in 0 .. run /\ run >= j
  BY <1>8, <1>19
<1>22. Ends(c)[run] <= b - a /\ Ends(c)[run] \in Nat
  <2>1. n \in 0 .. n /\ run <= n
    BY <1>1, <1>4 DEF n
  <2> QED
    BY <1>2, <1>4, <2>1
<1>23. /\ F[run].size \in Nat /\ size < F[run].size /\ F[run].size <= lim
       /\ F[run].size - size <= b - a
  BY <1>16, <1>20, <1>21, <1>22
<1> QED
  BY <1>5, <1>23

\* The file at the head that is sent leaves the chain.
LEMMA TailHolds ==
  ASSUME NEW a \in Nat, NEW b \in Nat, NEW c, Holds(c, a, b), Sendable(c),
         c # <<>>, c[1].pos = c[1].last
  PROVE  Holds(Tail(c), a, b) /\ Sendable(Tail(c))
<1> DEFINE n == Len(c)
           r == Tail(c)
<1>1. c \in Seq(Buffer) /\ n \in Nat /\ n # 0 /\ c[1].pos = a /\ c[n].last = b
  BY DEF Holds
<1>2. r \in Seq(Buffer) /\ Len(r) = n - 1 /\ \A k \in 1 .. n - 1 : r[k] = c[k + 1]
  BY <1>1
<1>3. \A k \in 1 .. n - 1 : k + 1 \in 1 .. n
  BY <1>1
<1>4. \A k \in 1 .. n - 2 : k \in 1 .. n - 1 /\ k + 1 \in 1 .. n - 1
  BY <1>1
<1> HIDE DEF r
<1>5. \A k \in 1 .. n - 1 : r[k].pos <= r[k].last
  BY <1>2, <1>3 DEF Holds
<1>6. \A k \in 1 .. (n - 1) - 1 : r[k + 1].pos = r[k].last
  <2> SUFFICES ASSUME NEW k \in 1 .. (n - 1) - 1 PROVE r[k + 1].pos = r[k].last
    OBVIOUS
  <2>1. k \in 1 .. n - 1 /\ k + 1 \in 1 .. n - 1
    BY <1>1
  <2> QED
    BY <1>2, <2>1 DEF Holds
<1>7. r = <<>> => a = b
  <2> SUFFICES ASSUME r = <<>> PROVE a = b
    OBVIOUS
  <2>1. n = 1
    BY <1>1, <1>2
  <2> QED
    BY <1>1, <2>1
<1>8. r # <<>> => r[1].pos = a /\ r[Len(r)].last = b
  <2> SUFFICES ASSUME r # <<>> PROVE r[1].pos = a /\ r[Len(r)].last = b
    OBVIOUS
  <2>1. n - 1 \in 1 .. n - 1 /\ 1 \in 1 .. n - 1 /\ (n - 1) + 1 = n
    BY <1>1, <1>2
  <2>2. c[1 + 1].pos = c[1].last
    BY <2>1 DEF Holds
  <2> QED
    BY <1>1, <1>2, <2>1, <2>2
<1>9. Holds(r, a, b)
  BY <1>2, <1>5, <1>6, <1>7, <1>8 DEF Holds
<1>10. Sendable(r)
  <2> SUFFICES ASSUME NEW k \in 1 .. n - 1, r[k].memory, r[k].pos = r[k].last
               PROVE  k < n - 1 /\ r[k + 1].memory
    BY <1>2 DEF Sendable
  <2>1. k + 1 < n /\ c[(k + 1) + 1].memory
    BY <1>2, <1>3 DEF Sendable
  <2>2. k + 1 \in 1 .. n - 1
    BY <1>1, <2>1
  <2> QED
    BY <1>1, <1>2, <2>1, <2>2
<1> QED
  BY <1>9, <1>10 DEF r
\* The types of OutputChain's variables.
OcTyped ==
  /\ queued \in Nat /\ wire \in Seq(Nat) /\ ready \in BOOLEAN
  /\ limit \in Int /\ left \in Int
  /\ pack_limit \in Nat /\ packall_size \in Nat
  /\ base \in Nat /\ base <= Len(wire)

\* The chain holds what was queued and not yet sent.
OcRest ==
  io # "error" =>
    /\ wire = [k \in 1 .. Len(wire) |-> k - 1]
    /\ Holds(out, Len(wire), queued)
    /\ Sendable(out)

\* cur_limit is what the limit leaves, and a sender's limit is no more than that.
OcLeft ==
  /\ limit > 0 => Len(wire) - base <= limit
  /\ limit <= 0 => left = 0
  /\ limit > 0 /\ io = "loop" /\ ready => left = limit - (Len(wire) - base) /\ left > 0
  /\ io \in {"writev", "sendfile"} =>
       /\ packall_size <= pack_limit
       /\ limit > 0 => (Len(wire) - base) + (pack_limit - packall_size) <= limit

\* The inductive invariant of OutputChain.
OcInv == OcTyped /\ OcRest /\ OcLeft

\* The socket takes the next bytes of the chain, and the chain keeps the others.
LEMMA Sent ==
  ASSUME OcTyped, OcRest, io # "error", NEW k \in 1 .. (queued - Len(wire))
  PROVE  /\ wire \o Bytes(out, k) \in Seq(Nat)
         /\ Len(wire \o Bytes(out, k)) = Len(wire) + k
         /\ wire \o Bytes(out, k) = [i \in 1 .. Len(wire) + k |-> i - 1]
         /\ Holds(chain_write_update(out, k), Len(wire) + k, queued)
         /\ Sendable(chain_write_update(out, k))
<1> DEFINE a == Len(wire)
           w == wire \o Bytes(out, k)
<1>1. /\ a \in Nat /\ queued \in Nat /\ wire \in Seq(Nat) /\ k \in Nat
      /\ wire = [i \in 1 .. a |-> i - 1] /\ Holds(out, a, queued) /\ Sendable(out)
  BY DEF OcTyped, OcRest
<1>2. Bytes(out, k) = [i \in 1 .. k |-> a + i - 1]
  <2> HIDE DEF a
  <2> QED
    BY <1>1, BytesAre DEF a
<1>3. Holds(chain_write_update(out, k), a + k, queued) /\ Sendable(chain_write_update(out, k))
  <2> HIDE DEF a
  <2> QED
    BY <1>1, UpdateIs DEF a
<1>4. Bytes(out, k) \in Seq(Nat) /\ Len(Bytes(out, k)) = k
      /\ \A i \in 1 .. k : Bytes(out, k)[i] = (a + i) - 1
  BY <1>1, <1>2
<1>5. /\ w \in Seq(Nat) /\ Len(w) = a + k
      /\ \A i \in 1 .. a : w[i] = wire[i]
      /\ \A i \in 1 .. k : w[a + i] = Bytes(out, k)[i]
  <2>1. \A s, t \in Seq(Nat) : /\ s \o t \in Seq(Nat) /\ Len(s \o t) = Len(s) + Len(t)
                               /\ \A i \in 1 .. Len(s) : (s \o t)[i] = s[i]
                               /\ \A i \in 1 .. Len(t) : (s \o t)[Len(s) + i] = t[i]
    OBVIOUS
  <2>2. PICK t \in Seq(Nat) : t = Bytes(out, k)
    BY <1>4
  <2>3. wire \in Seq(Nat) /\ Len(t) = k
    BY <1>1, <1>4, <2>2, Zenon
  <2>4. /\ wire \o t \in Seq(Nat) /\ Len(wire \o t) = a + Len(t)
        /\ \A i \in 1 .. a : (wire \o t)[i] = wire[i]
        /\ \A i \in 1 .. Len(t) : (wire \o t)[a + i] = t[i]
    BY <2>1, <2>3, Zenon
  <2> QED
    BY <2>2, <2>3, <2>4, Zenon
<1>6. ASSUME NEW i \in 1 .. a + k PROVE w[i] = i - 1
  <2>1. CASE i <= a
    <3>1. i \in 1 .. a
      BY <1>1, <2>1
    <3> HIDE DEF w, a
    <3> QED
      BY <1>1, <1>5, <3>1
  <2>2. CASE ~(i <= a)
    <3>1. i - a \in 1 .. k /\ a + (i - a) = i
      BY <1>1, <2>2
    <3>2. w[a + (i - a)] = (a + (i - a)) - 1
      <4> HIDE DEF w, a
      <4> QED
        BY <1>4, <1>5, <3>1
    <3> HIDE DEF w, a
    <3> QED
      BY <3>1, <3>2
  <2> QED
    BY <2>1, <2>2
<1>7. w = [i \in 1 .. a + k |-> i - 1]
  <2>1. w = [i \in 1 .. a + k |-> w[i]]
    <3> HIDE DEF w, a
    <3> QED
      BY <1>1, <1>5
  <2> HIDE DEF w, a
  <2> QED
    BY <1>6, <2>1
<1> QED
  BY <1>3, <1>5, <1>7

\* A sender gives back a chain that holds what is not yet sent.
LEMMA SentBack ==
  ASSUME OcInv, io \in {"writev", "sendfile"}, NEW rest, NEW w \in Seq(Nat), NEW rd \in BOOLEAN,
         base <= Len(w), w = [k \in 1 .. Len(w) |-> k - 1],
         Holds(rest, Len(w), queued), Sendable(rest),
         limit > 0 => Len(w) - base <= limit,
         sent_back(rest, w, rd), UNCHANGED <<packall_size, queued, limit, pack_limit, base>>
  PROVE  OcInv'
<1>1. out' = rest /\ wire' = w /\ ready' = rd
  BY DEF sent_back
<1>2. /\ limit \in Int /\ left \in Int /\ base \in Nat /\ Len(w) \in Nat
      /\ limit <= 0 => left = 0
  BY DEF OcInv, OcTyped, OcLeft
<1>3. OcRest'
  BY <1>1 DEF OcRest
<1>4. CASE limit > 0 /\ rd
  <2>1. left' = limit - (Len(w) - base) /\ io' = IF left' <= 0 THEN "idle" ELSE "loop"
    BY <1>4 DEF sent_back
  <2>2. left' \in Int /\ (io' = "loop" => left' > 0) /\ io' \notin {"writev", "sendfile"}
    BY <1>2, <2>1
  <2>3. OcTyped'
    BY <1>1, <2>2 DEF OcInv, OcTyped
  <2>4. OcLeft'
    <3>1. limit' = limit /\ base' = base /\ ~(limit <= 0)
      BY <1>2, <1>4
    <3> QED
      BY <1>1, <2>1, <2>2, <3>1, Zenon DEF OcLeft
  <2> QED
    BY <1>3, <2>3, <2>4 DEF OcInv
<1>5. CASE ~(limit > 0 /\ rd)
  <2>1. left' = left /\ io' = "loop"
    BY <1>5 DEF sent_back
  <2>2. OcTyped'
    BY <1>1, <2>1 DEF OcInv, OcTyped
  <2>3. OcLeft'
    BY <1>1, <1>2, <1>5, <2>1 DEF OcLeft
  <2> QED
    BY <1>3, <2>2, <2>3 DEF OcInv
<1> QED
  BY <1>4, <1>5

\* The call of chain_output queues a chain behind what is left of the others.
LEMMA QueueStep ==
  ASSUME OcInv, NEW c \in Chains, NEW lim \in Limits \cup {-1}, chain_output(c, lim)
  PROVE  OcInv'
<1> DEFINE in == Numbered(c, queued)
<1>1. /\ io = "idle" /\ queued' = queued + chain_size(in) /\ out' = out \o in
      /\ limit' = lim /\ left' = IF lim = -1 THEN 0 ELSE lim
      /\ base' = Len(wire) /\ UNCHANGED <<wire, ready, pack_limit, packall_size>>
      /\ io' = "idle" \/ io' = "loop"
  BY DEF chain_output
<1>2. lim \in Int /\ (lim = -1 \/ lim \in Nat)
  BY OutputAssumption DEF OutputAssumption
<1>3. queued \in Nat /\ Len(wire) \in Nat /\ wire \in Seq(Nat)
      /\ Holds(out, Len(wire), queued) /\ Sendable(out)
  BY <1>1 DEF OcInv, OcTyped, OcRest
<1>4. PICK m \in Nat : m >= queued /\ Holds(in, queued, m) /\ Sendable(in)
  BY <1>3, NumberedIs
<1> HIDE DEF in
<1>5. queued' = m
  <2>1. Ends(in)[Len(in)] = m - queued
    BY <1>3, <1>4, EndsAre DEF Measured
  <2> QED
    BY <1>1, <1>3, <2>1 DEF chain_size
<1>6. Holds(out \o in, Len(wire), m) /\ Sendable(out \o in)
  BY <1>3, <1>4, Appended
<1>7. OcTyped'
  BY <1>1, <1>2, <1>3, <1>5 DEF OcInv, OcTyped
<1>8. OcRest'
  <2>1. wire = [k \in 1 .. Len(wire) |-> k - 1]
    BY <1>1 DEF OcInv, OcRest
  <2>2. wire' = wire /\ Holds(out', Len(wire), queued') /\ Sendable(out')
    BY <1>1, <1>5, <1>6
  <2> QED
    BY <2>1, <2>2 DEF OcRest
<1>9. OcLeft'
  <2>1. Len(wire') - base' = 0 /\ io' \notin {"writev", "sendfile"}
    BY <1>1, <1>3
  <2> QED
    BY <1>1, <1>2, <2>1 DEF OcLeft
<1> QED
  BY <1>7, <1>8, <1>9 DEF OcInv

\* The loop of chain_output hands its chain to a sender, with what the limit leaves.
LEMMA SendStep ==
  ASSUME OcInv, output_sends
  PROVE  OcInv'
<1>1. /\ io = "loop" /\ ready /\ io' \in {"writev", "sendfile"} /\ packall_size' = 0
      /\ pack_limit' = IF left = 0 \/ left > DFS_MAX_LIMIT THEN DFS_MAX_LIMIT ELSE left
      /\ UNCHANGED <<out, queued, wire, ready, limit, left, base>>
  BY DEF output_sends
<1>2. DFS_MAX_LIMIT \in Nat /\ DFS_MAX_LIMIT # 0
  BY OutputAssumption DEF OutputAssumption
<1>3. /\ limit \in Int /\ left \in Int /\ base \in Nat /\ Len(wire) \in Nat
      /\ limit <= 0 => left = 0
  BY DEF OcInv, OcTyped, OcLeft
<1>4. limit > 0 => left = limit - (Len(wire) - base) /\ left > 0
  BY <1>1, Zenon DEF OcInv, OcLeft
<1>5. /\ pack_limit' \in Nat /\ packall_size' <= pack_limit'
      /\ limit > 0 => (Len(wire) - base) + (pack_limit' - packall_size') <= limit
  BY <1>1, <1>2, <1>3, <1>4
<1>6. OcTyped'
  BY <1>1, <1>5 DEF OcInv, OcTyped
<1>7. OcRest'
  <2>1. OcRest /\ io # "error"
    BY <1>1 DEF OcInv
  <2> QED
    BY <1>1, <2>1 DEF OcRest
<1>8. OcLeft'
  <2>1. limit > 0 => Len(wire) - base <= limit
    BY DEF OcInv, OcLeft
  <2>2. io' # "loop"
    BY <1>1
  <2> QED
    BY <1>1, <1>3, <1>5, <2>1, <2>2, Zenon DEF OcLeft
<1> QED
  BY <1>6, <1>7, <1>8 DEF OcInv

\* Between two system calls of a sender: what was sent has left the chain.
LEMMA GoOn ==
  ASSUME OcInv, io \in {"writev", "sendfile"}, NEW k \in Nat, NEW n \in Nat,
         k <= n, n <= pack_limit - packall_size,
         wire' \in Seq(Nat), Len(wire') = Len(wire) + k,
         wire' = [i \in 1 .. Len(wire') |-> i - 1],
         Holds(out', Len(wire'), queued), Sendable(out'),
         packall_size' = packall_size + n,
         UNCHANGED <<queued, ready, io, limit, left, pack_limit, base>>
  PROVE  OcInv'
<1>1. /\ limit \in Int /\ left \in Int /\ base \in Nat /\ Len(wire) \in Nat
      /\ pack_limit \in Nat /\ packall_size \in Nat /\ base <= Len(wire)
  BY DEF OcInv, OcTyped
<1>2. limit > 0 => (Len(wire) - base) + (pack_limit - packall_size) <= limit
  BY Zenon DEF OcInv, OcLeft
<1>3. /\ packall_size' \in Nat /\ packall_size' <= pack_limit /\ base <= Len(wire')
      /\ limit > 0 => (Len(wire') - base) + (pack_limit - packall_size') <= limit
      /\ limit > 0 => Len(wire') - base <= limit
  <2>1. PICK z \in Nat : z = Len(wire)
    BY <1>1
  <2>2. /\ Len(wire') = z + k /\ base <= z
        /\ limit > 0 => (z - base) + (pack_limit - packall_size) <= limit
    BY <1>1, <1>2, <2>1, Zenon
  <2> QED
    BY <1>1, <2>2
<1>4. OcTyped'
  BY <1>3 DEF OcInv, OcTyped
<1>5. OcRest'
  BY DEF OcRest
<1>6. OcLeft'
  <2>1. io' \in {"writev", "sendfile"} /\ io' # "loop" /\ (limit <= 0 => left = 0)
    BY DEF OcInv, OcLeft
  <2> QED
    BY <1>3, <2>1, Zenon DEF OcLeft
<1> QED
  BY <1>4, <1>5, <1>6 DEF OcInv

\* A sender that stops gives back its chain as it is.
LEMMA Returns ==
  ASSUME OcInv, io \in {"writev", "sendfile"}, NEW rd \in BOOLEAN, sent_back(out, wire, rd),
         UNCHANGED <<packall_size, queued, limit, pack_limit, base>>
  PROVE  OcInv'
<1>1. /\ wire \in Seq(Nat) /\ base <= Len(wire) /\ wire = [k \in 1 .. Len(wire) |-> k - 1]
      /\ Holds(out, Len(wire), queued) /\ Sendable(out)
  BY DEF OcInv, OcTyped, OcRest
<1>2. limit > 0 => Len(wire) - base <= limit
  BY DEF OcInv, OcLeft
<1>3. PICK w \in Seq(Nat) : w = wire
  BY <1>1
<1>4. /\ base <= Len(w) /\ w = [k \in 1 .. Len(w) |-> k - 1]
      /\ Holds(out, Len(w), queued) /\ sent_back(out, w, rd)
      /\ limit > 0 => Len(w) - base <= limit
  BY <1>1, <1>2, <1>3, Zenon
<1> QED
  BY <1>1, <1>4, SentBack

\* What a sender has sent leaves the chain, and the sender goes on or returns.
LEMMA Wrote ==
  ASSUME OcInv, io \in {"writev", "sendfile"}, NEW n \in Nat, NEW k \in 1 .. n,
         n <= pack_limit - packall_size, n <= queued - Len(wire),
         UNCHANGED <<queued, limit, pack_limit, base>>,
         \/ /\ out' = chain_write_update(out, k) /\ wire' = wire \o Bytes(out, k)
            /\ packall_size' = packall_size + n /\ UNCHANGED <<ready, io, left>>
         \/ /\ sent_back(chain_write_update(out, k), wire \o Bytes(out, k), ready)
            /\ UNCHANGED packall_size
  PROVE  OcInv'
<1> DEFINE w == wire \o Bytes(out, k)
           rest == chain_write_update(out, k)
<1>1. /\ queued \in Nat /\ Len(wire) \in Nat /\ base \in Nat /\ base <= Len(wire)
      /\ limit \in Int /\ ready \in BOOLEAN /\ pack_limit \in Nat /\ packall_size \in Nat
  BY DEF OcInv, OcTyped
<1>2. k \in 1 .. (queued - Len(wire)) /\ k \in Nat /\ k <= n
  BY <1>1
<1>3. OcTyped /\ OcRest /\ io # "error"
  BY DEF OcInv
<1>4. /\ w \in Seq(Nat) /\ Len(w) = Len(wire) + k
      /\ w = [i \in 1 .. Len(wire) + k |-> i - 1]
      /\ Holds(rest, Len(wire) + k, queued) /\ Sendable(rest)
  BY <1>2, <1>3, Sent
<1> HIDE DEF w, rest
<1>5. w = [i \in 1 .. Len(w) |-> i - 1] /\ Holds(rest, Len(w), queued)
  BY <1>4, Zenon
<1>6. CASE /\ out' = rest /\ wire' = w
           /\ packall_size' = packall_size + n /\ UNCHANGED <<ready, io, left>>
  <2>1. /\ wire' \in Seq(Nat) /\ Len(wire') = Len(wire) + k
        /\ wire' = [i \in 1 .. Len(wire') |-> i - 1]
        /\ Holds(out', Len(wire'), queued) /\ Sendable(out')
    BY <1>4, <1>5, <1>6, Zenon
  <2>2. /\ packall_size' = packall_size + n
        /\ UNCHANGED <<queued, ready, io, limit, left, pack_limit, base>>
    BY <1>6
  <2> QED
    BY <1>2, <2>1, <2>2, GoOn
<1>7. CASE sent_back(rest, w, ready) /\ UNCHANGED packall_size
  <2>1. base <= Len(w) /\ (limit > 0 => Len(w) - base <= limit)
    <3>1. limit > 0 => (Len(wire) - base) + (pack_limit - packall_size) <= limit
      BY Zenon DEF OcInv, OcLeft
    <3>2. PICK z \in Nat : z = Len(wire)
      BY <1>1
    <3>3. /\ Len(w) = z + k /\ base <= z
          /\ limit > 0 => (z - base) + (pack_limit - packall_size) <= limit
      BY <1>1, <1>4, <3>1, <3>2, Zenon
    <3> QED
      BY <1>1, <1>2, <3>3
  <2>2. UNCHANGED <<packall_size, queued, limit, pack_limit, base>>
    BY <1>7
  <2> QED
    BY <1>1, <1>4, <1>5, <1>7, <2>1, <2>2, SentBack
<1> QED
  BY <1>6, <1>7 DEF w, rest

\* sysio_writev_chain, from one writev to the next, keeps OcInv.
LEMMA WritevStep ==
  ASSUME OcInv, writev_step
  PROVE  OcInv'
<1> DEFINE packed == pack(out, packall_size, pack_limit)
<1>1. /\ io \in {"writev", "sendfile"} /\ io # "error"
      /\ UNCHANGED <<queued, limit, pack_limit, base>>
  BY DEF writev_step
<1>2. ready \in BOOLEAN /\ FALSE \in BOOLEAN /\ pack_limit \in Nat /\ packall_size \in Nat
      /\ Len(wire) \in Nat /\ queued \in Nat /\ Holds(out, Len(wire), queued) /\ Sendable(out)
  BY <1>1 DEF OcInv, OcTyped, OcRest
<1>3. CASE sent_back(out, wire, ready) /\ UNCHANGED packall_size
  BY <1>1, <1>2, <1>3, Returns
<1>4. CASE sent_back(out, wire, FALSE) /\ UNCHANGED packall_size
  BY <1>1, <1>2, <1>4, Returns
<1>5. CASE ~(out = <<>> \/ packall_size >= pack_limit) /\ Head(out).memory
  <2>1. out # <<>> /\ out[1].memory /\ packall_size < pack_limit
    <3>1. out \in Seq(Buffer)
      BY <1>2 DEF Holds
    <3> QED
      BY <1>2, <1>5, <3>1
  <2>2. /\ packed \in Nat /\ packall_size < packed /\ packed <= pack_limit
        /\ packed - packall_size <= queued - Len(wire)
    BY <1>2, <2>1, PackIs
  <2>3. packed # packall_size
    BY <1>2, <2>2
  <2>4. \/ \E k \in 1 .. packed - packall_size :
             IF packed >= pack_limit
             THEN /\ sent_back(chain_write_update(out, k), wire \o Bytes(out, k), ready)
                  /\ UNCHANGED packall_size
             ELSE /\ out' = chain_write_update(out, k) /\ wire' = wire \o Bytes(out, k)
                  /\ packall_size' = packed
                  /\ UNCHANGED <<ready, io, left>>
        \/ sent_back(out, wire, FALSE) /\ UNCHANGED packall_size
    BY <1>5, <2>3, Zenon DEF writev_step
  <2>5. PICK n \in Nat : n = packed - packall_size
    BY <1>2, <2>2
  <2>6. n <= pack_limit - packall_size /\ n <= queued - Len(wire) /\ packed = packall_size + n
    BY <1>2, <2>2, <2>5
  <2> HIDE DEF packed
  <2>7. ASSUME NEW k \in 1 .. n,
               \/ /\ out' = chain_write_update(out, k) /\ wire' = wire \o Bytes(out, k)
                  /\ packall_size' = packall_size + n /\ UNCHANGED <<ready, io, left>>
               \/ /\ sent_back(chain_write_update(out, k), wire \o Bytes(out, k), ready)
                  /\ UNCHANGED packall_size
        PROVE  OcInv'
    BY <1>1, <2>6, <2>7, Wrote
  <2> QED
    BY <1>4, <2>4, <2>5, <2>6, <2>7, Zenon
<1> QED
  BY <1>3, <1>4, <1>5, Zenon DEF writev_step

\* The buffer at the head holds no more than the chain.
LEMMA HeadSize ==
  ASSUME NEW a \in Nat, NEW b \in Nat, NEW c, Holds(c, a, b), c # <<>>
  PROVE  /\ Head(c) = c[1] /\ c[1].pos \in Nat /\ c[1].last \in Nat
         /\ buffer_size(c[1]) = c[1].last - c[1].pos
         /\ buffer_size(c[1]) \in Nat /\ buffer_size(c[1]) <= b - a
<1>1. c \in Seq(Buffer) /\ Len(c) \in Nat /\ Len(c) # 0 /\ c[1].pos = a
  BY DEF Holds
<1>2. 1 \in 1 .. Len(c) /\ 1 \in 0 .. Len(c) /\ Len(c) \in 0 .. Len(c) /\ 1 <= Len(c)
  BY <1>1
<1>3. c[1] \in Buffer /\ c[1].pos <= c[1].last
  BY <1>1, <1>2 DEF Holds
<1>4. c[1].pos \in Nat /\ c[1].last \in Nat
  BY <1>3 DEF Buffer
<1>5. Ends(c)[1] = c[1].last - a /\ Ends(c)[1] <= Ends(c)[Len(c)] /\ Ends(c)[Len(c)] = b - a
  <2>1. /\ \A k \in 1 .. Len(c) : Ends(c)[k] = c[k].last - a
        /\ Ends(c)[Len(c)] = b - a
        /\ \A i, j \in 0 .. Len(c) : i <= j => Ends(c)[i] <= Ends(c)[j]
    <3>1. Measured(c, a, b)
      BY EndsAre
    <3> QED
      BY <3>1, Zenon DEF Measured
  <2> QED
    BY <1>2, <2>1
<1> QED
  BY <1>1, <1>3, <1>4, <1>5 DEF buffer_size

\* sysio_sendfile_chain, from one sendfile to the next, keeps OcInv.
LEMMA SendfileStep ==
  ASSUME OcInv, sendfile_step
  PROVE  OcInv'
<1>1. /\ io \in {"writev", "sendfile"} /\ io # "error"
      /\ UNCHANGED <<queued, limit, pack_limit, base>>
  BY DEF sendfile_step
<1>2. ready \in BOOLEAN /\ FALSE \in BOOLEAN /\ pack_limit \in Nat /\ packall_size \in Nat
      /\ Len(wire) \in Nat /\ wire \in Seq(Nat) /\ queued \in Nat
      /\ wire = [k \in 1 .. Len(wire) |-> k - 1] /\ Holds(out, Len(wire), queued) /\ Sendable(out)
  BY <1>1 DEF OcInv, OcTyped, OcRest
<1>3. CASE sent_back(out, wire, ready) /\ UNCHANGED packall_size
  BY <1>1, <1>2, <1>3, Returns
<1>4. CASE sent_back(out, wire, FALSE) /\ UNCHANGED packall_size
  BY <1>1, <1>2, <1>4, Returns
<1>5. CASE ~(out = <<>> \/ packall_size >= pack_limit) /\ ~Head(out).memory
  <2> DEFINE h == Head(out)
             most == IF packall_size + buffer_size(h) > pack_limit
                     THEN pack_limit - packall_size ELSE buffer_size(h)
  <2>1. /\ h = out[1] /\ out[1].pos \in Nat /\ out[1].last \in Nat
        /\ buffer_size(h) = out[1].last - out[1].pos
        /\ buffer_size(h) \in Nat /\ buffer_size(h) <= queued - Len(wire)
    <3>1. out # <<>>
      BY <1>5
    <3> QED
      BY <1>2, <3>1, HeadSize
  <2> HIDE DEF h
  <2>2. CASE buffer_size(h) = 0
    <3>1. out' = Tail(out) /\ UNCHANGED <<wire, ready, io, left, packall_size>>
      BY <1>5, <2>2, Zenon DEF sendfile_step, h
    <3>2. out # <<>> /\ out[1].pos = out[1].last
      BY <1>5, <2>1, <2>2
    <3>3. Holds(Tail(out), Len(wire), queued) /\ Sendable(Tail(out))
      BY <1>2, <3>2, TailHolds
    <3>4. /\ wire' \in Seq(Nat) /\ Len(wire') = Len(wire) + 0
          /\ wire' = [k \in 1 .. Len(wire') |-> k - 1]
          /\ Holds(out', Len(wire'), queued) /\ Sendable(out')
      <4>1. Len(wire) + 0 = Len(wire)
        BY <1>2
      <4> QED
        BY <1>2, <3>1, <3>3, <4>1, Zenon
    <3>5. packall_size' = packall_size + 0 /\ 0 \in Nat /\ 0 <= 0
      BY <1>2, <3>1
    <3>6. 0 <= pack_limit - packall_size
      BY <1>1, <1>2 DEF OcInv, OcLeft
    <3>7. UNCHANGED <<queued, ready, io, limit, left, pack_limit, base>>
      BY <1>1, <3>1
    <3> QED
      BY <1>1, <3>4, <3>5, <3>6, <3>7, GoOn
  <2>3. CASE buffer_size(h) # 0
    <3>1. \/ \E k \in 1 .. most : /\ out' = chain_write_update(out, k)
                                  /\ wire' = wire \o Bytes(out, k)
                                  /\ packall_size' = packall_size + k
                                  /\ UNCHANGED <<ready, io, left>>
          \/ sent_back(out, wire, FALSE) /\ UNCHANGED packall_size
      BY <1>5, <2>3, Zenon DEF sendfile_step, h
    <3>2. ASSUME NEW k \in 1 .. most
          PROVE  /\ k \in Nat /\ k \in 1 .. k
                 /\ k <= pack_limit - packall_size /\ k <= queued - Len(wire)
      BY <1>2, <1>5, <2>1
    <3> HIDE DEF most
    <3>3. ASSUME NEW k \in 1 .. most, out' = chain_write_update(out, k),
                 wire' = wire \o Bytes(out, k), packall_size' = packall_size + k,
                 UNCHANGED <<ready, io, left>>
          PROVE  OcInv'
      BY <1>1, <3>2, <3>3, Wrote
    <3> QED
      BY <1>4, <3>1, <3>3, Zenon
  <2> QED
    BY <2>2, <2>3
<1> QED
  BY <1>3, <1>4, <1>5, Zenon DEF sendfile_step

\* The chain starts empty, and nothing is queued.
LEMMA OcStart ==
  ASSUME OcInit
  PROVE  OcInv
<1>1. Holds(<<>>, 0, 0) /\ Sendable(<<>>)
  BY DEF Holds, Sendable
<1>2. Len(<<>>) = 0 /\ <<>> \in Seq(Nat)
  OBVIOUS
<1>3. OcTyped
  BY DEF OcInit, OcTyped
<1>4. <<>> = [k \in 1 .. 0 |-> k - 1]
  OBVIOUS
<1>5. OcRest
  BY <1>1, <1>2, <1>4, Zenon DEF OcInit, OcRest
<1>6. OcLeft
  BY DEF OcInit, OcLeft
<1> QED
  BY <1>3, <1>5, <1>6 DEF OcInv

\* Every step of an output keeps OcInv.
LEMMA OcStep ==
  ASSUME OcInv, [OcNext]_oc_vars
  PROVE  OcInv'
<1>1. CASE \E c \in Chains, lim \in Limits \cup {-1} : chain_output(c, lim)
  BY <1>1, QueueStep
<1>2. CASE output_ends
  <2>1. io = "loop" /\ io' = "idle"
        /\ UNCHANGED <<out, queued, wire, ready, limit, left, pack_limit, packall_size, base>>
    BY <1>2 DEF output_ends
  <2>2. OcTyped'
    BY <2>1 DEF OcInv, OcTyped
  <2>3. OcRest'
    BY <2>1, Zenon DEF OcInv, OcRest
  <2>4. OcLeft'
    BY <2>1 DEF OcInv, OcLeft
  <2> QED
    BY <2>2, <2>3, <2>4 DEF OcInv
<1>3. CASE output_sends
  BY <1>3, SendStep
<1>4. CASE writev_step
  BY <1>4, WritevStep
<1>5. CASE sendfile_step
  BY <1>5, SendfileStep
<1>6. CASE writev_fails \/ sendfile_fails
  <2>1. io' = "error"
        /\ UNCHANGED <<out, queued, wire, ready, limit, left, pack_limit, packall_size, base>>
    BY <1>6 DEF writev_fails, sendfile_fails, send_fails
  <2>2. OcTyped'
    BY <2>1 DEF OcInv, OcTyped
  <2>3. OcRest'
    BY <2>1 DEF OcRest
  <2>4. OcLeft'
    BY <2>1 DEF OcInv, OcLeft
  <2> QED
    BY <2>2, <2>3, <2>4 DEF OcInv
<1>7. CASE writable
  <2>1. io = "idle" /\ ready' = TRUE
        /\ UNCHANGED <<out, queued, wire, io, limit, left, pack_limit, packall_size, base>>
    BY <1>7 DEF writable
  <2>2. OcTyped'
    BY <2>1 DEF OcInv, OcTyped
  <2>3. OcRest'
    BY <2>1, Zenon DEF OcInv, OcRest
  <2>4. OcLeft'
    BY <2>1 DEF OcInv, OcLeft
  <2> QED
    BY <2>2, <2>3, <2>4 DEF OcInv
<1>8. CASE UNCHANGED oc_vars
  BY <1>8 DEF OcInv, OcTyped, OcRest, OcLeft, oc_vars
<1> QED
  BY <1>1, <1>2, <1>3, <1>4, <1>5, <1>6, <1>7, <1>8 DEF OcNext

\* OcInv says that the output is sound.
LEMMA OcInvSound ==
  ASSUME OcInv
  PROVE  OutputSound
<1>1. LimitKept
  BY DEF OcInv, OcLeft, LimitKept
<1>2. SentInOrder
  <2> SUFFICES ASSUME io # "error"
               PROVE  /\ wire = [k \in 1 .. Len(wire) |-> k - 1]
                      /\ Len(wire) + chain_size(out) = queued
                      /\ \A k \in DOMAIN out :
                           out[k].pos = Len(wire) + chain_size(SubSeq(out, 1, k - 1))
    BY DEF SentInOrder
  <2>1. /\ queued \in Nat /\ Len(wire) \in Nat /\ wire = [k \in 1 .. Len(wire) |-> k - 1]
        /\ Holds(out, Len(wire), queued)
    BY DEF OcInv, OcTyped, OcRest
  <2>2. chain_size(out) = queued - Len(wire)
    BY <2>1, EndsAre DEF Measured, chain_size
  <2>3. ASSUME NEW k \in DOMAIN out
        PROVE  out[k].pos = Len(wire) + chain_size(SubSeq(out, 1, k - 1))
    <3>1. out \in Seq(Buffer)
      BY <2>1 DEF Holds
    <3>2. k \in 1 .. Len(out)
      BY <3>1
    <3>3. out[k] \in Buffer
      BY <3>1, <3>2
    <3>4. out[k].pos \in Nat
      BY <3>3 DEF Buffer
    <3>5. Holds(SubSeq(out, 1, k - 1), Len(wire), out[k].pos)
      BY <2>1, <3>2, Prefix
    <3>6. chain_size(SubSeq(out, 1, k - 1)) = out[k].pos - Len(wire)
      BY <2>1, <3>4, <3>5, EndsAre DEF Measured, chain_size
    <3> QED
      BY <2>1, <3>4, <3>6
  <2>4. Len(wire) + chain_size(out) = queued
    BY <2>1, <2>2
  <2> QED
    BY <2>1, <2>3, <2>4, Zenon
<1> QED
  BY <1>1, <1>2 DEF OutputSound

\* However writev and sendfile cut it up, chain_output sends the bytes of what is queued in
\* order and each once, and chain_output_with_limit no more of them than its limit, for
\* all chains, limits and sizes of the iovec array.
THEOREM OutputKept == OcSpec => []OutputSound
<1>1. OcSpec => []OcInv
  BY OcStart, OcStep, PTL DEF OcSpec
<1> QED
  BY <1>1, OcInvSound, PTL
=============================================================================
