--------------------------- MODULE OperationProofs ---------------------------
(***************************************************************************)
(* Proofs about Operation and the modules it is made of: the frames of any *)
(* number of joints, channels of any capacity, any number of faults.       *)
(***************************************************************************)
EXTENDS Operation, SequenceTheorems, NaturalsInduction, WellFoundedInduction, TLAPS

-----------------------------------------------------------------------------
(* Arithmetic                                                              *)

\* A number is its quotient and its remainder.
LEMMA DivMod ==
    ASSUME NEW n \in Nat \ {0}, NEW v \in Nat
    PROVE  v \div n \in Nat /\ v % n \in Nat /\ v % n < n /\ (v \div n) * n + (v % n) = v
  <1>1. v \div n \in Nat /\ v % n \in 0 .. n - 1
    OBVIOUS
  <1>2. (v \div n) * n + (v % n) = v
    OBVIOUS
  <1> QED
    BY <1>1, <1>2

\* Only the remainder counts.
LEMMA ModOfMultiple ==
    ASSUME NEW n \in Nat \ {0}, NEW q \in Nat, NEW r \in Nat, r < n
    PROVE  (n * q + r) % n = r
  OBVIOUS

\* A number below n is its own remainder.
LEMMA ModSmall ==
    ASSUME NEW n \in Nat \ {0}, NEW r \in Nat, r < n
    PROVE  r % n = r
  OBVIOUS

\* A sum may be reduced early.
LEMMA ModPlus ==
    ASSUME NEW n \in Nat \ {0}, NEW a \in Nat, NEW b \in Nat
    PROVE  ((a % n) + b) % n = (a + b) % n
  <1> DEFINE q == a \div n
             r == a % n
             u == (r + b) \div n
             v == (r + b) % n
  <1>1. q \in Nat /\ r \in Nat /\ a = n * q + r
    BY DivMod
  <1>2. u \in Nat /\ v \in Nat /\ v < n /\ r + b = n * u + v
    <2> HIDE DEF r
    <2>1. r + b \in Nat
      BY <1>1
    <2>2. u \in Nat /\ v \in Nat /\ v < n /\ u * n + v = r + b
      BY <2>1, DivMod
    <2> HIDE DEF u, v
    <2> QED
      BY <2>2
  <1>3. v = ((a % n) + b) % n
    OBVIOUS
  <1> HIDE DEF q, r, u, v
  <1>4. a + b = n * (q + u) + v /\ q + u \in Nat
    BY <1>1, <1>2
  <1>5. (a + b) % n = v
    BY <1>2, <1>4, ModOfMultiple
  <1> QED
    BY <1>3, <1>5

-----------------------------------------------------------------------------
(* The frame format                                                        *)

\* A set of natural numbers that is not empty has a least element.
LEMMA LeastNumber ==
    ASSUME NEW Bad \in SUBSET Nat, Bad # {}
    PROVE  \E n \in Bad : \A m \in Bad : n <= m
  <1>1. PICK n \in Bad : \A m \in Bad : ~ (<<m, n>> \in OpToRel(<, Nat))
    BY WFMin, NatLessThanWellFounded
  <1>2. \A m \in Bad : ~ (m < n)
    BY <1>1 DEF OpToRel
  <1> QED
    BY <1>2

\* g flattens the first n sequences of seqs, step by step.
Flattens(g, seqs, n) ==
    g = [i \in 1 .. n |-> IF i = 1 THEN seqs[i] ELSE g[i - 1] \o seqs[i]]

\* Such a function exists for every n
LEMMA FlattenExists ==
    ASSUME NEW seqs, NEW n \in Nat
    PROVE  \E g : Flattens(g, seqs, n)
  <1> DEFINE Bad == {m \in Nat : ~ \E g : Flattens(g, seqs, m)}
  <1>1. SUFFICES ASSUME Bad # {} PROVE FALSE
    OBVIOUS
  <1>2. Bad \in SUBSET Nat
    OBVIOUS
  <1>3. PICK m \in Bad : \A k \in Bad : m <= k
    BY <1>1, <1>2, LeastNumber
  <1>4. m # 0
    <2>1. Flattens([i \in 1 .. 0 |-> 0], seqs, 0)
      BY DEF Flattens
    <2> QED
      BY <1>3, <2>1
  <1>5. m - 1 \in Nat /\ m - 1 \notin Bad
    BY <1>3, <1>4
  <1>6. PICK g : Flattens(g, seqs, m - 1)
    BY <1>5
  <1> DEFINE h == [i \in 1 .. m |-> IF i = m THEN (IF i = 1 THEN seqs[i] ELSE g[i - 1] \o seqs[i])
                                    ELSE g[i]]
  <1>7. ASSUME NEW i \in 1 .. m
        PROVE  h[i] = IF i = 1 THEN seqs[i] ELSE h[i - 1] \o seqs[i]
    <2>1. CASE i = m /\ i = 1
      BY <2>1
    <2>2. CASE i = m /\ i # 1
      <3>1. i - 1 \in 1 .. m /\ i - 1 # m
        BY <1>5, <2>2
      <3> QED
        BY <2>2, <3>1
    <2>3. CASE i # m
      <3>1. i \in 1 .. m - 1 /\ h[i] = g[i]
        BY <1>5, <2>3
      <3>2. g[i] = IF i = 1 THEN seqs[i] ELSE g[i - 1] \o seqs[i]
        BY <1>6, <3>1 DEF Flattens
      <3>3. i # 1 => i - 1 \in 1 .. m /\ i - 1 # m
        BY <1>5, <2>3
      <3> QED
        BY <3>1, <3>2, <3>3
    <2> QED
      BY <2>1, <2>2, <2>3
  <1>8. Flattens(h, seqs, m)
    <2>1. h = [i \in 1 .. m |-> h[i]]
      OBVIOUS
    <2> HIDE DEF h
    <2> QED
      BY <1>7, <2>1 DEF Flattens
  <1> QED
    BY <1>3, <1>8

\* FlattenSeq is the last value of it.
LEMMA FlattenIs ==
    ASSUME NEW seqs, Len(seqs) \in Nat \ {0}
    PROVE  \E g : Flattens(g, seqs, Len(seqs)) /\ FlattenSeq(seqs) = g[Len(seqs)]
  <1> DEFINE g == CHOOSE f : f = [i \in 1 .. Len(seqs) |-> IF i = 1 THEN seqs[i] ELSE f[i - 1] \o seqs[i]]
  <1>1. \E f : Flattens(f, seqs, Len(seqs))
    BY FlattenExists
  <1>2. Flattens(g, seqs, Len(seqs))
    BY <1>1 DEF Flattens
  <1>3. FlattenSeq(seqs) = g[Len(seqs)]
    BY DEF FlattenSeq
  <1> QED
    BY <1>2, <1>3

\* The parts of a concatenation.
LEMMA Concat ==
    ASSUME NEW a \in Seq(Nat), NEW b \in Seq(Nat)
    PROVE  /\ a \o b \in Seq(Nat)
           /\ Len(a \o b) = Len(a) + Len(b)
           /\ \A i \in 1 .. Len(a) : (a \o b)[i] = a[i]
           /\ \A j \in 1 .. Len(b) : (a \o b)[Len(a) + j] = b[j]
  <1>1. /\ a \o b \in Seq(Nat) /\ Len(a \o b) = Len(a) + Len(b)
        /\ \A i \in 1 .. Len(a) + Len(b) :
              (a \o b)[i] = IF i <= Len(a) THEN a[i] ELSE b[i - Len(a)]
    BY ConcatProperties
  <1>2. Len(a) \in Nat /\ Len(b) \in Nat
    OBVIOUS
  <1>3. ASSUME NEW i \in 1 .. Len(a) PROVE (a \o b)[i] = a[i]
    <2>1. i \in 1 .. Len(a) + Len(b) /\ i <= Len(a)
      BY <1>2
    <2> QED
      BY <1>1, <2>1
  <1>4. ASSUME NEW j \in 1 .. Len(b) PROVE (a \o b)[Len(a) + j] = b[j]
    <2>1. /\ Len(a) + j \in 1 .. Len(a) + Len(b) /\ ~ (Len(a) + j <= Len(a))
          /\ (Len(a) + j) - Len(a) = j
      BY <1>2
    <2>2. (a \o b)[Len(a) + j] = b[(Len(a) + j) - Len(a)]
      BY <1>1, <2>1
    <2> QED
      BY <2>1, <2>2
  <1> QED
    BY <1>1, <1>3, <1>4

\* Two words after a block.
LEMMA AppendPair ==
    ASSUME NEW h \in Seq(Nat), NEW x \in Nat, NEW y \in Nat
    PROVE  /\ h \o <<x, y>> \in Seq(Nat)
           /\ Len(h \o <<x, y>>) = Len(h) + 2
           /\ \A i \in 1 .. Len(h) : (h \o <<x, y>>)[i] = h[i]
           /\ (h \o <<x, y>>)[Len(h) + 1] = x
           /\ (h \o <<x, y>>)[Len(h) + 2] = y
  <1> DEFINE p == <<x, y>>
  <1>1. p \in Seq(Nat) /\ Len(p) = 2 /\ p[1] = x /\ p[2] = y
    OBVIOUS
  <1> HIDE DEF p
  <1>2. /\ h \o p \in Seq(Nat) /\ Len(h \o p) = Len(h) + Len(p)
        /\ \A i \in 1 .. Len(h) : (h \o p)[i] = h[i]
        /\ \A j \in 1 .. Len(p) : (h \o p)[Len(h) + j] = p[j]
    BY <1>1, Concat
  <1>3. 1 \in 1 .. Len(p) /\ 2 \in 1 .. Len(p)
    BY <1>1
  <1>4. (h \o p)[Len(h) + 1] = x /\ (h \o p)[Len(h) + 2] = y
    BY <1>1, <1>2, <1>3
  <1> QED
    BY <1>1, <1>2, <1>4 DEF p

\* Every sequence of seqs is a pair of words.
ArePairs(seqs, a, b, n) == \A i \in 1 .. n : seqs[i] = <<a[i], b[i]>>

\* The words of the first k pairs are the sequence w.
Holds(w, a, b, k) ==
    /\ w \in Seq(Nat) /\ Len(w) = 2 * k
    /\ \A i \in 1 .. k : w[2 * i - 1] = a[i] /\ w[2 * i] = b[i]

\* Two words for every value: where the words of a value are in the flattened block.
LEMMA FlattenPairs ==
    ASSUME NEW n \in Nat \ {0}, NEW a \in [1 .. n -> Nat], NEW b \in [1 .. n -> Nat],
           NEW seqs, ArePairs(seqs, a, b, n),
           NEW g, Flattens(g, seqs, n), NEW k \in 1 .. n
    PROVE  Holds(g[k], a, b, k)
  <1> DEFINE Good(m) == Holds(g[m], a, b, m)
             Bad == {m \in 1 .. n : ~ Good(m)}
  <1>1. SUFFICES ASSUME Bad # {} PROVE FALSE
    OBVIOUS
  <1>2. Bad \in SUBSET Nat
    OBVIOUS
  <1>3. PICK m \in Bad : \A j \in Bad : m <= j
    BY <1>1, <1>2, LeastNumber
  <1>4. m \in 1 .. n /\ seqs[m] = <<a[m], b[m]>> /\ a[m] \in Nat /\ b[m] \in Nat
    BY <1>3 DEF ArePairs
  <1>5. g[m] = IF m = 1 THEN seqs[m] ELSE g[m - 1] \o seqs[m]
    BY <1>4 DEF Flattens
  <1>6. CASE m = 1
    <2>1. g[1] = <<a[1], b[1]>>
      BY <1>4, <1>5, <1>6
    <2>2. Good(1)
      BY <1>4, <1>6, <2>1 DEF Holds
    <2> QED
      BY <1>3, <1>6, <2>2
  <1>7. CASE m # 1
    <2>1. m - 1 \in 1 .. n
      BY <1>4, <1>7
    <2>2. m - 1 \notin Bad
      <3> HIDE DEF Bad
      <3> QED
        BY <1>3, <1>4, <2>1
    <2>3. Good(m - 1)
      BY <2>1, <2>2
    <2> DEFINE h == g[m - 1]
    <2>4. /\ h \in Seq(Nat) /\ Len(h) = 2 * (m - 1)
          /\ \A i \in 1 .. m - 1 : h[2 * i - 1] = a[i] /\ h[2 * i] = b[i]
      BY <2>3 DEF Holds
    <2>5. g[m] = h \o <<a[m], b[m]>>
      BY <1>4, <1>5, <1>7
    <2> HIDE DEF h, Good, Bad
    <2>6. /\ g[m] \in Seq(Nat) /\ Len(g[m]) = Len(h) + 2
          /\ \A i \in 1 .. Len(h) : g[m][i] = h[i]
          /\ g[m][Len(h) + 1] = a[m] /\ g[m][Len(h) + 2] = b[m]
      BY <1>4, <2>4, <2>5, AppendPair
    <2>7. ASSUME NEW i \in 1 .. m
          PROVE  g[m][2 * i - 1] = a[i] /\ g[m][2 * i] = b[i]
      <3>1. CASE i # m
        <4>1. i \in 1 .. m - 1 /\ 2 * i - 1 \in 1 .. Len(h) /\ 2 * i \in 1 .. Len(h)
          BY <1>4, <2>4, <3>1
        <4> QED
          BY <2>4, <2>6, <4>1
      <3>2. CASE i = m
        <4>1. 2 * i - 1 = Len(h) + 1 /\ 2 * i = Len(h) + 2
          BY <1>4, <2>4, <3>2
        <4> QED
          BY <2>6, <3>2, <4>1
      <3> QED
        BY <3>1, <3>2
    <2>8. Len(g[m]) = 2 * m
      BY <1>4, <2>4, <2>6
    <2>9. Good(m)
      BY <2>6, <2>7, <2>8 DEF Good, Holds
    <2> QED
      BY <1>3, <2>9 DEF Bad
  <1> QED
    BY <1>6, <1>7

\* The words of a sequence of values.
Block(values) == FlattenSeq([i \in DOMAIN values |-> BE64(values[i])])

\* Where they are.
LEMMA BlockWords ==
    ASSUME NEW values \in Seq(Nat)
    PROVE  /\ Block(values) \in Seq(Nat)
           /\ Len(Block(values)) = 2 * Len(values)
           /\ \A i \in 1 .. Len(values) :
                 Block(values)[2 * i - 1] * WordBase + Block(values)[2 * i] = values[i]
  <1> DEFINE n == Len(values)
             seqs == [i \in DOMAIN values |-> BE64(values[i])]
             a == [i \in 1 .. n |-> values[i] \div WordBase]
             b == [i \in 1 .. n |-> values[i] % WordBase]
  <1>1. n \in Nat /\ DOMAIN values = 1 .. n /\ \A i \in 1 .. n : values[i] \in Nat
    OBVIOUS
  <1>2. seqs = [i \in 1 .. n |-> BE64(values[i])] /\ Block(values) = FlattenSeq(seqs)
    BY <1>1 DEF Block
  <1>3. Len(seqs) = n
    BY <1>1, <1>2
  <1>4. CASE n = 0
    <2>1. FlattenSeq(seqs) = seqs
      BY <1>3, <1>4 DEF FlattenSeq
    <2>2. seqs \in Seq(Nat)
      <3>1. seqs = [i \in 1 .. 0 |-> BE64(values[i])]
        BY <1>2, <1>4
      <3>2. seqs \in [1 .. 0 -> Nat]
        BY <3>1
      <3> QED
        BY <3>2
    <2>3. Block(values) = seqs /\ 1 .. Len(values) = {} /\ Len(seqs) = 2 * Len(values)
      BY <1>2, <1>3, <1>4, <2>1
    <2> HIDE DEF seqs
    <2> QED
      BY <2>2, <2>3
  <1>5. CASE n # 0
    <2>1. a \in [1 .. n -> Nat] /\ b \in [1 .. n -> Nat]
      <3>1. \A i \in 1 .. n : values[i] \div WordBase \in Nat /\ values[i] % WordBase \in Nat
        <4>1. WordBase \in Nat \ {0}
          BY WordAssumption
        <4>2. ASSUME NEW v \in Nat PROVE v \div WordBase \in Nat /\ v % WordBase \in Nat
          <5>1. v \div WordBase \in Nat /\ v % WordBase \in 0 .. WordBase - 1
            BY <4>1
          <5> QED
            BY <4>1, <5>1
        <4> QED
          BY <1>1, <4>2
      <3> HIDE DEF n
      <3> QED
        BY <3>1
    <2>2. ArePairs(seqs, a, b, n)
      BY <1>1, <1>2 DEF BE64, ArePairs
    <2>3. \A i \in 1 .. n : a[i] * WordBase + b[i] = values[i]
      BY <1>1, DivMod, WordAssumption
    <2>4. Len(seqs) \in Nat \ {0} /\ n \in 1 .. n /\ n \in Nat \ {0}
      BY <1>1, <1>3, <1>5
    <2> HIDE DEF seqs, a, b, n
    <2>5. PICK g : Flattens(g, seqs, n) /\ FlattenSeq(seqs) = g[n]
      BY <1>3, <2>4, FlattenIs
    <2>6. /\ g[n] \in Seq(Nat) /\ Len(g[n]) = 2 * n
          /\ \A i \in 1 .. n : g[n][2 * i - 1] = a[i] /\ g[n][2 * i] = b[i]
      <3>1. Holds(g[n], a, b, n)
        BY <2>1, <2>2, <2>4, <2>5, FlattenPairs
      <3> QED
        BY <3>1 DEF Holds
    <2>7. Block(values) = g[n]
      BY <1>2, <2>5
    <2>8. \A i \in 1 .. n : g[n][2 * i - 1] * WordBase + g[n][2 * i] = values[i]
      BY <2>3, <2>6
    <2> QED
      BY <2>6, <2>7, <2>8 DEF n
  <1> QED
    BY <1>4, <1>5

\* The payload of a frame.
Words(t, P, Q) == BE64(t) \o <<Len(P)>> \o Block(P) \o Block(Q)

\* The words w are a header and two blocks, of P and of Q.
Layout(w, t, P, Q) ==
    /\ w \in Seq(Nat)
    /\ Len(w) = 3 + 4 * Len(P)
    /\ w[1] * WordBase + w[2] = t
    /\ w[3] = Len(P)
    /\ \A j \in 1 .. 2 * Len(P) : w[3 + j] = Block(P)[j] /\ w[3 + 2 * Len(P) + j] = Block(Q)[j]

\* A payload is laid out like that.
LEMMA PayloadLayout ==
    ASSUME NEW t \in Nat, NEW P \in Seq(Nat), NEW Q \in Seq(Nat), Len(P) = Len(Q)
    PROVE  Layout(Words(t, P, Q), t, P, Q)
  <1> DEFINE n == Len(P)
             x == t \div WordBase
             y == t % WordBase
             h == <<x, y, n>>
             p == Block(P)
             q == Block(Q)
  <1>1. n \in Nat /\ x \in Nat /\ y \in Nat /\ x * WordBase + y = t
    <2>1. WordBase \in Nat \ {0}
      BY WordAssumption
    <2>2. x \in Nat /\ y \in 0 .. WordBase - 1
      BY <2>1
    <2>3. x * WordBase + y = t
      BY <2>1
    <2>4. y \in Nat
      BY <2>1, <2>2
    <2> QED
      BY <2>2, <2>3, <2>4
  <1>2. p \in Seq(Nat) /\ Len(p) = 2 * n /\ q \in Seq(Nat) /\ Len(q) = 2 * n
    BY BlockWords
  <1>3. BE64(t) \o <<n>> = h
    <2>1. h \in Seq(Nat) /\ Len(h) = 3
      BY <1>1
    <2>2. <<x, y>> \in Seq(Nat) /\ <<n>> \in Seq(Nat) /\ Len(<<x, y>>) = 2 /\ Len(<<n>>) = 1
      BY <1>1
    <2> DEFINE v == <<x, y>> \o <<n>>
    <2>3. /\ v \in Seq(Nat) /\ Len(v) = Len(<<x, y>>) + Len(<<n>>)
          /\ \A i \in 1 .. Len(<<x, y>>) : v[i] = <<x, y>>[i]
          /\ \A j \in 1 .. Len(<<n>>) : v[Len(<<x, y>>) + j] = <<n>>[j]
      BY <2>2, Concat
    <2> HIDE DEF v
    <2>4. Len(v) = 3 /\ v[1] = x /\ v[2] = y /\ v[2 + 1] = n
      BY <2>2, <2>3
    <2>5. \A i \in 1 .. Len(v) : v[i] = h[i]
      BY <2>4
    <2>6. v = h
      BY <2>1, <2>3, <2>4, <2>5, SeqEqual
    <2> QED
      BY <2>6 DEF v, BE64
  <1>4. h \in Seq(Nat) /\ Len(h) = 3 /\ h[1] = x /\ h[2] = y /\ h[3] = n
    BY <1>1
  <1> DEFINE u == h \o p
             w == u \o q
  <1>5. Words(t, P, Q) = w
    BY <1>3 DEF Words
  <1> HIDE DEF n, x, y, h, p, q
  <1>6. /\ u \in Seq(Nat) /\ Len(u) = Len(h) + Len(p)
        /\ \A i \in 1 .. Len(h) : u[i] = h[i]
        /\ \A j \in 1 .. Len(p) : u[Len(h) + j] = p[j]
    BY <1>2, <1>4, Concat
  <1> HIDE DEF u
  <1>7. /\ w \in Seq(Nat) /\ Len(w) = Len(u) + Len(q)
        /\ \A i \in 1 .. Len(u) : w[i] = u[i]
        /\ \A j \in 1 .. Len(q) : w[Len(u) + j] = q[j]
    BY <1>2, <1>6, Concat
  <1> HIDE DEF w
  <1>8. Len(u) = 3 + 2 * n /\ Len(w) = 3 + 4 * n
    BY <1>1, <1>2, <1>4, <1>6, <1>7
  <1>9. w[1] = x /\ w[2] = y /\ w[3] = n
    <2>1. 1 \in 1 .. Len(u) /\ 2 \in 1 .. Len(u) /\ 3 \in 1 .. Len(u)
      BY <1>1, <1>8
    <2>2. 1 \in 1 .. Len(h) /\ 2 \in 1 .. Len(h) /\ 3 \in 1 .. Len(h)
      BY <1>4
    <2> QED
      BY <1>4, <1>6, <1>7, <2>1, <2>2
  <1>10. ASSUME NEW j \in 1 .. 2 * n
         PROVE  w[3 + j] = p[j] /\ w[3 + 2 * n + j] = q[j]
    <2>1. 3 + j \in 1 .. Len(u) /\ j \in 1 .. Len(p) /\ j \in 1 .. Len(q)
      BY <1>1, <1>2, <1>8
    <2>2. w[3 + j] = u[3 + j] /\ u[3 + j] = p[j]
      BY <1>4, <1>6, <1>7, <2>1
    <2>3. w[3 + 2 * n + j] = q[j]
      BY <1>7, <1>8, <2>1
    <2> QED
      BY <2>2, <2>3
  <1> QED
    BY <1>1, <1>5, <1>7, <1>8, <1>9, <1>10 DEF n, p, q, Layout

\* A frame is the length of its payload in bytes, and the payload.
LEMMA FrameLayout ==
    ASSUME NEW t \in Nat, NEW P \in Seq(Nat), NEW Q \in Seq(Nat), Len(P) = Len(Q)
    PROVE  /\ encode_frame(t, P, Q)[1] = 12 + 16 * Len(P)
           /\ Payload(encode_frame(t, P, Q)) = Words(t, P, Q)
  <1> DEFINE w == Words(t, P, Q)
             l == Len(w)
             f == <<4 * l>> \o w
  <1>1. encode_frame(t, P, Q) = f
    BY DEF encode_frame, Words, Block
  <1>2. w \in Seq(Nat) /\ l = 3 + 4 * Len(P) /\ Len(P) \in Nat
    <2>1. Len(P) \in Nat
      OBVIOUS
    <2> QED
      BY <2>1, PayloadLayout DEF Layout
  <1> HIDE DEF w
  <1>3. <<4 * l>> \in Seq(Nat) /\ Len(<<4 * l>>) = 1 /\ <<4 * l>>[1] = 4 * l /\ l \in Nat
    BY <1>2
  <1> DEFINE d == <<4 * l>>
  <1>4. /\ f \in Seq(Nat) /\ Len(f) = 1 + l /\ f[1] = 4 * l
        /\ \A j \in 1 .. l : f[1 + j] = w[j]
    <2>1. d \in Seq(Nat) /\ Len(d) = 1 /\ d[1] = 4 * l /\ f = d \o w
      BY <1>3
    <2> HIDE DEF d, f
    <2>2. /\ d \o w \in Seq(Nat) /\ Len(d \o w) = Len(d) + Len(w)
          /\ \A i \in 1 .. Len(d) : (d \o w)[i] = d[i]
          /\ \A j \in 1 .. Len(w) : (d \o w)[Len(d) + j] = w[j]
      BY <1>2, <2>1, Concat
    <2>3. 1 \in 1 .. Len(d)
      BY <2>1
    <2> QED
      BY <2>1, <2>2, <2>3
  <1> HIDE DEF f, l
  <1>5. f[1] = 4 * l
    BY <1>4
  <1>6. Payload(f) = SubSeq(f, 2, 1 + l)
    <2>1. (4 * l) \div 4 = l
      BY <1>3
    <2> QED
      BY <1>5, <2>1 DEF Payload
  <1>7. \A i \in 2 .. 1 + l : f[i] \in Nat
    BY <1>3, <1>4
  <1>8. /\ SubSeq(f, 2, 1 + l) \in Seq(Nat)
        /\ Len(SubSeq(f, 2, 1 + l)) = IF 2 <= 1 + l THEN (1 + l) - 2 + 1 ELSE 0
        /\ \A i \in 1 .. (1 + l) - 2 + 1 : SubSeq(f, 2, 1 + l)[i] = f[2 + i - 1]
    <2>1. 2 \in Int /\ 1 + l \in Int
      BY <1>3
    <2> QED
      BY <1>7, <2>1, SubSeqProperties
  <1> DEFINE u == SubSeq(f, 2, 1 + l)
  <1>9. u \in Seq(Nat) /\ Len(u) = l /\ \A i \in 1 .. l : u[i] = f[2 + i - 1]
    BY <1>3, <1>8
  <1> HIDE DEF u
  <1>10. ASSUME NEW i \in 1 .. l PROVE u[i] = w[i]
    <2>1. 2 + i - 1 = 1 + i
      BY <1>3
    <2> QED
      BY <1>4, <1>9, <2>1
  <1>11. Len(w) = l
    BY DEF l
  <1>12. u = w
    BY <1>2, <1>9, <1>10, <1>11, SeqEqual
  <1>13. 4 * l = 12 + 16 * Len(P)
    BY <1>2
  <1> QED
    BY <1>1, <1>5, <1>6, <1>12, <1>13 DEF u, w

\* What the agent should read from a frame.
Reading(t, P, Q) ==
    [recorded_at |-> [seconds |-> t \div NS_PER_SEC, nanos |-> t % NS_PER_SEC],
     joints |-> [i \in 1 .. Len(P) |->
                   [name |-> IF i <= Len(JOINT_NAMES) THEN JOINT_NAMES[i] ELSE "unknown",
                    position_rad |-> P[i],
                    torque_nm |-> Q[i]]]]

\* The agent decodes every frame to what the simulator encoded: the time stamp, and
\* each joint with its own position and torque, whatever the number of joints
\* (_encode_frame in simulator/controller/robot_controller.py, parse_frame in
\* robot-agent/src/telemetry.rs).
THEOREM DecodesWhatWasEncoded ==
    ASSUME NEW t \in Nat, NEW P \in Seq(Nat), NEW Q \in Seq(Nat), Len(P) = Len(Q)
    PROVE  parse_frame(Payload(encode_frame(t, P, Q))) = Reading(t, P, Q)
  <1> DEFINE w == Words(t, P, Q)
             n == Len(P)
  <1>1. Payload(encode_frame(t, P, Q)) = w
    BY FrameLayout
  <1>2. /\ w \in Seq(Nat) /\ Len(w) = 3 + 4 * n
        /\ w[1] * WordBase + w[2] = t
        /\ w[3] = n
        /\ \A j \in 1 .. 2 * n : w[3 + j] = Block(P)[j] /\ w[3 + 2 * n + j] = Block(Q)[j]
    <2>1. Layout(w, t, P, Q)
      BY PayloadLayout
    <2> HIDE DEF w
    <2> QED
      BY <2>1 DEF Layout
  <1>3. n \in Nat
    OBVIOUS
  <1>4. \A i \in 1 .. n : /\ Block(P)[2 * i - 1] * WordBase + Block(P)[2 * i] = P[i]
                          /\ Block(Q)[2 * i - 1] * WordBase + Block(Q)[2 * i] = Q[i]
    BY BlockWords
  <1> HIDE DEF w, n
  <1>5. Word64(w, 0) = t
    <2>1. 0 \div 4 + 1 = 1 /\ 0 \div 4 + 2 = 2
      OBVIOUS
    <2> QED
      BY <1>2, <2>1 DEF Word64
  <1>6. w[8 \div 4 + 1] = n
    <2>1. 8 \div 4 + 1 = 3
      OBVIOUS
    <2> QED
      BY <1>2, <2>1
  <1>7. ASSUME NEW i \in 1 .. n
        PROVE  /\ Word64(w, 12 + (i - 1) * 8) = P[i]
               /\ Word64(w, 12 + n * 8 + (i - 1) * 8) = Q[i]
    <2>1. /\ (12 + (i - 1) * 8) \div 4 + 1 = 3 + (2 * i - 1)
          /\ (12 + (i - 1) * 8) \div 4 + 2 = 3 + 2 * i
          /\ (12 + n * 8 + (i - 1) * 8) \div 4 + 1 = 3 + 2 * n + (2 * i - 1)
          /\ (12 + n * 8 + (i - 1) * 8) \div 4 + 2 = 3 + 2 * n + 2 * i
      BY <1>3
    <2>2. 2 * i - 1 \in 1 .. 2 * n /\ 2 * i \in 1 .. 2 * n
      BY <1>3
    <2>3. /\ w[3 + (2 * i - 1)] = Block(P)[2 * i - 1] /\ w[3 + 2 * i] = Block(P)[2 * i]
          /\ w[3 + 2 * n + (2 * i - 1)] = Block(Q)[2 * i - 1]
          /\ w[3 + 2 * n + 2 * i] = Block(Q)[2 * i]
      BY <1>2, <2>2
    <2> QED
      BY <1>4, <2>1, <2>3 DEF Word64
  <1>8. ~ (4 * Len(w) < 12) /\ ~ (4 * Len(w) < 12 + n * 8 * 2)
    BY <1>2, <1>3
  <1>9. parse_frame(w) =
          [recorded_at |-> [seconds |-> t \div NS_PER_SEC, nanos |-> t % NS_PER_SEC],
           joints |-> [i \in 1 .. n |->
                         [name |-> IF i <= Len(JOINT_NAMES) THEN JOINT_NAMES[i] ELSE "unknown",
                          position_rad |-> Word64(w, 12 + (i - 1) * 8),
                          torque_nm |-> Word64(w, 12 + n * 8 + (i - 1) * 8)]]]
    BY <1>5, <1>6, <1>8 DEF parse_frame
  <1>10. [i \in 1 .. n |->
            [name |-> IF i <= Len(JOINT_NAMES) THEN JOINT_NAMES[i] ELSE "unknown",
             position_rad |-> Word64(w, 12 + (i - 1) * 8),
             torque_nm |-> Word64(w, 12 + n * 8 + (i - 1) * 8)]]
         = [i \in 1 .. n |->
              [name |-> IF i <= Len(JOINT_NAMES) THEN JOINT_NAMES[i] ELSE "unknown",
               position_rad |-> P[i], torque_nm |-> Q[i]]]
    BY <1>7
  <1>11. parse_frame(w) = Reading(t, P, Q)
    BY <1>9, <1>10 DEF Reading, n
  <1> QED
    BY <1>1, <1>11

-----------------------------------------------------------------------------
(* The inductive invariant                                                 *)

Positions(n) == [i \in 1 .. JointCount |-> Position(n, i)]
Torques(n) == [i \in 1 .. JointCount |-> Torque(n, i)]

\* The n-th frame of the controller, on the socket and in the agent.
RawFrame(n) == encode_frame(n, Positions(n), Torques(n))
SocketFrame(n) == Reading(n, Positions(n), Torques(n))

FrameNumbers == 0 .. FrameNos - 1
RawFrames == {RawFrame(n) : n \in FrameNumbers}
SentFrames == {SocketFrame(n) : n \in FrameNumbers} \cup {SineFrame(n) : n \in FrameNumbers}

\* The types, with what the sequences hold.
StreamTypes ==
    /\ TelemetryTypeOK
    /\ socket \in Seq(RawFrames)
    /\ frames \in Seq(SentFrames)
    /\ delivered \in SentFrames \cup {NoFrame}

\* Who holds a connection, who feeds the channel, and why a stream may end.
StreamFlow ==
    /\ tel \notin {"call", "stream"} => source = "none" /\ frames = <<>>
    /\ conn = "backlog" => tel = "accept"
    /\ source = "socket" <=> conn = "open"
    /\ conn \notin {"backlog", "open"} => socket = <<>>
    /\ conn # "none" => controller \/ closed
    /\ tel \in {"call", "stream"} /\ source = "none" => closed
    /\ tel = "returned" => closed

\* The frames on the socket follow number base.
SocketFrom(base) ==
    /\ produced = (base + Len(socket)) % FrameNos
    /\ \A i \in 1 .. Len(socket) : socket[i] = RawFrame((base + i - 1) % FrameNos)

\* Every frame is where its number says.
StreamCount ==
    /\ conn = "backlog" => SocketFrom(0)
    /\ source = "socket" =>
          /\ SocketFrom(frames_received + Len(frames))
          /\ \A i \in 1 .. Len(frames) :
                frames[i] = SocketFrame((frames_received + i - 1) % FrameNos)
    /\ source = "sine" =>
          /\ produced = (frames_received + Len(frames)) % FrameNos
          /\ \A i \in 1 .. Len(frames) :
                frames[i] = SineFrame((frames_received + i - 1) % FrameNos)

StreamInv == StreamTypes /\ StreamFlow /\ StreamCount

\* A heartbeat handler that has returned on a stream still up has left a refusal in it.
RefusalLeft ==
    hb = "stream" /\ handler = "none" =>
        responses # <<>> /\ responses[Len(responses)] = "not_found"

HeartbeatInv == HeartbeatTypeOK /\ RefusalLeft

OperationInv ==
    /\ OperationTypeOK
    /\ RefusalLeft
    /\ StreamInv
    /\ agent = "exited" => closed

-----------------------------------------------------------------------------
(* Frames and queues                                                       *)

\* The robot has joints, and frame numbers.
LEMMA Numbers ==
    /\ JointCount \in Nat \ {0} /\ Len(JOINT_NAMES) \in Nat
    /\ FrameNos \in Nat \ {0} /\ SOCKET_BUFFER \in Nat /\ FRAME_CHANNEL \in Nat
    /\ ACK_CHANNEL \in Nat /\ SOCKET_BUFFER < FrameNos
    /\ FrameNumbers \subseteq Nat /\ 0 \in FrameNumbers
    /\ \A n \in Nat : n % FrameNos \in FrameNumbers
  <1>1. JointCount \in Nat \ {0} /\ Len(JOINT_NAMES) \in Nat
    BY FramesAssumption DEF JointCount
  <1>2. /\ FrameNos \in Nat \ {0} /\ SOCKET_BUFFER \in Nat /\ FRAME_CHANNEL \in Nat
        /\ ACK_CHANNEL \in Nat /\ SOCKET_BUFFER < FrameNos
    BY ChannelsAssumption, FrameNosAssumption
  <1>3. FrameNumbers \subseteq Nat /\ 0 \in FrameNumbers
    BY <1>2 DEF FrameNumbers
  <1>4. ASSUME NEW n \in Nat PROVE n % FrameNos \in FrameNumbers
    BY <1>2, DivMod DEF FrameNumbers
  <1> QED
    BY <1>1, <1>2, <1>3, <1>4

\* What the simulator reads is two sequences of numbers.
LEMMA ReadingsAreSequences ==
    ASSUME NEW n \in Nat
    PROVE  /\ Positions(n) \in Seq(Nat) /\ Len(Positions(n)) = JointCount
           /\ Torques(n) \in Seq(Nat) /\ Len(Torques(n)) = JointCount
           /\ \A i \in 1 .. JointCount : Positions(n)[i] = Position(n, i) /\ Torques(n)[i] = Torque(n, i)
  <1>1. \A i \in 1 .. JointCount : Position(n, i) \in Nat /\ Torque(n, i) \in Nat
    BY Numbers DEF Position, Torque
  <1>2. /\ Positions(n) \in [1 .. JointCount -> Nat] /\ Torques(n) \in [1 .. JointCount -> Nat]
        /\ \A i \in 1 .. JointCount : Positions(n)[i] = Position(n, i) /\ Torques(n)[i] = Torque(n, i)
    BY <1>1 DEF Positions, Torques
  <1>3. ASSUME NEW f \in [1 .. JointCount -> Nat] PROVE f \in Seq(Nat) /\ Len(f) = JointCount
    <2>1. JointCount \in Nat
      BY Numbers
    <2>2. f \in Seq(Nat)
      BY <2>1
    <2>3. Len(f) = JointCount
      BY <2>1
    <2> QED
      BY <2>2, <2>3
  <1> QED
    BY <1>2, <1>3

\* A frame of the controller is accepted and decoded.
LEMMA FrameFacts ==
    ASSUME NEW n \in FrameNumbers
    PROVE  /\ LengthAccepted(RawFrame(n))
           /\ parse_frame(Payload(RawFrame(n))) = SocketFrame(n)
           /\ SocketFrame(n) # NoFrame
  <1>1. n \in Nat
    BY Numbers
  <1>2. /\ Positions(n) \in Seq(Nat) /\ Len(Positions(n)) = JointCount
        /\ Torques(n) \in Seq(Nat) /\ Len(Torques(n)) = JointCount
    BY <1>1, ReadingsAreSequences
  <1>3. parse_frame(Payload(RawFrame(n))) = SocketFrame(n)
    BY <1>1, <1>2, DecodesWhatWasEncoded DEF RawFrame, SocketFrame
  <1>4. RawFrame(n)[1] = 12 + 16 * JointCount
    BY <1>1, <1>2, FrameLayout DEF RawFrame
  <1>5. LengthAccepted(RawFrame(n))
    BY <1>4, Numbers, PayloadAssumption DEF LengthAccepted
  <1>6. SocketFrame(n) \in TelemetryFrame
    <2> DEFINE joint(i) == [name |-> IF i <= Len(JOINT_NAMES) THEN JOINT_NAMES[i] ELSE "unknown",
                            position_rad |-> Positions(n)[i], torque_nm |-> Torques(n)[i]]
               J == [name : JointNames, position_rad : Nat, torque_nm : Nat]
    <2>1. n \div NS_PER_SEC \in Nat /\ n % NS_PER_SEC \in Nat
      BY <1>1, WordAssumption, DivMod
    <2>2. ASSUME NEW i \in 1 .. JointCount PROVE joint(i) \in J
      <3>1. Positions(n)[i] \in Nat /\ Torques(n)[i] \in Nat
        BY <1>2
      <3>2. (IF i <= Len(JOINT_NAMES) THEN JOINT_NAMES[i] ELSE "unknown") \in JointNames
        <4>1. CASE i <= Len(JOINT_NAMES)
          <5>1. i \in DOMAIN JOINT_NAMES
            BY <4>1, Numbers, FramesAssumption
          <5> QED
            BY <4>1, <5>1 DEF JointNames
        <4>2. CASE ~ (i <= Len(JOINT_NAMES))
          BY <4>2 DEF JointNames
        <4> QED
          BY <4>1, <4>2
      <3> QED
        BY <3>1, <3>2
    <2>3. [i \in 1 .. JointCount |-> joint(i)] \in Seq(J)
      <3> HIDE DEF joint, J
      <3>1. [i \in 1 .. JointCount |-> joint(i)] \in [1 .. JointCount -> J]
        BY <2>2
      <3> QED
        BY <3>1, Numbers
    <2>4. SocketFrame(n) = [recorded_at |-> [seconds |-> n \div NS_PER_SEC, nanos |-> n % NS_PER_SEC],
                            joints |-> [i \in 1 .. JointCount |-> joint(i)]]
      BY <1>2 DEF SocketFrame, Reading
    <2> HIDE DEF joint
    <2> QED
      BY <2>1, <2>3, <2>4 DEF TelemetryFrame
  <1> QED
    BY <1>3, <1>5, <1>6, FramesAssumption

\* A queue loses its first element.
LEMMA QueueTail ==
    ASSUME NEW S, NEW q \in Seq(S), q # <<>>
    PROVE  /\ Head(q) = q[1] /\ Head(q) \in S /\ Len(q) \in Nat \ {0}
           /\ Tail(q) \in Seq(S) /\ Len(Tail(q)) = Len(q) - 1
           /\ \A i \in 1 .. Len(q) - 1 : Tail(q)[i] = q[i + 1]
  <1>1. Len(q) \in Nat \ {0} /\ Head(q) = q[1] /\ Head(q) \in S
    OBVIOUS
  <1>2. Tail(q) \in Seq(S) /\ Len(Tail(q)) = Len(q) - 1
    OBVIOUS
  <1>3. ASSUME NEW i \in 1 .. Len(q) - 1 PROVE Tail(q)[i] = q[i + 1]
    BY <1>1, <1>2
  <1> QED
    BY <1>1, <1>2, <1>3

\* A queue gets one more element.
LEMMA QueueAppend ==
    ASSUME NEW S, NEW q \in Seq(S), NEW x \in S
    PROVE  /\ Append(q, x) \in Seq(S) /\ Len(q) \in Nat /\ Len(Append(q, x)) = Len(q) + 1
           /\ \A i \in 1 .. Len(q) : Append(q, x)[i] = q[i]
           /\ Append(q, x)[Len(q) + 1] = x
  <1>1. Append(q, x) \in Seq(S) /\ Len(q) \in Nat /\ Len(Append(q, x)) = Len(q) + 1
    OBVIOUS
  <1>2. \A i \in 1 .. Len(q) : Append(q, x)[i] = q[i]
    BY <1>1
  <1>3. Append(q, x)[Len(q) + 1] = x
    OBVIOUS
  <1> QED
    BY <1>1, <1>2, <1>3

-----------------------------------------------------------------------------
(* The steps of the telemetry stream                                       *)

Conns == {"none", "backlog", "open", "orphan", "dead"}
Sources == {"none", "socket", "sine"}

\* The types of the state, one by one.
LEMMA StreamTypeFacts ==
    ASSUME StreamInv
    PROVE  /\ path \in BOOLEAN /\ controller \in BOOLEAN /\ closed \in BOOLEAN
           /\ conn \in Conns /\ source \in Sources /\ tel \in TelPcs
           /\ produced \in FrameNumbers /\ frames_received \in FrameNumbers
           /\ socket \in Seq(RawFrames) /\ Len(socket) \in Nat /\ Len(socket) <= SOCKET_BUFFER
           /\ frames \in Seq(SentFrames) /\ Len(frames) \in Nat /\ Len(frames) <= FRAME_CHANNEL
           /\ acks \in 0 .. ACK_CHANNEL /\ delivered \in SentFrames \cup {NoFrame}
           /\ StreamFlow /\ StreamCount
  <1>1. TelemetryTypeOK
    BY DEF StreamInv, StreamTypes
  <1>2. path \in BOOLEAN /\ controller \in BOOLEAN /\ closed \in BOOLEAN
    BY <1>1, Zenon DEF TelemetryTypeOK
  <1>3. produced \in FrameNumbers /\ frames_received \in FrameNumbers
    BY <1>1 DEF TelemetryTypeOK, FrameNumbers
  <1>4. socket \in Seq(RawFrames) /\ frames \in Seq(SentFrames)
    BY DEF StreamInv, StreamTypes
  <1>5. Len(socket) \in Nat /\ Len(frames) \in Nat
    BY <1>4
  <1> QED
    BY <1>1, <1>2, <1>3, <1>4, <1>5 DEF StreamInv, StreamTypes, TelemetryTypeOK, Conns, Sources

\* And back: the types after a step.
LEMMA StreamTypesAfter ==
    ASSUME path' \in BOOLEAN, controller' \in BOOLEAN, closed' \in BOOLEAN,
           conn' \in Conns, source' \in Sources, tel' \in TelPcs,
           produced' \in FrameNumbers, frames_received' \in FrameNumbers,
           socket' \in Seq(RawFrames), Len(socket') <= SOCKET_BUFFER,
           frames' \in Seq(SentFrames), Len(frames') <= FRAME_CHANNEL,
           acks' \in 0 .. ACK_CHANNEL, delivered' \in SentFrames \cup {NoFrame}
    PROVE  StreamTypes'
  <1>1. ({path, controller, closed} \subseteq BOOLEAN)'
    BY Zenon
  <1>2. ({produced, frames_received} \subseteq 0 .. FrameNos - 1)'
    BY DEF FrameNumbers
  <1> QED
    BY <1>1, <1>2 DEF StreamTypes, TelemetryTypeOK, Conns, Sources

\* Nothing that is counted changes.
LEMMA CountKept ==
    ASSUME StreamInv, UNCHANGED <<conn, source, produced, socket, frames, frames_received>>
    PROVE  StreamCount'
  BY DEF StreamInv, StreamCount, SocketFrom

\* Steps that only move the agent's task, or take an ack.
LEMMA QuietKeeps ==
    ASSUME StreamInv, bind \/ stream_telemetry \/ receive_ack \/ telemetry_ends \/ telemetry_wake
    PROVE  StreamInv'
  <1>1. /\ UNCHANGED <<controller, closed, conn, source, produced, socket, frames, frames_received,
                       delivered>>
        /\ path' \in {path, TRUE} /\ acks' \in {acks, acks - 1} /\ (acks' # acks => acks > 0)
        /\ \/ tel = "bind" /\ tel' = "accept"
           \/ tel = "call" /\ tel' = "stream"
           \/ tel = "stream" /\ tel' = "stream"
           \/ tel = "stream" /\ source = "none" /\ frames = <<>> /\ tel' = "returned"
           \/ tel = "sleep" /\ tel' = "start"
    BY DEF bind, stream_telemetry, receive_ack, telemetry_ends, telemetry_wake,
           controllerVars, agentSideVars, serverSideVars
  <1>2. StreamTypes'
    <2>1. path' \in BOOLEAN
      BY <1>1, StreamTypeFacts, Zenon
    <2>2. acks \in 0 .. ACK_CHANNEL /\ ACK_CHANNEL \in Nat
      BY StreamTypeFacts, Numbers
    <2>3. acks' \in 0 .. ACK_CHANNEL
      BY <1>1, <2>2
    <2>4. tel' \in TelPcs
      BY <1>1 DEF TelPcs
    <2> QED
      BY <1>1, <2>1, <2>3, <2>4, StreamTypeFacts, StreamTypesAfter
  <1>3. StreamFlow'
    BY <1>1, StreamTypeFacts DEF StreamFlow
  <1>4. StreamCount'
    BY <1>1, CountKept
  <1> QED
    BY <1>2, <1>3, <1>4 DEF StreamInv

\* choose_source: the agent listens, or starts a sine wave of its own.
LEMMA ChooseKeeps ==
    ASSUME StreamInv, choose_source
    PROVE  StreamInv'
  <1>1. /\ tel = "start" /\ source = "none" /\ frames = <<>>
        /\ UNCHANGED <<controller, conn, socket, closed, frames, acks, delivered>>
        /\ \/ tel' = "bind" /\ path' = FALSE /\ UNCHANGED <<source, produced, frames_received>>
           \/ tel' = "call" /\ source' = "sine" /\ produced' = 0 /\ frames_received' = 0 /\ path' = path
    BY StreamTypeFacts DEF choose_source, controllerVars, StreamFlow
  <1>2. StreamTypes'
    <2>1. path' \in BOOLEAN
      BY <1>1, StreamTypeFacts, Zenon
    <2>2. tel' \in TelPcs /\ source' \in Sources
      BY <1>1 DEF TelPcs, Sources
    <2>3. produced' \in FrameNumbers /\ frames_received' \in FrameNumbers
      BY <1>1, StreamTypeFacts, Numbers
    <2> QED
      BY <1>1, <2>1, <2>2, <2>3, StreamTypeFacts, StreamTypesAfter
  <1>3. StreamFlow'
    BY <1>1, StreamTypeFacts DEF StreamFlow
  <1>4. StreamCount'
    <2>1. CASE UNCHANGED <<source, produced, frames_received>>
      BY <1>1, <2>1, CountKept
    <2>2. CASE source' = "sine" /\ produced' = 0 /\ frames_received' = 0
      <3>1. Len(frames') = 0 /\ conn' # "backlog"
        BY <1>1, StreamTypeFacts DEF StreamFlow
      <3>2. (0 + 0) % FrameNos = 0
        BY Numbers, ModSmall
      <3> QED
        BY <2>2, <3>1, <3>2 DEF StreamCount
    <2> QED
      BY <1>1, <2>1, <2>2
  <1> QED
    BY <1>2, <1>3, <1>4 DEF StreamInv

\* accept: the frames the controller has sent already are the first ones.
LEMMA AcceptKeeps ==
    ASSUME StreamInv, accept
    PROVE  StreamInv'
  <1>1. /\ tel = "accept" /\ source = "none" /\ frames = <<>> /\ conn = "backlog"
        /\ conn' = "open" /\ tel' = "call" /\ source' = "socket" /\ frames_received' = 0
        /\ UNCHANGED <<controller, socket, closed, produced, path, frames, acks, delivered>>
    BY StreamTypeFacts DEF accept, StreamFlow
  <1>2. StreamTypes'
    <2>1. tel' \in TelPcs /\ source' \in Sources /\ conn' \in Conns
      BY <1>1 DEF TelPcs, Sources, Conns
    <2>2. frames_received' \in FrameNumbers
      BY <1>1, Numbers
    <2> QED
      BY <1>1, <2>1, <2>2, StreamTypeFacts, StreamTypesAfter
  <1>3. StreamFlow'
    BY <1>1, StreamTypeFacts DEF StreamFlow
  <1>4. StreamCount'
    <2>1. SocketFrom(0) /\ frames_received' + Len(frames') = 0 /\ Len(frames') = 0
      BY <1>1, StreamTypeFacts DEF StreamCount
    <2>2. SocketFrom(0)'
      BY <1>1, <2>1 DEF SocketFrom
    <2> QED
      BY <1>1, <2>1, <2>2 DEF StreamCount
  <1> QED
    BY <1>2, <1>3, <1>4 DEF StreamInv

\* initialize: a new controller starts with an empty socket.
LEMMA InitializeKeeps ==
    ASSUME StreamInv, initialize
    PROVE  StreamInv'
  <1>1. /\ conn = "none" /\ tel = "accept" /\ socket = <<>> /\ source = "none"
        /\ controller' = TRUE /\ conn' = "backlog" /\ produced' = 0
        /\ UNCHANGED <<socket, closed, path, tel, source, frames, acks, frames_received, delivered>>
    BY StreamTypeFacts DEF initialize, agentSideVars, serverSideVars, StreamFlow
  <1>2. StreamTypes'
    <2>1. conn' \in Conns /\ produced' \in FrameNumbers
      BY <1>1, Numbers DEF Conns
    <2>2. controller' \in BOOLEAN
      BY <1>1, Zenon
    <2> QED
      BY <1>1, <2>1, <2>2, StreamTypeFacts, StreamTypesAfter
  <1>3. StreamFlow'
    BY <1>1, StreamTypeFacts DEF StreamFlow
  <1>4. StreamCount'
    <2>1. (0 + 0) % FrameNos = 0 /\ Len(socket') = 0
      BY <1>1, Numbers, ModSmall
    <2>2. SocketFrom(0)'
      BY <1>1, <2>1 DEF SocketFrom
    <2> QED
      BY <1>1, <2>2 DEF StreamCount
  <1> QED
    BY <1>2, <1>3, <1>4 DEF StreamInv

\* shutdown: what was sent can still be read.
LEMMA ShutdownKeeps ==
    ASSUME StreamInv, shutdown
    PROVE  StreamInv'
  <1>1. /\ controller' = FALSE /\ closed' = TRUE
        /\ conn' = (IF conn \in {"backlog", "open"} THEN conn ELSE "none")
        /\ UNCHANGED <<socket, produced, path, tel, source, frames, acks, frames_received, delivered>>
    BY DEF shutdown, agentSideVars, serverSideVars
  <1>2. StreamTypes'
    <2>1. conn' \in Conns
      BY <1>1, StreamTypeFacts DEF Conns
    <2>2. controller' \in BOOLEAN /\ closed' \in BOOLEAN
      BY <1>1, Zenon
    <2> QED
      BY <1>1, <2>1, <2>2, StreamTypeFacts, StreamTypesAfter
  <1>3. StreamFlow'
    BY <1>1, StreamTypeFacts DEF StreamFlow
  <1>4. StreamCount'
    BY <1>1, StreamTypeFacts DEF StreamCount, SocketFrom
  <1> QED
    BY <1>2, <1>3, <1>4 DEF StreamInv

\* read_ends: the length of every frame is accepted, so the reader ends only when the
\* controller has closed an empty socket.
LEMMA ReadEndsKeeps ==
    ASSUME StreamInv, read_ends
    PROVE  StreamInv'
  <1>1. /\ source = "socket" /\ conn = "open" /\ source' = "none"
        /\ conn' = (IF controller THEN "dead" ELSE "none")
        /\ UNCHANGED <<controller, socket, closed, produced, path, tel, frames, acks,
                       frames_received, delivered>>
    BY DEF read_ends, serverSideVars
  <1>2. socket = <<>> /\ ~ controller
    <2>1. ASSUME socket # <<>> PROVE LengthAccepted(Head(socket))
      <3>1. Head(socket) \in RawFrames
        BY <2>1, StreamTypeFacts, QueueTail
      <3>2. PICK n \in FrameNumbers : Head(socket) = RawFrame(n)
        BY <3>1 DEF RawFrames
      <3> QED
        BY <3>2, FrameFacts
    <2> QED
      BY <2>1 DEF read_ends
  <1>3. conn' = "none" /\ closed
    BY <1>1, <1>2, StreamTypeFacts DEF StreamFlow
  <1>4. StreamTypes'
    <2>1. conn' \in Conns /\ source' \in Sources
      BY <1>1, <1>3 DEF Conns, Sources
    <2> QED
      BY <1>1, <2>1, StreamTypeFacts, StreamTypesAfter
  <1>5. StreamFlow'
    BY <1>1, <1>2, <1>3, StreamTypeFacts DEF StreamFlow
  <1>6. StreamCount'
    BY <1>1, <1>3 DEF StreamCount
  <1> QED
    BY <1>4, <1>5, <1>6 DEF StreamInv

\* An error, or the end of the process, empties the stream.
LEMMA ResetKeeps ==
    ASSUME StreamInv, NEW to \in {"sleep", "start"}, tel' = to, source' = "none", frames' = <<>>, socket' = <<>>, acks' = 0,
           conn' \in {"none", "orphan", "dead"}, conn' # "none" => controller,
           UNCHANGED <<controller, closed, produced, path, frames_received, delivered>>
    PROVE  StreamInv'
  <1>1. StreamTypes'
    <2>1. conn' \in Conns /\ source' \in Sources /\ tel' \in TelPcs
      BY DEF Conns, Sources, TelPcs
    <2>2. socket' \in Seq(RawFrames) /\ Len(socket') <= SOCKET_BUFFER
      <3>1. Len(socket') = 0
        OBVIOUS
      <3>2. socket' \in Seq(RawFrames)
        OBVIOUS
      <3> QED
        BY <3>1, <3>2, Numbers
    <2>3. frames' \in Seq(SentFrames) /\ Len(frames') <= FRAME_CHANNEL
      <3>1. Len(frames') = 0
        OBVIOUS
      <3>2. frames' \in Seq(SentFrames)
        OBVIOUS
      <3> QED
        BY <3>1, <3>2, Numbers
    <2>4. acks' \in 0 .. ACK_CHANNEL
      BY Numbers
    <2> QED
      BY <2>1, <2>2, <2>3, <2>4, StreamTypeFacts, StreamTypesAfter
  <1>2. StreamFlow'
    BY DEF StreamFlow
  <1>3. StreamCount'
    BY DEF StreamCount
  <1> QED
    BY <1>1, <1>2, <1>3 DEF StreamInv

\* telemetry_error: the stream, the channel or the listener fails.
LEMMA ErrorKeeps ==
    ASSUME StreamInv, telemetry_error, tel # "accept"
    PROVE  StreamInv'
  <1>1. /\ tel' = "sleep" /\ source' = "none" /\ frames' = <<>> /\ socket' = <<>> /\ acks' = 0
        /\ UNCHANGED <<controller, closed, produced, path, frames_received, delivered>>
        /\ conn' = IF ~ controller THEN "none"
                   ELSE IF conn = "open" THEN (IF socket = <<>> THEN "orphan" ELSE "dead")
                   ELSE conn
    BY DEF telemetry_error
  <1>2. conn \in Conns /\ conn # "backlog"
    BY StreamTypeFacts DEF StreamFlow
  <1>3. conn' \in {"none", "orphan", "dead"} /\ (conn' # "none" => controller)
    BY <1>1, <1>2 DEF Conns
  <1> QED
    BY <1>1, <1>3, ResetKeeps

\* on_physics_step: the controller sends its next frame.
LEMMA PhysicsKeeps ==
    ASSUME StreamInv, on_physics_step
    PROVE  StreamInv'
  <1>0. UNCHANGED <<controller, closed, path, tel, source, frames, acks, frames_received, delivered>>
        /\ controller
    BY DEF on_physics_step, agentSideVars, serverSideVars
  <1>1. CASE conn = "orphan" /\ conn' = "dead" /\ UNCHANGED <<socket, produced>>
    <2>1. conn' \in Conns
      BY <1>1 DEF Conns
    <2>2. StreamTypes'
      BY <1>0, <1>1, <2>1, StreamTypeFacts, StreamTypesAfter
    <2>3. StreamFlow'
      BY <1>0, <1>1, StreamTypeFacts DEF StreamFlow
    <2>4. StreamCount'
      BY <1>0, <1>1, StreamTypeFacts DEF StreamCount, SocketFrom, StreamFlow
    <2> QED
      BY <2>2, <2>3, <2>4 DEF StreamInv
  <1>2. CASE /\ conn \in {"backlog", "open"} /\ Len(socket) < SOCKET_BUFFER
             /\ socket' = Append(socket, RawFrame(produced))
             /\ produced' = Next1(produced)
             /\ conn' = conn
    <2>1. RawFrame(produced) \in RawFrames
      BY StreamTypeFacts DEF RawFrames
    <2>2. /\ socket' \in Seq(RawFrames) /\ Len(socket') = Len(socket) + 1
          /\ \A i \in 1 .. Len(socket) : socket'[i] = socket[i]
          /\ socket'[Len(socket) + 1] = RawFrame(produced)
      BY <1>2, <2>1, StreamTypeFacts, QueueAppend
    <2>3. Len(socket') <= SOCKET_BUFFER
      BY <1>2, <2>2, StreamTypeFacts, Numbers
    <2>4. produced' \in FrameNumbers
      <3>0. produced \in Nat
        BY StreamTypeFacts, Numbers
      <3>1. produced + 1 \in Nat
        BY <3>0
      <3> QED
        BY <1>2, <3>1, Numbers DEF Next1
    <2>5. StreamTypes'
      BY <1>0, <1>2, <2>2, <2>3, <2>4, StreamTypeFacts, StreamTypesAfter
    <2>6. StreamFlow'
      BY <1>0, <1>2, StreamTypeFacts DEF StreamFlow
    <2>7. ASSUME NEW base \in Nat, SocketFrom(base) PROVE SocketFrom(base)'
      <3>1. produced = (base + Len(socket)) % FrameNos /\ Len(socket) \in Nat
        BY <2>7, StreamTypeFacts DEF SocketFrom
      <3>2. produced' = (base + Len(socket')) % FrameNos
        <4>1. base + Len(socket) \in Nat /\ 1 \in Nat /\ FrameNos \in Nat \ {0}
          BY <3>1, Numbers
        <4>2. (((base + Len(socket)) % FrameNos) + 1) % FrameNos = ((base + Len(socket)) + 1) % FrameNos
          BY <4>1, ModPlus
        <4>3. (base + Len(socket)) + 1 = base + Len(socket')
          BY <2>2, <3>1
        <4> QED
          BY <1>2, <3>1, <4>2, <4>3 DEF Next1
      <3>3. ASSUME NEW i \in 1 .. Len(socket')
            PROVE  socket'[i] = RawFrame((base + i - 1) % FrameNos)
        <4>1. CASE i = Len(socket) + 1
          <5>1. base + i - 1 = base + Len(socket)
            BY <3>1, <4>1
          <5> QED
            BY <2>2, <3>1, <4>1, <5>1
        <4>2. CASE i # Len(socket) + 1
          <5>1. i \in 1 .. Len(socket)
            BY <2>2, <3>1, <4>2
          <5> QED
            BY <2>2, <2>7, <5>1 DEF SocketFrom
        <4> QED
          BY <4>1, <4>2
      <3> QED
        BY <3>2, <3>3 DEF SocketFrom
    <2>8. CASE conn = "backlog"
      <3>1. SocketFrom(0)'
        BY <2>7, <2>8, StreamTypeFacts DEF StreamCount
      <3>2. source' = "none"
        BY <1>0, <2>8, StreamTypeFacts DEF StreamFlow
      <3> QED
        BY <1>2, <2>5, <2>6, <2>8, <3>1, <3>2 DEF StreamInv, StreamCount
    <2>9. CASE conn = "open"
      <3> DEFINE base == frames_received + Len(frames)
      <3>1. base \in Nat /\ source = "socket"
        <4>1. frames_received \in Nat /\ Len(frames) \in Nat
          BY StreamTypeFacts, Numbers
        <4>2. source = "socket"
          BY <2>9, StreamTypeFacts DEF StreamFlow
        <4> QED
          BY <4>1, <4>2
      <3>2. SocketFrom(base)
        BY <3>1, StreamTypeFacts DEF StreamCount
      <3>3. \A b \in Nat : SocketFrom(b) => SocketFrom(b)'
        BY <2>7
      <3>4. PICK b \in Nat : b = base
        BY <3>1
      <3>5. SocketFrom(b)'
        BY <3>2, <3>3, <3>4
      <3>6. produced' = (base + Len(socket')) % FrameNos
            /\ \A i \in 1 .. Len(socket') : socket'[i] = RawFrame((base + i - 1) % FrameNos)
        BY <3>4, <3>5 DEF SocketFrom
      <3>7. StreamCount'
        BY <1>0, <1>2, <2>9, <3>1, <3>6, StreamTypeFacts DEF StreamCount, SocketFrom
      <3> QED
        BY <2>5, <2>6, <3>7 DEF StreamInv
    <2> QED
      BY <1>2, <2>8, <2>9
  <1> QED
    BY <1>1, <1>2 DEF on_physics_step, RawFrame, Positions, Torques

\* send_sine: the next frame of the sine wave.
LEMMA SineKeeps ==
    ASSUME StreamInv, send_sine
    PROVE  StreamInv'
  <1>1. /\ source = "sine" /\ Len(frames) < FRAME_CHANNEL
        /\ frames' = Append(frames, SineFrame(produced)) /\ produced' = Next1(produced)
        /\ UNCHANGED <<controller, conn, socket, closed, path, tel, source, acks,
                       frames_received, delivered>>
    BY DEF send_sine, controllerVars, agentSideVars, serverSideVars
  <1>2. SineFrame(produced) \in SentFrames
    BY StreamTypeFacts DEF SentFrames
  <1>3. /\ frames' \in Seq(SentFrames) /\ Len(frames') = Len(frames) + 1 /\ Len(frames) \in Nat
        /\ \A i \in 1 .. Len(frames) : frames'[i] = frames[i]
        /\ frames'[Len(frames) + 1] = SineFrame(produced)
    BY <1>1, <1>2, StreamTypeFacts, QueueAppend
  <1>4. frames_received \in Nat /\ produced \in Nat
    BY StreamTypeFacts, Numbers
  <1>5. StreamTypes'
    <2>1. Len(frames') <= FRAME_CHANNEL
      BY <1>1, <1>3, Numbers
    <2>2. produced' \in FrameNumbers
      <3>1. produced + 1 \in Nat
        BY <1>4
      <3> QED
        BY <1>1, <3>1, Numbers DEF Next1
    <2> QED
      BY <1>1, <1>3, <2>1, <2>2, StreamTypeFacts, StreamTypesAfter
  <1>6. StreamFlow'
    <2>1. tel \in {"call", "stream"}
      BY <1>1, StreamTypeFacts DEF StreamFlow
    <2> QED
      BY <1>1, <2>1, StreamTypeFacts DEF StreamFlow
  <1>7. StreamCount'
    <2> DEFINE l == Len(frames)
    <2>1. /\ produced = (frames_received + l) % FrameNos
          /\ \A i \in 1 .. l : frames[i] = SineFrame((frames_received + i - 1) % FrameNos)
      BY <1>1, StreamTypeFacts DEF StreamCount
    <2>2. produced' = (frames_received' + Len(frames')) % FrameNos
      <3>1. frames_received + l \in Nat /\ 1 \in Nat /\ FrameNos \in Nat \ {0}
        BY <1>3, <1>4, Numbers
      <3>2. (((frames_received + l) % FrameNos) + 1) % FrameNos
               = ((frames_received + l) + 1) % FrameNos
        BY <3>1, ModPlus
      <3>3. (frames_received + l) + 1 = frames_received' + Len(frames')
        BY <1>1, <1>3, <1>4
      <3> QED
        BY <1>1, <2>1, <3>2, <3>3 DEF Next1
    <2>3. ASSUME NEW i \in 1 .. Len(frames')
          PROVE  frames'[i] = SineFrame((frames_received' + i - 1) % FrameNos)
      <3>1. CASE i = l + 1
        <4>1. frames_received' + i - 1 = frames_received + l
          BY <1>1, <1>3, <1>4, <3>1
        <4> QED
          BY <1>3, <2>1, <3>1, <4>1
      <3>2. CASE i # l + 1
        <4>1. i \in 1 .. l
          BY <1>3, <3>2
        <4> QED
          BY <1>1, <1>3, <2>1, <4>1
      <3> QED
        BY <3>1, <3>2
    <2>4. conn' # "backlog" /\ source' = "sine"
      BY <1>1, StreamTypeFacts DEF StreamFlow
    <2> QED
      BY <2>2, <2>3, <2>4 DEF StreamCount
  <1> QED
    BY <1>5, <1>6, <1>7 DEF StreamInv

\* read_frame: the reader passes the frame at the head of the socket on.
LEMMA ReadKeeps ==
    ASSUME StreamInv, read_frame
    PROVE  StreamInv'
  <1> DEFINE f == parse_frame(Payload(Head(socket)))
             l == Len(frames)
             m == Len(socket)
  <1>1. /\ source = "socket" /\ socket # <<>> /\ l < FRAME_CHANNEL
        /\ socket' = Tail(socket)
        /\ frames' = (IF f = NoFrame THEN frames ELSE Append(frames, f))
        /\ UNCHANGED <<controller, conn, closed, produced, path, tel, source, acks,
                       frames_received, delivered>>
    BY DEF read_frame, agentSideVars, serverSideVars
  <1>2. frames_received \in Nat /\ l \in Nat /\ m \in Nat /\ FrameNos \in Nat \ {0}
    BY StreamTypeFacts, Numbers
  <1>3. /\ produced = (frames_received + l + m) % FrameNos
        /\ \A i \in 1 .. m : socket[i] = RawFrame((frames_received + l + i - 1) % FrameNos)
        /\ \A i \in 1 .. l : frames[i] = SocketFrame((frames_received + i - 1) % FrameNos)
    BY <1>1, StreamTypeFacts DEF StreamCount, SocketFrom
  <1>4. /\ Head(socket) = socket[1] /\ m \in Nat \ {0}
        /\ socket' \in Seq(RawFrames) /\ Len(socket') = m - 1
        /\ \A i \in 1 .. m - 1 : socket'[i] = socket[i + 1]
    BY <1>1, StreamTypeFacts, QueueTail
  <1> DEFINE k == (frames_received + l) % FrameNos
  <1>5. k \in FrameNumbers /\ Head(socket) = RawFrame(k)
    <2>1. frames_received + l + 1 - 1 = frames_received + l /\ frames_received + l \in Nat
      BY <1>2
    <2>2. 1 \in 1 .. m
      BY <1>4
    <2>3. Head(socket) = RawFrame(k)
      BY <1>3, <1>4, <2>1, <2>2
    <2>4. k \in FrameNumbers
      BY <2>1, Numbers
    <2> QED
      BY <2>3, <2>4
  <1> HIDE DEF k
  <1>6. f = SocketFrame(k) /\ f # NoFrame /\ f \in SentFrames
    <2>1. f = SocketFrame(k) /\ SocketFrame(k) # NoFrame
      BY <1>5, FrameFacts
    <2>2. SocketFrame(k) \in SentFrames
      BY <1>5 DEF SentFrames
    <2> HIDE DEF f
    <2> QED
      BY <2>1, <2>2
  <1> HIDE DEF f
  <1>7. /\ frames' \in Seq(SentFrames) /\ Len(frames') = l + 1
        /\ \A i \in 1 .. l : frames'[i] = frames[i]
        /\ frames'[l + 1] = SocketFrame(k)
    <2>1. frames' = Append(frames, f) /\ frames \in Seq(SentFrames)
      BY <1>1, <1>6, StreamTypeFacts
    <2> QED
      BY <1>6, <2>1, QueueAppend
  <1>8. StreamTypes'
    <2>1. Len(frames') <= FRAME_CHANNEL
      <3>1. FRAME_CHANNEL \in Nat
        BY Numbers
      <3> QED
        BY <1>1, <1>2, <1>7, <3>1
    <2>2. Len(socket') <= SOCKET_BUFFER
      <3>1. m <= SOCKET_BUFFER /\ SOCKET_BUFFER \in Nat
        BY StreamTypeFacts, Numbers
      <3> QED
        BY <1>2, <1>4, <3>1
    <2> QED
      BY <1>1, <1>4, <1>7, <2>1, <2>2, StreamTypeFacts, StreamTypesAfter
  <1>9. StreamFlow'
    <2>1. tel \in {"call", "stream"} /\ conn = "open"
      BY <1>1, StreamTypeFacts DEF StreamFlow
    <2> QED
      BY <1>1, <2>1, StreamTypeFacts DEF StreamFlow
  <1>10. produced' = (frames_received' + Len(frames') + Len(socket')) % FrameNos
    <2>1. frames_received' + Len(frames') + Len(socket') = frames_received + l + m
      BY <1>1, <1>2, <1>4, <1>7
    <2> QED
      BY <1>1, <1>3, <2>1
  <1>11. ASSUME NEW i \in 1 .. Len(socket')
         PROVE  socket'[i] = RawFrame((frames_received' + Len(frames') + i - 1) % FrameNos)
    <2>1. i \in 1 .. m - 1 /\ i + 1 \in 1 .. m
      BY <1>4
    <2>2. frames_received' + Len(frames') + i - 1 = frames_received + l + (i + 1) - 1
      BY <1>1, <1>2, <1>7
    <2> QED
      BY <1>3, <1>4, <2>1, <2>2
  <1>12. ASSUME NEW i \in 1 .. Len(frames')
         PROVE  frames'[i] = SocketFrame((frames_received' + i - 1) % FrameNos)
    <2>1. CASE i = l + 1
      <3>1. frames_received' + i - 1 = frames_received + l
        BY <1>1, <1>2, <2>1
      <3> QED
        BY <1>7, <2>1, <3>1 DEF k
    <2>2. CASE i # l + 1
      <3>1. i \in 1 .. l
        BY <1>2, <1>7, <2>2
      <3> QED
        BY <1>1, <1>3, <1>7, <3>1
    <2> QED
      BY <2>1, <2>2
  <1>13. conn' # "backlog" /\ source' = "socket"
    BY <1>1, StreamTypeFacts DEF StreamFlow
  <1>14. StreamCount'
    BY <1>10, <1>11, <1>12, <1>13 DEF StreamCount, SocketFrom
  <1> QED
    BY <1>8, <1>9, <1>14 DEF StreamInv

\* A frame that is counted moves every number behind it by one.
LEMMA CountMoves ==
    ASSUME NEW r \in FrameNumbers, NEW b \in Nat
    PROVE  (Next1(r) + b) % FrameNos = (r + (b + 1)) % FrameNos
  <1>1. r \in Nat /\ FrameNos \in Nat \ {0} /\ r + 1 \in Nat
    BY Numbers
  <1>2. (((r + 1) % FrameNos) + b) % FrameNos = ((r + 1) + b) % FrameNos
    BY <1>1, ModPlus
  <1>3. (r + 1) + b = r + (b + 1)
    BY <1>1
  <1> QED
    BY <1>2, <1>3 DEF Next1

\* handle_frame: the service counts the frame at the head of the channel.
LEMMA HandleKeeps ==
    ASSUME StreamInv, handle_frame
    PROVE  StreamInv'
  <1> DEFINE r == frames_received
             l == Len(frames)
             m == Len(socket)
  <1>1. /\ tel = "stream" /\ frames # <<>> /\ acks < ACK_CHANNEL
        /\ frames' = Tail(frames) /\ frames_received' = Next1(r)
        /\ delivered' = Head(frames) /\ acks' = acks + 1
        /\ UNCHANGED <<controller, conn, socket, closed, produced, path, tel, source>>
    BY DEF handle_frame, controllerVars, agentSideVars
  <1>2. r \in FrameNumbers /\ r \in Nat /\ l \in Nat /\ m \in Nat /\ FrameNos \in Nat \ {0}
    BY StreamTypeFacts, Numbers
  <1>3. /\ Head(frames) \in SentFrames /\ l \in Nat \ {0}
        /\ frames' \in Seq(SentFrames) /\ Len(frames') = l - 1
        /\ \A i \in 1 .. l - 1 : frames'[i] = frames[i + 1]
    BY <1>1, StreamTypeFacts, QueueTail
  <1>4. frames_received' \in FrameNumbers /\ frames_received' \in Nat
    <2>1. r + 1 \in Nat
      BY <1>2
    <2> QED
      BY <1>1, <2>1, Numbers DEF Next1
  <1>5. StreamTypes'
    <2>1. Len(frames') <= FRAME_CHANNEL
      <3>1. l <= FRAME_CHANNEL /\ FRAME_CHANNEL \in Nat
        BY StreamTypeFacts, Numbers
      <3> QED
        BY <1>2, <1>3, <3>1
    <2>2. acks' \in 0 .. ACK_CHANNEL
      <3>1. acks \in 0 .. ACK_CHANNEL /\ ACK_CHANNEL \in Nat
        BY StreamTypeFacts, Numbers
      <3> QED
        BY <1>1, <3>1
    <2>3. delivered' \in SentFrames \cup {NoFrame}
      BY <1>1, <1>3
    <2> QED
      BY <1>1, <1>3, <1>4, <2>1, <2>2, <2>3, StreamTypeFacts, StreamTypesAfter
  <1>6. StreamFlow'
    BY <1>1, StreamTypeFacts DEF StreamFlow
  <1>7. ASSUME NEW b \in Nat
        PROVE  (frames_received' + b) % FrameNos = (r + (b + 1)) % FrameNos
    BY <1>1, <1>2, CountMoves
  <1>8. ASSUME NEW i \in 1 .. Len(frames')
        PROVE  /\ i + 1 \in 1 .. l /\ frames'[i] = frames[i + 1]
               /\ (frames_received' + i - 1) % FrameNos = (r + (i + 1) - 1) % FrameNos
    <2>1. i + 1 \in 1 .. l /\ i \in 1 .. l - 1 /\ i - 1 \in Nat
      BY <1>2, <1>3
    <2>2. /\ frames_received' + i - 1 = frames_received' + (i - 1)
          /\ r + (i + 1) - 1 = r + ((i - 1) + 1)
      BY <1>2, <1>4
    <2>3. (frames_received' + (i - 1)) % FrameNos = (r + ((i - 1) + 1)) % FrameNos
      BY <1>7, <2>1
    <2> QED
      BY <1>3, <2>1, <2>2, <2>3
  <1>9. CASE source = "socket"
    <2>1. /\ produced = (r + l + m) % FrameNos
          /\ \A i \in 1 .. m : socket[i] = RawFrame((r + l + i - 1) % FrameNos)
          /\ \A i \in 1 .. l : frames[i] = SocketFrame((r + i - 1) % FrameNos)
      BY <1>9, StreamTypeFacts DEF StreamCount, SocketFrom
    <2>2. produced' = (frames_received' + Len(frames') + Len(socket')) % FrameNos
      <3>1. (l - 1) + m \in Nat
        BY <1>2, <1>3
      <3>2. (frames_received' + ((l - 1) + m)) % FrameNos = (r + (((l - 1) + m) + 1)) % FrameNos
        BY <1>7, <3>1
      <3>3. /\ frames_received' + ((l - 1) + m) = frames_received' + Len(frames') + Len(socket')
            /\ r + (((l - 1) + m) + 1) = r + l + m
        BY <1>1, <1>2, <1>3, <1>4
      <3> QED
        BY <1>1, <2>1, <3>2, <3>3
    <2>3. ASSUME NEW i \in 1 .. Len(socket')
          PROVE  socket'[i] = RawFrame((frames_received' + Len(frames') + i - 1) % FrameNos)
      <3>1. (l - 1) + (i - 1) \in Nat /\ i \in 1 .. m
        BY <1>1, <1>2, <1>3
      <3>2. (frames_received' + ((l - 1) + (i - 1))) % FrameNos
              = (r + (((l - 1) + (i - 1)) + 1)) % FrameNos
        BY <1>7, <3>1
      <3>3. /\ frames_received' + ((l - 1) + (i - 1)) = frames_received' + Len(frames') + i - 1
            /\ r + (((l - 1) + (i - 1)) + 1) = r + l + i - 1
        BY <1>2, <1>3, <1>4
      <3> QED
        BY <1>1, <2>1, <3>1, <3>2, <3>3
    <2>4. \A i \in 1 .. Len(frames') :
             frames'[i] = SocketFrame((frames_received' + i - 1) % FrameNos)
      BY <1>8, <2>1
    <2>5. conn' # "backlog" /\ source' = "socket"
      BY <1>1, <1>9, StreamTypeFacts DEF StreamFlow
    <2>6. StreamCount'
      BY <2>2, <2>3, <2>4, <2>5 DEF StreamCount, SocketFrom
    <2> QED
      BY <1>5, <1>6, <2>6 DEF StreamInv
  <1>10. CASE source = "sine"
    <2>1. /\ produced = (r + l) % FrameNos
          /\ \A i \in 1 .. l : frames[i] = SineFrame((r + i - 1) % FrameNos)
      BY <1>10, StreamTypeFacts DEF StreamCount
    <2>2. produced' = (frames_received' + Len(frames')) % FrameNos
      <3>1. l - 1 \in Nat /\ (l - 1) + 1 = l
        BY <1>2, <1>3
      <3>2. (frames_received' + (l - 1)) % FrameNos = (r + ((l - 1) + 1)) % FrameNos
        BY <1>7, <3>1
      <3> QED
        BY <1>1, <1>3, <2>1, <3>1, <3>2
    <2>3. \A i \in 1 .. Len(frames') :
             frames'[i] = SineFrame((frames_received' + i - 1) % FrameNos)
      BY <1>8, <2>1
    <2>4. conn' # "backlog" /\ source' = "sine"
      BY <1>1, <1>10, StreamTypeFacts DEF StreamFlow
    <2>5. StreamCount'
      BY <2>2, <2>3, <2>4 DEF StreamCount
    <2> QED
      BY <1>5, <1>6, <2>5 DEF StreamInv
  <1>11. CASE source = "none"
    <2>1. conn' # "backlog" /\ source' = "none"
      BY <1>1, <1>11, StreamTypeFacts DEF StreamFlow
    <2>2. StreamCount'
      BY <2>1 DEF StreamCount
    <2> QED
      BY <1>5, <1>6, <2>2 DEF StreamInv
  <1>12. source \in Sources
    BY StreamTypeFacts
  <1> QED
    BY <1>9, <1>10, <1>11, <1>12 DEF Sources

\* Every step of the telemetry tasks keeps the invariant, and what is closed stays so.
LEMMA TelemetryKeeps ==
    ASSUME StreamInv,
           \/ choose_source \/ bind \/ accept \/ receive_ack \/ telemetry_ends \/ telemetry_wake
           \/ stream_telemetry \/ read_frame \/ read_ends \/ send_sine \/ handle_frame
           \/ initialize \/ on_physics_step \/ shutdown
    PROVE  StreamInv' /\ (closed => closed')
  <1>1. StreamInv'
    BY QuietKeeps, ChooseKeeps, AcceptKeeps, InitializeKeeps, ShutdownKeeps, ReadEndsKeeps,
       PhysicsKeeps, SineKeeps, ReadKeeps, HandleKeeps
  <1>2. closed => closed'
    BY DEF choose_source, bind, accept, receive_ack, telemetry_ends, telemetry_wake,
           stream_telemetry, read_frame, read_ends, send_sine, handle_frame,
           initialize, on_physics_step, shutdown, controllerVars
  <1> QED
    BY <1>1, <1>2

\* So does a step that leaves the telemetry stream alone.
LEMMA TelemetryStutters ==
    ASSUME StreamInv, UNCHANGED telemetryVars
    PROVE  StreamInv' /\ closed' = closed
  <1>1. UNCHANGED <<controller, conn, socket, closed, produced, path, tel, source, frames, acks,
                    frames_received, delivered>>
    BY DEF telemetryVars, controllerVars, agentSideVars, serverSideVars
  <1>2. StreamTypes'
    BY <1>1, StreamTypeFacts, StreamTypesAfter
  <1>3. StreamFlow'
    BY <1>1, StreamTypeFacts DEF StreamFlow
  <1>4. StreamCount'
    BY <1>1, CountKept
  <1> QED
    BY <1>1, <1>2, <1>3, <1>4 DEF StreamInv

-----------------------------------------------------------------------------
(* The steps of the heartbeat                                              *)

Replies == {"ok", "not_found"}

\* The types of the heartbeat stream are kept by every step of it.
LEMMA HeartbeatKeeps ==
    ASSUME HeartbeatTypeOK,
           \/ stream_heartbeat \/ heartbeat_error \/ heartbeat_wake \/ receive_response
           \/ send_heartbeat \/ (\E res \in {"Ok", "NotFound", "Db"} : handle_touch(res))
           \/ handle_reply \/ UNCHANGED heartbeatVars
    PROVE  HeartbeatTypeOK'
  <1>1. /\ known \in BOOLEAN /\ lastSeen \in 0 .. 1 /\ hb \in {"connect", "stream", "sleep"}
        /\ requests \in 0 .. HB_REQUESTS /\ handler \in {"none", "next", "ok", "not_found"}
        /\ responses \in Seq(Replies) /\ Len(responses) <= HB_RESPONSES
    BY DEF HeartbeatTypeOK, Replies
  <1>2. Len(responses) \in Nat /\ HB_REQUESTS \in Nat /\ HB_RESPONSES \in Nat
    BY <1>1, HeartbeatAssumption
  <1>3. known' = known
    BY DEF stream_heartbeat, heartbeat_error, heartbeat_wake, receive_response, send_heartbeat,
           handle_touch, handle_reply, heartbeatVars
  <1>4. known' \in BOOLEAN
    BY <1>1, <1>3
  <1>5. hb' \in {"connect", "stream", "sleep"}
    BY <1>1 DEF stream_heartbeat, heartbeat_error, heartbeat_wake, receive_response,
                send_heartbeat, handle_touch, handle_reply, heartbeatVars
  <1>6. handler' \in {"none", "next", "ok", "not_found"}
    BY <1>1 DEF stream_heartbeat, heartbeat_error, heartbeat_wake, receive_response,
                send_heartbeat, handle_touch, handle_reply, heartbeatVars
  <1>7. lastSeen' \in 0 .. 1
    <2>1. lastSeen' = lastSeen \/ lastSeen' = 1 - lastSeen
      BY DEF stream_heartbeat, heartbeat_error, heartbeat_wake, receive_response, send_heartbeat,
             handle_touch, touch_last_seen, handle_reply, heartbeatVars
    <2> QED
      BY <1>1, <2>1
  <1>8. requests' \in 0 .. HB_REQUESTS
    <2>1. \/ requests' = requests \/ requests' = 0
          \/ requests' = requests + 1 /\ requests < HB_REQUESTS
          \/ requests' = requests - 1 /\ requests > 0
      BY DEF stream_heartbeat, heartbeat_error, heartbeat_wake, receive_response, send_heartbeat,
             handle_touch, handle_reply, heartbeatVars
    <2> QED
      BY <1>1, <1>2, <2>1
  <1>9. responses' \in Seq(Replies) /\ Len(responses') <= HB_RESPONSES
    <2>1. \/ responses' = responses \/ responses' = <<>>
          \/ responses' = Tail(responses) /\ responses # <<>>
          \/ responses' = Append(responses, handler) /\ handler \in Replies /\ Len(responses) < HB_RESPONSES
      BY DEF stream_heartbeat, heartbeat_error, heartbeat_wake, receive_response, send_heartbeat,
             handle_touch, handle_reply, heartbeatVars, Replies
    <2>2. CASE responses' = responses
      BY <1>1, <2>2
    <2>3. CASE responses' = <<>>
      <3>1. Len(responses') = 0 /\ responses' \in Seq(Replies)
        BY <2>3
      <3> QED
        BY <1>2, <3>1
    <2>4. CASE responses' = Tail(responses) /\ responses # <<>>
      <3>1. Len(Tail(responses)) = Len(responses) - 1 /\ Tail(responses) \in Seq(Replies)
        BY <1>1, <2>4, QueueTail
      <3> QED
        BY <1>1, <1>2, <2>4, <3>1
    <2>5. CASE responses' = Append(responses, handler) /\ handler \in Replies /\ Len(responses) < HB_RESPONSES
      <3>1. /\ Len(Append(responses, handler)) = Len(responses) + 1
            /\ Append(responses, handler) \in Seq(Replies)
        BY <1>1, <2>5, QueueAppend
      <3> QED
        BY <1>2, <2>5, <3>1
    <2> QED
      BY <2>1, <2>2, <2>3, <2>4, <2>5
  <1> QED
    BY <1>4, <1>5, <1>6, <1>7, <1>8, <1>9 DEF HeartbeatTypeOK, Replies

\* A handler returns only after it has queued a refusal, which is the last reply the
\* agent reads.
LEMMA HeartbeatInvKeeps ==
    ASSUME HeartbeatInv,
           \/ stream_heartbeat \/ heartbeat_error \/ heartbeat_wake \/ receive_response
           \/ send_heartbeat \/ (\E res \in {"Ok", "NotFound", "Db"} : handle_touch(res))
           \/ handle_reply \/ UNCHANGED heartbeatVars
    PROVE  HeartbeatInv'
  <1>1. HeartbeatTypeOK /\ RefusalLeft
    BY DEF HeartbeatInv
  <1>2. HeartbeatTypeOK'
    BY <1>1, HeartbeatKeeps
  <1>3. responses \in Seq(Replies) /\ handler \in {"none", "next", "ok", "not_found"}
    BY <1>1 DEF HeartbeatTypeOK, Replies
  <1>4. RefusalLeft'
    <2>1. CASE stream_heartbeat \/ heartbeat_error \/ heartbeat_wake
      BY <2>1 DEF stream_heartbeat, heartbeat_error, heartbeat_wake, RefusalLeft
    <2>2. CASE send_heartbeat \/ UNCHANGED heartbeatVars
      <3>1. UNCHANGED <<hb, handler, responses>>
        BY <2>2 DEF send_heartbeat, heartbeatVars
      <3> QED
        BY <1>1, <3>1 DEF RefusalLeft
    <2>3. CASE \E res \in {"Ok", "NotFound", "Db"} : handle_touch(res)
      BY <2>3 DEF handle_touch, RefusalLeft
    <2>4. CASE handle_reply
      <3>1. /\ handler \in Replies /\ responses' = Append(responses, handler)
            /\ handler' = (IF handler = "ok" THEN "next" ELSE "none")
        BY <2>4 DEF handle_reply, Replies
      <3>2. /\ Append(responses, handler) # <<>>
            /\ Append(responses, handler)[Len(Append(responses, handler))] = handler
        BY <1>3, <3>1
      <3> QED
        BY <3>1, <3>2 DEF RefusalLeft, Replies
    <2>5. CASE receive_response
      <3>1. responses # <<>>
        BY <2>5 DEF receive_response
      <3>2. CASE Head(responses) = "not_found"
        <4>1. heartbeat_error
          BY <2>5, <3>2 DEF receive_response
        <4> QED
          BY <4>1 DEF heartbeat_error, RefusalLeft
      <3>3. CASE Head(responses) # "not_found"
        <4>1. /\ responses' = Tail(responses) /\ UNCHANGED <<hb, handler>>
          BY <2>5, <3>3 DEF receive_response
        <4>2. SUFFICES ASSUME hb = "stream", handler = "none"
                       PROVE  responses' # <<>> /\ responses'[Len(responses')] = "not_found"
          BY <4>1 DEF RefusalLeft
        <4>3. responses[Len(responses)] = "not_found"
          BY <1>1, <4>2 DEF RefusalLeft
        <4>4. PICK n \in Nat : Len(responses) = n
          BY <1>3
        <4>5. n # 0 /\ Head(responses) = responses[1]
          BY <1>3, <3>1, <4>4
        <4>6. n # 1
          BY <3>3, <4>3, <4>4, <4>5
        <4>7. n - 1 \in Nat \ {0} /\ n - 1 \in 1 .. n - 1 /\ (n - 1) + 1 = n
          BY <4>5, <4>6
        <4>8. /\ Len(Tail(responses)) = n - 1
              /\ \A i \in 1 .. n - 1 : Tail(responses)[i] = responses[i + 1]
          BY <1>3, <3>1, <4>4
        <4>9. Tail(responses)[n - 1] = "not_found"
          BY <4>3, <4>4, <4>7, <4>8
        <4>10. Tail(responses) # <<>>
          <5>1. Len(<<>>) = 0
            OBVIOUS
          <5> QED
            BY <4>7, <4>8, <5>1
        <4> QED
          BY <4>1, <4>8, <4>9, <4>10
      <3> QED
        BY <3>2, <3>3
    <2> QED
      BY <2>1, <2>2, <2>3, <2>4, <2>5
  <1> QED
    BY <1>2, <1>4 DEF HeartbeatInv

-----------------------------------------------------------------------------
(* The agent and the service                                               *)

\* The first state satisfies the invariant.
LEMMA OperationInitOK == OperationInit => OperationInv
  <1> SUFFICES ASSUME OperationInit PROVE OperationInv
    OBVIOUS
  <1>1. HeartbeatInv
    <2>1. responses = <<>> /\ requests = 0 /\ lastSeen = 0 /\ known \in BOOLEAN
          /\ hb = "connect" /\ handler = "none"
      BY DEF OperationInit, HeartbeatInit
    <2>2. Len(responses) = 0 /\ responses \in Seq({"ok", "not_found"})
      BY <2>1
    <2>3. HeartbeatTypeOK
      BY <2>1, <2>2, HeartbeatAssumption DEF HeartbeatTypeOK
    <2> QED
      BY <2>1, <2>3 DEF HeartbeatInv, RefusalLeft
  <1>2. /\ path \in BOOLEAN /\ controller = FALSE /\ conn = "none" /\ socket = <<>> /\ closed = FALSE
        /\ produced = 0 /\ tel = "start" /\ source = "none" /\ frames = <<>>
        /\ acks = 0 /\ frames_received = 0 /\ delivered = NoFrame
    BY DEF OperationInit, TelemetryInit
  <1>3. socket \in Seq(RawFrames) /\ Len(socket) = 0 /\ frames \in Seq(SentFrames) /\ Len(frames) = 0
    BY <1>2
  <1>4. {path, controller, closed} \subseteq BOOLEAN
    BY <1>2, Zenon
  <1>5. {produced, frames_received} \subseteq 0 .. FrameNos - 1
    BY <1>2, Numbers DEF FrameNumbers
  <1>6. TelemetryTypeOK
    BY <1>2, <1>3, <1>4, <1>5, Numbers DEF TelemetryTypeOK, TelPcs
  <1>7. StreamTypes
    BY <1>2, <1>3, <1>6 DEF StreamTypes
  <1>8. StreamFlow /\ StreamCount
    BY <1>2 DEF StreamFlow, StreamCount
  <1>9. fleetUp \in BOOLEAN /\ agent = "running" /\ faults \in 0 .. MaxFaults
    BY MaxFaultsAssumption DEF OperationInit
  <1> QED
    BY <1>1, <1>6, <1>7, <1>8, <1>9 DEF OperationInv, OperationTypeOK, StreamInv, HeartbeatInv

\* The parts of the invariant.
LEMMA OperationFacts ==
    ASSUME OperationInv
    PROVE  /\ HeartbeatInv /\ StreamInv /\ (agent = "exited" => closed)
           /\ fleetUp \in BOOLEAN /\ agent \in {"running", "stopped", "exited"}
           /\ faults \in 0 .. MaxFaults
  BY DEF OperationInv, OperationTypeOK, HeartbeatInv

\* And back, after a step.
LEMMA OperationAfter ==
    ASSUME HeartbeatInv', StreamInv', (agent = "exited" => closed)',
           fleetUp' \in BOOLEAN, agent' \in {"running", "stopped", "exited"},
           faults' \in 0 .. MaxFaults
    PROVE  OperationInv'
  BY DEF OperationInv, OperationTypeOK, StreamInv, StreamTypes, HeartbeatInv

\* A step of a task leaves the processes alone.
LEMMA TaskKeeps ==
    ASSUME OperationInv, HeartbeatInv', StreamInv', closed => closed', UNCHANGED processVars
    PROVE  OperationInv'
  <1>1. fleetUp' = fleetUp /\ agent' = agent /\ faults' = faults
    BY DEF processVars
  <1> QED
    BY <1>1, OperationFacts, OperationAfter

\* A fault is counted.
LEMMA FaultCounted ==
    ASSUME OperationInv, Fault
    PROVE  faults' \in 0 .. MaxFaults
  <1>1. faults \in 0 .. MaxFaults
    BY OperationFacts
  <1> QED
    BY <1>1, MaxFaultsAssumption DEF Fault

\* All streams fail together.
LEMMA StreamsFailKeeps ==
    ASSUME OperationInv, StreamsFail
    PROVE  HeartbeatInv' /\ StreamInv' /\ (closed => closed')
  <1>1. HeartbeatInv'
    BY OperationFacts, HeartbeatInvKeeps DEF StreamsFail
  <1>2. CASE tel = "stream"
    <2>1. telemetry_error /\ tel # "accept"
      BY <1>2 DEF StreamsFail
    <2>2. closed' = closed
      BY <2>1 DEF telemetry_error
    <2> QED
      BY <1>1, <2>1, <2>2, OperationFacts, ErrorKeeps
  <1>3. CASE tel # "stream"
    <2>1. UNCHANGED telemetryVars
      BY <1>3 DEF StreamsFail
    <2> QED
      BY <1>1, <2>1, OperationFacts, TelemetryStutters
  <1> QED
    BY <1>2, <1>3

\* The process ends, and with it all its tasks.
LEMMA ProcessEndsKeeps ==
    ASSUME OperationInv, NEW how \in {"stopped", "exited"}, ProcessEnds(how),
           how = "exited" => closed
    PROVE  OperationInv'
  <1>1. /\ agent' = how /\ hb' = "connect" /\ requests' = 0 /\ handler' = "none" /\ responses' = <<>>
        /\ tel' = "start" /\ source' = "none" /\ frames' = <<>> /\ socket' = <<>> /\ acks' = 0
        /\ conn' = (IF controller THEN "dead" ELSE "none")
        /\ UNCHANGED <<known, lastSeen, path, controller, closed, produced, frames_received,
                       delivered, fleetUp, faults>>
    BY DEF ProcessEnds
  <1>2. StreamInv'
    <2>1. conn' \in {"none", "orphan", "dead"} /\ (conn' # "none" => controller)
      BY <1>1
    <2> QED
      BY <1>1, <2>1, OperationFacts, ResetKeeps
  <1>3. HeartbeatInv'
    <2>1. Len(responses') = 0 /\ responses' \in Seq({"ok", "not_found"})
      BY <1>1
    <2>2. known \in BOOLEAN /\ lastSeen \in 0 .. 1
      BY OperationFacts DEF HeartbeatInv, HeartbeatTypeOK
    <2>3. HeartbeatTypeOK'
      BY <1>1, <2>1, <2>2, HeartbeatAssumption DEF HeartbeatTypeOK
    <2> QED
      BY <1>1, <2>3 DEF HeartbeatInv, RefusalLeft
  <1>4. (agent = "exited" => closed)'
    BY <1>1
  <1>5. fleetUp' \in BOOLEAN /\ agent' \in {"running", "stopped", "exited"} /\ faults' \in 0 .. MaxFaults
    BY <1>1, OperationFacts
  <1> QED
    BY <1>2, <1>3, <1>4, <1>5, OperationAfter

\* Every step keeps the invariant.
LEMMA OperationStep == OperationInv /\ [OperationNext]_operationVars => OperationInv'
  <1> SUFFICES ASSUME OperationInv, [OperationNext]_operationVars PROVE OperationInv'
    OBVIOUS
  <1>0. /\ HeartbeatInv /\ StreamInv /\ (agent = "exited" => closed)
        /\ fleetUp \in BOOLEAN /\ agent \in {"running", "stopped", "exited"}
        /\ faults \in 0 .. MaxFaults
    BY OperationFacts
  <1>1. CASE HeartbeatTask \/ HeartbeatSender \/ HeartbeatHandler
    <2>1. UNCHANGED telemetryVars /\ UNCHANGED processVars
      BY <1>1 DEF HeartbeatTask, HeartbeatSender, HeartbeatHandler
    <2>2. HeartbeatInv'
      BY <1>0, <1>1, HeartbeatInvKeeps DEF HeartbeatTask, HeartbeatSender, HeartbeatHandler
    <2>3. StreamInv' /\ closed' = closed
      BY <1>0, <2>1, TelemetryStutters
    <2> QED
      BY <2>1, <2>2, <2>3, TaskKeeps
  <1>2. CASE TelemetryTask
    <2>1. UNCHANGED heartbeatVars /\ UNCHANGED processVars
      BY <1>2 DEF TelemetryTask
    <2>2. StreamInv' /\ (closed => closed')
      <3>1. CASE tel = "call" /\ telemetry_error
        <4>1. closed' = closed
          BY <3>1 DEF telemetry_error
        <4> QED
          BY <1>0, <3>1, <4>1, ErrorKeeps
      <3>2. CASE \/ choose_source \/ bind \/ accept \/ receive_ack \/ telemetry_ends
                 \/ telemetry_wake \/ stream_telemetry
        BY <1>0, <3>2, TelemetryKeeps
      <3> QED
        BY <1>2, <3>1, <3>2 DEF TelemetryTask
    <2>3. HeartbeatInv'
      BY <1>0, <2>1, HeartbeatInvKeeps
    <2> QED
      BY <2>1, <2>2, <2>3, TaskKeeps
  <1>3. CASE FrameTask \/ FrameHandler \/ ControllerStarts \/ ControllerStep \/ ControllerCloses
    <2>1. UNCHANGED heartbeatVars /\ UNCHANGED processVars
      BY <1>3 DEF FrameTask, FrameHandler, ControllerStarts, ControllerStep, ControllerCloses
    <2>2. StreamInv' /\ (closed => closed')
      BY <1>0, <1>3, TelemetryKeeps
         DEF FrameTask, FrameHandler, ControllerStarts, ControllerStep, ControllerCloses
    <2>3. HeartbeatInv'
      BY <1>0, <2>1, HeartbeatInvKeeps
    <2> QED
      BY <2>1, <2>2, <2>3, TaskKeeps
  <1>4. CASE ConnectionBreaks \/ ServerCrash
    <2>1. StreamsFail /\ Fault /\ agent' = agent /\ (fleetUp' = fleetUp \/ fleetUp' = FALSE)
      BY <1>4 DEF ConnectionBreaks, ServerCrash
    <2>2. HeartbeatInv' /\ StreamInv' /\ (closed => closed')
      BY <2>1, StreamsFailKeeps
    <2>3. faults' \in 0 .. MaxFaults
      BY <2>1, FaultCounted
    <2>4. fleetUp' \in BOOLEAN
      BY <1>0, <2>1
    <2> QED
      BY <1>0, <2>1, <2>2, <2>3, <2>4, OperationAfter
  <1>5. CASE ServerStart
    <2>1. /\ UNCHANGED heartbeatVars /\ UNCHANGED telemetryVars
          /\ fleetUp' = TRUE /\ agent' = agent /\ faults' = faults
      BY <1>5 DEF ServerStart
    <2>2. HeartbeatInv' /\ StreamInv' /\ closed' = closed
      BY <1>0, <2>1, HeartbeatInvKeeps, TelemetryStutters
    <2> QED
      BY <1>0, <2>1, <2>2, OperationAfter
  <1>6. CASE TouchFails
    <2>1. /\ Fault /\ handle_touch("Db") /\ UNCHANGED telemetryVars
          /\ fleetUp' = fleetUp /\ agent' = agent
      BY <1>6 DEF TouchFails
    <2>2. HeartbeatInv' /\ StreamInv' /\ closed' = closed
      BY <1>0, <2>1, HeartbeatInvKeeps, TelemetryStutters
    <2>3. faults' \in 0 .. MaxFaults
      BY <2>1, FaultCounted
    <2> QED
      BY <1>0, <2>1, <2>2, <2>3, OperationAfter
  <1>7. CASE BindFails
    <2>1. /\ Fault /\ telemetry_error /\ tel # "accept" /\ UNCHANGED heartbeatVars
          /\ fleetUp' = fleetUp /\ agent' = agent
      BY <1>7 DEF BindFails
    <2>2. closed' = closed
      BY <2>1 DEF telemetry_error
    <2>3. HeartbeatInv' /\ StreamInv'
      BY <1>0, <2>1, HeartbeatInvKeeps, ErrorKeeps
    <2>4. faults' \in 0 .. MaxFaults
      BY <2>1, FaultCounted
    <2> QED
      BY <1>0, <2>1, <2>2, <2>3, <2>4, OperationAfter
  <1>8. CASE AgentExits
    <2>1. tel = "returned" /\ ProcessEnds("exited")
      BY <1>0, <1>8 DEF AgentExits, heartbeat_ends, HeartbeatInv, RefusalLeft
    <2>2. closed
      BY <1>0, <2>1, StreamTypeFacts DEF StreamFlow
    <2> QED
      BY <2>1, <2>2, ProcessEndsKeeps
  <1>9. CASE CtrlC
    BY <1>9, ProcessEndsKeeps DEF CtrlC
  <1>10. CASE UNCHANGED operationVars
    <2>1. UNCHANGED heartbeatVars /\ UNCHANGED telemetryVars /\ UNCHANGED processVars
      BY <1>10 DEF operationVars, processVars
    <2>2. HeartbeatInv' /\ StreamInv' /\ closed' = closed
      BY <1>0, <2>1, HeartbeatInvKeeps, TelemetryStutters
    <2> QED
      BY <2>1, <2>2, TaskKeeps
  <1> QED
    BY <1>1, <1>2, <1>3, <1>4, <1>5, <1>6, <1>7, <1>8, <1>9, <1>10 DEF OperationNext

\* The invariant holds in every behaviour.
LEMMA OperationInvariant == OperationSpec => []OperationInv
  BY OperationInitOK, OperationStep, PTL DEF OperationSpec

-----------------------------------------------------------------------------
(* The theorems                                                            *)

\* The state has its types: no queue of either stream grows over its channel, however
\* the tasks are scheduled (the channels of heartbeat.rs and telemetry.rs).
THEOREM OperationTypeCorrect == OperationSpec => []OperationTypeOK
  <1>1. OperationInv => OperationTypeOK
    BY DEF OperationInv
  <1> QED
    BY <1>1, OperationInvariant, PTL

\* No failure of the service, of its database or of the network ends the agent
\* (telemetry::run and heartbeat::run in robot-agent, select! in its main).
THEOREM OnlyControllersEndAgents == OperationSpec => []ExitsOnlyAfterController
  <1>1. OperationInv => ExitsOnlyAfterController
    BY DEF OperationInv, ExitsOnlyAfterController
  <1> QED
    BY <1>1, OperationInvariant, PTL

\* The time stamp of a frame is its number.
LEMMA StampIsNumber ==
    ASSUME NEW n \in FrameNumbers, NEW f \in {SocketFrame(n), SineFrame(n)}
    PROVE  f.recorded_at.seconds * NS_PER_SEC + f.recorded_at.nanos = n
  <1>1. f.recorded_at = [seconds |-> n \div NS_PER_SEC, nanos |-> n % NS_PER_SEC]
    BY DEF SocketFrame, SineFrame, Reading
  <1>2. f.recorded_at.seconds = n \div NS_PER_SEC /\ f.recorded_at.nanos = n % NS_PER_SEC
    BY <1>1
  <1>3. n \in Nat
    BY Numbers
  <1>4. (n \div NS_PER_SEC) * NS_PER_SEC + (n % NS_PER_SEC) = n
    BY <1>3, WordAssumption, DivMod
  <1> QED
    BY <1>2, <1>4

\* While a stream is up, no frame is lost, repeated or overtaken between the simulator
\* and the service, for channels and sockets of any size (the reader task and the
\* sine wave in robot-agent/src/telemetry.rs, the service's handler).
THEOREM FramesAreAccounted == OperationSpec => []FramesAccounted
  <1>1. ASSUME OperationInv PROVE FramesAccounted
    <2> SUFFICES ASSUME source # "none" PROVE FramesAccounted
      BY DEF FramesAccounted
    <2>1. StreamInv
      BY <1>1, OperationFacts
    <2>2. frames_received \in Nat /\ Len(frames) \in Nat /\ Len(socket) \in Nat /\ source \in Sources
      BY <2>1, StreamTypeFacts, Numbers
    <2>3. produced = (frames_received + Len(frames) + Len(socket)) % FrameNos
      <3>1. CASE source = "socket"
        BY <2>1, <3>1, StreamTypeFacts DEF StreamCount, SocketFrom
      <3>2. CASE source = "sine"
        <4>1. tel \in {"call", "stream"}
          BY <2>1, <3>2, StreamTypeFacts DEF StreamFlow
        <4>2. socket = <<>>
          BY <2>1, <3>2, <4>1, StreamTypeFacts DEF StreamFlow
        <4>3. Len(socket) = 0
          BY <4>2
        <4>4. frames_received + Len(frames) + Len(socket) = frames_received + Len(frames)
          BY <2>2, <4>3
        <4>5. produced = (frames_received + Len(frames)) % FrameNos
          BY <2>1, <3>2, StreamTypeFacts DEF StreamCount
        <4> QED
          BY <4>4, <4>5
      <3> QED
        BY <2>2, <3>1, <3>2 DEF Sources
    <2>4. ASSUME NEW i \in 1 .. Len(frames)
          PROVE  frames[i].recorded_at.seconds * NS_PER_SEC + frames[i].recorded_at.nanos
                   = (frames_received + i - 1) % FrameNos
      <3> DEFINE k == (frames_received + i - 1) % FrameNos
      <3>1. frames_received + i - 1 \in Nat
        BY <2>2
      <3>2. k \in FrameNumbers
        BY <3>1, Numbers
      <3>3. frames[i] \in {SocketFrame(k), SineFrame(k)}
        BY <2>1, <2>2, StreamTypeFacts DEF StreamCount, Sources
      <3> HIDE DEF k
      <3>4. frames[i].recorded_at.seconds * NS_PER_SEC + frames[i].recorded_at.nanos = k
        BY <3>2, <3>3, StampIsNumber
      <3> QED
        BY <3>4 DEF k
    <2> QED
      BY <2>3, <2>4 DEF FramesAccounted
  <1> QED
    BY <1>1, OperationInvariant, PTL

\* What the service gets is what the simulator read, for any number of joints: every
\* joint with its own position and torque, and the time of the reading (_encode_frame,
\* parse_frame, the service's handler).
THEOREM DeliveredIsRead == OperationSpec => []DeliveredAsRead
  <1>1. ASSUME OperationInv PROVE DeliveredAsRead
    <2> SUFFICES ASSUME delivered # NoFrame PROVE DeliveredAsRead
      BY DEF DeliveredAsRead
    <2>1. delivered \in SentFrames
      BY <1>1, OperationFacts, StreamTypeFacts
    <2>2. PICK n \in FrameNumbers : delivered \in {SocketFrame(n), SineFrame(n)}
      BY <2>1 DEF SentFrames
    <2>3. delivered.recorded_at.seconds * NS_PER_SEC + delivered.recorded_at.nanos = n
      BY <2>2, StampIsNumber
    <2>4. CASE delivered = SineFrame(n)
      BY <2>3, <2>4 DEF DeliveredAsRead
    <2>5. CASE delivered = SocketFrame(n)
      <3>1. n \in Nat
        BY Numbers
      <3>2. Len(Positions(n)) = JointCount
        BY <3>1, ReadingsAreSequences
      <3>3. delivered.joints =
              [i \in 1 .. JointCount |->
                 [name |-> IF i <= Len(JOINT_NAMES) THEN JOINT_NAMES[i] ELSE "unknown",
                  position_rad |-> Positions(n)[i], torque_nm |-> Torques(n)[i]]]
        BY <2>5, <3>2 DEF SocketFrame, Reading
      <3> DEFINE joints == delivered.joints
      <3>4. Len(joints) = JointCount
        <4>1. JointCount \in Nat /\ DOMAIN joints = 1 .. JointCount
          BY <3>3, Numbers
        <4> QED
          BY <3>3, <4>1
      <3>5. ASSUME NEW i \in 1 .. JointCount
            PROVE  /\ joints[i].position_rad = Position(n, i)
                   /\ joints[i].torque_nm = Torque(n, i)
                   /\ joints[i].name = IF i = JointCount THEN "unknown" ELSE JOINT_NAMES[i]
        <4>1. joints[i] = [name |-> IF i <= Len(JOINT_NAMES) THEN JOINT_NAMES[i] ELSE "unknown",
                           position_rad |-> Positions(n)[i], torque_nm |-> Torques(n)[i]]
          BY <3>3
        <4>2. Positions(n)[i] = Position(n, i) /\ Torques(n)[i] = Torque(n, i)
          BY <3>1, ReadingsAreSequences
        <4>3. i <= Len(JOINT_NAMES) <=> i # JointCount
          <5>1. Len(JOINT_NAMES) \in Nat
            BY Numbers
          <5> QED
            BY <5>1 DEF JointCount
        <4> QED
          BY <4>1, <4>2, <4>3
      <3> HIDE DEF joints
      <3>6. Len(delivered.joints) = JointCount /\
            \A i \in 1 .. JointCount :
              /\ delivered.joints[i].position_rad = Position(n, i)
              /\ delivered.joints[i].torque_nm = Torque(n, i)
              /\ delivered.joints[i].name = IF i = JointCount THEN "unknown" ELSE JOINT_NAMES[i]
        BY <3>4, <3>5 DEF joints
      <3> QED
        BY <2>3, <3>6 DEF DeliveredAsRead
    <2> QED
      BY <2>2, <2>4, <2>5
  <1> QED
    BY <1>1, OperationInvariant, PTL

=============================================================================
