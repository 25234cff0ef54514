---------------------------- MODULE PagingProofs -----------------------------
(***************************************************************************)
(* Proofs about Paging, for every number of devices and jobs, every page   *)
(* size, and whatever is written between two pages.                        *)
(***************************************************************************)
EXTENDS Paging, FiniteSetTheorems, WellFoundedInduction, TLAPS

-----------------------------------------------------------------------------
(* The inductive invariant                                                 *)

AnyStatus == Statuses \cup {Nil, "active"}
Scans == [pc : {"idle", "next", "done"}, filter : Statuses \cup {Nil}, cursor : Nat \cup {Nil}]

PagingTypes ==
    /\ table \in {"devices", "jobs"}
    /\ devices \in [DeviceIds -> AnyStatus]
    /\ jobs \in [JobIds -> Job \cup {Nil}]
    /\ clock \in 0 .. MaxClock
    /\ scan \in Scans

\* Nothing has been returned before the first page.
FirstPage ==
    /\ scan.pc = "idle" => scan.cursor = Nil
    /\ scan.pc # "done" /\ scan.cursor = Nil => returned = <<>>

\* What ListDevices has returned lies up to the cursor, and every device due up to
\* there has been returned.
DeviceScanInv ==
    /\ returned \in Seq(DeviceIds)
    /\ IsInjective(returned)
    /\ due \subseteq {d \in DeviceIds : Matches(d, scan.filter)}
    /\ scan.pc = "next" /\ scan.cursor # Nil =>
          /\ \A d \in ToSet(returned) : d <= scan.cursor
          /\ \A d \in due : d <= scan.cursor => d \in ToSet(returned)
    /\ scan.pc = "done" => due \subseteq ToSet(returned)

\* What ListUpdateJobs has returned is of the cursor's second or later, and every job
\* due that is later has been returned, or a page ended in its second.
JobScanInv ==
    /\ returned \in Seq(JobIds)
    /\ IsInjective(returned)
    /\ due \subseteq ExistingJobs
    /\ scan.pc = "next" /\ scan.cursor # Nil =>
          /\ \A j \in ToSet(returned) : jobs[j] # Nil /\ jobs[j].created_at >= scan.cursor
          /\ \A j \in due \ ToSet(returned) :
                jobs[j].created_at \in cursors \/ jobs[j].created_at < scan.cursor
    /\ scan.pc = "done" => \A j \in due \ ToSet(returned) : jobs[j].created_at \in cursors

PagingInv ==
    /\ PagingTypes
    /\ FirstPage
    /\ table = "devices" => DeviceScanInv
    /\ table = "jobs" => JobScanInv

-----------------------------------------------------------------------------
(* Sequences of rows                                                       *)

Shorter(n, m) == IF n < m THEN n ELSE m

\* t are the first k elements of s, and of S.
Begins(t, s, k, S) ==
    /\ k \in Nat /\ t \in [1 .. k -> S] /\ t \in Seq(S) /\ Len(t) = k
    /\ \A i \in 1 .. k : t[i] = s[i]

\* The first rows of an answer.
LEMMA PrefixFacts ==
    ASSUME NEW S, NEW n \in Nat, NEW s \in [1 .. n -> S], NEW m \in Nat
    PROVE  Begins(Prefix(s, m), s, Shorter(n, m), S)
  <1> DEFINE k == Shorter(n, m)
  <1>1. k \in Nat /\ k <= n
    BY DEF Shorter
  <1>2. s \in Seq(S) /\ Len(s) = n
    OBVIOUS
  <1>3. Prefix(s, m) = SubSeq(s, 1, k)
    BY <1>2 DEF Prefix, Shorter
  <1> HIDE DEF k
  <1>4. SubSeq(s, 1, k) \in Seq(S)
    BY <1>1, <1>2
  <1>5. Len(SubSeq(s, 1, k)) = k
    BY <1>1, <1>2
  <1>6. \A i \in 1 .. k : SubSeq(s, 1, k)[i] = s[i]
    BY <1>1, <1>2
  <1>7. SubSeq(s, 1, k) \in [1 .. k -> S]
    <2> DEFINE t == SubSeq(s, 1, k)
    <2>1. t \in Seq(S) /\ Len(t) = k
      BY <1>4, <1>5
    <2> HIDE DEF t
    <2>2. t \in [1 .. k -> S]
      BY <2>1
    <2> QED
      BY <2>2 DEF t
  <1> QED
    BY <1>1, <1>3, <1>4, <1>5, <1>6, <1>7 DEF Begins, k

\* A page, and the row fetched in addition to see whether there is another page.
LEMMA PageFacts ==
    ASSUME NEW S, NEW n \in Nat, NEW s \in [1 .. n -> S]
    PROVE  /\ Prefix(s, Limit) \in Seq(S)
           /\ Len(s) = n
           /\ n <= Limit => /\ DOMAIN Prefix(s, Limit) = 1 .. n
                            /\ \A i \in 1 .. n : Prefix(s, Limit)[i] = s[i]
           /\ n > Limit => /\ DOMAIN Prefix(s, Limit) = 1 .. Limit
                           /\ \A i \in 1 .. Limit : Prefix(s, Limit)[i] = s[i]
           /\ Len(Prefix(s, Limit + 1)) > Limit <=> n > Limit
           /\ n > Limit => Prefix(s, Limit + 1)[Limit] = s[Limit]
           /\ Prefix(Prefix(s, Limit + 1), Limit) = Prefix(s, Limit)
  <1>0. Limit \in Nat \ {0} /\ Limit \in Nat /\ Limit + 1 \in Nat
    BY PagingAssumption
  <1> DEFINE k == Shorter(n, Limit)
             l == Shorter(n, Limit + 1)
  <1>1. k = IF n < Limit THEN n ELSE Limit
    BY DEF Shorter
  <1>2. l = IF n < Limit + 1 THEN n ELSE Limit + 1
    BY DEF Shorter
  <1>3. /\ k \in Nat /\ Prefix(s, Limit) \in Seq(S)
        /\ Prefix(s, Limit) \in [1 .. k -> S] /\ Len(Prefix(s, Limit)) = k
        /\ \A i \in 1 .. k : Prefix(s, Limit)[i] = s[i]
    <2>1. Begins(Prefix(s, Limit), s, k, S)
      BY <1>0, PrefixFacts
    <2> QED
      BY <2>1 DEF Begins
  <1>4. /\ l \in Nat /\ Prefix(s, Limit + 1) \in [1 .. l -> S] /\ Len(Prefix(s, Limit + 1)) = l
        /\ \A i \in 1 .. l : Prefix(s, Limit + 1)[i] = s[i]
    <2>1. Begins(Prefix(s, Limit + 1), s, l, S)
      BY <1>0, PrefixFacts
    <2> QED
      BY <2>1 DEF Begins
  <1> DEFINE t == Prefix(s, Limit + 1)
  <1> HIDE DEF t, k, l
  <1>5. t \in [1 .. l -> S] /\ \A i \in 1 .. l : t[i] = s[i]
    BY <1>4 DEF t
  <1>6. k = IF l < Limit THEN l ELSE Limit
    BY <1>0, <1>1, <1>2
  <1>7. /\ Prefix(t, Limit) \in [1 .. k -> S]
        /\ \A i \in 1 .. k : Prefix(t, Limit)[i] = t[i]
    <2>1. Begins(Prefix(t, Limit), t, Shorter(l, Limit), S)
      BY <1>0, <1>4, <1>5, PrefixFacts
    <2>2. Shorter(l, Limit) = k
      BY <1>6 DEF Shorter
    <2> QED
      BY <2>1, <2>2 DEF Begins
  <1>8. Prefix(t, Limit) = Prefix(s, Limit)
    <2>1. k <= l
      BY <1>0, <1>4, <1>6
    <2>2. \A i \in 1 .. k : Prefix(t, Limit)[i] = Prefix(s, Limit)[i]
      BY <1>3, <1>4, <1>5, <1>7, <2>1
    <2> QED
      BY <1>3, <1>7, <2>2
  <1>9. l > Limit <=> n > Limit
    BY <1>0, <1>2
  <1>10. n > Limit => Prefix(s, Limit + 1)[Limit] = s[Limit]
    <2>1. n > Limit => Limit \in 1 .. l
      BY <1>0, <1>2
    <2> QED
      BY <1>4, <2>1
  <1>11. /\ n <= Limit => k = n
         /\ n > Limit => k = Limit
    BY <1>0, <1>1
  <1>12. Len(s) = n
    OBVIOUS
  <1> QED
    BY <1>3, <1>4, <1>8, <1>9, <1>10, <1>11, <1>12 DEF t

\* A page is added to what was returned before.
LEMMA Joined ==
    ASSUME NEW A, NEW r \in Seq(A), NEW p \in Seq(A), IsInjective(r), IsInjective(p),
           \A x \in ToSet(p) : x \notin ToSet(r)
    PROVE  /\ r \o p \in Seq(A) /\ IsInjective(r \o p)
           /\ ToSet(r \o p) = ToSet(r) \cup ToSet(p)
  <1> DEFINE m == Len(r)
             k == Len(p)
             q == r \o p
  <1>1. /\ m \in Nat /\ k \in Nat /\ q \in Seq(A) /\ Len(q) = m + k
        /\ DOMAIN r = 1 .. m /\ DOMAIN p = 1 .. k /\ DOMAIN q = 1 .. m + k
    <2>1. m \in Nat /\ k \in Nat /\ q \in Seq(A)
      OBVIOUS
    <2>2. Len(q) = m + k
      OBVIOUS
    <2> QED
      BY <2>1, <2>2
  <1>2. \A i \in 1 .. m : q[i] = r[i]
    BY <1>1
  <1>3. \A i \in 1 .. k : q[m + i] = p[i]
    BY <1>1
  <1> HIDE DEF q
  <1>4. ASSUME NEW i \in 1 .. m + k
        PROVE  \/ i \in 1 .. m /\ q[i] = r[i]
               \/ i - m \in 1 .. k /\ q[i] = p[i - m] /\ ~ (i \in 1 .. m)
    <2>1. CASE i <= m
      BY <1>1, <1>2, <2>1
    <2>2. CASE ~ (i <= m)
      <3>1. i - m \in 1 .. k /\ m + (i - m) = i
        BY <1>1, <2>2
      <3> QED
        BY <1>1, <1>3, <2>2, <3>1
    <2> QED
      BY <2>1, <2>2
  <1> HIDE DEF m, k
  <1>5. /\ \A i \in 1 .. m : r[i] \in ToSet(r)
        /\ \A i \in 1 .. k : p[i] \in ToSet(p)
    BY <1>1 DEF ToSet
  <1>6. IsInjective(q)
    <2>1. SUFFICES ASSUME NEW i \in 1 .. m + k, NEW j \in 1 .. m + k, q[i] = q[j] PROVE i = j
      BY <1>1 DEF IsInjective
    <2>2. CASE i \in 1 .. m /\ j \in 1 .. m
      BY <1>1, <1>2, <2>1, <2>2 DEF IsInjective
    <2>3. CASE ~ (i \in 1 .. m) /\ ~ (j \in 1 .. m)
      <3>1. i - m \in 1 .. k /\ j - m \in 1 .. k /\ p[i - m] = p[j - m]
        BY <1>4, <2>1, <2>3
      <3>2. i - m = j - m
        BY <1>1, <3>1 DEF IsInjective
      <3> QED
        BY <1>1, <3>2
    <2>4. CASE i \in 1 .. m /\ ~ (j \in 1 .. m)
      BY <1>4, <1>5, <2>1, <2>4
    <2>5. CASE ~ (i \in 1 .. m) /\ j \in 1 .. m
      BY <1>4, <1>5, <2>1, <2>5
    <2> QED
      BY <2>2, <2>3, <2>4, <2>5
  <1>7. ASSUME NEW x \in ToSet(q) PROVE x \in ToSet(r) \cup ToSet(p)
    <2>1. PICK i \in 1 .. m + k : q[i] = x
      BY <1>1 DEF ToSet
    <2> QED
      BY <1>4, <1>5, <2>1
  <1>8. ASSUME NEW x \in ToSet(r) PROVE x \in ToSet(q)
    <2>1. PICK i \in 1 .. m : r[i] = x
      BY <1>1 DEF ToSet
    <2>2. i \in 1 .. m + k
      BY <1>1
    <2> QED
      BY <1>1, <1>2, <2>1, <2>2 DEF ToSet
  <1>9. ASSUME NEW x \in ToSet(p) PROVE x \in ToSet(q)
    <2>1. PICK i \in 1 .. k : p[i] = x
      BY <1>1 DEF ToSet
    <2>2. m + i \in 1 .. m + k
      BY <1>1
    <2> QED
      BY <1>1, <1>3, <2>1, <2>2 DEF ToSet
  <1> QED
    BY <1>1, <1>6, <1>7, <1>8, <1>9 DEF q

-----------------------------------------------------------------------------
(* Answers in order                                                        *)

\* s lists the elements of S, each once.
Lists(s, S) ==
    /\ s \in [1 .. Cardinality(S) -> S]
    /\ \A i, j \in 1 .. Cardinality(S) : i # j => s[i] # s[j]
    /\ \A x \in S : \E i \in 1 .. Cardinality(S) : s[i] = x

Rank(S, d) == Cardinality({e \in S : e < d})
InOrder(S) == [i \in 1 .. Cardinality(S) |-> CHOOSE d \in S : Rank(S, d) = i - 1]

\* ORDER BY id: the number of smaller ids is the place of an id.
LEMMA InOrderFacts ==
    ASSUME NEW S \in SUBSET Nat, IsFiniteSet(S)
    PROVE  /\ Lists(InOrder(S), S)
           /\ \A i, j \in 1 .. Cardinality(S) : i < j => InOrder(S)[i] < InOrder(S)[j]
  <1> DEFINE n == Cardinality(S)
             s == InOrder(S)
  <1>1. n \in Nat
    BY FS_CardinalityType
  <1>2. ASSUME NEW d \in S
        PROVE  /\ IsFiniteSet({e \in S : e < d}) /\ Rank(S, d) \in Nat
    <2>1. IsFiniteSet({e \in S : e < d})
      BY FS_Subset
    <2> QED
      BY <2>1, FS_CardinalityType DEF Rank
  <1>3. ASSUME NEW d \in S PROVE Rank(S, d) \in 0 .. n - 1
    <2>1. IsFiniteSet(S \ {d}) /\ Cardinality(S \ {d}) = n - 1
      BY FS_RemoveElement
    <2>2. {e \in S : e < d} \in SUBSET (S \ {d})
      OBVIOUS
    <2>3. Rank(S, d) <= n - 1
      BY <2>1, <2>2, FS_Subset DEF Rank
    <2>4. Rank(S, d) \in Nat
      BY <1>2
    <2> HIDE DEF n
    <2> QED
      BY <1>1, <2>3, <2>4
  <1>4. ASSUME NEW a \in S, NEW b \in S, a < b PROVE Rank(S, a) < Rank(S, b)
    <2> DEFINE B == {e \in S : e < b}
               A == {e \in S : e < a}
    <2>1. a \in B /\ IsFiniteSet(B) /\ Cardinality(B) = Rank(S, b)
      <3>1. IsFiniteSet(B)
        BY <1>2
      <3> QED
        BY <1>4, <3>1 DEF Rank
    <2>2. A \in SUBSET (B \ {a})
      <3>1. ASSUME NEW e \in A PROVE e \in B \ {a}
        <4>1. a \in Nat /\ b \in Nat /\ e \in Nat /\ e \in S /\ e < a
          OBVIOUS
        <4>2. e < b /\ e # a
          BY <1>4, <4>1
        <4> QED
          BY <4>1, <4>2
      <3> HIDE DEF A, B
      <3> QED
        BY <3>1
    <2>3. Cardinality(A) = Rank(S, a)
      BY DEF Rank
    <2> HIDE DEF A, B
    <2>4. IsFiniteSet(B \ {a}) /\ Cardinality(B \ {a}) = Rank(S, b) - 1
      <3>1. IsFiniteSet(B \ {a}) /\ Cardinality(B \ {a}) = Cardinality(B) - 1
        BY <2>1, FS_RemoveElement
      <3> QED
        BY <2>1, <3>1
    <2>5. Rank(S, a) <= Rank(S, b) - 1
      BY <2>2, <2>3, <2>4, FS_Subset
    <2>6. Rank(S, a) \in Nat /\ Rank(S, b) \in Nat
      BY <1>2
    <2> QED
      BY <2>5, <2>6
  <1>5. ASSUME NEW a \in S, NEW b \in S, Rank(S, a) = Rank(S, b) PROVE a = b
    <2>1. a < b \/ b < a \/ a = b
      OBVIOUS
    <2>2. Rank(S, a) \in Nat
      BY <1>2
    <2>3. ~ (a < b)
      <3>1. a < b => Rank(S, a) < Rank(S, b)
        BY <1>4
      <3> QED
        BY <1>5, <2>2, <3>1
    <2>4. ~ (b < a)
      <3>1. b < a => Rank(S, b) < Rank(S, a)
        BY <1>4
      <3> QED
        BY <1>5, <2>2, <3>1
    <2> QED
      BY <2>1, <2>3, <2>4
  <1>6. ASSUME NEW i \in 1 .. n PROVE \E d \in S : Rank(S, d) = i - 1
    <2> DEFINE r == [d \in S |-> Rank(S, d)]
    <2>1. r \in Injection(S, 0 .. n - 1)
      BY <1>3, <1>5 DEF Injection, IsInjective
    <2>2. IsFiniteSet(0 .. n - 1) /\ Cardinality(0 .. n - 1) = n
      <3> HIDE DEF n
      <3>1. 0 \in Int /\ n - 1 \in Int
        BY <1>1
      <3>2. /\ IsFiniteSet(0 .. n - 1)
            /\ Cardinality(0 .. n - 1) = IF 0 > n - 1 THEN 0 ELSE (n - 1) - 0 + 1
        BY <3>1, FS_Interval
      <3> QED
        BY <1>1, <3>2
    <2>3. r \in Surjection(S, 0 .. n - 1)
      BY <2>1, <2>2, FS_Injection
    <2>4. i - 1 \in 0 .. n - 1
      BY <1>1
    <2> QED
      BY <2>3, <2>4 DEF Surjection
  <1>7. ASSUME NEW i \in 1 .. n PROVE s[i] \in S /\ Rank(S, s[i]) = i - 1
    <2>1. s[i] = CHOOSE d \in S : Rank(S, d) = i - 1
      BY DEF InOrder
    <2> QED
      BY <1>6, <2>1
  <1>8. s \in [1 .. n -> S]
    <2>1. DOMAIN s = 1 .. n /\ s = [i \in 1 .. n |-> s[i]]
      BY DEF InOrder
    <2> HIDE DEF s
    <2> QED
      BY <1>7, <2>1
  <1> HIDE DEF s
  <1>9. ASSUME NEW i \in 1 .. n, NEW j \in 1 .. n, i < j PROVE s[i] < s[j]
    <2>1. Rank(S, s[i]) = i - 1 /\ Rank(S, s[j]) = j - 1 /\ s[i] \in S /\ s[j] \in S
      BY <1>7
    <2>2. s[i] < s[j] \/ s[j] < s[i] \/ s[i] = s[j]
      <3>1. s[i] \in Nat /\ s[j] \in Nat
        BY <2>1
      <3> QED
        BY <3>1
    <2>3. s[i] # s[j]
      BY <1>9, <2>1
    <2>4. ~ (s[j] < s[i])
      <3>1. s[j] < s[i] => Rank(S, s[j]) < Rank(S, s[i])
        BY <1>4, <2>1
      <3> QED
        BY <1>9, <2>1, <3>1
    <2> QED
      BY <2>2, <2>3, <2>4
  <1>10. ASSUME NEW i \in 1 .. n, NEW j \in 1 .. n, i # j PROVE s[i] # s[j]
    <2>1. i - 1 # j - 1
      BY <1>10
    <2> QED
      BY <1>7, <2>1
  <1>11. ASSUME NEW x \in S PROVE \E i \in 1 .. n : s[i] = x
    <2>1. Rank(S, x) + 1 \in 1 .. n /\ (Rank(S, x) + 1) - 1 = Rank(S, x)
      BY <1>1, <1>3
    <2>2. s[Rank(S, x) + 1] = x
      BY <1>5, <1>7, <2>1
    <2> QED
      BY <2>1, <2>2
  <1> QED
    BY <1>8, <1>9, <1>10, <1>11 DEF Lists, s

\* A non-empty set of natural numbers has a least element.
LEMMA LeastNumber ==
    ASSUME NEW T \in SUBSET Nat, T # {}
    PROVE  \E x \in T : \A y \in T : x <= y
  <1>1. PICK x \in T : \A y \in T : ~ (<<y, x>> \in OpToRel(<, Nat))
    BY WFMin, NatLessThanWellFounded
  <1>2. \A y \in T : ~ (y < x)
    BY <1>1 DEF OpToRel
  <1> QED
    BY <1>2

\* Numbers none of which is followed by a larger one only go down.
LEMMA Descends ==
    ASSUME NEW n \in Nat, NEW f \in [1 .. n -> Nat], \A i \in 1 .. n - 1 : f[i] >= f[i + 1],
           NEW i \in 1 .. n, NEW j \in 1 .. n, i <= j
    PROVE  f[i] >= f[j]
  <1> DEFINE Bad == {k \in 1 .. n : i <= k /\ ~ (f[i] >= f[k])}
  <1>1. SUFFICES ASSUME Bad # {} PROVE FALSE
    BY <1>1
  <1>2. PICK k \in Bad : \A l \in Bad : k <= l
    <2>1. Bad \in SUBSET Nat
      OBVIOUS
    <2> QED
      BY <1>1, <2>1, LeastNumber
  <1>3. k # i
    BY <1>2
  <1>4. k - 1 \in 1 .. n - 1 /\ k - 1 \in 1 .. n /\ i <= k - 1 /\ k - 1 \notin Bad
    BY <1>2, <1>3
  <1>5. f[i] >= f[k - 1]
    BY <1>4
  <1>6. f[k - 1] >= f[(k - 1) + 1] /\ (k - 1) + 1 = k
    BY <1>2, <1>4
  <1>7. f[i] \in Nat /\ f[k] \in Nat /\ f[k - 1] \in Nat
    BY <1>2, <1>4
  <1> QED
    BY <1>2, <1>5, <1>6, <1>7

-----------------------------------------------------------------------------
(* Pages                                                                   *)

\* A page of an answer: its rows are the first of the answer, and the rows it leaves
\* out come after them.
LEMMA PageOfAnswer ==
    ASSUME NEW S, IsFiniteSet(S), NEW s, Lists(s, S)
    PROVE  /\ Prefix(s, Limit) \in Seq(S) /\ IsInjective(Prefix(s, Limit))
           /\ ToSet(Prefix(s, Limit)) \subseteq S
           /\ Cardinality(S) <= Limit => S \subseteq ToSet(Prefix(s, Limit))
           /\ Cardinality(S) > Limit =>
                 /\ Limit \in 1 .. Cardinality(S) /\ s[Limit] \in S
                 /\ \A x \in ToSet(Prefix(s, Limit)) : \E i \in 1 .. Limit : s[i] = x
                 /\ \A x \in S \ ToSet(Prefix(s, Limit)) :
                       \E i \in 1 .. Cardinality(S) : i > Limit /\ s[i] = x
  <1> DEFINE n == Cardinality(S)
             t == Prefix(s, Limit)
  <1>0. Limit \in Nat \ {0}
    BY PagingAssumption
  <1>1. n \in Nat
    BY FS_CardinalityType
  <1>2. /\ s \in [1 .. n -> S]
        /\ \A i, j \in 1 .. n : i # j => s[i] # s[j]
        /\ \A x \in S : \E i \in 1 .. n : s[i] = x
    BY DEF Lists
  <1> HIDE DEF n
  <1>3. /\ t \in Seq(S)
        /\ n <= Limit => DOMAIN t = 1 .. n /\ \A i \in 1 .. n : t[i] = s[i]
        /\ n > Limit => DOMAIN t = 1 .. Limit /\ \A i \in 1 .. Limit : t[i] = s[i]
    BY <1>1, <1>2, PageFacts
  <1> HIDE DEF t
  <1>4. IsInjective(t) /\ \A i \in DOMAIN t : t[i] = s[i] /\ i \in 1 .. n
    BY <1>0, <1>1, <1>2, <1>3 DEF IsInjective
  <1>5. ToSet(t) \subseteq S
    BY <1>2, <1>4 DEF ToSet
  <1>6. ASSUME n <= Limit, NEW x \in S PROVE x \in ToSet(t)
    BY <1>2, <1>3, <1>6 DEF ToSet
  <1>7. ASSUME n > Limit
        PROVE  /\ Limit \in 1 .. n /\ s[Limit] \in S
               /\ \A x \in ToSet(t) : \E i \in 1 .. Limit : s[i] = x
               /\ \A x \in S \ ToSet(t) : \E i \in 1 .. n : i > Limit /\ s[i] = x
    <2>1. Limit \in 1 .. n
      BY <1>0, <1>1, <1>7
    <2>2. s[Limit] \in S
      BY <1>2, <2>1
    <2>3. \A x \in ToSet(t) : \E i \in 1 .. Limit : s[i] = x
      BY <1>3, <1>7 DEF ToSet
    <2>4. ASSUME NEW x \in S, x \notin ToSet(t) PROVE \E i \in 1 .. n : i > Limit /\ s[i] = x
      <3>1. PICK i \in 1 .. n : s[i] = x
        BY <1>2
      <3>2. i \notin 1 .. Limit
        BY <1>3, <1>7, <2>4, <3>1 DEF ToSet
      <3>3. i > Limit
        BY <1>0, <1>1, <3>2
      <3> QED
        BY <3>1, <3>3
    <2> QED
      BY <2>1, <2>2, <2>3, <2>4
  <1> QED
    BY <1>3, <1>4, <1>5, <1>6, <1>7 DEF n, t

-----------------------------------------------------------------------------
(* ListDevices                                                             *)

\* The devices a page of ListDevices is taken from.
DevicesAfter == {d \in DeviceIds : Matches(d, scan.filter) /\ (scan.cursor = Nil \/ d > scan.cursor)}

\* What list_devices answers: a page of the devices after the cursor, and the last of
\* them as the next cursor if there are more.
LEMMA DeviceAnswer ==
    ASSUME PagingInv, list_devices
    PROVE  /\ Prefix(InOrder(DevicesAfter), Limit) \in Seq(DevicesAfter)
           /\ returned' = returned \o Prefix(InOrder(DevicesAfter), Limit)
           /\ scan'.filter = scan.filter
           /\ scan' \in Scans
           /\ \/ /\ Cardinality(DevicesAfter) > Limit
                 /\ scan'.cursor = InOrder(DevicesAfter)[Limit] /\ scan'.cursor \in Nat
                 /\ scan'.pc = "next"
              \/ /\ Cardinality(DevicesAfter) <= Limit
                 /\ scan'.cursor = Nil /\ scan'.pc = "done"
  <1> DEFINE S == DevicesAfter
             n == Cardinality(S)
             s == InOrder(S)
             c == IF n > Limit THEN s[Limit] ELSE Nil
  <1>0. Limit \in Nat /\ Nil \notin Nat
    BY PagingAssumption
  <1>1. S \in SUBSET Nat /\ IsFiniteSet(S)
    <2>1. S \in SUBSET DeviceIds
      BY DEF DevicesAfter
    <2> QED
      BY <2>1, PagingAssumption, FS_Subset
  <1>2. n \in Nat
    BY <1>1, FS_CardinalityType
  <1>3. Lists(s, S)
    BY <1>1, InOrderFacts
  <1>4. s \in [1 .. n -> S]
    BY <1>3 DEF Lists
  <1>5. RowsAfter(scan.cursor) = s
    BY DEF RowsAfter, InOrder, Rank, DevicesAfter
  <1>6. n > Limit => s[Limit] \in Nat
    <2>1. n > Limit => s[Limit] \in S
      BY <1>1, <1>3, PageOfAnswer
    <2> HIDE DEF n, s, S
    <2> QED
      BY <1>1, <2>1
  <1> HIDE DEF n, s, S
  <1>7. /\ Prefix(s, Limit) \in Seq(S)
        /\ Prefix(Prefix(s, Limit + 1), Limit) = Prefix(s, Limit)
        /\ Len(Prefix(s, Limit + 1)) > Limit <=> n > Limit
        /\ n > Limit => Prefix(s, Limit + 1)[Limit] = s[Limit]
    BY <1>2, <1>4, PageFacts
  <1>8. Answered(Prefix(s, Limit), c)
    BY <1>5, <1>7 DEF list_devices
  <1>9. /\ returned' = returned \o Prefix(s, Limit)
        /\ scan' = [scan EXCEPT !.cursor = c, !.pc = IF c = Nil THEN "done" ELSE "next"]
    BY <1>8 DEF Answered
  <1>10. scan \in Scans
    BY DEF PagingInv, PagingTypes
  <1>11. CASE n > Limit
    <2>1. c = s[Limit] /\ c \in Nat /\ c # Nil
      BY <1>0, <1>6, <1>11
    <2>2. /\ scan' \in Scans /\ scan'.cursor = c /\ scan'.pc = "next"
          /\ scan'.filter = scan.filter
      BY <1>9, <1>10, <2>1 DEF Scans
    <2> QED
      BY <1>7, <1>9, <1>11, <2>1, <2>2 DEF n, s, S
  <1>12. CASE ~ (n > Limit)
    <2>1. c = Nil /\ n <= Limit
      BY <1>0, <1>2, <1>12
    <2>2. /\ scan' \in Scans /\ scan'.cursor = c /\ scan'.pc = "done"
          /\ scan'.filter = scan.filter
      BY <1>9, <1>10, <2>1 DEF Scans
    <2> QED
      BY <1>7, <1>9, <2>1, <2>2 DEF n, s, S
  <1> QED
    BY <1>11, <1>12

\* A page of ListDevices keeps what the scan has returned exact up to its cursor.
LEMMA DevicePageStep ==
    ASSUME PagingInv, list_devices
    PROVE  PagingInv'
  <1> DEFINE S == DevicesAfter
             n == Cardinality(S)
             s == InOrder(S)
             t == Prefix(s, Limit)
  <1>0. Limit \in Nat \ {0} /\ DeviceIds \subseteq Nat /\ Nil \notin Nat
    BY PagingAssumption
  <1>1. /\ table = "devices" /\ scan.pc = "next"
        /\ UNCHANGED <<table, devices, jobs, clock, due, cursors>>
    BY DEF list_devices
  <1>2. PagingTypes /\ FirstPage /\ DeviceScanInv
    BY <1>1 DEF PagingInv
  <1>3. S \in SUBSET Nat /\ S \in SUBSET DeviceIds /\ IsFiniteSet(S)
    <2>1. S \in SUBSET DeviceIds
      BY DEF DevicesAfter
    <2> QED
      BY <2>1, PagingAssumption, FS_Subset
  <1>4. n \in Nat
    BY <1>3, FS_CardinalityType
  <1>5. /\ Lists(s, S)
        /\ \A i, j \in 1 .. n : i < j => s[i] < s[j]
    BY <1>3, InOrderFacts
  <1>6. /\ t \in Seq(S) /\ IsInjective(t) /\ ToSet(t) \subseteq S
        /\ n <= Limit => S \subseteq ToSet(t)
        /\ n > Limit =>
              /\ Limit \in 1 .. n /\ s[Limit] \in S
              /\ \A x \in ToSet(t) : \E i \in 1 .. Limit : s[i] = x
              /\ \A x \in S \ ToSet(t) : \E i \in 1 .. n : i > Limit /\ s[i] = x
    BY <1>3, <1>5, PageOfAnswer
  <1>7. /\ returned' = returned \o t
        /\ scan'.filter = scan.filter /\ scan' \in Scans
        /\ \/ n > Limit /\ scan'.cursor = s[Limit] /\ scan'.cursor \in Nat /\ scan'.pc = "next"
           \/ n <= Limit /\ scan'.cursor = Nil /\ scan'.pc = "done"
    BY DeviceAnswer
  <1>8. s \in [1 .. n -> S]
    BY <1>5 DEF Lists
  <1>9. \A d \in S : d \in DeviceIds /\ d \in Nat /\ (scan.cursor = Nil \/ d > scan.cursor)
    BY <1>0 DEF DevicesAfter
  <1>10. \A d \in DeviceIds : Matches(d, scan.filter) /\ d \notin S =>
            scan.cursor # Nil /\ ~ (d > scan.cursor)
    BY DEF DevicesAfter
  <1> HIDE DEF S, n, s, t
  <1>11. scan.cursor \in Nat \cup {Nil}
    BY <1>2 DEF PagingTypes, Scans
  <1>12. /\ returned \in Seq(DeviceIds) /\ IsInjective(returned)
         /\ due \subseteq {d \in DeviceIds : Matches(d, scan.filter)}
         /\ scan.cursor = Nil => returned = <<>>
         /\ scan.cursor # Nil => /\ \A d \in ToSet(returned) : d <= scan.cursor
                                 /\ \A d \in due : d <= scan.cursor => d \in ToSet(returned)
    BY <1>1, <1>2 DEF DeviceScanInv, FirstPage
  <1>13. ToSet(returned) \subseteq DeviceIds
    BY <1>12 DEF ToSet
  <1>14. t \in Seq(DeviceIds)
    <2>1. Len(t) \in Nat /\ t \in [1 .. Len(t) -> S]
      BY <1>6
    <2>2. t \in [1 .. Len(t) -> DeviceIds]
      BY <1>3, <2>1
    <2> QED
      BY <2>1, <2>2
  <1>15. ASSUME NEW x \in ToSet(t) PROVE x \notin ToSet(returned)
    <2>1. CASE scan.cursor = Nil
      <3>1. returned = <<>>
        BY <1>12, <2>1
      <3>2. ToSet(returned) = {}
        BY <3>1 DEF ToSet
      <3> QED
        BY <3>2
    <2>2. CASE scan.cursor # Nil
      <3>1. scan.cursor \in Nat
        BY <1>11, <2>2
      <3>2. x \in Nat /\ x > scan.cursor
        BY <1>6, <1>9, <1>15, <2>2
      <3>3. ~ (x <= scan.cursor)
        BY <3>1, <3>2
      <3> QED
        BY <1>12, <2>2, <3>3
    <2> QED
      BY <2>1, <2>2
  <1>16. /\ returned' \in Seq(DeviceIds) /\ IsInjective(returned')
         /\ ToSet(returned') = ToSet(returned) \cup ToSet(t)
    BY <1>6, <1>7, <1>12, <1>14, <1>15, Joined
  <1>17. ASSUME NEW d \in due, d \notin ToSet(returned) PROVE d \in S
    <2>1. d \in DeviceIds /\ Matches(d, scan.filter) /\ d \in Nat
      BY <1>0, <1>12
    <2>2. CASE scan.cursor = Nil
      BY <1>10, <2>1, <2>2
    <2>3. CASE scan.cursor # Nil
      <3>1. scan.cursor \in Nat
        BY <1>11, <2>3
      <3>2. ~ (d <= scan.cursor)
        BY <1>12, <1>17, <2>3
      <3>3. d > scan.cursor
        BY <2>1, <3>1, <3>2
      <3> QED
        BY <1>10, <2>1, <3>3
    <2> QED
      BY <2>2, <2>3
  <1>18. due' \subseteq {d \in DeviceIds : Matches(d, scan.filter)'}
    BY <1>1, <1>7, <1>12 DEF Matches
  <1>19. CASE n > Limit
    <2>1. /\ scan'.cursor = s[Limit] /\ scan'.cursor \in Nat /\ scan'.pc = "next"
          /\ s[Limit] \in S /\ Limit \in 1 .. n
      BY <1>4, <1>0, <1>6, <1>7, <1>19
    <2>2. ASSUME NEW d \in ToSet(t) PROVE d <= s[Limit]
      <3>1. PICK i \in 1 .. Limit : s[i] = d
        BY <1>6, <1>19
      <3>2. i \in 1 .. n /\ (i = Limit \/ i < Limit)
        BY <1>0, <1>4, <1>19
      <3>3. s[i] < s[Limit] \/ s[i] = s[Limit]
        BY <1>5, <2>1, <3>2
      <3>4. s[i] \in Nat /\ s[Limit] \in Nat
        BY <1>8, <1>9, <3>2, <2>1
      <3> QED
        BY <3>1, <3>3, <3>4
    <2>3. ASSUME NEW d \in ToSet(returned) PROVE d <= s[Limit]
      <3>1. scan.cursor # Nil
        <4>1. SUFFICES ASSUME returned = <<>> PROVE FALSE
          BY <1>12
        <4> QED
          BY <2>3, <4>1 DEF ToSet
      <3>2. d <= scan.cursor /\ s[Limit] > scan.cursor
        BY <1>9, <1>12, <2>1, <3>1
      <3>3. d \in Nat /\ scan.cursor \in Nat /\ s[Limit] \in Nat
        BY <1>0, <1>11, <1>13, <2>1, <3>1
      <3> QED
        BY <3>2, <3>3
    <2>4. ASSUME NEW d \in due, d <= s[Limit] PROVE d \in ToSet(returned')
      <3>1. SUFFICES ASSUME d \notin ToSet(returned), d \notin ToSet(t) PROVE FALSE
        BY <1>16
      <3>2. d \in S
        BY <1>17, <3>1
      <3>3. PICK i \in 1 .. n : i > Limit /\ s[i] = d
        BY <1>6, <1>19, <3>1, <3>2
      <3>4. Limit < i
        BY <1>0, <1>4, <3>3
      <3>5. s[Limit] < s[i]
        BY <1>5, <2>1, <3>3, <3>4
      <3>6. s[i] \in Nat /\ s[Limit] \in Nat
        BY <1>8, <1>9, <2>1
      <3> QED
        BY <2>4, <3>3, <3>5, <3>6
    <2>5. DeviceScanInv'
      BY <1>1, <1>16, <1>18, <1>7, <2>1, <2>2, <2>3, <2>4 DEF DeviceScanInv
    <2>6. FirstPage'
      BY <1>0, <2>1 DEF FirstPage
    <2> QED
      BY <1>1, <1>2, <1>7, <2>5, <2>6 DEF PagingInv, PagingTypes
  <1>20. CASE ~ (n > Limit)
    <2>1. n <= Limit /\ scan'.cursor = Nil /\ scan'.pc = "done"
      BY <1>0, <1>4, <1>7, <1>20
    <2>2. ASSUME NEW d \in due PROVE d \in ToSet(returned')
      BY <1>6, <1>16, <1>17, <2>1
    <2>3. DeviceScanInv'
      BY <1>1, <1>16, <1>18, <2>1, <2>2 DEF DeviceScanInv
    <2>4. FirstPage'
      BY <2>1 DEF FirstPage
    <2> QED
      BY <1>1, <1>2, <1>7, <2>3, <2>4 DEF PagingInv, PagingTypes
  <1> QED
    BY <1>19, <1>20

-----------------------------------------------------------------------------
(* ListUpdateJobs                                                          *)

\* The jobs a page of ListUpdateJobs is taken from.
JobsEarlier == {j \in ExistingJobs : scan.cursor = Nil \/ jobs[j].created_at < scan.cursor}

\* A job in the table has the time at which it was created.
LEMMA JobTimes ==
    ASSUME PagingTypes, NEW j \in ExistingJobs
    PROVE  jobs[j] \in Job /\ jobs[j].created_at \in Nat
  <1>1. jobs[j] \in Job
    BY DEF PagingTypes, ExistingJobs
  <1>2. MaxClock \in Nat
    BY PagingAssumption
  <1> QED
    BY <1>1, <1>2 DEF Job

\* The answers to list_for_device: the jobs before the cursor, from the newest to the oldest.
LEMMA JobAnswer ==
    ASSUME PagingTypes, NEW s \in JobsBefore(scan.cursor)
    PROVE  /\ JobsEarlier \in SUBSET JobIds /\ IsFiniteSet(JobsEarlier)
           /\ Lists(s, JobsEarlier) /\ Len(s) = Cardinality(JobsEarlier)
           /\ \A i, j \in 1 .. Cardinality(JobsEarlier) :
                 i <= j => jobs[s[i]].created_at >= jobs[s[j]].created_at
  <1> DEFINE S == JobsEarlier
             n == Cardinality(S)
  <1>1. S \in SUBSET JobIds /\ S \in SUBSET ExistingJobs /\ IsFiniteSet(S)
    <2>1. S \in SUBSET JobIds /\ S \in SUBSET ExistingJobs
      BY DEF JobsEarlier, ExistingJobs
    <2> QED
      BY <2>1, PagingAssumption, FS_Subset
  <1>2. n \in Nat
    BY <1>1, FS_CardinalityType
  <1>3. /\ s \in SetToSeqs(S)
        /\ \A i \in 1 .. Len(s) - 1 : jobs[s[i]].created_at >= jobs[s[i + 1]].created_at
    BY DEF JobsBefore, JobsEarlier
  <1>4. s \in [1 .. n -> S] /\ \A i, j \in 1 .. n : i # j => s[i] # s[j]
    BY <1>3 DEF SetToSeqs
  <1>5. \A j \in S : jobs[j].created_at \in Nat
    BY <1>1, JobTimes
  <1>6. s \in Surjection(1 .. n, S)
    <2>1. s \in Injection(1 .. n, S)
      BY <1>4 DEF Injection, IsInjective
    <2>2. IsFiniteSet(1 .. n) /\ Cardinality(1 .. n) = n
      BY <1>2, FS_Interval
    <2> QED
      BY <1>1, <2>1, <2>2, FS_Injection
  <1>7. Lists(s, S)
    BY <1>4, <1>6 DEF Lists, Surjection
  <1> HIDE DEF S, n
  <1>8. Len(s) = n
    BY <1>2, <1>4
  <1>9. ASSUME NEW i \in 1 .. n, NEW j \in 1 .. n, i <= j
        PROVE  jobs[s[i]].created_at >= jobs[s[j]].created_at
    <2> DEFINE f == [k \in 1 .. n |-> jobs[s[k]].created_at]
    <2>1. f \in [1 .. n -> Nat]
      BY <1>4, <1>5
    <2>2. ASSUME NEW k \in 1 .. n - 1 PROVE f[k] >= f[k + 1]
      <3>1. k \in 1 .. n /\ k + 1 \in 1 .. n
        BY <1>2
      <3> QED
        BY <1>3, <1>8, <3>1
    <2>3. f[i] = jobs[s[i]].created_at /\ f[j] = jobs[s[j]].created_at
      OBVIOUS
    <2> HIDE DEF f
    <2>4. f[i] >= f[j]
      BY <1>2, <1>9, <2>1, <2>2, Descends
    <2> QED
      BY <2>3, <2>4
  <1> QED
    BY <1>1, <1>7, <1>8, <1>9 DEF S, n

\* A page of ListUpdateJobs leaves out only what comes later or shares a second with
\* the end of a page.
LEMMA JobPageStep ==
    ASSUME PagingInv, list_for_device
    PROVE  PagingInv'
  <1>0. Limit \in Nat \ {0} /\ Nil \notin Nat
    BY PagingAssumption
  <1>1. /\ table = "jobs" /\ scan.pc = "next"
        /\ UNCHANGED <<table, devices, jobs, clock, due>>
    BY DEF list_for_device
  <1>2. PagingTypes /\ FirstPage /\ JobScanInv
    BY <1>1 DEF PagingInv
  <1>3. PICK s \in JobsBefore(scan.cursor) :
           LET cursor == IF Len(s) > Limit THEN jobs[s[Limit]].created_at ELSE Nil
           IN  /\ Answered(Prefix(s, Limit), cursor)
               /\ cursors' = IF cursor = Nil THEN cursors ELSE cursors \cup {cursor}
    BY DEF list_for_device
  <1> DEFINE S == JobsEarlier
             n == Cardinality(S)
             t == Prefix(s, Limit)
             at(j) == jobs[j].created_at
             c == IF n > Limit THEN at(s[Limit]) ELSE Nil
  <1>4. /\ S \in SUBSET JobIds /\ IsFiniteSet(S)
        /\ Lists(s, S) /\ Len(s) = n
        /\ \A i, j \in 1 .. n : i <= j => at(s[i]) >= at(s[j])
    BY <1>2, JobAnswer
  <1>5. n \in Nat
    BY <1>4, FS_CardinalityType
  <1>6. /\ t \in Seq(S) /\ IsInjective(t) /\ ToSet(t) \subseteq S
        /\ n <= Limit => S \subseteq ToSet(t)
        /\ n > Limit =>
              /\ Limit \in 1 .. n /\ s[Limit] \in S
              /\ \A x \in ToSet(t) : \E i \in 1 .. Limit : s[i] = x
              /\ \A x \in S \ ToSet(t) : \E i \in 1 .. n : i > Limit /\ s[i] = x
    BY <1>4, PageOfAnswer
  <1>7. /\ returned' = returned \o t
        /\ scan' = [scan EXCEPT !.cursor = c, !.pc = IF c = Nil THEN "done" ELSE "next"]
        /\ cursors' = IF c = Nil THEN cursors ELSE cursors \cup {c}
    BY <1>3, <1>4 DEF Answered
  <1>8. s \in [1 .. n -> S]
    BY <1>4 DEF Lists
  <1>9. \A j \in S : j \in ExistingJobs /\ (scan.cursor = Nil \/ at(j) < scan.cursor)
    BY DEF JobsEarlier
  <1>10. \A j \in ExistingJobs : j \notin S => scan.cursor # Nil /\ ~ (at(j) < scan.cursor)
    BY DEF JobsEarlier
  <1>11. \A j \in ExistingJobs : at(j) \in Nat /\ jobs[j] # Nil
    BY <1>2, JobTimes DEF ExistingJobs
  <1> HIDE DEF S, n, t
  <1>12. scan \in Scans /\ scan.cursor \in Nat \cup {Nil}
    BY <1>2 DEF PagingTypes, Scans
  <1>13. /\ returned \in Seq(JobIds) /\ IsInjective(returned)
         /\ due \subseteq ExistingJobs
         /\ scan.cursor = Nil => returned = <<>>
         /\ scan.cursor # Nil =>
               /\ \A j \in ToSet(returned) : jobs[j] # Nil /\ at(j) >= scan.cursor
               /\ \A j \in due \ ToSet(returned) : at(j) \in cursors \/ at(j) < scan.cursor
    BY <1>1, <1>2 DEF JobScanInv, FirstPage
  <1>14. ToSet(returned) \subseteq JobIds
    BY <1>13 DEF ToSet
  <1>15. t \in Seq(JobIds)
    <2>1. Len(t) \in Nat /\ t \in [1 .. Len(t) -> S]
      BY <1>6
    <2>2. t \in [1 .. Len(t) -> JobIds]
      BY <1>4, <2>1
    <2> QED
      BY <2>1, <2>2
  <1>16. scan.cursor = Nil => ToSet(returned) = {}
    <2>1. SUFFICES ASSUME returned = <<>> PROVE ToSet(returned) = {}
      BY <1>13
    <2> QED
      BY <2>1 DEF ToSet
  <1>17. ASSUME NEW x \in ToSet(t) PROVE x \notin ToSet(returned)
    <2>1. CASE scan.cursor = Nil
      BY <1>16, <2>1
    <2>2. CASE scan.cursor # Nil
      <3>1. scan.cursor \in Nat
        BY <1>12, <2>2
      <3>2. at(x) \in Nat /\ at(x) < scan.cursor
        BY <1>6, <1>9, <1>11, <1>17, <2>2
      <3>3. ~ (at(x) >= scan.cursor)
        BY <3>1, <3>2
      <3> QED
        BY <1>13, <2>2, <3>3
    <2> QED
      BY <2>1, <2>2
  <1>18. /\ returned' \in Seq(JobIds) /\ IsInjective(returned')
         /\ ToSet(returned') = ToSet(returned) \cup ToSet(t)
    BY <1>6, <1>7, <1>13, <1>15, <1>17, Joined
  <1>19. ASSUME NEW j \in due, j \notin ToSet(returned) PROVE j \in S \/ at(j) \in cursors
    BY <1>10, <1>13, <1>19
  <1>20. ExistingJobs' = ExistingJobs
    BY <1>1 DEF ExistingJobs
  <1>21. CASE n > Limit
    <2>1. /\ Limit \in 1 .. n /\ s[Limit] \in S /\ s[Limit] \in ExistingJobs
          /\ c = at(s[Limit]) /\ c \in Nat /\ c # Nil
      BY <1>0, <1>6, <1>9, <1>11, <1>21
    <2> HIDE DEF c
    <2>2. /\ scan' \in Scans /\ scan'.cursor = c /\ scan'.pc = "next"
          /\ cursors' = cursors \cup {c}
      BY <1>7, <1>12, <2>1 DEF Scans
    <2>3. ASSUME NEW j \in ToSet(t) PROVE jobs[j] # Nil /\ at(j) >= c
      <3>1. PICK i \in 1 .. Limit : s[i] = j
        BY <1>6, <1>21
      <3>2. i \in 1 .. n /\ i <= Limit
        BY <1>0, <1>5, <1>21
      <3>3. at(s[i]) >= at(s[Limit])
        BY <1>4, <2>1, <3>2
      <3>4. jobs[j] # Nil
        BY <1>6, <1>9, <1>11
      <3> QED
        BY <2>1, <3>1, <3>3, <3>4
    <2>4. ASSUME NEW j \in ToSet(returned) PROVE jobs[j] # Nil /\ at(j) >= c
      <3>1. scan.cursor # Nil
        BY <1>16, <2>4
      <3>2. jobs[j] # Nil /\ at(j) >= scan.cursor /\ c < scan.cursor
        BY <1>9, <1>13, <2>1, <3>1
      <3>3. j \in ExistingJobs
        BY <1>14, <3>2 DEF ExistingJobs
      <3>4. at(j) \in Nat /\ scan.cursor \in Nat
        BY <1>11, <1>12, <3>1, <3>3
      <3> QED
        BY <2>1, <3>2, <3>4
    <2>5. ASSUME NEW j \in due, j \notin ToSet(returned') PROVE at(j) \in cursors' \/ at(j) < c
      <3>1. j \notin ToSet(returned) /\ j \notin ToSet(t)
        BY <1>18, <2>5
      <3>2. CASE at(j) \in cursors
        BY <2>2, <3>2
      <3>3. CASE j \in S
        <4>1. PICK i \in 1 .. n : i > Limit /\ s[i] = j
          BY <1>6, <1>21, <3>1, <3>3
        <4>2. Limit <= i
          BY <1>0, <1>5, <4>1
        <4>3. at(s[Limit]) >= at(s[i])
          BY <1>4, <2>1, <4>2
        <4>4. at(j) \in Nat
          BY <1>9, <1>11, <3>3
        <4>5. at(j) = c \/ at(j) < c
          BY <2>1, <4>1, <4>3, <4>4
        <4> QED
          BY <2>2, <4>5
      <3> QED
        BY <1>19, <3>1, <3>2, <3>3
    <2>6. JobScanInv'
      BY <1>1, <1>13, <1>18, <1>20, <2>2, <2>3, <2>4, <2>5 DEF JobScanInv
    <2>7. FirstPage'
      BY <2>1, <2>2 DEF FirstPage
    <2> QED
      BY <1>1, <1>2, <2>2, <2>6, <2>7 DEF PagingInv, PagingTypes
  <1>22. CASE ~ (n > Limit)
    <2>1. n <= Limit /\ c = Nil
      BY <1>0, <1>5, <1>22
    <2> HIDE DEF c
    <2>2. /\ scan' \in Scans /\ scan'.cursor = Nil /\ scan'.pc = "done"
          /\ cursors' = cursors
      BY <1>7, <1>12, <2>1 DEF Scans
    <2>3. ASSUME NEW j \in due, j \notin ToSet(returned') PROVE at(j) \in cursors'
      BY <1>6, <1>18, <1>19, <2>1, <2>2, <2>3
    <2>4. JobScanInv'
      BY <1>1, <1>13, <1>18, <1>20, <2>2, <2>3 DEF JobScanInv
    <2>5. FirstPage'
      BY <2>2 DEF FirstPage
    <2> QED
      BY <1>1, <1>2, <2>2, <2>4, <2>5 DEF PagingInv, PagingTypes
  <1> QED
    BY <1>21, <1>22

-----------------------------------------------------------------------------
(* The other steps                                                         *)

\* A device enrolls while the table is read: it was not due.
LEMMA CreateDeviceStep ==
    ASSUME PagingInv, NEW d \in DeviceIds, create_device(d)
    PROVE  PagingInv'
  <1>1. /\ table = "devices" /\ devices[d] = Nil
        /\ devices' = [devices EXCEPT ![d] = "active"]
        /\ UNCHANGED <<table, jobs, clock, scan, returned, due, cursors>>
    BY DEF create_device, historyVars
  <1>2. PagingTypes /\ FirstPage /\ DeviceScanInv
    BY <1>1 DEF PagingInv
  <1>3. PagingTypes' /\ FirstPage'
    BY <1>1, <1>2 DEF PagingTypes, AnyStatus, FirstPage
  <1>4. \A e \in due : e \in DeviceIds /\ Matches(e, scan.filter)
    BY <1>2 DEF DeviceScanInv
  <1>5. \A e \in due : devices'[e] = devices[e]
    BY <1>1, <1>2, <1>4 DEF PagingTypes, Matches
  <1>6. \A e \in due' : e \in DeviceIds /\ Matches(e, scan.filter)'
    BY <1>1, <1>4, <1>5 DEF Matches
  <1>7. DeviceScanInv'
    BY <1>1, <1>2, <1>6 DEF DeviceScanInv
  <1> QED
    BY <1>1, <1>3, <1>7 DEF PagingInv

\* A device changes its status while the table is read: it stays due only if it still matches.
LEMMA UpdateStatusStep ==
    ASSUME PagingInv, NEW d \in DeviceIds, NEW status \in Statuses, update_status(d, status)
    PROVE  PagingInv'
  <1>1. /\ table = "devices"
        /\ devices' = [devices EXCEPT ![d] = status]
        /\ due' = {e \in due : e # d \/ scan.filter \in {Nil, status}}
        /\ UNCHANGED <<table, jobs, clock, scan, returned, cursors>>
    BY DEF update_status
  <1>2. PagingTypes /\ FirstPage /\ DeviceScanInv
    BY <1>1 DEF PagingInv
  <1>3. PagingTypes' /\ FirstPage'
    BY <1>1, <1>2 DEF PagingTypes, AnyStatus, FirstPage
  <1>4. \A e \in due : e \in DeviceIds /\ Matches(e, scan.filter)
    BY <1>2 DEF DeviceScanInv
  <1>5. status # Nil
    BY PagingAssumption
  <1>6. \A e \in DeviceIds : devices'[e] = IF e = d THEN status ELSE devices[e]
    BY <1>1, <1>2 DEF PagingTypes
  <1>7. \A e \in due' : e \in DeviceIds /\ Matches(e, scan.filter)'
    BY <1>1, <1>4, <1>5, <1>6 DEF Matches
  <1>8. due' \subseteq due
    BY <1>1
  <1>9. DeviceScanInv'
    BY <1>1, <1>2, <1>7, <1>8 DEF DeviceScanInv
  <1> QED
    BY <1>1, <1>3, <1>9 DEF PagingInv

\* A job is created or ends while the table is read: those that were there keep their time.
LEMMA JobWriteStep ==
    ASSUME PagingInv, NEW j \in JobIds, create_job(j) \/ finish_job(j)
    PROVE  PagingInv'
  <1>1. /\ table = "jobs"
        /\ UNCHANGED <<table, devices, clock, scan, returned, due, cursors>>
    BY DEF create_job, finish_job, historyVars
  <1>2. PagingTypes /\ FirstPage /\ JobScanInv
    BY <1>1 DEF PagingInv
  <1>3. /\ jobs' \in [JobIds -> Job \cup {Nil}]
        /\ \A k \in ExistingJobs : jobs'[k] # Nil /\ jobs'[k].created_at = jobs[k].created_at
    <2>1. CASE create_job(j)
      <3> DEFINE new == [created_at |-> clock, active |-> TRUE]
      <3>1. jobs[j] = Nil /\ jobs' = [jobs EXCEPT ![j] = new]
        BY <2>1 DEF create_job
      <3>2. new \in Job
        BY <1>2 DEF PagingTypes, Job
      <3> HIDE DEF new
      <3>3. jobs' \in [JobIds -> Job \cup {Nil}]
        BY <1>2, <3>1, <3>2 DEF PagingTypes
      <3>4. \A k \in ExistingJobs : jobs'[k] = jobs[k] /\ jobs[k] # Nil
        BY <1>2, <3>1 DEF PagingTypes, ExistingJobs
      <3> QED
        BY <3>3, <3>4
    <2>2. CASE finish_job(j)
      <3> DEFINE new == [jobs[j] EXCEPT !.active = FALSE]
      <3>1. jobs[j] # Nil /\ jobs' = [jobs EXCEPT ![j] = new]
        BY <2>2 DEF finish_job
      <3>2. jobs[j] \in Job
        BY <1>2, <3>1 DEF PagingTypes
      <3>3. new \in Job /\ new.created_at = jobs[j].created_at
        BY <3>2 DEF Job
      <3>4. new # Nil
        BY <3>3, PagingAssumption
      <3> HIDE DEF new
      <3>5. jobs' \in [JobIds -> Job \cup {Nil}]
        BY <1>2, <3>1, <3>3 DEF PagingTypes
      <3>6. \A k \in ExistingJobs : jobs'[k] = IF k = j THEN new ELSE jobs[k]
        BY <1>2, <3>1 DEF PagingTypes, ExistingJobs
      <3> QED
        BY <3>3, <3>4, <3>5, <3>6 DEF ExistingJobs
    <2> QED
      BY <2>1, <2>2
  <1>4. ExistingJobs \subseteq ExistingJobs'
    BY <1>3 DEF ExistingJobs
  <1>5. PagingTypes' /\ FirstPage'
    BY <1>1, <1>2, <1>3 DEF PagingTypes, FirstPage
  <1>6. due \subseteq ExistingJobs /\ returned \in Seq(JobIds)
    BY <1>2 DEF JobScanInv
  <1>7. ToSet(returned) \subseteq JobIds
    BY <1>6 DEF ToSet
  <1>8. \A k \in ToSet(returned) : jobs[k] # Nil => k \in ExistingJobs
    BY <1>7 DEF ExistingJobs
  <1>9. JobScanInv'
    BY <1>1, <1>2, <1>3, <1>4, <1>6, <1>8 DEF JobScanInv
  <1> QED
    BY <1>1, <1>5, <1>9 DEF PagingInv

\* A scan begins: what is there, and matches, is due.
LEMMA StartStep ==
    ASSUME PagingInv,
           \/ \E filter \in Statuses \cup {Nil} : StartDeviceScan(filter)
           \/ StartJobScan
    PROVE  PagingInv'
  <1>1. PagingTypes /\ FirstPage
    BY DEF PagingInv
  <1>2. ASSUME NEW filter \in Statuses \cup {Nil}, StartDeviceScan(filter) PROVE PagingInv'
    <2>1. /\ table = "devices" /\ scan.pc = "idle"
          /\ scan' = [pc |-> "next", filter |-> filter, cursor |-> Nil]
          /\ due' = {d \in DeviceIds : Matches(d, filter)}
          /\ UNCHANGED <<table, devices, jobs, clock, returned, cursors>>
      BY <1>2 DEF StartDeviceScan
    <2>2. scan' \in Scans /\ scan'.pc = "next" /\ scan'.filter = filter /\ scan'.cursor = Nil
      BY <2>1 DEF Scans
    <2>3. returned' = <<>>
      BY <1>1, <2>1 DEF FirstPage
    <2>4. due' \subseteq {d \in DeviceIds : Matches(d, scan.filter)'}
      BY <2>1, <2>2 DEF Matches
    <2>5. DeviceScanInv'
      <3>1. returned' \in Seq(DeviceIds) /\ IsInjective(returned')
        BY <2>1 DEF PagingInv, DeviceScanInv
      <3> QED
        BY <2>2, <2>4, <3>1 DEF DeviceScanInv
    <2> QED
      BY <1>1, <2>1, <2>2, <2>3, <2>5 DEF PagingInv, PagingTypes, FirstPage
  <1>3. ASSUME StartJobScan PROVE PagingInv'
    <2>1. /\ table = "jobs" /\ scan.pc = "idle"
          /\ scan' = [scan EXCEPT !.pc = "next"]
          /\ due' = ExistingJobs
          /\ UNCHANGED <<table, devices, jobs, clock, returned, cursors>>
      BY <1>3 DEF StartJobScan
    <2>2. scan' \in Scans /\ scan'.pc = "next" /\ scan'.cursor = Nil
      BY <1>1, <2>1 DEF PagingTypes, Scans, FirstPage
    <2>3. returned' = <<>>
      BY <1>1, <2>1 DEF FirstPage
    <2>4. due' \subseteq ExistingJobs'
      BY <2>1 DEF ExistingJobs
    <2>5. JobScanInv'
      <3>1. returned' \in Seq(JobIds) /\ IsInjective(returned')
        BY <2>1 DEF PagingInv, JobScanInv
      <3> QED
        BY <2>2, <2>4, <3>1 DEF JobScanInv
    <2> QED
      BY <1>1, <2>1, <2>2, <2>3, <2>5 DEF PagingInv, PagingTypes, FirstPage
  <1> QED
    BY <1>2, <1>3

\* The clock moves, or nothing does.
LEMMA QuietStep ==
    ASSUME PagingInv, Tick \/ UNCHANGED pagingVars
    PROVE  PagingInv'
  <1>1. /\ clock' \in 0 .. MaxClock
        /\ UNCHANGED <<table, devices, jobs, scan, returned, due, cursors>>
    BY DEF Tick, pagingVars, historyVars, PagingInv, PagingTypes
  <1>2. PagingTypes' /\ FirstPage'
    BY <1>1 DEF PagingInv, PagingTypes, FirstPage
  <1>3. DeviceScanInv' <=> DeviceScanInv
    BY <1>1 DEF DeviceScanInv, Matches
  <1>4. JobScanInv' <=> JobScanInv
    BY <1>1 DEF JobScanInv, ExistingJobs
  <1> QED
    BY <1>1, <1>2, <1>3, <1>4 DEF PagingInv

\* Before the scan nothing has been returned and nothing is due.
LEMMA PagingInitially ==
    ASSUME PagingInit
    PROVE  PagingInv
  <1>1. PagingTypes /\ FirstPage
    BY PagingAssumption DEF PagingInit, PagingTypes, AnyStatus, Scans, FirstPage
  <1>2. returned = <<>> /\ due = {} /\ scan.pc = "idle"
    BY DEF PagingInit
  <1>3. IsInjective(returned) /\ returned \in Seq(DeviceIds) /\ returned \in Seq(JobIds)
    BY <1>2 DEF IsInjective
  <1> QED
    BY <1>1, <1>2, <1>3 DEF PagingInv, DeviceScanInv, JobScanInv

\* Every step preserves the invariant.
LEMMA PagingStep ==
    ASSUME PagingInv, [PagingNext]_pagingVars
    PROVE  PagingInv'
  <1>1. ASSUME NEW d \in DeviceIds, create_device(d) PROVE PagingInv'
    BY <1>1, CreateDeviceStep
  <1>2. ASSUME NEW d \in DeviceIds, NEW status \in Statuses, update_status(d, status)
        PROVE  PagingInv'
    BY <1>2, UpdateStatusStep
  <1>3. ASSUME NEW j \in JobIds, create_job(j) \/ finish_job(j) PROVE PagingInv'
    BY <1>3, JobWriteStep
  <1>4. CASE \/ \E filter \in Statuses \cup {Nil} : StartDeviceScan(filter)
             \/ StartJobScan
    BY <1>4, StartStep
  <1>5. CASE list_devices
    BY <1>5, DevicePageStep
  <1>6. CASE list_for_device
    BY <1>6, JobPageStep
  <1>7. CASE Tick \/ UNCHANGED pagingVars
    BY <1>7, QuietStep
  <1> QED
    BY <1>1, <1>2, <1>3, <1>4, <1>5, <1>6, <1>7 DEF PagingNext

-----------------------------------------------------------------------------
(* Theorems                                                                *)

\* However many devices enroll or change their status between the pages of ListDevices
\* (list_devices), and whatever the size of a page, the scan returns no device twice
\* and none that was enrolled and matched all along is missing from it.
THEOREM DeviceScansAreExact == PagingSpec => []DeviceScanExact
  <1>1. PagingInv => DeviceScanExact
    BY DEF PagingInv, DeviceScanInv, DeviceScanExact
  <1> QED
    BY <1>1, PagingInitially, PagingStep, PTL DEF PagingSpec

\* However many jobs are created between the pages of ListUpdateJobs (list_for_device),
\* and even if the clock is set back, the scan returns no job twice, and it misses one
\* only where a page ended within the second of that job.
THEOREM JobScansMissOnlyTies == PagingSpec => []JobScanMissesOnlyTies
  <1>1. PagingInv => JobScanMissesOnlyTies
    BY DEF PagingInv, JobScanInv, JobScanMissesOnlyTies
  <1> QED
    BY <1>1, PagingInitially, PagingStep, PTL DEF PagingSpec

=============================================================================
