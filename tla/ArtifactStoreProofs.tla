------------------------- MODULE ArtifactStoreProofs -------------------------
(***************************************************************************)
(* Proofs about ArtifactStore, for every number of versions, channels and  *)
(* publishers and every bound on the clock.                                *)
(*                                                                         *)
(* GetLatest and ListArtifacts sort.  What a sorted answer is, and that    *)
(* there is one, takes induction on the rows; the proofs do it with the    *)
(* least counterexample, a natural number.                                 *)
(***************************************************************************)
EXTENDS ArtifactStore, FiniteSetTheorems, WellFoundedInduction, TLAPS

-----------------------------------------------------------------------------
(* Sorted answers                                                          *)

\* A non-empty set of natural numbers has a least element.
LEMMA LeastNumber ==
    ASSUME NEW T \in SUBSET Nat, T # {}
    PROVE  \E x \in T : \A y \in T : x <= y
  <1>1. PICK x \in T : \A y \in T : ~ (<<y, x>> \in OpToRel(<, Nat))
    BY WFMin, NatLessThanWellFounded
  <1>2. \A y \in T : ~ (y < x)
    BY <1>1 DEF OpToRel
  <1> QED
    BY <1>2

\* s lists the n rows of S, newest first.
Listing(s, S, n) ==
    /\ s \in [1 .. n -> S]
    /\ \A i, j \in 1 .. n : i # j => s[i] # s[j]
    /\ \A i \in 1 .. n - 1 : s[i].created_at >= s[i + 1].created_at

\* A row is never newer than one further up the list.
LEMMA ListingSorted ==
    ASSUME NEW S \in SUBSET Row, NEW n \in Nat, NEW s, Listing(s, S, n),
           NEW i \in 1 .. n, NEW j \in 1 .. n, i <= j
    PROVE  s[i].created_at >= s[j].created_at
  <1> DEFINE Bad == {k \in 1 .. n : i <= k /\ ~ (s[i].created_at >= s[k].created_at)}
  <1>0. \A k \in 1 .. n : s[k].created_at \in Nat
    BY ArtifactAssumption DEF Listing, Row
  <1>1. SUFFICES ASSUME Bad # {} PROVE FALSE
    BY <1>1
  <1>2. PICK k \in Bad : \A l \in Bad : k <= l
    <2>1. Bad \in SUBSET Nat
      OBVIOUS
    <2> QED
      BY <1>1, <2>1, LeastNumber
  <1>3. k # i
    BY <1>0, <1>2
  <1>4. k - 1 \in 1 .. n - 1 /\ i <= k - 1 /\ k - 1 \notin Bad
    BY <1>2, <1>3
  <1>5. s[i].created_at >= s[k - 1].created_at
    BY <1>4
  <1>6. s[k - 1].created_at >= s[(k - 1) + 1].created_at
    BY <1>4 DEF Listing
  <1>7. (k - 1) + 1 = k
    BY <1>2
  <1>8. k - 1 \in 1 .. n
    BY <1>4
  <1> QED
    BY <1>0, <1>2, <1>5, <1>6, <1>7, <1>8

\* A listing as long as a finite set of rows shows all of them.
LEMMA ListingComplete ==
    ASSUME NEW S \in SUBSET Row, IsFiniteSet(S), NEW s, Listing(s, S, Cardinality(S)), NEW a \in S
    PROVE  \E i \in 1 .. Cardinality(S) : s[i] = a
  <1> DEFINE n == Cardinality(S)
  <1>1. n \in Nat
    BY FS_CardinalityType
  <1>2. s \in Injection(1 .. n, S)
    BY DEF Listing, Injection, IsInjective
  <1>3. Cardinality(1 .. n) = n
    BY <1>1, FS_Interval
  <1>4. s \in Surjection(1 .. n, S)
    BY <1>2, <1>3, FS_Injection
  <1> QED
    BY <1>4 DEF Surjection

\* Every finite set of rows has a listing.
LEMMA ListingExists ==
    ASSUME NEW S \in SUBSET Row, IsFiniteSet(S)
    PROVE  \E s : Listing(s, S, Cardinality(S))
  <1> DEFINE Bad == {n \in Nat : \E T \in SUBSET Row :
                        /\ IsFiniteSet(T) /\ Cardinality(T) = n
                        /\ ~ \E s : Listing(s, T, n)}
  <1>1. SUFFICES ASSUME Bad # {} PROVE FALSE
    <2>1. Cardinality(S) \in Nat
      BY FS_CardinalityType
    <2> QED
      BY <1>1, <2>1
  <1>2. PICK n \in Bad : \A m \in Bad : n <= m
    BY <1>1, LeastNumber
  <1>3. PICK T \in SUBSET Row :
           /\ IsFiniteSet(T) /\ Cardinality(T) = n
           /\ ~ \E s : Listing(s, T, n)
    BY <1>2
  <1>4. T # {}
    <2>1. SUFFICES ASSUME T = {} PROVE FALSE
      OBVIOUS
    <2>2. n = 0
      BY <1>3, <2>1, FS_EmptySet
    <2>3. Listing([i \in 1 .. 0 |-> i], T, 0)
      BY DEF Listing
    <2> QED
      BY <1>3, <2>2, <2>3
  <1>5. PICK a \in T : \A b \in T : a.created_at <= b.created_at
    <2> DEFINE times == {b.created_at : b \in T}
    <2>1. times \in SUBSET Nat /\ times # {}
      BY <1>4, ArtifactAssumption DEF Row
    <2>2. PICK x \in times : \A y \in times : x <= y
      BY <2>1, LeastNumber
    <2> QED
      BY <2>2
  <1> DEFINE U == T \ {a}
  <1>6. IsFiniteSet(U) /\ Cardinality(U) = n - 1 /\ n - 1 \in Nat
    <2>1. IsFiniteSet(U) /\ Cardinality(U) = n - 1
      BY <1>3, FS_RemoveElement
    <2> QED
      BY <2>1, FS_CardinalityType
  <1>7. PICK s : Listing(s, U, n - 1)
    <2>1. n - 1 \notin Bad
      BY <1>2, <1>6
    <2> QED
      BY <1>6, <2>1
  <1> DEFINE t == [i \in 1 .. n |-> IF i = n THEN a ELSE s[i]]
  <1>8. \A i \in 1 .. n : i # n => i \in 1 .. n - 1
    BY <1>2
  <1>9. s \in [1 .. n - 1 -> U]
    BY <1>7 DEF Listing
  <1>10. \A i \in 1 .. n : (i = n /\ t[i] = a) \/ (i # n /\ t[i] = s[i] /\ t[i] \in U)
    BY <1>8, <1>9
  <1>11. t \in [1 .. n -> T]
    BY <1>5, <1>10
  <1>12. \A i, j \in 1 .. n : i # j => t[i] # t[j]
    BY <1>7, <1>8, <1>10 DEF Listing
  <1>13. ASSUME NEW i \in 1 .. n - 1 PROVE t[i].created_at >= t[i + 1].created_at
    <2>1. i \in 1 .. n /\ i + 1 \in 1 .. n /\ i # n
      BY <1>2
    <2>2. CASE i + 1 = n
      <3>1. t[i] \in T /\ t[i + 1] = a
        BY <1>10, <1>11, <2>1, <2>2
      <3>2. a.created_at \in Nat /\ t[i].created_at \in Nat
        BY <3>1, ArtifactAssumption DEF Row
      <3> QED
        BY <1>5, <3>1, <3>2
    <2>3. CASE i + 1 # n
      <3>1. i \in 1 .. (n - 1) - 1 /\ t[i] = s[i] /\ t[i + 1] = s[i + 1]
        BY <1>2, <2>1, <2>3
      <3> QED
        BY <1>7, <3>1 DEF Listing
    <2> QED
      BY <2>2, <2>3
  <1>14. Listing(t, T, n)
    BY <1>11, <1>12, <1>13 DEF Listing
  <1> QED
    BY <1>3, <1>14

\* The rows of a channel.
Rows(channel) == {a \in artifacts : a.channel = channel}

\* ORDER BY created_at DESC returns the listings of the channel's rows.
LEMMA OrderedFacts ==
    ASSUME IsFiniteSet(artifacts), artifacts \subseteq Row, NEW channel
    PROVE  /\ IsFiniteSet(Rows(channel))
           /\ Cardinality(Rows(channel)) \in Nat
           /\ \A s \in Ordered(channel) : /\ Listing(s, Rows(channel), Cardinality(Rows(channel)))
                                          /\ Len(s) = Cardinality(Rows(channel))
           /\ \A s : Listing(s, Rows(channel), Cardinality(Rows(channel))) => s \in Ordered(channel)
  <1> DEFINE S == Rows(channel)
             n == Cardinality(S)
  <1>1. IsFiniteSet(S) /\ n \in Nat
    <2>1. IsFiniteSet(S)
      BY FS_Subset DEF Rows
    <2> QED
      BY <2>1, FS_CardinalityType
  <1>2. \A s \in [1 .. n -> S] : Len(s) = n
    BY <1>1
  <1>3. Ordered(channel) = {s \in SetToSeqs(S) :
                              \A i \in 1 .. Len(s) - 1 : s[i].created_at >= s[i + 1].created_at}
    BY DEF Ordered, Rows
  <1>4. SetToSeqs(S) = {s \in [1 .. n -> S] : \A i, j \in 1 .. n : i # j => s[i] # s[j]}
    BY DEF SetToSeqs
  <1> QED
    BY <1>1, <1>2, <1>3, <1>4 DEF Listing

\* GetLatest answers with a newest row of the channel, and answers if there is one.
LEMMA LatestFacts ==
    ASSUME IsFiniteSet(artifacts), artifacts \subseteq Row, NEW channel
    PROVE  /\ \A a \in get_latest(channel) :
                 /\ a \in Rows(channel)
                 /\ \A b \in Rows(channel) : a.created_at >= b.created_at
           /\ Rows(channel) # {} => get_latest(channel) # {}
  <1> DEFINE S == Rows(channel)
             n == Cardinality(S)
  <1>0. S \in SUBSET Row
    BY DEF Rows
  <1>1. IsFiniteSet(S) /\ n \in Nat
    BY OrderedFacts
  <1>2. ASSUME NEW s \in Ordered(channel), s # <<>>
        PROVE  /\ s[1] \in S
               /\ \A b \in S : s[1].created_at >= b.created_at
    <2>1. Listing(s, S, n) /\ Len(s) = n
      BY OrderedFacts
    <2>2. 1 \in 1 .. n
      <3>1. s \in [1 .. n -> S]
        BY <2>1 DEF Listing
      <3>2. n # 0
        BY <1>2, <3>1
      <3> QED
        BY <1>1, <3>2
    <2>3. ASSUME NEW b \in S PROVE s[1].created_at >= b.created_at
      <3>1. PICK i \in 1 .. n : s[i] = b
        BY <1>0, <1>1, <2>1, ListingComplete
      <3>2. 1 <= i
        BY <1>1
      <3> QED
        BY <1>0, <1>1, <2>1, <2>2, <3>1, <3>2, ListingSorted
    <2> QED
      BY <2>1, <2>2, <2>3 DEF Listing
  <1>3. ASSUME S # {} PROVE get_latest(channel) # {}
    <2>1. PICK s : Listing(s, S, n)
      BY <1>0, <1>1, ListingExists
    <2>2. s \in Ordered(channel)
      BY <2>1, OrderedFacts
    <2>3. n # 0
      BY <1>1, <1>3, FS_EmptySet
    <2>4. s # <<>>
      <3>1. Len(s) = n
        BY <2>2, OrderedFacts
      <3> QED
        BY <2>3, <3>1
    <2> QED
      BY <2>2, <2>4 DEF get_latest
  <1> QED
    BY <1>2, <1>3 DEF get_latest

\* ListArtifacts leaves a row out only if the list is full of rows as new.
LEMMA ListFacts ==
    ASSUME IsFiniteSet(artifacts), artifacts \subseteq Row, NEW a \in artifacts,
           NEW limit \in Nat, NEW rows \in list(a.channel, limit)
    PROVE  \/ a \in ToSet(rows)
           \/ Len(rows) = limit /\ \A i \in 1 .. limit : rows[i].created_at >= a.created_at
  <1> DEFINE S == Rows(a.channel)
             n == Cardinality(S)
             m == IF n < limit THEN n ELSE limit
  <1>0. S \in SUBSET Row /\ a \in S
    BY DEF Rows
  <1>1. IsFiniteSet(S) /\ n \in Nat
    BY OrderedFacts
  <1>2. PICK s \in Ordered(a.channel) :
           rows = SubSeq(s, 1, IF Len(s) < limit THEN Len(s) ELSE limit)
    BY DEF list
  <1>3. Listing(s, S, n) /\ Len(s) = n
    BY OrderedFacts
  <1>4. m \in Nat /\ m <= n /\ m <= limit /\ (m = n \/ m = limit)
    BY <1>1
  <1>5. rows = SubSeq(s, 1, m)
    BY <1>2, <1>3
  <1>6. Len(rows) = m /\ DOMAIN rows = 1 .. m /\ \A i \in 1 .. m : rows[i] = s[i]
    <2>1. s \in Seq(S)
      BY <1>1, <1>3 DEF Listing
    <2> HIDE DEF m
    <2>2. rows \in Seq(S)
      BY <1>3, <1>4, <1>5, <2>1
    <2> QED
      BY <1>3, <1>4, <1>5, <2>1, <2>2
  <1> HIDE DEF m
  <1>7. PICK k \in 1 .. n : s[k] = a
    BY <1>0, <1>1, <1>3, ListingComplete
  <1>8. CASE k <= m
    <2>1. k \in DOMAIN rows /\ rows[k] = a
      BY <1>1, <1>4, <1>6, <1>7, <1>8
    <2> QED
      BY <2>1 DEF ToSet
  <1>9. CASE ~ (k <= m)
    <2>1. m = limit
      BY <1>1, <1>4, <1>7, <1>9
    <2>2. ASSUME NEW i \in 1 .. limit PROVE rows[i].created_at >= a.created_at
      <3>1. i \in 1 .. m /\ i \in 1 .. n /\ i <= k
        BY <1>1, <1>4, <1>7, <1>9, <2>1
      <3>2. s[i].created_at >= s[k].created_at
        BY <1>0, <1>1, <1>3, <1>7, <3>1, ListingSorted
      <3> QED
        BY <1>6, <1>7, <3>1, <3>2
    <2> QED
      BY <1>6, <2>1, <2>2
  <1> QED
    BY <1>8, <1>9

-----------------------------------------------------------------------------
(* The inductive invariant                                                 *)

Publish == [pc : {"idle", "stamped", "replied"}, row : Row \cup {Nil},
            code : ArtifactCodes \cup {Nil}, after : SUBSET Row]

\* A call that has a row.  It was stamped with a time that has come, unless the clock
\* was set back since, and after the versions that it follows.
InHand(p) == calls[p].pc = "stamped" \/ Accepted(p)

CallInv(p) ==
    /\ calls[p].after \subseteq answered
    /\ p \in early => calls[p] # NoPublish
    /\ InHand(p) =>
          /\ calls[p].row \in Row
          /\ p \notin early => calls[p].row.created_at <= clock
          /\ \A a \in calls[p].after : /\ a.channel = calls[p].row.channel
                                       /\ a.created_at <= calls[p].row.created_at
    /\ Accepted(p) => calls[p].row \in artifacts

\* The rows of the table are of different versions.
Unique == \A a, b \in artifacts : a.version = b.version => a = b

ArtifactInv ==
    /\ clock \in 0 .. MaxClock
    /\ artifacts \subseteq Row
    /\ IsFiniteSet(artifacts)
    /\ Unique
    /\ calls \in [Publishers -> Publish]
    /\ answered \subseteq artifacts
    /\ early \subseteq Publishers
    /\ current \subseteq answered
    /\ \A a \in current : a.created_at <= clock
    /\ follows \subseteq answered \X answered
    /\ \A pair \in follows : /\ pair[1].channel = pair[2].channel
                             /\ pair[1].created_at <= pair[2].created_at
    /\ \A p \in Publishers : CallInv(p)
    /\ PublishedOnce

\* A call that ends, refused, answered or lost, has nothing in hand.
LEMMA Ended ==
    /\ NoPublish \in Publish /\ NoPublish.pc = "idle" /\ NoPublish.after = {}
    /\ \A code \in ArtifactCodes :
          LET call == [NoPublish EXCEPT !.pc = "replied", !.code = code]
          IN  /\ call \in Publish /\ call.pc = "replied" /\ call.code = code /\ call.after = {}
              /\ call # NoPublish
  BY DEF NoPublish, Publish

\* One call changes, without a row of its own in the table.
LEMMA CallChanges ==
    ASSUME ArtifactInv, NEW p \in Publishers, NEW call \in Publish,
           calls' = [calls EXCEPT ![p] = call],
           UNCHANGED <<clock, artifacts, answered, current, follows>>,
           early' \subseteq early, \A q \in early : q # p => q \in early',
           p \in early' => call # NoPublish,
           ~ (call.pc = "replied" /\ call.code = "ok"),
           call.after \subseteq answered,
           call.pc = "stamped" =>
              /\ call.row \in Row
              /\ call.row.created_at <= clock
              /\ \A a \in call.after : /\ a.channel = call.row.channel
                                       /\ a.created_at <= call.row.created_at
    PROVE  ArtifactInv'
  <1>1. calls \in [Publishers -> Publish]
    BY DEF ArtifactInv
  <1>2. calls' \in [Publishers -> Publish] /\ calls'[p] = call
        /\ \A q \in Publishers : q # p => calls'[q] = calls[q]
    BY <1>1
  <1>3. ~ Accepted(p)'
    BY <1>2 DEF Accepted
  <1>4. \A q \in Publishers : CallInv(q)'
    <2>1. CallInv(p)'
      BY <1>2, <1>3 DEF CallInv, InHand
    <2>2. \A q \in Publishers : q # p => CallInv(q)'
      BY <1>2 DEF ArtifactInv, CallInv, InHand, Accepted
    <2> QED
      BY <2>1, <2>2
  <1>5. PublishedOnce'
    <2>1. \A q \in Publishers : Accepted(q)' => q # p /\ Accepted(q) /\ calls'[q] = calls[q]
      BY <1>2, <1>3 DEF Accepted
    <2> QED
      BY <2>1 DEF ArtifactInv, PublishedOnce
  <1>6. Unique'
    BY DEF ArtifactInv, Unique
  <1> QED
    BY <1>2, <1>4, <1>5, <1>6 DEF ArtifactInv

\* PublishArtifact stamps its row with the time.
LEMMA StampKeeps ==
    ASSUME ArtifactInv, NEW p \in Publishers, NEW request \in Request,
           publish_artifact(p, request)
    PROVE  ArtifactInv'
  <1>1. CASE request.sha256 = Nil
    <2> DEFINE call == [NoPublish EXCEPT !.pc = "replied", !.code = "invalid_argument"]
    <2>1. "invalid_argument" \in ArtifactCodes
      BY DEF ArtifactCodes
    <2>2. call \in Publish /\ call.pc = "replied" /\ call.code = "invalid_argument"
          /\ call.after = {} /\ call # NoPublish
      BY <2>1, Ended
    <2>3. calls' = [calls EXCEPT ![p] = call]
          /\ UNCHANGED <<clock, artifacts, answered, early, current, follows>>
      BY <1>1 DEF publish_artifact, Refuses
    <2> HIDE DEF call
    <2> QED
      BY <2>2, <2>3, CallChanges
  <1>2. CASE request.sha256 # Nil
    <2> DEFINE call == StampedCall(request)
    <2>1. Stamped(request) \in Row /\ Stamped(request).created_at = clock
          /\ Stamped(request).channel = request.channel
      BY <1>2 DEF Stamped, Request, Row, ArtifactInv
    <2>2. {a \in current : a.channel = request.channel} \in SUBSET Row
      BY DEF ArtifactInv
    <2>3. call \in Publish /\ call.pc = "stamped" /\ call # NoPublish /\ call.row = Stamped(request)
          /\ call.after = {a \in current : a.channel = request.channel}
      BY <2>1, <2>2 DEF StampedCall, Publish, NoPublish
    <2>4. current \subseteq answered /\ \A a \in current : a.created_at <= clock
      BY DEF ArtifactInv
    <2>5. clock <= clock
      BY ArtifactAssumption DEF ArtifactInv
    <2>6. calls' = [calls EXCEPT ![p] = call]
          /\ UNCHANGED <<clock, artifacts, answered, early, current, follows>>
      BY <1>2 DEF publish_artifact
    <2> HIDE DEF call
    <2> QED
      BY <2>1, <2>3, <2>4, <2>5, <2>6, CallChanges
  <1> QED
    BY <1>1, <1>2

\* create inserts a row of a version that the table does not have.
LEMMA InsertKeeps ==
    ASSUME ArtifactInv, NEW p \in Publishers, calls[p].pc = "stamped",
           ~ Conflict(calls[p].row), Accepts(p), artifacts' = artifacts \cup {calls[p].row},
           UNCHANGED <<clock, answered, early, current, follows>>
    PROVE  ArtifactInv'
  <1> DEFINE row == calls[p].row
             call == [calls[p] EXCEPT !.pc = "replied", !.code = "ok"]
  <1>1. calls \in [Publishers -> Publish]
    BY DEF ArtifactInv
  <1>2. call \in Publish /\ call.pc = "replied" /\ call.code = "ok" /\ call.row = row
        /\ call.after = calls[p].after /\ call # NoPublish
    BY <1>1 DEF Publish, ArtifactCodes, NoPublish
  <1>3. calls' = [calls EXCEPT ![p] = call]
    BY <1>1 DEF Accepts
  <1>4. calls' \in [Publishers -> Publish] /\ calls'[p] = call
        /\ \A q \in Publishers : q # p => calls'[q] = calls[q]
    BY <1>1, <1>2, <1>3
  <1>5. /\ row \in Row /\ (p \notin early => row.created_at <= clock)
        /\ calls[p].after \subseteq answered
        /\ \A a \in calls[p].after : /\ a.channel = row.channel
                                     /\ a.created_at <= row.created_at
    BY DEF ArtifactInv, CallInv, InHand
  <1>6. \A a \in artifacts : a.version # row.version
    BY DEF Conflict
  <1>7. IsFiniteSet(artifacts') /\ artifacts' \subseteq Row
    <2>1. IsFiniteSet(artifacts \cup {row})
      BY FS_AddElement DEF ArtifactInv
    <2> QED
      BY <1>5, <2>1 DEF ArtifactInv
  <1>8. Unique'
    BY <1>6 DEF ArtifactInv, Unique
  <1>9. \A q \in Publishers : CallInv(q)'
    <2>1. CallInv(p)'
      BY <1>2, <1>4, <1>5 DEF CallInv
    <2>2. \A q \in Publishers : q # p => CallInv(q)'
      BY <1>4 DEF ArtifactInv, CallInv, InHand, Accepted
    <2> QED
      BY <2>1, <2>2
  <1>10. PublishedOnce'
    <2>1. \A q \in Publishers : q # p /\ Accepted(q)' =>
             /\ Accepted(q) /\ calls'[q].row = calls[q].row
             /\ calls[q].row.version # row.version
      BY <1>4, <1>6 DEF Accepted, ArtifactInv, CallInv
    <2>2. \A a \in answered : a.version # row.version
      BY <1>6 DEF ArtifactInv
    <2>3. calls'[p].row = row
      BY <1>2, <1>4
    <2>4. ASSUME NEW q \in Publishers, Accepted(q)'
          PROVE  /\ \A a \in answered' : a.version # calls'[q].row.version
                 /\ \A r \in Publishers :
                      Accepted(r)' /\ calls'[r].row.version = calls'[q].row.version => r = q
      <3>1. CASE q = p
        BY <2>1, <2>2, <2>3, <3>1
      <3>2. CASE q # p
        BY <2>1, <2>3, <2>4, <3>2 DEF ArtifactInv, PublishedOnce
      <3> QED
        BY <3>1, <3>2
    <2> QED
      BY <2>4 DEF ArtifactInv, PublishedOnce
  <1> QED
    BY <1>4, <1>7, <1>8, <1>9, <1>10 DEF ArtifactInv

\* create refuses, or inserts.
LEMMA CreateKeeps ==
    ASSUME ArtifactInv, NEW p \in Publishers, create(p)
    PROVE  ArtifactInv'
  <1>1. ASSUME NEW e, Refuses(p, map_err(e)), UNCHANGED artifacts
        PROVE  ArtifactInv'
    <2> DEFINE call == [NoPublish EXCEPT !.pc = "replied", !.code = map_err(e)]
    <2>1. map_err(e) \in ArtifactCodes /\ map_err(e) # "ok"
      BY DEF map_err, ArtifactCodes
    <2>2. call \in Publish /\ call.pc = "replied" /\ call.code = map_err(e) /\ call.after = {}
          /\ call # NoPublish
      BY <2>1, Ended
    <2>3. calls' = [calls EXCEPT ![p] = call]
          /\ UNCHANGED <<clock, artifacts, answered, early, current, follows>>
      BY <1>1 DEF create, Refuses
    <2> HIDE DEF call
    <2> QED
      BY <2>1, <2>2, <2>3, CallChanges
  <1> QED
    BY <1>1, InsertKeeps DEF create

\* The publisher is answered, and the history grows.
LEMMA RespondKeeps ==
    ASSUME ArtifactInv, NEW p \in Publishers, Respond(p)
    PROVE  ArtifactInv'
  <1>0. calls' = [calls EXCEPT ![p] = NoPublish] /\ UNCHANGED <<clock, artifacts>>
        /\ early' = early \ {p} /\ calls[p].pc = "replied"
    BY DEF Respond
  <1>1. CASE calls[p].code # "ok"
    <2>1. UNCHANGED <<answered, current, follows>>
      BY <1>1 DEF Respond
    <2>2. UNCHANGED <<clock, artifacts, answered, current, follows>>
      BY <1>0, <2>1
    <2>3. early' \subseteq early /\ p \notin early' /\ \A q \in early : q # p => q \in early'
      BY <1>0
    <2> QED
      BY <1>0, <2>2, <2>3, Ended, CallChanges
  <1>2. CASE calls[p].code = "ok"
    <2> DEFINE row == calls[p].row
    <2>1. calls \in [Publishers -> Publish]
      BY DEF ArtifactInv
    <2>2. calls' \in [Publishers -> Publish] /\ calls'[p] = NoPublish
          /\ \A q \in Publishers : q # p => calls'[q] = calls[q]
      BY <1>0, <2>1, Ended
    <2>3. answered' = answered \cup {row} /\ follows' = follows \cup (calls[p].after \X {row})
      BY <1>2 DEF Respond
    <2>4. Accepted(p)
      BY <1>0, <1>2 DEF Accepted
    <2>5. /\ row \in artifacts /\ calls[p].after \subseteq answered
          /\ p \notin early => row.created_at <= clock
          /\ \A a \in calls[p].after : /\ a.channel = row.channel
                                       /\ a.created_at <= row.created_at
      BY <2>4 DEF ArtifactInv, CallInv, InHand
    <2>6. answered' \subseteq artifacts'
      BY <1>0, <2>3, <2>5 DEF ArtifactInv
    <2>7. follows' \subseteq answered' \X answered'
      BY <2>3, <2>5 DEF ArtifactInv
    <2>8. \A pair \in follows' : /\ pair[1].channel = pair[2].channel
                                 /\ pair[1].created_at <= pair[2].created_at
      BY <2>3, <2>5 DEF ArtifactInv
    <2>9. \A q \in Publishers : CallInv(q)'
      <3>1. CallInv(p)'
        <4>1. p \notin early'
          BY <1>0
        <4> QED
          BY <2>2, <4>1, Ended DEF CallInv, InHand, Accepted
      <3>2. ASSUME NEW q \in Publishers, q # p PROVE CallInv(q)'
        <4>1. calls'[q] = calls[q] /\ (q \in early' <=> q \in early) /\ clock' = clock
          BY <1>0, <2>2, <3>2
        <4>2. CallInv(q)
          BY DEF ArtifactInv
        <4> QED
          BY <1>0, <2>3, <4>1, <4>2 DEF CallInv, InHand, Accepted
      <3> QED
        BY <3>1, <3>2
    <2>10. PublishedOnce'
      <3>1. \A q \in Publishers : Accepted(q)' => q # p /\ Accepted(q) /\ calls'[q] = calls[q]
        BY <2>2, Ended DEF Accepted
      <3>2. \A q \in Publishers : q # p /\ Accepted(q) => calls[q].row.version # row.version
        BY <2>4 DEF ArtifactInv, PublishedOnce
      <3>3. \A a \in answered : a.version # row.version
        BY <2>4 DEF ArtifactInv, PublishedOnce
      <3>4. \A a, b \in answered' : a.version = b.version => a = b
        BY <2>3, <3>3 DEF ArtifactInv, PublishedOnce
      <3>5. \A q \in Publishers : Accepted(q)' =>
               \A a \in answered' : a.version # calls'[q].row.version
        BY <2>3, <3>1, <3>2 DEF ArtifactInv, PublishedOnce
      <3>6. \A q, r \in Publishers :
               Accepted(q)' /\ Accepted(r)' /\ calls'[r].row.version = calls'[q].row.version
                  => r = q
        BY <3>1 DEF ArtifactInv, PublishedOnce
      <3> QED
        BY <3>4, <3>5, <3>6 DEF PublishedOnce
    <2>11. Unique'
      BY <1>0 DEF ArtifactInv, Unique
    <2>12. current' = IF p \in early THEN current ELSE current \cup {row}
      BY <1>2 DEF Respond
    <2>13. current' \subseteq answered' /\ \A a \in current' : a.created_at <= clock'
      BY <1>0, <2>3, <2>5, <2>12 DEF ArtifactInv
    <2>14. early' \subseteq Publishers
      BY <1>0 DEF ArtifactInv
    <2> QED
      BY <1>0, <2>2, <2>6, <2>7, <2>8, <2>9, <2>10, <2>11, <2>13, <2>14 DEF ArtifactInv
  <1> QED
    BY <1>1, <1>2

\* The clock goes on, or is set back: then no row in hand or answered counts any more.
LEMMA TickKeeps ==
    ASSUME ArtifactInv, Tick
    PROVE  ArtifactInv'
  <1>1. clock \in Nat /\ clock' \in Nat /\ clock' \in 0 .. MaxClock
    BY ArtifactAssumption DEF Tick, ArtifactInv
  <1>2. UNCHANGED <<artifacts, calls, answered, follows>>
    BY DEF Tick
  <1>3. \A row \in Row : row.created_at \in Nat
    BY ArtifactAssumption DEF Row
  <1>4. PublishedOnce' /\ Unique'
    BY <1>2 DEF ArtifactInv, PublishedOnce, Accepted, Unique
  <1>5. CASE clock' < clock
    <2>1. early' = {p \in Publishers : calls[p] # NoPublish} /\ current' = {}
      BY <1>5 DEF Tick
    <2>2. ASSUME NEW p \in Publishers PROVE CallInv(p)'
      <3>1. CallInv(p)
        BY DEF ArtifactInv
      <3>2. (p \in early') = (calls[p] # NoPublish)
        BY <2>1
      <3>3. InHand(p) => calls[p] # NoPublish
        BY Ended DEF InHand, Accepted
      <3> QED
        BY <1>2, <3>1, <3>2, <3>3 DEF CallInv, InHand, Accepted
    <2> QED
      BY <1>1, <1>2, <1>4, <2>1, <2>2 DEF ArtifactInv
  <1>6. CASE ~ (clock' < clock)
    <2>1. UNCHANGED <<early, current>> /\ \A n \in Nat : n <= clock => n <= clock'
      BY <1>1, <1>6 DEF Tick
    <2>2. \A a \in current' : a.created_at <= clock'
      BY <1>3, <2>1 DEF ArtifactInv
    <2>3. \A p \in Publishers : CallInv(p)'
      BY <1>2, <1>3, <2>1 DEF ArtifactInv, CallInv, InHand, Accepted
    <2> QED
      BY <1>1, <1>2, <1>4, <2>1, <2>2, <2>3 DEF ArtifactInv
  <1> QED
    BY <1>5, <1>6

-----------------------------------------------------------------------------
(* The theorems                                                            *)

\* ArtifactInv is an invariant of the store.
LEMMA ArtifactInvariant == ArtifactSpec => []ArtifactInv
  <1>1. ArtifactInit => ArtifactInv
    <2> SUFFICES ASSUME ArtifactInit PROVE ArtifactInv
      OBVIOUS
    <2>1. clock = 0 /\ artifacts = {} /\ calls = [p \in Publishers |-> NoPublish]
          /\ answered = {} /\ early = {} /\ current = {} /\ follows = {}
      BY DEF ArtifactInit
    <2>2. clock \in 0 .. MaxClock
      BY <2>1, ArtifactAssumption
    <2>3. calls \in [Publishers -> Publish] /\ \A p \in Publishers : calls[p] = NoPublish
      BY <2>1, Ended
    <2>4. \A p \in Publishers : CallInv(p) /\ ~ Accepted(p)
      BY <2>1, <2>3, Ended DEF CallInv, InHand, Accepted
    <2>5. IsFiniteSet(artifacts)
      BY <2>1, FS_EmptySet
    <2> QED
      BY <2>1, <2>2, <2>3, <2>4, <2>5 DEF ArtifactInv, Unique, PublishedOnce
  <1>2. ArtifactInv /\ [ArtifactNext]_artifactVars => ArtifactInv'
    <2> SUFFICES ASSUME ArtifactInv, [ArtifactNext]_artifactVars PROVE ArtifactInv'
      OBVIOUS
    <2>1. ASSUME NEW p \in Publishers, CallLost(p) PROVE ArtifactInv'
      BY <2>1, Ended, CallChanges DEF CallLost
    <2>2. CASE UNCHANGED artifactVars
      BY <2>2 DEF artifactVars, ArtifactInv, CallInv, InHand, Accepted, Unique, PublishedOnce
    <2> QED
      BY <2>1, <2>2, StampKeeps, CreateKeeps, RespondKeeps, TickKeeps DEF ArtifactNext
  <1> QED
    BY <1>1, <1>2, PTL DEF ArtifactSpec

\* Every variable keeps its type; a publisher has been answered for rows only, and
\* follows relates answered rows.
THEOREM ArtifactTypeCorrect == ArtifactSpec => []ArtifactTypeOK
  <1>1. ArtifactInv => ArtifactTypeOK
    BY DEF ArtifactInv, CallInv, ArtifactTypeOK, Publish
  <1> QED
    BY <1>1, ArtifactInvariant, PTL

\* No two publishers are told "ok" for one version, whatever the channel and however
\* often they ask (create, UNIQUE(model, version)).
THEOREM VersionsPublishedOnce == ArtifactSpec => []PublishedOnce
  <1>1. ArtifactInv => PublishedOnce
    BY DEF ArtifactInv
  <1> QED
    BY <1>1, ArtifactInvariant, PTL

\* ListArtifacts shows what a publisher was told, unless as many versions at least as
\* new fill the list (list, ORDER BY created_at DESC LIMIT).
THEOREM AnsweredAreListed == ArtifactSpec => []AnsweredIsListed
  <1>1. ArtifactInv => AnsweredIsListed
    <2> SUFFICES ASSUME ArtifactInv, NEW a \in answered, NEW limit \in 1 .. 2,
                        NEW rows \in list(a.channel, limit)
                 PROVE  \/ a \in ToSet(rows)
                        \/ /\ Len(rows) = limit
                           /\ \A i \in 1 .. limit : rows[i].created_at >= a.created_at
      BY DEF AnsweredIsListed
    <2>1. IsFiniteSet(artifacts) /\ artifacts \subseteq Row /\ a \in artifacts /\ limit \in Nat
      BY DEF ArtifactInv
    <2> QED
      BY <2>1, ListFacts
  <1> QED
    BY <1>1, ArtifactInvariant, PTL

\* GetLatest answers with a version that a later request has outdated only if both
\* are of the same second, or the wall clock was set back between the two
\* (get_latest; create reads the clock before the lock).
THEOREM LatestIsCurrent == ArtifactSpec => []LatestNotOutdated
  <1>1. ArtifactInv => LatestNotOutdated
    <2> SUFFICES ASSUME ArtifactInv, NEW pair \in follows,
                        pair[1] \in get_latest(pair[2].channel)
                 PROVE  pair[1].created_at = pair[2].created_at
      BY DEF LatestNotOutdated
    <2>1. IsFiniteSet(artifacts) /\ artifacts \subseteq Row
      BY DEF ArtifactInv
    <2>2. pair[1] \in artifacts /\ pair[2] \in artifacts
      BY DEF ArtifactInv
    <2>3. pair[1].created_at <= pair[2].created_at
      BY DEF ArtifactInv
    <2>4. pair[2] \in Rows(pair[2].channel)
      BY <2>2 DEF Rows
    <2>5. pair[1].created_at >= pair[2].created_at
      BY <2>1, <2>4, LatestFacts
    <2>6. pair[1].created_at \in Nat /\ pair[2].created_at \in Nat
      BY <2>1, <2>2, ArtifactAssumption DEF Row
    <2> QED
      BY <2>3, <2>5, <2>6
  <1> QED
    BY <1>1, ArtifactInvariant, PTL

\* GetLatest never answers with an older version than before, and never stops
\* answering (create only adds rows; get_latest).
THEOREM LatestOnlyAdvances == ArtifactSpec => LatestNeverOlder
  <1> DEFINE Newest ==
               \A channel \in Channels :
                  /\ \A a \in get_latest(channel) :
                        /\ a \in Rows(channel)
                        /\ \A b \in Rows(channel) : a.created_at >= b.created_at
                  /\ Rows(channel) # {} => get_latest(channel) # {}
  <1>1. ArtifactInv => Newest
    BY LatestFacts DEF ArtifactInv
  <1>2. ASSUME [ArtifactNext]_artifactVars PROVE artifacts \subseteq artifacts'
    BY <1>2 DEF ArtifactNext, publish_artifact, create, Respond, CallLost, Tick, artifactVars
  <1>3. ASSUME Newest, Newest', [ArtifactNext]_artifactVars PROVE LatestNeverOlderStep
    <2> SUFFICES ASSUME NEW channel \in Channels, NEW old \in get_latest(channel)
                 PROVE  /\ get_latest(channel)' # {}
                        /\ \A new \in get_latest(channel)' : new.created_at >= old.created_at
      BY DEF LatestNeverOlderStep
    <2>1. old \in Rows(channel)
      BY <1>3
    <2>2. old \in Rows(channel)'
      BY <1>2, <1>3, <2>1 DEF Rows
    <2> QED
      BY <1>3, <2>2
  <1> HIDE DEF Newest
  <1> QED
    BY <1>1, <1>3, ArtifactInvariant, PTL DEF ArtifactSpec, LatestNeverOlder

=============================================================================
