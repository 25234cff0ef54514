---------------------------- MODULE ArtifactStore ----------------------------
(***************************************************************************)
(* The artifact store (artifact-store/src): publishers register versions   *)
(* of a model, operators list them and ask for the latest of a channel.    *)
(*                                                                         *)
(* PublishArtifact reads the clock, in whole seconds, before it takes the  *)
(* registry's lock: rows may be inserted in another order than that of     *)
(* their created_at.  A publisher that does not get its answer may ask     *)
(* again.  The clock is the machine's wall clock, which may be set to any  *)
(* time.  Nothing in the store looks at the object an artifact names, so   *)
(* uploads are left out.                                                   *)
(***************************************************************************)
EXTENDS Naturals, Sequences, SequencesExt

CONSTANTS
    Versions,   \* versions of one model
    Channels,   \* release channels
    Hashes,     \* sha256 of a binary
    Publishers, \* PublishArtifact calls in flight together
    MaxClock,   \* bound on the clock
    Nil         \* an empty request field, no value

ASSUME ArtifactAssumption == MaxClock \in Nat /\ Nil \notin Hashes

Request == [version : Versions, sha256 : Hashes \cup {Nil}, channel : Channels]
Row == [version : Versions, sha256 : Hashes, channel : Channels, created_at : 0 .. MaxClock]
ArtifactCodes == {"ok", "invalid_argument", "already_exists", "internal"}

VARIABLES
    clock,      \* seconds
    artifacts,  \* the table
    calls,      \* publisher |-> its call: the row it asks for, and the code it gets
    answered,   \* history: rows whose publisher has been answered "ok"
    early,      \* history: publishers whose row was stamped before the clock was last
                \* set back
    current,    \* history: answered rows stamped since then
    follows     \* history: pairs <<a, b>> of one channel, b was asked for after a had
                \* been answered, the clock not set back since a was stamped

artifactVars == <<clock, artifacts, calls, answered, early, current, follows>>

NoPublish == [pc |-> "idle", row |-> Nil, code |-> Nil, after |-> {}]

ArtifactTypeOK ==
    /\ clock \in 0 .. MaxClock
    /\ artifacts \subseteq Row
    /\ \A p \in Publishers :
          /\ calls[p].pc \in {"idle", "stamped", "replied"}
          /\ calls[p].code \in ArtifactCodes \cup {Nil}
          /\ calls[p].after \subseteq answered
    /\ answered \subseteq Row
    /\ early \subseteq Publishers /\ current \subseteq answered
    /\ follows \subseteq answered \X answered

ArtifactInit ==
    /\ clock = 0
    /\ artifacts = {}
    /\ calls = [p \in Publishers |-> NoPublish]
    /\ answered = {} /\ early = {} /\ current = {} /\ follows = {}

map_err(e) == IF e = "VersionConflict" THEN "already_exists" ELSE "internal"

Accepts(p) == calls' = [calls EXCEPT ![p].pc = "replied", ![p].code = "ok"]
Refuses(p, code) ==
    calls' = [calls EXCEPT ![p] = [NoPublish EXCEPT !.pc = "replied", !.code = code]]

-----------------------------------------------------------------------------
(* PublishArtifact                                                         *)

\* The row that create will insert, stamped with the time.
Stamped(request) == [version |-> request.version, sha256 |-> request.sha256,
                     channel |-> request.channel, created_at |-> clock]

StampedCall(request) ==
    [pc |-> "stamped", row |-> Stamped(request), code |-> Nil,
     after |-> {a \in current : a.channel = request.channel}]

\* Mutant: sha256 is not looked at.
publish_artifact_unchecked(p, request) ==
    /\ calls[p] = NoPublish
    /\ calls' = [calls EXCEPT ![p] = StampedCall(request)]
    /\ UNCHANGED <<clock, artifacts, answered, early, current, follows>>

\* The handler checks the request, then create reads the clock.
publish_artifact(p, request) ==
    /\ calls[p] = NoPublish
    /\ \/ /\ request.sha256 = Nil
          /\ Refuses(p, "invalid_argument")
       \/ /\ request.sha256 # Nil
          /\ calls' = [calls EXCEPT ![p] = StampedCall(request)]
    /\ UNCHANGED <<clock, artifacts, answered, early, current, follows>>

\* Mutant: UNIQUE(model, version, channel).
Conflict_per_channel(row) ==
    \E a \in artifacts : a.version = row.version /\ a.channel = row.channel

\* UNIQUE(model, version), whatever the channel.
Conflict(row) == \E a \in artifacts : a.version = row.version

\* Mutant: INSERT OR REPLACE.
create_or_replace(p) ==
    LET row == calls[p].row
    IN  /\ calls[p].pc = "stamped"
        /\ artifacts' = {a \in artifacts : a.version # row.version} \cup {row}
        /\ Accepts(p)
        /\ UNCHANGED <<clock, answered, early, current, follows>>

create(p) ==
    LET row == calls[p].row
    IN  /\ calls[p].pc = "stamped"
        /\ \/ Conflict(row) /\ Refuses(p, map_err("VersionConflict")) /\ UNCHANGED artifacts
           \/ ~ Conflict(row) /\ Accepts(p) /\ artifacts' = artifacts \cup {row}
           \/ Refuses(p, map_err("Db")) /\ UNCHANGED artifacts
        /\ UNCHANGED <<clock, answered, early, current, follows>>

\* The publisher gets the response.
Respond(p) ==
    /\ calls[p].pc = "replied"
    /\ calls' = [calls EXCEPT ![p] = NoPublish]
    /\ IF calls[p].code = "ok"
         THEN /\ answered' = answered \cup {calls[p].row}
              /\ current' = IF p \in early THEN current ELSE current \cup {calls[p].row}
              /\ follows' = follows \cup (calls[p].after \X {calls[p].row})
         ELSE UNCHANGED <<answered, current, follows>>
    /\ early' = early \ {p}
    /\ UNCHANGED <<clock, artifacts>>

\* The response does not reach the publisher, or the process stops.
CallLost(p) ==
    /\ calls[p] # NoPublish
    /\ calls' = [calls EXCEPT ![p] = NoPublish]
    /\ early' = early \ {p}
    /\ UNCHANGED <<clock, artifacts, answered, current, follows>>

\* The wall clock runs, or is set.
Tick ==
    /\ clock' \in 0 .. MaxClock
    /\ IF clock' < clock
         THEN early' = {p \in Publishers : calls[p] # NoPublish} /\ current' = {}
         ELSE UNCHANGED <<early, current>>
    /\ UNCHANGED <<artifacts, calls, answered, follows>>

ArtifactNext ==
    \/ \E p \in Publishers :
          \/ \E request \in Request : publish_artifact(p, request)
          \/ create(p)
          \/ Respond(p)
          \/ CallLost(p)
    \/ Tick

ArtifactSpec == ArtifactInit /\ [][ArtifactNext]_artifactVars

-----------------------------------------------------------------------------
(* GetLatest and ListArtifacts: the answers that are possible              *)

\* Mutant: ORDER BY created_at, ascending.
OrderedAscending(channel) ==
    {s \in SetToSeqs({a \in artifacts : a.channel = channel}) :
        \A i \in 1 .. Len(s) - 1 : s[i].created_at <= s[i + 1].created_at}

\* ORDER BY created_at DESC, rows of one second in any order.
Ordered(channel) ==
    {s \in SetToSeqs({a \in artifacts : a.channel = channel}) :
        \A i \in 1 .. Len(s) - 1 : s[i].created_at >= s[i + 1].created_at}

\* LIMIT 1; no row is NotFound.
get_latest(channel) == {s[1] : s \in Ordered(channel) \ {<<>>}}

list(channel, limit) ==
    {SubSeq(s, 1, IF Len(s) < limit THEN Len(s) ELSE limit) : s \in Ordered(channel)}

-----------------------------------------------------------------------------
(* Properties                                                              *)

\* Its row is in the table, and the publisher is about to be told so.
Accepted(p) == calls[p].pc = "replied" /\ calls[p].code = "ok"

\* A version is published once, across channels, concurrent publishers and repeated
\* requests: no two publishers are told "ok" for one version, not even for the same
\* row (create, UNIQUE(model, version)).
PublishedOnce ==
    /\ \A a, b \in answered : a.version = b.version => a = b
    /\ \A p \in Publishers : Accepted(p) =>
          /\ \A a \in answered : a.version # calls[p].row.version
          /\ \A q \in Publishers :
                Accepted(q) /\ calls[q].row.version = calls[p].row.version => q = p

\* What a publisher was told is what operators see, ever after: ListArtifacts leaves
\* an answered version out only for as many versions of its channel that are at
\* least as new.
AnsweredIsListed ==
    \A a \in answered, limit \in 1 .. 2 :
        \A rows \in list(a.channel, limit) :
            \/ a \in ToSet(rows)
            \/ Len(rows) = limit /\ \A i \in 1 .. limit : rows[i].created_at >= a.created_at

\* The latest version is not an outdated one: GetLatest returns a version although a
\* later one of its channel, asked for after it was answered, has been answered too,
\* only if both were created in the same second or the wall clock was set back
\* between the two.  Setting it back at any other time does no harm.
LatestNotOutdated ==
    \A pair \in follows :
        pair[1] \in get_latest(pair[2].channel) => pair[1].created_at = pair[2].created_at

\* No answer of GetLatest is older than an earlier one for the same channel, though
\* rows are inserted out of order and publishers share version numbers.
LatestNeverOlderStep ==
    \A channel \in Channels :
        \A old \in get_latest(channel) :
            /\ get_latest(channel)' # {}
            /\ \A new \in get_latest(channel)' : new.created_at >= old.created_at
LatestNeverOlder == [][LatestNeverOlderStep]_artifactVars

=============================================================================
