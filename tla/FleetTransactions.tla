-------------------------- MODULE FleetTransactions --------------------------
(***************************************************************************)
(* FleetServer over a database whose COMMIT may fail.                      *)
(*                                                                         *)
(* lookup_and_claim and claim_manifest_entry are the two operations of the *)
(* store with a transaction of their own.  When their COMMIT is refused    *)
(* (SQLITE_BUSY: another process reads the database) the error is returned *)
(* and nothing rolls the transaction back: SQLite keeps it open on the one *)
(* connection of the process.  From then on every statement of the service *)
(* runs inside it, every BEGIN IMMEDIATE is refused, and all of it is lost *)
(* with the process.  A COMMIT that fails and is rolled back by SQLite     *)
(* itself is the "db" fault of DeviceStore.                                *)
(***************************************************************************)
EXTENDS FleetServer

VARIABLES
    txOpen,     \* a transaction was left open
    durable,    \* the tables as they are on disk
    unsaved     \* history: admissions made within a transaction that was left open

txVars == <<vars, txOpen, durable, unsaved>>

TxInit == ServerInit /\ txOpen = FALSE /\ durable = tables /\ unsaved = {}

ProvisionCall(s, key) == [Idle EXCEPT !.op = "provision", !.serial = s, !.key = key]
EnrollCall(s, key) == [Idle EXCEPT !.op = "enroll", !.serial = s, !.key = key]

\* bootstrap_enroll gets as far as the claim.
PeerAccepted(s, peer) == s \in {Nil, extract_serial(peer)} /\ verify_signed_by(peer, "device")

Replies(c, call, code) ==
    /\ Accepts(c)
    /\ calls' = [calls EXCEPT ![c] = Answer(call, code)]
    /\ UNCHANGED <<up, deviceCerts, admitted, resets>>

-----------------------------------------------------------------------------
(* The two operations with a transaction                                   *)

\* Mutant: the error of COMMIT is ignored.
provision_commit_ignored(c, s, key, token) ==
    /\ Accepts(c)
    /\ claim_manifest_entry(s, token, "Ok")
    /\ calls' = [calls EXCEPT ![c] = Goto(ProvisionCall(s, key), "claimed")]
    /\ txOpen' = TRUE
    /\ UNCHANGED <<up, deviceCerts, admitted, resets, durable>>

\* COMMIT is refused: the statements were executed, the caller gets an error.
provision_commit_fails(c, s, key, token) ==
    /\ claim_manifest_entry(s, token, "Ok")
    /\ Replies(c, ProvisionCall(s, key), provisioning_map_err("Db"))
    /\ txOpen' = TRUE
    /\ UNCHANGED durable

enroll_commit_fails(c, s, key, peer) ==
    /\ PeerAccepted(s, peer)
    /\ lookup_and_claim(extract_serial(peer), "Ok")
    /\ Replies(c, EnrollCall(extract_serial(peer), key), map_err("Db"))
    /\ txOpen' = TRUE
    /\ UNCHANGED durable

CommitFails(c) ==
    \/ \E s \in Serials, key \in Keys, token \in Tokens :
          provision_commit_fails(c, s, key, token)
    \/ \E s \in Serials \cup {Nil}, key \in Keys, peer \in PeerCerts :
          enroll_commit_fails(c, s, key, peer)

\* BEGIN IMMEDIATE is refused within the open transaction.
provision_refused(c, s, key) ==
    Replies(c, ProvisionCall(s, key), provisioning_map_err("Db")) /\ UNCHANGED tables

enroll_refused(c, s, key, peer) ==
    /\ PeerAccepted(s, peer)
    /\ Replies(c, EnrollCall(extract_serial(peer), key), map_err("Db"))
    /\ UNCHANGED tables

-----------------------------------------------------------------------------
(* The service with and without an open transaction                        *)

\* Every operation commits on its own.
AutoCommit ==
    /\ ~ txOpen
    /\ \/ Next /\ durable' = tables' /\ UNCHANGED txOpen
       \/ \E c \in Calls : CommitFails(c)
    /\ UNCHANGED unsaved

RequestInTx(c) ==
    \/ \E s \in Serials \cup {Nil}, key \in Keys \cup {Nil}, token \in Tokens \cup {Nil} :
          \/ Nil \in {s, key, token} /\ provision_device(c, s, key, token)
          \/ Nil \notin {s, key, token} /\ provision_refused(c, s, key)
    \/ \E s \in Serials \cup {Nil}, key \in Keys, peer \in PeerCerts :
          \/ ~ PeerAccepted(s, peer) /\ bootstrap_enroll(c, s, key, peer)
          \/ enroll_refused(c, s, key, peer)
    \/ \E id \in Ids, key \in Keys : renew_cert(c, id, key)
    \/ \E id \in Ids, status \in Statuses : update_device_status(c, id, status)

InTx ==
    /\ txOpen
    /\ \/ \E c \in Calls : RequestInTx(c) \/ HandlerStep(c)
       \/ \E s \in Serials : RegisterSerial(s)
    /\ unsaved' = unsaved \cup (admitted' \ admitted)
    /\ UNCHANGED <<txOpen, durable>>

\* The process stops: SQLite rolls the open transaction back at the next start.
CrashInTx ==
    /\ txOpen
    /\ "crash" \in Faults
    /\ up' = FALSE
    /\ calls' = [c \in Calls |-> Idle]
    /\ manifest' = durable[1] /\ preEnrollment' = durable[2] /\ devices' = durable[3]
    /\ txOpen' = FALSE
    /\ UNCHANGED <<durable, unsaved, deviceCerts, admitted, resets>>

TxNext == AutoCommit \/ InTx \/ CrashInTx

TxSpec == TxInit /\ [][TxNext]_txVars

-----------------------------------------------------------------------------
(* Properties                                                              *)

\* No certificate rests on a claim that a restart would undo: a handler past its
\* claim, and a device certificate that was returned, have that claim on disk, as
\* long as no operator resets it (lookup_and_claim, claim_manifest_entry: COMMIT
\* comes before the caller goes on).
ClaimsDurable ==
    /\ \A x \in deviceCerts : durable[1][x.serial] # Nil /\ durable[1][x.serial].provisioned
    /\ \A c \in Calls : At(c, "provision", "claimed") =>
          durable[1][calls[c].serial] # Nil /\ durable[1][calls[c].serial].provisioned
    /\ \A s \in Serials \ resets :
          (\E c \in Calls : Enrolling(c, s)) => durable[2][s] = "claimed"

\* Every refusal tells the client the reason: without faults of the store or the
\* signer, "internal" is only ever answered after a COMMIT has failed (the two
\* map_err functions).
InternalOnlyOnFault ==
    (Faults \cap {"db", "sign"} = {} /\ ~ txOpen) => \A c \in Calls : calls[c].code # "internal"

\* What is left of "cannot enroll twice" when COMMIT may fail: an admission made while
\* no transaction was open keeps its row on disk through every restart, and of two
\* admissions of a serial one at least was made within a transaction that a refused
\* COMMIT, of whichever robot's call, had left open (create_device runs in it).
SavedAdmittedOnce ==
    \A a \in admitted \ unsaved :
        /\ durable[3][a.id] # Nil
        /\ durable[3][a.id].serial = a.serial
        /\ durable[3][a.id].key = a.key
        /\ \A b \in admitted \ unsaved : b.serial = a.serial => b = a

=============================================================================
