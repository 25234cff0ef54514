----------------------- MODULE FleetTransactionsProofs -----------------------
(***************************************************************************)
(* Proofs about FleetTransactions: what a refused COMMIT leaves open never *)
(* stands behind a certificate.                                            *)
(***************************************************************************)
EXTENDS FleetTransactions, FleetPhasesProofs

-----------------------------------------------------------------------------
(* Types                                                                   *)

\* What is on disk are tables, and without an open transaction the ones in use.
DurableOK ==
    /\ durable[1] \in [Serials -> ManifestRow \cup {Nil}]
    /\ durable[2] \in [Serials -> {"absent", "unclaimed", "claimed"}]
    /\ durable[3] \in [Ids -> DeviceRow \cup {Nil}]
    /\ ~ txOpen => /\ durable[1] = manifest
                   /\ durable[2] = preEnrollment
                   /\ durable[3] = devices

TxTypeInv == TypeInv /\ DurableOK /\ txOpen \in BOOLEAN

\* A call of either operation is a call.
LEMMA TxCalls ==
    /\ \A s \in Serials \cup {Nil}, key \in Keys \cup {Nil} : ProvisionCall(s, key) \in Call
    /\ \A s \in Serials, key \in Keys : EnrollCall(s, key) \in Call
  BY NewCalls DEF ProvisionCall, EnrollCall, Ops

\* What the steps of this module have in common that are not steps of FleetServer:
\* a new call is answered at once.
AnsweredAtOnce ==
    /\ UNCHANGED <<up, deviceCerts, admitted, resets, devices>>
    /\ \E c \in Calls, call \in Call, e \in {map_err("Db"), provisioning_map_err("Db")} :
          calls' = [calls EXCEPT ![c] = Answer(call, e)]

\* A refused COMMIT answers the call and leaves what it has written to the connection.
LEMMA CommitFailsStep ==
    ASSUME TypeInv, NEW c \in Calls, CommitFails(c)
    PROVE  AnsweredAtOnce /\ StoreTypeOK' /\ txOpen' /\ UNCHANGED durable
  <1>0. StoreTypeOK
    BY DEF TypeInv, TypeOK
  <1>1. ASSUME NEW s \in Serials, NEW key \in Keys, NEW token \in Tokens,
               provision_commit_fails(c, s, key, token)
        PROVE  AnsweredAtOnce /\ StoreTypeOK' /\ txOpen' /\ UNCHANGED durable
    <2>1. StoreTypeOK'
      BY <1>0, <1>1, ClaimManifestType DEF provision_commit_fails
    <2>2. UNCHANGED devices
      BY <1>1 DEF provision_commit_fails, claim_manifest_entry, DbFails, tables
    <2>3. AnsweredAtOnce
      BY <1>1, <2>2, TxCalls DEF provision_commit_fails, Replies, AnsweredAtOnce
    <2> QED
      BY <1>1, <2>1, <2>3 DEF provision_commit_fails
  <1>2. ASSUME NEW s, NEW key \in Keys, NEW peer \in PeerCerts,
               enroll_commit_fails(c, s, key, peer)
        PROVE  AnsweredAtOnce /\ StoreTypeOK' /\ txOpen' /\ UNCHANGED durable
    <2>0. extract_serial(peer) \in Serials
      BY PeerCertsType DEF extract_serial, Cert
    <2>1. StoreTypeOK'
      BY <1>0, <1>2, <2>0, LookupType DEF enroll_commit_fails
    <2>2. UNCHANGED devices
      BY <1>2 DEF enroll_commit_fails, lookup_and_claim, DbFails, tables
    <2>3. AnsweredAtOnce
      BY <1>2, <2>0, <2>2, TxCalls DEF enroll_commit_fails, Replies, AnsweredAtOnce
    <2> QED
      BY <1>2, <2>1, <2>3 DEF enroll_commit_fails
  <1> QED
    BY <1>1, <1>2 DEF CommitFails

\* Within the open transaction a request is refused, or handled as without one and
\* then claims nothing.
LEMMA InTxStep ==
    ASSUME TypeInv, InTx
    PROVE  /\ UNCHANGED <<txOpen, durable, manifest>>
           /\ \A s \in Serials : preEnrollment[s] = "unclaimed" => preEnrollment'[s] # "claimed"
           /\ Next \/ (AnsweredAtOnce /\ UNCHANGED tables)
  <1>0. StoreTypeOK
    BY DEF TypeInv, TypeOK
  <1> DEFINE Quiet == /\ UNCHANGED manifest
                      /\ \A s \in Serials :
                            preEnrollment[s] = "unclaimed" => preEnrollment'[s] # "claimed"
  <1>1. ASSUME NEW c \in Calls, NEW s \in Serials \cup {Nil}, NEW key \in Keys \cup {Nil},
               NEW token \in Tokens \cup {Nil}, Nil \in {s, key, token},
               provision_device(c, s, key, token)
        PROVE  Quiet /\ Next
    <2>1. UNCHANGED tables
      BY <1>1 DEF provision_device
    <2>2. Next
      BY <1>1 DEF Next, Request
    <2> QED
      BY <2>1, <2>2 DEF tables
  <1>2. ASSUME NEW c \in Calls, NEW s \in Serials \cup {Nil}, NEW key \in Keys \cup {Nil},
               provision_refused(c, s, key)
        PROVE  AnsweredAtOnce /\ UNCHANGED tables
    BY <1>2, TxCalls DEF provision_refused, Replies, AnsweredAtOnce, tables
  <1>3. ASSUME NEW c \in Calls, NEW s \in Serials \cup {Nil}, NEW key \in Keys,
               NEW peer \in PeerCerts, ~ PeerAccepted(s, peer),
               bootstrap_enroll(c, s, key, peer)
        PROVE  Quiet /\ Next
    <2>1. UNCHANGED tables
      BY <1>3 DEF bootstrap_enroll, PeerAccepted
    <2>2. Next
      BY <1>3 DEF Next, Request
    <2> QED
      BY <2>1, <2>2 DEF tables
  <1>4. ASSUME NEW c \in Calls, NEW s, NEW key \in Keys, NEW peer \in PeerCerts,
               enroll_refused(c, s, key, peer)
        PROVE  AnsweredAtOnce /\ UNCHANGED tables
    <2>1. extract_serial(peer) \in Serials
      BY PeerCertsType DEF extract_serial, Cert
    <2> QED
      BY <1>4, <2>1, TxCalls DEF enroll_refused, Replies, AnsweredAtOnce, tables
  <1>5. ASSUME NEW c \in Calls,
               \/ \E id \in Ids, key \in Keys : renew_cert(c, id, key)
               \/ \E id \in Ids, status \in Statuses : update_device_status(c, id, status)
        PROVE  Quiet /\ Next
    <2>1. UNCHANGED <<manifest, preEnrollment>>
      BY <1>5 DEF renew_cert, get_device, update_device_status, update_status, DbFails, tables
    <2>2. Next
      BY <1>5 DEF Next, Request
    <2> QED
      BY <2>1, <2>2
  <1>6. ASSUME NEW c \in Calls, HandlerStep(c) PROVE Quiet /\ Next
    <2>1. UNCHANGED <<manifest, preEnrollment>>
      BY <1>6 DEF HandlerStep, provision_sign, enroll_sign, enroll_create, create_device,
                  renew_sign, update_read_back, Respond, SignFails, get_device, DbFails, tables
    <2>2. Next
      BY <1>6 DEF Next
    <2> QED
      BY <2>1, <2>2
  <1>7. ASSUME NEW s \in Serials, RegisterSerial(s) PROVE Quiet /\ Next
    <2>1. Quiet
      BY <1>0, <1>7 DEF RegisterSerial, register_serial, StoreTypeOK
    <2>2. Next
      BY <1>7 DEF Next
    <2> QED
      BY <2>1, <2>2
  <1>8. (AnsweredAtOnce /\ UNCHANGED tables) => Quiet
    BY DEF tables
  <1>9. UNCHANGED <<txOpen, durable>>
    BY DEF InTx
  <1>10. Quiet /\ (Next \/ (AnsweredAtOnce /\ UNCHANGED tables))
    <2>1. ASSUME NEW c \in Calls, RequestInTx(c)
          PROVE  Quiet /\ (Next \/ (AnsweredAtOnce /\ UNCHANGED tables))
      BY <1>1, <1>2, <1>3, <1>4, <1>5, <1>8, <2>1 DEF RequestInTx
    <2> QED
      BY <1>6, <1>7, <2>1 DEF InTx
  <1> QED
    BY <1>9, <1>10

\* A call answered at once keeps the types.
LEMMA AnsweredType ==
    ASSUME TypeInv, AnsweredAtOnce, StoreTypeOK'
    PROVE  TypeInv'
  <1>1. PICK c \in Calls, call \in Call, e \in {map_err("Db"), provisioning_map_err("Db")} :
           calls' = [calls EXCEPT ![c] = Answer(call, e)]
    BY DEF AnsweredAtOnce
  <1>2. GoodCall(Answer(call, e))
    BY <1>1, GoodCalls
  <1> QED
    BY <1>1, <1>2, OneCallStep DEF AnsweredAtOnce

\* The types hold initially.
LEMMA TxTypeInit == TxInit => TxTypeInv
  <1> SUFFICES ASSUME TxInit PROVE TxTypeInv
    OBVIOUS
  <1>1. TypeInv
    BY TypeInit DEF TxInit
  <1>2. durable[1] = manifest /\ durable[2] = preEnrollment /\ durable[3] = devices
    BY DEF TxInit, tables
  <1> QED
    BY <1>1, <1>2 DEF TxTypeInv, DurableOK, TxInit, TypeInv, TypeOK, StoreTypeOK

\* The types are preserved by every step, the rollback after a crash included.
LEMMA TxTypeStep == TxTypeInv /\ [TxNext]_txVars => TxTypeInv'
  <1> SUFFICES ASSUME TxTypeInv, [TxNext]_txVars PROVE TxTypeInv'
    OBVIOUS
  <1>0. TypeInv /\ StoreTypeOK /\ DurableOK
    BY DEF TxTypeInv, TypeInv, TypeOK
  <1>1. CASE ~ txOpen /\ Next /\ durable' = tables' /\ UNCHANGED txOpen
    <2>1. TypeInv'
      BY <1>0, <1>1, TypeStep
    <2>2. durable'[1] = manifest' /\ durable'[2] = preEnrollment' /\ durable'[3] = devices'
      BY <1>1 DEF tables
    <2> QED
      BY <1>1, <2>1, <2>2 DEF TxTypeInv, DurableOK, TypeInv, TypeOK, StoreTypeOK
  <1>2. ASSUME NEW c \in Calls, CommitFails(c), ~ txOpen PROVE TxTypeInv'
    <2>1. AnsweredAtOnce /\ StoreTypeOK' /\ txOpen' /\ UNCHANGED durable
      BY <1>0, <1>2, CommitFailsStep
    <2>2. TypeInv'
      BY <1>0, <2>1, AnsweredType
    <2>3. txOpen' = TRUE
      BY <1>2 DEF CommitFails, provision_commit_fails, enroll_commit_fails
    <2> QED
      BY <1>0, <2>1, <2>2, <2>3 DEF TxTypeInv, DurableOK
  <1>3. CASE InTx
    <2>1. /\ UNCHANGED <<txOpen, durable>>
          /\ Next \/ (AnsweredAtOnce /\ UNCHANGED tables)
      BY <1>0, <1>3, InTxStep
    <2>2. UNCHANGED tables => StoreTypeOK'
      BY <1>0 DEF StoreTypeOK, tables
    <2>3. TypeInv'
      BY <1>0, <2>1, <2>2, TypeStep, AnsweredType
    <2> QED
      BY <1>0, <1>3, <2>1, <2>3 DEF TxTypeInv, DurableOK, InTx
  <1>4. CASE CrashInTx
    <2>1. manifest' = durable[1] /\ preEnrollment' = durable[2] /\ devices' = durable[3]
      BY <1>4 DEF CrashInTx
    <2>2. StoreTypeOK'
      BY <1>0, <2>1 DEF DurableOK, StoreTypeOK
    <2>3. calls' \in [Calls -> Call] /\ \A d \in Calls : ArgsOK(calls'[d])
      BY <1>4, GoodCalls DEF CrashInTx, GoodCall
    <2>4. TypeInv'
      BY <1>0, <1>4, <2>2, <2>3 DEF CrashInTx, TypeInv, TypeOK
    <2> QED
      BY <1>0, <1>4, <2>1, <2>4 DEF TxTypeInv, DurableOK, CrashInTx
  <1>5. CASE UNCHANGED txVars
    <2>1. UNCHANGED vars /\ UNCHANGED <<txOpen, durable>>
      BY <1>5 DEF txVars
    <2>2. TypeInv'
      BY <1>0, <2>1, TypeStep
    <2> QED
      BY <1>0, <2>1, <2>2 DEF TxTypeInv, DurableOK, vars, tables
  <1> QED
    BY <1>1, <1>2, <1>3, <1>4, <1>5 DEF TxNext, AutoCommit

\* Tables and calls keep their types though a refused COMMIT leaves its transaction
\* open and a crash rolls it back.
THEOREM TxTypeCorrect == TxSpec => []TypeOK
  <1>1. TxSpec => []TxTypeInv
    BY TxTypeInit, TxTypeStep, PTL DEF TxSpec
  <1>2. TxTypeInv => TypeOK
    BY DEF TxTypeInv, TypeInv
  <1> QED
    BY <1>1, <1>2, PTL

-----------------------------------------------------------------------------
(* Claims are on disk before anything rests on them                        *)

\* The manifest entry of s is used up on disk.
UsedUpOnDisk(s) == durable[1][s] # Nil /\ durable[1][s].provisioned

\* The inductive invariant: ClaimsDurable with the types, and what is on disk while
\* no transaction is open.
DurableInv == TxTypeInv /\ ClaimsDurable

\* A call answered at once is past no claim.
LEMMA AnsweredClaimsNothing ==
    ASSUME TypeInv, AnsweredAtOnce
    PROVE  NoProvisioning /\ NoEnrollment
  <1>1. PICK c \in Calls, call \in Call, e \in {map_err("Db"), provisioning_map_err("Db")} :
           calls' = [calls EXCEPT ![c] = Answer(call, e)]
    BY DEF AnsweredAtOnce
  <1>2. Answer(call, e).pc = "replied"
    BY CallFields
  <1>3. NoProvisioning
    BY <1>1, <1>2, OtherCalls DEF NoProvisioning, AnsweredAtOnce
  <1>4. NoAdmission
    BY SameTables DEF NoAdmission, AnsweredAtOnce
  <1>5. \A d \in Calls, s \in Serials : Enrolling(d, s)' => Enrolling(d, s)
    BY <1>1, <1>2, OtherEnrollments
  <1> QED
    BY <1>3, <1>4, <1>5 DEF NoEnrollment

\* A step that leaves the disk alone and claims nothing keeps ClaimsDurable.
LEMMA DurableWithoutClaims ==
    ASSUME DurableInv, UNCHANGED durable, resets \subseteq resets',
           NoProvisioning \/ \E c \in Calls, s \in Serials : Certifies(c, s),
           NoEnrollment \/ \E c \in Calls, id \in Ids : Enters(c, id),
           TypeInv'
    PROVE  ClaimsDurable'
  <1>0. \A c \in Calls, s \in Serials : Provisioning(c, s)' => Provisioning(c, s)
    BY DEF NoProvisioning, Certifies
  <1>1. \A c \in Calls, s \in Serials : Enrolling(c, s)' => Enrolling(c, s)
    BY DEF NoEnrollment, Enters
  <1>2. \A c \in Calls, s \in Serials : Provisioning(c, s) => UsedUpOnDisk(s)
    BY DEF DurableInv, ClaimsDurable, Provisioning, UsedUpOnDisk
  <1>3. \A x \in deviceCerts' : UsedUpOnDisk(x.serial)'
    <2>1. CASE NoProvisioning
      BY <2>1 DEF NoProvisioning, DurableInv, ClaimsDurable, UsedUpOnDisk
    <2>2. ASSUME NEW c \in Calls, NEW s \in Serials, Certifies(c, s)
          PROVE  \A x \in deviceCerts' : UsedUpOnDisk(x.serial)'
      <3>1. UsedUpOnDisk(s)
        BY <1>2, <2>2 DEF Certifies
      <3> QED
        BY <2>2, <3>1 DEF Certifies, sign_csr, DurableInv, ClaimsDurable, UsedUpOnDisk
    <2> QED
      BY <2>1, <2>2
  <1>4. ASSUME NEW c \in Calls, At(c, "provision", "claimed")'
        PROVE  UsedUpOnDisk(calls[c].serial)'
    <2>1. calls'[c].serial \in Serials
      BY <1>4 DEF TypeInv, ArgsOK, At
    <2>2. Provisioning(c, calls'[c].serial)
      BY <1>0, <1>4, <2>1 DEF Provisioning
    <2> QED
      BY <1>2, <2>1, <2>2 DEF UsedUpOnDisk
  <1>5. ASSUME NEW s \in Serials, s \notin resets', NEW c \in Calls, Enrolling(c, s)'
        PROVE  durable'[2][s] = "claimed"
    BY <1>1, <1>5 DEF DurableInv, ClaimsDurable
  <1> QED
    BY <1>3, <1>4, <1>5 DEF ClaimsDurable, UsedUpOnDisk

\* A step that commits keeps ClaimsDurable.
LEMMA DurableWhenCommitted ==
    ASSUME DurableInv, ~ txOpen, Next, durable' = tables', TypeInv'
    PROVE  ClaimsDurable'
  <1>0. TypeInv /\ deviceCerts \subseteq Cert
    BY DEF DurableInv, TxTypeInv, TypeInv, TypeOK
  <1>1. /\ durable[1] = manifest /\ durable[2] = preEnrollment
        /\ durable'[1] = manifest' /\ durable'[2] = preEnrollment'
    BY DEF DurableInv, TxTypeInv, DurableOK, tables
  <1>2. \A s \in Serials : UsedUpOnDisk(s) => UsedUpOnDisk(s)'
    BY <1>0, <1>1, EntriesKept DEF KeepsEntries, SameEntry, UsedUpOnDisk
  <1>3. \A s \in Serials : UsedUp(s)' => UsedUpOnDisk(s)'
    BY <1>1 DEF UsedUp, UsedUpOnDisk
  <1>4. \A c \in Calls, s \in Serials : Provisioning(c, s) => UsedUpOnDisk(s)'
    BY <1>2 DEF DurableInv, ClaimsDurable, Provisioning, UsedUpOnDisk
  <1>5. \A x \in deviceCerts : UsedUpOnDisk(x.serial)'
    BY <1>0, <1>2 DEF DurableInv, ClaimsDurable, UsedUpOnDisk, Cert
  <1>6. /\ \A x \in deviceCerts' : UsedUpOnDisk(x.serial)'
        /\ \A c \in Calls, s \in Serials : Provisioning(c, s)' => UsedUpOnDisk(s)'
    <2>1. CASE NoProvisioning
      BY <1>4, <1>5, <2>1 DEF NoProvisioning
    <2>2. ASSUME NEW c \in Calls, NEW s \in Serials, UsesEntry(c, s)
          PROVE  <1>6!:
      BY <1>3, <1>4, <1>5, <2>2 DEF UsesEntry
    <2>3. ASSUME NEW c \in Calls, NEW s \in Serials, Certifies(c, s)
          PROVE  <1>6!:
      BY <1>4, <1>5, <2>3 DEF Certifies, sign_csr
    <2> QED
      BY <1>0, <2>1, <2>2, <2>3, ProvisioningSteps
  <1>7. ASSUME NEW c \in Calls, At(c, "provision", "claimed")'
        PROVE  UsedUpOnDisk(calls[c].serial)'
    <2>1. PICK s \in Serials : s = calls'[c].serial
      BY <1>7 DEF TypeInv, ArgsOK, At
    <2>2. Provisioning(c, s)'
      BY <1>7, <2>1 DEF Provisioning
    <2>3. UsedUpOnDisk(s)'
      BY <1>6, <2>2
    <2> QED
      BY <2>1, <2>3 DEF UsedUpOnDisk
  <1>8. ASSUME NEW s \in Serials, s \notin resets', NEW c \in Calls, Enrolling(c, s)'
        PROVE  durable'[2][s] = "claimed"
    <2>0. /\ s \notin resets
          /\ preEnrollment[s] = "claimed" => preEnrollment'[s] = "claimed"
      BY <1>0, <1>8, ClaimsKept
    <2>1. CASE Enrolling(c, s)
      BY <1>1, <2>0, <2>1 DEF DurableInv, ClaimsDurable
    <2>2. CASE ~ Enrolling(c, s)
      BY <1>0, <1>1, <1>8, <2>2, EnrollmentSteps DEF NoEnrollment, ClaimsSerial, Enters
    <2> QED
      BY <2>1, <2>2
  <1> QED
    BY <1>6, <1>7, <1>8 DEF ClaimsDurable, UsedUpOnDisk

\* DurableInv is preserved by every step.
LEMMA DurableStep == DurableInv /\ [TxNext]_txVars => DurableInv'
  <1> SUFFICES ASSUME DurableInv, [TxNext]_txVars PROVE DurableInv'
    OBVIOUS
  <1>0. TxTypeInv' /\ TypeInv /\ TypeInv'
    BY TxTypeStep DEF DurableInv, TxTypeInv
  <1>1. CASE ~ txOpen /\ Next /\ durable' = tables' /\ UNCHANGED txOpen
    BY <1>0, <1>1, DurableWhenCommitted DEF DurableInv
  <1>2. ASSUME NEW c \in Calls, CommitFails(c) PROVE ClaimsDurable'
    <2>1. AnsweredAtOnce /\ UNCHANGED durable
      BY <1>0, <1>2, CommitFailsStep
    <2>2. NoProvisioning /\ NoEnrollment /\ resets \subseteq resets'
      BY <1>0, <2>1, AnsweredClaimsNothing DEF AnsweredAtOnce
    <2> QED
      BY <1>0, <2>1, <2>2, DurableWithoutClaims
  <1>3. CASE InTx
    <2>1. /\ UNCHANGED <<durable, manifest>>
          /\ \A s \in Serials : preEnrollment[s] = "unclaimed" => preEnrollment'[s] # "claimed"
          /\ Next \/ AnsweredAtOnce
      BY <1>0, <1>3, InTxStep
    <2>2. CASE AnsweredAtOnce
      <3>1. NoProvisioning /\ NoEnrollment /\ resets \subseteq resets'
        BY <1>0, <2>2, AnsweredClaimsNothing DEF AnsweredAtOnce
      <3> QED
        BY <1>0, <2>1, <3>1, DurableWithoutClaims DEF DurableInv
    <2>3. CASE Next
      <3>1. resets \subseteq resets'
        BY <1>0, <2>3, ClaimsKept
      <3>2. NoProvisioning \/ \E c \in Calls, s \in Serials : Certifies(c, s)
        BY <1>0, <2>1, <2>3, ProvisioningSteps DEF UsesEntry, UsedUp
      <3>3. NoEnrollment \/ \E c \in Calls, id \in Ids : Enters(c, id)
        BY <1>0, <2>1, <2>3, EnrollmentSteps DEF ClaimsSerial
      <3> QED
        BY <1>0, <2>1, <3>1, <3>2, <3>3, DurableWithoutClaims DEF DurableInv
    <2> QED
      BY <1>0, <2>1, <2>2, <2>3 DEF DurableInv
  <1>4. CASE CrashInTx
    <2>1. \A c \in Calls : calls'[c] = Idle
      BY <1>4 DEF CrashInTx
    <2>2. UNCHANGED <<durable, deviceCerts>>
      BY <1>4 DEF CrashInTx
    <2>3. ClaimsDurable'
      BY <2>1, <2>2 DEF ClaimsDurable, DurableInv, At, Enrolling, Idle
    <2> QED
      BY <1>0, <2>3 DEF DurableInv
  <1>5. CASE UNCHANGED txVars
    <2>1. UNCHANGED <<calls, deviceCerts, resets, durable>>
      BY <1>5 DEF txVars, vars, serverVars
    <2>2. ClaimsDurable'
      BY <2>1 DEF ClaimsDurable, DurableInv, At, Enrolling
    <2> QED
      BY <1>0, <2>2 DEF DurableInv
  <1> QED
    BY <1>0, <1>1, <1>2, <1>3, <1>4, <1>5 DEF TxNext, AutoCommit, DurableInv

\* DurableInv holds initially.
LEMMA DurableInitially == TxInit => DurableInv
  <1> SUFFICES ASSUME TxInit PROVE ClaimsDurable
    BY TxTypeInit DEF DurableInv
  <1>1. deviceCerts = {} /\ \A c \in Calls : calls[c] = Idle
    BY DEF TxInit, ServerInit
  <1> QED
    BY <1>1 DEF ClaimsDurable, At, Enrolling, Idle

\* No certificate rests on a claim that a restart would undo, whenever COMMIT is
\* refused and whenever the process stops.
THEOREM ClaimsAreDurable == TxSpec => []ClaimsDurable
  <1>1. TxInit => DurableInv
    BY DurableInitially
  <1>2. DurableInv => ClaimsDurable
    BY DEF DurableInv
  <1> QED
    BY <1>1, <1>2, DurableStep, PTL DEF TxSpec

\* The inductive invariant behind ProvisionedOnce when COMMIT may fail: a handler that
\* is about to sign is the only one for its serial and precedes every certificate for
\* it.  That the entry stays used up is ClaimsDurable.
TxProvisionInv ==
    /\ DurableInv
    /\ ProvisionedOnce
    /\ \A c \in Calls, s \in Serials : Provisioning(c, s) =>
          /\ \A x \in deviceCerts : x.serial # s
          /\ \A d \in Calls : Provisioning(d, s) => d = c

\* A step that uses up no entry keeps it.
LEMMA TxProvisionQuiet ==
    ASSUME TxProvisionInv, DurableInv',
           NoProvisioning \/ \E c \in Calls, s \in Serials : Certifies(c, s)
    PROVE  TxProvisionInv'
  <1>1. CASE NoProvisioning
    <2>1. ProvisionedOnce'
      BY <1>1 DEF TxProvisionInv, ProvisionedOnce, NoProvisioning
    <2>2. ASSUME NEW c \in Calls, NEW s \in Serials, Provisioning(c, s)'
          PROVE  /\ \A x \in deviceCerts' : x.serial # s
                 /\ \A d \in Calls : Provisioning(d, s)' => d = c
      BY <1>1, <2>2 DEF TxProvisionInv, NoProvisioning
    <2> QED
      BY <2>1, <2>2 DEF TxProvisionInv
  <1>2. ASSUME NEW c \in Calls, NEW s \in Serials, Certifies(c, s) PROVE TxProvisionInv'
    <2>0. PICK key \in Keys : deviceCerts' = deviceCerts \cup {sign_csr("device", s, key)}
      BY <1>2 DEF Certifies
    <2>1. \A x \in deviceCerts : x.serial # s
      BY <1>2 DEF TxProvisionInv, Certifies
    <2>2. sign_csr("device", s, key).serial = s
      BY DEF sign_csr
    <2>3. ProvisionedOnce'
      BY <2>0, <2>1, <2>2 DEF TxProvisionInv, ProvisionedOnce
    <2>4. ASSUME NEW d \in Calls, NEW r \in Serials, Provisioning(d, r)'
          PROVE  /\ \A x \in deviceCerts' : x.serial # r
                 /\ \A e \in Calls : Provisioning(e, r)' => e = d
      <3>1. Provisioning(d, r) /\ d # c /\ Provisioning(c, s)
        BY <1>2, <2>4 DEF Certifies
      <3>2. r # s
        BY <3>1 DEF TxProvisionInv
      <3> QED
        BY <1>2, <2>0, <2>2, <3>1, <3>2 DEF TxProvisionInv, Certifies
    <2> QED
      BY <2>3, <2>4 DEF TxProvisionInv
  <1> QED
    BY <1>1, <1>2

\* So does the step that uses one up: it does so on disk, where no certificate and no
\* handler has used it up before.
LEMMA TxProvisionUses ==
    ASSUME TxProvisionInv, DurableInv', ~ txOpen, NEW c \in Calls, NEW s \in Serials, UsesEntry(c, s)
    PROVE  TxProvisionInv'
  <1>0. ~ UsedUpOnDisk(s)
    BY DEF TxProvisionInv, DurableInv, TxTypeInv, DurableOK, UsesEntry, UsedUpOnDisk
  <1>1. \A x \in deviceCerts : x.serial # s
    BY <1>0 DEF TxProvisionInv, DurableInv, ClaimsDurable, UsedUpOnDisk
  <1>2. \A d \in Calls : ~ Provisioning(d, s)
    BY <1>0 DEF TxProvisionInv, DurableInv, ClaimsDurable, UsedUpOnDisk, Provisioning
  <1>3. ProvisionedOnce'
    BY DEF TxProvisionInv, ProvisionedOnce, UsesEntry
  <1>4. ASSUME NEW d \in Calls, NEW r \in Serials, Provisioning(d, r)'
        PROVE  /\ \A x \in deviceCerts' : x.serial # r
               /\ \A e \in Calls : Provisioning(e, r)' => e = d
    <2>1. CASE r = s
      BY <1>1, <1>2, <1>4, <2>1 DEF UsesEntry
    <2>2. CASE r # s
      BY <1>4, <2>2 DEF TxProvisionInv, UsesEntry
    <2> QED
      BY <2>1, <2>2
  <1> QED
    BY <1>3, <1>4 DEF TxProvisionInv

\* TxProvisionInv is preserved by every step.
LEMMA TxProvisionStep == TxProvisionInv /\ [TxNext]_txVars => TxProvisionInv'
  <1> SUFFICES ASSUME TxProvisionInv, [TxNext]_txVars PROVE TxProvisionInv'
    OBVIOUS
  <1>0. DurableInv' /\ TypeInv
    BY DurableStep DEF TxProvisionInv, DurableInv, TxTypeInv
  <1>1. CASE ~ txOpen /\ Next
    BY <1>0, <1>1, ProvisioningSteps, TxProvisionQuiet, TxProvisionUses
  <1>2. ASSUME NEW c \in Calls, CommitFails(c) PROVE NoProvisioning
    BY <1>0, <1>2, CommitFailsStep, AnsweredClaimsNothing
  <1>3. CASE InTx
    <2>1. UNCHANGED manifest /\ (Next \/ AnsweredAtOnce)
      BY <1>0, <1>3, InTxStep
    <2>2. NoProvisioning \/ \E c \in Calls, s \in Serials : Certifies(c, s)
      <3>1. CASE AnsweredAtOnce
        BY <1>0, <3>1, AnsweredClaimsNothing
      <3>2. CASE Next
        BY <1>0, <2>1, <3>2, ProvisioningSteps DEF UsesEntry, UsedUp
      <3> QED
        BY <2>1, <3>1, <3>2
    <2> QED
      BY <1>0, <2>2, TxProvisionQuiet
  <1>4. CASE CrashInTx
    <2>1. (\A c \in Calls : calls'[c] = Idle) /\ UNCHANGED deviceCerts
      BY <1>4 DEF CrashInTx
    <2>2. NoProvisioning
      BY <2>1 DEF NoProvisioning, Provisioning, At, Idle
    <2> QED
      BY <1>0, <2>2, TxProvisionQuiet
  <1>5. CASE UNCHANGED txVars
    <2>1. NoProvisioning
      BY <1>5 DEF txVars, vars, serverVars, NoProvisioning, Provisioning, At
    <2> QED
      BY <1>0, <2>1, TxProvisionQuiet
  <1> QED
    BY <1>0, <1>1, <1>2, <1>3, <1>4, <1>5, TxProvisionQuiet DEF TxNext, AutoCommit

\* The one-time token buys one device certificate even when COMMIT is refused, the
\* transaction stays open and a crash rolls it back (claim_manifest_entry).
THEOREM ProvisionedOnceInSpiteOfCommits == TxSpec => []ProvisionedOnce
  <1>1. TxInit => TxProvisionInv
    <2> SUFFICES ASSUME TxInit PROVE TxProvisionInv
      OBVIOUS
    <2>1. deviceCerts = {} /\ \A c \in Calls : calls[c] = Idle
      BY DEF TxInit, ServerInit
    <2>2. DurableInv
      BY DurableInitially
    <2> QED
      BY <2>1, <2>2 DEF TxProvisionInv, ProvisionedOnce, Provisioning, At, Idle
  <1>2. TxProvisionInv => ProvisionedOnce
    BY DEF TxProvisionInv
  <1> QED
    BY <1>1, <1>2, TxProvisionStep, PTL DEF TxSpec

-----------------------------------------------------------------------------
(* Admissions and the disk                                                 *)

\* The row of admission a is on disk.
OnDisk(a) ==
    /\ durable[3][a.id] # Nil
    /\ durable[3][a.id].serial = a.serial
    /\ durable[3][a.id].key = a.key

SavedInv == TxTypeInv /\ SavedAdmittedOnce

\* A step that saves no admission and leaves the disk alone.
LEMMA SavedQuiet ==
    ASSUME SavedAdmittedOnce, UNCHANGED durable,
           \A a \in admitted' : a \notin unsaved' => a \in admitted /\ a \notin unsaved
    PROVE  SavedAdmittedOnce'
  BY DEF SavedAdmittedOnce

\* A step that commits: what it admits has no row on disk yet, so nobody was admitted
\* and saved under its serial.
LEMMA SavedCommits ==
    ASSUME SavedInv, ~ txOpen, Next, durable' = tables', UNCHANGED unsaved
    PROVE  SavedAdmittedOnce'
  <1> DEFINE Kept(a) == /\ devices'[a.id] # Nil
                        /\ devices'[a.id].serial = a.serial
                        /\ devices'[a.id].key = a.key
  <1>0. /\ TypeInv /\ durable[3] = devices /\ durable'[3] = devices' /\ unsaved' = unsaved
        /\ \A a \in admitted : a \in Admission /\ a.id \in Ids
    BY DEF SavedInv, TxTypeInv, DurableOK, TypeInv, TypeOK, Admission, tables
  <1>1. \A a \in admitted \ unsaved : OnDisk(a)
    BY DEF SavedInv, SavedAdmittedOnce, OnDisk
  <1>2. CASE NoAdmission
    <2>1. \A a \in admitted \ unsaved : Kept(a)
      BY <1>0, <1>1, <1>2 DEF NoAdmission, SameDevice, OnDisk
    <2>2. admitted' = admitted
      BY <1>2 DEF NoAdmission
    <2> QED
      BY <1>0, <2>1, <2>2 DEF SavedInv, SavedAdmittedOnce
  <1>3. ASSUME NEW c \in Calls, NEW id \in Ids, Admits(c, id) PROVE SavedAdmittedOnce'
    <2> DEFINE s == calls[c].serial
               row == [serial |-> s, key |-> calls[c].key, status |-> "active"]
               new == [serial |-> s, key |-> calls[c].key, id |-> id]
    <2>1. /\ ~ HasDevice(s) /\ devices[id] = Nil /\ admitted' = admitted \cup {new}
          /\ devices' = [devices EXCEPT ![id] = row]
      BY <1>3 DEF Admits
    <2>2. devices \in [Ids -> DeviceRow \cup {Nil}]
      BY <1>0 DEF TypeInv, TypeOK, StoreTypeOK
    <2>3. row # Nil
      <3>1. calls[c].serial \in Serials /\ calls[c].key \in Keys
        BY <1>0, <1>3 DEF Admits, At, TypeInv, ArgsOK
      <3> QED
        BY <3>1, NilAssumption, StatusAssumption DEF DeviceRow
    <2>4. new.serial = s /\ new.key = calls[c].key /\ new.id = id
          /\ row.serial = s /\ row.key = calls[c].key
      OBVIOUS
    <2>5. Kept(new)
      BY <2>1, <2>2, <2>3, <2>4
    <2>6. \A a \in admitted \ unsaved : a.serial # s /\ a.id # id
      BY <1>0, <1>1, <2>1 DEF OnDisk, HasDevice
    <2>7. \A a \in admitted \ unsaved : Kept(a)
      BY <1>0, <1>1, <2>1, <2>2, <2>6 DEF OnDisk
    <2>8. ASSUME NEW a \in admitted' \ unsaved', NEW b \in admitted' \ unsaved',
                 b.serial = a.serial
          PROVE  Kept(a) /\ b = a
      <3> HIDE DEF new, row, s, Kept
      <3>1. CASE a = new
        BY <1>0, <2>1, <2>4, <2>5, <2>6, <2>8, <3>1
      <3>2. CASE a # new
        BY <1>0, <2>1, <2>4, <2>6, <2>7, <2>8, <3>2 DEF SavedInv, SavedAdmittedOnce
      <3> QED
        BY <3>1, <3>2
    <2> QED
      BY <1>0, <2>8 DEF SavedAdmittedOnce
  <1> QED
    BY <1>0, <1>2, <1>3, AdmissionSteps

\* SavedInv is preserved by every step.
LEMMA SavedStep == SavedInv /\ [TxNext]_txVars => SavedInv'
  <1> SUFFICES ASSUME SavedInv, [TxNext]_txVars PROVE SavedInv'
    OBVIOUS
  <1>0. TxTypeInv' /\ TypeInv /\ SavedAdmittedOnce
    BY TxTypeStep DEF SavedInv, TxTypeInv
  <1>1. CASE ~ txOpen /\ Next /\ durable' = tables' /\ UNCHANGED unsaved
    BY <1>0, <1>1, SavedCommits DEF SavedInv
  <1>2. ASSUME NEW c \in Calls, CommitFails(c), UNCHANGED unsaved PROVE SavedInv'
    <2>1. UNCHANGED <<durable, admitted, unsaved>>
      BY <1>0, <1>2, CommitFailsStep DEF AnsweredAtOnce
    <2> QED
      BY <1>0, <2>1, SavedQuiet DEF SavedInv
  <1>3. CASE InTx
    <2>1. UNCHANGED durable /\ unsaved' = unsaved \cup (admitted' \ admitted)
      BY <1>3 DEF InTx
    <2> QED
      BY <1>0, <2>1, SavedQuiet DEF SavedInv
  <1>4. CASE CrashInTx
    <2>1. UNCHANGED <<durable, admitted, unsaved>>
      BY <1>4 DEF CrashInTx
    <2> QED
      BY <1>0, <2>1, SavedQuiet DEF SavedInv
  <1>5. CASE UNCHANGED txVars
    <2>1. UNCHANGED <<durable, admitted, unsaved>>
      BY <1>5 DEF txVars, vars, serverVars
    <2> QED
      BY <1>0, <2>1, SavedQuiet DEF SavedInv
  <1> QED
    BY <1>1, <1>2, <1>3, <1>4, <1>5 DEF TxNext, AutoCommit

\* An admission made while no transaction was open stays on disk, and a serial has
\* one of them at most: a second admission takes a COMMIT that was refused before the
\* first one's create_device.
THEOREM SavedAdmissionsAreUnique == TxSpec => []SavedAdmittedOnce
  <1>1. TxInit => SavedInv
    <2> SUFFICES ASSUME TxInit PROVE SavedInv
      OBVIOUS
    <2>1. admitted = {}
      BY DEF TxInit, ServerInit
    <2> QED
      BY <2>1, TxTypeInit DEF SavedInv, SavedAdmittedOnce
  <1>2. SavedInv => SavedAdmittedOnce
    BY DEF SavedInv
  <1> QED
    BY <1>1, <1>2, SavedStep, PTL DEF TxSpec

-----------------------------------------------------------------------------
(* "internal" is answered on faults only                                   *)

NoInternal == \A c \in Calls : calls[c].code # "internal"

\* Errors of the store other than Db have codes of their own.
LEMMA ErrorsTold ==
    /\ \A e \in {"NotPreEnrolled", "SerialAlreadyClaimed", "AlreadyEnrolled", "NotFound",
                 "SerialMismatch", "CertVerification", "DeviceNotActive"} :
          map_err(e) # "internal"
    /\ \A e \in {"NotInManifest", "InvalidProvisionToken", "AlreadyProvisioned"} :
          provisioning_map_err(e) # "internal"
  BY DEF map_err, provisioning_map_err

\* A call that waits has no code yet.
LEMMA IdleCode == Idle.code # "internal"
  BY CodesAssumption DEF Idle, Codes

\* Replacing one call by one without that code.
LEMMA OneCallNoInternal ==
    ASSUME TypeInv, NoInternal, NEW c \in Calls, NEW call, call.code # "internal",
           calls' = [calls EXCEPT ![c] = call]
    PROVE  NoInternal'
  BY DEF TypeInv, TypeOK, NoInternal

\* A handler that goes on.
LEMMA GotoNoInternal ==
    ASSUME TypeInv, NoInternal, NEW c \in Calls, NEW call \in Call, call.code # "internal",
           NEW pc, calls' = [calls EXCEPT ![c] = Goto(call, pc)]
    PROVE  NoInternal'
  <1>1. Goto(call, pc).code = call.code
    BY DEF Goto, Call
  <1> QED
    BY <1>1, OneCallNoInternal

\* A handler that answers.
LEMMA AnswerNoInternal ==
    ASSUME TypeInv, NoInternal, NEW c \in Calls, NEW call \in Call,
           NEW code, code # "internal", calls' = [calls EXCEPT ![c] = Answer(call, code)]
    PROVE  NoInternal'
  <1>1. Answer(call, code).code = code
    BY DEF Answer, Call
  <1> QED
    BY <1>1, OneCallNoInternal

\* Without faults no step of the service answers "internal".
LEMMA NoInternalStep ==
    ASSUME TypeInv, NoInternal, [Next]_vars, "db" \notin Faults, "sign" \notin Faults
    PROVE  NoInternal'
  <1>0. \A c \in Calls : calls[c] \in Call /\ calls[c].code # "internal"
    BY DEF TypeInv, TypeOK, NoInternal
  <1>1. ASSUME NEW c \in Calls, NEW s \in Serials \cup {Nil}, NEW key \in Keys \cup {Nil},
               NEW token, provision_device(c, s, key, token)
        PROVE  NoInternal'
    <2> DEFINE call == [Idle EXCEPT !.op = "provision", !.serial = s, !.key = key]
    <2>1. call \in Call /\ call.code = Idle.code
      BY NewCalls DEF Ops, Idle
    <2>2. CASE calls' = [calls EXCEPT ![c] = Answer(call, "invalid_argument")]
      BY <2>1, <2>2, AnswerNoInternal
    <2>3. ASSUME NEW res, claim_manifest_entry(s, token, res),
                 calls' = [calls EXCEPT ![c] = IF res = "Ok" THEN Goto(call, "claimed")
                                ELSE Answer(call, provisioning_map_err(res))]
          PROVE  NoInternal'
      <3>1. res \in {"Ok", "NotInManifest", "InvalidProvisionToken", "AlreadyProvisioned"}
        BY <2>3 DEF claim_manifest_entry, DbFails
      <3>2. CASE res = "Ok"
        BY <2>1, <2>3, <3>2, IdleCode, GotoNoInternal
      <3>3. CASE res # "Ok"
        BY <2>1, <2>3, <3>1, <3>3, ErrorsTold, AnswerNoInternal
      <3> QED
        BY <3>2, <3>3
    <2> QED
      BY <1>1, <2>2, <2>3 DEF provision_device
  <1>2. ASSUME NEW c \in Calls, NEW s, NEW key \in Keys, NEW peer \in PeerCerts,
               bootstrap_enroll(c, s, key, peer)
        PROVE  NoInternal'
    <2> DEFINE call == [Idle EXCEPT !.op = "enroll", !.serial = extract_serial(peer), !.key = key]
    <2>1. call \in Call /\ call.code = Idle.code
      BY PeerCertsType, NewCalls DEF Ops, Idle, extract_serial, Cert
    <2>2. ASSUME NEW e \in {"SerialMismatch", "CertVerification"},
                 calls' = [calls EXCEPT ![c] = Answer(call, map_err(e))]
          PROVE  NoInternal'
      BY <2>1, <2>2, ErrorsTold, AnswerNoInternal
    <2>3. ASSUME NEW res, lookup_and_claim(extract_serial(peer), res),
                 calls' = [calls EXCEPT ![c] = IF res = "Ok" THEN Goto(call, "claimed")
                                ELSE Answer(call, map_err(res))]
          PROVE  NoInternal'
      <3>1. res \in {"Ok", "NotPreEnrolled", "SerialAlreadyClaimed"}
        BY <2>3 DEF lookup_and_claim, DbFails
      <3>2. CASE res = "Ok"
        BY <2>1, <2>3, <3>2, IdleCode, GotoNoInternal
      <3>3. CASE res # "Ok"
        BY <2>1, <2>3, <3>1, <3>3, ErrorsTold, AnswerNoInternal
      <3> QED
        BY <3>2, <3>3
    <2> QED
      BY <1>2, <2>2, <2>3 DEF bootstrap_enroll
  <1>3. ASSUME NEW c \in Calls, NEW id \in Ids, NEW key \in Keys, renew_cert(c, id, key)
        PROVE  NoInternal'
    <2> DEFINE call == [Idle EXCEPT !.op = "renew", !.id = id, !.key = key]
    <2>1. call \in Call /\ call.code = Idle.code
      BY NewCalls DEF Ops, Idle
    <2>2. PICK res \in StoreResults :
             /\ get_device(id, res)
             /\ calls' = [calls EXCEPT ![c] =
                             IF res # "Ok" THEN Answer(call, map_err(res))
                             ELSE IF devices[id].status # "active"
                                    THEN Answer(call, map_err("DeviceNotActive"))
                                    ELSE Goto(call, "found")]
      BY <1>3 DEF renew_cert
    <2>3. res \in {"Ok", "NotFound"}
      BY <2>2 DEF get_device, DbFails
    <2>4. CASE res = "NotFound"
      BY <2>1, <2>2, <2>4, ErrorsTold, AnswerNoInternal
    <2>5. CASE res = "Ok" /\ devices[id].status # "active"
      BY <2>1, <2>2, <2>5, ErrorsTold, AnswerNoInternal
    <2>6. CASE res = "Ok" /\ devices[id].status = "active"
      BY <2>1, <2>2, <2>6, IdleCode, GotoNoInternal
    <2> QED
      BY <2>3, <2>4, <2>5, <2>6
  <1>4. ASSUME NEW c \in Calls, NEW id \in Ids, NEW status, update_device_status(c, id, status)
        PROVE  NoInternal'
    <2> DEFINE call == [Idle EXCEPT !.op = "status", !.id = id]
    <2>1. call \in Call /\ call.code = Idle.code
      BY NewCalls DEF Ops, Idle
    <2>2. PICK res \in StoreResults :
             /\ update_status(id, status, res)
             /\ calls' = [calls EXCEPT ![c] = IF res = "Ok" THEN Goto(call, "updated")
                                              ELSE Answer(call, map_err(res))]
      BY <1>4 DEF update_device_status
    <2>3. res \in {"Ok", "NotFound"}
      BY <2>2 DEF update_status, DbFails
    <2>4. CASE res = "Ok"
      BY <2>1, <2>2, <2>4, IdleCode, GotoNoInternal
    <2>5. CASE res = "NotFound"
      BY <2>1, <2>2, <2>5, ErrorsTold, AnswerNoInternal
    <2> QED
      BY <2>3, <2>4, <2>5
  <1>5. ASSUME NEW c \in Calls, provision_sign(c) \/ enroll_sign(c) \/ renew_sign(c) \/ Respond(c)
        PROVE  NoInternal'
    <2>1. CASE calls' = [calls EXCEPT ![c] = Answer(calls[c], "ok")]
      BY <1>0, <2>1, AnswerNoInternal
    <2>2. CASE calls' = [calls EXCEPT ![c] = Goto(calls[c], "signed")]
      BY <1>0, <2>2, IdleCode, GotoNoInternal
    <2>3. CASE calls' = [calls EXCEPT ![c] = Idle]
      BY <2>3, IdleCode, OneCallNoInternal
    <2> QED
      BY <1>5, <2>1, <2>2, <2>3 DEF provision_sign, enroll_sign, renew_sign, Respond, SignFails
  <1>6. ASSUME NEW c \in Calls, enroll_create(c) PROVE NoInternal'
    <2>1. PICK res \in StoreResults, id \in Ids :
             /\ create_device(calls[c].serial, calls[c].key, id, res)
             /\ \/ /\ res = "Ok"
                   /\ calls' = [calls EXCEPT ![c] = [Answer(calls[c], "ok") EXCEPT !.id = id]]
                \/ /\ res # "Ok"
                   /\ calls' = [calls EXCEPT ![c] = Answer(calls[c], map_err(res))]
      BY <1>6 DEF enroll_create
    <2>2. res \in {"Ok", "AlreadyEnrolled"}
      BY <2>1 DEF create_device, DbFails
    <2>3. CASE res = "Ok"
      <3>1. [Answer(calls[c], "ok") EXCEPT !.id = id].code = "ok"
        BY <1>0 DEF Answer, Call
      <3> QED
        BY <2>1, <2>3, <3>1, OneCallNoInternal
    <2>4. CASE res = "AlreadyEnrolled"
      BY <1>0, <2>1, <2>4, ErrorsTold, AnswerNoInternal
    <2> QED
      BY <2>2, <2>3, <2>4
  <1>7. ASSUME NEW c \in Calls, update_read_back(c) PROVE NoInternal'
    <2>1. PICK res \in StoreResults :
             /\ get_device(calls[c].id, res)
             /\ calls' = [calls EXCEPT ![c] =
                    IF res = "Ok"
                      THEN [Answer(calls[c], "ok") EXCEPT !.status = devices[calls[c].id].status]
                      ELSE Answer(calls[c], map_err(res))]
      BY <1>7 DEF update_read_back
    <2>2. res \in {"Ok", "NotFound"}
      BY <2>1 DEF get_device, DbFails
    <2>3. CASE res = "Ok"
      <3>1. \A v : [Answer(calls[c], "ok") EXCEPT !.status = v].code = "ok"
        BY <1>0 DEF Answer, Call
      <3> QED
        BY <2>1, <2>3, <3>1, OneCallNoInternal
    <2>4. CASE res = "NotFound"
      BY <1>0, <2>1, <2>4, ErrorsTold, AnswerNoInternal
    <2> QED
      BY <2>2, <2>3, <2>4
  <1>8. CASE Crash
    BY <1>8, IdleCode DEF Crash, NoInternal
  <1>9. CASE \/ \E s \in Serials : RegisterSerial(s)
             \/ \E env \in FactoryManifests : Start(env)
             \/ UNCHANGED vars
    <2>1. UNCHANGED calls
      BY <1>9 DEF RegisterSerial, Start, vars, serverVars
    <2> QED
      BY <2>1 DEF NoInternal
  <1> QED
    BY <1>1, <1>2, <1>3, <1>4, <1>5, <1>6, <1>7, <1>8, <1>9 DEF Next, Request, HandlerStep

\* Every refusal tells the client the reason: without faults of the store or the
\* signer "internal" is only answered once a COMMIT has been refused, and no more
\* after the restart that ends the transaction it left open.
THEOREM InternalMeansFault == TxSpec => []InternalOnlyOnFault
  <1> DEFINE Inv == TxTypeInv /\ InternalOnlyOnFault
  <1>1. TxInit => Inv
    <2> SUFFICES ASSUME TxInit PROVE InternalOnlyOnFault
      BY TxTypeInit
    <2>1. \A c \in Calls : calls[c] = Idle
      BY DEF TxInit, ServerInit
    <2> QED
      BY <2>1, IdleCode DEF InternalOnlyOnFault
  <1>2. Inv /\ [TxNext]_txVars => Inv'
    <2> SUFFICES ASSUME Inv, [TxNext]_txVars, "db" \notin Faults, "sign" \notin Faults, ~ txOpen'
                 PROVE  NoInternal'
      BY TxTypeStep DEF InternalOnlyOnFault, NoInternal
    <2>0. TypeInv /\ (~ txOpen => NoInternal)
      BY DEF TxTypeInv, InternalOnlyOnFault, NoInternal
    <2>1. CASE ~ txOpen /\ Next
      BY <2>0, <2>1, NoInternalStep
    <2>2. ASSUME NEW c \in Calls, CommitFails(c) PROVE FALSE
      BY <2>0, <2>2, CommitFailsStep
    <2>3. CASE InTx
      BY <2>3 DEF InTx
    <2>4. CASE CrashInTx
      <3>1. \A c \in Calls : calls'[c] = Idle
        BY <2>4 DEF CrashInTx
      <3> QED
        BY <3>1, IdleCode DEF NoInternal
    <2>5. CASE UNCHANGED txVars
      <3>1. UNCHANGED <<calls, txOpen>>
        BY <2>5 DEF txVars, vars, serverVars
      <3> QED
        BY <2>0, <3>1 DEF NoInternal
    <2> QED
      BY <2>1, <2>2, <2>3, <2>4, <2>5 DEF TxNext, AutoCommit
  <1>3. Inv => InternalOnlyOnFault
    OBVIOUS
  <1> QED
    BY <1>1, <1>2, <1>3, PTL DEF TxSpec

=============================================================================
