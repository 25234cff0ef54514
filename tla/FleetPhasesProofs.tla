-------------------------- MODULE FleetPhasesProofs --------------------------
(***************************************************************************)
(* Proofs about the phases of FleetServer: what is recorded stays, a       *)
(* serial is provisioned once, it is enrolled only after that, and the     *)
(* claim on a serial excludes a second enrollment.  All of it implements   *)
(* Admission.                                                              *)
(***************************************************************************)
EXTENDS FleetAdmission, FleetServerProofs

-----------------------------------------------------------------------------
(* The manifest and the pre-enrollment table                               *)

\* Row s of the manifest is the same entry after the step, perhaps used up by it.
SameEntry(s) ==
    manifest[s] # Nil =>
        /\ manifest'[s] # Nil
        /\ manifest'[s].token = manifest[s].token
        /\ manifest[s].provisioned => manifest'[s].provisioned

\* A serial that is registered stays registered, claimed or not.
StaysRegistered(s) == preEnrollment[s] # "absent" => preEnrollment'[s] # "absent"

\* The claim of s is as it was.
SameClaim(s) == (preEnrollment'[s] = "claimed") <=> (preEnrollment[s] = "claimed")

\* What a step never undoes in either table.
KeepsEntries == \A s \in Serials : SameEntry(s) /\ StaysRegistered(s)

\* Tables that do not change keep every entry.
LEMMA SameManifest ==
    ASSUME UNCHANGED <<manifest, preEnrollment>>
    PROVE  KeepsEntries /\ \A s \in Serials : SameClaim(s)
  BY DEF KeepsEntries, SameEntry, StaysRegistered, SameClaim

\* Seeding leaves every entry that is there as it is.
LEMMA SeedKeeps ==
    ASSUME NEW env, seed_manifest(env)
    PROVE  KeepsEntries /\ \A s \in Serials : SameClaim(s)
  BY DEF seed_manifest, KeepsEntries, SameEntry, StaysRegistered, SameClaim

\* Using up an entry changes no other entry, and no claim.
LEMMA ClaimManifestKeeps ==
    ASSUME StoreTypeOK, NEW s \in Serials, NEW token, NEW res,
           claim_manifest_entry(s, token, res)
    PROVE  KeepsEntries /\ \A r \in Serials : SameClaim(r)
  <1>1. CASE UNCHANGED <<manifest, preEnrollment>>
    BY <1>1, SameManifest
  <1>2. CASE /\ manifest[s] # Nil
             /\ manifest' = [manifest EXCEPT ![s].provisioned = TRUE]
             /\ preEnrollment' = [preEnrollment EXCEPT ![s] =
                                    IF @ = "absent" THEN "unclaimed" ELSE @]
    <2>1. \A r \in Serials : StaysRegistered(r) /\ SameClaim(r)
      BY <1>2 DEF StoreTypeOK, StaysRegistered, SameClaim
    <2>2. ASSUME NEW r \in Serials, r # s PROVE SameEntry(r)
      BY <1>2, <2>2 DEF StoreTypeOK, SameEntry
    <2>3. SameEntry(s)
      <3>1. manifest[s] \in ManifestRow
        BY <1>2 DEF StoreTypeOK
      <3>2. manifest'[s] = [manifest[s] EXCEPT !.provisioned = TRUE]
        BY <1>2 DEF StoreTypeOK
      <3>3. manifest'[s] = [token |-> manifest[s].token, provisioned |-> TRUE]
        BY <3>1, <3>2 DEF ManifestRow
      <3>4. manifest'[s] # Nil
        <4>1. manifest[s].token \in Tokens
          BY <3>1 DEF ManifestRow
        <4>2. \A t \in Tokens : [token |-> t, provisioned |-> TRUE] \in ManifestRow
          BY Zenon DEF ManifestRow
        <4> QED
          BY <3>3, <4>1, <4>2, NilAssumption
      <3> QED
        BY <3>3, <3>4 DEF SameEntry
    <2> QED
      BY <2>1, <2>2, <2>3 DEF KeepsEntries
  <1> QED
    BY <1>1, <1>2 DEF claim_manifest_entry, DbFails, tables

\* Registering a serial changes no entry of the manifest.
LEMMA RegisterKeeps ==
    ASSUME StoreTypeOK, NEW s \in Serials, register_serial(s)
    PROVE  KeepsEntries
  BY DEF StoreTypeOK, register_serial, KeepsEntries, SameEntry, StaysRegistered

\* Nor does claiming one.
LEMMA LookupKeeps ==
    ASSUME StoreTypeOK, NEW s \in Serials, NEW res, lookup_and_claim(s, res)
    PROVE  KeepsEntries
  BY DEF StoreTypeOK, lookup_and_claim, DbFails, tables, KeepsEntries, SameEntry,
         StaysRegistered

\* No handler, operator, restart or crash undoes an entry of either table.
LEMMA EntriesKept ==
    ASSUME TypeInv, [Next]_vars
    PROVE  KeepsEntries
  <1>0. StoreTypeOK
    BY DEF TypeInv, TypeOK
  <1>1. ASSUME NEW c \in Calls, NEW s \in Serials \cup {Nil}, NEW key, NEW token,
               provision_device(c, s, key, token)
        PROVE  KeepsEntries
    <2>1. CASE UNCHANGED tables
      BY <2>1, SameManifest DEF tables
    <2>2. CASE s # Nil /\ \E res \in StoreResults : claim_manifest_entry(s, token, res)
      BY <1>0, <2>2, ClaimManifestKeeps
    <2> QED
      BY <1>1, <2>1, <2>2 DEF provision_device
  <1>2. ASSUME NEW c \in Calls, NEW s, NEW key \in Keys, NEW peer \in PeerCerts,
               bootstrap_enroll(c, s, key, peer)
        PROVE  KeepsEntries
    <2>1. CASE UNCHANGED tables
      BY <2>1, SameManifest DEF tables
    <2>2. CASE \E res \in StoreResults : lookup_and_claim(extract_serial(peer), res)
      <3>1. extract_serial(peer) \in Serials
        BY PeerCertsType DEF extract_serial, Cert
      <3> QED
        BY <1>0, <2>2, <3>1, LookupKeeps
    <2> QED
      BY <1>2, <2>1, <2>2 DEF bootstrap_enroll
  <1>3. ASSUME NEW c \in Calls, NEW id, NEW key, renew_cert(c, id, key) PROVE KeepsEntries
    BY <1>3, SameManifest DEF renew_cert, get_device, DbFails, tables
  <1>4. ASSUME NEW c \in Calls, NEW id, NEW status, update_device_status(c, id, status)
        PROVE  KeepsEntries
    <2>1. UNCHANGED <<manifest, preEnrollment>>
      BY <1>4 DEF update_device_status, update_status, DbFails, tables
    <2> QED
      BY <2>1, SameManifest
  <1>5. ASSUME NEW c \in Calls, HandlerStep(c) PROVE KeepsEntries
    <2>1. UNCHANGED <<manifest, preEnrollment>>
      BY <1>5 DEF HandlerStep, provision_sign, enroll_sign, enroll_create, create_device,
                  renew_sign, update_read_back, Respond, SignFails, get_device, DbFails,
                  tables
    <2> QED
      BY <2>1, SameManifest
  <1>6. ASSUME NEW s \in Serials, RegisterSerial(s) PROVE KeepsEntries
    BY <1>0, <1>6, RegisterKeeps DEF RegisterSerial
  <1>7. ASSUME NEW env \in FactoryManifests, Start(env) PROVE KeepsEntries
    BY <1>7, SeedKeeps DEF Start
  <1>8. CASE Crash \/ UNCHANGED vars
    BY <1>8, SameManifest DEF Crash, vars, tables
  <1> QED
    BY <1>1, <1>2, <1>3, <1>4, <1>5, <1>6, <1>7, <1>8 DEF Next, Request

\* No step, restarts with another FACTORY_MANIFEST and crashes included, revives a
\* used manifest entry, changes its token, or changes the serial or the certificate
\* of a device row.
THEOREM RecordsArePermanent == Spec => RecordsPermanent
  <1>1. TypeInv /\ [Next]_vars => [RecordsPermanentStep]_vars
    <2> SUFFICES ASSUME TypeInv, [Next]_vars PROVE RecordsPermanentStep
      OBVIOUS
    <2>1. \A s \in Serials : SameEntry(s)
      BY EntriesKept DEF KeepsEntries
    <2>2. \A i \in Ids : devices[i] # Nil =>
             /\ devices'[i] # Nil
             /\ devices'[i].serial = devices[i].serial
             /\ devices'[i].key = devices[i].key
      <3>1. CASE NoAdmission
        BY <3>1 DEF NoAdmission, SameDevice
      <3>2. ASSUME NEW c \in Calls, NEW id \in Ids, Admits(c, id)
            PROVE  \A i \in Ids : devices[i] # Nil => devices'[i] = devices[i]
        BY <3>2 DEF Admits, TypeInv, TypeOK, StoreTypeOK
      <3> QED
        BY <3>1, <3>2, AdmissionSteps
    <2> QED
      BY <2>1, <2>2 DEF RecordsPermanentStep, SameEntry
  <1>2. Spec => []TypeInv
    BY TypeInit, TypeStep, PTL DEF Spec
  <1> QED
    BY <1>1, <1>2, PTL DEF Spec, RecordsPermanent

-----------------------------------------------------------------------------
(* Provisioning                                                            *)

\* A ProvisionDevice handler that has used up the entry of s and not yet signed.
Provisioning(c, s) == At(c, "provision", "claimed") /\ calls[c].serial = s

\* The entry of s is used up, and s is registered for enrollment.
UsedUp(s) ==
    /\ manifest[s] # Nil
    /\ manifest[s].provisioned
    /\ preEnrollment[s] # "absent"

\* No certificate is issued, and no handler gets past its claim.
NoProvisioning ==
    /\ deviceCerts' = deviceCerts
    /\ \A c \in Calls, s \in Serials : Provisioning(c, s)' => Provisioning(c, s)

\* Call c uses up the entry of s: no other call gets past its claim.
UsesEntry(c, s) ==
    /\ deviceCerts' = deviceCerts
    /\ manifest[s] # Nil /\ ~ manifest[s].provisioned
    /\ UsedUp(s)'
    /\ \A d \in Calls, r \in Serials :
          Provisioning(d, r)' => Provisioning(d, r) \/ (d = c /\ r = s)

\* Call c is past its claim of s and returns a certificate for it.
Certifies(c, s) ==
    /\ Provisioning(c, s)
    /\ \E key \in Keys : deviceCerts' = deviceCerts \cup {sign_csr("device", s, key)}
    /\ \A d \in Calls, r \in Serials : Provisioning(d, r)' => Provisioning(d, r) /\ d # c

\* Replacing call c by one that is not past a claim lets nobody past a claim.
LEMMA OtherCalls ==
    ASSUME TypeInv, NEW c \in Calls, NEW call, ~ (call.op = "provision" /\ call.pc = "claimed"),
           calls' = [calls EXCEPT ![c] = call]
    PROVE  \A d \in Calls, s \in Serials : Provisioning(d, s)' => Provisioning(d, s) /\ d # c
  BY DEF TypeInv, TypeOK, Provisioning, At

\* The first step of ProvisionDevice.
LEMMA ProvisionSteps ==
    ASSUME TypeInv, NEW c \in Calls, NEW s \in Serials \cup {Nil},
           NEW key \in Keys \cup {Nil}, NEW token, provision_device(c, s, key, token)
    PROVE  NoProvisioning \/ (s \in Serials /\ UsesEntry(c, s))
  <1> DEFINE call == [Idle EXCEPT !.op = "provision", !.serial = s, !.key = key]
  <1>0. call \in Call /\ call.serial = s
    BY NewCalls DEF Ops, Idle
  <1>1. ASSUME NEW code, calls' = [calls EXCEPT ![c] = Answer(call, code)]
        PROVE  NoProvisioning
    <2>1. Answer(call, code).pc # "claimed"
      BY <1>0, CallFields
    <2> QED
      BY <1>1, <2>1, OtherCalls DEF NoProvisioning, provision_device
  <1>2. ASSUME s \in Serials, claim_manifest_entry(s, token, "Ok"),
               calls' = [calls EXCEPT ![c] = Goto(call, "claimed")]
        PROVE  UsesEntry(c, s)
    <2>1. /\ manifest[s] # Nil /\ ~ manifest[s].provisioned
          /\ manifest' = [manifest EXCEPT ![s].provisioned = TRUE]
          /\ preEnrollment' = [preEnrollment EXCEPT ![s] =
                                 IF @ = "absent" THEN "unclaimed" ELSE @]
      BY <1>2 DEF claim_manifest_entry, DbFails
    <2>2. UsedUp(s)'
      <3>1. manifest[s] \in ManifestRow /\ manifest'[s] = [manifest[s] EXCEPT !.provisioned = TRUE]
        BY <1>2, <2>1 DEF TypeInv, TypeOK, StoreTypeOK
      <3>2. manifest'[s].provisioned
        BY <3>1 DEF ManifestRow
      <3>3. manifest'[s] # Nil
        BY <1>2, <2>1, ClaimManifestKeeps DEF TypeInv, TypeOK, KeepsEntries, SameEntry
      <3>4. preEnrollment'[s] # "absent"
        BY <1>2, <2>1 DEF TypeInv, TypeOK, StoreTypeOK
      <3> QED
        BY <3>2, <3>3, <3>4 DEF UsedUp
    <2>3. \A d \in Calls : calls'[d] = IF d = c THEN Goto(call, "claimed") ELSE calls[d]
      BY <1>2 DEF TypeInv, TypeOK
    <2>4. Goto(call, "claimed").serial = s
      BY <1>0, CallFields
    <2>5. \A d \in Calls, r \in Serials :
             Provisioning(d, r)' => Provisioning(d, r) \/ (d = c /\ r = s)
      BY <2>3, <2>4 DEF Provisioning, At
    <2>6. deviceCerts' = deviceCerts
      BY DEF provision_device
    <2> QED
      BY <2>1, <2>2, <2>5, <2>6 DEF UsesEntry
  <1> QED
    BY <1>1, <1>2 DEF provision_device

\* Every step provisions nobody, uses up an entry, or returns the certificate that an
\* earlier step used up the entry for.
LEMMA ProvisioningSteps ==
    ASSUME TypeInv, [Next]_vars
    PROVE  NoProvisioning \/ \E c \in Calls, s \in Serials : UsesEntry(c, s) \/ Certifies(c, s)
  <1>0. \A c \in Calls : calls[c] \in Call /\ ArgsOK(calls[c])
    BY DEF TypeInv, TypeOK
  <1>1. ASSUME NEW c \in Calls, NEW call, call.op # "provision" \/ call.pc # "claimed",
               calls' = [calls EXCEPT ![c] = call], deviceCerts' = deviceCerts
        PROVE  NoProvisioning
    BY <1>1, OtherCalls DEF NoProvisioning
  <1>2. ASSUME NEW c \in Calls, NEW s \in Serials \cup {Nil}, NEW key \in Keys,
               NEW peer \in PeerCerts, bootstrap_enroll(c, s, key, peer)
        PROVE  NoProvisioning
    <2> DEFINE new == [Idle EXCEPT !.op = "enroll", !.serial = extract_serial(peer), !.key = key]
    <2>1. new \in Call /\ new.op = "enroll"
      BY PeerCertsType, NewCalls DEF Ops, Idle, extract_serial, Cert
    <2>2. PICK call : call.op = "enroll" /\ calls' = [calls EXCEPT ![c] = call]
      BY <1>2, <2>1, CallFields DEF bootstrap_enroll
    <2> QED
      BY <1>1, <1>2, <2>2 DEF bootstrap_enroll
  <1>3. ASSUME NEW c \in Calls, NEW id \in Ids, NEW key \in Keys, renew_cert(c, id, key)
        PROVE  NoProvisioning
    <2> DEFINE new == [Idle EXCEPT !.op = "renew", !.id = id, !.key = key]
    <2>1. new \in Call /\ new.op = "renew"
      BY NewCalls DEF Ops, Idle
    <2>2. Goto(new, "found").op = "renew" /\ \A code : Answer(new, code).op = "renew"
      BY <2>1, CallFields
    <2>3. PICK call : call.op = "renew" /\ calls' = [calls EXCEPT ![c] = call]
      BY <1>3, <2>2 DEF renew_cert
    <2> QED
      BY <1>1, <1>3, <2>3 DEF renew_cert
  <1>4. ASSUME NEW c \in Calls, NEW id \in Ids, NEW status, update_device_status(c, id, status)
        PROVE  NoProvisioning
    <2> DEFINE new == [Idle EXCEPT !.op = "status", !.id = id]
    <2>1. new \in Call /\ new.op = "status"
      BY NewCalls DEF Ops, Idle
    <2>2. PICK call : call.op = "status" /\ calls' = [calls EXCEPT ![c] = call]
      BY <1>4, <2>1, CallFields DEF update_device_status
    <2> QED
      BY <1>1, <1>4, <2>2 DEF update_device_status
  <1>5. ASSUME NEW c \in Calls, SignFails(c) PROVE NoProvisioning
    BY <1>0, <1>1, <1>5, CallFields DEF SignFails
  <1>6. ASSUME NEW c \in Calls, provision_sign(c), ~ SignFails(c)
        PROVE  Certifies(c, calls[c].serial) /\ calls[c].serial \in Serials
    <2>1. /\ At(c, "provision", "claimed")
          /\ deviceCerts' = deviceCerts \cup
               {sign_csr("device", calls[c].serial, calls[c].key)}
          /\ calls' = [calls EXCEPT ![c] = Answer(calls[c], "ok")]
      BY <1>6 DEF provision_sign
    <2>2. calls[c].serial \in Serials /\ calls[c].key \in Keys
      BY <1>0, <2>1 DEF ArgsOK, At
    <2>3. Answer(calls[c], "ok").pc # "claimed"
      BY <1>0, CallFields
    <2>4. \A d \in Calls, r \in Serials : Provisioning(d, r)' => Provisioning(d, r) /\ d # c
      BY <2>1, <2>3, OtherCalls
    <2> QED
      BY <2>1, <2>2, <2>4 DEF Certifies, Provisioning
  <1>7. ASSUME NEW c \in Calls, enroll_sign(c), ~ SignFails(c) PROVE NoProvisioning
    <2>1. Goto(calls[c], "signed").pc # "claimed"
      BY <1>0, CallFields
    <2> QED
      BY <1>1, <1>7, <2>1 DEF enroll_sign
  <1>8. ASSUME NEW c \in Calls, enroll_create(c) \/ update_read_back(c) PROVE NoProvisioning
    <2>1. \A code : Answer(calls[c], code).pc = "replied"
      BY <1>0, CallFields
    <2>2. \A code, v : /\ [Answer(calls[c], code) EXCEPT !.id = v].pc = "replied"
                       /\ [Answer(calls[c], code) EXCEPT !.status = v].pc = "replied"
      BY <1>0 DEF Answer, Call
    <2>3. PICK call : call.pc = "replied" /\ calls' = [calls EXCEPT ![c] = call]
      BY <1>8, <2>1, <2>2 DEF enroll_create, update_read_back
    <2> QED
      BY <1>1, <1>8, <2>3 DEF enroll_create, update_read_back
  <1>9. ASSUME NEW c \in Calls, renew_sign(c), ~ SignFails(c) PROVE NoProvisioning
    BY <1>0, <1>1, <1>9, CallFields DEF renew_sign
  <1>10. ASSUME NEW c \in Calls, Respond(c) PROVE NoProvisioning
    <2>1. Idle.op # "provision"
      BY DEF Idle
    <2> QED
      BY <1>1, <1>10, <2>1 DEF Respond
  <1>11. CASE Crash
    BY <1>11 DEF Crash, NoProvisioning, Provisioning, At, Idle
  <1>12. CASE \/ \E s \in Serials : RegisterSerial(s)
              \/ \E env \in FactoryManifests : Start(env)
              \/ UNCHANGED vars
    <2>1. UNCHANGED <<calls, deviceCerts>>
      BY <1>12 DEF RegisterSerial, Start, vars, serverVars
    <2> QED
      BY <2>1 DEF NoProvisioning, Provisioning, At
  <1> QED
    BY <1>2, <1>3, <1>4, <1>5, <1>6, <1>7, <1>8, <1>9, <1>10, <1>11, <1>12, ProvisionSteps
       DEF Next, Request, HandlerStep, provision_sign, enroll_sign, renew_sign

\* The inductive invariant behind ProvisionedOnce: what has been certified is used
\* up, and so is the entry of a handler that is about to sign, which is the only one
\* for its serial and precedes every certificate for it.
ProvisionInv ==
    /\ TypeInv
    /\ ProvisionedOnce
    /\ \A x \in deviceCerts : x.ca = "device" /\ UsedUp(x.serial)
    /\ \A c \in Calls, s \in Serials : Provisioning(c, s) =>
          /\ UsedUp(s)
          /\ \A x \in deviceCerts : x.serial # s
          /\ \A d \in Calls : Provisioning(d, s) => d = c

\* ProvisionInv holds initially.
LEMMA ProvisionInit == ServerInit => ProvisionInv
  BY TypeInit DEF ServerInit, ProvisionInv, ProvisionedOnce, Provisioning, At, Idle

\* An entry that is used up stays used up.
LEMMA StaysUsedUp ==
    ASSUME TypeInv, [Next]_vars, NEW s \in Serials, UsedUp(s)
    PROVE  UsedUp(s)'
  BY EntriesKept DEF UsedUp, KeepsEntries, SameEntry, StaysRegistered

\* ProvisionInv is preserved by every step.
LEMMA ProvisionStep == ProvisionInv /\ [Next]_vars => ProvisionInv'
  <1> SUFFICES ASSUME ProvisionInv, [Next]_vars PROVE ProvisionInv'
    OBVIOUS
  <1>0. TypeInv /\ TypeInv' /\ deviceCerts \subseteq Cert
    BY TypeStep DEF ProvisionInv, TypeInv, TypeOK
  <1>1. \A s \in Serials : UsedUp(s) => UsedUp(s)'
    BY <1>0, StaysUsedUp
  <1>2. \A x \in deviceCerts : x.ca = "device" /\ x.serial \in Serials /\ UsedUp(x.serial)'
    BY <1>0, <1>1 DEF ProvisionInv, Cert
  <1>3. CASE NoProvisioning
    <2>1. ProvisionedOnce'
      BY <1>3 DEF ProvisionInv, ProvisionedOnce, NoProvisioning
    <2>2. \A x \in deviceCerts' : x.ca = "device" /\ UsedUp(x.serial)'
      BY <1>2, <1>3 DEF NoProvisioning
    <2>3. ASSUME NEW c \in Calls, NEW s \in Serials, Provisioning(c, s)'
          PROVE  /\ UsedUp(s)'
                 /\ \A x \in deviceCerts' : x.serial # s
                 /\ \A d \in Calls : Provisioning(d, s)' => d = c
      BY <1>1, <1>3, <2>3 DEF ProvisionInv, NoProvisioning
    <2> QED
      BY <1>0, <2>1, <2>2, <2>3 DEF ProvisionInv, UsedUp
  <1>4. ASSUME NEW c \in Calls, NEW s \in Serials, UsesEntry(c, s) PROVE ProvisionInv'
    <2>0. \A d \in Calls : ~ Provisioning(d, s)
      BY <1>4 DEF ProvisionInv, UsesEntry, UsedUp
    <2>1. ProvisionedOnce'
      BY <1>4 DEF ProvisionInv, ProvisionedOnce, UsesEntry
    <2>2. \A x \in deviceCerts' : x.ca = "device" /\ UsedUp(x.serial)'
      BY <1>2, <1>4 DEF UsesEntry
    <2>3. \A x \in deviceCerts : x.serial # s
      BY <1>4 DEF ProvisionInv, UsesEntry, UsedUp
    <2>4. ASSUME NEW d \in Calls, NEW r \in Serials, Provisioning(d, r)'
          PROVE  /\ UsedUp(r)'
                 /\ \A x \in deviceCerts' : x.serial # r
                 /\ \A e \in Calls : Provisioning(e, r)' => e = d
      <3>1. CASE r = s
        BY <1>4, <2>0, <2>3, <2>4, <3>1 DEF UsesEntry
      <3>2. CASE r # s
        BY <1>1, <1>4, <2>4, <3>2 DEF ProvisionInv, UsesEntry
      <3> QED
        BY <3>1, <3>2
    <2> QED
      BY <1>0, <2>1, <2>2, <2>4 DEF ProvisionInv, UsedUp
  <1>5. ASSUME NEW c \in Calls, NEW s \in Serials, Certifies(c, s) PROVE ProvisionInv'
    <2>0. PICK key \in Keys : deviceCerts' = deviceCerts \cup {sign_csr("device", s, key)}
      BY <1>5 DEF Certifies
    <2>1. UsedUp(s)' /\ \A x \in deviceCerts : x.serial # s
      BY <1>1, <1>5 DEF ProvisionInv, Certifies
    <2>2. /\ sign_csr("device", s, key).serial = s
          /\ sign_csr("device", s, key).ca = "device"
      BY DEF sign_csr
    <2>3. ProvisionedOnce'
      BY <2>0, <2>1, <2>2 DEF ProvisionInv, ProvisionedOnce
    <2>4. \A x \in deviceCerts' : x.ca = "device" /\ UsedUp(x.serial)'
      BY <1>2, <2>0, <2>1, <2>2
    <2>5. ASSUME NEW d \in Calls, NEW r \in Serials, Provisioning(d, r)'
          PROVE  /\ UsedUp(r)'
                 /\ \A x \in deviceCerts' : x.serial # r
                 /\ \A e \in Calls : Provisioning(e, r)' => e = d
      <3>1. Provisioning(d, r) /\ d # c /\ Provisioning(c, s)
        BY <1>5, <2>5 DEF Certifies
      <3>2. r # s
        BY <3>1 DEF ProvisionInv
      <3> QED
        BY <1>1, <1>5, <2>0, <2>2, <3>1, <3>2 DEF ProvisionInv, Certifies
    <2> QED
      BY <1>0, <2>3, <2>4, <2>5 DEF ProvisionInv, UsedUp
  <1> QED
    BY <1>0, <1>3, <1>4, <1>5, ProvisioningSteps

\* ProvisionInv holds in every reachable state.
LEMMA ProvisionInvariant == Spec => []ProvisionInv
  BY ProvisionInit, ProvisionStep, PTL DEF Spec

\* The one-time token buys one device certificate, for any number of concurrent and
\* repeated ProvisionDevice calls, restarts and crashes.
THEOREM ProvisionedAtMostOnce == Spec => []ProvisionedOnce
  <1>1. ProvisionInv => ProvisionedOnce
    BY DEF ProvisionInv
  <1> QED
    BY <1>1, ProvisionInvariant, PTL

-----------------------------------------------------------------------------
(* Enrollment                                                              *)

\* ProvisionDevice has returned a certificate for s.
Certified(s) == \E x \in deviceCerts : x.serial = s

\* Nobody is admitted, and no handler gets past its claim.
NoEnrollment ==
    /\ NoAdmission
    /\ \A c \in Calls, s \in Serials : Enrolling(c, s)' => Enrolling(c, s)

\* Call c presents the certificate of s and claims it: no other call gets past its
\* claim.
ClaimsSerial(c, s) ==
    /\ NoAdmission
    /\ Certified(s)
    /\ preEnrollment[s] = "unclaimed" /\ preEnrollment'[s] = "claimed"
    /\ \A d \in Calls, r \in Serials : Enrolling(d, r)' => Enrolling(d, r) \/ (d = c /\ r = s)

\* Call c is past its claim and inserts the device.
Enters(c, id) ==
    /\ Admits(c, id)
    /\ \A d \in Calls, s \in Serials : Enrolling(d, s)' => Enrolling(d, s) /\ d # c

\* Replacing call c by one that is not past a claim lets nobody past a claim.
LEMMA OtherEnrollments ==
    ASSUME TypeInv, NEW c \in Calls, NEW call,
           ~ (call.op = "enroll" /\ call.pc \in {"claimed", "signed"}),
           calls' = [calls EXCEPT ![c] = call]
    PROVE  \A d \in Calls, s \in Serials : Enrolling(d, s)' => Enrolling(d, s) /\ d # c
  BY DEF TypeInv, TypeOK, Enrolling

\* The first step of BootstrapEnroll.
LEMMA BootstrapSteps ==
    ASSUME TypeInv, NEW c \in Calls, NEW s, NEW key \in Keys,
           NEW peer \in PeerCerts, bootstrap_enroll(c, s, key, peer)
    PROVE  NoEnrollment \/ \E r \in Serials : ClaimsSerial(c, r)
  <1> DEFINE r == extract_serial(peer)
             call == [Idle EXCEPT !.op = "enroll", !.serial = r, !.key = key]
  <1>0. r \in Serials /\ call \in Call /\ call.serial = r
    BY PeerCertsType, NewCalls DEF Ops, Idle, extract_serial, Cert
  <1>1. NoAdmission
    <2>1. UNCHANGED <<devices, admitted>>
      BY DEF bootstrap_enroll, lookup_and_claim, DbFails, tables
    <2> QED
      BY <2>1, SameTables DEF NoAdmission
  <1>2. ASSUME NEW code, calls' = [calls EXCEPT ![c] = Answer(call, code)]
        PROVE  NoEnrollment
    <2>1. Answer(call, code).pc \notin {"claimed", "signed"}
      BY <1>0, CallFields
    <2> QED
      BY <1>1, <1>2, <2>1, OtherEnrollments DEF NoEnrollment
  <1>3. ASSUME verify_signed_by(peer, "device"), lookup_and_claim(r, "Ok"),
               calls' = [calls EXCEPT ![c] = Goto(call, "claimed")]
        PROVE  ClaimsSerial(c, r)
    <2>1. Certified(r)
      <3>1. peer \in deviceCerts
        BY <1>3 DEF verify_signed_by, PeerCerts, sign_csr
      <3> QED
        BY <3>1 DEF Certified, extract_serial
    <2>2. preEnrollment[r] = "unclaimed" /\ preEnrollment'[r] = "claimed"
      BY <1>0, <1>3 DEF lookup_and_claim, DbFails, TypeInv, TypeOK, StoreTypeOK
    <2>3. \A d \in Calls : calls'[d] = IF d = c THEN Goto(call, "claimed") ELSE calls[d]
      BY <1>3 DEF TypeInv, TypeOK
    <2>4. Goto(call, "claimed").serial = r
      BY <1>0, CallFields
    <2>5. \A d \in Calls, q \in Serials :
             Enrolling(d, q)' => Enrolling(d, q) \/ (d = c /\ q = r)
      BY <2>3, <2>4 DEF Enrolling
    <2> QED
      BY <1>1, <2>1, <2>2, <2>5 DEF ClaimsSerial
  <1> QED
    BY <1>0, <1>2, <1>3 DEF bootstrap_enroll

\* Every step enrolls nobody, claims the serial of a certificate, or inserts the
\* device of a call that is past its claim.
LEMMA EnrollmentSteps ==
    ASSUME TypeInv, [Next]_vars
    PROVE  \/ NoEnrollment
           \/ \E c \in Calls, s \in Serials : ClaimsSerial(c, s)
           \/ \E c \in Calls, id \in Ids : Enters(c, id)
  <1>0. \A c \in Calls : calls[c] \in Call /\ ArgsOK(calls[c])
    BY DEF TypeInv, TypeOK
  <1>1. ASSUME NEW c \in Calls, NEW call,
               call.op # "enroll" \/ call.pc \notin {"claimed", "signed"},
               calls' = [calls EXCEPT ![c] = call], NoAdmission
        PROVE  NoEnrollment
    BY <1>1, OtherEnrollments DEF NoEnrollment
  <1>2. ASSUME NEW c \in Calls, NEW s \in Serials \cup {Nil}, NEW key \in Keys \cup {Nil},
               NEW token, provision_device(c, s, key, token), NoAdmission
        PROVE  NoEnrollment
    <2> DEFINE new == [Idle EXCEPT !.op = "provision", !.serial = s, !.key = key]
    <2>1. new \in Call /\ new.op = "provision"
      BY NewCalls DEF Ops, Idle
    <2>2. PICK call : call.op = "provision" /\ calls' = [calls EXCEPT ![c] = call]
      BY <1>2, <2>1, CallFields DEF provision_device
    <2> QED
      BY <1>1, <1>2, <2>2
  <1>3. ASSUME NEW c \in Calls, NEW id \in Ids, NEW key \in Keys, renew_cert(c, id, key),
               NoAdmission
        PROVE  NoEnrollment
    <2> DEFINE new == [Idle EXCEPT !.op = "renew", !.id = id, !.key = key]
    <2>1. new \in Call /\ new.op = "renew"
      BY NewCalls DEF Ops, Idle
    <2>2. Goto(new, "found").op = "renew" /\ \A code : Answer(new, code).op = "renew"
      BY <2>1, CallFields
    <2>3. PICK call : call.op = "renew" /\ calls' = [calls EXCEPT ![c] = call]
      BY <1>3, <2>2 DEF renew_cert
    <2> QED
      BY <1>1, <1>3, <2>3
  <1>4. ASSUME NEW c \in Calls, NEW id \in Ids, NEW status,
               update_device_status(c, id, status), NoAdmission
        PROVE  NoEnrollment
    <2> DEFINE new == [Idle EXCEPT !.op = "status", !.id = id]
    <2>1. new \in Call /\ new.op = "status"
      BY NewCalls DEF Ops, Idle
    <2>2. PICK call : call.op = "status" /\ calls' = [calls EXCEPT ![c] = call]
      BY <1>4, <2>1, CallFields DEF update_device_status
    <2> QED
      BY <1>1, <1>4, <2>2
  <1>5. ASSUME NEW c \in Calls, Request(c)
        PROVE  NoEnrollment \/ \E s \in Serials : ClaimsSerial(c, s)
    <2>1. NoAdmission
      BY <1>5, RequestAdmitsNobody
    <2> QED
      BY <1>2, <1>3, <1>4, <1>5, <2>1, BootstrapSteps DEF Request
  <1>6. ASSUME NEW c \in Calls, enroll_create(c)
        PROVE  NoEnrollment \/ \E id \in Ids : Enters(c, id)
    <2>1. \A code, v : /\ Answer(calls[c], code).pc = "replied"
                       /\ [Answer(calls[c], code) EXCEPT !.id = v].pc = "replied"
      BY <1>0 DEF Answer, Call
    <2>2. PICK call : call.pc = "replied" /\ calls' = [calls EXCEPT ![c] = call]
      BY <1>6, <2>1 DEF enroll_create
    <2>3. \A d \in Calls, s \in Serials : Enrolling(d, s)' => Enrolling(d, s) /\ d # c
      BY <2>2, OtherEnrollments
    <2>4. NoAdmission \/ \E id \in Ids : Admits(c, id)
      BY <1>6, EnrollCreateSteps
    <2> QED
      BY <2>3, <2>4 DEF NoEnrollment, Enters
  <1>7. ASSUME NEW c \in Calls,
               \/ provision_sign(c) \/ enroll_sign(c) \/ renew_sign(c)
               \/ update_read_back(c) \/ Respond(c)
        PROVE  NoEnrollment
    <2>1. NoAdmission
      <3>1. UNCHANGED <<devices, admitted>>
        BY <1>7 DEF provision_sign, enroll_sign, renew_sign, update_read_back, Respond,
                    SignFails, get_device, DbFails, tables
      <3> QED
        BY <3>1, SameTables DEF NoAdmission
    <2>2. CASE enroll_sign(c) /\ ~ SignFails(c)
      <3>1. \A d \in Calls : calls'[d] = IF d = c THEN Goto(calls[c], "signed") ELSE calls[d]
        BY <2>2 DEF enroll_sign, TypeInv, TypeOK
      <3>2. Goto(calls[c], "signed").serial = calls[c].serial
        BY <1>0, CallFields
      <3> QED
        BY <2>1, <2>2, <3>1, <3>2 DEF NoEnrollment, Enrolling, enroll_sign, At
    <2>3. CASE ~ (enroll_sign(c) /\ ~ SignFails(c))
      <3>1. /\ \A code : Answer(calls[c], code).pc = "replied"
            /\ \A code, v : [Answer(calls[c], code) EXCEPT !.status = v].pc = "replied"
        BY <1>0 DEF Answer, Call
      <3>2. Idle.pc = "idle"
        BY DEF Idle
      <3>3. CASE Respond(c)
        BY <1>1, <2>1, <3>2, <3>3 DEF Respond
      <3>4. CASE update_read_back(c)
        <4>1. PICK res \in StoreResults :
                 calls' = [calls EXCEPT ![c] =
                    IF res = "Ok"
                      THEN [Answer(calls[c], "ok") EXCEPT !.status = devices[calls[c].id].status]
                      ELSE Answer(calls[c], map_err(res))]
          BY <3>4 DEF update_read_back
        <4>2. CASE res = "Ok"
          BY <1>1, <2>1, <3>1, <4>1, <4>2
        <4>3. CASE res # "Ok"
          BY <1>1, <2>1, <3>1, <4>1, <4>3
        <4> QED
          BY <4>2, <4>3
      <3>5. CASE provision_sign(c) \/ renew_sign(c) \/ SignFails(c)
        BY <1>1, <2>1, <3>1, <3>5 DEF provision_sign, renew_sign, SignFails
      <3> QED
        BY <1>7, <2>3, <3>3, <3>4, <3>5 DEF enroll_sign
    <2> QED
      BY <2>2, <2>3
  <1>8. CASE Crash
    <2>1. NoAdmission
      BY <1>8, SameTables DEF Crash, tables, NoAdmission
    <2> QED
      BY <1>8, <2>1 DEF Crash, NoEnrollment, Enrolling, Idle
  <1>9. CASE \/ \E s \in Serials : RegisterSerial(s)
             \/ \E env \in FactoryManifests : Start(env)
             \/ UNCHANGED vars
    <2>1. UNCHANGED <<calls, devices, admitted>>
      BY <1>9 DEF RegisterSerial, register_serial, Start, seed_manifest, vars, serverVars,
                  tables
    <2> QED
      BY <2>1, SameTables DEF NoAdmission, NoEnrollment, Enrolling
  <1> QED
    BY <1>5, <1>6, <1>7, <1>8, <1>9 DEF Next, HandlerStep

\* The inductive invariant behind PhasesInOrder: a handler past its claim, and a
\* device that was admitted, have a certificate of ProvisionDevice.
PhaseInv ==
    /\ ProvisionInv
    /\ \A c \in Calls, s \in Serials : Enrolling(c, s) => Certified(s)
    /\ \A a \in admitted : Certified(a.serial)

\* A certificate that was returned is never taken back.
LEMMA StaysCertified ==
    ASSUME TypeInv, [Next]_vars, NEW s, Certified(s)
    PROVE  Certified(s)'
  <1>1. deviceCerts \subseteq deviceCerts'
    BY ProvisioningSteps DEF NoProvisioning, UsesEntry, Certifies
  <1> QED
    BY <1>1 DEF Certified

\* PhaseInv holds initially.
LEMMA PhaseInit == ServerInit => PhaseInv
  BY ProvisionInit DEF ServerInit, PhaseInv, Enrolling, Idle

\* PhaseInv is preserved by every step.
LEMMA PhaseStep == PhaseInv /\ [Next]_vars => PhaseInv'
  <1> SUFFICES ASSUME PhaseInv, [Next]_vars PROVE PhaseInv'
    OBVIOUS
  <1>0. TypeInv /\ ProvisionInv'
    BY ProvisionStep DEF PhaseInv, ProvisionInv
  <1>1. \A s : Certified(s) => Certified(s)'
    BY <1>0, StaysCertified
  <1>2. CASE NoEnrollment
    <2>1. \A c \in Calls, s \in Serials : Enrolling(c, s)' => Certified(s)'
      BY <1>1, <1>2 DEF PhaseInv, NoEnrollment
    <2>2. \A a \in admitted' : Certified(a.serial)'
      BY <1>1, <1>2 DEF PhaseInv, NoEnrollment, NoAdmission
    <2> QED
      BY <1>0, <2>1, <2>2 DEF PhaseInv, Certified
  <1>3. ASSUME NEW c \in Calls, NEW s \in Serials, ClaimsSerial(c, s) PROVE PhaseInv'
    <2>1. \A d \in Calls, r \in Serials : Enrolling(d, r)' => Certified(r)'
      BY <1>1, <1>3 DEF PhaseInv, ClaimsSerial
    <2>2. \A a \in admitted' : Certified(a.serial)'
      BY <1>1, <1>3 DEF PhaseInv, ClaimsSerial, NoAdmission
    <2> QED
      BY <1>0, <2>1, <2>2 DEF PhaseInv, Certified
  <1>4. ASSUME NEW c \in Calls, NEW id \in Ids, Enters(c, id) PROVE PhaseInv'
    <2>1. \A d \in Calls, r \in Serials : Enrolling(d, r)' => Certified(r)'
      BY <1>1, <1>4 DEF PhaseInv, Enters
    <2>2. calls[c].serial \in Serials
      BY <1>0, <1>4 DEF Enters, Admits, At, TypeInv, ArgsOK
    <2>3. Certified(calls[c].serial)
      BY <1>4, <2>2 DEF PhaseInv, Enters, Admits, At, Enrolling
    <2>4. \A a \in admitted' : Certified(a.serial)'
      BY <1>1, <1>4, <2>3 DEF PhaseInv, Enters, Admits
    <2> QED
      BY <1>0, <2>1, <2>4 DEF PhaseInv, Certified
  <1> QED
    BY <1>0, <1>2, <1>3, <1>4, EnrollmentSteps

\* PhaseInv holds in every reachable state.
LEMMA PhaseInvariant == Spec => []PhaseInv
  BY PhaseInit, PhaseStep, PTL DEF Spec

\* Every admitted device was provisioned first, with a certificate whose manifest
\* entry stays used up, for any interleaving of handlers, operators and crashes.
THEOREM PhasesAreOrdered == Spec => []PhasesInOrder
  <1>1. PhaseInv => PhasesInOrder
    BY DEF PhaseInv, ProvisionInv, PhasesInOrder, Certified, UsedUp
  <1> QED
    BY <1>1, PhaseInvariant, PTL

-----------------------------------------------------------------------------
(* The claim on a serial                                                   *)

\* Only an operator's reset undoes a claim, and it is recorded; the claim of a serial
\* with a device cannot be reset.
LEMMA ClaimsKept ==
    ASSUME TypeInv, [Next]_vars
    PROVE  /\ resets \subseteq resets'
           /\ \A s \in Serials \ resets' : preEnrollment[s] = "claimed" => preEnrollment'[s] = "claimed"
  <1>0. StoreTypeOK
    BY DEF TypeInv, TypeOK
  <1> DEFINE Kept == /\ resets' = resets
                     /\ \A s \in Serials : preEnrollment[s] = "claimed" => preEnrollment'[s] = "claimed"
  <1>1. ASSUME NEW c \in Calls, NEW s \in Serials \cup {Nil}, NEW key, NEW token,
               provision_device(c, s, key, token)
        PROVE  Kept
    <2>1. CASE UNCHANGED tables
      BY <1>1, <2>1 DEF tables, provision_device
    <2>2. CASE s # Nil /\ \E res \in StoreResults : claim_manifest_entry(s, token, res)
      BY <1>0, <1>1, <2>2, ClaimManifestKeeps DEF SameClaim, provision_device
    <2> QED
      BY <1>1, <2>1, <2>2 DEF provision_device
  <1>2. ASSUME NEW c \in Calls, NEW s, NEW key \in Keys, NEW peer \in PeerCerts,
               bootstrap_enroll(c, s, key, peer)
        PROVE  Kept
    <2>1. \A r \in Serials : preEnrollment[r] = "claimed" => preEnrollment'[r] = "claimed"
      BY <1>0, <1>2 DEF bootstrap_enroll, lookup_and_claim, DbFails, tables, StoreTypeOK
    <2> QED
      BY <1>2, <2>1 DEF bootstrap_enroll
  <1>3. ASSUME NEW c \in Calls,
               \/ \E id \in Ids, key \in Keys : renew_cert(c, id, key)
               \/ \E id \in Ids, status \in Statuses : update_device_status(c, id, status)
        PROVE  Kept
    BY <1>3 DEF renew_cert, get_device, update_device_status, update_status, DbFails, tables
  <1>4. ASSUME NEW c \in Calls, HandlerStep(c) PROVE Kept
    BY <1>4 DEF HandlerStep, provision_sign, enroll_sign, enroll_create, create_device,
                renew_sign, update_read_back, Respond, SignFails, get_device, DbFails, tables
  <1>5. ASSUME NEW s \in Serials, RegisterSerial(s)
        PROVE  /\ resets \subseteq resets'
               /\ \A r \in Serials \ resets' :
                     preEnrollment[r] = "claimed" => preEnrollment'[r] = "claimed"
    BY <1>0, <1>5 DEF RegisterSerial, register_serial, StoreTypeOK
  <1>6. CASE (\E env \in FactoryManifests : Start(env)) \/ Crash \/ UNCHANGED vars
    BY <1>6 DEF Start, seed_manifest, Crash, vars, serverVars, tables
  <1> QED
    BY <1>1, <1>2, <1>3, <1>4, <1>5, <1>6 DEF Next, Request

\* A step that admits nobody leaves every serial with the device it had.
LEMMA SameHasDevice ==
    ASSUME NoAdmission, NEW s
    PROVE  HasDevice(s)' <=> HasDevice(s)
  BY DEF NoAdmission, SameDevice, HasDevice

\* ClaimExcludes is inductive with the types.
LEMMA ExclusionStep == TypeInv /\ ClaimExcludes /\ [Next]_vars => ClaimExcludes'
  <1> SUFFICES ASSUME TypeInv, ClaimExcludes, [Next]_vars, NEW s \in Serials, s \notin resets'
               PROVE  /\ \A c, d \in Calls : Enrolling(c, s)' /\ Enrolling(d, s)' => c = d
                      /\ \A c \in Calls : Enrolling(c, s)' => ~ HasDevice(s)'
                      /\ (HasDevice(s)' \/ \E c \in Calls : Enrolling(c, s)')
                            => preEnrollment'[s] = "claimed"
    BY DEF ClaimExcludes
  <1>0. /\ s \notin resets
        /\ preEnrollment[s] = "claimed" => preEnrollment'[s] = "claimed"
    BY ClaimsKept
  <1>1. /\ \A c, d \in Calls : Enrolling(c, s) /\ Enrolling(d, s) => c = d
        /\ \A c \in Calls : Enrolling(c, s) => ~ HasDevice(s)
        /\ (HasDevice(s) \/ \E c \in Calls : Enrolling(c, s)) => preEnrollment[s] = "claimed"
    BY <1>0 DEF ClaimExcludes
  <1>2. CASE NoEnrollment
    <2>1. HasDevice(s)' <=> HasDevice(s)
      BY <1>2, SameHasDevice DEF NoEnrollment
    <2> QED
      BY <1>0, <1>1, <1>2, <2>1 DEF NoEnrollment
  <1>3. ASSUME NEW c \in Calls, NEW r \in Serials, ClaimsSerial(c, r)
        PROVE  /\ \A e, d \in Calls : Enrolling(e, s)' /\ Enrolling(d, s)' => e = d
               /\ \A e \in Calls : Enrolling(e, s)' => ~ HasDevice(s)'
               /\ (HasDevice(s)' \/ \E e \in Calls : Enrolling(e, s)')
                     => preEnrollment'[s] = "claimed"
    <2>1. HasDevice(s)' <=> HasDevice(s)
      BY <1>3, SameHasDevice DEF ClaimsSerial
    <2>2. CASE r = s
      BY <1>1, <1>3, <2>1, <2>2 DEF ClaimsSerial
    <2>3. CASE r # s
      BY <1>0, <1>1, <1>3, <2>1, <2>3 DEF ClaimsSerial
    <2> QED
      BY <2>2, <2>3
  <1>4. ASSUME NEW c \in Calls, NEW id \in Ids, Enters(c, id)
        PROVE  /\ \A e, d \in Calls : Enrolling(e, s)' /\ Enrolling(d, s)' => e = d
               /\ \A e \in Calls : Enrolling(e, s)' => ~ HasDevice(s)'
               /\ (HasDevice(s)' \/ \E e \in Calls : Enrolling(e, s)')
                     => preEnrollment'[s] = "claimed"
    <2>1. Enrolling(c, calls[c].serial)
      BY <1>4 DEF Enters, Admits, At, Enrolling
    <2>2. CASE calls[c].serial = s
      BY <1>0, <1>1, <1>4, <2>1, <2>2 DEF Enters
    <2>3. CASE calls[c].serial # s
      <3>1. HasDevice(s)' => HasDevice(s)
        BY <1>4, <2>3 DEF Enters, Admits, HasDevice, TypeInv, TypeOK, StoreTypeOK
      <3> QED
        BY <1>0, <1>1, <1>4, <3>1 DEF Enters
    <2> QED
      BY <2>2, <2>3
  <1> QED
    BY <1>2, <1>3, <1>4, EnrollmentSteps

\* As long as no operator resets the claim of a serial, one enrollment at most is past
\* its claim, and none once the device exists, for any number of concurrent calls.
THEOREM ClaimsExclude == Spec => []ClaimExcludes
  <1>1. ServerInit => ClaimExcludes
    <2> SUFFICES ASSUME ServerInit PROVE ClaimExcludes
      OBVIOUS
    <2>1. \A c \in Calls, s \in Serials : ~ Enrolling(c, s)
      BY DEF ServerInit, Enrolling, Idle
    <2>2. \A s \in Serials : ~ HasDevice(s)
      BY DEF ServerInit, StoreInit, HasDevice
    <2> QED
      BY <2>1, <2>2 DEF ClaimExcludes
  <1>2. Spec => []TypeInv
    BY TypeInit, TypeStep, PTL DEF Spec
  <1> QED
    BY <1>1, <1>2, ExclusionStep, PTL DEF Spec

-----------------------------------------------------------------------------
(* The refinement of Admission                                             *)

\* The phases of all serials, and the ledger, as the tables show them.
Phases == [s \in Serials |-> PhaseOf(s)]
Entry(i) == [serial |-> devices[i].serial, key |-> devices[i].key, id |-> i]
Ledger == {Entry(i) : i \in {j \in Ids : devices[j] # Nil}}

\* A step that admits nobody leaves the ledger as it is.
LEMMA SameLedger ==
    ASSUME NoAdmission PROVE Ledger' = Ledger
  <1>1. \A i \in Ids : /\ (devices'[i] = Nil) <=> (devices[i] = Nil)
                       /\ devices[i] # Nil => Entry(i)' = Entry(i)
    BY DEF NoAdmission, SameDevice, Entry
  <1>2. {j \in Ids : devices'[j] # Nil} = {j \in Ids : devices[j] # Nil}
    BY <1>1
  <1> QED
    BY <1>1, <1>2 DEF Ledger

\* The manifest changes only when it is seeded, or when an entry is used up; no device
\* is inserted by those steps.
LEMMA ManifestSteps ==
    ASSUME TypeInv, [Next]_vars
    PROVE  \/ UNCHANGED manifest
           \/ /\ NoAdmission
              /\ \E env \in [Serials -> Tokens \cup {Nil}] : seed_manifest(env)
           \/ /\ NoAdmission
              /\ \E s \in Serials : /\ manifest[s] # Nil /\ ~ manifest[s].provisioned
                                    /\ manifest' = [manifest EXCEPT ![s].provisioned = TRUE]
  <1>1. ASSUME NEW c \in Calls, Request(c)
        PROVE  \/ UNCHANGED manifest
               \/ /\ NoAdmission
                  /\ \E s \in Serials :
                        /\ manifest[s] # Nil /\ ~ manifest[s].provisioned
                        /\ manifest' = [manifest EXCEPT ![s].provisioned = TRUE]
    <2>0. NoAdmission
      BY <1>1, RequestAdmitsNobody
    <2>1. ASSUME NEW s \in Serials \cup {Nil}, NEW key, NEW token,
                 provision_device(c, s, key, token)
          PROVE  \/ UNCHANGED manifest
                 \/ /\ s \in Serials
                    /\ manifest[s] # Nil /\ ~ manifest[s].provisioned
                    /\ manifest' = [manifest EXCEPT ![s].provisioned = TRUE]
      BY <2>1 DEF provision_device, claim_manifest_entry, DbFails, tables
    <2>2. ASSUME \/ \E s \in Serials \cup {Nil}, key \in Keys, peer \in PeerCerts :
                       bootstrap_enroll(c, s, key, peer)
                 \/ \E id \in Ids, key \in Keys : renew_cert(c, id, key)
                 \/ \E id \in Ids, status \in Statuses : update_device_status(c, id, status)
          PROVE  UNCHANGED manifest
      BY <2>2 DEF bootstrap_enroll, lookup_and_claim, renew_cert, get_device,
                  update_device_status, update_status, DbFails, tables
    <2> QED
      BY <1>1, <2>0, <2>1, <2>2 DEF Request
  <1>2. ASSUME NEW c \in Calls, HandlerStep(c) PROVE UNCHANGED manifest
    BY <1>2 DEF HandlerStep, provision_sign, enroll_sign, enroll_create, create_device,
                renew_sign, update_read_back, Respond, SignFails, get_device, DbFails, tables
  <1>3. ASSUME NEW env \in FactoryManifests, Start(env)
        PROVE  /\ NoAdmission
               /\ \E e \in [Serials -> Tokens \cup {Nil}] : seed_manifest(e)
    <2>1. env \in [Serials -> Tokens \cup {Nil}]
      BY ManifestsAssumption
    <2>2. PICK skipped \in SUBSET Serials :
             seed_manifest([s \in Serials |-> IF s \in skipped THEN Nil ELSE env[s]])
      BY <1>3 DEF Start
    <2>3. [s \in Serials |-> IF s \in skipped THEN Nil ELSE env[s]]
            \in [Serials -> Tokens \cup {Nil}]
      BY <2>1
    <2>4. NoAdmission
      BY <1>3, SameTables DEF Start, seed_manifest, NoAdmission
    <2> QED
      BY <2>2, <2>3, <2>4
  <1>4. ASSUME (\E s \in Serials : RegisterSerial(s)) \/ Crash \/ UNCHANGED vars
        PROVE  UNCHANGED manifest
    BY <1>4 DEF RegisterSerial, register_serial, Crash, vars, tables
  <1> QED
    BY <1>1, <1>2, <1>3, <1>4 DEF Next

\* The initial tables are the initial ledger.
LEMMA RefinementInit == ServerInit => Abstract!Init
  BY DEF ServerInit, StoreInit, Abstract!Init, PhaseOf

\* Every step of the service is a step of Admission or changes nothing there.
LEMMA RefinementStep ==
    PhaseInv /\ [Next]_vars => [Abstract!Next]_<<Phases, Ledger>>
  <1> SUFFICES ASSUME PhaseInv, [Next]_vars
               PROVE  Abstract!Next \/ UNCHANGED <<Phases, Ledger>>
    BY DEF Abstract!Next
  <1>0. TypeInv /\ StoreTypeOK
    BY DEF PhaseInv, ProvisionInv, TypeInv, TypeOK
  <1>1. CASE UNCHANGED manifest /\ NoAdmission
    <2>1. Phases' = Phases
      BY <1>1 DEF Phases, PhaseOf
    <2> QED
      BY <1>1, <2>1, SameLedger
  <1>2. ASSUME NoAdmission, NEW env \in [Serials -> Tokens \cup {Nil}], seed_manifest(env)
        PROVE  Abstract!Next
    <2> DEFINE batch == {s \in Serials : manifest[s] = Nil /\ env[s] # Nil}
    <2>1. \A s \in Serials : manifest'[s] = IF s \in batch
                                THEN [token |-> env[s], provisioned |-> FALSE] ELSE manifest[s]
      BY <1>2 DEF seed_manifest
    <2>2. \A s \in batch : [token |-> env[s], provisioned |-> FALSE] # Nil
      <3>1. \A t \in Tokens : [token |-> t, provisioned |-> FALSE] \in ManifestRow
        BY Zenon DEF ManifestRow
      <3>2. \A s \in batch : env[s] \in Tokens
        BY <1>2
      <3> QED
        BY <3>1, <3>2, NilAssumption
    <2>3. \A s \in Serials : PhaseOf(s)' = IF s \in batch THEN "manufactured" ELSE PhaseOf(s)
      <3>1. ASSUME NEW s \in batch PROVE PhaseOf(s)' = "manufactured"
        <4>1. /\ manifest'[s] = [token |-> env[s], provisioned |-> FALSE]
              /\ manifest'[s] # Nil
          BY <2>1, <2>2
        <4>2. ~ manifest'[s].provisioned
          BY <4>1
        <4> QED
          BY <4>1, <4>2 DEF PhaseOf
      <3>2. ASSUME NEW s \in Serials, s \notin batch PROVE PhaseOf(s)' = PhaseOf(s)
        BY <2>1, <3>2 DEF PhaseOf
      <3> QED
        BY <3>1, <3>2
    <2>4. \A s \in batch : PhaseOf(s) = "unknown"
      BY DEF PhaseOf
    <2>5. Phases' = [s \in Serials |-> IF s \in batch THEN "manufactured" ELSE Phases[s]]
      BY <2>3 DEF Phases
    <2>6. Abstract!Manufacture(batch)
      BY <1>2, <2>4, <2>5, SameLedger DEF Abstract!Manufacture, Phases, Ledger, Entry
    <2>7. batch \in SUBSET Serials
      OBVIOUS
    <2> QED
      BY <2>6, <2>7 DEF Abstract!Next
  <1>3. ASSUME NoAdmission, NEW s \in Serials, manifest[s] # Nil, ~ manifest[s].provisioned,
               manifest' = [manifest EXCEPT ![s].provisioned = TRUE]
        PROVE  Abstract!Next
    <2>1. PhaseOf(s) = "manufactured"
      BY <1>3 DEF PhaseOf
    <2>2. PhaseOf(s)' = "provisioned"
      <3>1. manifest[s] \in ManifestRow /\ manifest'[s] = [manifest[s] EXCEPT !.provisioned = TRUE]
        BY <1>0, <1>3 DEF StoreTypeOK
      <3>2. manifest'[s].provisioned
        BY <3>1 DEF ManifestRow
      <3>3. manifest'[s] # Nil
        BY <1>0, <1>3, EntriesKept DEF KeepsEntries, SameEntry
      <3> QED
        BY <3>2, <3>3 DEF PhaseOf
    <2>3. \A r \in Serials : r # s => PhaseOf(r)' = PhaseOf(r)
      BY <1>0, <1>3 DEF PhaseOf, StoreTypeOK
    <2>4. Phases' = [Phases EXCEPT ![s] = "provisioned"]
      BY <2>2, <2>3 DEF Phases
    <2>5. Abstract!Provision(s)
      BY <1>3, <2>1, <2>4, SameLedger DEF Abstract!Provision, Phases, Ledger, Entry
    <2> QED
      BY <2>5 DEF Abstract!Next
  <1>4. ASSUME NEW c \in Calls, NEW id \in Ids, Admits(c, id)
        PROVE  Abstract!Next
    <2> DEFINE s == calls[c].serial
               key == calls[c].key
               row == [serial |-> s, key |-> key, status |-> "active"]
    <2>1. s \in Serials /\ key \in Keys
      BY <1>0, <1>4 DEF Admits, At, TypeInv, ArgsOK
    <2>2. PhaseOf(s) = "provisioned"
      <3>1. Certified(s)
        BY <1>4, <2>1 DEF PhaseInv, Admits, At, Enrolling
      <3>2. UsedUp(s)
        BY <3>1 DEF PhaseInv, ProvisionInv, Certified
      <3> QED
        BY <3>2 DEF UsedUp, PhaseOf
    <2>3. \A e \in Ledger : e.serial # s /\ e.id # id
      BY <1>4 DEF Admits, HasDevice, Ledger, Entry
    <2>4. Phases' = Phases
      BY <1>4 DEF Admits, Phases, PhaseOf
    <2>5. row # Nil
      BY <2>1, StatusAssumption, NilAssumption DEF DeviceRow
    <2>6. \A i \in Ids : devices'[i] = IF i = id THEN row ELSE devices[i]
      BY <1>0, <1>4 DEF Admits, StoreTypeOK
    <2>7. Ledger' = Ledger \cup {[serial |-> s, key |-> key, id |-> id]}
      <3>1. Entry(id)' = [serial |-> s, key |-> key, id |-> id]
        BY <2>6 DEF Entry
      <3>2. \A i \in Ids : i # id => Entry(i)' = Entry(i)
        BY <2>6 DEF Entry
      <3>3. {j \in Ids : devices'[j] # Nil} = {j \in Ids : devices[j] # Nil} \cup {id}
        BY <2>5, <2>6
      <3>4. devices[id] = Nil
        BY <1>4 DEF Admits
      <3> QED
        BY <3>1, <3>2, <3>3, <3>4 DEF Ledger
    <2>8. Abstract!Admit(s, key, id)
      BY <2>1, <2>2, <2>3, <2>4, <2>7 DEF Abstract!Admit, Phases, Ledger, Entry
    <2> QED
      BY <2>1, <2>8 DEF Abstract!Next
  <1>5. ASSUME NEW c \in Calls, NEW id \in Ids, Admits(c, id) PROVE UNCHANGED manifest
    BY <1>5 DEF Admits
  <1> QED
    BY <1>0, <1>1, <1>2, <1>3, <1>4, ManifestSteps, AdmissionSteps

\* The tables of the service change only as the abstract specification allows,
\* whatever the interleaving of handlers, operator resets, failures and crashes:
\* manufactured, then provisioned, then admitted, each once per serial, under an id
\* of its own, and no row is lost.
THEOREM ServiceImplementsAdmission == Spec => ImplementsAdmission
  <1>1. PhaseInv /\ [Next]_vars => [Abstract!Next]_<<Phases, Ledger>>
    BY RefinementStep
  <1> QED
    BY <1>1, RefinementInit, PhaseInvariant, PTL DEF Spec, ImplementsAdmission, Abstract!Spec,
       Phases, Ledger, Entry

=============================================================================
