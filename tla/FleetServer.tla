----------------------------- MODULE FleetServer -----------------------------
(***************************************************************************)
(* The device-management service: the handlers of ProvisionDevice,         *)
(* BootstrapEnroll, RenewCert and UpdateDeviceStatus running concurrently  *)
(* over one DeviceStore (device-management-service/src/server,             *)
(* enrollment, provisioning, main).                                        *)
(*                                                                         *)
(* A handler is a sequence of store operations with CSR signing between    *)
(* them.  Tokio runs handlers on several threads and the store's mutex is  *)
(* released between two operations, so the steps of different calls        *)
(* interleave freely, and the process may stop between any two of them:    *)
(* the calls in flight are gone then, the tables stay.                     *)
(***************************************************************************)
EXTENDS DeviceStore

CONSTANTS
    Calls,              \* RPCs that may be in flight together
    FactoryManifests    \* values FACTORY_MANIFEST may have: serial |-> token or Nil

Codes == {"ok", "invalid_argument", "failed_precondition", "permission_denied",
          "already_exists", "unauthenticated", "not_found", "internal"}

ASSUME ManifestsAssumption == FactoryManifests \subseteq [Serials -> Tokens \cup {Nil}]
ASSUME CodesAssumption == Nil \notin Codes

VARIABLES
    up,             \* the process is running
    calls,          \* the RPCs in flight
    deviceCerts,    \* history: device certificates returned by ProvisionDevice
    admitted,       \* history: successful BootstrapEnroll responses
    resets          \* history: serials whose claim register_serial has reset

serverVars == <<up, calls, deviceCerts, admitted, resets>>
vars == <<tables, serverVars>>

Ops == {"none", "provision", "enroll", "renew", "status"}
Pcs == {"idle", "claimed", "signed", "found", "updated", "replied"}

Call == [op : Ops, pc : Pcs, serial : Serials \cup {Nil}, key : Keys \cup {Nil},
         id : Ids \cup {Nil}, status : Statuses \cup {Nil}, code : Codes \cup {Nil}]

Idle == [op |-> "none", pc |-> "idle", serial |-> Nil, key |-> Nil,
         id |-> Nil, status |-> Nil, code |-> Nil]

CAs == {"device", "fleet"}
Cert == [ca : CAs, serial : Serials, key : Keys]
Admission == [serial : Serials, key : Keys, id : Ids]

TypeOK ==
    /\ StoreTypeOK
    /\ up \in BOOLEAN
    /\ calls \in [Calls -> Call]
    /\ deviceCerts \subseteq Cert
    /\ admitted \subseteq Admission
    /\ resets \subseteq Serials

\* A call goes on to its next step, or returns to the client with a status code.
Goto(call, pc) == [call EXCEPT !.pc = pc]
Answer(call, code) == [call EXCEPT !.pc = "replied", !.code = code]

At(c, op, pc) == calls[c].op = op /\ calls[c].pc = pc

\* Mutant: the arm for a used token is missing.
provisioning_map_err_short(e) ==
    CASE e = "NotInManifest"         -> "failed_precondition"
      [] e = "InvalidProvisionToken" -> "permission_denied"
      [] OTHER                       -> "internal"

\* provisioning/mod.rs: store errors as gRPC status codes.
provisioning_map_err(e) ==
    CASE e = "NotInManifest"         -> "failed_precondition"
      [] e = "InvalidProvisionToken" -> "permission_denied"
      [] e = "AlreadyProvisioned"    -> "already_exists"
      [] OTHER                       -> "internal"

\* server/mod.rs: store and enrollment errors as gRPC status codes.
map_err(e) ==
    CASE e = "NotFound"             -> "not_found"
      [] e = "AlreadyEnrolled"      -> "already_exists"
      [] e = "SerialAlreadyClaimed" -> "already_exists"
      [] e = "NotPreEnrolled"       -> "failed_precondition"
      [] e = "SerialMismatch"       -> "invalid_argument"
      [] e = "DeviceNotActive"      -> "failed_precondition"
      [] e = "CertVerification"     -> "unauthenticated"
      [] OTHER                      -> "internal"

\* A signed certificate carries the CSR's subject and public key.  The service does
\* not compare the subject with the serial of the call; the clients are robot agents,
\* whose generate_csr writes their serial into the subject, so the two are the same.
sign_csr(ca, serial, key) == [ca |-> ca, serial |-> serial, key |-> key]
extract_serial(cert) == cert.serial
verify_signed_by(cert, ca) == cert.ca = ca

SignFails(c) ==
    /\ "sign" \in Faults
    /\ calls' = [calls EXCEPT ![c] = Answer(@, "internal")]
    /\ UNCHANGED <<tables, up, deviceCerts, admitted, resets>>

Accepts(c) == up /\ calls[c] = Idle

-----------------------------------------------------------------------------
(* ProvisionDevice: claim the manifest entry, then sign with the Device CA *)

provision_device(c, s, key, token) ==
    LET call == [Idle EXCEPT !.op = "provision", !.serial = s, !.key = key]
    IN  /\ Accepts(c)
        /\ \/ /\ Nil \in {s, key, token}
              /\ calls' = [calls EXCEPT ![c] = Answer(call, "invalid_argument")]
              /\ UNCHANGED tables
           \/ /\ Nil \notin {s, key, token}
              /\ \E res \in StoreResults :
                    /\ claim_manifest_entry(s, token, res)
                    /\ calls' = [calls EXCEPT ![c] =
                                   IF res = "Ok" THEN Goto(call, "claimed")
                                   ELSE Answer(call, provisioning_map_err(res))]
        /\ UNCHANGED <<up, deviceCerts, admitted, resets>>

provision_sign(c) ==
    /\ At(c, "provision", "claimed")
    /\ \/ /\ deviceCerts' = deviceCerts \cup
                              {sign_csr("device", calls[c].serial, calls[c].key)}
          /\ calls' = [calls EXCEPT ![c] = Answer(@, "ok")]
          /\ UNCHANGED <<tables, up, admitted, resets>>
       \/ SignFails(c)

-----------------------------------------------------------------------------
(* BootstrapEnroll: check the peer certificate, claim the serial, sign the *)
(* CSR with the Fleet CA, insert the device                                *)

\* The checks read the request only, so they are one step with the claim.  Both
\* ports that serve it require a client certificate, so there always is a peer.
bootstrap_enroll(c, serialFromReq, key, peer) ==
    LET certSerial == extract_serial(peer)
        call == [Idle EXCEPT !.op = "enroll", !.serial = certSerial, !.key = key]
    IN  /\ Accepts(c)
        /\ \/ /\ serialFromReq \notin {Nil, certSerial}
              /\ calls' = [calls EXCEPT ![c] = Answer(call, map_err("SerialMismatch"))]
              /\ UNCHANGED tables
           \/ /\ serialFromReq \in {Nil, certSerial}
              /\ ~ verify_signed_by(peer, "device")
              /\ calls' = [calls EXCEPT ![c] = Answer(call, map_err("CertVerification"))]
              /\ UNCHANGED tables
           \/ /\ serialFromReq \in {Nil, certSerial}
              /\ verify_signed_by(peer, "device")
              /\ \E res \in StoreResults :
                    /\ lookup_and_claim(certSerial, res)
                    /\ calls' = [calls EXCEPT ![c] =
                                   IF res = "Ok" THEN Goto(call, "claimed")
                                   ELSE Answer(call, map_err(res))]
        /\ UNCHANGED <<up, deviceCerts, admitted, resets>>

\* A failure leaves the claim in place: nothing in the service releases it.
enroll_sign(c) ==
    /\ At(c, "enroll", "claimed")
    /\ \/ /\ calls' = [calls EXCEPT ![c] = Goto(@, "signed")]
          /\ UNCHANGED <<tables, up, deviceCerts, admitted, resets>>
       \/ SignFails(c)

enroll_create(c) ==
    /\ At(c, "enroll", "signed")
    /\ \E res \in StoreResults, id \in Ids :
          /\ create_device(calls[c].serial, calls[c].key, id, res)
          /\ \/ /\ res = "Ok"
                /\ calls' = [calls EXCEPT ![c] = [Answer(@, "ok") EXCEPT !.id = id]]
                /\ admitted' = admitted \cup
                     {[serial |-> calls[c].serial, key |-> calls[c].key, id |-> id]}
             \/ /\ res # "Ok"
                /\ calls' = [calls EXCEPT ![c] = Answer(@, map_err(res))]
                /\ UNCHANGED admitted
    /\ UNCHANGED <<up, deviceCerts, resets>>

-----------------------------------------------------------------------------
(* RenewCert: read the device's status, then sign                          *)

renew_cert(c, id, key) ==
    LET call == [Idle EXCEPT !.op = "renew", !.id = id, !.key = key]
    IN  /\ Accepts(c)
        /\ \E res \in StoreResults :
              /\ get_device(id, res)
              /\ calls' = [calls EXCEPT ![c] =
                             IF res # "Ok" THEN Answer(call, map_err(res))
                             ELSE IF devices[id].status # "active"
                                    THEN Answer(call, map_err("DeviceNotActive"))
                                    ELSE Goto(call, "found")]
        /\ UNCHANGED <<up, deviceCerts, admitted, resets>>

renew_sign(c) ==
    /\ At(c, "renew", "found")
    /\ \/ /\ calls' = [calls EXCEPT ![c] = Answer(@, "ok")]
          /\ UNCHANGED <<tables, up, deviceCerts, admitted, resets>>
       \/ SignFails(c)

-----------------------------------------------------------------------------
(* UpdateDeviceStatus: update the row, then read it back for the response  *)

update_device_status(c, id, status) ==
    LET call == [Idle EXCEPT !.op = "status", !.id = id]
    IN  /\ Accepts(c)
        /\ \E res \in StoreResults :
              /\ update_status(id, status, res)
              /\ calls' = [calls EXCEPT ![c] =
                             IF res = "Ok" THEN Goto(call, "updated")
                             ELSE Answer(call, map_err(res))]
        /\ UNCHANGED <<up, deviceCerts, admitted, resets>>

update_read_back(c) ==
    /\ At(c, "status", "updated")
    /\ \E res \in StoreResults :
          /\ get_device(calls[c].id, res)
          /\ calls' = [calls EXCEPT ![c] =
                         IF res = "Ok"
                           THEN [Answer(@, "ok") EXCEPT !.status = devices[calls[c].id].status]
                           ELSE Answer(@, map_err(res))]
    /\ UNCHANGED <<up, deviceCerts, admitted, resets>>

-----------------------------------------------------------------------------
(* The process and its operators                                           *)

\* The response leaves the server; whether the client still waits is not its concern.
Respond(c) ==
    /\ calls[c].pc = "replied"
    /\ calls' = [calls EXCEPT ![c] = Idle]
    /\ UNCHANGED <<tables, up, deviceCerts, admitted, resets>>

\* A serial is registered by hand.  register_serial is on the store's interface and
\* no RPC reaches it; it may run at any time the database is open.
RegisterSerial(s) ==
    /\ up
    /\ register_serial(s)
    /\ resets' = IF preEnrollment[s] = "claimed" /\ preEnrollment'[s] = "unclaimed"
                   THEN resets \cup {s} ELSE resets
    /\ UNCHANGED <<up, calls, deviceCerts, admitted>>

\* main: open the database, seed the manifest, serve.  An entry that cannot be
\* inserted is skipped with a warning.
Start(env) ==
    /\ ~ up
    /\ up' = TRUE
    /\ \E skipped \in SUBSET Serials :
          /\ skipped # {} => "db" \in Faults
          /\ seed_manifest([s \in Serials |-> IF s \in skipped THEN Nil ELSE env[s]])
    /\ UNCHANGED <<calls, deviceCerts, admitted, resets>>

Crash ==
    /\ "crash" \in Faults
    /\ up
    /\ up' = FALSE
    /\ calls' = [c \in Calls |-> Idle]
    /\ UNCHANGED <<tables, deviceCerts, admitted, resets>>

ServerInit ==
    /\ StoreInit
    /\ up = FALSE
    /\ calls = [c \in Calls |-> Idle]
    /\ deviceCerts = {}
    /\ admitted = {}
    /\ resets = {}

\* One more step of a call the server has accepted.
HandlerStep(c) ==
    \/ provision_sign(c)
    \/ enroll_sign(c)
    \/ enroll_create(c)
    \/ renew_sign(c)
    \/ update_read_back(c)
    \/ Respond(c)

\* Certificates a client can present: the ones it was given by either CA.
PeerCerts == deviceCerts \cup {sign_csr("fleet", a.serial, a.key) : a \in admitted}

\* A client's request arrives.
Request(c) ==
    \/ \E s \in Serials \cup {Nil}, key \in Keys \cup {Nil}, token \in Tokens \cup {Nil} :
          provision_device(c, s, key, token)
    \/ \E s \in Serials \cup {Nil}, key \in Keys, peer \in PeerCerts :
          bootstrap_enroll(c, s, key, peer)
    \/ \E id \in Ids, key \in Keys : renew_cert(c, id, key)
    \/ \E id \in Ids, status \in Statuses : update_device_status(c, id, status)

Next ==
    \/ \E c \in Calls : Request(c) \/ HandlerStep(c)
    \/ \E s \in Serials : RegisterSerial(s)
    \/ \E env \in FactoryManifests : Start(env)
    \/ Crash

Spec == ServerInit /\ [][Next]_vars

-----------------------------------------------------------------------------
(* Properties                                                              *)

\* A BootstrapEnroll handler that has claimed serial s and not yet inserted its device.
Enrolling(c, s) ==
    /\ calls[c].op = "enroll"
    /\ calls[c].pc \in {"claimed", "signed"}
    /\ calls[c].serial = s

\* No serial owns two device rows, however enrollments, retries and operator
\* resets interleave (create_device, UNIQUE(serial)).
OneDevicePerSerial ==
    \A i, j \in Ids :
        /\ devices[i] # Nil
        /\ devices[j] # Nil
        /\ devices[i].serial = devices[j].serial
        => i = j

\* A serial is admitted to the fleet at most once: two successful BootstrapEnroll
\* responses for one serial never exist (README: "cannot enroll twice"), even when
\* register_serial resets a claim under an enrollment that is still in flight.
AdmittedOnce ==
    \A a, b \in admitted : a.serial = b.serial => a = b

\* What the robot was told is what the fleet knows: the id and the certificate of
\* a successful BootstrapEnroll response are those of the stored device row, after
\* any later operation or crash.
AdmissionRecorded ==
    \A a \in admitted :
        /\ devices[a.id] # Nil
        /\ devices[a.id].serial = a.serial
        /\ devices[a.id].key = a.key

\* The one-time token buys one device certificate: concurrent or repeated
\* ProvisionDevice calls for a serial never return two (claim_manifest_entry).
ProvisionedOnce ==
    \A x, y \in deviceCerts : x.serial = y.serial => x = y

\* The phases happen in order: an admitted device presented a certificate issued
\* by ProvisionDevice, whose manifest entry stays used up and whose
\* pre-enrollment row stays.
PhasesInOrder ==
    \A a \in admitted :
        /\ \E x \in deviceCerts : x.serial = a.serial
        /\ manifest[a.serial] # Nil
        /\ manifest[a.serial].provisioned
        /\ preEnrollment[a.serial] # "absent"

\* The atomic claim excludes: as long as no operator has reset the claim of a
\* serial, one enrollment at most is past lookup_and_claim, none is once the
\* device exists, and the claim stays set while either is the case.
ClaimExcludes ==
    \A s \in Serials \ resets :
        /\ \A c, d \in Calls : Enrolling(c, s) /\ Enrolling(d, s) => c = d
        /\ \A c \in Calls : Enrolling(c, s) => ~ HasDevice(s)
        /\ (HasDevice(s) \/ \E c \in Calls : Enrolling(c, s))
              => preEnrollment[s] = "claimed"

\* No step, a restart with another FACTORY_MANIFEST included, changes the token of
\* a manifest entry, revives a used one, or changes the id, serial or certificate
\* of a device row; only the status of a device ever changes.
RecordsPermanentStep ==
    /\ \A s \in Serials : manifest[s] # Nil =>
          /\ manifest'[s] # Nil
          /\ manifest'[s].token = manifest[s].token
          /\ manifest[s].provisioned => manifest'[s].provisioned
    /\ \A i \in Ids : devices[i] # Nil =>
          /\ devices'[i] # Nil
          /\ devices'[i].serial = devices[i].serial
          /\ devices'[i].key = devices[i].key
RecordsPermanent == [][RecordsPermanentStep]_vars

\* A certificate is renewed only for a device that is active when RenewCert signs
\* (README: "cannot be renewed for an inactive device").
RenewedWhileActiveStep ==
    \A c \in Calls :
        (At(c, "renew", "found") /\ calls'[c].code = "ok")
            => devices[calls[c].id].status = "active"
RenewedWhileActive == [][RenewedWhileActiveStep]_vars

=============================================================================
