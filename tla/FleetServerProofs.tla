-------------------------- MODULE FleetServerProofs --------------------------
(***************************************************************************)
(* Proofs about FleetServer, for every number of serials, keys, ids, calls *)
(* and every set of faults.                                                *)
(***************************************************************************)
EXTENDS FleetServer, TLAPS

-----------------------------------------------------------------------------
(* Type correctness                                                        *)

\* The store operations keep the types of the tables.
LEMMA SeedType ==
    ASSUME StoreTypeOK, NEW env \in [Serials -> Tokens \cup {Nil}], seed_manifest(env)
    PROVE  StoreTypeOK'
  BY NilAssumption DEF StoreTypeOK, seed_manifest, ManifestRow

\* A claim marks a row of the manifest, which stays a row.
LEMMA ClaimManifestType ==
    ASSUME StoreTypeOK, NEW s \in Serials, NEW token, NEW res,
           claim_manifest_entry(s, token, res)
    PROVE  StoreTypeOK'
  <1>1. CASE UNCHANGED tables
    BY <1>1 DEF StoreTypeOK, tables
  <1>2. CASE /\ manifest[s] # Nil
             /\ manifest' = [manifest EXCEPT ![s].provisioned = TRUE]
             /\ preEnrollment' = [preEnrollment EXCEPT ![s] =
                                    IF @ = "absent" THEN "unclaimed" ELSE @]
             /\ UNCHANGED devices
    BY <1>2 DEF StoreTypeOK, ManifestRow
  <1> QED
    BY <1>1, <1>2 DEF claim_manifest_entry, DbFails

\* Registering a serial writes one of the three states of a claim.
LEMMA RegisterType ==
    ASSUME StoreTypeOK, NEW s \in Serials, register_serial(s)
    PROVE  StoreTypeOK'
  BY DEF StoreTypeOK, register_serial

\* So does claiming it.
LEMMA LookupType ==
    ASSUME StoreTypeOK, NEW s \in Serials, NEW res, lookup_and_claim(s, res)
    PROVE  StoreTypeOK'
  BY DEF StoreTypeOK, lookup_and_claim, DbFails, tables

\* A device is inserted as a row of the table.
LEMMA CreateType ==
    ASSUME StoreTypeOK, NEW s \in Serials, NEW key \in Keys, NEW id \in Ids, NEW res,
           create_device(s, key, id, res)
    PROVE  StoreTypeOK'
  BY StatusAssumption DEF StoreTypeOK, create_device, DbFails, tables, DeviceRow

\* A read changes nothing.
LEMMA GetType ==
    ASSUME StoreTypeOK, NEW id, NEW res, get_device(id, res)
    PROVE  StoreTypeOK' /\ UNCHANGED tables
  BY DEF StoreTypeOK, get_device, DbFails, tables

\* A new status leaves the row a row.
LEMMA UpdateType ==
    ASSUME StoreTypeOK, NEW id \in Ids, NEW status \in Statuses, NEW res,
           update_status(id, status, res)
    PROVE  StoreTypeOK'
  <1>1. CASE UNCHANGED tables
    BY <1>1 DEF StoreTypeOK, tables
  <1>2. CASE /\ devices[id] # Nil
             /\ devices' = [devices EXCEPT ![id].status = status]
             /\ UNCHANGED <<manifest, preEnrollment>>
    BY <1>2 DEF StoreTypeOK, DeviceRow
  <1> QED
    BY <1>1, <1>2 DEF update_status, DbFails

\* A call that goes on or is answered is a call.
LEMMA CallSteps ==
    /\ Idle \in Call
    /\ \A call \in Call, pc \in Pcs : Goto(call, pc) \in Call
    /\ \A call \in Call, code \in Codes : Answer(call, code) \in Call
  <1>1. Idle \in Call
    BY DEF Idle, Call, Ops, Pcs
  <1>2. ASSUME NEW call \in Call, NEW pc \in Pcs PROVE Goto(call, pc) \in Call
    BY DEF Call, Goto
  <1>3. ASSUME NEW call \in Call, NEW code \in Codes PROVE Answer(call, code) \in Call
    BY DEF Call, Answer, Pcs
  <1> QED
    BY <1>1, <1>2, <1>3

\* A handler that goes on keeps its operation, an answered one is past its claim.
LEMMA CallFields ==
    /\ \A call \in Call : \A pc :
          /\ Goto(call, pc).op = call.op
          /\ Goto(call, pc).pc = pc
          /\ Goto(call, pc).serial = call.serial
          /\ Goto(call, pc).key = call.key
    /\ \A call \in Call : \A code :
          /\ Answer(call, code).op = call.op
          /\ Answer(call, code).pc = "replied"
          /\ Answer(call, code).serial = call.serial
          /\ Answer(call, code).key = call.key
  BY DEF Goto, Answer, Call

\* Both map_err functions return a status code for every error.
LEMMA CodesOfErrors ==
    /\ \A e : map_err(e) \in Codes
    /\ \A e : provisioning_map_err(e) \in Codes
  BY DEF map_err, provisioning_map_err, Codes

\* A new call for any operation is a call.
LEMMA NewCalls ==
    ASSUME NEW op \in Ops
    PROVE  /\ \A s \in Serials \cup {Nil}, key \in Keys \cup {Nil} :
                [Idle EXCEPT !.op = op, !.serial = s, !.key = key] \in Call
           /\ \A id \in Ids, key \in Keys :
                [Idle EXCEPT !.op = op, !.id = id, !.key = key] \in Call
           /\ \A id \in Ids : [Idle EXCEPT !.op = op, !.id = id] \in Call
  BY DEF Idle, Call, Pcs

\* A handler past its first step holds the arguments of its request: TypeOK alone
\* allows Nil there.
ArgsOK(call) ==
    /\ call.pc \in {"claimed", "signed"} => call.serial \in Serials /\ call.key \in Keys
    /\ call.pc = "updated" => call.id \in Ids

GoodCall(call) == call \in Call /\ ArgsOK(call)

TypeInv == TypeOK /\ \A c \in Calls : ArgsOK(calls[c])

\* An idle or answered call owes nothing.
LEMMA GoodCalls ==
    /\ GoodCall(Idle)
    /\ \A call \in Call, code \in Codes : GoodCall(Answer(call, code))
    /\ \A call \in Call : \A e : GoodCall(Answer(call, map_err(e)))
    /\ \A call \in Call : \A e : GoodCall(Answer(call, provisioning_map_err(e)))
  <1>1. GoodCall(Idle)
    BY CallSteps DEF GoodCall, ArgsOK, Idle
  <1>2. ASSUME NEW call \in Call, NEW code \in Codes PROVE GoodCall(Answer(call, code))
    <2>1. Answer(call, code).pc = "replied"
      BY DEF Answer, Call
    <2> QED
      BY <2>1, CallSteps DEF GoodCall, ArgsOK
  <1> QED
    BY <1>1, <1>2, CodesOfErrors

\* A call may go on when it holds the arguments of the next step.
LEMMA GotoGood ==
    ASSUME NEW call \in Call, NEW pc \in Pcs,
           pc \in {"claimed", "signed"} => call.serial \in Serials /\ call.key \in Keys,
           pc = "updated" => call.id \in Ids
    PROVE  GoodCall(Goto(call, pc))
  <1>1. /\ Goto(call, pc).pc = pc
        /\ Goto(call, pc).serial = call.serial
        /\ Goto(call, pc).key = call.key
        /\ Goto(call, pc).id = call.id
    BY DEF Goto, Call
  <1> QED
    BY <1>1, CallSteps DEF GoodCall, ArgsOK

\* Replacing one call by a good one keeps the calls good.
LEMMA CallsGood ==
    ASSUME TypeInv, NEW c \in Calls, NEW call, GoodCall(call),
           calls' = [calls EXCEPT ![c] = call]
    PROVE  calls' \in [Calls -> Call] /\ \A d \in Calls : ArgsOK(calls'[d])
  BY DEF TypeInv, TypeOK, GoodCall

\* A step that changes one call, for the better, and the tables within their types.
LEMMA OneCallStep ==
    ASSUME TypeInv, NEW c \in Calls, NEW call, GoodCall(call),
           calls' = [calls EXCEPT ![c] = call], StoreTypeOK',
           UNCHANGED <<up, deviceCerts, admitted, resets>>
    PROVE  TypeInv'
  <1>1. calls' \in [Calls -> Call] /\ \A d \in Calls : ArgsOK(calls'[d])
    BY CallsGood
  <1> QED
    BY <1>1 DEF TypeInv, TypeOK

\* The first step of ProvisionDevice keeps TypeInv.
LEMMA ProvisionType ==
    ASSUME TypeInv, NEW c \in Calls, NEW s \in Serials \cup {Nil},
           NEW key \in Keys \cup {Nil}, NEW token, provision_device(c, s, key, token)
    PROVE  TypeInv'
  <1> DEFINE call == [Idle EXCEPT !.op = "provision", !.serial = s, !.key = key]
  <1>1. call \in Call
    BY NewCalls DEF Ops
  <1>2. CASE /\ calls' = [calls EXCEPT ![c] = Answer(call, "invalid_argument")]
             /\ UNCHANGED tables
    <2>1. GoodCall(Answer(call, "invalid_argument"))
      BY <1>1, GoodCalls DEF Codes
    <2>2. StoreTypeOK'
      BY <1>2 DEF TypeInv, TypeOK, StoreTypeOK, tables
    <2> QED
      BY <1>2, <2>1, <2>2, OneCallStep DEF provision_device
  <1>3. ASSUME s # Nil, key # Nil, NEW res, claim_manifest_entry(s, token, res),
               calls' = [calls EXCEPT ![c] = IF res = "Ok" THEN Goto(call, "claimed")
                              ELSE Answer(call, provisioning_map_err(res))]
        PROVE  TypeInv'
    <2>1. StoreTypeOK'
      BY <1>3, ClaimManifestType DEF TypeInv, TypeOK
    <2>2. s \in Serials /\ key \in Keys
      BY <1>3
    <2>3. GoodCall(Goto(call, "claimed"))
      <3>1. call.serial = s /\ call.key = key
        BY DEF Idle
      <3> QED
        BY <1>1, <2>2, <3>1, GotoGood DEF Pcs
    <2>4. GoodCall(IF res = "Ok" THEN Goto(call, "claimed")
                   ELSE Answer(call, provisioning_map_err(res)))
      BY <1>1, <2>3, GoodCalls
    <2> QED
      BY <1>3, <2>1, <2>4, OneCallStep DEF provision_device
  <1> QED
    BY <1>2, <1>3 DEF provision_device

\* The first step of BootstrapEnroll keeps TypeInv.
LEMMA EnrollType ==
    ASSUME TypeInv, NEW c \in Calls, NEW s, NEW key \in Keys, NEW peer \in Cert,
           bootstrap_enroll(c, s, key, peer)
    PROVE  TypeInv'
  <1> DEFINE certSerial == extract_serial(peer)
             call == [Idle EXCEPT !.op = "enroll", !.serial = certSerial, !.key = key]
  <1>0. certSerial \in Serials
    BY DEF extract_serial, Cert
  <1>1. call \in Call
    BY <1>0, NewCalls DEF Ops
  <1>2. ASSUME NEW e, calls' = [calls EXCEPT ![c] = Answer(call, map_err(e))],
               UNCHANGED tables
        PROVE  TypeInv'
    <2>1. StoreTypeOK'
      BY <1>2 DEF TypeInv, TypeOK, StoreTypeOK, tables
    <2> QED
      BY <1>1, <1>2, <2>1, GoodCalls, OneCallStep DEF bootstrap_enroll
  <1>3. ASSUME NEW res, lookup_and_claim(certSerial, res),
               calls' = [calls EXCEPT ![c] = IF res = "Ok" THEN Goto(call, "claimed")
                              ELSE Answer(call, map_err(res))]
        PROVE  TypeInv'
    <2>1. StoreTypeOK'
      BY <1>0, <1>3, LookupType DEF TypeInv, TypeOK
    <2>2. GoodCall(Goto(call, "claimed"))
      <3>1. call.serial = certSerial /\ call.key = key
        BY DEF Idle
      <3> QED
        BY <1>0, <1>1, <3>1, GotoGood DEF Pcs
    <2>3. GoodCall(IF res = "Ok" THEN Goto(call, "claimed")
                   ELSE Answer(call, map_err(res)))
      BY <1>1, <2>2, GoodCalls
    <2> QED
      BY <1>3, <2>1, <2>3, OneCallStep DEF bootstrap_enroll
  <1> QED
    BY <1>2, <1>3 DEF bootstrap_enroll

\* The first step of RenewCert keeps TypeInv.
LEMMA RenewType ==
    ASSUME TypeInv, NEW c \in Calls, NEW id \in Ids, NEW key \in Keys,
           renew_cert(c, id, key)
    PROVE  TypeInv'
  <1> DEFINE call == [Idle EXCEPT !.op = "renew", !.id = id, !.key = key]
  <1>1. call \in Call
    BY NewCalls DEF Ops
  <1>2. GoodCall(Goto(call, "found"))
    BY <1>1, GotoGood DEF Pcs
  <1>3. StoreTypeOK'
    BY GetType DEF renew_cert, TypeInv, TypeOK
  <1>4. PICK new : GoodCall(new) /\ calls' = [calls EXCEPT ![c] = new]
    BY <1>1, <1>2, GoodCalls DEF renew_cert
  <1> QED
    BY <1>3, <1>4, OneCallStep DEF renew_cert

\* The first step of UpdateDeviceStatus keeps TypeInv.
LEMMA StatusType ==
    ASSUME TypeInv, NEW c \in Calls, NEW id \in Ids, NEW status \in Statuses,
           update_device_status(c, id, status)
    PROVE  TypeInv'
  <1> DEFINE call == [Idle EXCEPT !.op = "status", !.id = id]
  <1>1. call \in Call
    BY NewCalls DEF Ops
  <1>2. GoodCall(Goto(call, "updated"))
    <2>1. call.id = id
      BY DEF Idle
    <2> QED
      BY <1>1, <2>1, GotoGood DEF Pcs
  <1>3. StoreTypeOK'
    BY UpdateType DEF update_device_status, TypeInv, TypeOK
  <1>4. PICK new : GoodCall(new) /\ calls' = [calls EXCEPT ![c] = new]
    BY <1>1, <1>2, GoodCalls DEF update_device_status
  <1> QED
    BY <1>3, <1>4, OneCallStep DEF update_device_status

\* A failing signature keeps TypeInv.
LEMMA SignFailsType ==
    ASSUME TypeInv, NEW c \in Calls, SignFails(c)
    PROVE  TypeInv'
  <1>1. calls[c] \in Call
    BY DEF TypeInv, TypeOK
  <1>2. GoodCall(Answer(calls[c], "internal"))
    BY <1>1, GoodCalls DEF Codes
  <1>3. StoreTypeOK'
    BY DEF SignFails, TypeInv, TypeOK, StoreTypeOK, tables
  <1> QED
    BY <1>2, <1>3, OneCallStep DEF SignFails

\* The steps of a handler after its first one.
LEMMA HandlerType ==
    ASSUME TypeInv, NEW c \in Calls, HandlerStep(c)
    PROVE  TypeInv'
  <1>0. calls[c] \in Call /\ ArgsOK(calls[c])
    BY DEF TypeInv, TypeOK
  <1>ok. GoodCall(Answer(calls[c], "ok"))
    BY <1>0, GoodCalls DEF Codes
  <1>1. CASE provision_sign(c)
    <2>1. CASE SignFails(c)
      BY <2>1, SignFailsType
    <2>2. CASE ~ SignFails(c)
      <3>1. calls[c].serial \in Serials /\ calls[c].key \in Keys
        BY <1>0, <1>1 DEF provision_sign, At, ArgsOK
      <3>2. sign_csr("device", calls[c].serial, calls[c].key) \in Cert
        BY <3>1 DEF sign_csr, Cert, CAs
      <3>3. calls' = [calls EXCEPT ![c] = Answer(calls[c], "ok")]
        BY <1>1, <2>2 DEF provision_sign
      <3>4. calls' \in [Calls -> Call] /\ \A d \in Calls : ArgsOK(calls'[d])
        BY <1>ok, <3>3, CallsGood
      <3>5. deviceCerts' \subseteq Cert /\ UNCHANGED <<tables, up, admitted, resets>>
        BY <1>1, <2>2, <3>2 DEF provision_sign, TypeInv, TypeOK
      <3> QED
        BY <3>4, <3>5 DEF TypeInv, TypeOK, StoreTypeOK, tables
    <2> QED
      BY <2>1, <2>2
  <1>2. CASE enroll_sign(c)
    <2>1. CASE SignFails(c)
      BY <2>1, SignFailsType
    <2>2. CASE ~ SignFails(c)
      <3>1. calls[c].serial \in Serials /\ calls[c].key \in Keys
        BY <1>0, <1>2 DEF enroll_sign, At, ArgsOK
      <3>2. GoodCall(Goto(calls[c], "signed"))
        BY <1>0, <3>1, GotoGood DEF Pcs
      <3>3. /\ calls' = [calls EXCEPT ![c] = Goto(calls[c], "signed")]
            /\ UNCHANGED <<tables, up, deviceCerts, admitted, resets>>
        BY <1>2, <2>2 DEF enroll_sign
      <3>4. StoreTypeOK'
        BY <3>3 DEF TypeInv, TypeOK, StoreTypeOK, tables
      <3> QED
        BY <3>2, <3>3, <3>4, OneCallStep
    <2> QED
      BY <2>1, <2>2
  <1>3. CASE enroll_create(c)
    <2>1. calls[c].serial \in Serials /\ calls[c].key \in Keys
      BY <1>0, <1>3 DEF enroll_create, At, ArgsOK
    <2>2. PICK res \in StoreResults, id \in Ids :
             /\ create_device(calls[c].serial, calls[c].key, id, res)
             /\ \/ /\ res = "Ok"
                   /\ calls' = [calls EXCEPT ![c] = [Answer(calls[c], "ok") EXCEPT !.id = id]]
                   /\ admitted' = admitted \cup
                        {[serial |-> calls[c].serial, key |-> calls[c].key, id |-> id]}
                \/ /\ res # "Ok"
                   /\ calls' = [calls EXCEPT ![c] = Answer(calls[c], map_err(res))]
                   /\ UNCHANGED admitted
      BY <1>3 DEF enroll_create
    <2>3. StoreTypeOK'
      BY <2>1, <2>2, CreateType DEF TypeInv, TypeOK
    <2>4. GoodCall([Answer(calls[c], "ok") EXCEPT !.id = id])
      <3>1. Answer(calls[c], "ok") \in Call /\ Answer(calls[c], "ok").pc = "replied"
        BY <1>0, CallSteps, CallFields DEF Codes
      <3>2. [Answer(calls[c], "ok") EXCEPT !.id = id] \in Call
        BY <3>1 DEF Call
      <3>3. [Answer(calls[c], "ok") EXCEPT !.id = id].pc = "replied"
        BY <3>1 DEF Call
      <3> QED
        BY <3>2, <3>3 DEF GoodCall, ArgsOK
    <2>5. calls' \in [Calls -> Call] /\ \A d \in Calls : ArgsOK(calls'[d])
      BY <1>0, <2>2, <2>4, GoodCalls, CallsGood
    <2>6. admitted' \subseteq Admission
      BY <2>1, <2>2 DEF TypeInv, TypeOK, Admission
    <2> QED
      BY <1>3, <2>3, <2>5, <2>6 DEF enroll_create, TypeInv, TypeOK
  <1>4. CASE renew_sign(c)
    <2>1. CASE SignFails(c)
      BY <2>1, SignFailsType
    <2>2. CASE ~ SignFails(c)
      <3>1. /\ calls' = [calls EXCEPT ![c] = Answer(calls[c], "ok")]
            /\ UNCHANGED <<tables, up, deviceCerts, admitted, resets>>
        BY <1>4, <2>2 DEF renew_sign
      <3>2. StoreTypeOK'
        BY <3>1 DEF TypeInv, TypeOK, StoreTypeOK, tables
      <3> QED
        BY <1>ok, <3>1, <3>2, OneCallStep
    <2> QED
      BY <2>1, <2>2
  <1>5. CASE update_read_back(c)
    <2>1. calls[c].id \in Ids
      BY <1>0, <1>5 DEF update_read_back, At, ArgsOK
    <2>2. PICK res \in StoreResults :
             /\ get_device(calls[c].id, res)
             /\ calls' = [calls EXCEPT ![c] =
                  IF res = "Ok"
                    THEN [Answer(calls[c], "ok") EXCEPT !.status = devices[calls[c].id].status]
                    ELSE Answer(calls[c], map_err(res))]
      BY <1>5 DEF update_read_back
    <2>3. StoreTypeOK'
      BY <2>2, GetType DEF TypeInv, TypeOK
    <2>4. res = "Ok" => GoodCall([Answer(calls[c], "ok") EXCEPT
                                    !.status = devices[calls[c].id].status])
      <3> SUFFICES ASSUME res = "Ok"
                   PROVE  GoodCall([Answer(calls[c], "ok") EXCEPT
                                      !.status = devices[calls[c].id].status])
        OBVIOUS
      <3>1. devices[calls[c].id] # Nil
        BY <2>2 DEF get_device, DbFails
      <3>2. devices[calls[c].id].status \in Statuses
        BY <2>1, <3>1 DEF TypeInv, TypeOK, StoreTypeOK, DeviceRow
      <3>3. Answer(calls[c], "ok") \in Call /\ Answer(calls[c], "ok").pc = "replied"
        BY <1>0, CallSteps, CallFields DEF Codes
      <3>4. [Answer(calls[c], "ok") EXCEPT !.status = devices[calls[c].id].status] \in Call
        BY <3>2, <3>3 DEF Call
      <3>5. [Answer(calls[c], "ok") EXCEPT
               !.status = devices[calls[c].id].status].pc = "replied"
        BY <3>3 DEF Call
      <3> QED
        BY <3>4, <3>5 DEF GoodCall, ArgsOK
    <2>5. GoodCall(IF res = "Ok"
                     THEN [Answer(calls[c], "ok") EXCEPT !.status = devices[calls[c].id].status]
                     ELSE Answer(calls[c], map_err(res)))
      BY <1>0, <2>4, GoodCalls
    <2> QED
      BY <1>5, <2>2, <2>3, <2>5, OneCallStep DEF update_read_back
  <1>6. CASE Respond(c)
    <2>1. StoreTypeOK'
      BY <1>6 DEF Respond, TypeInv, TypeOK, StoreTypeOK, tables
    <2> QED
      BY <1>6, <2>1, GoodCalls, OneCallStep DEF Respond
  <1> QED
    BY <1>1, <1>2, <1>3, <1>4, <1>5, <1>6 DEF HandlerStep

\* The certificates clients present are certificates.
LEMMA PeerCertsType == TypeInv => PeerCerts \subseteq Cert
  BY DEF TypeInv, TypeOK, PeerCerts, sign_csr, Cert, CAs, Admission

\* TypeInv is preserved by every step.
LEMMA TypeStep == TypeInv /\ [Next]_vars => TypeInv'
  <1> SUFFICES ASSUME TypeInv, [Next]_vars PROVE TypeInv'
    OBVIOUS
  <1>1. ASSUME NEW c \in Calls, Request(c) PROVE TypeInv'
    BY <1>1, PeerCertsType, ProvisionType, EnrollType, RenewType, StatusType DEF Request
  <1>2. ASSUME NEW c \in Calls, HandlerStep(c) PROVE TypeInv'
    BY <1>2, HandlerType
  <1>3. ASSUME NEW s \in Serials, RegisterSerial(s) PROVE TypeInv'
    BY <1>3, RegisterType DEF RegisterSerial, TypeInv, TypeOK
  <1>4. ASSUME NEW env \in FactoryManifests, Start(env) PROVE TypeInv'
    <2>1. env \in [Serials -> Tokens \cup {Nil}]
      BY <1>4, ManifestsAssumption
    <2>2. PICK skipped \in SUBSET Serials :
             seed_manifest([s \in Serials |-> IF s \in skipped THEN Nil ELSE env[s]])
      BY <1>4 DEF Start
    <2>3. StoreTypeOK'
      BY <2>1, <2>2, SeedType DEF TypeInv, TypeOK
    <2> QED
      BY <1>4, <2>3 DEF Start, TypeInv, TypeOK
  <1>5. CASE Crash
    <2>1. calls' \in [Calls -> Call] /\ \A d \in Calls : ArgsOK(calls'[d])
      BY <1>5, GoodCalls DEF Crash, GoodCall
    <2> QED
      BY <1>5, <2>1 DEF Crash, TypeInv, TypeOK, StoreTypeOK, tables
  <1>6. CASE UNCHANGED vars
    BY <1>6 DEF vars, serverVars, tables, TypeInv, TypeOK, StoreTypeOK
  <1> QED
    BY <1>1, <1>2, <1>3, <1>4, <1>5, <1>6 DEF Next

\* TypeInv holds initially.
LEMMA TypeInit == ServerInit => TypeInv
  BY GoodCalls DEF ServerInit, StoreInit, TypeInv, TypeOK, StoreTypeOK, GoodCall

\* Tables and calls keep their types, whatever the handlers, operators and crashes
\* do; a handler that goes on has the arguments it needs.
THEOREM TypeCorrect == Spec => []TypeOK
  <1>1. Spec => []TypeInv
    BY TypeInit, TypeStep, PTL DEF Spec
  <1>2. TypeInv => TypeOK
    BY DEF TypeInv
  <1> QED
    BY <1>1, <1>2, PTL

-----------------------------------------------------------------------------
(* Admission                                                               *)

\* Row i of the devices table is the same device before and after the step.
SameDevice(i) ==
    /\ (devices'[i] = Nil) <=> (devices[i] = Nil)
    /\ devices[i] # Nil => /\ devices'[i].serial = devices[i].serial
                           /\ devices'[i].key = devices[i].key

\* No device and no admission is added.
NoAdmission == admitted' = admitted /\ \A i \in Ids : SameDevice(i)

\* Call c inserts the device it was admitted as, under a new id.
Admits(c, id) ==
    LET s == calls[c].serial
        key == calls[c].key
    IN  /\ At(c, "enroll", "signed")
        /\ ~ HasDevice(s)
        /\ devices[id] = Nil
        /\ devices' = [devices EXCEPT ![id] = [serial |-> s, key |-> key, status |-> "active"]]
        /\ admitted' = admitted \cup {[serial |-> s, key |-> key, id |-> id]}
        /\ UNCHANGED <<manifest, preEnrollment, deviceCerts>>

\* Tables that do not change hold the same devices.
LEMMA SameTables ==
    ASSUME UNCHANGED devices PROVE \A i \in Ids : SameDevice(i)
  BY DEF SameDevice

\* Changing a status leaves every device the same device.
LEMMA UpdateSame ==
    ASSUME StoreTypeOK, NEW id \in Ids, NEW status \in Statuses, NEW res,
           update_status(id, status, res)
    PROVE  \A i \in Ids : SameDevice(i)
  <1>1. CASE UNCHANGED devices
    BY <1>1, SameTables
  <1>2. CASE /\ devices[id] # Nil
             /\ devices' = [devices EXCEPT ![id].status = status]
    <2> SUFFICES ASSUME NEW i \in Ids PROVE SameDevice(i)
      OBVIOUS
    <2>1. CASE i # id
      BY <1>2, <2>1 DEF StoreTypeOK, SameDevice
    <2>2. CASE i = id
      <3>1. devices[id] \in DeviceRow
        BY <1>2 DEF StoreTypeOK
      <3>2. devices'[id] = [devices[id] EXCEPT !.status = status]
        BY <1>2 DEF StoreTypeOK
      <3>3. devices'[id] = [serial |-> devices[id].serial, key |-> devices[id].key,
                            status |-> status]
        BY <3>1, <3>2 DEF DeviceRow
      <3>4. devices'[id] # Nil
        BY <3>1, <3>3, NilAssumption DEF DeviceRow
      <3> QED
        BY <1>2, <2>2, <3>3, <3>4 DEF SameDevice
    <2> QED
      BY <2>1, <2>2
  <1> QED
    BY <1>1, <1>2 DEF update_status, DbFails, tables

\* The first step of a handler admits nobody.
LEMMA RequestAdmitsNobody ==
    ASSUME TypeInv, NEW c \in Calls, Request(c)
    PROVE  NoAdmission
  <1>1. ASSUME NEW s, NEW key, NEW token, provision_device(c, s, key, token)
        PROVE  NoAdmission
    <2>1. UNCHANGED <<devices, admitted>>
      BY <1>1 DEF provision_device, claim_manifest_entry, DbFails, tables
    <2> QED
      BY <2>1, SameTables DEF NoAdmission
  <1>2. ASSUME NEW s, NEW key, NEW peer, bootstrap_enroll(c, s, key, peer)
        PROVE  NoAdmission
    <2>1. UNCHANGED <<devices, admitted>>
      BY <1>2 DEF bootstrap_enroll, lookup_and_claim, DbFails, tables
    <2> QED
      BY <2>1, SameTables DEF NoAdmission
  <1>3. ASSUME NEW id, NEW key, renew_cert(c, id, key) PROVE NoAdmission
    <2>1. UNCHANGED <<devices, admitted>>
      BY <1>3 DEF renew_cert, get_device, DbFails, tables
    <2> QED
      BY <2>1, SameTables DEF NoAdmission
  <1>4. ASSUME NEW id \in Ids, NEW status \in Statuses, update_device_status(c, id, status)
        PROVE  NoAdmission
    <2>1. \A i \in Ids : SameDevice(i)
      BY <1>4, UpdateSame DEF update_device_status, TypeInv, TypeOK
    <2> QED
      BY <1>4, <2>1 DEF update_device_status, NoAdmission
  <1> QED
    BY <1>1, <1>2, <1>3, <1>4 DEF Request

\* The last step of BootstrapEnroll admits nobody, or inserts the device of a call
\* that finds none with its serial.
LEMMA EnrollCreateSteps ==
    ASSUME NEW c \in Calls, enroll_create(c)
    PROVE  NoAdmission \/ \E id \in Ids : Admits(c, id)
  <1>1. PICK res \in StoreResults, id \in Ids :
           /\ create_device(calls[c].serial, calls[c].key, id, res)
           /\ \/ /\ res = "Ok"
                 /\ admitted' = admitted \cup
                      {[serial |-> calls[c].serial, key |-> calls[c].key, id |-> id]}
              \/ /\ res # "Ok"
                 /\ UNCHANGED admitted
    BY DEF enroll_create
  <1>2. CASE res = "Ok"
    BY <1>1, <1>2 DEF enroll_create, create_device, DbFails, Admits
  <1>3. CASE res # "Ok"
    <2>1. UNCHANGED <<devices, admitted>>
      BY <1>1, <1>3 DEF create_device, DbFails, tables
    <2> QED
      BY <2>1, SameTables DEF NoAdmission
  <1> QED
    BY <1>2, <1>3

\* Every step admits nobody, or is the insert of a call that finds no device with
\* its serial.
LEMMA AdmissionSteps ==
    ASSUME TypeInv, [Next]_vars
    PROVE  NoAdmission \/ \E c \in Calls, id \in Ids : Admits(c, id)
  <1>1. ASSUME NEW c \in Calls, Request(c) PROVE NoAdmission
    BY <1>1, RequestAdmitsNobody
  <1>2. ASSUME NEW c \in Calls, enroll_create(c)
        PROVE  NoAdmission \/ \E id \in Ids : Admits(c, id)
    BY <1>2, EnrollCreateSteps
  <1>3. ASSUME NEW c \in Calls,
               \/ provision_sign(c) \/ enroll_sign(c) \/ renew_sign(c)
               \/ update_read_back(c) \/ Respond(c)
        PROVE  NoAdmission
    <2>1. UNCHANGED <<devices, admitted>>
      BY <1>3 DEF provision_sign, enroll_sign, renew_sign, update_read_back, Respond,
                  SignFails, get_device, DbFails, tables
    <2> QED
      BY <2>1, SameTables DEF NoAdmission
  <1>4. ASSUME \/ \E s \in Serials : RegisterSerial(s)
               \/ \E env \in FactoryManifests : Start(env)
               \/ Crash
               \/ UNCHANGED vars
        PROVE  NoAdmission
    <2>1. UNCHANGED <<devices, admitted>>
      BY <1>4 DEF RegisterSerial, register_serial, Start, seed_manifest, Crash, vars,
                  serverVars, tables
    <2> QED
      BY <2>1, SameTables DEF NoAdmission
  <1> QED
    BY <1>1, <1>2, <1>3, <1>4 DEF Next, HandlerStep

\* The inductive invariant behind the admission properties: AdmittedOnce alone is
\* not inductive, it needs the rows the admissions left in the devices table.
AdmissionInv == TypeInv /\ OneDevicePerSerial /\ AdmissionRecorded

\* AdmissionInv holds initially.
LEMMA AdmissionInit == ServerInit => AdmissionInv
  BY TypeInit DEF ServerInit, StoreInit, AdmissionInv, OneDevicePerSerial, AdmissionRecorded

\* AdmissionInv is preserved by every step.
LEMMA AdmissionStep == AdmissionInv /\ [Next]_vars => AdmissionInv'
  <1> SUFFICES ASSUME AdmissionInv, [Next]_vars PROVE AdmissionInv'
    OBVIOUS
  <1>0. TypeInv /\ TypeInv'
    BY TypeStep DEF AdmissionInv
  <1>1. CASE NoAdmission
    <2>1. OneDevicePerSerial'
      BY <1>1 DEF AdmissionInv, OneDevicePerSerial, NoAdmission, SameDevice
    <2>2. AdmissionRecorded'
      BY <1>0, <1>1 DEF AdmissionInv, AdmissionRecorded, NoAdmission, SameDevice,
                        TypeInv, TypeOK, Admission
    <2> QED
      BY <1>0, <2>1, <2>2 DEF AdmissionInv
  <1>2. ASSUME NEW c \in Calls, NEW id \in Ids, Admits(c, id) PROVE AdmissionInv'
    <2> DEFINE s == calls[c].serial
               key == calls[c].key
               row == [serial |-> s, key |-> key, status |-> "active"]
    <2>1. \A i \in Ids : devices'[i] = IF i = id THEN row ELSE devices[i]
      BY <1>0, <1>2 DEF Admits, TypeInv, TypeOK, StoreTypeOK
    <2>2. \A i \in Ids : devices[i] # Nil => devices[i].serial # s
      BY <1>2 DEF Admits, HasDevice
    <2>3. s \in Serials /\ key \in Keys
      BY <1>0, <1>2 DEF Admits, At, TypeInv, ArgsOK
    <2>4. row # Nil
      BY <2>3, StatusAssumption, NilAssumption DEF DeviceRow
    <2>5. OneDevicePerSerial'
      BY <2>1, <2>2 DEF AdmissionInv, OneDevicePerSerial
    <2>6. AdmissionRecorded'
      <3> SUFFICES ASSUME NEW a \in admitted'
                   PROVE  /\ devices'[a.id] # Nil
                          /\ devices'[a.id].serial = a.serial
                          /\ devices'[a.id].key = a.key
        BY DEF AdmissionRecorded
      <3>1. CASE a \in admitted
        <4>1. a.id \in Ids /\ a.id # id
          BY <1>0, <1>2, <3>1 DEF AdmissionInv, AdmissionRecorded, Admits, TypeInv, TypeOK,
                                  Admission
        <4> QED
          BY <2>1, <3>1, <4>1 DEF AdmissionInv, AdmissionRecorded
      <3>2. CASE a = [serial |-> s, key |-> key, id |-> id]
        BY <2>1, <2>4, <3>2
      <3> QED
        BY <1>2, <3>1, <3>2 DEF Admits
    <2> QED
      BY <1>0, <2>5, <2>6 DEF AdmissionInv
  <1> QED
    BY <1>0, <1>1, <1>2, AdmissionSteps

\* AdmissionInv holds in every reachable state.
LEMMA AdmissionInvariant == Spec => []AdmissionInv
  BY AdmissionInit, AdmissionStep, PTL DEF Spec

\* The devices table holds one row per serial at most, for any number of concurrent
\* enrollments, operator resets and crashes.
THEOREM OneDevice == Spec => []OneDevicePerSerial
  <1>1. AdmissionInv => OneDevicePerSerial
    BY DEF AdmissionInv
  <1> QED
    BY <1>1, AdmissionInvariant, PTL

\* Every successful BootstrapEnroll response stays recorded in the devices table
\* with the id and the certificate the robot was given.
THEOREM AdmissionsRecorded == Spec => []AdmissionRecorded
  <1>1. AdmissionInv => AdmissionRecorded
    BY DEF AdmissionInv
  <1> QED
    BY <1>1, AdmissionInvariant, PTL

\* No serial is admitted twice: two responses for one serial would name two rows,
\* or one row with two certificates.
THEOREM AdmittedAtMostOnce == Spec => []AdmittedOnce
  <1>1. AdmissionInv => AdmittedOnce
    <2> SUFFICES ASSUME AdmissionInv, NEW a \in admitted, NEW b \in admitted,
                        a.serial = b.serial
                 PROVE  a = b
      BY DEF AdmittedOnce
    <2>1. a \in Admission /\ b \in Admission
      BY DEF AdmissionInv, TypeInv, TypeOK
    <2>2. a.id = b.id
      BY <2>1 DEF AdmissionInv, AdmissionRecorded, OneDevicePerSerial, Admission
    <2>3. a.key = b.key
      BY <2>2 DEF AdmissionInv, AdmissionRecorded
    <2> QED
      BY <2>1, <2>2, <2>3 DEF Admission
  <1> QED
    BY <1>1, AdmissionInvariant, PTL

=============================================================================
