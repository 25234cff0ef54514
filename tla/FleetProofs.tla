----------------------------- MODULE FleetProofs -----------------------------
(***************************************************************************)
(* Proofs about Fleet, for every number of robots, keys and calls in       *)
(* flight, every set of faults and every bound on their number.            *)
(***************************************************************************)
EXTENDS Fleet, FleetServerProofs

-----------------------------------------------------------------------------
(* The inductive invariant                                                 *)

\* The service has certified key k of robot s.
HasCert(s, k) == sign_csr("device", s, k) \in deviceCerts

\* The service has admitted robot s with key k, under some id.
IsAdmitted(s, k) == \E a \in admitted : a.serial = s /\ a.key = k

\* A complete certificate on the disk is the service's, for the key file beside it;
\* every file was written after the ones it depends on.
FilesOK(s) ==
    /\ Complete(s, "device.pem") =>
          /\ disk[s]["device.pem"] \in Keys
          /\ disk[s]["device.pem"] = disk[s]["device.key"]
          /\ HasCert(s, disk[s]["device.pem"])
    /\ Exists(s, "operational.pem") => Complete(s, "device.pem")
    /\ Complete(s, "operational.pem") =>
          /\ disk[s]["operational.pem"] = disk[s]["operational.key"]
          /\ IsAdmitted(s, disk[s]["operational.pem"])
    /\ Exists(s, "device-id") => Complete(s, "operational.pem")
    /\ Complete(s, "device-id") =>
          [serial |-> s, key |-> disk[s]["operational.pem"], id |-> disk[s]["device-id"]]
             \in admitted

\* Phase 1: the key the robot asked a certificate for is the key on its disk, and no
\* certificate is there before the response is stored.
ProvisionPhase(s) ==
    /\ agent[s].pc \in {"prov_key", "prov_send", "prov_wait", "prov_store"} =>
          disk[s]["device.pem"] = Nil
    /\ agent[s].pc = "prov_fill" => disk[s]["device.pem"] = Torn
    /\ agent[s].pc \in {"prov_send", "prov_wait", "prov_store", "prov_fill"} =>
          agent[s].key \in Keys /\ disk[s]["device.key"] = agent[s].key
    /\ agent[s].pc \in {"prov_store", "prov_fill"} =>
          agent[s].cert = agent[s].key /\ HasCert(s, agent[s].key)

\* Phase 2, likewise.
EnrollPhase(s) ==
    /\ agent[s].pc \in {"enroll_gen", "enroll_key", "enroll_send", "enroll_wait", "cert_store"} =>
          Complete(s, "device.pem") /\ disk[s]["operational.pem"] = Nil
    /\ agent[s].pc = "cert_fill" => disk[s]["operational.pem"] = Torn
    /\ agent[s].pc \in {"enroll_send", "enroll_wait", "cert_store", "cert_fill"} =>
          agent[s].key \in Keys /\ disk[s]["operational.key"] = agent[s].key
    /\ agent[s].pc \in {"cert_store", "cert_fill", "chain_store", "chain_fill",
                        "id_store", "id_fill"} =>
          /\ agent[s].cert = agent[s].key
          /\ [serial |-> s, key |-> agent[s].key, id |-> agent[s].id] \in admitted
    /\ agent[s].pc \in {"chain_store", "chain_fill", "id_store", "id_fill"} =>
          disk[s]["operational.pem"] = agent[s].key
    /\ agent[s].pc = "online" =>
          /\ Complete(s, "operational.pem")
          /\ Exists(s, "device-id")
          /\ agent[s].id = disk[s]["device-id"]

RobotInv(s) == FilesOK(s) /\ ProvisionPhase(s) /\ EnrollPhase(s)

\* Call c asks for a certificate of key k for robot s; if it has been granted, the
\* service knows of it.
Asks(c, op, s, k) ==
    /\ calls[c].op = op
    /\ calls[c].serial = s
    /\ calls[c].key = k
    /\ calls[c].pc = "replied" /\ calls[c].code = "ok" =>
          IF op = "provision" THEN HasCert(s, k)
          ELSE [serial |-> s, key |-> k, id |-> calls[c].id] \in admitted

\* The call a robot waits for is the robot's own.
Link(s) ==
    agent[s].call # Nil =>
        /\ agent[s].pc = "prov_wait" => Asks(agent[s].call, "provision", s, agent[s].key)
        /\ agent[s].pc = "enroll_wait" => Asks(agent[s].call, "enroll", s, agent[s].key)

FleetInv ==
    /\ TypeInv
    /\ AgentTypeOK
    /\ \A s \in Serials : RobotInv(s) /\ Link(s)

-----------------------------------------------------------------------------
(* Files and processes                                                     *)

Contents == Keys \cup Ids \cup {Nil, Torn, Chain}

\* A key or an id is never taken for a missing or a torn file.
LEMMA ContentFacts ==
    /\ Torn # Nil /\ Chain # Nil /\ Chain # Torn
    /\ \A k \in Keys \cup Ids : k # Nil /\ k # Torn
  BY NilAssumption, FileContentsAssumption

\* Writing one file leaves the others alone, and the other robots' disks.
LEMMA WriteFacts ==
    ASSUME AgentTypeOK, NEW s \in Serials, NEW f \in Files, NEW x \in Contents,
           disk' = [disk EXCEPT ![s][f] = x]
    PROVE  /\ disk' \in [Serials -> [Files -> Contents]]
           /\ disk'[s][f] = x
           /\ \A g \in Files : g # f => disk'[s][g] = disk[s][g]
           /\ \A t \in Serials : t # s => disk'[t] = disk[t]
  <1>1. disk \in [Serials -> [Files -> Contents]]
    BY DEF AgentTypeOK, Contents
  <1>2. disk' = [disk EXCEPT ![s] = [disk[s] EXCEPT ![f] = x]]
    OBVIOUS
  <1>3. [disk[s] EXCEPT ![f] = x] \in [Files -> Contents]
    BY <1>1
  <1> QED
    BY <1>1, <1>2, <1>3

\* A robot's process changes, and no other one.
LEMMA MoveFacts ==
    ASSUME AgentTypeOK, NEW s \in Serials, NEW p \in Process, agent' = [agent EXCEPT ![s] = p]
    PROVE  /\ agent' \in [Serials -> Process]
           /\ agent'[s] = p
           /\ \A t \in Serials : t # s => agent'[t] = agent[t]
  BY DEF AgentTypeOK

\* A step of a process that only changes its pc.
LEMMA GoesFacts ==
    ASSUME AgentTypeOK, NEW s \in Serials, NEW from, NEW to \in AgentPcs, Goes(s, from, to)
    PROVE  /\ agent' \in [Serials -> Process]
           /\ agent[s].pc = from
           /\ agent'[s].pc = to /\ agent'[s].key = agent[s].key /\ agent'[s].call = agent[s].call
           /\ agent'[s].cert = agent[s].cert /\ agent'[s].id = agent[s].id
           /\ \A t \in Serials : t # s => agent'[t] = agent[t]
  <1> DEFINE p == [agent[s] EXCEPT !.pc = to]
  <1>1. agent[s] \in Process
    BY DEF AgentTypeOK
  <1>2. p \in Process /\ p.pc = to /\ p.key = agent[s].key /\ p.call = agent[s].call
        /\ p.cert = agent[s].cert /\ p.id = agent[s].id
    BY <1>1 DEF Process
  <1>3. agent' = [agent EXCEPT ![s] = p] /\ agent[s].pc = from
    BY DEF Goes, AgentTypeOK
  <1> QED
    BY <1>2, <1>3, MoveFacts

\* A robot that does nothing keeps its part of the invariant while the service's
\* records grow.
LEMMA OtherRobot ==
    ASSUME NEW t \in Serials, RobotInv(t), agent'[t] = agent[t], disk'[t] = disk[t],
           deviceCerts \subseteq deviceCerts', admitted \subseteq admitted'
    PROVE  RobotInv(t)'
  <1>1. FilesOK(t)'
    BY DEF RobotInv, FilesOK, Complete, Exists, HasCert, IsAdmitted, sign_csr
  <1>2. ProvisionPhase(t)'
    BY DEF RobotInv, ProvisionPhase, HasCert, sign_csr
  <1>3. EnrollPhase(t)'
    BY DEF RobotInv, EnrollPhase, Complete, Exists
  <1> QED
    BY <1>1, <1>2, <1>3 DEF RobotInv

\* So does its call.
LEMMA OtherLink ==
    ASSUME NEW t \in Serials, Link(t), agent'[t] = agent[t],
           deviceCerts \subseteq deviceCerts', admitted \subseteq admitted',
           agent[t].call # Nil => calls'[agent[t].call] = calls[agent[t].call]
    PROVE  Link(t)'
  BY DEF Link, Asks, HasCert, sign_csr

\* The files stay as they are.
LEMMA SameFiles ==
    ASSUME NEW s \in Serials, RobotInv(s), disk'[s] = disk[s],
           UNCHANGED <<deviceCerts, admitted>>
    PROVE  FilesOK(s)'
  BY DEF RobotInv, FilesOK, Complete, Exists, HasCert, IsAdmitted, sign_csr

\* Between the phases the invariant asks nothing of the process.
LEMMA BetweenPhases ==
    ASSUME NEW s \in Serials, agent'[s].pc \in {"off", "main", "enroll", "load"}
    PROVE  ProvisionPhase(s)' /\ EnrollPhase(s)' /\ Link(s)'
  BY DEF ProvisionPhase, EnrollPhase, Link

\* A step of one robot on its own.
LEMMA RobotMoves ==
    ASSUME FleetInv, NEW s \in Serials, UNCHANGED vars,
           agent' \in [Serials -> Process], disk' \in [Serials -> [Files -> Contents]],
           \A t \in Serials : t # s => agent'[t] = agent[t] /\ disk'[t] = disk[t],
           FilesOK(s)', ProvisionPhase(s)', EnrollPhase(s)', Link(s)'
    PROVE  FleetInv'
  <1>1. UNCHANGED <<deviceCerts, admitted, calls>>
    BY DEF vars, serverVars
  <1>2. ASSUME NEW t \in Serials PROVE RobotInv(t)' /\ Link(t)'
    <2>1. CASE t = s
      BY <2>1 DEF RobotInv
    <2>2. CASE t # s
      BY <1>1, <2>2, OtherRobot, OtherLink DEF FleetInv
    <2> QED
      BY <2>1, <2>2
  <1>3. TypeInv'
    BY TypeStep DEF FleetInv
  <1> QED
    BY <1>2, <1>3 DEF FleetInv, AgentTypeOK, Contents

\* The types, in the form the steps use.
LEMMA FleetTypes ==
    ASSUME FleetInv
    PROVE  /\ AgentTypeOK
           /\ disk \in [Serials -> [Files -> Contents]]
           /\ agent \in [Serials -> Process]
           /\ \A s \in Serials : RobotInv(s) /\ FilesOK(s) /\ ProvisionPhase(s) /\ EnrollPhase(s)
                                  /\ Link(s)
  BY DEF FleetInv, AgentTypeOK, Contents, RobotInv

-----------------------------------------------------------------------------
(* The steps of a robot on its own                                         *)

\* A robot that stops keeps its files.
LEMMA ExitKeeps ==
    ASSUME FleetInv, NEW s \in Serials, Exit(s), UNCHANGED vars
    PROVE  FleetInv'
  <1>1. Off \in Process /\ Off.pc = "off"
    BY DEF Off, Process, AgentPcs
  <1>2. agent' = [agent EXCEPT ![s] = Off] /\ disk' = disk
    BY DEF Exit
  <1>3. agent' \in [Serials -> Process] /\ agent'[s] = Off
        /\ \A t \in Serials : t # s => agent'[t] = agent[t]
    BY <1>1, <1>2, FleetTypes, MoveFacts
  <1>4. FilesOK(s)'
    BY <1>2, FleetTypes, SameFiles DEF vars, serverVars
  <1> QED
    BY <1>1, <1>2, <1>3, <1>4, FleetTypes, BetweenPhases, RobotMoves

\* A robot goes from one phase to the next.
LEMMA PhaseKeeps ==
    ASSUME FleetInv, NEW s \in Serials, NEW from, NEW to \in {"main", "enroll", "load"},
           Goes(s, from, to), disk' = disk, UNCHANGED vars
    PROVE  FleetInv'
  <1>1. to \in AgentPcs
    BY DEF AgentPcs
  <1>2. /\ agent' \in [Serials -> Process] /\ agent'[s].pc = to
        /\ \A t \in Serials : t # s => agent'[t] = agent[t]
    BY <1>1, FleetTypes, GoesFacts
  <1>3. FilesOK(s)'
    BY FleetTypes, SameFiles DEF vars, serverVars
  <1> QED
    BY <1>2, <1>3, FleetTypes, BetweenPhases, RobotMoves

\* main, Phase 1: device.key is opened while there is no device.pem.
LEMMA OpenDeviceKey ==
    ASSUME FleetInv, NEW s \in Serials, ~ is_provisioned(s), Goes(s, "main", "prov_key"),
           Create(s, "device.key"), UNCHANGED vars
    PROVE  FleetInv'
  <1>1. "prov_key" \in AgentPcs /\ "device.key" \in Files /\ Torn \in Contents
    BY DEF AgentPcs, Files, Contents
  <1>2. /\ agent' \in [Serials -> Process] /\ agent'[s].pc = "prov_key"
        /\ \A t \in Serials : t # s => agent'[t] = agent[t]
    BY <1>1, FleetTypes, GoesFacts
  <1>3. /\ disk' \in [Serials -> [Files -> Contents]]
        /\ \A g \in Files : g # "device.key" => disk'[s][g] = disk[s][g]
        /\ \A t \in Serials : t # s => disk'[t] = disk[t]
    BY <1>1, FleetTypes, WriteFacts DEF Create
  <1>4. /\ disk'[s]["device.pem"] = Nil /\ disk'[s]["operational.pem"] = Nil
        /\ disk'[s]["device-id"] = Nil
    <2>1. /\ disk[s]["device.pem"] = Nil /\ disk[s]["operational.pem"] = Nil
          /\ disk[s]["device-id"] = Nil
      BY FleetTypes DEF is_provisioned, FilesOK, Exists, Complete
    <2> QED
      BY <1>3, <2>1 DEF Files
  <1>5. FilesOK(s)'
    BY <1>4 DEF FilesOK, Exists, Complete
  <1>6. ProvisionPhase(s)' /\ EnrollPhase(s)' /\ Link(s)'
    BY <1>2, <1>4 DEF ProvisionPhase, EnrollPhase, Link
  <1> QED
    BY <1>2, <1>3, <1>5, <1>6, RobotMoves

\* generate_csr in Phase 1: the new key pair is written to device.key.
LEMMA NewDeviceKey ==
    ASSUME FleetInv, NEW s \in Serials, NEW k \in Keys,
           generate_csr(s, "prov_key", "device.key", k, "prov_send"), UNCHANGED vars
    PROVE  FleetInv'
  <1> DEFINE p == [agent[s] EXCEPT !.pc = "prov_send", !.key = k]
  <1>1. agent[s] \in Process /\ agent[s].pc = "prov_key"
    BY FleetTypes DEF generate_csr
  <1>2. p \in Process /\ p.pc = "prov_send" /\ p.key = k
    BY <1>1 DEF Process, AgentPcs
  <1>3. agent' = [agent EXCEPT ![s] = p] /\ disk' = [disk EXCEPT ![s]["device.key"] = k]
    BY FleetTypes DEF generate_csr, Fill
  <1>4. /\ agent' \in [Serials -> Process] /\ agent'[s] = p
        /\ \A t \in Serials : t # s => agent'[t] = agent[t]
    BY <1>2, <1>3, FleetTypes, MoveFacts
  <1>5. "device.key" \in Files /\ k \in Contents
    BY DEF Files, Contents
  <1>6. /\ disk' \in [Serials -> [Files -> Contents]]
        /\ disk'[s]["device.key"] = k
        /\ \A g \in Files : g # "device.key" => disk'[s][g] = disk[s][g]
        /\ \A t \in Serials : t # s => disk'[t] = disk[t]
    BY <1>3, <1>5, FleetTypes, WriteFacts
  <1>7. /\ disk'[s]["device.pem"] = Nil /\ disk'[s]["operational.pem"] = Nil
        /\ disk'[s]["device-id"] = Nil
    <2>1. /\ disk[s]["device.pem"] = Nil /\ disk[s]["operational.pem"] = Nil
          /\ disk[s]["device-id"] = Nil
      BY <1>1, FleetTypes DEF ProvisionPhase, FilesOK, Exists, Complete
    <2> QED
      BY <1>6, <2>1 DEF Files
  <1>8. FilesOK(s)'
    BY <1>7 DEF FilesOK, Exists, Complete
  <1>9. ProvisionPhase(s)' /\ EnrollPhase(s)' /\ Link(s)'
    BY <1>2, <1>4, <1>6, <1>7 DEF ProvisionPhase, EnrollPhase, Link
  <1> QED
    BY <1>4, <1>6, <1>8, <1>9, RobotMoves

\* provision: device.pem is created, then filled with the certificate of device.key.
LEMMA StoreDeviceCert ==
    ASSUME FleetInv, NEW s \in Serials, provision_store(s), UNCHANGED vars
    PROVE  FleetInv'
  <1>0. "device.pem" \in Files /\ Torn \in Contents /\ UNCHANGED <<deviceCerts, admitted>>
    BY DEF Files, Contents, vars, serverVars
  <1>1. CASE Goes(s, "prov_store", "prov_fill") /\ Create(s, "device.pem")
    <2>1. "prov_fill" \in AgentPcs
      BY DEF AgentPcs
    <2>2. /\ agent' \in [Serials -> Process]
          /\ agent[s].pc = "prov_store" /\ agent'[s].pc = "prov_fill"
          /\ agent'[s].key = agent[s].key /\ agent'[s].cert = agent[s].cert
          /\ \A t \in Serials : t # s => agent'[t] = agent[t]
      BY <1>1, <2>1, FleetTypes, GoesFacts
    <2>3. /\ disk' \in [Serials -> [Files -> Contents]]
          /\ disk'[s]["device.pem"] = Torn
          /\ \A g \in Files : g # "device.pem" => disk'[s][g] = disk[s][g]
          /\ \A t \in Serials : t # s => disk'[t] = disk[t]
      BY <1>0, <1>1, FleetTypes, WriteFacts DEF Create
    <2>4. /\ disk'[s]["device.key"] = agent[s].key
          /\ disk'[s]["operational.pem"] = Nil /\ disk'[s]["device-id"] = Nil
      <3>1. /\ disk[s]["device.key"] = agent[s].key
            /\ disk[s]["operational.pem"] = Nil /\ disk[s]["device-id"] = Nil
        BY <2>2, FleetTypes DEF ProvisionPhase, FilesOK, Exists, Complete
      <3> QED
        BY <2>3, <3>1 DEF Files
    <2>5. FilesOK(s)'
      BY <2>3, <2>4 DEF FilesOK, Exists, Complete
    <2>6. agent[s].key \in Keys /\ agent[s].cert = agent[s].key /\ HasCert(s, agent[s].key)
      BY <2>2, FleetTypes DEF ProvisionPhase
    <2>7. ProvisionPhase(s)' /\ EnrollPhase(s)' /\ Link(s)'
      BY <1>0, <2>2, <2>3, <2>4, <2>6 DEF ProvisionPhase, EnrollPhase, Link, HasCert, sign_csr
    <2> QED
      BY <2>2, <2>3, <2>5, <2>7, RobotMoves
  <1>2. CASE Goes(s, "prov_fill", "enroll") /\ Fill(s, "device.pem", agent[s].cert)
    <2> DEFINE k == agent[s].key
    <2>1. "enroll" \in AgentPcs
      BY DEF AgentPcs
    <2>2. /\ agent' \in [Serials -> Process]
          /\ agent[s].pc = "prov_fill" /\ agent'[s].pc = "enroll"
          /\ \A t \in Serials : t # s => agent'[t] = agent[t]
      BY <1>2, <2>1, FleetTypes, GoesFacts
    <2>3. k \in Keys /\ agent[s].cert = k /\ HasCert(s, k) /\ disk[s]["device.key"] = k
      BY <2>2, FleetTypes DEF ProvisionPhase
    <2>4. disk' = [disk EXCEPT ![s]["device.pem"] = k] /\ k \in Contents
      BY <1>2, <2>3 DEF Fill, Contents
    <2>5. /\ disk' \in [Serials -> [Files -> Contents]]
          /\ disk'[s]["device.pem"] = k
          /\ \A g \in Files : g # "device.pem" => disk'[s][g] = disk[s][g]
          /\ \A t \in Serials : t # s => disk'[t] = disk[t]
      BY <1>0, <2>4, FleetTypes, WriteFacts
    <2>6. /\ disk'[s]["device.key"] = k
          /\ disk'[s]["operational.pem"] = Nil /\ disk'[s]["device-id"] = Nil
      <3>1. /\ disk[s]["device.pem"] = Torn
            /\ disk[s]["operational.pem"] = Nil /\ disk[s]["device-id"] = Nil
        BY <2>2, FleetTypes DEF ProvisionPhase, FilesOK, Exists, Complete
      <3> QED
        BY <2>3, <2>5, <3>1 DEF Files
    <2>7. FilesOK(s)'
      BY <1>0, <2>3, <2>5, <2>6 DEF FilesOK, Exists, Complete, HasCert, sign_csr
    <2> QED
      BY <2>2, <2>5, <2>7, BetweenPhases, RobotMoves
  <1> QED
    BY <1>1, <1>2 DEF provision_store

\* main, Phase 2: the robot connects with a device certificate that fits its key.
LEMMA ConnectKeeps ==
    ASSUME FleetInv, NEW s \in Serials, ConnectBootstrap(s)
    PROVE  FleetInv'
  <1>1. "enroll_gen" \in AgentPcs /\ disk' = disk /\ UNCHANGED vars
    BY DEF AgentPcs, ConnectBootstrap
  <1>2. /\ agent' \in [Serials -> Process] /\ agent'[s].pc = "enroll_gen"
        /\ \A t \in Serials : t # s => agent'[t] = agent[t]
    BY <1>1, FleetTypes, GoesFacts DEF ConnectBootstrap
  <1>3. FilesOK(s)'
    BY <1>1, FleetTypes, SameFiles DEF vars, serverVars
  <1>4. Complete(s, "device.pem") /\ disk[s]["operational.pem"] = Nil
    BY DEF ConnectBootstrap, Identity, is_enrolled, Exists
  <1>5. ProvisionPhase(s)' /\ EnrollPhase(s)' /\ Link(s)'
    BY <1>1, <1>2, <1>4 DEF ProvisionPhase, EnrollPhase, Link, Complete
  <1> QED
    BY <1>1, <1>2, <1>3, <1>5, FleetTypes, RobotMoves

\* Writing operational.key while there is no operational.pem disturbs no other file.
LEMMA WriteOperationalKey ==
    ASSUME FleetInv, NEW s \in Serials, NEW x \in Contents,
           agent[s].pc \in {"enroll_gen", "enroll_key"},
           disk' = [disk EXCEPT ![s]["operational.key"] = x], UNCHANGED vars
    PROVE  /\ disk' \in [Serials -> [Files -> Contents]]
           /\ disk'[s]["operational.key"] = x
           /\ disk'[s]["operational.pem"] = Nil
           /\ Complete(s, "device.pem")'
           /\ \A t \in Serials : t # s => disk'[t] = disk[t]
           /\ FilesOK(s)'
  <1>1. "operational.key" \in Files /\ UNCHANGED <<deviceCerts, admitted>>
    BY DEF Files, vars, serverVars
  <1>2. /\ disk' \in [Serials -> [Files -> Contents]]
        /\ disk'[s]["operational.key"] = x
        /\ \A g \in Files : g # "operational.key" => disk'[s][g] = disk[s][g]
        /\ \A t \in Serials : t # s => disk'[t] = disk[t]
    BY <1>1, FleetTypes, WriteFacts
  <1>3. Complete(s, "device.pem") /\ disk[s]["operational.pem"] = Nil /\ disk[s]["device-id"] = Nil
    BY FleetTypes DEF EnrollPhase, FilesOK, Exists, Complete
  <1>4. /\ disk'[s]["device.pem"] = disk[s]["device.pem"]
        /\ disk'[s]["device.key"] = disk[s]["device.key"]
        /\ disk'[s]["operational.pem"] = Nil /\ disk'[s]["device-id"] = Nil
    BY <1>2, <1>3 DEF Files
  <1>5. FilesOK(s)
    BY FleetTypes
  <1>6. FilesOK(s)'
    BY <1>1, <1>4, <1>5 DEF FilesOK, Exists, Complete, HasCert, sign_csr
  <1> QED
    BY <1>2, <1>3, <1>4, <1>6 DEF Complete

\* enroll: operational.key is opened, then filled with the new key pair.
LEMMA NewOperationalKey ==
    ASSUME FleetInv, NEW s \in Serials, UNCHANGED vars,
           \/ enroll_open_key(s)
           \/ \E k \in Keys : generate_csr(s, "enroll_key", "operational.key", k, "enroll_send")
    PROVE  FleetInv'
  <1>1. CASE enroll_open_key(s)
    <2>1. "enroll_key" \in AgentPcs /\ Torn \in Contents
          /\ disk' = [disk EXCEPT ![s]["operational.key"] = Torn]
      BY <1>1 DEF AgentPcs, Contents, enroll_open_key, Create
    <2>2. /\ agent' \in [Serials -> Process]
          /\ agent[s].pc = "enroll_gen" /\ agent'[s].pc = "enroll_key"
          /\ \A t \in Serials : t # s => agent'[t] = agent[t]
      BY <1>1, <2>1, FleetTypes, GoesFacts DEF enroll_open_key
    <2>3. /\ disk' \in [Serials -> [Files -> Contents]]
          /\ disk'[s]["operational.pem"] = Nil
          /\ Complete(s, "device.pem")'
          /\ \A t \in Serials : t # s => disk'[t] = disk[t]
          /\ FilesOK(s)'
      BY <2>1, <2>2, WriteOperationalKey
    <2>4. ProvisionPhase(s)' /\ EnrollPhase(s)' /\ Link(s)'
      BY <2>2, <2>3 DEF ProvisionPhase, EnrollPhase, Link
    <2> QED
      BY <2>2, <2>3, <2>4, RobotMoves
  <1>2. ASSUME NEW k \in Keys, generate_csr(s, "enroll_key", "operational.key", k, "enroll_send")
        PROVE  FleetInv'
    <2> DEFINE p == [agent[s] EXCEPT !.pc = "enroll_send", !.key = k]
    <2>1. agent[s] \in Process /\ agent[s].pc = "enroll_key"
      BY <1>2, FleetTypes DEF generate_csr
    <2>2. p \in Process /\ p.pc = "enroll_send" /\ p.key = k
      BY <2>1 DEF Process, AgentPcs
    <2>3. agent' = [agent EXCEPT ![s] = p] /\ disk' = [disk EXCEPT ![s]["operational.key"] = k]
          /\ k \in Contents
      BY <1>2, FleetTypes DEF generate_csr, Fill, Contents
    <2>4. /\ agent' \in [Serials -> Process] /\ agent'[s] = p
          /\ \A t \in Serials : t # s => agent'[t] = agent[t]
      BY <2>2, <2>3, FleetTypes, MoveFacts
    <2>5. /\ disk' \in [Serials -> [Files -> Contents]]
          /\ disk'[s]["operational.key"] = k
          /\ disk'[s]["operational.pem"] = Nil
          /\ Complete(s, "device.pem")'
          /\ \A t \in Serials : t # s => disk'[t] = disk[t]
          /\ FilesOK(s)'
      BY <2>1, <2>3, WriteOperationalKey
    <2>6. ProvisionPhase(s)' /\ EnrollPhase(s)' /\ Link(s)'
      BY <2>2, <2>4, <2>5 DEF ProvisionPhase, EnrollPhase, Link
    <2> QED
      BY <2>4, <2>5, <2>6, RobotMoves
  <1> QED
    BY <1>1, <1>2

\* enroll: operational.pem is created, then filled with the certificate of the key
\* beside it.
LEMMA StoreOperationalCert ==
    ASSUME FleetInv, NEW s \in Serials, UNCHANGED vars,
           \/ Goes(s, "cert_store", "cert_fill") /\ Create(s, "operational.pem")
           \/ Goes(s, "cert_fill", "chain_store") /\ Fill(s, "operational.pem", agent[s].cert)
    PROVE  FleetInv'
  <1> DEFINE k == agent[s].key
             a == [serial |-> s, key |-> k, id |-> agent[s].id]
  <1>0. "operational.pem" \in Files /\ UNCHANGED <<deviceCerts, admitted>> /\ FilesOK(s)
    BY FleetTypes DEF Files, vars, serverVars
  <1>1. CASE Goes(s, "cert_store", "cert_fill") /\ Create(s, "operational.pem")
    <2>1. "cert_fill" \in AgentPcs /\ Torn \in Contents
          /\ disk' = [disk EXCEPT ![s]["operational.pem"] = Torn]
      BY <1>1 DEF AgentPcs, Contents, Create
    <2>2. /\ agent' \in [Serials -> Process]
          /\ agent[s].pc = "cert_store" /\ agent'[s].pc = "cert_fill"
          /\ agent'[s].key = k /\ agent'[s].cert = agent[s].cert /\ agent'[s].id = agent[s].id
          /\ \A t \in Serials : t # s => agent'[t] = agent[t]
      BY <1>1, <2>1, FleetTypes, GoesFacts
    <2>3. /\ Complete(s, "device.pem") /\ disk[s]["operational.pem"] = Nil
          /\ disk[s]["device-id"] = Nil
          /\ k \in Keys /\ disk[s]["operational.key"] = k /\ agent[s].cert = k /\ a \in admitted
      BY <2>2, FleetTypes DEF EnrollPhase, FilesOK, Exists, Complete
    <2>4. /\ disk' \in [Serials -> [Files -> Contents]]
          /\ disk'[s]["operational.pem"] = Torn
          /\ \A g \in Files : g # "operational.pem" => disk'[s][g] = disk[s][g]
          /\ \A t \in Serials : t # s => disk'[t] = disk[t]
      BY <1>0, <2>1, FleetTypes, WriteFacts
    <2>5. /\ disk'[s]["device.pem"] = disk[s]["device.pem"]
          /\ disk'[s]["device.key"] = disk[s]["device.key"]
          /\ disk'[s]["operational.key"] = k /\ disk'[s]["device-id"] = Nil
      BY <2>3, <2>4 DEF Files
    <2>6. FilesOK(s)'
      BY <1>0, <2>3, <2>4, <2>5 DEF FilesOK, Exists, Complete, HasCert, sign_csr
    <2>7. ProvisionPhase(s)' /\ EnrollPhase(s)' /\ Link(s)'
      BY <1>0, <2>2, <2>3, <2>4, <2>5 DEF ProvisionPhase, EnrollPhase, Link
    <2> QED
      BY <2>2, <2>4, <2>6, <2>7, RobotMoves
  <1>2. CASE Goes(s, "cert_fill", "chain_store") /\ Fill(s, "operational.pem", agent[s].cert)
    <2>1. "chain_store" \in AgentPcs
      BY DEF AgentPcs
    <2>2. /\ agent' \in [Serials -> Process]
          /\ agent[s].pc = "cert_fill" /\ agent'[s].pc = "chain_store"
          /\ agent'[s].key = k /\ agent'[s].cert = agent[s].cert /\ agent'[s].id = agent[s].id
          /\ \A t \in Serials : t # s => agent'[t] = agent[t]
      BY <1>2, <2>1, FleetTypes, GoesFacts
    <2>3. /\ disk[s]["operational.pem"] = Torn
          /\ k \in Keys /\ disk[s]["operational.key"] = k /\ agent[s].cert = k /\ a \in admitted
      BY <2>2, FleetTypes DEF EnrollPhase
    <2>4. Complete(s, "device.pem") /\ disk[s]["device-id"] = Nil
      BY <1>0, <2>3, ContentFacts DEF FilesOK, Exists, Complete
    <2>5. disk' = [disk EXCEPT ![s]["operational.pem"] = k] /\ k \in Contents
      BY <1>2, <2>3 DEF Fill, Contents
    <2>6. /\ disk' \in [Serials -> [Files -> Contents]]
          /\ disk'[s]["operational.pem"] = k
          /\ \A g \in Files : g # "operational.pem" => disk'[s][g] = disk[s][g]
          /\ \A t \in Serials : t # s => disk'[t] = disk[t]
      BY <1>0, <2>5, FleetTypes, WriteFacts
    <2>7. /\ disk'[s]["device.pem"] = disk[s]["device.pem"]
          /\ disk'[s]["device.key"] = disk[s]["device.key"]
          /\ disk'[s]["operational.key"] = k /\ disk'[s]["device-id"] = Nil
      BY <2>3, <2>4, <2>6 DEF Files
    <2>8. IsAdmitted(s, k)
      BY <2>3 DEF IsAdmitted
    <2>9. FilesOK(s)'
      BY <1>0, <2>4, <2>6, <2>7, <2>8 DEF FilesOK, Exists, Complete, HasCert, IsAdmitted, sign_csr
    <2>10. ProvisionPhase(s)' /\ EnrollPhase(s)' /\ Link(s)'
      BY <1>0, <2>2, <2>3, <2>6 DEF ProvisionPhase, EnrollPhase, Link
    <2> QED
      BY <2>2, <2>6, <2>9, <2>10, RobotMoves
  <1> QED
    BY <1>1, <1>2

\* enroll: the chain and the device id are stored once operational.pem is complete.
LEMMA StoreChainAndId ==
    ASSUME FleetInv, NEW s \in Serials, UNCHANGED vars, NEW from, NEW to, NEW f, NEW x,
           Goes(s, from, to), disk' = [disk EXCEPT ![s][f] = x],
           \/ from = "chain_store" /\ to = "chain_fill" /\ f = "fleet-ca-chain.pem" /\ x = Torn
           \/ from = "chain_fill" /\ to = "id_store" /\ f = "fleet-ca-chain.pem" /\ x = Chain
           \/ from = "id_store" /\ to = "id_fill" /\ f = "device-id" /\ x = Torn
           \/ from = "id_fill" /\ to = "load" /\ f = "device-id" /\ x = agent[s].id
    PROVE  FleetInv'
  <1> DEFINE k == agent[s].key
             a == [serial |-> s, key |-> k, id |-> agent[s].id]
  <1>0. UNCHANGED <<deviceCerts, admitted>> /\ FilesOK(s)
    BY FleetTypes DEF vars, serverVars
  <1>1. to \in AgentPcs /\ f \in Files
    BY DEF AgentPcs, Files
  <1>2. /\ agent' \in [Serials -> Process]
        /\ agent[s].pc = from /\ agent'[s].pc = to
        /\ agent'[s].key = k /\ agent'[s].cert = agent[s].cert /\ agent'[s].id = agent[s].id
        /\ \A t \in Serials : t # s => agent'[t] = agent[t]
    BY <1>1, FleetTypes, GoesFacts
  <1>3. disk[s]["operational.pem"] = k /\ agent[s].cert = k /\ a \in admitted
    BY <1>2, FleetTypes DEF EnrollPhase
  <1>4. k \in Keys /\ agent[s].id \in Ids
    <2>1. a \in Admission
      BY <1>3 DEF FleetInv, TypeInv, TypeOK
    <2> QED
      BY <2>1 DEF Admission
  <1>5. Complete(s, "operational.pem")
    BY <1>3, <1>4, ContentFacts DEF Complete
  <1>6. x \in Contents
    BY <1>4 DEF Contents
  <1>7. /\ disk' \in [Serials -> [Files -> Contents]]
        /\ disk'[s][f] = x
        /\ \A g \in Files : g # f => disk'[s][g] = disk[s][g]
        /\ \A t \in Serials : t # s => disk'[t] = disk[t]
    BY <1>1, <1>6, FleetTypes, WriteFacts
  <1>8. /\ disk'[s]["device.pem"] = disk[s]["device.pem"]
        /\ disk'[s]["device.key"] = disk[s]["device.key"]
        /\ disk'[s]["operational.pem"] = disk[s]["operational.pem"]
        /\ disk'[s]["operational.key"] = disk[s]["operational.key"]
    BY <1>7 DEF Files
  <1>9. disk'[s]["device-id"] \in {disk[s]["device-id"], Torn, agent[s].id}
    BY <1>7 DEF Files
  <1>10. Complete(s, "device-id")' =>
            [serial |-> s, key |-> disk'[s]["operational.pem"], id |-> disk'[s]["device-id"]]
               \in admitted'
    <2>1. CASE disk'[s]["device-id"] = Torn
      BY <2>1 DEF Complete
    <2>2. CASE disk'[s]["device-id"] = agent[s].id
      BY <1>0, <1>3, <1>8, <2>2
    <2>3. CASE disk'[s]["device-id"] = disk[s]["device-id"]
      BY <1>0, <1>8, <2>3 DEF FilesOK, Complete
    <2> QED
      BY <1>9, <2>1, <2>2, <2>3
  <1>11. FilesOK(s)'
    BY <1>0, <1>5, <1>8, <1>10 DEF FilesOK, Exists, Complete, HasCert, IsAdmitted, sign_csr
  <1>12. ProvisionPhase(s)' /\ EnrollPhase(s)' /\ Link(s)'
    BY <1>0, <1>2, <1>3, <1>8 DEF ProvisionPhase, EnrollPhase, Link
  <1> QED
    BY <1>2, <1>7, <1>11, <1>12, RobotMoves

\* main, Phase 3.
LEMMA OnlineKeeps ==
    ASSUME FleetInv, NEW s \in Serials, main_phase3(s), UNCHANGED vars
    PROVE  FleetInv'
  <1> DEFINE p == [Off EXCEPT !.pc = "online", !.id = disk[s]["device-id"]]
  <1>0. disk' = disk /\ agent' = [agent EXCEPT ![s] = p]
    BY DEF main_phase3
  <1>1. Complete(s, "operational.pem") /\ Exists(s, "device-id")
    BY DEF main_phase3, CanLoad, Identity
  <1>2. disk[s]["device-id"] \in Ids \cup {Nil, Torn}
    <2>1. CASE Complete(s, "device-id")
      <3>1. [serial |-> s, key |-> disk[s]["operational.pem"], id |-> disk[s]["device-id"]]
               \in Admission
        BY <2>1, FleetTypes DEF FilesOK, FleetInv, TypeInv, TypeOK
      <3> QED
        BY <3>1 DEF Admission
    <2>2. CASE ~ Complete(s, "device-id")
      BY <2>2 DEF Complete
    <2> QED
      BY <2>1, <2>2
  <1>3. p \in Process /\ p.pc = "online" /\ p.id = disk[s]["device-id"]
    BY <1>2 DEF Off, Process, AgentPcs
  <1>4. /\ agent' \in [Serials -> Process] /\ agent'[s] = p
        /\ \A t \in Serials : t # s => agent'[t] = agent[t]
    BY <1>0, <1>3, FleetTypes, MoveFacts
  <1>5. FilesOK(s)'
    BY <1>0, FleetTypes, SameFiles DEF vars, serverVars
  <1>6. ProvisionPhase(s)' /\ EnrollPhase(s)' /\ Link(s)'
    BY <1>0, <1>1, <1>3, <1>4 DEF ProvisionPhase, EnrollPhase, Link, Complete, Exists
  <1> QED
    BY <1>0, <1>4, <1>5, <1>6, FleetTypes, RobotMoves

-----------------------------------------------------------------------------
(* The robots are clients of the service                                   *)

\* A fresh key is a key.
LEMMA FreshKeyIsKey == FreshKeys # {} => FreshKey \in Keys
  BY DEF FreshKey, FreshKeys

\* What a robot does to the service is a request, or taking its response.
LEMMA RobotStepsServer ==
    ASSUME FleetInv, NEW s \in Serials, RobotStep(s)
    PROVE  [Next]_vars
  <1>1. ASSUME NEW c \in Calls, SendProvision(s, c) PROVE Next
    <2>1. /\ provision_device(c, s, agent[s].key, RobotTokens[s])
          /\ agent[s].key \in Keys \cup {Nil} /\ RobotTokens[s] \in Tokens
      BY <1>1, FleetTypes, RobotTokensAssumption DEF SendProvision, Process
    <2>2. Request(c)
      BY <2>1 DEF Request
    <2> QED
      BY <2>2 DEF Next
  <1>2. ASSUME NEW c \in Calls, SendEnroll(s, c) PROVE Next
    <2>1. agent[s].pc = "enroll_send"
      BY <1>2 DEF SendEnroll, Sent
    <2>2. agent[s].key \in Keys /\ HasCert(s, disk[s]["device.pem"])
      BY <2>1, FleetTypes DEF EnrollPhase, FilesOK
    <2>3. sign_csr("device", s, disk[s]["device.pem"]) \in PeerCerts
      BY <2>2 DEF HasCert, PeerCerts
    <2>4. bootstrap_enroll(c, s, agent[s].key, sign_csr("device", s, disk[s]["device.pem"]))
      BY <1>2 DEF SendEnroll
    <2>5. Request(c)
      BY <2>2, <2>3, <2>4 DEF Request
    <2> QED
      BY <2>5 DEF Next
  <1>3. CASE ReceiveResponse(s)
    <2>1. agent[s].call \in Calls /\ Respond(agent[s].call)
      BY <1>3, FleetTypes DEF ReceiveResponse, Process
    <2> QED
      BY <2>1 DEF Next, HandlerStep
  <1>4. CASE \/ ProcessStarts(s) \/ LocalStep(s) \/ GenerateKey(s) \/ ConnectBootstrap(s)
             \/ TransportError(s) \/ StartFails(s) \/ GoOnline(s)
    BY <1>4 DEF ProcessStarts, LocalStep, GenerateKey, ConnectBootstrap, TransportError,
                StartFails, GoOnline
  <1> QED
    BY <1>1, <1>2, <1>3, <1>4 DEF RobotStep

\* Every step of the fleet is a step of the service, or leaves it alone.
LEMMA FleetStepsServer ==
    ASSUME FleetInv, [FleetNext]_fleetVars
    PROVE  [Next]_vars
  <1>1. ASSUME NEW s \in Serials, RobotRuns(s) PROVE [Next]_vars
    BY <1>1, RobotStepsServer DEF RobotRuns
  <1>2. ASSUME NEW s \in Serials, OperatorActs(s) PROVE [Next]_vars
    BY <1>2 DEF OperatorActs, Operator, Next
  <1>3. ASSUME NEW s \in Serials, ProcessStops(s) \/ ConnectionLost(s) \/ ConnectFails(s) PROVE [Next]_vars
    BY <1>3 DEF ProcessStops, ConnectionLost, ConnectFails
  <1>4. ASSUME NEW c \in Calls, ServerRuns(c) PROVE [Next]_vars
    BY <1>4 DEF ServerRuns, ServerStep, Next, HandlerStep
  <1>5. CASE ServerStarts
    BY <1>5 DEF ServerStarts, ServerStart, Next
  <1>6. CASE ServerCrash
    BY <1>6 DEF ServerCrash, Next
  <1>7. CASE UNCHANGED fleetVars
    BY <1>7 DEF fleetVars
  <1> QED
    BY <1>1, <1>2, <1>3, <1>4, <1>5, <1>6, <1>7 DEF FleetNext

-----------------------------------------------------------------------------
(* The steps that involve the service                                      *)

\* A new call for a robot that sends one.
LEMMA SendKeeps ==
    ASSUME FleetInv, TypeInv', NEW s \in Serials, NEW c \in Calls, NEW x,
           NEW op, NEW from, NEW to,
           \/ op = "provision" /\ from = "prov_send" /\ to = "prov_wait"
           \/ op = "enroll" /\ from = "enroll_send" /\ to = "enroll_wait",
           Sent(s, from, c, to),
           calls[c] = Idle, calls' = [calls EXCEPT ![c] = x],
           x.op = op, x.serial = s, x.key = agent[s].key, ~ (x.pc = "replied" /\ x.code = "ok"),
           UNCHANGED <<deviceCerts, admitted>>
    PROVE  FleetInv'
  <1> DEFINE p == [agent[s] EXCEPT !.pc = to, !.call = c]
  <1>1. agent[s] \in Process /\ agent[s].pc = from /\ disk' = disk
    BY FleetTypes DEF Sent
  <1>2. p \in Process /\ p.pc = to /\ p.call = c /\ p.key = agent[s].key
    BY <1>1 DEF Process, AgentPcs
  <1>3. agent' = [agent EXCEPT ![s] = p]
    BY FleetTypes DEF Sent
  <1>4. /\ agent' \in [Serials -> Process] /\ agent'[s] = p
        /\ \A t \in Serials : t # s => agent'[t] = agent[t]
    BY <1>2, <1>3, FleetTypes, MoveFacts
  <1>5. calls \in [Calls -> Call]
    BY DEF FleetInv, TypeInv, TypeOK
  <1>6. calls'[c] = x /\ \A d \in Calls : d # c => calls'[d] = calls[d]
    BY <1>5
  <1>7. RobotInv(s)'
    <2>1. FilesOK(s)'
      BY <1>1, FleetTypes, SameFiles
    <2>2. ProvisionPhase(s)'
      BY <1>1, <1>2, <1>4, FleetTypes DEF ProvisionPhase
    <2>3. EnrollPhase(s)'
      BY <1>1, <1>2, <1>4, FleetTypes DEF EnrollPhase, Complete
    <2> QED
      BY <2>1, <2>2, <2>3 DEF RobotInv
  <1>8. Link(s)'
    BY <1>2, <1>4, <1>6 DEF Link, Asks
  <1>9. ASSUME NEW t \in Serials, t # s PROVE RobotInv(t)' /\ Link(t)'
    <2>1. agent'[t] = agent[t] /\ disk'[t] = disk[t] /\ RobotInv(t) /\ Link(t)
          /\ agent[t].call \in Calls \cup {Nil}
      BY <1>1, <1>4, <1>9, FleetTypes DEF Process
    <2>2. RobotInv(t)'
      BY <2>1, OtherRobot
    <2>3. CASE agent[t].call = c
      <3>1. calls[c].op = "none"
        BY DEF Idle
      <3>2. agent[t].pc \notin {"prov_wait", "enroll_wait"} \/ agent[t].call = Nil
        BY <2>1, <2>3, <3>1 DEF Link, Asks
      <3> QED
        BY <2>1, <2>2, <3>2 DEF Link
    <2>4. CASE agent[t].call # c
      BY <1>6, <2>1, <2>2, <2>4, OtherLink
    <2> QED
      BY <2>3, <2>4
  <1> QED
    BY <1>1, <1>4, <1>7, <1>8, <1>9, FleetTypes DEF FleetInv, AgentTypeOK, Contents

\* An error is never answered with the code of success.
LEMMA ErrorsAreNotOk ==
    /\ \A e : map_err(e) # "ok"
    /\ \A e : provisioning_map_err(e) # "ok"
  BY DEF map_err, provisioning_map_err

\* The call a robot's request becomes.
NewCall(op, s, k) == [Idle EXCEPT !.op = op, !.serial = s, !.key = k]

\* A new call after its first step: it goes on, or has failed.
Opened(x, call) ==
    \/ x = Goto(call, "claimed")
    \/ \E code : code # "ok" /\ x = Answer(call, code)

\* The fields of such a call.
LEMMA NewCallFields ==
    ASSUME NEW op \in Ops, NEW s \in Serials, NEW k \in Keys, NEW x,
           Opened(x, NewCall(op, s, k))
    PROVE  x.op = op /\ x.serial = s /\ x.key = k /\ ~ (x.pc = "replied" /\ x.code = "ok")
  <1> DEFINE call == NewCall(op, s, k)
  <1>1. call \in Call /\ call.op = op /\ call.serial = s /\ call.key = k
    <2>1. call \in Call
      BY NewCalls DEF NewCall
    <2> QED
      BY <2>1 DEF Idle, NewCall
  <1>2. CASE x = Goto(call, "claimed")
    <2>1. x.pc = "claimed"
      BY <1>1, <1>2 DEF Goto, Call
    <2> QED
      BY <1>1, <1>2, <2>1, CallFields
  <1>3. ASSUME NEW code, code # "ok", x = Answer(call, code)
        PROVE  x.op = op /\ x.serial = s /\ x.key = k /\ x.code # "ok"
    <2>1. x.code = code
      BY <1>1, <1>3 DEF Answer, Call
    <2> QED
      BY <1>1, <1>3, <2>1, CallFields
  <1> QED
    BY <1>2, <1>3 DEF Opened

\* A robot sends ProvisionDevice.
LEMMA SendProvisionKeeps ==
    ASSUME FleetInv, TypeInv', NEW s \in Serials, NEW c \in Calls, SendProvision(s, c)
    PROVE  FleetInv'
  <1> DEFINE call == NewCall("provision", s, agent[s].key)
  <1>1. /\ provision_device(c, s, agent[s].key, RobotTokens[s])
        /\ Sent(s, "prov_send", c, "prov_wait")
    BY DEF SendProvision
  <1>2. agent[s].key \in Keys
    BY <1>1, FleetTypes DEF Sent, ProvisionPhase
  <1>3. calls[c] = Idle /\ UNCHANGED <<deviceCerts, admitted>>
    BY <1>1 DEF provision_device, Accepts
  <1>4. \E x : /\ calls' = [calls EXCEPT ![c] = x]
               /\ Opened(x, call)
    <2>1. CASE calls' = [calls EXCEPT ![c] = Answer(call, "invalid_argument")]
      BY <2>1 DEF Opened
    <2>2. ASSUME NEW res \in StoreResults,
                 calls' = [calls EXCEPT ![c] = IF res = "Ok" THEN Goto(call, "claimed")
                                               ELSE Answer(call, provisioning_map_err(res))]
          PROVE  \E x : /\ calls' = [calls EXCEPT ![c] = x]
                        /\ Opened(x, call)
      <3>1. CASE res = "Ok"
        BY <2>2, <3>1 DEF Opened
      <3>2. CASE res # "Ok"
        <4>1. calls' = [calls EXCEPT ![c] = Answer(call, provisioning_map_err(res))]
          BY <2>2, <3>2
        <4> QED
          BY <4>1, ErrorsAreNotOk DEF Opened
      <3> QED
        BY <3>1, <3>2
    <2> QED
      BY <1>1, <2>1, <2>2 DEF provision_device, NewCall
  <1>5. PICK x : /\ calls' = [calls EXCEPT ![c] = x]
                 /\ Opened(x, call)
    BY <1>4
  <1>6. "provision" \in Ops
    BY DEF Ops
  <1>7. /\ x.op = "provision" /\ x.serial = s /\ x.key = agent[s].key
        /\ ~ (x.pc = "replied" /\ x.code = "ok")
    BY <1>2, <1>5, <1>6, NewCallFields
  <1> QED
    BY <1>1, <1>3, <1>5, <1>7, SendKeeps

\* A robot sends BootstrapEnroll with its device certificate.
LEMMA SendEnrollKeeps ==
    ASSUME FleetInv, TypeInv', NEW s \in Serials, NEW c \in Calls, SendEnroll(s, c)
    PROVE  FleetInv'
  <1> DEFINE call == NewCall("enroll", s, agent[s].key)
             peer == sign_csr("device", s, disk[s]["device.pem"])
  <1>1. /\ bootstrap_enroll(c, s, agent[s].key, peer)
        /\ Sent(s, "enroll_send", c, "enroll_wait")
    BY DEF SendEnroll
  <1>2. agent[s].key \in Keys
    BY <1>1, FleetTypes DEF Sent, EnrollPhase
  <1>3. calls[c] = Idle /\ UNCHANGED <<deviceCerts, admitted>>
    BY <1>1 DEF bootstrap_enroll, Accepts
  <1>4. extract_serial(peer) = s
    BY DEF extract_serial, sign_csr
  <1>5. \E x : /\ calls' = [calls EXCEPT ![c] = x]
               /\ Opened(x, call)
    <2>1. ASSUME NEW e, calls' = [calls EXCEPT ![c] = Answer(call, map_err(e))]
          PROVE  \E x : /\ calls' = [calls EXCEPT ![c] = x]
                        /\ Opened(x, call)
      BY <2>1, ErrorsAreNotOk DEF Opened
    <2>2. ASSUME NEW res \in StoreResults,
                 calls' = [calls EXCEPT ![c] = IF res = "Ok" THEN Goto(call, "claimed")
                                               ELSE Answer(call, map_err(res))]
          PROVE  \E x : /\ calls' = [calls EXCEPT ![c] = x]
                        /\ Opened(x, call)
      <3>1. CASE res = "Ok"
        BY <2>2, <3>1 DEF Opened
      <3>2. CASE res # "Ok"
        BY <2>1, <2>2, <3>2
      <3> QED
        BY <3>1, <3>2
    <2> QED
      BY <1>1, <1>4, <2>1, <2>2 DEF bootstrap_enroll, NewCall
  <1>6. PICK x : /\ calls' = [calls EXCEPT ![c] = x]
                 /\ Opened(x, call)
    BY <1>5
  <1>7. "enroll" \in Ops
    BY DEF Ops
  <1>8. /\ x.op = "enroll" /\ x.serial = s /\ x.key = agent[s].key
        /\ ~ (x.pc = "replied" /\ x.code = "ok")
    BY <1>2, <1>6, <1>7, NewCallFields
  <1> QED
    BY <1>1, <1>3, <1>6, <1>8, SendKeeps

\* Two robots never wait for the same call.
LEMMA OwnCall ==
    ASSUME FleetInv, NEW s \in Serials, NEW t \in Serials, Waiting(s), Waiting(t),
           agent[s].call # Nil, agent[t].call = agent[s].call
    PROVE  s = t
  <1>1. calls[agent[s].call].serial = s
    BY FleetTypes DEF Link, Asks, Waiting
  <1>2. calls[agent[t].call].serial = t
    BY FleetTypes DEF Link, Asks, Waiting
  <1> QED
    BY <1>1, <1>2

\* A robot takes its response: the certificate in it is for the key on its disk.
LEMMA ReceiveKeeps ==
    ASSUME FleetInv, TypeInv', NEW s \in Serials, ReceiveResponse(s)
    PROVE  FleetInv'
  <1> DEFINE c == agent[s].call
             k == agent[s].key
  <1>1. /\ Waiting(s) /\ c # Nil /\ c \in Calls
        /\ calls[c].pc = "replied" /\ calls' = [calls EXCEPT ![c] = Idle]
        /\ UNCHANGED <<deviceCerts, admitted>>
    BY FleetTypes DEF ReceiveResponse, Respond, Process
  <1>2. calls \in [Calls -> Call]
    BY DEF FleetInv, TypeInv, TypeOK
  <1>3. agent[s] \in Process /\ calls[c] \in Call
    BY <1>1, <1>2, FleetTypes
  <1>4. \E p \in Process : /\ agent' = [agent EXCEPT ![s] = p] /\ disk' = disk
                           /\ (agent'[s] = p => RobotInv(s)' /\ Link(s)')
    <2>1. CASE Exit(s)
      <3>1. agent' = [agent EXCEPT ![s] = Off] /\ disk' = disk
        BY <2>1 DEF Exit
      <3>2. Off \in Process /\ Off.pc = "off"
        BY DEF Off, Process, AgentPcs
      <3>3. FilesOK(s)'
        BY <1>1, <3>1, FleetTypes, SameFiles
      <3>4. ASSUME agent'[s] = Off PROVE RobotInv(s)' /\ Link(s)'
        BY <3>2, <3>3, <3>4, BetweenPhases DEF RobotInv
      <3> QED
        BY <3>1, <3>2, <3>4
    <2>2. CASE calls[c].code = "ok" /\ Received(s, "prov_wait", calls[c].key, Nil, "prov_store")
      <3> DEFINE p == [agent[s] EXCEPT !.pc = "prov_store", !.call = Nil,
                                       !.cert = calls[c].key, !.id = Nil]
      <3>1. agent[s].pc = "prov_wait" /\ agent' = [agent EXCEPT ![s] = p] /\ disk' = disk
        BY <2>2, FleetTypes DEF Received
      <3>2. calls[c].key \in Keys \cup {Nil}
        BY <1>3 DEF Call
      <3>3. p \in Process /\ p.pc = "prov_store" /\ p.key = k /\ p.cert = calls[c].key
        BY <1>3, <3>2 DEF Process, AgentPcs
      <3>4. calls[c].key = k /\ HasCert(s, k)
        BY <1>1, <2>2, <3>1, FleetTypes DEF Link, Asks
      <3>5. FilesOK(s)'
        BY <1>1, <3>1, FleetTypes, SameFiles
      <3>6. disk[s]["device.pem"] = Nil /\ k \in Keys /\ disk[s]["device.key"] = k
        BY <3>1, FleetTypes DEF ProvisionPhase
      <3>7. ASSUME agent'[s] = p PROVE RobotInv(s)' /\ Link(s)'
        <4> HIDE DEF p
        <4>1. ProvisionPhase(s)'
          BY <1>1, <3>1, <3>3, <3>4, <3>6, <3>7 DEF ProvisionPhase, HasCert, sign_csr
        <4>2. EnrollPhase(s)' /\ Link(s)'
          BY <3>3, <3>7 DEF EnrollPhase, Link
        <4> QED
          BY <3>5, <4>1, <4>2 DEF RobotInv
      <3> QED
        BY <3>1, <3>3, <3>7
    <2>3. CASE /\ calls[c].code = "ok"
               /\ Received(s, "enroll_wait", calls[c].key, calls[c].id, "cert_store")
      <3> DEFINE p == [agent[s] EXCEPT !.pc = "cert_store", !.call = Nil,
                                       !.cert = calls[c].key, !.id = calls[c].id]
      <3>1. agent[s].pc = "enroll_wait" /\ agent' = [agent EXCEPT ![s] = p] /\ disk' = disk
        BY <2>3, FleetTypes DEF Received
      <3>2. calls[c].key \in Keys \cup {Nil} /\ calls[c].id \in Ids \cup {Nil}
        BY <1>3 DEF Call
      <3>3. /\ p \in Process /\ p.pc = "cert_store" /\ p.key = k /\ p.cert = calls[c].key
            /\ p.id = calls[c].id
        BY <1>3, <3>2 DEF Process, AgentPcs
      <3>4. calls[c].key = k /\ [serial |-> s, key |-> k, id |-> calls[c].id] \in admitted
        BY <1>1, <2>3, <3>1, FleetTypes DEF Link, Asks
      <3>5. FilesOK(s)'
        BY <1>1, <3>1, FleetTypes, SameFiles
      <3>6. /\ Complete(s, "device.pem") /\ disk[s]["operational.pem"] = Nil
            /\ k \in Keys /\ disk[s]["operational.key"] = k
        BY <3>1, FleetTypes DEF EnrollPhase
      <3>7. ASSUME agent'[s] = p PROVE RobotInv(s)' /\ Link(s)'
        <4> HIDE DEF p
        <4>1. EnrollPhase(s)'
          BY <1>1, <3>1, <3>3, <3>4, <3>6, <3>7 DEF EnrollPhase, Complete
        <4>2. ProvisionPhase(s)' /\ Link(s)'
          BY <3>3, <3>7 DEF ProvisionPhase, Link
        <4> QED
          BY <3>5, <4>1, <4>2 DEF RobotInv
      <3> QED
        BY <3>1, <3>3, <3>7
    <2> QED
      BY <2>1, <2>2, <2>3 DEF ReceiveResponse
  <1>5. PICK p \in Process : /\ agent' = [agent EXCEPT ![s] = p] /\ disk' = disk
                             /\ (agent'[s] = p => RobotInv(s)' /\ Link(s)')
    BY <1>4
  <1>6. /\ agent' \in [Serials -> Process] /\ agent'[s] = p
        /\ \A t \in Serials : t # s => agent'[t] = agent[t]
    BY <1>5, FleetTypes, MoveFacts
  <1>7. RobotInv(s)' /\ Link(s)'
    BY <1>5, <1>6
  <1>8. ASSUME NEW t \in Serials, t # s PROVE RobotInv(t)' /\ Link(t)'
    <2>1. agent'[t] = agent[t] /\ disk'[t] = disk[t] /\ RobotInv(t) /\ Link(t)
          /\ agent[t].call \in Calls \cup {Nil}
      BY <1>5, <1>6, <1>8, FleetTypes DEF Process
    <2>2. RobotInv(t)'
      BY <1>1, <2>1, OtherRobot
    <2>3. CASE ~ Waiting(t)
      BY <2>1, <2>2, <2>3 DEF Link, Waiting
    <2>4. CASE Waiting(t)
      <3>1. agent[t].call # c
        BY <1>1, <1>8, <2>4, OwnCall
      <3>2. agent[t].call # Nil => calls'[agent[t].call] = calls[agent[t].call]
        BY <1>1, <1>2, <2>1, <3>1
      <3> QED
        BY <1>1, <2>1, <2>2, <3>2, OtherLink
    <2> QED
      BY <2>3, <2>4
  <1> QED
    BY <1>5, <1>6, <1>7, <1>8, FleetTypes DEF FleetInv, AgentTypeOK, Contents

\* A step of the service alone: the robots keep their part of the invariant when
\* the calls they wait for do.
LEMMA ServiceKeeps ==
    ASSUME FleetInv, TypeInv', UNCHANGED <<disk, agent>>,
           deviceCerts \subseteq deviceCerts', admitted \subseteq admitted',
           \A t \in Serials : Link(t)'
    PROVE  FleetInv'
  <1>1. ASSUME NEW t \in Serials PROVE RobotInv(t)'
    BY FleetTypes, OtherRobot
  <1> QED
    BY <1>1 DEF FleetInv, AgentTypeOK

\* A handler goes on: its call stays the same request, and is answered with success
\* only when the service has recorded what it grants.
LEMMA HandlerKeeps ==
    ASSUME FleetInv, TypeInv', UNCHANGED <<disk, agent>>, NEW c \in Calls, NEW x,
           deviceCerts \subseteq deviceCerts', admitted \subseteq admitted',
           calls' = [calls EXCEPT ![c] = x],
           x.op = calls[c].op, x.serial = calls[c].serial, x.key = calls[c].key,
           x.pc = "replied" /\ x.code = "ok" /\ x.op = "provision" =>
               sign_csr("device", x.serial, x.key) \in deviceCerts',
           x.pc = "replied" /\ x.code = "ok" /\ x.op = "enroll" =>
               [serial |-> x.serial, key |-> x.key, id |-> x.id] \in admitted'
    PROVE  FleetInv'
  <1>1. calls \in [Calls -> Call]
    BY DEF FleetInv, TypeInv, TypeOK
  <1>2. calls'[c] = x /\ \A d \in Calls : d # c => calls'[d] = calls[d]
    BY <1>1
  <1>3. ASSUME NEW t \in Serials PROVE Link(t)'
    <2>1. Link(t) /\ agent'[t] = agent[t] /\ agent[t].call \in Calls \cup {Nil}
      BY FleetTypes DEF Process
    <2>2. CASE agent[t].call = c
      <3>1. ASSUME NEW op \in {"provision", "enroll"}, NEW k, Asks(c, op, t, k)
            PROVE  Asks(c, op, t, k)'
        BY <1>2, <3>1 DEF Asks, HasCert
      <3> QED
        BY <2>1, <2>2, <3>1 DEF Link
    <2>3. CASE agent[t].call # c
      BY <1>2, <2>1, <2>3, OtherLink
    <2> QED
      BY <2>2, <2>3
  <1> QED
    BY <1>3, ServiceKeeps

\* A handler whose CSR cannot be signed.
LEMMA SignFailsKeeps ==
    ASSUME FleetInv, TypeInv', UNCHANGED <<disk, agent>>, NEW c \in Calls, SignFails(c)
    PROVE  FleetInv'
  <1> DEFINE x == Answer(calls[c], "internal")
  <1>1. calls[c] \in Call /\ calls' = [calls EXCEPT ![c] = x]
        /\ UNCHANGED <<deviceCerts, admitted>>
    BY DEF FleetInv, TypeInv, TypeOK, SignFails
  <1>2. x.op = calls[c].op /\ x.serial = calls[c].serial /\ x.key = calls[c].key
        /\ x.code # "ok"
    BY <1>1 DEF Answer, Call
  <1> HIDE DEF x
  <1> QED
    BY <1>1, <1>2, HandlerKeeps

\* The steps of the handlers.
LEMMA ServerStepKeeps ==
    ASSUME FleetInv, TypeInv', NEW c \in Calls, ServerStep(c)
    PROVE  FleetInv'
  <1>1. UNCHANGED <<disk, agent>> /\ calls \in [Calls -> Call] /\ calls[c] \in Call
    BY DEF ServerStep, robotVars, FleetInv, TypeInv, TypeOK
  <1>2. CASE provision_sign(c)
    <2>1. CASE SignFails(c)
      BY <1>1, <2>1, SignFailsKeeps
    <2>2. CASE ~ SignFails(c)
      <3> DEFINE x == Answer(calls[c], "ok")
                 crt == sign_csr("device", calls[c].serial, calls[c].key)
      <3>1. /\ calls' = [calls EXCEPT ![c] = x] /\ deviceCerts' = deviceCerts \cup {crt}
            /\ admitted' = admitted /\ calls[c].op = "provision"
        BY <1>2, <2>2 DEF provision_sign, At
      <3>2. x.op = calls[c].op /\ x.serial = calls[c].serial /\ x.key = calls[c].key
        BY <1>1, CallFields
      <3>3. sign_csr("device", x.serial, x.key) \in deviceCerts'
        BY <3>1, <3>2
      <3> HIDE DEF x, crt
      <3> QED
        BY <1>1, <3>1, <3>2, <3>3, HandlerKeeps
    <2> QED
      BY <2>1, <2>2
  <1>3. CASE enroll_sign(c)
    <2>1. CASE SignFails(c)
      BY <1>1, <2>1, SignFailsKeeps
    <2>2. CASE ~ SignFails(c)
      <3> DEFINE x == Goto(calls[c], "signed")
      <3>1. /\ calls' = [calls EXCEPT ![c] = x] /\ UNCHANGED <<deviceCerts, admitted>>
        BY <1>3, <2>2 DEF enroll_sign
      <3>2. x.op = calls[c].op /\ x.serial = calls[c].serial /\ x.key = calls[c].key
            /\ x.pc = "signed"
        BY <1>1 DEF Goto, Call
      <3> HIDE DEF x
      <3> QED
        BY <1>1, <3>1, <3>2, HandlerKeeps
    <2> QED
      BY <2>1, <2>2
  <1>4. CASE enroll_create(c)
    <2>0. calls[c].op = "enroll" /\ deviceCerts' = deviceCerts
      BY <1>4 DEF enroll_create, At
    <2>1. ASSUME NEW id \in Ids,
                 calls' = [calls EXCEPT ![c] = [Answer(calls[c], "ok") EXCEPT !.id = id]],
                 admitted' = admitted \cup
                     {[serial |-> calls[c].serial, key |-> calls[c].key, id |-> id]}
          PROVE  FleetInv'
      <3> DEFINE x == [Answer(calls[c], "ok") EXCEPT !.id = id]
      <3>1. x.op = calls[c].op /\ x.serial = calls[c].serial /\ x.key = calls[c].key /\ x.id = id
        BY <1>1 DEF Answer, Call
      <3>2. [serial |-> x.serial, key |-> x.key, id |-> x.id] \in admitted'
        BY <2>1, <3>1
      <3>3. calls' = [calls EXCEPT ![c] = x]
        BY <2>1
      <3>4. admitted \subseteq admitted'
        BY <2>1
      <3> HIDE DEF x
      <3> QED
        BY <1>1, <2>0, <3>1, <3>2, <3>3, <3>4, HandlerKeeps
    <2>2. ASSUME NEW res, calls' = [calls EXCEPT ![c] = Answer(calls[c], map_err(res))],
                 admitted' = admitted
          PROVE  FleetInv'
      <3> DEFINE x == Answer(calls[c], map_err(res))
      <3>1. x.op = calls[c].op /\ x.serial = calls[c].serial /\ x.key = calls[c].key
            /\ x.code = map_err(res)
        BY <1>1 DEF Answer, Call
      <3>2. x.code # "ok"
        BY <3>1, ErrorsAreNotOk
      <3>3. calls' = [calls EXCEPT ![c] = x]
        BY <2>2
      <3> HIDE DEF x
      <3> QED
        BY <1>1, <2>0, <2>2, <3>1, <3>2, <3>3, HandlerKeeps
    <2> QED
      BY <1>4, <2>1, <2>2 DEF enroll_create
  <1>5. CASE Orphan(c) /\ Respond(c)
    <2>1. /\ calls' = [calls EXCEPT ![c] = Idle] /\ UNCHANGED <<deviceCerts, admitted>>
          /\ \A t \in Serials : agent[t].call # c
      BY <1>5 DEF Orphan, Respond
    <2>2. ASSUME NEW t \in Serials PROVE Link(t)'
      <3>1. agent[t].call \in Calls \cup {Nil} /\ Link(t) /\ agent'[t] = agent[t]
        BY <1>1, FleetTypes DEF Process
      <3>2. agent[t].call # Nil => calls'[agent[t].call] = calls[agent[t].call]
        BY <1>1, <2>1, <3>1
      <3> QED
        BY <2>1, <3>1, <3>2, OtherLink
    <2> QED
      BY <1>1, <2>1, <2>2, ServiceKeeps
  <1> QED
    BY <1>2, <1>3, <1>4, <1>5 DEF ServerStep

\* The service starts, or an operator registers a serial: no call is touched.
LEMMA TablesKeep ==
    ASSUME FleetInv, TypeInv', UNCHANGED <<disk, agent, calls, deviceCerts, admitted>>
    PROVE  FleetInv'
  <1>1. ASSUME NEW t \in Serials PROVE Link(t)'
    BY FleetTypes, OtherLink
  <1> QED
    BY <1>1, ServiceKeeps

\* The service stops: the robots lose their calls and keep their files.
LEMMA CrashKeeps ==
    ASSUME FleetInv, TypeInv', ServerCrash
    PROVE  FleetInv'
  <1>1. /\ disk' = disk /\ UNCHANGED <<deviceCerts, admitted>>
        /\ agent' = [s \in Serials |-> [agent[s] EXCEPT !.call = Nil]]
    BY DEF ServerCrash, Crash
  <1>2. ASSUME NEW t \in Serials
        PROVE  /\ agent'[t] \in Process /\ agent'[t].call = Nil
               /\ agent'[t].pc = agent[t].pc /\ agent'[t].key = agent[t].key
               /\ agent'[t].cert = agent[t].cert /\ agent'[t].id = agent[t].id
    <2>1. agent[t] \in Process
      BY FleetTypes
    <2>2. agent'[t] = [agent[t] EXCEPT !.call = Nil]
      BY <1>1
    <2> QED
      BY <2>1, <2>2 DEF Process
  <1>3. ASSUME NEW t \in Serials PROVE RobotInv(t)' /\ Link(t)'
    <2>1. FilesOK(t)'
      BY <1>1, FleetTypes, SameFiles
    <2>2. ProvisionPhase(t)'
      BY <1>1, <1>2, FleetTypes DEF ProvisionPhase, HasCert, sign_csr
    <2>3. EnrollPhase(t)'
      BY <1>1, <1>2, FleetTypes DEF EnrollPhase, Complete, Exists
    <2>4. Link(t)'
      BY <1>2 DEF Link
    <2> QED
      BY <2>1, <2>2, <2>3, <2>4 DEF RobotInv
  <1>4. agent' \in [Serials -> Process]
    BY <1>1, <1>2
  <1> QED
    BY <1>1, <1>3, <1>4, FleetTypes DEF FleetInv, AgentTypeOK, Contents

-----------------------------------------------------------------------------
(* The invariant, and what follows from it                                 *)

\* Every step of a robot keeps the invariant.
LEMMA RobotStepKeeps ==
    ASSUME FleetInv, TypeInv', NEW s \in Serials, RobotStep(s)
    PROVE  FleetInv'
  <1>1. CASE ProcessStarts(s)
    <2>1. Goes(s, "off", "main") /\ disk' = disk /\ UNCHANGED vars
      BY <1>1 DEF ProcessStarts, Boot
    <2> QED
      BY <2>1, PhaseKeeps
  <1>2. CASE LocalStep(s)
    <2>0. UNCHANGED vars
      BY <1>2 DEF LocalStep
    <2>1. CASE main_phase1(s)
      BY <2>0, <2>1, PhaseKeeps, OpenDeviceKey DEF main_phase1
    <2>2. CASE provision_store(s)
      BY <2>0, <2>2, StoreDeviceCert
    <2>3. CASE main_phase2(s)
      BY <2>0, <2>3, PhaseKeeps DEF main_phase2
    <2>4. CASE enroll_open_key(s)
      BY <2>0, <2>4, NewOperationalKey
    <2>5. CASE enroll_store(s)
      <3>1. CASE \/ Goes(s, "cert_store", "cert_fill") /\ Create(s, "operational.pem")
                 \/ Goes(s, "cert_fill", "chain_store")
                      /\ Fill(s, "operational.pem", agent[s].cert)
        BY <2>0, <3>1, StoreOperationalCert
      <3>2. CASE Goes(s, "chain_store", "chain_fill") /\ Create(s, "fleet-ca-chain.pem")
        BY <2>0, <3>2, StoreChainAndId DEF Create
      <3>3. CASE Goes(s, "chain_fill", "id_store") /\ Fill(s, "fleet-ca-chain.pem", Chain)
        BY <2>0, <3>3, StoreChainAndId DEF Fill
      <3>4. CASE Goes(s, "id_store", "id_fill") /\ Create(s, "device-id")
        BY <2>0, <3>4, StoreChainAndId DEF Create
      <3>5. CASE Goes(s, "id_fill", "load") /\ Fill(s, "device-id", agent[s].id)
        BY <2>0, <3>5, StoreChainAndId DEF Fill
      <3> QED
        BY <2>5, <3>1, <3>2, <3>3, <3>4, <3>5 DEF enroll_store
    <2> QED
      BY <1>2, <2>1, <2>2, <2>3, <2>4, <2>5 DEF LocalStep
  <1>3. CASE GenerateKey(s)
    <2>1. FreshKey \in Keys /\ UNCHANGED vars
      BY <1>3, FreshKeyIsKey DEF GenerateKey
    <2>2. CASE generate_csr(s, "prov_key", "device.key", FreshKey, "prov_send")
      BY <2>1, <2>2, NewDeviceKey
    <2>3. CASE generate_csr(s, "enroll_key", "operational.key", FreshKey, "enroll_send")
      BY <2>1, <2>3, NewOperationalKey
    <2> QED
      BY <1>3, <2>2, <2>3 DEF GenerateKey
  <1>4. CASE ConnectBootstrap(s)
    BY <1>4, ConnectKeeps
  <1>5. ASSUME NEW c \in Calls, SendProvision(s, c) \/ SendEnroll(s, c) PROVE FleetInv'
    BY <1>5, SendProvisionKeeps, SendEnrollKeeps
  <1>6. CASE ReceiveResponse(s)
    BY <1>6, ReceiveKeeps
  <1>7. CASE TransportError(s) \/ StartFails(s)
    BY <1>7, ExitKeeps DEF TransportError, StartFails
  <1>8. CASE GoOnline(s)
    BY <1>8, OnlineKeeps DEF GoOnline
  <1> QED
    BY <1>1, <1>2, <1>3, <1>4, <1>5, <1>6, <1>7, <1>8 DEF RobotStep

\* FleetInv holds initially.
LEMMA FleetInitInv == FleetInit => FleetInv
  <1> SUFFICES ASSUME FleetInit PROVE FleetInv
    OBVIOUS
  <1>1. TypeInv
    BY TypeInit DEF FleetInit
  <1>2. /\ disk = [s \in Serials |-> [f \in Files |-> Nil]]
        /\ agent = [s \in Serials |-> Off]
    BY DEF FleetInit, AgentInit
  <1>3. AgentTypeOK
    BY <1>2 DEF AgentTypeOK, Off, Process, AgentPcs
  <1>4. ASSUME NEW s \in Serials PROVE RobotInv(s) /\ Link(s)
    <2>1. agent[s].pc = "off"
      BY <1>2 DEF Off
    <2>2. \A f \in Files : disk[s][f] = Nil
      BY <1>2
    <2>3. /\ disk[s]["device.pem"] = Nil /\ disk[s]["operational.pem"] = Nil
          /\ disk[s]["device-id"] = Nil
      BY <2>2 DEF Files
    <2> QED
      BY <2>1, <2>3 DEF RobotInv, FilesOK, ProvisionPhase, EnrollPhase, Link, Exists, Complete
  <1> QED
    BY <1>1, <1>3, <1>4 DEF FleetInv

\* Every step of the fleet keeps FleetInv.
LEMMA FleetStep == FleetInv /\ [FleetNext]_fleetVars => FleetInv'
  <1> SUFFICES ASSUME FleetInv, [FleetNext]_fleetVars PROVE FleetInv'
    OBVIOUS
  <1>0. TypeInv'
    BY FleetStepsServer, TypeStep DEF FleetInv
  <1>1. ASSUME NEW s \in Serials, RobotRuns(s) PROVE FleetInv'
    BY <1>0, <1>1, RobotStepKeeps DEF RobotRuns
  <1>2. ASSUME NEW s \in Serials, OperatorActs(s) PROVE FleetInv'
    BY <1>0, <1>2, TablesKeep DEF OperatorActs, Operator, RegisterSerial, robotVars
  <1>3. ASSUME NEW s \in Serials, ProcessStops(s) \/ ConnectionLost(s) \/ ConnectFails(s) PROVE FleetInv'
    BY <1>3, ExitKeeps DEF ProcessStops, ConnectionLost, ConnectFails
  <1>4. ASSUME NEW c \in Calls, ServerRuns(c) PROVE FleetInv'
    BY <1>0, <1>4, ServerStepKeeps DEF ServerRuns
  <1>5. CASE ServerStarts
    BY <1>0, <1>5, TablesKeep DEF ServerStarts, ServerStart, Start, robotVars
  <1>6. CASE ServerCrash
    BY <1>0, <1>6, CrashKeeps
  <1>7. CASE UNCHANGED fleetVars
    BY <1>0, <1>7, TablesKeep DEF fleetVars, robotVars, vars, serverVars
  <1> QED
    BY <1>1, <1>2, <1>3, <1>4, <1>5, <1>6, <1>7 DEF FleetNext

\* FleetInv is an invariant of the fleet.
LEMMA FleetInvariant == FleetSpec => []FleetInv
  BY FleetInitInv, FleetStep, PTL DEF FleetSpec

\* What the files of a robot say is true: a complete certificate belongs to the key
\* file beside it, wherever the agent was stopped or lost its connection and however
\* often generate_csr ran again (robot-agent/src/provisioning.rs, enrollment.rs).
THEOREM CertsMatchKeys == FleetSpec => []CertMatchesKey
  <1>1. FleetInv => CertMatchesKey
    BY FleetTypes DEF CertMatchesKey, FilesOK
  <1> QED
    BY <1>1, FleetInvariant, PTL

\* The device id of a robot is torn only while it is being written or after a fault.
TornByFault(s) == disk[s]["device-id"] = Torn /\ agent[s].pc # "id_fill" => faults > 0

\* A step of one robot that does not leave a torn device id behind keeps this.
LEMMA TornMoves ==
    ASSUME NEW s \in Serials, \A t \in Serials : TornByFault(t), faults' = faults,
           \A t \in Serials : t # s => /\ agent'[t].pc = agent[t].pc
                                       /\ disk'[t]["device-id"] = disk[t]["device-id"],
           disk'[s]["device-id"] = Torn /\ agent'[s].pc # "id_fill" =>
              disk[s]["device-id"] = Torn /\ agent[s].pc # "id_fill"
    PROVE  \A t \in Serials : TornByFault(t)'
  BY DEF TornByFault

\* A step that leaves the files alone, taken elsewhere than between the creation of
\* device-id and its filling.
LEMMA TornSameFiles ==
    ASSUME AgentTypeOK, NEW s \in Serials, \A t \in Serials : TornByFault(t), faults' = faults,
           disk' = disk, agent[s].pc # "id_fill", \E p : agent' = [agent EXCEPT ![s] = p]
    PROVE  \A t \in Serials : TornByFault(t)'
  <1>1. \A t \in Serials : t # s => agent'[t] = agent[t]
    BY DEF AgentTypeOK
  <1> QED
    BY <1>1, TornMoves

\* So does writing another file.
LEMMA TornOtherFile ==
    ASSUME AgentTypeOK, NEW s \in Serials, \A t \in Serials : TornByFault(t), faults' = faults,
           NEW f \in Files \ {"device-id"}, NEW x, disk' = [disk EXCEPT ![s][f] = x],
           agent[s].pc # "id_fill", \E p : agent' = [agent EXCEPT ![s] = p]
    PROVE  \A t \in Serials : TornByFault(t)'
  <1>1. \A t \in Serials : t # s => agent'[t] = agent[t]
    BY DEF AgentTypeOK
  <1>2. disk \in [Serials -> [Files -> Contents]]
    BY DEF AgentTypeOK, Contents
  <1>3. disk' = [disk EXCEPT ![s] = [disk[s] EXCEPT ![f] = x]] /\ "device-id" \in Files
    BY DEF Files
  <1>4. \A t \in Serials : disk'[t]["device-id"] = disk[t]["device-id"]
    BY <1>2, <1>3
  <1> QED
    BY <1>1, <1>4, TornMoves

\* No step of a robot leaves its device id torn: the agent stops between creating the
\* file and filling it only through a fault.
LEMMA TornRobot ==
    ASSUME FleetInv, NEW s \in Serials, \A t \in Serials : TornByFault(t), RobotStep(s)
    PROVE  \A t \in Serials : TornByFault(t)'
  <1>0. AgentTypeOK
    BY FleetTypes
  <1>1. ASSUME NEW from, NEW to, Goes(s, from, to)
        PROVE  agent[s].pc = from /\ \E p : agent' = [agent EXCEPT ![s] = p]
    BY <1>1 DEF Goes
  <1>2. CASE ProcessStarts(s) \/ ConnectBootstrap(s)
    <2>1. PICK from \in {"off", "enroll"}, to \in AgentPcs : Goes(s, from, to)
      BY <1>2 DEF ProcessStarts, Boot, ConnectBootstrap, AgentPcs
    <2>2. disk' = disk /\ faults' = faults
      BY <1>2 DEF ProcessStarts, Boot, ConnectBootstrap
    <2> QED
      BY <1>0, <1>1, <2>1, <2>2, TornSameFiles
  <1>3. CASE GenerateKey(s)
    <2>1. PICK from \in {"prov_key", "enroll_key"}, f \in {"device.key", "operational.key"},
               to \in AgentPcs : generate_csr(s, from, f, FreshKey, to)
      BY <1>3 DEF GenerateKey, AgentPcs
    <2>2. /\ agent[s].pc # "id_fill" /\ faults' = faults
          /\ disk' = [disk EXCEPT ![s][f] = FreshKey]
          /\ \E p : agent' = [agent EXCEPT ![s] = p]
      BY <1>3, <2>1 DEF GenerateKey, generate_csr, Fill
    <2>3. f \in Files \ {"device-id"}
      BY DEF Files
    <2> QED
      BY <1>0, <2>2, <2>3, TornOtherFile
  <1>4. ASSUME NEW c \in Calls, SendProvision(s, c) \/ SendEnroll(s, c)
        PROVE  \A t \in Serials : TornByFault(t)'
    <2>1. /\ agent[s].pc # "id_fill" /\ faults' = faults /\ disk' = disk
          /\ \E p : agent' = [agent EXCEPT ![s] = p]
      BY <1>4 DEF SendProvision, SendEnroll, Sent
    <2> QED
      BY <1>0, <2>1, TornSameFiles
  <1>5. CASE ReceiveResponse(s) \/ TransportError(s) \/ StartFails(s)
    <2>1. agent[s].pc # "id_fill" /\ faults' = faults
      BY <1>5 DEF ReceiveResponse, TransportError, StartFails, Waiting
    <2>2. disk' = disk /\ \E p : agent' = [agent EXCEPT ![s] = p]
      BY <1>5 DEF ReceiveResponse, TransportError, StartFails, Received, Exit
    <2> QED
      BY <1>0, <2>1, <2>2, TornSameFiles
  <1>6. CASE GoOnline(s)
    <2>1. /\ agent[s].pc # "id_fill" /\ faults' = faults /\ disk' = disk
          /\ \E p : agent' = [agent EXCEPT ![s] = p]
      BY <1>6 DEF GoOnline, main_phase3
    <2> QED
      BY <1>0, <2>1, TornSameFiles
  <1>7. CASE LocalStep(s)
    <2>0. faults' = faults
      BY <1>7 DEF LocalStep
    <2>1. ASSUME NEW from, NEW to, Goes(s, from, to), from # "id_fill", disk' = disk
          PROVE  \A t \in Serials : TornByFault(t)'
      BY <1>0, <1>1, <2>0, <2>1, TornSameFiles
    <2>2. ASSUME NEW from, NEW to, Goes(s, from, to), from # "id_fill",
                 NEW f, f \in Files \ {"device-id"}, NEW x, disk' = [disk EXCEPT ![s][f] = x]
          PROVE  \A t \in Serials : TornByFault(t)'
      BY <1>0, <1>1, <2>0, <2>2, TornOtherFile
    <2>3. /\ "device.key" \in Files \ {"device-id"} /\ "device.pem" \in Files \ {"device-id"}
          /\ "operational.key" \in Files \ {"device-id"}
          /\ "operational.pem" \in Files \ {"device-id"}
          /\ "fleet-ca-chain.pem" \in Files \ {"device-id"}
      BY DEF Files
    <2>4. CASE main_phase1(s)
      BY <2>1, <2>2, <2>3, <2>4 DEF main_phase1, Create
    <2>5. CASE provision_store(s)
      BY <2>2, <2>3, <2>5 DEF provision_store, Create, Fill
    <2>6. CASE main_phase2(s)
      BY <2>1, <2>6 DEF main_phase2
    <2>7. CASE enroll_open_key(s)
      BY <2>2, <2>3, <2>7 DEF enroll_open_key, Create
    <2>8. CASE Goes(s, "id_store", "id_fill") /\ Create(s, "device-id")
      <3>1. "id_fill" \in AgentPcs /\ "device-id" \in Files /\ Torn \in Contents
        BY DEF AgentPcs, Files, Contents
      <3>2. agent'[s].pc = "id_fill" /\ \A t \in Serials : t # s => agent'[t] = agent[t]
        BY <1>0, <2>8, <3>1, GoesFacts
      <3>3. \A t \in Serials : t # s => disk'[t] = disk[t]
        BY <1>0, <2>8, <3>1, WriteFacts DEF Create
      <3> QED
        BY <2>0, <3>2, <3>3, TornMoves
    <2>9. CASE Goes(s, "id_fill", "load") /\ Fill(s, "device-id", agent[s].id)
      <3>1. "load" \in AgentPcs /\ "device-id" \in Files
        BY DEF AgentPcs, Files
      <3>2. agent[s].pc = "id_fill" /\ \A t \in Serials : t # s => agent'[t] = agent[t]
        BY <1>0, <2>9, <3>1, GoesFacts
      <3>3. [serial |-> s, key |-> agent[s].key, id |-> agent[s].id] \in Admission
        BY <3>2, FleetTypes DEF EnrollPhase, FleetInv, TypeInv, TypeOK
      <3>4. agent[s].id \in Ids
        BY <3>3 DEF Admission
      <3>5. agent[s].id \in Contents /\ agent[s].id # Torn
        BY <3>4, ContentFacts DEF Contents
      <3>6. /\ disk'[s]["device-id"] = agent[s].id
            /\ \A t \in Serials : t # s => disk'[t] = disk[t]
        BY <1>0, <2>9, <3>1, <3>5, WriteFacts DEF Fill
      <3> QED
        BY <2>0, <3>2, <3>5, <3>6, TornMoves
    <2>10. CASE \/ Goes(s, "cert_store", "cert_fill")   /\ Create(s, "operational.pem")
                \/ Goes(s, "cert_fill", "chain_store")
                     /\ Fill(s, "operational.pem", agent[s].cert)
                \/ Goes(s, "chain_store", "chain_fill") /\ Create(s, "fleet-ca-chain.pem")
                \/ Goes(s, "chain_fill", "id_store")    /\ Fill(s, "fleet-ca-chain.pem", Chain)
      BY <2>2, <2>3, <2>10 DEF Create, Fill
    <2> QED
      BY <1>7, <2>4, <2>5, <2>6, <2>7, <2>8, <2>9, <2>10 DEF LocalStep, enroll_store
  <1> QED
    BY <1>2, <1>3, <1>4, <1>5, <1>6, <1>7 DEF RobotStep

\* A torn device id is the trace of a fault.
LEMMA TornIsFault == FleetSpec => [](\A s \in Serials : TornByFault(s))
  <1> DEFINE T == faults \in Nat /\ \A s \in Serials : TornByFault(s)
  <1>1. FleetInit => T
    <2> SUFFICES ASSUME FleetInit PROVE T
      OBVIOUS
    <2>1. faults = 0 /\ \A s \in Serials : disk[s]["device-id"] = Nil
      BY DEF FleetInit, AgentInit, Files
    <2> QED
      BY <2>1, ContentFacts DEF TornByFault
  <1>2. ASSUME FleetInv, T, [FleetNext]_fleetVars PROVE T'
    <2>1. ASSUME NEW s \in Serials, RobotRuns(s) PROVE T'
      <3>1. faults' = faults
        BY <2>1 DEF RobotRuns, RobotStep, ProcessStarts, LocalStep, GenerateKey,
                    ConnectBootstrap, SendProvision, SendEnroll, ReceiveResponse,
                    TransportError, StartFails, GoOnline
      <3> QED
        BY <1>2, <2>1, <3>1, TornRobot DEF RobotRuns
    <2>2. ASSUME NEW s \in Serials, ProcessStops(s) \/ ConnectionLost(s) \/ ConnectFails(s)
          PROVE  T'
      <3>1. faults' = faults + 1
        BY <2>2 DEF ProcessStops, ConnectionLost, ConnectFails
      <3>2. faults' \in Nat /\ faults' > 0
        BY <1>2, <3>1
      <3> QED
        BY <3>2 DEF TornByFault
    <2>3. CASE UNCHANGED <<disk, agent, faults>>
      BY <1>2, <2>3 DEF TornByFault
    <2>4. CASE ServerCrash
      <3>1. disk' = disk /\ faults' = faults
            /\ agent' = [s \in Serials |-> [agent[s] EXCEPT !.call = Nil]]
        BY <2>4 DEF ServerCrash
      <3>2. \A s \in Serials : agent'[s].pc = agent[s].pc
        BY <1>2, <3>1, FleetTypes DEF Process
      <3> QED
        BY <1>2, <3>1, <3>2 DEF TornByFault
    <2>5. ASSUME \/ \E s \in Serials : OperatorActs(s)
                 \/ \E c \in Calls : ServerRuns(c)
                 \/ ServerStarts
                 \/ UNCHANGED fleetVars
          PROVE  UNCHANGED <<disk, agent, faults>>
      BY <2>5 DEF OperatorActs, Operator, ServerRuns, ServerStep, ServerStarts, ServerStart,
                  robotVars, fleetVars
    <2> QED
      BY <1>2, <2>1, <2>2, <2>3, <2>4, <2>5 DEF FleetNext
  <1> HIDE DEF T
  <1>3. FleetSpec => []T
    BY <1>1, <1>2, FleetInvariant, PTL DEF FleetSpec
  <1>4. T => \A s \in Serials : TornByFault(s)
    BY DEF T
  <1> QED
    BY <1>3, <1>4, PTL

\* A robot is online only with the certificate the service admitted it with and the id
\* it was assigned, after any restarts of either side; the id is torn only if a fault
\* cut the writing of device-id short (robot-agent/src/main.rs, Phase 3).
THEOREM OnlineRobotsAreAdmitted == FleetSpec => []OnlineIsAdmitted
  <1>1. ASSUME FleetInv, \A s \in Serials : TornByFault(s) PROVE OnlineIsAdmitted
    <2>1. ASSUME NEW s \in Serials, Online(s)
          PROVE  \E a \in admitted :
                    /\ a.serial = s
                    /\ a.key = disk[s]["operational.pem"]
                    /\ agent[s].id = a.id \/ (agent[s].id = Torn /\ faults > 0)
      <3>1. /\ Complete(s, "operational.pem") /\ Exists(s, "device-id")
            /\ agent[s].id = disk[s]["device-id"] /\ agent[s].pc = "online"
        BY <1>1, <2>1, FleetTypes DEF Online, EnrollPhase
      <3>2. CASE disk[s]["device-id"] = Torn
        <4>1. faults > 0
          BY <1>1, <3>1, <3>2 DEF TornByFault
        <4>2. IsAdmitted(s, disk[s]["operational.pem"])
          BY <1>1, <3>1, FleetTypes DEF FilesOK
        <4> QED
          BY <3>1, <3>2, <4>1, <4>2 DEF IsAdmitted
      <3>3. CASE disk[s]["device-id"] # Torn
        <4> DEFINE a == [serial |-> s, key |-> disk[s]["operational.pem"],
                         id |-> disk[s]["device-id"]]
        <4>1. a \in admitted
          BY <1>1, <3>1, <3>3, FleetTypes DEF FilesOK, Exists, Complete
        <4>2. a.serial = s /\ a.key = disk[s]["operational.pem"] /\ a.id = agent[s].id
          BY <3>1
        <4> QED
          BY <4>1, <4>2
      <3> QED
        BY <3>2, <3>3
    <2> QED
      BY <2>1 DEF OnlineIsAdmitted
  <1> QED
    BY <1>1, FleetInvariant, TornIsFault, PTL

\* The files of a robot follow the service's records: each is there only after the
\* ones it rests on, and holds what the service returned (phase checks of main).
THEOREM DisksFollowTheServer == FleetSpec => []DiskFollowsServer
  <1>1. ASSUME FleetInv PROVE DiskFollowsServer
    <2>1. ASSUME NEW s \in Serials, Complete(s, "device-id")
          PROVE  \E a \in admitted : /\ a.serial = s
                                     /\ a.id = disk[s]["device-id"]
                                     /\ a.key = disk[s]["operational.pem"]
      <3> DEFINE a == [serial |-> s, key |-> disk[s]["operational.pem"],
                       id |-> disk[s]["device-id"]]
      <3>1. a \in admitted
        BY <1>1, <2>1, FleetTypes DEF FilesOK
      <3>2. a.serial = s /\ a.id = disk[s]["device-id"] /\ a.key = disk[s]["operational.pem"]
        OBVIOUS
      <3> QED
        BY <3>1, <3>2
    <2>2. ASSUME NEW s \in Serials
          PROVE  /\ Complete(s, "device.pem") =>
                       sign_csr("device", s, disk[s]["device.pem"]) \in deviceCerts
                 /\ Exists(s, "operational.pem") => Complete(s, "device.pem")
      BY <1>1, FleetTypes DEF FilesOK, HasCert
    <2> QED
      BY <2>1, <2>2 DEF DiskFollowsServer
  <1> QED
    BY <1>1, FleetInvariant, PTL

\* The counts of the faults stay within their bounds.
LEMMA FaultCounts ==
    FleetSpec => [](faults \in 0 .. MaxRobotFaults /\ serverFaults \in 0 .. MaxServerFaults)
  <1> DEFINE B == faults \in 0 .. MaxRobotFaults /\ serverFaults \in 0 .. MaxServerFaults
  <1>1. FleetInit => B
    BY FaultBoundsAssumption DEF FleetInit
  <1>2. ASSUME B, [FleetNext]_fleetVars PROVE B'
    <2>1. CASE UNCHANGED fleetVars
      BY <1>2, <2>1 DEF fleetVars, robotVars
    <2>2. CASE faults' = faults /\ CountFaults
      BY <1>2, <2>2, FaultBoundsAssumption DEF CountFaults
    <2>3. ASSUME NEW s \in Serials, ProcessStops(s) \/ ConnectionLost(s) \/ ConnectFails(s), UNCHANGED serverFaults
          PROVE  B'
      BY <1>2, <2>3, FaultBoundsAssumption DEF ProcessStops, ConnectionLost, ConnectFails
    <2>4. ASSUME NEW s \in Serials, RobotRuns(s) \/ OperatorActs(s)
          PROVE  faults' = faults /\ CountFaults
      BY <2>4 DEF RobotRuns, RobotStep, ProcessStarts, LocalStep, GenerateKey, ConnectBootstrap,
                  SendProvision, SendEnroll, ReceiveResponse, TransportError, StartFails,
                  GoOnline, OperatorActs, Operator, robotVars
    <2>5. ASSUME \/ \E c \in Calls : ServerRuns(c)
                 \/ ServerStarts
                 \/ ServerCrash /\ CountFaults
          PROVE  faults' = faults /\ CountFaults
      BY <2>5 DEF ServerRuns, ServerStep, ServerStarts, ServerStart, ServerCrash, robotVars
    <2> QED
      BY <1>2, <2>1, <2>2, <2>3, <2>4, <2>5 DEF FleetNext
  <1> HIDE DEF B
  <1>3. FleetSpec => []B
    BY <1>1, <1>2, PTL DEF FleetSpec
  <1> QED
    BY <1>3 DEF B

\* Robots, disks, calls and tables keep their types together.
THEOREM FleetTypeCorrect == FleetSpec => []FleetTypeOK
  <1>1. FleetInv /\ faults \in 0 .. MaxRobotFaults /\ serverFaults \in 0 .. MaxServerFaults
           => FleetTypeOK
    BY DEF FleetInv, TypeInv, FleetTypeOK
  <1> QED
    BY <1>1, FleetInvariant, FaultCounts, PTL

\* The robots ask of the service only what the service's own specification allows a
\* client to ask, so everything proved of the service under clients that call in any
\* order and number, each with its own serial in the CSR's subject, holds in the fleet.
THEOREM FleetImplementsServer == FleetSpec => Spec
  <1>1. FleetInit => ServerInit
    BY DEF FleetInit
  <1>2. FleetInv /\ [FleetNext]_fleetVars => [Next]_vars
    BY FleetStepsServer
  <1> QED
    BY <1>1, <1>2, FleetInvariant, PTL DEF FleetSpec, Spec

\* End to end: the certificate an online robot uses is the one in the device row of
\* its serial, and that row is the only one with the serial.
OnlineIsRegistered ==
    \A s \in Serials : Online(s) =>
        \E i \in Ids : /\ devices[i] # Nil
                       /\ devices[i].serial = s
                       /\ devices[i].key = disk[s]["operational.pem"]
                       /\ \A j \in Ids : devices[j] # Nil /\ devices[j].serial = s => j = i

\* An online robot is the registered holder of its certificate, however its start-up,
\* the handlers of the service, crashes and register_serial interleaved.
THEOREM OnlineRobotsAreRegistered == FleetSpec => []OnlineIsRegistered
  <1>1. ASSUME FleetInv, OnlineIsAdmitted, AdmissionRecorded, OneDevicePerSerial
        PROVE  OnlineIsRegistered
    <2>1. SUFFICES ASSUME NEW s \in Serials, Online(s)
          PROVE  \E i \in Ids : /\ devices[i] # Nil
                                /\ devices[i].serial = s
                                /\ devices[i].key = disk[s]["operational.pem"]
                                /\ \A j \in Ids : devices[j] # Nil /\ devices[j].serial = s
                                                    => j = i
      BY DEF OnlineIsRegistered
    <2>2. PICK a \in admitted : a.serial = s /\ a.key = disk[s]["operational.pem"]
      BY <1>1, <2>1 DEF OnlineIsAdmitted
    <2>3. a.id \in Ids
      BY <1>1, <2>2 DEF FleetInv, TypeInv, TypeOK, Admission
    <2>4. devices[a.id] # Nil /\ devices[a.id].serial = s
          /\ devices[a.id].key = disk[s]["operational.pem"]
      BY <1>1, <2>2 DEF AdmissionRecorded
    <2> QED
      BY <1>1, <2>3, <2>4 DEF OneDevicePerSerial
  <1> QED
    BY <1>1, FleetInvariant, OnlineRobotsAreAdmitted, FleetImplementsServer, OneDevice,
       AdmissionsRecorded, PTL

=============================================================================
