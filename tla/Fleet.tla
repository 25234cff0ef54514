-------------------------------- MODULE Fleet --------------------------------
(***************************************************************************)
(* Robots and the device-management service together: the RPCs of          *)
(* RobotAgent are the calls of FleetServer.                                *)
(*                                                                         *)
(* A robot that stops waiting (process stopped, broken connection) leaves  *)
(* its call behind: the handler has no await at which it could be          *)
(* cancelled and runs to its end, its response goes nowhere.               *)
(***************************************************************************)
EXTENDS FleetServer, Naturals

CONSTANTS
    Torn, Chain,    \* file contents, see RobotAgent
    RobotTokens,    \* PROVISION_TOKEN of every robot: serial |-> token
    RobotFaults,    \* subset of {"stop", "net"}: the agent is stopped, or the network fails
    MaxRobotFaults, \* bound on the number of those faults
    MaxServerFaults \* bound on the number of the server's faults

ASSUME RobotFaultsAssumption == RobotFaults \subseteq {"stop", "net"}
ASSUME FaultBoundsAssumption == MaxRobotFaults \in Nat /\ MaxServerFaults \in Nat
ASSUME RobotTokensAssumption == RobotTokens \in [Serials -> Tokens]
ASSUME FileContentsAssumption ==
    /\ Torn # Nil /\ Chain \notin {Nil, Torn}
    /\ {Torn, Chain} \cap (Keys \cup Ids) = {}

VARIABLES disk, agent,
    faults,         \* number of robot faults so far
    serverFaults    \* number of server faults so far

INSTANCE RobotAgent

robotVars == <<disk, agent, faults>>
fleetVars == <<vars, robotVars, serverFaults>>

FleetTypeOK ==
    /\ TypeOK
    /\ AgentTypeOK
    /\ faults \in 0 .. MaxRobotFaults
    /\ serverFaults \in 0 .. MaxServerFaults

\* The keys that exist: on a disk, in a process, in a call, or in a certificate.
LiveKeys ==
    {k \in Keys : \/ \E s \in Serials : \/ \E f \in Files : disk[s][f] = k
                                        \/ agent[s].key = k
                  \/ \E c \in Calls : calls[c].key = k
                  \/ \E x \in deviceCerts : x.key = k
                  \/ \E a \in admitted : a.key = k}

\* KeyPair::generate_for returns a key that is not in use.  Keys are interchangeable,
\* so it does not matter which one.
FreshKeys == Keys \ LiveKeys
FreshKey == CHOOSE k \in FreshKeys : TRUE

-----------------------------------------------------------------------------
(* Robot steps that involve the server                                     *)

\* The agent cannot go on: no server to connect to, or unusable credentials.
StartFails(s) ==
    /\ \/ agent[s].pc \in {"prov_send", "enroll_send"} /\ ~ up
       \/ /\ agent[s].pc = "enroll"
          /\ ~ is_enrolled(s)
          /\ ~ up \/ ~ Identity(s, "device.pem", "device.key")
       \/ agent[s].pc = "load" /\ (~ up \/ ~ CanLoad(s))
    /\ Exit(s)
    /\ UNCHANGED <<vars, faults>>

\* main, Phase 2: connect to the bootstrap port with the device certificate.
ConnectBootstrap(s) ==
    /\ up
    /\ ~ is_enrolled(s)
    /\ Identity(s, "device.pem", "device.key")
    /\ Goes(s, "enroll", "enroll_gen")
    /\ UNCHANGED <<disk, vars, faults>>

GenerateKey(s) ==
    /\ FreshKeys # {}
    /\ \/ generate_csr(s, "prov_key", "device.key", FreshKey, "prov_send")
       \/ generate_csr(s, "enroll_key", "operational.key", FreshKey, "enroll_send")
    /\ UNCHANGED <<vars, faults>>

SendProvision(s, c) ==
    /\ provision_device(c, s, agent[s].key, RobotTokens[s])
    /\ Sent(s, "prov_send", c, "prov_wait")
    /\ UNCHANGED faults

SendEnroll(s, c) ==
    /\ bootstrap_enroll(c, s, agent[s].key, sign_csr("device", s, disk[s]["device.pem"]))
    /\ Sent(s, "enroll_send", c, "enroll_wait")
    /\ UNCHANGED faults

Waiting(s) == agent[s].pc \in {"prov_wait", "enroll_wait"}

\* Mutant: the status code of the response is not looked at.
ReceiveAnyResponse(s) ==
    LET c == agent[s].call
    IN  /\ Waiting(s)
        /\ c # Nil
        /\ Respond(c)
        /\ \/ Received(s, "prov_wait", calls[c].key, Nil, "prov_store")
           \/ Received(s, "enroll_wait", calls[c].key, calls[c].id, "cert_store")
        /\ UNCHANGED faults

\* The robot receives the response of its call; an error ends the process.
ReceiveResponse(s) ==
    LET c == agent[s].call
    IN  /\ Waiting(s)
        /\ c # Nil
        /\ Respond(c)
        /\ \/ /\ calls[c].code = "ok"
              /\ \/ Received(s, "prov_wait", calls[c].key, Nil, "prov_store")
                 \/ Received(s, "enroll_wait", calls[c].key, calls[c].id, "cert_store")
           \/ calls[c].code # "ok" /\ Exit(s)
        /\ UNCHANGED faults

\* The connection broke: the server process is gone.
TransportError(s) ==
    /\ Waiting(s)
    /\ agent[s].call = Nil
    /\ Exit(s)
    /\ UNCHANGED <<vars, faults>>

GoOnline(s) ==
    /\ up
    /\ main_phase3(s)
    /\ UNCHANGED <<vars, faults>>

LocalStep(s) ==
    /\ main_phase1(s) \/ provision_store(s) \/ main_phase2(s)
         \/ enroll_open_key(s) \/ enroll_store(s)
    /\ UNCHANGED <<vars, faults>>

ProcessStarts(s) == Boot(s) /\ UNCHANGED <<vars, faults>>

-----------------------------------------------------------------------------
(* Faults of a robot                                                       *)

\* What the agent has written stays, in the order it was written.
ProcessStops(s) ==
    /\ "stop" \in RobotFaults
    /\ faults < MaxRobotFaults
    /\ agent[s].pc # "off"
    /\ Exit(s)
    /\ faults' = faults + 1
    /\ UNCHANGED vars

ConnectionLost(s) ==
    /\ "net" \in RobotFaults
    /\ faults < MaxRobotFaults
    /\ Waiting(s)
    /\ Exit(s)
    /\ faults' = faults + 1
    /\ UNCHANGED vars

\* A connect fails although the service is up: to the provisioning port, to the
\* bootstrap port, to the fleet service, or to the OTA service, another process,
\* right after it.
ConnectFails(s) ==
    /\ "net" \in RobotFaults
    /\ faults < MaxRobotFaults
    /\ \/ agent[s].pc \in {"prov_send", "load"}
       \/ agent[s].pc = "enroll" /\ ~ is_enrolled(s)
    /\ Exit(s)
    /\ faults' = faults + 1
    /\ UNCHANGED vars

-----------------------------------------------------------------------------
(* Server steps                                                            *)

\* No robot waits for this call any more.
Orphan(c) == \A s \in Serials : agent[s].call # c

ServerStep(c) ==
    /\ \/ provision_sign(c) \/ enroll_sign(c) \/ enroll_create(c)
       \/ Orphan(c) /\ Respond(c)
    /\ UNCHANGED robotVars

ServerStart == (\E env \in FactoryManifests : Start(env)) /\ UNCHANGED robotVars

ServerCrash ==
    /\ Crash
    /\ agent' = [s \in Serials |-> [agent[s] EXCEPT !.call = Nil]]
    /\ UNCHANGED <<disk, faults>>

Operator(s) == RegisterSerial(s) /\ UNCHANGED robotVars

RobotStep(s) ==
    \/ ProcessStarts(s)
    \/ LocalStep(s)
    \/ GenerateKey(s)
    \/ ConnectBootstrap(s)
    \/ (\E c \in Calls : SendProvision(s, c) \/ SendEnroll(s, c))
    \/ ReceiveResponse(s)
    \/ TransportError(s)
    \/ StartFails(s)
    \/ GoOnline(s)

\* The server stops, fails a request, or skips an entry of its manifest.
ServerFails ==
    \/ up /\ ~ up'
    \/ \E c \in Calls : calls'[c].code = "internal" /\ calls[c].code # "internal"
    \/ ~ up /\ up' /\ \E s \in Serials : manifest'[s] = Nil

CountFaults ==
    /\ serverFaults' = serverFaults + (IF ServerFails THEN 1 ELSE 0)
    /\ serverFaults' <= MaxServerFaults

FleetInit == ServerInit /\ AgentInit /\ faults = 0 /\ serverFaults = 0

RobotRuns(s) == RobotStep(s) /\ CountFaults
ServerRuns(c) == ServerStep(c) /\ CountFaults
ServerStarts == ServerStart /\ CountFaults
OperatorActs(s) == Operator(s) /\ CountFaults

FleetNext ==
    \/ \E s \in Serials : RobotRuns(s) \/ OperatorActs(s)
    \/ \E s \in Serials : /\ ProcessStops(s) \/ ConnectionLost(s) \/ ConnectFails(s)
                          /\ UNCHANGED serverFaults
    \/ \E c \in Calls : ServerRuns(c)
    \/ ServerStarts
    \/ ServerCrash /\ CountFaults

FleetSpec == FleetInit /\ [][FleetNext]_fleetVars

\* The agents run and are started again when they stop, the server runs and is
\* started again.  An operator may register a serial at any time and need not.
FleetFairSpec ==
    /\ FleetSpec
    /\ \A s \in Serials : WF_fleetVars(RobotRuns(s))
    /\ \A c \in Calls : WF_fleetVars(ServerRuns(c))
    /\ WF_fleetVars(ServerStarts)

\* Operators do call register_serial, again and again.
FleetRegisteringSpec == FleetFairSpec /\ \A s \in Serials : WF_fleetVars(OperatorActs(s))

-----------------------------------------------------------------------------
(* Properties                                                              *)

Online(s) == agent[s].pc = "online"

\* Wherever the agent is stopped or loses its connection, it never keeps a certificate
\* next to a key the certificate was not issued for: a complete device.pem or
\* operational.pem belongs to the key file beside it (generate_csr overwrites the
\* key only while is_provisioned, is_enrolled are false).
CertMatchesKey ==
    \A s \in Serials :
        /\ Complete(s, "device.pem") => disk[s]["device.pem"] = disk[s]["device.key"]
        /\ Complete(s, "operational.pem")
              => disk[s]["operational.pem"] = disk[s]["operational.key"]

\* A robot that is online uses the very certificate the service recorded when it
\* admitted that robot, and the id it was assigned then; no restart lets it reach
\* Phase 3 by another way.  Only where a fault cut the writing of device-id short
\* does it go by an id that is not one (load_device_id returns what the file holds).
OnlineIsAdmitted ==
    \A s \in Serials : Online(s) =>
        \E a \in admitted :
            /\ a.serial = s
            /\ a.key = disk[s]["operational.pem"]
            /\ agent[s].id = a.id \/ (agent[s].id = Torn /\ faults > 0)

\* A robot passes the phases in order on its own disk too: it holds an operational
\* certificate only with the device certificate it enrolled with, and what it holds
\* was returned by the service (phase checks of main).
DiskFollowsServer ==
    \A s \in Serials :
        /\ Complete(s, "device.pem") =>
              sign_csr("device", s, disk[s]["device.pem"]) \in deviceCerts
        /\ Exists(s, "operational.pem") => Complete(s, "device.pem")
        /\ Complete(s, "device-id") =>
              \E a \in admitted : /\ a.serial = s
                                  /\ a.id = disk[s]["device-id"]
                                  /\ a.key = disk[s]["operational.pem"]

\* What may keep a robot out of the fleet for good when nobody intervenes: its serial
\* is not in the manifest; its manifest entry is used up and it has no usable device
\* certificate; its claim is left from an enrollment that has ended without a device
\* row; its device row exists and it does not have the operational credentials or the
\* id.
Stranded(s) ==
    \/ manifest[s] = Nil
    \/ manifest[s].provisioned /\ ~ Identity(s, "device.pem", "device.key")
    \/ /\ preEnrollment[s] = "claimed"
       /\ ~ HasDevice(s)
       /\ \A c \in Calls : ~ Enrolling(c, s)
    \/ /\ HasDevice(s)
       /\ ~ Identity(s, "operational.pem", "operational.key") \/ ~ Complete(s, "device-id")

\* Every robot is online in the end under the id it was assigned and stays so,
\* without an operator, in whatever order robots and server start, and after any
\* finite number of faults, unless one of them has stranded it: a restart repairs a
\* fault at any other moment.
EveryRobotOnline ==
    \A s \in Serials :
        <>[](\/ Online(s) /\ agent[s].id \in Ids
             \/ faults + serverFaults > 0 /\ Stranded(s))

\* device-management-service/src/store/mod.rs: register_serial can "reset a stale
\* claim (partial enrollment that never completed)": a provisioned robot that is
\* switched on again, and registered again, enrolls.
ProvisionedRobotEnrolls ==
    \A s \in Serials : Complete(s, "device.pem") ~> Online(s)

=============================================================================
