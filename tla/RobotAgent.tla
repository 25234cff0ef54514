----------------------------- MODULE RobotAgent ------------------------------
(***************************************************************************)
(* The robot agent's start-up (robot-agent/src/main.rs, provisioning.rs,   *)
(* enrollment.rs, pki/src/csr.rs): Phase 1 provisioning, Phase 2           *)
(* enrollment and the loading of the operational credentials, over the     *)
(* files of its data directory.                                            *)
(*                                                                         *)
(* The agent decides what is still to be done from the files that exist.   *)
(* It writes a file with fs::write or OpenOptions + write_all: the file is *)
(* created or truncated first and filled afterwards, so a process that     *)
(* stops between the two, or meets a full disk, leaves a file that exists  *)
(* and is Torn.  Any error ends the process; the files stay as the process *)
(* left them.  Nothing is synced to the disk: what a loss of power may     *)
(* undo or reorder is left out.                                            *)
(*                                                                         *)
(* The module is the agent's own half: the RPCs are completed by Fleet.    *)
(***************************************************************************)
CONSTANTS
    Serials,    \* the robots, known by DEVICE_SERIAL
    Keys,       \* key pairs
    Ids,        \* device ids
    Calls,      \* RPCs in flight
    Nil,        \* no file, no value
    Torn,       \* the content of a file created and not completely written
    Chain       \* the Fleet CA chain

Files == {"device.key", "device.pem", "operational.key", "operational.pem",
          "fleet-ca-chain.pem", "device-id"}

AgentPcs ==
    {"off", "main",
     "prov_key", "prov_send", "prov_wait", "prov_store", "prov_fill",
     "enroll", "enroll_gen", "enroll_key", "enroll_send", "enroll_wait",
     "cert_store", "cert_fill", "chain_store", "chain_fill", "id_store", "id_fill",
     "load", "online"}

VARIABLES
    disk,   \* robot |-> (file |-> content): the data directory
    agent   \* robot |-> its process: pc, key pair of the CSR, RPC, response, device id

agentVars == <<disk, agent>>

Process == [pc : AgentPcs, key : Keys \cup {Nil}, call : Calls \cup {Nil},
            cert : Keys \cup {Nil}, id : Ids \cup {Nil, Torn}]

Off == [pc |-> "off", key |-> Nil, call |-> Nil, cert |-> Nil, id |-> Nil]

AgentTypeOK ==
    /\ disk \in [Serials -> [Files -> Keys \cup Ids \cup {Nil, Torn, Chain}]]
    /\ agent \in [Serials -> Process]

AgentInit ==
    /\ disk = [s \in Serials |-> [f \in Files |-> Nil]]
    /\ agent = [s \in Serials |-> Off]

Exists(s, f) == disk[s][f] # Nil
Complete(s, f) == disk[s][f] \notin {Nil, Torn}

is_provisioned(s) == Exists(s, "device.pem")
\* Mutant: enrollment counts as done once the device id is there.
is_enrolled_by_id(s) == Exists(s, "device-id")

is_enrolled(s) == Exists(s, "operational.pem")

\* rustls accepts a certificate and a key if both parse and belong together.
Identity(s, pem, key) == Complete(s, pem) /\ disk[s][pem] = disk[s][key]

-----------------------------------------------------------------------------
(* Steps of a process                                                      *)

Goes(s, from, to) ==
    /\ agent[s].pc = from
    /\ agent' = [agent EXCEPT ![s].pc = to]

\* Open for writing: create or truncate.
Create(s, f) == disk' = [disk EXCEPT ![s][f] = Torn]
Fill(s, f, content) == disk' = [disk EXCEPT ![s][f] = content]

\* Any error is propagated out of main, or the process is stopped.
Exit(s) ==
    /\ agent' = [agent EXCEPT ![s] = Off]
    /\ UNCHANGED disk

Boot(s) == Goes(s, "off", "main") /\ UNCHANGED disk

\* main, Phase 1: a robot that has a device certificate goes on to Phase 2, the
\* other one opens device.key for the key pair it has generated.
main_phase1(s) ==
    \/ is_provisioned(s) /\ Goes(s, "main", "enroll") /\ UNCHANGED disk
    \/ ~ is_provisioned(s) /\ Goes(s, "main", "prov_key") /\ Create(s, "device.key")

\* generate_csr: the new key pair is written, the CSR is for its public key.
generate_csr(s, from, f, key, to) ==
    /\ agent[s].pc = from
    /\ agent' = [agent EXCEPT ![s].pc = to, ![s].key = key]
    /\ Fill(s, f, key)

\* The RPC has been sent on call c.
Sent(s, from, c, to) ==
    /\ agent[s].pc = from
    /\ agent' = [agent EXCEPT ![s].pc = to, ![s].call = c]
    /\ UNCHANGED disk

\* The response carries the certificate of a key, and a device id in Phase 2.
Received(s, from, cert, id, to) ==
    /\ agent[s].pc = from
    /\ agent' = [agent EXCEPT ![s].pc = to, ![s].call = Nil,
                              ![s].cert = cert, ![s].id = id]
    /\ UNCHANGED disk

\* provision: store device.pem.
provision_store(s) ==
    \/ Goes(s, "prov_store", "prov_fill") /\ Create(s, "device.pem")
    \/ Goes(s, "prov_fill", "enroll") /\ Fill(s, "device.pem", agent[s].cert)

\* main, Phase 2: an enrolled robot goes on to Phase 3.
main_phase2(s) == is_enrolled(s) /\ Goes(s, "enroll", "load") /\ UNCHANGED disk

\* enroll: generate_csr opens operational.key once the channel is connected.
enroll_open_key(s) == Goes(s, "enroll_gen", "enroll_key") /\ Create(s, "operational.key")

\* enroll: store the response in three files, in this order.
enroll_store(s) ==
    \/ Goes(s, "cert_store", "cert_fill")   /\ Create(s, "operational.pem")
    \/ Goes(s, "cert_fill", "chain_store")  /\ Fill(s, "operational.pem", agent[s].cert)
    \/ Goes(s, "chain_store", "chain_fill") /\ Create(s, "fleet-ca-chain.pem")
    \/ Goes(s, "chain_fill", "id_store")    /\ Fill(s, "fleet-ca-chain.pem", Chain)
    \/ Goes(s, "id_store", "id_fill")       /\ Create(s, "device-id")
    \/ Goes(s, "id_fill", "load")           /\ Fill(s, "device-id", agent[s].id)

\* Mutant: the operational certificate is loaded with the device key.
CanLoadDeviceKey(s) ==
    /\ Identity(s, "operational.pem", "device.key")
    /\ Exists(s, "device-id")

\* main, Phase 3: load_operational_creds and load_device_id read whatever the files
\* hold; a missing file is an error, an unusable identity fails in tls_config.
CanLoad(s) ==
    /\ Identity(s, "operational.pem", "operational.key")
    /\ Exists(s, "device-id")

\* Mutant: the id is read from the wrong file.
main_phase3_wrong_file(s) ==
    /\ agent[s].pc = "load"
    /\ CanLoad(s)
    /\ agent' = [agent EXCEPT ![s] = [Off EXCEPT !.pc = "online",
                                                 !.id = disk[s]["fleet-ca-chain.pem"]]]
    /\ UNCHANGED disk

main_phase3(s) ==
    /\ agent[s].pc = "load"
    /\ CanLoad(s)
    /\ agent' = [agent EXCEPT ![s] = [Off EXCEPT !.pc = "online",
                                                 !.id = disk[s]["device-id"]]]
    /\ UNCHANGED disk

=============================================================================
