------------------------------ MODULE Admission ------------------------------
(***************************************************************************)
(* What the device-management service promises about admission to the      *)
(* fleet, without tables, calls or failures: a serial is manufactured,     *)
(* then provisioned, each once, and a provisioned serial is entered in the *)
(* fleet's ledger at most once, under an id of its own; an entry is never  *)
(* changed or removed.                                                     *)
(***************************************************************************)

CONSTANTS Serials, Keys, Ids

VARIABLES
    phase,      \* serial |-> "unknown", "manufactured", "provisioned"
    ledger      \* set of [serial, key, id]: the devices of the fleet

Init ==
    /\ phase = [s \in Serials |-> "unknown"]
    /\ ledger = {}

\* A batch of robots is entered in the factory manifest.
Manufacture(batch) ==
    /\ \A s \in batch : phase[s] = "unknown"
    /\ phase' = [s \in Serials |-> IF s \in batch THEN "manufactured" ELSE phase[s]]
    /\ UNCHANGED ledger

Provision(s) ==
    /\ phase[s] = "manufactured"
    /\ phase' = [phase EXCEPT ![s] = "provisioned"]
    /\ UNCHANGED ledger

Admit(s, key, id) ==
    /\ phase[s] = "provisioned"
    /\ \A e \in ledger : e.serial # s /\ e.id # id
    /\ ledger' = ledger \cup {[serial |-> s, key |-> key, id |-> id]}
    /\ UNCHANGED phase

Next ==
    \/ \E batch \in SUBSET Serials : Manufacture(batch)
    \/ \E s \in Serials : Provision(s)
    \/ \E s \in Serials, key \in Keys, id \in Ids : Admit(s, key, id)

Spec == Init /\ [][Next]_<<phase, ledger>>

=============================================================================
