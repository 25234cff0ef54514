---------------------------- MODULE FleetAdmission ---------------------------
(***************************************************************************)
(* FleetServer implements Admission: the manifest table is the phase of a  *)
(* serial, the devices table the ledger.                                   *)
(***************************************************************************)
EXTENDS FleetServer

PhaseOf(s) ==
    IF manifest[s] = Nil THEN "unknown"
    ELSE IF manifest[s].provisioned THEN "provisioned" ELSE "manufactured"

Abstract == INSTANCE Admission WITH
    phase  <- [s \in Serials |-> PhaseOf(s)],
    ledger <- {[serial |-> devices[i].serial, key |-> devices[i].key, id |-> i] :
                  i \in {j \in Ids : devices[j] # Nil}}

\* Whatever the interleaving of handlers, operator resets, failures and crashes,
\* the tables of the service change only as Admission allows: provisioning and
\* enrollment happen in order and once per serial, and no row is lost.
ImplementsAdmission == Abstract!Spec

=============================================================================
