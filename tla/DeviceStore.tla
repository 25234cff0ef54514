----------------------------- MODULE DeviceStore -----------------------------
(***************************************************************************)
(* The SQLite device store of the device-management service                *)
(* (device-management-service/src/store/mod.rs).  Every operation of the   *)
(* store takes the connection's mutex once, so every operation is one      *)
(* atomic action on the three tables; it takes the result it returns as    *)
(* its last parameter, and the caller chooses the next step from it.       *)
(*                                                                         *)
(* Columns no property tells apart (model, firmware, timestamps) are left  *)
(* out.  A certificate is known by the key pair it certifies.              *)
(***************************************************************************)

CONSTANTS
    Serials,    \* serial numbers of robots
    Tokens,     \* one-time provisioning tokens
    Keys,       \* key pairs a robot may generate
    Ids,        \* device ids (UUIDs) the store may draw
    Statuses,   \* device statuses operators use, "active" among them
    Nil,        \* no row, an empty request field
    Faults      \* the faults the environment injects, a subset of FaultKinds

\* db: a store operation fails;  sign: a CSR cannot be signed;
\* crash: the server process stops between two steps.
FaultKinds == {"db", "sign", "crash"}

ManifestRow == [token : Tokens, provisioned : BOOLEAN]
DeviceRow == [serial : Serials, key : Keys, status : Statuses]

\* "Ok" or a variant of error.rs
StoreResults == {"Ok", "NotInManifest", "InvalidProvisionToken", "AlreadyProvisioned",
                 "NotPreEnrolled", "SerialAlreadyClaimed", "AlreadyEnrolled",
                 "NotFound", "Db"}

ASSUME FaultsAssumption == Faults \subseteq FaultKinds
ASSUME StatusAssumption == "active" \in Statuses
ASSUME NilAssumption == Nil \notin Serials \cup Tokens \cup Keys \cup Ids
                                     \cup Statuses \cup ManifestRow \cup DeviceRow

VARIABLES
    manifest,       \* factory_manifest: serial |-> row
    preEnrollment,  \* pre_enrollment:   serial |-> "absent", "unclaimed", "claimed"
    devices         \* devices:          id |-> row

tables == <<manifest, preEnrollment, devices>>

StoreTypeOK ==
    /\ manifest \in [Serials -> ManifestRow \cup {Nil}]
    /\ preEnrollment \in [Serials -> {"absent", "unclaimed", "claimed"}]
    /\ devices \in [Ids -> DeviceRow \cup {Nil}]

\* MIGRATION: a new database has three empty tables.
StoreInit ==
    /\ manifest = [s \in Serials |-> Nil]
    /\ preEnrollment = [s \in Serials |-> "absent"]
    /\ devices = [i \in Ids |-> Nil]

\* SELECT 1 FROM devices WHERE serial = s
HasDevice(s) == \E i \in Ids : devices[i] # Nil /\ devices[i].serial = s

\* A statement failed (disk full, I/O error, poisoned mutex) and changed nothing; a
\* transaction that was open is rolled back.
DbFails(res) ==
    /\ "db" \in Faults
    /\ res = "Db"
    /\ UNCHANGED tables

-----------------------------------------------------------------------------
(* Factory manifest                                                        *)

\* Mutant: an entry without a token is inserted too.
seed_manifest_unchecked(env) ==
    /\ manifest' = [s \in Serials |->
                      IF manifest[s] = Nil THEN [token |-> env[s], provisioned |-> FALSE]
                      ELSE manifest[s]]
    /\ UNCHANGED <<preEnrollment, devices>>

\* Mutant: INSERT OR REPLACE, a restart with the same manifest renews every entry.
seed_manifest_or_replace(env) ==
    /\ manifest' = [s \in Serials |->
                      IF env[s] # Nil THEN [token |-> env[s], provisioned |-> FALSE]
                      ELSE manifest[s]]
    /\ UNCHANGED <<preEnrollment, devices>>

\* INSERT OR IGNORE for every entry of FACTORY_MANIFEST, env: serial |-> token or Nil.
seed_manifest(env) ==
    /\ manifest' = [s \in Serials |->
                      IF manifest[s] = Nil /\ env[s] # Nil
                        THEN [token |-> env[s], provisioned |-> FALSE]
                        ELSE manifest[s]]
    /\ UNCHANGED <<preEnrollment, devices>>

\* Mutant: provisioned_at is checked but never set.
claim_manifest_entry_unmarked(s, token, res) ==
    \/ /\ manifest[s] # Nil
       /\ manifest[s].token = token
       /\ res = "Ok"
       /\ preEnrollment' = [preEnrollment EXCEPT ![s] = IF @ = "absent" THEN "unclaimed" ELSE @]
       /\ UNCHANGED <<manifest, devices>>
    \/ DbFails(res)

\* Mutant: the check of provisioned_at is missing.
claim_manifest_entry_again(s, token, res) ==
    \/ /\ manifest[s] # Nil
       /\ manifest[s].token = token
       /\ res = "Ok"
       /\ manifest' = [manifest EXCEPT ![s].provisioned = TRUE]
       /\ preEnrollment' = [preEnrollment EXCEPT ![s] = IF @ = "absent" THEN "unclaimed" ELSE @]
       /\ UNCHANGED devices
    \/ DbFails(res)

\* Mutant: the serial is not entered for enrollment.
claim_manifest_entry_only(s, token, res) ==
    /\ manifest[s] # Nil
    /\ manifest[s].token = token
    /\ res = IF manifest[s].provisioned THEN "AlreadyProvisioned" ELSE "Ok"
    /\ manifest' = [manifest EXCEPT ![s].provisioned = TRUE]
    /\ UNCHANGED <<preEnrollment, devices>>

claim_manifest_entry(s, token, res) ==
    \/ /\ manifest[s] = Nil
       /\ res = "NotInManifest"
       /\ UNCHANGED tables
    \/ /\ manifest[s] # Nil
       /\ manifest[s].token # token
       /\ res = "InvalidProvisionToken"
       /\ UNCHANGED tables
    \/ /\ manifest[s] # Nil
       /\ manifest[s].token = token
       /\ manifest[s].provisioned
       /\ res = "AlreadyProvisioned"
       /\ UNCHANGED tables
    \/ /\ manifest[s] # Nil
       /\ manifest[s].token = token
       /\ ~ manifest[s].provisioned
       /\ res = "Ok"
       /\ manifest' = [manifest EXCEPT ![s].provisioned = TRUE]
       /\ preEnrollment' = [preEnrollment EXCEPT ![s] = IF @ = "absent" THEN "unclaimed" ELSE @]
       /\ UNCHANGED devices
    \/ DbFails(res)

-----------------------------------------------------------------------------
(* Pre-enrollment                                                          *)

\* Insert a serial or reset its claim, unless a device with that serial exists.
register_serial(s) ==
    /\ preEnrollment' = [preEnrollment EXCEPT ![s] =
                           IF @ = "absent" \/ ~ HasDevice(s) THEN "unclaimed" ELSE @]
    /\ UNCHANGED <<manifest, devices>>

\* Mutant: the claim is looked up and not written.
lookup_without_claim(s, res) ==
    /\ preEnrollment[s] # "absent"
    /\ res = IF preEnrollment[s] = "claimed" THEN "SerialAlreadyClaimed" ELSE "Ok"
    /\ UNCHANGED tables

lookup_and_claim(s, res) ==
    \/ /\ preEnrollment[s] = "absent"
       /\ res = "NotPreEnrolled"
       /\ UNCHANGED tables
    \/ /\ preEnrollment[s] = "claimed"
       /\ res = "SerialAlreadyClaimed"
       /\ UNCHANGED tables
    \/ /\ preEnrollment[s] = "unclaimed"
       /\ res = "Ok"
       /\ preEnrollment' = [preEnrollment EXCEPT ![s] = "claimed"]
       /\ UNCHANGED <<manifest, devices>>
    \/ DbFails(res)

-----------------------------------------------------------------------------
(* Devices                                                                 *)

\* Mutant: no UNIQUE constraint on the serial.
create_device_no_unique(s, key, id, res) ==
    /\ devices[id] = Nil
    /\ res = "Ok"
    /\ devices' = [devices EXCEPT ![id] = [serial |-> s, key |-> key, status |-> "active"]]
    /\ UNCHANGED <<manifest, preEnrollment>>

\* Mutant: INSERT OR REPLACE, a second enrollment replaces the first one's row.
create_device_or_replace(s, key, id, res) ==
    /\ devices[id] = Nil
    /\ res = "Ok"
    /\ devices' = [i \in Ids |->
                     IF i = id THEN [serial |-> s, key |-> key, status |-> "active"]
                     ELSE IF devices[i] # Nil /\ devices[i].serial = s THEN Nil
                     ELSE devices[i]]
    /\ UNCHANGED <<manifest, preEnrollment>>

\* id is the UUID drawn for the row; UNIQUE(serial) refuses a second device.
create_device(s, key, id, res) ==
    \/ /\ HasDevice(s)
       /\ res = "AlreadyEnrolled"
       /\ UNCHANGED tables
    \/ /\ ~ HasDevice(s)
       /\ devices[id] = Nil
       /\ res = "Ok"
       /\ devices' = [devices EXCEPT ![id] = [serial |-> s, key |-> key, status |-> "active"]]
       /\ UNCHANGED <<manifest, preEnrollment>>
    \/ DbFails(res)

get_device(id, res) ==
    \/ /\ res = IF devices[id] = Nil THEN "NotFound" ELSE "Ok"
       /\ UNCHANGED tables
    \/ DbFails(res)

update_status(id, status, res) ==
    \/ /\ devices[id] = Nil
       /\ res = "NotFound"
       /\ UNCHANGED tables
    \/ /\ devices[id] # Nil
       /\ res = "Ok"
       /\ devices' = [devices EXCEPT ![id].status = status]
       /\ UNCHANGED <<manifest, preEnrollment>>
    \/ DbFails(res)

=============================================================================
