# Robot fleet: TLA+ specifications, model checks and proofs

This directory specifies the parts of robot-fleet whose correctness depends on
order: who may join the fleet, what a robot keeps on its disk while it joins, how an
OTA update reaches it, what its heartbeat and telemetry streams survive, how versions
are published, and what an operator sees who reads a table page by page. Every
definition is translated from the source; `PROJECT.json` maps each one to the lines
it models.

## 1. The system

A fleet consists of robots, each running `robot-agent`, and of three services.

| Part | State it keeps | Operations | Hard behaviour |
|---|---|---|---|
| Device store (`device-management-service/src/store`) | tables `factory_manifest`, `pre_enrollment`, `devices` in SQLite | seed and claim a manifest entry, register and claim a serial, create, read and update a device, `touch_last_seen`, list, count | each operation is atomic (one mutex), sequences of them are not; a statement may fail; a COMMIT that fails leaves its transaction open; the tables survive a crash |
| Provisioning, enrollment and device handlers (`provisioning`, `enrollment`, `server`) | none of their own: one task per RPC | ProvisionDevice, BootstrapEnroll, RenewCert, GetDevice, ListDevices, UpdateDeviceStatus | claim first, then sign, then insert: other calls, failures and crashes come in between |
| Device-management process (`main.rs`) | – | open the database, seed `FACTORY_MANIFEST`, serve three ports | restart with an old database and a new manifest |
| PKI library (`pki`) | key files | `generate_csr`, `sign_csr`, `extract_serial`, `verify_signed_by`, TLS configurations | a retry overwrites the key file |
| Robot agent start-up (`robot-agent/src/main.rs`, `provisioning.rs`, `enrollment.rs`) | six files in the data directory | Phase 1 provision, Phase 2 enroll, Phase 3 load and connect | decides what to do from the files that exist; a stop between two writes; lost responses |
| OTA service (`ota-service`) | table `update_jobs`; broadcast channels in memory | DispatchUpdate, WatchUpdates, AckUpdate, CheckUpdate, ListUpdateJobs | store and channel are updated in two steps; a slow or absent receiver loses commands; the channels do not survive a crash |
| Robot OTA task (`robot-agent/src/ota.rs`) | the command it handles | watch, apply, acknowledge, reconnect | lost acknowledgements, restarts in the middle of an update |
| Heartbeat (`heartbeat/mod.rs`, `robot-agent/src/heartbeat.rs`) | `last_seen_at` | bidirectional stream, backoff | streams that end, full channels, one task that returns ends the agent |
| Telemetry (`telemetry.rs` on both sides, `simulator/controller/robot_controller.py`) | the socket, bounded channels, a frame counter | accept a controller, read, parse and stream frames, sine wave without a simulator | frame offsets, back-pressure through three bounded queues, who connects to whom after an error |
| Artifact store (`artifact-store`) | table `artifacts`, objects in S3 | publish, get, latest, list, presign an upload | the clock is read before the lock is taken; order within a second; publish and upload are unrelated steps |

How they interact: a robot calls ProvisionDevice (port 8445, one-time token), then
BootstrapEnroll (8444, device certificate), then keeps a heartbeat, a telemetry and
an OTA stream open (8443 and the OTA service, operational certificate). All
handlers of the device-management service share one store behind one mutex.
DispatchUpdate and WatchUpdates share the dispatcher's map of broadcast channels.

What makes the parts correct:

* a token buys one device certificate, a serial is admitted once, the phases happen
  in order, what a robot was told stays recorded, nothing is recorded twice or lost;
* a robot never keeps a certificate beside a key it does not belong to, and gets
  online only through its own admission; without faults it does get online;
* a device has one active job, no update is applied twice, a job's final status is
  true and stays, and an accepted job finishes;
* frames arrive once, in order and with the values the simulator read, no failure of
  the service ends an agent, and its streams go on after errors;
* a version is published once and stays visible, the latest version does not fall
  back, a scan returns every row once.

The hazards behind these, each at its source line, are the `hazards` of
`PROJECT.json`.

## 2. Modules

```
DeviceStore ──▶ FleetServer ─┬─▶ FleetAdmission ──▶ MCFleetServer
                             │       └ INSTANCE Admission (abstract)
                             ├─▶ FleetTransactions ──▶ MCFleetTransactions
                             └─▶ Fleet ──▶ MCFleet
                                     └ INSTANCE RobotAgent
OtaService ──▶ OtaUpdates ──▶ MCOtaUpdates
TelemetryFrames ──▶ TelemetryStream ─┬─▶ Operation ──▶ MCOperation
                    HeartbeatStream ─┘
ArtifactStore ──▶ MCArtifactStore
Paging ──▶ MCPaging

Proofs:
FleetServer ──▶ FleetServerProofs ─┬─▶ FleetPhasesProofs ──▶ FleetTransactionsProofs
                                   └─▶ FleetProofs
OtaUpdatesProofs, OperationProofs, ArtifactStoreProofs, PagingProofs
```

**DeviceStore** holds the three tables as functions (`manifest`, `preEnrollment`,
`devices`) and one action per store operation, named as in the source. An operation
takes the result it returns (`Ok` or a variant of `error.rs`) as its last parameter;
the calling handler branches on it. `Faults` contains `"db"` when statements may
fail. A failing operation changes nothing.

**FleetServer** holds the RPCs in flight (`calls`) and one action per stretch of a
handler between two store operations: `provision_device` / `provision_sign`,
`bootstrap_enroll` / `enroll_sign` / `enroll_create`, `renew_cert` / `renew_sign`,
`update_device_status` / `update_read_back`, then `Respond`. `Crash` forgets the
calls and keeps the tables, `Start` seeds the manifest again. Three history
variables record what left the server: device certificates, admissions, and the
serials whose claim an operator has reset.

**FleetTransactions** is FleetServer over a database whose COMMIT may fail. The two
operations with a transaction of their own return the error of COMMIT without a
ROLLBACK, so the transaction stays open on the one connection (`txOpen`). From then on
every statement joins it, every BEGIN IMMEDIATE is refused, and `durable`, the tables
on disk, stand still; `CrashInTx` goes back to them.

**Admission** is the abstract specification: a serial is manufactured, provisioned
and admitted, each once, and the ledger only grows. **FleetAdmission** maps the
tables to it.

**RobotAgent** is the agent's half of start-up: six files and a program counter.
A file is written in two steps, create or truncate (`Torn`) and fill, because that
is what `fs::write` and `OpenOptions` do. **Fleet** joins robots and server: an RPC
of the agent is a call of FleetServer, a robot that stops waiting leaves its call
behind, and the call runs to its end. `ProcessStops` ends an agent at any point,
`ConnectFails` one of its connects: to one of the three ports or, last before it is
online, to the OTA service, which is a process of its own.

**OtaService** holds the job table, the dispatcher's senders and the open streams,
each with the commands not yet sent. **OtaUpdates** adds the OTA task of every
robot.

**HeartbeatStream** holds the agent's heartbeat task with its sender, the server's
handler and the two bounded queues between them. **TelemetryFrames** has the frame
format, `encode_frame` of the controller and `parse_frame` of the agent, over words of
a base that is a parameter. **TelemetryStream** holds controller, socket, reader or
sine-wave task, the agent's stream and the server's handler; `conn` says what has
become of the controller's connection. **Operation** runs both streams over one
connection: it breaks them together, crashes and restarts the service, and ends the
agent when a task returns (`select!`). `heartbeat::run` returns when its stream ends
without an error (`heartbeat_ends`); the proof of OnlyControllersEndAgents shows that
the service never ends one so.

**ArtifactStore** splits PublishArtifact where the code reads the clock, before it
takes the lock; `get_latest` and `list` are the sets of answers that ORDER BY allows.
The clock is the wall clock and `Tick` sets it to any time; the histories `early` and
`current` remember what was stamped before it was last set back.

**Paging** has one operator who reads `devices` or `update_jobs` page by page while
rows are inserted and changed.

The modules named **...Proofs** hold the theorems of section 4 and extend the module
they are about; an arrow between two of them means that the second uses lemmas of the
first. The definitions marked *Mutant* beside
some operations are plausible wrong versions of them: with the wrong version in
place, the property named for it in `PROJECT.json` fails. No specification uses
them.

### What is abstracted

* A certificate is its issuer, subject and key pair. Robot agents put their serial
  into the subject of every CSR, so the subject of a signed certificate is the
  serial of the call. The service itself does not compare the two
  (`pki/src/csr.rs:59-68` signs the subject it finds): what is checked and proved about
  certificates and admissions is about clients that name themselves truly, in any
  number and order of calls.
* Model, firmware, reason and expiry are left out, and timestamps outside
  ArtifactStore, Paging and the frames: no modelled decision reads them.
* Both ports that serve BootstrapEnroll demand a client certificate, so the answer
  to a missing one does not appear.
* A malformed CSR is the `"sign"` fault: it fails where signing fails, after the
  claim.
* A store operation that fails has no effect, except a COMMIT that fails in
  FleetTransactions (`store/mod.rs:289`, `353`). `create_job` of the OTA store uses no transaction, so there the row may be
  inserted although the call fails, and the model says so.
* Handlers contain no await at which tonic could cancel them for good between two
  store operations (the store's async functions never yield), so a call whose
  client has gone still runs to its end.
* `apply_update` succeeds or fails by free choice. Today's `dispatch_update` sends
  an empty `artifact_url`, so in a real fleet every download fails; the model does
  not rely on that.
* A UUID or a key is any value not yet in use.
* The length of a backoff is left out; that a sleeping task wakes up is fairness.
* A frame carries its number as the time stamp and values computed from it, so that
  every word of it can be told from the others. Both sides are modelled with the byte
  offsets of the code; a word has base 16 in the run and 2^32 in the code.
* A controller is started only when the connection of the previous one is gone. A
  reader task left over from a failed run takes one more frame and closes its
  connection, or closes it at once if it had a frame at hand; the model keeps both.
* The agent's files survive a stop of its process byte for byte and in the order they
  were written. Nothing calls fsync, so a loss of power could do more: lose a file
  that is complete, or keep a later one and not an earlier one. That is left out.
* `ota::run` returns Ok when the service ends the stream of WatchUpdates. A stream ends
  when the sender of its channel is dropped, and the dispatcher's map keeps every
  sender, so OtaUpdates has no such step; when the process dies the stream ends with
  an error.
* `register_serial` has no RPC; it is called on the store directly. The model lets
  an operator do that whenever the server is up, and only FleetLostResponse assumes
  that one does.

## 3. Runs

Each `.cfg` has the name of its run.

| Run | Instance | Checks | Result |
|---|---|---|---|
| FleetServer | 1 serial, 2 tokens, 2 keys, 2 ids, 3 calls at once, all faults, three manifests | TypeOK, OneDevicePerSerial, AdmittedOnce, AdmissionRecorded, ProvisionedOnce, PhasesInOrder, ClaimExcludes, ImplementsAdmission, RecordsPermanent | holds, about 410,000 states |
| FleetTransactions | 1 serial, 2 keys, 2 ids, 2 calls, COMMIT failures and crashes | ClaimsDurable, ProvisionedOnce, InternalOnlyOnFault, SavedAdmittedOnce | holds, about 1,150,000 states |
| Fleet | 1 robot, 6 keys, 2 calls, up to 3 robot faults and 2 server faults, fairness | FleetTypeOK, CertMatchesKey, OnlineIsAdmitted, DiskFollowsServer, EveryRobotOnline | holds, about 117,000 states |
| OtaUpdates | 1 robot, 3 jobs, 2 streams, 2 operators, capacity 2, all faults, fairness | RobotsTypeOK, OneActiveJob, OneCommandUnderway, AppliedOnce, StatusIsTruth, FinalStatus, AcceptedJobFinishes | holds, about 228,000 states |
| Operation | 1 robot, known or not, socket or not, channels of 1 or 2, up to 2 faults, fairness | OperationTypeOK, FramesAccounted, DeliveredAsRead, ExitsOnlyAfterController, HeartbeatGoesOn, TelemetryGoesOn | holds, about 89,000 states |
| ArtifactStore | 3 versions, 2 channels, 2 publishers, 2 seconds back and forth | ArtifactTypeOK, PublishedOnce, AnsweredIsListed, LatestNotOutdated, LatestNeverOlder | holds, about 254,000 states |
| Paging | pages of 2; 5 devices, or 4 jobs in 3 seconds | DeviceScanExact, JobScanMissesOnlyTies | holds, about 278,000 states |
| FleetServerRenew | RenewCert against UpdateDeviceStatus | RenewedWhileActive | violated |
| FleetLostResponse | one stop of the agent or broken connection, fairness, an operator who registers | ProvisionedRobotEnrolls | violated |
| OtaUndelivered | no fault, fairness | WatchedJobFinishes | violated |
| FleetCommitLost | COMMIT failures and crashes | AdmittedOnce | violated |
| TelemetrySilent | one fault, fairness | TelemetryResumes | violated |

What the passing runs show:

* *FleetServer.* However three calls, resets, failures and restarts interleave, the
  database ends up with one device per serial and the robot was told what the
  database says. The claim alone is not what guarantees it: `register_serial` may
  reset the claim of an enrollment that is still in flight, and then two
  enrollments race to `create_device`; `UNIQUE(serial)` decides (AdmittedOnce).
  Without a reset the claim itself excludes (ClaimExcludes). All of it happens as the
  three abstract actions of Admission.
* *FleetTransactions.* Even with a transaction left open, whoever goes on to sign has
  its claim on disk, because BEGIN IMMEDIATE refuses the others; tokens still buy one
  certificate. Admissions are another matter, see FleetCommitLost; but those made while
  no transaction is open stay on disk and are made once per serial
  (SavedAdmittedOnce).
* *Fleet.* Wherever the agent was stopped, the key and certificate files belong
  together, because a key file is only overwritten while the certificate file is
  absent. A robot cannot get online except with the certificate recorded at its
  admission, and under the id assigned then, unless a stop left `device-id` empty. And
  without an operator it does get online under its id, whatever failed before, unless
  the fault hit one of the windows that `Stranded` names: the token is used up and
  there is no usable device certificate; the claim is taken and its enrollment has
  ended without a device row (nothing in the program calls `register_serial`, which
  would reset it); the device row exists and the operational credentials or the id do
  not.
* *OtaUpdates.* `update_status` overwrites whatever it finds and nothing checks who
  acknowledges, yet a final status never changes: a device has one active job, only
  the channel carries commands, and nothing sends one twice. The price is in
  OtaUndelivered.
* *Operation.* Back-pressure from the ack channel through the frame channel to the
  socket loses no frame and blocks nothing for good; the offsets of `parse_frame` fit
  `_encode_frame` for a robot with more joints than the agent knows. All failures
  reach the tasks as errors, so only a controller that closes its connection ends the
  agent.
* *ArtifactStore.* UNIQUE(model, version) settles races and repeated requests: no two
  publishers are told "ok" for one version. Rows
  are inserted out of order, and still GetLatest never answers with an older row than
  before. It answers with an outdated version only if both are of one second, or if the
  wall clock was set back between the two; setting it back at any other time, even
  between a request and its insert, does no harm.
* *Paging.* Keys that never change make ListDevices exact for every device that is
  there all the time; created_at makes ListUpdateJobs lose the rest of a second.

What the violations show (the source lines and the sentences they contradict are in
`findings`):

* RenewCert checks the status and signs in two steps; a device that is suspended in
  between still gets its certificate.
* When the BootstrapEnroll response is lost, or the agent stops while it is stored, the
  device row already exists, so `register_serial` does not reset the claim and the
  robot can never enroll.
* DispatchUpdate to a robot that is not watching yet answers `unavailable` and
  leaves a pending job that nobody delivers and that blocks all later ones.
* A COMMIT that fails is not rolled back. While an enrollment is in flight its claim is
  reset and the COMMIT of a second call's claim is refused; the first enrollment is
  completed inside the open transaction and its robot told so. The restart forgets the
  row and the second claim, and the serial is admitted again.
* After one error of its stream the agent listens again and waits for a controller
  that never reconnects: telemetry stays silent although everything runs.

Disagreements between documents and code that need no run of their own:

* `is_enrolled` is "True once Phase 2 bootstrap enrollment has completed"
  (`robot-agent/src/enrollment.rs:21`), but the file it looks for is created first and
  filled before the other two; and `load_device_id` "Returns the server-assigned UUID"
  (line 47), but an empty file gives an empty id. Fleet has both states, and
  OnlineIsAdmitted and EveryRobotOnline name the second as the exception.
* GetLatest "returns the latest stable version for a model"
  (`proto/artifacts.proto:20`), but `created_at` has whole seconds and no second key
  (`artifact-store/src/registry/mod.rs:147`), so of two versions of one second either
  is the latest; and it is read from the wall clock (line 90), so a version published
  after the clock was set back comes behind older ones until the clock has caught up.
  LatestNotOutdated names both exceptions.
* ListUpdateJobs "returns the update history" (`proto/fleet.proto:159`), but see Paging.
* `object_key` is the "S3 object key after upload" (`proto/artifacts.proto:44`), but
  nothing looks for the object.
* `robot_controller.py:37` speaks of an agent "listening on TCP_LISTEN_ADDR" and
  `scene.py:5` of one that "listens on $SOCKET_PATH"; the agent has no TCP listener, and
  without a file at the path it produces sine waves for as long as the stream lasts.
* A successful job is stored as `completed` (`ota-service/src/store/mod.rs:21`), while
  `proto/fleet.proto:208` calls it `success`.

### Bounds

Three calls are the smallest number at which two enrollments race while a third call
acts; the operations of one serial touch no row of another, and the theorems hold for
any number. Two ids suffice because at most one row per serial is inserted, and the
second one is there for a wrong version that inserts two, and in FleetTransactions for
an admission after a restart has forgotten one (two ids, one status). The keys of a robot are
interchangeable; a robot takes a new key per attempt at most, and with six keys the
agent never finds them used up (`GenerateKey` is never blocked).

`MaxRobotFaults` = 3 and `MaxServerFaults` = 2 of Fleet let a robot fail in every phase
and the server twice in between; `MaxFaults` = 2 of Operation lets a stream break while
the first failure is still being dealt with. FleetServer, FleetTransactions and
OtaUpdates do not bound the number of faults.

In OtaUpdates three jobs overflow a channel of two if anything could. In Operation the
capacities are 1 or 2 instead of 16 and 32, so all queues are full at once, and
`FrameNos` exceeds what they hold, so no two frames in flight have the same number.
In ArtifactStore two publishers and three versions suffice for a row that is stamped
early and inserted late beside one that is answered, before and after the clock is set
back. In Paging a page of two and four
jobs give ties within a page, at its end and on the next one; five devices give three
pages.

Runs without a deadlock check: Operation and TelemetrySilent (a robot whose agent has
ended is at rest), OtaUndelivered and Paging (ids are used up).

### Fairness

* `FleetFairSpec`: the agents run and are started again, the server is started again,
  calls proceed (a handler waits for nothing but the mutex, and every holder releases
  it within the operation). Operators, faults and the crash of the server are not fair:
  nothing schedules `register_serial`.
* `FleetRegisteringSpec`, of FleetLostResponse only: operators do register robots again
  and again. It makes the violation stronger: not even that helps.
* `FairSpec` of OtaUpdates: robots run and reconnect (`run` loops for ever), accepted
  dispatches proceed, abandoned streams are noticed in the end, the server comes
  back. Dispatching and faults are not fair.
* `OperationFairSpec`: Tokio runs every task that can go on, the simulation steps while
  the controller runs, the server is started again. Nothing is assumed of faults,
  Ctrl-C, or controllers being started or closed.

## 4. Proofs

Every invariant and every action property that a passing run checks is also a theorem,
for every value of the constants that satisfies the assumptions: any number of serials,
keys, calls, robots, operators, jobs, publishers and rows, any channel capacity, number
of joints and page size, any set of faults. TLC checked each inductive invariant
below on a small instance before it was proved.

| Module | Theorem | Statement |
|---|---|---|
| FleetServerProofs | TypeCorrect | `Spec => []TypeOK` |
| | OneDevice | `Spec => []OneDevicePerSerial` |
| | AdmissionsRecorded | `Spec => []AdmissionRecorded` |
| | AdmittedAtMostOnce | `Spec => []AdmittedOnce` |
| FleetPhasesProofs | RecordsArePermanent | `Spec => RecordsPermanent` |
| | ProvisionedAtMostOnce | `Spec => []ProvisionedOnce` |
| | PhasesAreOrdered | `Spec => []PhasesInOrder` |
| | ClaimsExclude | `Spec => []ClaimExcludes` |
| | ServiceImplementsAdmission | `Spec => ImplementsAdmission` |
| FleetTransactionsProofs | TxTypeCorrect | `TxSpec => []TypeOK` |
| | ClaimsAreDurable | `TxSpec => []ClaimsDurable` |
| | ProvisionedOnceInSpiteOfCommits | `TxSpec => []ProvisionedOnce` |
| | InternalMeansFault | `TxSpec => []InternalOnlyOnFault` |
| | SavedAdmissionsAreUnique | `TxSpec => []SavedAdmittedOnce` |
| FleetProofs | FleetTypeCorrect | `FleetSpec => []FleetTypeOK` |
| | CertsMatchKeys | `FleetSpec => []CertMatchesKey` |
| | OnlineRobotsAreAdmitted | `FleetSpec => []OnlineIsAdmitted` |
| | DisksFollowTheServer | `FleetSpec => []DiskFollowsServer` |
| | FleetImplementsServer | `FleetSpec => Spec` |
| | OnlineRobotsAreRegistered | `FleetSpec => []OnlineIsRegistered` |
| OtaUpdatesProofs | OtaTypeCorrect | `Spec => []RobotsTypeOK` |
| | OneJobPerDevice | `Spec => []OneActiveJob` |
| | CommandsAreSingle | `Spec => []OneCommandUnderway` |
| | UpdatesAppliedOnce | `Spec => []AppliedOnce` |
| | StatusesAreTrue | `Spec => []StatusIsTruth` |
| | StatusIsFinal | `Spec => FinalStatus` |
| OperationProofs | DecodesWhatWasEncoded | `parse_frame(Payload(encode_frame(t, P, Q))) = Reading(t, P, Q)` |
| | OperationTypeCorrect | `OperationSpec => []OperationTypeOK` |
| | OnlyControllersEndAgents | `OperationSpec => []ExitsOnlyAfterController` |
| | FramesAreAccounted | `OperationSpec => []FramesAccounted` |
| | DeliveredIsRead | `OperationSpec => []DeliveredAsRead` |
| ArtifactStoreProofs | ArtifactTypeCorrect | `ArtifactSpec => []ArtifactTypeOK` |
| | VersionsPublishedOnce | `ArtifactSpec => []PublishedOnce` |
| | AnsweredAreListed | `ArtifactSpec => []AnsweredIsListed` |
| | LatestIsCurrent | `ArtifactSpec => []LatestNotOutdated` |
| | LatestOnlyAdvances | `ArtifactSpec => LatestNeverOlder` |
| PagingProofs | DeviceScansAreExact | `PagingSpec => []DeviceScanExact` |
| | JobScansMissOnlyTies | `PagingSpec => []JobScanMissesOnlyTies` |

### Assumptions

* `Nil` is none of the values it stands beside (NilAssumption, CodesAssumption,
  OtaNilAssumption, ArtifactAssumption, PagingAssumption), and `Torn`, `Chain` and
  `NoFrame` are values of their own (FileContentsAssumption, FramesAssumption).
* `"active"` is a status; faults are of the kinds the modules name and bounds are
  numbers; a manifest maps serials to tokens or `Nil`, and every robot has a token.
* Channel capacities are natural numbers (those of the heartbeat and of the OTA
  dispatcher positive), and the numbers of frames do not wrap within what the socket and the channel hold
  (FrameNosAssumption). The code's 64-bit time stamp does not wrap at all.
* A frame of the robot fits the agent's limit (PayloadAssumption). The limit is
  1,000,000 bytes (`telemetry.rs:76`) and a frame of eight joints has 140;
  OnlyControllersEndAgents rests on it, because a longer frame ends the reader as a
  closed connection does.
* There are finitely many ids in Paging: they are UUIDs.

### The arguments

An invariant is seldom inductive as it stands. What each one needs:

* *FleetServerProofs.* `TypeInv` adds to TypeOK that a handler past its first step
  holds its arguments (`ArgsOK`). `AdmissionInv` adds to AdmittedOnce that every
  admission is still in the devices table and the table has one row per serial. The
  lemma `AdmissionSteps` splits the steps into those that leave devices and admissions
  alone (`NoAdmission`) and the one insert (`Admits`), which finds no row with its
  serial, so no admission with that serial exists.
* *FleetPhasesProofs.* `ProvisionInv`: the entry of a serial that has a certificate, or
  whose handler is about to sign, is used up, and that handler is the only one and
  comes before any certificate. `PhaseInv` adds that a handler past its claim has a
  certificate of ProvisionDevice. ClaimsExclude follows the claim of one serial from
  `lookup_and_claim` to `create_device`; it is inductive with the types alone, once only
  `register_serial` is known to give a claim back (`ClaimsKept`). For the refinement every step is shown to leave the abstract ledger
  alone or to manufacture, provision or admit one serial; `AdmissionSteps` and
  `ProvisioningSteps` supply the cases.
* *FleetTransactionsProofs.* `DurableInv`: while no transaction is open the disk has what
  the tables have, and a call past its claim has its claim on disk. A COMMIT that
  fails answers its own call at once, and after it no BEGIN succeeds, so no new claim
  comes to rest on the open transaction; `CrashInTx` undoes rows but no claim that a
  live or finished call rests on. `TxProvisionInv` is ProvisionInv on top of that. What
  cannot be carried over is AdmittedOnce, and FleetCommitLost shows why: an admission
  needs no transaction of its own. `SavedInv` keeps what is left: an admission outside
  an open transaction finds no row with its serial in tables that are what is on disk,
  and what is on disk no crash takes back.
* *FleetProofs.* `FleetInv` relates, for each point of the agent's program, the six files
  and the key in memory to what the service has granted (`RobotInv`), and says that the
  call a robot waits for carries the robot's own key (`Link`). The second fact is the
  one that calls left behind by an earlier attempt could break. `TornByFault` says that
  only a fault leaves `device-id` empty. FleetImplementsServer
  shows that robots are clients FleetServer allows, so the theorems about the service
  hold in the fleet; OnlineRobotsAreRegistered combines both halves: the certificate an
  online robot uses is the one in the only device row with its serial.
* *OtaUpdatesProofs.* `OtaInv`: a command is queued in the robot's stream, held by the
  robot, or not yet sent by the call that created the job, and in one of these places
  only; in the first two it belongs to the active job, and it has been applied as far as
  the robot got. AppliedOnce and FinalStatus follow because a job that leaves this chain
  is finished or is never sent.
* *OperationProofs.* The codec first: `Words` is the payload word by word, `PayloadLayout`
  says where each value is, and the offsets of `parse_frame` are shown to hit it, for
  any number of joints. `StreamInv` then numbers every frame on the socket and in the
  channel from what the service has counted (`StreamCount`), and says who may hold a
  connection (`StreamFlow`): a run without a source exists only after a controller
  closed. `RefusalLeft` says that a heartbeat handler returns from a live stream only after
  it has queued a refusal, so the agent always reads an error first. Together they are
  why no other failure ends the agent.
* *ArtifactStoreProofs.* `ArtifactInv`: the rows are of different versions, no stamp
  taken since the clock was last set back is ahead of it, and a request came after the
  answers it follows and has a stamp at least as late. That GetLatest answers at all rests on `ListingExists`: every
  finite set of rows can be put in the order the query asks for.
* *PagingProofs.* `PagingInv`: what ListDevices has returned is at most the cursor, and
  every due device up to the cursor has been returned; for ListUpdateJobs, what has been
  returned is at least as late as the cursor, and a due job that is as late was returned
  or shares its second with the end of a page. `InOrderFacts` proves that the ids sorted
  by rank are the answer to ORDER BY, `PageOfAnswer` what LIMIT cuts off.

Facts by induction over data (the layout of a frame, the order of an answer, the
existence of a listing) are proved by taking the least counterexample (`LeastNumber`),
because the library's induction theorems have an operator as a parameter, which the
provers here cannot instantiate. `RowsAfter` of Paging gives the sorted ids by their
rank, because the prover knows nothing about `SortSeq`.

### Only model-checked

Liveness (EveryRobotOnline, AcceptedJobFinishes, HeartbeatGoesOn,
TelemetryGoesOn): the prover has no rules for fairness or ENABLED. AdmittedAtMostOnce is
a theorem of FleetServer, where a COMMIT succeeds or has no effect; FleetCommitLost shows
that this is needed. The violations are TLC's.

## 5. Plan

Done: device store with its transactions, enrollment, start-up, OTA, heartbeat,
telemetry, artifact store and pages, with their runs, and a theorem for every safety
property of the passing runs.

Left:

1. the safety half of the liveness runs: in Fleet, that a robot which is not
   `Stranded` can always be served (an invariant that the fairness argument uses);
2. files that are not synced: which loss of power the agent survives;
3. shorter proofs where lemmas of two modules have become the same.

### Not modelled

TLS configuration and PEM parsing (library calls without state), the `/proc` readings
of the heartbeat, GenerateUploadUrl and the S3 client (they format a key and sign it, no
state of the service depends on it), GetArtifact and the other reads of one row by its
key, the health tick, the directive socket (nothing in the repository listens on it),
the simulator's physics, generated code, logging, the demo.
