----------------------------- MODULE OtaUpdates ------------------------------
(***************************************************************************)
(* OTA updates end to end: operators dispatch, the OTA service stores and  *)
(* broadcasts, the OTA task of every robot agent (robot-agent/src/ota.rs)  *)
(* watches, applies and acknowledges.                                      *)
(*                                                                         *)
(* The task reconnects after every error of its stream or of AckUpdate;    *)
(* the command it was handling is forgotten then.  It never polls with     *)
(* CheckUpdate.  Its loop has a second way out, Ok when the service ends   *)
(* the stream, which no stream takes: one ends when its channel's sender   *)
(* is dropped, and the dispatcher keeps every sender (OtaTypeOK: the       *)
(* device of an open stream is in senders).                                *)
(***************************************************************************)
EXTENDS OtaService

VARIABLES
    robots,     \* device |-> its OTA task
    applied,    \* history: job |-> outcomes of apply_update
    faulted     \* history: a command or its acknowledgement may have been lost

robotVars == <<robots, applied, faulted>>
otaFleetVars == <<otaVars, robotVars>>

\* Reconnecting: run sleeps for its backoff and calls run_stream again.
Reconnecting == [pc |-> "connect", stream |-> Nil, job |-> Nil, success |-> FALSE]

RobotsTypeOK ==
    /\ OtaTypeOK
    /\ robots \in [Devices -> [pc : {"connect", "watch", "apply", "ack"},
                               stream : Streams \cup {Nil}, job : JobIds \cup {Nil},
                               success : BOOLEAN]]
    /\ applied \in [JobIds -> SUBSET BOOLEAN]
    /\ faulted \in BOOLEAN

\* The stream has no robot at its other end.
Abandoned(t) == \A d \in Devices : robots[d].stream # t

-----------------------------------------------------------------------------
(* run_stream                                                              *)

Watch(d, t) ==
    /\ robots[d].pc = "connect"
    /\ watch_updates(t, d)
    /\ robots' = [robots EXCEPT ![d].pc = "watch", ![d].stream = t]
    /\ UNCHANGED <<applied, faulted>>

ReceiveCommand(d) ==
    LET t == robots[d].stream
    IN  /\ robots[d].pc = "watch"
        /\ t # Nil
        /\ SendCommand(t)
        /\ robots' = [robots EXCEPT ![d].pc = "apply", ![d].job = Head(streams[t].queue)]
        /\ UNCHANGED <<applied, faulted>>

\* apply_update: download, checksum, extraction and install script may each fail.
apply_update(d) ==
    /\ robots[d].pc = "apply"
    /\ \E success \in BOOLEAN :
          /\ robots' = [robots EXCEPT ![d].pc = "ack", ![d].success = success]
          /\ applied' = [applied EXCEPT ![robots[d].job] = @ \cup {success}]
    /\ UNCHANGED <<otaVars, faulted>>

\* AckUpdate succeeds and the task watches again, or fails and it reconnects.
Ack(d) ==
    /\ robots[d].pc = "ack"
    /\ \E res \in OtaResults :
          /\ ack_update(robots[d].job, robots[d].success, res)
          /\ robots' = [robots EXCEPT ![d] =
                IF res = "Ok"
                  THEN [Reconnecting EXCEPT !.pc = "watch", !.stream = robots[d].stream]
                  ELSE Reconnecting]
          /\ faulted' = (faulted \/ res # "Ok")
    /\ UNCHANGED applied

\* The task meets an error: its stream broke, or the server cannot be reached.
StreamFails(d) ==
    /\ \/ robots[d].pc = "watch" /\ robots[d].stream = Nil
       \/ robots[d].pc = "ack" /\ ~ otaUp
    /\ robots' = [robots EXCEPT ![d] = Reconnecting]
    /\ UNCHANGED <<otaVars, applied, faulted>>

RobotStep(d) ==
    \/ \E t \in Streams : Watch(d, t)
    \/ ReceiveCommand(d)
    \/ apply_update(d)
    \/ Ack(d)
    \/ StreamFails(d)

-----------------------------------------------------------------------------
(* Faults                                                                  *)

\* The connection breaks; the task notices when it next reads the stream, the
\* server does not know yet.
ConnectionBreaks(d) ==
    /\ "net" \in OtaFaults
    /\ robots[d].stream # Nil
    /\ faulted' = TRUE
    /\ robots' = [robots EXCEPT ![d].stream = Nil]
    /\ UNCHANGED <<otaVars, applied>>

\* The request or the response of AckUpdate is lost.
AckLost(d) ==
    /\ "net" \in OtaFaults
    /\ robots[d].pc = "ack"
    /\ UNCHANGED otaVars \/ ack_update(robots[d].job, robots[d].success, "Ok")
    /\ faulted' = TRUE
    /\ robots' = [robots EXCEPT ![d] = Reconnecting]
    /\ UNCHANGED applied

RobotRestarts(d) ==
    /\ "stop" \in OtaFaults
    /\ robots[d].pc # "connect"
    /\ faulted' = TRUE
    /\ robots' = [robots EXCEPT ![d] = Reconnecting]
    /\ UNCHANGED <<otaVars, applied>>

-----------------------------------------------------------------------------
(* The service                                                             *)

\* hyper polls an abandoned stream until it notices: a command goes nowhere.
AbandonedStep(t) ==
    /\ streams[t] # Nil
    /\ Abandoned(t)
    /\ SendCommand(t) \/ DropStream(t)
    /\ UNCHANGED robotVars

Dispatches(o) == (\E d \in Devices : dispatch_update(o, d)) /\ UNCHANGED robotVars

DispatchStep(o) == (dispatch(o) \/ DispatchReturns(o)) /\ UNCHANGED robotVars

ServerCrash ==
    /\ OtaCrash
    /\ robots' = [d \in Devices |-> [robots[d] EXCEPT !.stream = Nil]]
    /\ faulted' = TRUE
    /\ UNCHANGED applied

ServerStart == OtaStart /\ UNCHANGED robotVars

Init ==
    /\ OtaInit
    /\ robots = [d \in Devices |-> Reconnecting]
    /\ applied = [j \in JobIds |-> {}]
    /\ faulted = FALSE

Next ==
    \/ \E d \in Devices : RobotStep(d) \/ ConnectionBreaks(d) \/ AckLost(d)
                            \/ RobotRestarts(d)
    \/ \E t \in Streams : AbandonedStep(t)
    \/ \E o \in Operators : Dispatches(o) \/ DispatchStep(o)
    \/ ServerCrash
    \/ ServerStart

Spec == Init /\ [][Next]_otaFleetVars

\* Robots run and reconnect, handlers run to their end, the server comes back.
FairSpec ==
    /\ Spec
    /\ \A d \in Devices : WF_otaFleetVars(RobotStep(d))
    /\ \A t \in Streams : WF_otaFleetVars(AbandonedStep(t))
    /\ \A o \in Operators : WF_otaFleetVars(DispatchStep(o))
    /\ WF_otaFleetVars(ServerStart)

-----------------------------------------------------------------------------
(* Properties                                                              *)

\* A device has one active job at most, however many operators dispatch at once
\* and whatever becomes of their calls (create_job), so CheckUpdate has no choice.
OneActiveJob ==
    \A d \in Devices : \A j, k \in get_pending_for_device(d) : j = k

\* A command for a job is in one place only on its way to the robot: waiting in the
\* stream the robot reads, or in the hands of the robot, and it belongs to that
\* robot's active job.  So the channel never overflows for a robot that is
\* connected, and the Lagged error that watch_updates discards costs it nothing.
OneCommandUnderway ==
    \A d \in Devices :
        LET t == robots[d].stream
            waiting == IF t = Nil THEN <<>> ELSE streams[t].queue
        IN  /\ Len(waiting) <= 1
            /\ waiting # <<>> =>
                 /\ IsActive(waiting[1])
                 /\ jobs[waiting[1]].device = d
                 /\ robots[d].pc = "watch"
            /\ robots[d].pc \in {"apply", "ack"} =>
                 /\ IsActive(robots[d].job)
                 /\ jobs[robots[d].job].device = d

\* A job's final status is final: no late, lost or repeated AckUpdate changes it,
\* though update_status overwrites whatever it finds.
FinalStatusStep ==
    \A j \in JobIds : IsFinished(j) => jobs'[j] = jobs[j]
FinalStatus == [][FinalStatusStep]_otaFleetVars

\* No robot applies an update twice, across broken connections, lost
\* acknowledgements and restarts of either side.
AppliedOnce ==
    \A d \in Devices : robots[d].pc = "apply" => applied[robots[d].job] = {}

\* The history tells the truth: a job is "completed" only if its robot applied the
\* update and succeeded, "failed" only if it tried and failed (ack_update).
StatusIsTruth ==
    \A j \in JobIds : IsFinished(j) =>
        applied[j] = {jobs[j].status = "completed"}

\* A DispatchUpdate that returned Ok leads to a finished job, unless a connection or
\* a process fails or an acknowledgement is refused: no interleaving of operators,
\* streams and the broadcast loses a command by itself.
AcceptedJobFinishes ==
    \A j \in JobIds : (j \in accepted) ~> (IsFinished(j) \/ faulted)

\* proto/fleet.proto: WatchUpdates "delivers update commands in real time": a job of
\* a robot that watches, and goes on watching, is delivered and finished.
WatchedJobFinishes ==
    \A j \in JobIds : IsActive(j) ~> IsFinished(j)

=============================================================================
