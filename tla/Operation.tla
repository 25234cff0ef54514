------------------------------ MODULE Operation ------------------------------
(***************************************************************************)
(* A robot agent in normal operation (robot-agent/src/main.rs, Phase 3):   *)
(* the heartbeat and the telemetry task share one connection to the        *)
(* service, and select! ends the agent as soon as one task returns.  The   *)
(* third task is OtaUpdates; it uses a channel of its own.                 *)
(***************************************************************************)
EXTENDS HeartbeatStream, TelemetryStream

CONSTANT MaxFaults      \* bound on the number of faults

ASSUME MaxFaultsAssumption == MaxFaults \in Nat

VARIABLES
    fleetUp,    \* the device-management service is running
    agent,      \* "running", "stopped" by Ctrl-C, "exited" because a task returned
    faults      \* number of faults so far

operationVars == <<heartbeatVars, telemetryVars, fleetUp, agent, faults>>
processVars == <<fleetUp, agent, faults>>

OperationTypeOK ==
    /\ HeartbeatTypeOK
    /\ TelemetryTypeOK
    /\ fleetUp \in BOOLEAN
    /\ agent \in {"running", "stopped", "exited"}
    /\ faults \in 0 .. MaxFaults

OperationInit ==
    /\ HeartbeatInit
    /\ TelemetryInit
    /\ fleetUp = TRUE
    /\ agent = "running"
    /\ faults = 0

Running == agent = "running"

Fault == faults < MaxFaults /\ faults' = faults + 1

-----------------------------------------------------------------------------
(* The tasks of the agent and the handlers of the service                  *)

HeartbeatTask ==
    /\ Running
    /\ \/ fleetUp /\ stream_heartbeat
       \/ ~ fleetUp /\ hb = "connect" /\ heartbeat_error
       \/ heartbeat_wake
       \/ receive_response
    /\ UNCHANGED <<telemetryVars, processVars>>

HeartbeatSender == Running /\ send_heartbeat /\ UNCHANGED <<telemetryVars, processVars>>

HeartbeatHandler ==
    /\ handle_touch("Ok") \/ handle_touch("NotFound") \/ handle_reply
    /\ UNCHANGED <<telemetryVars, processVars>>

TelemetryTask ==
    /\ Running
    /\ \/ choose_source \/ bind \/ accept \/ receive_ack \/ telemetry_ends \/ telemetry_wake
       \/ fleetUp /\ stream_telemetry
       \/ ~ fleetUp /\ tel = "call" /\ telemetry_error
    /\ UNCHANGED <<heartbeatVars, processVars>>

\* The reader task or the sine wave.
FrameTask ==
    /\ Running
    /\ read_frame \/ read_ends \/ send_sine
    /\ UNCHANGED <<heartbeatVars, processVars>>

FrameHandler == handle_frame /\ UNCHANGED <<heartbeatVars, processVars>>

\* The simulation steps on for as long as the controller runs.
ControllerStep == on_physics_step /\ UNCHANGED <<heartbeatVars, processVars>>

ControllerStarts == Running /\ initialize /\ UNCHANGED <<heartbeatVars, processVars>>
ControllerCloses == shutdown /\ UNCHANGED <<heartbeatVars, processVars>>

-----------------------------------------------------------------------------
(* The processes                                                           *)

\* Every stream on the connection fails.
StreamsFail ==
    /\ IF hb = "stream" THEN heartbeat_error ELSE UNCHANGED heartbeatVars
    /\ IF tel = "stream" THEN telemetry_error ELSE UNCHANGED telemetryVars

ConnectionBreaks ==
    /\ Running /\ fleetUp
    /\ "stream" \in {hb, tel}
    /\ Fault
    /\ StreamsFail
    /\ UNCHANGED <<fleetUp, agent>>

ServerCrash ==
    /\ fleetUp
    /\ Fault
    /\ fleetUp' = FALSE
    /\ StreamsFail
    /\ UNCHANGED agent

ServerStart ==
    /\ ~ fleetUp
    /\ fleetUp' = TRUE
    /\ UNCHANGED <<heartbeatVars, telemetryVars, agent, faults>>

TouchFails ==
    /\ Fault
    /\ handle_touch("Db")
    /\ UNCHANGED <<telemetryVars, fleetUp, agent>>

\* UnixListener::bind fails after remove_file.
BindFails ==
    /\ Running /\ tel = "bind"
    /\ Fault
    /\ telemetry_error
    /\ UNCHANGED <<heartbeatVars, fleetUp, agent>>

\* All tasks are dropped with the process.
ProcessEnds(how) ==
    /\ Running
    /\ agent' = how
    /\ hb' = "connect" /\ requests' = 0 /\ handler' = "none" /\ responses' = <<>>
    /\ tel' = "start" /\ source' = "none" /\ frames' = <<>> /\ socket' = <<>> /\ acks' = 0
    /\ conn' = IF controller THEN "dead" ELSE "none"
    /\ UNCHANGED <<known, lastSeen, path, controller, closed, produced, frames_received,
                   delivered, fleetUp, faults>>

\* select!: a task has returned.
AgentExits == (tel = "returned" \/ heartbeat_ends) /\ ProcessEnds("exited")

CtrlC == ProcessEnds("stopped")

OperationNext ==
    \/ HeartbeatTask \/ HeartbeatSender \/ HeartbeatHandler
    \/ TelemetryTask \/ FrameTask \/ FrameHandler
    \/ ControllerStarts \/ ControllerStep \/ ControllerCloses
    \/ ConnectionBreaks \/ ServerCrash \/ ServerStart \/ TouchFails \/ BindFails
    \/ AgentExits \/ CtrlC

OperationSpec == OperationInit /\ [][OperationNext]_operationVars

\* Tokio runs every task that can go on, the server is started again, and the
\* simulation steps.  Nothing is assumed of faults, of Ctrl-C, or of controllers
\* being started or closed.
OperationFairSpec ==
    /\ OperationSpec
    /\ WF_operationVars(HeartbeatTask)
    /\ WF_operationVars(HeartbeatSender)
    /\ WF_operationVars(HeartbeatHandler)
    /\ WF_operationVars(TelemetryTask)
    /\ WF_operationVars(FrameTask)
    /\ WF_operationVars(FrameHandler)
    /\ WF_operationVars(ControllerStep)
    /\ WF_operationVars(ServerStart)
    /\ WF_operationVars(AgentExits)

-----------------------------------------------------------------------------
(* Properties                                                              *)

\* While a stream is up, no frame is lost, repeated or overtaken between the
\* simulator and the service, however full the socket and the channels are: what
\* was produced is what the service has counted, then the frame channel, then the
\* socket (reader task, handler).
FramesAccounted ==
    source # "none" =>
        /\ produced = (frames_received + Len(frames) + Len(socket)) % FrameNos
        /\ \A i \in 1 .. Len(frames) :
              LET at == frames[i].recorded_at
              IN  at.seconds * NS_PER_SEC + at.nanos = (frames_received + i - 1) % FrameNos

\* What the service gets is what the simulator read: every joint with its own
\* position and torque, and the time of the reading (_encode_frame, parse_frame).
DeliveredAsRead ==
    delivered # NoFrame =>
        LET n == delivered.recorded_at.seconds * NS_PER_SEC + delivered.recorded_at.nanos
        IN  \/ delivered = SineFrame(n)
            \/ /\ Len(delivered.joints) = JointCount
               /\ \A i \in 1 .. JointCount :
                     /\ delivered.joints[i].position_rad = Position(n, i)
                     /\ delivered.joints[i].torque_nm = Torque(n, i)
                     /\ delivered.joints[i].name =
                          IF i = JointCount THEN "unknown" ELSE JOINT_NAMES[i]

\* No failure of the service, of its database or of the network ends the agent: it
\* exits only when a controller has closed its connection (the Ok results of
\* heartbeat::run and telemetry::run, select! in main).
ExitsOnlyAfterController == agent = "exited" => closed

\* A robot the service knows is seen again and again while its agent runs, whatever
\* errors came before; one it does not know keeps being refused and keeps trying
\* (heartbeat::run, HeartbeatHandler::handle).
HeartbeatGoesOn ==
    \/ <>[](~ Running)
    \/ known /\ []<><<lastSeen' # lastSeen>>_operationVars
    \/ ~ known /\ []<>(hb = "sleep")

\* Telemetry stops only for want of a controller: while the agent runs, frames
\* arrive again and again, or the agent waits in accept and no connection is there
\* to be accepted (telemetry::run).
TelemetryGoesOn ==
    \/ <>[](~ Running)
    \/ []<><<frames_received' # frames_received>>_operationVars
    \/ <>[](tel = "accept" /\ conn # "backlog")

\* robot-agent/src/telemetry.rs: run is "the telemetry loop with exponential backoff
\* reconnect": while agent and controller both run on, frames arrive again and again.
TelemetryResumes ==
    <>[](Running /\ controller) =>
        []<><<frames_received' # frames_received>>_operationVars

=============================================================================
