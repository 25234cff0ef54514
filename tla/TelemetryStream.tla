--------------------------- MODULE TelemetryStream ---------------------------
(***************************************************************************)
(* The telemetry of one robot: the simulator's controller                  *)
(* (simulator/controller/robot_controller.py), the agent's task            *)
(* (robot-agent/src/telemetry.rs) and the service's handler                *)
(* (device-management-service/src/telemetry.rs).                           *)
(*                                                                         *)
(* If the socket's path exists the agent removes it, listens on it, waits  *)
(* for one controller and passes its frames on; otherwise it produces sine *)
(* waves itself.  After an error the agent starts again, and the old       *)
(* connection is left to its reader task, which ends when it next gets a   *)
(* frame.  The controller connects once and ignores every error of a send. *)
(*                                                                         *)
(* Frames are counted modulo FrameNos and carry their number as the time   *)
(* stamp.  A controller starts only when the previous one's connection is  *)
(* gone.                                                                   *)
(***************************************************************************)
EXTENDS TelemetryFrames

CONSTANTS
    FrameNos,       \* frame numbers are 0 .. FrameNos - 1
    SOCKET_BUFFER,  \* frames the socket holds
    FRAME_CHANNEL,  \* capacity of the agent's frame channel, 32 in the code
    ACK_CHANNEL     \* capacity of the service's ack channel, 32 in the code

ASSUME ChannelsAssumption == {SOCKET_BUFFER, FRAME_CHANNEL, ACK_CHANNEL} \subseteq Nat

\* Every frame in flight has a number of its own.
ASSUME FrameNosAssumption == FrameNos \in Nat /\ FrameNos > SOCKET_BUFFER + FRAME_CHANNEL

VARIABLES
    path,           \* the socket's path exists
    controller,     \* the controller is running
    conn,           \* its connection: "none", "backlog", "open", "orphan" (held by the
                    \* reader of a run that is over), "dead" (held by nobody)
    produced,       \* frames produced since the connection, or the sine wave, began
    socket,         \* frames in the socket
    tel,            \* the agent's task
    source,         \* who feeds the frame channel: "none", "socket", "sine"
    frames,         \* the frame channel and the connection to the service
    acks,           \* acks on their way
    frames_received,\* frames the handler has counted
    delivered,      \* the last frame the handler has got
    closed          \* history: a controller has closed its connection

controllerVars == <<controller, conn, socket, closed>>
agentSideVars == <<path, tel, source>>
serverSideVars == <<acks, frames_received, delivered>>
telemetryVars == <<controllerVars, produced, agentSideVars, frames, serverSideVars>>

TelPcs == {"start", "bind", "accept", "call", "stream", "sleep", "returned"}

TelemetryTypeOK ==
    /\ {path, controller, closed} \subseteq BOOLEAN
    /\ conn \in {"none", "backlog", "open", "orphan", "dead"}
    /\ {produced, frames_received} \subseteq 0 .. FrameNos - 1
    /\ Len(socket) <= SOCKET_BUFFER
    /\ tel \in TelPcs
    /\ source \in {"none", "socket", "sine"}
    /\ Len(frames) <= FRAME_CHANNEL
    /\ acks \in 0 .. ACK_CHANNEL

TelemetryInit ==
    /\ path \in BOOLEAN
    /\ controller = FALSE /\ conn = "none" /\ socket = <<>> /\ closed = FALSE
    /\ produced = 0
    /\ tel = "start" /\ source = "none" /\ frames = <<>>
    /\ acks = 0 /\ frames_received = 0 /\ delivered = NoFrame

Next1(n) == (n + 1) % FrameNos

\* What the simulator reads at its n-th step: one joint more than the agent knows.
JointCount == Len(JOINT_NAMES) + 1
Position(n, i) == 10 * i + n
Torque(n, i) == 10 * (JointCount + i) + n

\* A frame of the robot is within the limit of the reader task: 1 000 000 bytes in the
\* code, for some 140 bytes.
ASSUME PayloadAssumption == MAX_PAYLOAD \in Nat /\ 12 + 16 * JointCount <= MAX_PAYLOAD

-----------------------------------------------------------------------------
(* The controller                                                          *)

\* initialize: only a listening agent can be connected to.
initialize ==
    /\ ~ controller /\ conn = "none"
    /\ tel = "accept"
    /\ controller' = TRUE /\ conn' = "backlog"
    /\ produced' = 0
    /\ UNCHANGED <<socket, closed, agentSideVars, frames, serverSideVars>>

\* on_physics_step: sendall waits while the socket is full.  The reader of a run that
\* is over takes one more frame and closes the connection, later sends fail.
on_physics_step ==
    /\ controller
    /\ \/ /\ conn \in {"backlog", "open"}
          /\ Len(socket) < SOCKET_BUFFER
          /\ socket' = Append(socket, encode_frame(produced,
                                        [i \in 1 .. JointCount |-> Position(produced, i)],
                                        [i \in 1 .. JointCount |-> Torque(produced, i)]))
          /\ produced' = Next1(produced)
          /\ UNCHANGED conn
       \/ /\ conn = "orphan"
          /\ conn' = "dead"
          /\ UNCHANGED <<socket, produced>>
    /\ UNCHANGED <<controller, closed, agentSideVars, frames, serverSideVars>>

\* shutdown, or the end of the process: what was sent can still be read.
shutdown ==
    /\ controller
    /\ controller' = FALSE
    /\ closed' = TRUE
    /\ conn' = IF conn \in {"backlog", "open"} THEN conn ELSE "none"
    /\ UNCHANGED <<socket, produced, agentSideVars, frames, serverSideVars>>

-----------------------------------------------------------------------------
(* The agent                                                               *)

\* run: choose the source of the frames.
choose_source ==
    /\ tel = "start"
    /\ \/ path /\ tel' = "bind" /\ path' = FALSE /\ UNCHANGED <<source, produced, frames_received>>
       \/ /\ ~ path
          /\ tel' = "call" /\ source' = "sine"
          /\ produced' = 0 /\ frames_received' = 0
          /\ UNCHANGED path
    /\ UNCHANGED <<controllerVars, frames, acks, delivered>>

bind ==
    /\ tel = "bind"
    /\ tel' = "accept" /\ path' = TRUE
    /\ UNCHANGED <<controllerVars, produced, source, frames, serverSideVars>>

\* One controller is accepted, and a reader task spawned for it.
accept ==
    /\ tel = "accept"
    /\ conn = "backlog"
    /\ conn' = "open"
    /\ tel' = "call" /\ source' = "socket"
    /\ frames_received' = 0
    /\ UNCHANGED <<controller, socket, closed, produced, path, frames, acks, delivered>>

\* The service accepts StreamTelemetry and spawns a handler.
stream_telemetry ==
    /\ tel = "call"
    /\ tel' = "stream"
    /\ UNCHANGED <<controllerVars, produced, path, source, frames, serverSideVars>>

\* Mutant: a frame that finds the channel full is dropped.
read_frame_try_send ==
    /\ source = "socket" /\ socket # <<>>
    /\ socket' = Tail(socket)
    /\ frames' = IF Len(frames) < FRAME_CHANNEL
                   THEN Append(frames, parse_frame(Payload(Head(socket)))) ELSE frames
    /\ UNCHANGED <<controller, conn, closed, produced, agentSideVars, serverSideVars>>

\* The reader task: a frame that cannot be parsed is skipped; it waits while the
\* channel is full.
read_frame ==
    LET frame == parse_frame(Payload(Head(socket)))
    IN  /\ source = "socket" /\ socket # <<>>
        /\ LengthAccepted(Head(socket))
        /\ Len(frames) < FRAME_CHANNEL
        /\ socket' = Tail(socket)
        /\ frames' = IF frame = NoFrame THEN frames ELSE Append(frames, frame)
        /\ UNCHANGED <<controller, conn, closed, produced, agentSideVars, serverSideVars>>

\* End of the socket, or a length that is not accepted: the reader task ends and
\* with it the request stream.
read_ends ==
    /\ source = "socket"
    /\ conn = "open"
    /\ IF socket = <<>> THEN ~ controller ELSE ~ LengthAccepted(Head(socket))
    /\ source' = "none"
    /\ conn' = IF controller THEN "dead" ELSE "none"
    /\ UNCHANGED <<controller, socket, closed, produced, path, tel, frames, serverSideVars>>

\* The sender task of run_sine_wave.
SineFrame(n) ==
    [recorded_at |-> [seconds |-> n \div NS_PER_SEC, nanos |-> n % NS_PER_SEC],
     joints |-> [i \in DOMAIN JOINT_NAMES |->
                   [name |-> JOINT_NAMES[i], position_rad |-> n + i, torque_nm |-> n]]]

send_sine ==
    /\ source = "sine"
    /\ Len(frames) < FRAME_CHANNEL
    /\ frames' = Append(frames, SineFrame(produced))
    /\ produced' = Next1(produced)
    /\ UNCHANGED <<controllerVars, agentSideVars, serverSideVars>>

\* Mutant: nobody reads the acks.
receive_ack_unread == tel = "stream" /\ acks > 0 /\ UNCHANGED telemetryVars

\* throttle is always false.
receive_ack ==
    /\ tel = "stream"
    /\ acks > 0
    /\ acks' = acks - 1
    /\ UNCHANGED <<controllerVars, produced, agentSideVars, frames, frames_received, delivered>>

\* The request stream has ended, so the handler ends and the response stream with
\* it: run returns Ok.
telemetry_ends ==
    /\ tel = "stream"
    /\ source = "none" /\ frames = <<>> /\ acks = 0
    /\ tel' = "returned"
    /\ UNCHANGED <<controllerVars, produced, path, source, frames, serverSideVars>>

\* Mutant: an error of the stream is not told from its end.
telemetry_error_returns ==
    /\ tel' = "returned"
    /\ UNCHANGED <<controllerVars, produced, path, source, frames, serverSideVars>>

\* run_from_socket or run_sine_wave returns an error: the listener, the channel and
\* the stream are dropped, and run sleeps for its backoff.  A reader with a frame at
\* hand notices and closes the connection, one that waits for a frame keeps it.
telemetry_error ==
    /\ tel' = "sleep" /\ source' = "none"
    /\ frames' = <<>> /\ socket' = <<>> /\ acks' = 0
    /\ conn' = IF ~ controller THEN "none"
               ELSE IF conn = "open" THEN (IF socket = <<>> THEN "orphan" ELSE "dead")
               ELSE conn
    /\ UNCHANGED <<controller, closed, produced, path, frames_received, delivered>>

telemetry_wake ==
    /\ tel = "sleep"
    /\ tel' = "start"
    /\ UNCHANGED <<controllerVars, produced, path, source, frames, serverSideVars>>

-----------------------------------------------------------------------------
(* The service                                                             *)

\* The handler counts a frame and acknowledges it; it waits while the ack channel is
\* full.
handle_frame ==
    /\ tel = "stream"
    /\ frames # <<>>
    /\ acks < ACK_CHANNEL
    /\ frames' = Tail(frames)
    /\ frames_received' = Next1(frames_received)
    /\ delivered' = Head(frames)
    /\ acks' = acks + 1
    /\ UNCHANGED <<controllerVars, produced, agentSideVars>>

=============================================================================
