--------------------------- MODULE HeartbeatStream ---------------------------
(***************************************************************************)
(* The heartbeat of one robot: the agent's task                            *)
(* (robot-agent/src/heartbeat.rs) and the handler the service runs for its *)
(* stream (device-management-service/src/heartbeat/mod.rs).                *)
(*                                                                         *)
(* A robot sends one device id, so a request carries nothing that matters. *)
(* A request queue stands for the sender's channel and the connection.     *)
(* How long a task sleeps before it reconnects is not modelled, that it    *)
(* wakes up is fairness.                                                   *)
(***************************************************************************)
EXTENDS Naturals, Sequences

CONSTANTS
    HB_REQUESTS,    \* capacity of the request channel, 16 in the code
    HB_RESPONSES    \* capacity of the response channel, 32 in the code

ASSUME HeartbeatAssumption == {HB_REQUESTS, HB_RESPONSES} \subseteq Nat \ {0}

VARIABLES
    known,      \* devices has a row for the id the agent has loaded
    lastSeen,   \* last_seen_at of that row, modulo 2
    hb,         \* the agent's task: "connect", "stream", "sleep"
    requests,   \* heartbeats on their way
    handler,    \* the server's task: "none", "next", or the reply it is about to send
    responses   \* replies on their way: "ok", "not_found"

heartbeatVars == <<known, lastSeen, hb, requests, handler, responses>>

HeartbeatTypeOK ==
    /\ known \in BOOLEAN
    /\ lastSeen \in 0 .. 1
    /\ hb \in {"connect", "stream", "sleep"}
    /\ requests \in 0 .. HB_REQUESTS
    /\ handler \in {"none", "next", "ok", "not_found"}
    /\ responses \in Seq({"ok", "not_found"})
    /\ Len(responses) <= HB_RESPONSES

HeartbeatInit ==
    /\ known \in BOOLEAN
    /\ lastSeen = 0
    /\ hb = "connect"
    /\ requests = 0
    /\ handler = "none"
    /\ responses = <<>>

-----------------------------------------------------------------------------
(* The agent                                                               *)

\* StreamHeartbeat is accepted: the server spawns a handler.
stream_heartbeat ==
    /\ hb = "connect"
    /\ hb' = "stream"
    /\ handler' = "next"
    /\ UNCHANGED <<known, lastSeen, requests, responses>>

\* Mutant: an error ends the task.
heartbeat_error_returns ==
    /\ hb' = "returned"
    /\ handler' = "none"
    /\ requests' = 0
    /\ responses' = <<>>
    /\ UNCHANGED <<known, lastSeen>>

\* run_stream returns an error: the stream is gone with all that is queued, and run
\* sleeps for its backoff.  Requests the server has read by then are handled.
heartbeat_error ==
    /\ hb' = "sleep"
    /\ handler' = "none"
    /\ requests' = 0
    /\ responses' = <<>>
    /\ UNCHANGED <<known, lastSeen>>

heartbeat_wake ==
    /\ hb = "sleep"
    /\ hb' = "connect"
    /\ UNCHANGED <<known, lastSeen, requests, handler, responses>>

\* Mutant: an unbounded channel.
send_heartbeat_unbounded ==
    /\ hb = "stream"
    /\ requests' = requests + 1
    /\ UNCHANGED <<known, lastSeen, hb, handler, responses>>

\* The sender task waits while the channel is full.
send_heartbeat ==
    /\ hb = "stream"
    /\ requests < HB_REQUESTS
    /\ requests' = requests + 1
    /\ UNCHANGED <<known, lastSeen, hb, handler, responses>>

\* The service never sends a directive, so "ok" asks nothing of the agent.
receive_response ==
    /\ hb = "stream"
    /\ responses # <<>>
    /\ \/ /\ Head(responses) = "ok"
          /\ responses' = Tail(responses)
          /\ UNCHANGED <<known, lastSeen, hb, requests, handler>>
       \/ /\ Head(responses) = "not_found"
          /\ heartbeat_error

\* The handler has returned and its replies are read: message() is None, and run
\* returns Ok.
heartbeat_ends == hb = "stream" /\ handler = "none" /\ responses = <<>>

-----------------------------------------------------------------------------
(* The service                                                             *)

touch_last_seen(res) ==
    \/ known /\ res = "Ok" /\ lastSeen' = 1 - lastSeen
    \/ ~ known /\ res = "NotFound" /\ UNCHANGED lastSeen
    \/ res = "Db" /\ UNCHANGED lastSeen

\* A failure of the store other than NotFound is logged, and the robot answered.
handle_touch(res) ==
    /\ handler = "next"
    /\ requests > 0
    /\ requests' = requests - 1
    /\ touch_last_seen(res)
    /\ handler' = IF res = "NotFound" THEN "not_found" ELSE "ok"
    /\ UNCHANGED <<known, hb, responses>>

\* Waits while the response channel is full; after not_found the handler returns.
handle_reply ==
    /\ handler \in {"ok", "not_found"}
    /\ Len(responses) < HB_RESPONSES
    /\ responses' = Append(responses, handler)
    /\ handler' = IF handler = "ok" THEN "next" ELSE "none"
    /\ UNCHANGED <<known, lastSeen, hb, requests>>

=============================================================================
