----------------------------- MODULE OtaService ------------------------------
(***************************************************************************)
(* The OTA service (ota-service/src): the job store, the dispatcher with   *)
(* one broadcast channel per device, and the handlers of DispatchUpdate,   *)
(* WatchUpdates and AckUpdate.                                             *)
(*                                                                         *)
(* The job store is on disk, the channels are in memory.  DispatchUpdate   *)
(* is two steps, create_job and dispatch, and the process may stop in      *)
(* between.  A stream is one WatchUpdates response with the receiver       *)
(* behind it; the receiver lives until the server notices that the client  *)
(* is gone.                                                                *)
(***************************************************************************)
EXTENDS Naturals, Sequences

CONSTANTS
    Devices,            \* device ids
    JobIds,             \* job ids (UUIDs) the store may draw
    Streams,            \* WatchUpdates streams open together
    Operators,          \* DispatchUpdate calls in flight together
    CHANNEL_CAPACITY,   \* commands a broadcast channel holds for a slow receiver
    OtaFaults,          \* faults of the environment, a subset of OtaFaultKinds
    Nil

\* db: a store operation fails;  crash: the server stops;
\* net: a connection of a robot breaks;  stop: a robot's agent stops.
OtaFaultKinds == {"db", "crash", "net", "stop"}

ASSUME CapacityAssumption == CHANNEL_CAPACITY \in Nat \ {0}
ASSUME OtaFaultsAssumption == OtaFaults \subseteq OtaFaultKinds

JobStatus == {"pending", "in_progress", "completed", "failed"}
Active == {"pending", "in_progress"}
JobRow == [device : Devices, status : JobStatus]
StreamRow == [device : Devices, queue : Seq(JobIds)]

ASSUME OtaNilAssumption ==
    Nil \notin JobRow \cup StreamRow \cup Devices \cup JobIds \cup Streams

VARIABLES
    otaUp,          \* the process is running
    jobs,           \* update_jobs: id |-> row
    senders,        \* devices that have a channel in the dispatcher's map
    streams,        \* open streams: the device and the commands not yet sent
    dispatching,    \* DispatchUpdate calls in flight
    accepted        \* history: jobs whose DispatchUpdate returned Ok

otaVars == <<otaUp, jobs, senders, streams, dispatching, accepted>>

NoCall == [pc |-> "idle", device |-> Nil, job |-> Nil, code |-> Nil]
OtaCodes == {"ok", "already_exists", "unavailable", "not_found", "internal"}

OtaTypeOK ==
    /\ otaUp \in BOOLEAN
    /\ jobs \in [JobIds -> JobRow \cup {Nil}]
    /\ senders \subseteq Devices
    /\ \A t \in Streams : streams[t] # Nil =>
          /\ streams[t].device \in senders
          /\ streams[t].queue \in Seq(JobIds)
          /\ Len(streams[t].queue) <= CHANNEL_CAPACITY
    /\ dispatching \in [Operators ->
          [pc : {"idle", "created", "replied"}, device : Devices \cup {Nil},
           job : JobIds \cup {Nil}, code : OtaCodes \cup {Nil}]]
    /\ accepted \subseteq JobIds

OtaInit ==
    /\ otaUp = TRUE
    /\ jobs = [j \in JobIds |-> Nil]
    /\ senders = {}
    /\ streams = [t \in Streams |-> Nil]
    /\ dispatching = [o \in Operators |-> NoCall]
    /\ accepted = {}

to_status(e) ==
    CASE e = "NotFound"            -> "not_found"
      [] e = "AlreadyPending"      -> "already_exists"
      [] e = "NoActiveSubscribers" -> "unavailable"
      [] OTHER                     -> "internal"

OtaResults == {"Ok", "NotFound", "AlreadyPending", "Db"}

-----------------------------------------------------------------------------
(* Store                                                                   *)

IsActive(j) == jobs[j] # Nil /\ jobs[j].status \in Active
IsFinished(j) == jobs[j] # Nil /\ jobs[j].status \notin Active

\* CheckUpdate answers with the oldest of these; robots never call it.
get_pending_for_device(d) == {j \in JobIds : IsActive(j) /\ jobs[j].device = d}

\* INSERT under a fresh id, for a device without an active job.
InsertJob(d, j) ==
    /\ ~ \E k \in JobIds : IsActive(k) /\ jobs[k].device = d
    /\ jobs[j] = Nil
    /\ jobs' = [jobs EXCEPT ![j] = [device |-> d, status |-> "pending"]]

\* Mutant: the count overlooks pending jobs.
create_job_in_progress_only(d, j, res) ==
    \/ /\ \E k \in JobIds : jobs[k] # Nil /\ jobs[k].status = "in_progress" /\ jobs[k].device = d
       /\ res = "AlreadyPending"
       /\ UNCHANGED jobs
    \/ /\ ~ \E k \in JobIds : jobs[k] # Nil /\ jobs[k].status = "in_progress" /\ jobs[k].device = d
       /\ jobs[j] = Nil
       /\ res = "Ok"
       /\ jobs' = [jobs EXCEPT ![j] = [device |-> d, status |-> "pending"]]

\* The count of active jobs, the insert and the read of the new row are under one
\* lock, not in a transaction; whatever keeps the row from being read is NotFound.
create_job(d, j, res) ==
    \/ /\ \E k \in JobIds : IsActive(k) /\ jobs[k].device = d
       /\ res = "AlreadyPending"
       /\ UNCHANGED jobs
    \/ /\ res = "Ok"
       /\ InsertJob(d, j)
    \/ /\ "db" \in OtaFaults
       /\ \/ res = "Db" /\ UNCHANGED jobs
          \/ res = "NotFound" /\ InsertJob(d, j)

\* Overwrites whatever status the job has.
update_status(j, status, res) ==
    \/ /\ jobs[j] = Nil
       /\ res = "NotFound"
       /\ UNCHANGED jobs
    \/ /\ jobs[j] # Nil
       /\ res = "Ok"
       /\ jobs' = [jobs EXCEPT ![j].status = status]
    \/ /\ "db" \in OtaFaults
       /\ res = "Db"
       /\ UNCHANGED jobs

-----------------------------------------------------------------------------
(* Dispatcher                                                              *)

Receivers(d) == {t \in Streams : streams[t] # Nil /\ streams[t].device = d}

\* Mutant: a new stream starts with the device's active job.
subscribe_replay(t, d) ==
    /\ streams[t] = Nil
    /\ senders' = senders \cup {d}
    /\ \/ /\ \E j \in JobIds :
                /\ IsActive(j) /\ jobs[j].device = d
                /\ streams' = [streams EXCEPT ![t] = [device |-> d, queue |-> <<j>>]]
       \/ /\ ~ \E j \in JobIds : IsActive(j) /\ jobs[j].device = d
          /\ streams' = [streams EXCEPT ![t] = [device |-> d, queue |-> <<>>]]

\* Opens stream t on the device's channel, which is created if absent.
subscribe(t, d) ==
    /\ streams[t] = Nil
    /\ senders' = senders \cup {d}
    /\ streams' = [streams EXCEPT ![t] = [device |-> d, queue |-> <<>>]]

\* Mutant: an unbounded channel.
EnqueueUnbounded(queue, j) == Append(queue, j)

\* A receiver that is CHANNEL_CAPACITY behind loses its oldest command; the
\* stream skips the Lagged error.
Enqueue(queue, j) ==
    IF Len(queue) < CHANNEL_CAPACITY THEN Append(queue, j) ELSE Append(Tail(queue), j)

\* The device has a channel with a receiver.
Subscribed(d) == d \in senders /\ Receivers(d) # {}

Broadcast(d, j) ==
    streams' = [t \in Streams |->
                  IF t \in Receivers(d)
                    THEN [streams[t] EXCEPT !.queue = Enqueue(@, j)]
                    ELSE streams[t]]

-----------------------------------------------------------------------------
(* Handlers                                                                *)

\* DispatchUpdate, first step: create the job.
dispatch_update(o, d) ==
    /\ otaUp
    /\ dispatching[o] = NoCall
    /\ \E res \in OtaResults, j \in JobIds :
          /\ create_job(d, j, res)
          /\ dispatching' = [dispatching EXCEPT ![o] =
                IF res = "Ok"
                  THEN [pc |-> "created", device |-> d, job |-> j, code |-> Nil]
                  ELSE [pc |-> "replied", device |-> d, job |-> Nil, code |-> to_status(res)]]
    /\ UNCHANGED <<otaUp, senders, streams, accepted>>

\* Mutant: the number of receivers is not looked at.
dispatch_unchecked(o) ==
    LET d == dispatching[o].device
        j == dispatching[o].job
    IN  /\ dispatching[o].pc = "created"
        /\ Broadcast(d, j)
        /\ dispatching' = [dispatching EXCEPT ![o].pc = "replied", ![o].code = "ok"]
        /\ accepted' = accepted \cup {j}
        /\ UNCHANGED <<otaUp, jobs, senders>>

\* DispatchUpdate, second step: send the command.  Without a receiver the call
\* fails and the job stays.
dispatch(o) ==
    LET d == dispatching[o].device
        j == dispatching[o].job
    IN  /\ dispatching[o].pc = "created"
        /\ \/ /\ ~ Subscribed(d)
              /\ dispatching' = [dispatching EXCEPT ![o].pc = "replied",
                                   ![o].code = to_status("NoActiveSubscribers")]
              /\ UNCHANGED <<streams, accepted>>
           \/ /\ Subscribed(d)
              /\ Broadcast(d, j)
              /\ dispatching' = [dispatching EXCEPT ![o].pc = "replied", ![o].code = "ok"]
              /\ accepted' = accepted \cup {j}
        /\ UNCHANGED <<otaUp, jobs, senders>>

\* The operator has the response.
DispatchReturns(o) ==
    /\ dispatching[o].pc = "replied"
    /\ dispatching' = [dispatching EXCEPT ![o] = NoCall]
    /\ UNCHANGED <<otaUp, jobs, senders, streams, accepted>>

watch_updates(t, d) ==
    /\ otaUp
    /\ subscribe(t, d)
    /\ UNCHANGED <<otaUp, jobs, dispatching, accepted>>

\* The next command of a stream goes out.
SendCommand(t) ==
    /\ streams[t].queue # <<>>
    /\ streams' = [streams EXCEPT ![t].queue = Tail(@)]
    /\ UNCHANGED <<otaUp, jobs, senders, dispatching, accepted>>

\* Mutant: every acknowledged job is completed.
ack_update_completed(j, success, res) ==
    /\ otaUp
    /\ update_status(j, "completed", res)
    /\ UNCHANGED <<otaUp, senders, streams, dispatching, accepted>>

ack_update(j, success, res) ==
    /\ otaUp
    /\ update_status(j, IF success THEN "completed" ELSE "failed", res)
    /\ UNCHANGED <<otaUp, senders, streams, dispatching, accepted>>

\* The server drops the receiver of a client that is gone.  The device's sender
\* stays in the map.
DropStream(t) ==
    /\ streams[t] # Nil
    /\ streams' = [streams EXCEPT ![t] = Nil]
    /\ UNCHANGED <<otaUp, jobs, senders, dispatching, accepted>>

OtaCrash ==
    /\ "crash" \in OtaFaults
    /\ otaUp
    /\ otaUp' = FALSE
    /\ senders' = {}
    /\ streams' = [t \in Streams |-> Nil]
    /\ dispatching' = [o \in Operators |-> NoCall]
    /\ UNCHANGED <<jobs, accepted>>

OtaStart ==
    /\ ~ otaUp
    /\ otaUp' = TRUE
    /\ UNCHANGED <<jobs, senders, streams, dispatching, accepted>>

=============================================================================
