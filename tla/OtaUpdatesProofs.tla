-------------------------- MODULE OtaUpdatesProofs ---------------------------
(***************************************************************************)
(* Proofs about OtaUpdates, for every number of devices, jobs, streams and *)
(* operators, every channel capacity and every set of faults.              *)
(***************************************************************************)
EXTENDS OtaUpdates, TLAPS

-----------------------------------------------------------------------------
(* The inductive invariant                                                 *)

\* A robot holds a command that it has not acknowledged.
Holds(d, j) == robots[d].pc \in {"apply", "ack"} /\ robots[d].job = j

\* The commands waiting in the stream that robot d reads.
Waiting(d) == IF robots[d].stream = Nil THEN <<>> ELSE streams[robots[d].stream].queue

StreamsTypeOK == streams \in [Streams -> StreamRow \cup {Nil}]

\* The stream a robot reads is open on the server, for that robot; a task that has
\* not called WatchUpdates has none.
OwnStream(d) ==
    /\ robots[d].stream # Nil =>
          /\ streams[robots[d].stream] # Nil
          /\ streams[robots[d].stream].device = d
    /\ robots[d].pc = "connect" => robots[d].stream = Nil

\* A DispatchUpdate call between its two steps has created a job that is active, and
\* whose command nobody has seen: it is in no stream a robot reads, no robot holds it
\* or has applied it, and no other call is about to send it.
Unsent(o) ==
    LET j == dispatching[o].job
    IN  /\ j \in JobIds
        /\ IsActive(j)
        /\ jobs[j].device = dispatching[o].device
        /\ applied[j] = {}
        /\ \A d \in Devices : ~ Holds(d, j) /\ (Waiting(d) # <<>> => Waiting(d)[1] # j)
        /\ \A p \in Operators :
              dispatching[p].pc = "created" /\ dispatching[p].job = j => p = o

\* A robot's commands: at most one, waiting or held, for its active job, applied as
\* far as the robot got.
OwnCommands(d) ==
    /\ Len(Waiting(d)) <= 1
    /\ Waiting(d) # <<>> =>
          /\ Waiting(d)[1] \in JobIds
          /\ IsActive(Waiting(d)[1])
          /\ jobs[Waiting(d)[1]].device = d
          /\ applied[Waiting(d)[1]] = {}
          /\ robots[d].pc = "watch"
    /\ robots[d].pc \in {"apply", "ack"} =>
          /\ robots[d].job \in JobIds
          /\ IsActive(robots[d].job)
          /\ jobs[robots[d].job].device = d
    /\ robots[d].pc = "apply" => applied[robots[d].job] = {}
    /\ robots[d].pc = "ack" => applied[robots[d].job] = {robots[d].success}

OtaInv ==
    /\ RobotsTypeOK
    /\ StreamsTypeOK
    /\ OneActiveJob
    /\ StatusIsTruth
    /\ \A j \in JobIds : jobs[j] = Nil => applied[j] = {}
    /\ \A d \in Devices : OwnStream(d) /\ OwnCommands(d)
    /\ \A o \in Operators : dispatching[o].pc = "created" => Unsent(o)

-----------------------------------------------------------------------------
(* Sequences and rows                                                      *)

\* Taking the first command off a queue.
LEMMA QueueFacts ==
    ASSUME NEW q \in Seq(JobIds)
    PROVE  /\ Len(q) \in Nat
           /\ Len(q) = 0 => q = <<>>
           /\ q # <<>> => /\ Len(q) > 0
                          /\ q[1] \in JobIds
                          /\ Head(q) = q[1]
                          /\ Tail(q) \in Seq(JobIds)
                          /\ Len(Tail(q)) = Len(q) - 1
  OBVIOUS

\* A channel stays within its capacity, and an empty one gets the command.
LEMMA EnqueueFacts ==
    ASSUME NEW q \in Seq(JobIds), Len(q) <= CHANNEL_CAPACITY, NEW j \in JobIds
    PROVE  /\ Enqueue(q, j) \in Seq(JobIds)
           /\ Len(Enqueue(q, j)) <= CHANNEL_CAPACITY
           /\ q = <<>> => Enqueue(q, j) = <<j>>
  <1>0. CHANNEL_CAPACITY \in Nat /\ CHANNEL_CAPACITY > 0
    BY CapacityAssumption
  <1>1. CASE Len(q) < CHANNEL_CAPACITY
    <2>1. Append(q, j) \in Seq(JobIds) /\ Len(Append(q, j)) = Len(q) + 1
      OBVIOUS
    <2>2. Len(q) + 1 <= CHANNEL_CAPACITY
      BY <1>0, <1>1
    <2>3. q = <<>> => Append(q, j) = <<j>>
      OBVIOUS
    <2> QED
      BY <1>1, <2>1, <2>2, <2>3 DEF Enqueue
  <1>2. CASE ~ (Len(q) < CHANNEL_CAPACITY)
    <2>1. q # <<>> /\ Len(q) = CHANNEL_CAPACITY
      BY <1>0, <1>2
    <2>2. Tail(q) \in Seq(JobIds) /\ Len(Tail(q)) = Len(q) - 1
      BY <2>1, QueueFacts
    <2> QED
      BY <1>0, <1>2, <2>1, <2>2 DEF Enqueue
  <1> QED
    BY <1>1, <1>2

\* A robot's task, field by field.
Task == [pc : {"connect", "watch", "apply", "ack"}, stream : Streams \cup {Nil},
         job : JobIds \cup {Nil}, success : BOOLEAN]

\* The task that reconnects, or has lost its stream, is a task.
LEMMA TaskFacts ==
    /\ Reconnecting \in Task
    /\ [Reconnecting EXCEPT !.pc = "watch"] \in Task
    /\ \A task \in Task, t \in Streams \cup {Nil} : [task EXCEPT !.stream = t] \in Task
  BY DEF Reconnecting, Task

\* What the types say, in the form the steps use.
LEMMA Types ==
    ASSUME OtaInv
    PROVE  /\ robots \in [Devices -> Task]
           /\ jobs \in [JobIds -> JobRow \cup {Nil}]
           /\ streams \in [Streams -> StreamRow \cup {Nil}]
           /\ applied \in [JobIds -> SUBSET BOOLEAN]
           /\ senders \subseteq Devices
           /\ accepted \subseteq JobIds
           /\ dispatching \in [Operators ->
                [pc : {"idle", "created", "replied"}, device : Devices \cup {Nil},
                 job : JobIds \cup {Nil}, code : OtaCodes \cup {Nil}]]
           /\ \A t \in Streams : streams[t] # Nil =>
                 /\ streams[t] \in StreamRow
                 /\ streams[t].device \in senders
                 /\ streams[t].queue \in Seq(JobIds)
                 /\ Len(streams[t].queue) <= CHANNEL_CAPACITY
           /\ \A d \in Devices : Waiting(d) \in Seq(JobIds)
  <1>1. \A d \in Devices : robots[d].stream \in Streams \cup {Nil}
    BY DEF OtaInv, RobotsTypeOK
  <1>2. \A t \in Streams : streams[t] # Nil => streams[t].queue \in Seq(JobIds)
    BY DEF OtaInv, RobotsTypeOK, OtaTypeOK
  <1>3. \A d \in Devices : Waiting(d) \in Seq(JobIds)
    <2> SUFFICES ASSUME NEW d \in Devices PROVE Waiting(d) \in Seq(JobIds)
      OBVIOUS
    <2>1. CASE robots[d].stream = Nil
      BY <2>1 DEF Waiting
    <2>2. CASE robots[d].stream # Nil
      <3>1. robots[d].stream \in Streams /\ streams[robots[d].stream] # Nil
        BY <1>1, <2>2 DEF OtaInv, OwnStream
      <3> QED
        BY <1>2, <2>2, <3>1 DEF Waiting
    <2> QED
      BY <2>1, <2>2
  <1> QED
    BY <1>3 DEF OtaInv, RobotsTypeOK, OtaTypeOK, StreamsTypeOK, Task

-----------------------------------------------------------------------------
(* Steps without progress: nothing is created, delivered, applied or       *)
(* acknowledged, though commands may be lost                               *)

NoProgress ==
    /\ UNCHANGED <<jobs, applied>>
    /\ \A d \in Devices :
          \/ /\ robots'[d] = robots[d]
             /\ robots[d].stream # Nil =>
                   streams'[robots[d].stream] = streams[robots[d].stream]
          \/ robots'[d] = [robots[d] EXCEPT !.stream = Nil]
          \/ robots'[d] = Reconnecting
    /\ \A o \in Operators : dispatching'[o].pc = "created" => dispatching'[o] = dispatching[o]

TypesOK == RobotsTypeOK /\ StreamsTypeOK

\* OneActiveJob and StatusIsTruth are about two variables only.
LEMMA SameJobs ==
    ASSUME OtaInv, UNCHANGED <<jobs, applied>>
    PROVE  /\ OneActiveJob'
           /\ StatusIsTruth'
           /\ \A j \in JobIds : jobs'[j] = Nil => applied'[j] = {}
           /\ \A j \in JobIds : IsActive(j)' <=> IsActive(j)
  <1>1. \A j : (IsActive(j)' <=> IsActive(j)) /\ (IsFinished(j)' <=> IsFinished(j))
    BY DEF IsActive, IsFinished
  <1> QED
    BY <1>1 DEF OtaInv, OneActiveJob, get_pending_for_device, StatusIsTruth

\* Such a step keeps the invariant.
LEMMA NoProgressKeeps ==
    ASSUME OtaInv, NoProgress, TypesOK'
    PROVE  OtaInv'
  <1>0. robots \in [Devices -> Task] /\ UNCHANGED <<jobs, applied>>
    BY Types DEF NoProgress
  <1>1. ASSUME NEW d \in Devices
        PROVE  /\ OwnStream(d)'
               /\ Waiting(d)' = Waiting(d) \/ Waiting(d)' = <<>>
               /\ robots'[d].pc # "connect" =>
                     /\ robots'[d].pc = robots[d].pc
                     /\ robots'[d].job = robots[d].job
                     /\ robots'[d].success = robots[d].success
               /\ robots'[d].pc = "connect" => Waiting(d)' = <<>>
    <2>0. robots[d] \in Task /\ OwnStream(d)
      BY <1>0 DEF OtaInv
    <2>1. CASE /\ robots'[d] = robots[d]
               /\ robots[d].stream # Nil =>
                     streams'[robots[d].stream] = streams[robots[d].stream]
      BY <2>0, <2>1 DEF OwnStream, Waiting
    <2>2. CASE robots'[d] = [robots[d] EXCEPT !.stream = Nil]
      <3>1. /\ robots'[d].stream = Nil
            /\ robots'[d].pc = robots[d].pc
            /\ robots'[d].job = robots[d].job
            /\ robots'[d].success = robots[d].success
        BY <2>0, <2>2 DEF Task
      <3> QED
        BY <3>1 DEF OwnStream, Waiting
    <2>3. CASE robots'[d] = Reconnecting
      BY <2>0, <2>3 DEF OwnStream, Waiting, Reconnecting, Task
    <2> QED
      BY <2>1, <2>2, <2>3 DEF NoProgress
  <1>2. \A j \in JobIds : IsActive(j)' <=> IsActive(j)
    BY <1>0, SameJobs
  <1>3. ASSUME NEW d \in Devices PROVE OwnCommands(d)'
    <2>0. OwnCommands(d)
      BY DEF OtaInv
    <2>1. Len(Waiting(d)') <= 1
      BY <1>1, <2>0 DEF OwnCommands
    <2>2. Waiting(d)' # <<>> =>
             /\ Waiting(d)'[1] \in JobIds
             /\ IsActive(Waiting(d)'[1])
             /\ jobs'[Waiting(d)'[1]].device = d
             /\ applied'[Waiting(d)'[1]] = {}
             /\ robots'[d].pc = "watch"
      BY <1>0, <1>1, <2>0 DEF OwnCommands
    <2>3. robots'[d].pc \in {"apply", "ack"} =>
             /\ robots'[d].job \in JobIds
             /\ IsActive(robots[d].job)
             /\ robots'[d].job = robots[d].job
             /\ jobs'[robots'[d].job].device = d
      BY <1>0, <1>1, <2>0 DEF OwnCommands
    <2>4. /\ robots'[d].pc = "apply" => applied'[robots'[d].job] = {}
          /\ robots'[d].pc = "ack" => applied'[robots'[d].job] = {robots'[d].success}
      BY <1>0, <1>1, <2>0 DEF OwnCommands
    <2> QED
      BY <1>0, <2>1, <2>2, <2>3, <2>4 DEF OwnCommands, IsActive
  <1>4. ASSUME NEW o \in Operators, dispatching'[o].pc = "created" PROVE Unsent(o)'
    <2>1. dispatching'[o] = dispatching[o] /\ Unsent(o)
      BY <1>4 DEF NoProgress, OtaInv
    <2>2. \A d \in Devices : Holds(d, dispatching[o].job)' => Holds(d, dispatching[o].job)
      BY <1>1, <2>1 DEF Holds
    <2>3. \A d \in Devices : Waiting(d)' # <<>> => Waiting(d)'[1] # dispatching[o].job
      BY <1>1, <2>1 DEF Unsent
    <2>4. \A p \in Operators :
             dispatching'[p].pc = "created" /\ dispatching'[p].job = dispatching[o].job => p = o
      BY <2>1 DEF NoProgress, Unsent
    <2> QED
      BY <1>0, <2>1, <2>2, <2>3, <2>4 DEF Unsent, IsActive, Holds
  <1> QED
    BY <1>0, <1>1, <1>3, <1>4, SameJobs DEF OtaInv, TypesOK

-----------------------------------------------------------------------------
(* Types                                                                   *)

Calls == [pc : {"idle", "created", "replied"}, device : Devices \cup {Nil},
          job : JobIds \cup {Nil}, code : OtaCodes \cup {Nil}]

\* A step that leaves the service alone.
LEMMA RobotTypes ==
    ASSUME OtaInv, UNCHANGED otaVars, robots' \in [Devices -> Task],
           applied' \in [JobIds -> SUBSET BOOLEAN], faulted' \in BOOLEAN
    PROVE  TypesOK'
  BY DEF OtaInv, TypesOK, RobotsTypeOK, OtaTypeOK, StreamsTypeOK, otaVars, Task

\* A step that leaves the channels alone.
LEMMA StoreTypes ==
    ASSUME OtaInv, UNCHANGED <<senders, streams>>, otaUp' \in BOOLEAN,
           jobs' \in [JobIds -> JobRow \cup {Nil}], dispatching' \in [Operators -> Calls],
           accepted' \subseteq JobIds, robots' \in [Devices -> Task],
           applied' = applied, faulted' \in BOOLEAN
    PROVE  TypesOK'
  BY DEF OtaInv, TypesOK, RobotsTypeOK, OtaTypeOK, StreamsTypeOK, Task, Calls

\* A step of the channels.
LEMMA ChannelTypes ==
    ASSUME OtaInv, UNCHANGED <<otaUp, jobs, applied, faulted>>,
           senders \subseteq senders', senders' \subseteq Devices,
           streams' \in [Streams -> StreamRow \cup {Nil}],
           \A t \in Streams : streams'[t] # Nil =>
              /\ streams'[t].device \in senders'
              /\ Len(streams'[t].queue) <= CHANNEL_CAPACITY,
           dispatching' \in [Operators -> Calls], accepted' \subseteq JobIds,
           robots' \in [Devices -> Task]
    PROVE  TypesOK'
  <1>1. \A t \in Streams : streams'[t] # Nil => streams'[t].queue \in Seq(JobIds)
    BY DEF StreamRow
  <1> QED
    BY <1>1 DEF OtaInv, TypesOK, RobotsTypeOK, OtaTypeOK, StreamsTypeOK, Task, Calls

\* update_status changes the status of a row, and nothing else of it.
LEMMA UpdateFacts ==
    ASSUME OtaInv, NEW j \in JobIds, jobs[j] # Nil, NEW status \in JobStatus,
           jobs' = [jobs EXCEPT ![j].status = status]
    PROVE  /\ jobs' \in [JobIds -> JobRow \cup {Nil}]
           /\ jobs'[j] = [device |-> jobs[j].device, status |-> status]
           /\ jobs'[j] # Nil
           /\ \A k \in JobIds : k # j => jobs'[k] = jobs[k]
  <1>1. jobs \in [JobIds -> JobRow \cup {Nil}]
    BY Types
  <1>2. jobs[j] \in JobRow
    BY <1>1
  <1>3. [jobs[j] EXCEPT !.status = status] = [device |-> jobs[j].device, status |-> status]
    BY <1>2 DEF JobRow
  <1>4. [device |-> jobs[j].device, status |-> status] \in JobRow
    BY <1>2 DEF JobRow
  <1>5. jobs' = [jobs EXCEPT ![j] = [device |-> jobs[j].device, status |-> status]]
    BY <1>1, <1>3
  <1> QED
    BY <1>1, <1>4, <1>5, OtaNilAssumption

\* Taking a command from a stream shortens its queue.
LEMMA SendFacts ==
    ASSUME OtaInv, NEW t \in Streams, streams[t] # Nil, SendCommand(t)
    PROVE  /\ streams' \in [Streams -> StreamRow \cup {Nil}]
           /\ streams'[t] = [device |-> streams[t].device, queue |-> Tail(streams[t].queue)]
           /\ streams'[t] # Nil
           /\ \A u \in Streams : u # t => streams'[u] = streams[u]
           /\ \A u \in Streams : streams'[u] # Nil =>
                 /\ streams'[u].device \in senders
                 /\ Len(streams'[u].queue) <= CHANNEL_CAPACITY
  <1> DEFINE q == streams[t].queue
             row == [device |-> streams[t].device, queue |-> Tail(q)]
  <1>1. /\ streams \in [Streams -> StreamRow \cup {Nil}]
        /\ streams[t] \in StreamRow
        /\ streams[t].device \in senders
        /\ q \in Seq(JobIds)
        /\ Len(q) <= CHANNEL_CAPACITY
    BY Types
  <1>2. Tail(q) \in Seq(JobIds) /\ Len(Tail(q)) <= CHANNEL_CAPACITY
    <2>1. q # <<>>
      BY DEF SendCommand
    <2>2. CHANNEL_CAPACITY \in Nat
      BY CapacityAssumption
    <2> QED
      BY <1>1, <2>1, <2>2, QueueFacts
  <1>3. row \in StreamRow
    BY <1>1, <1>2 DEF StreamRow
  <1>4. [streams[t] EXCEPT !.queue = Tail(@)] = row
    <2>1. \A r \in StreamRow : \A x :
               [r EXCEPT !.queue = x] = [device |-> r.device, queue |-> x]
      BY DEF StreamRow
    <2> QED
      BY <1>1, <2>1
  <1>5. streams' = [streams EXCEPT ![t] = row]
    BY <1>1, <1>4 DEF SendCommand
  <1>6. streams'[t] = row /\ \A u \in Streams : u # t => streams'[u] = streams[u]
    BY <1>1, <1>5
  <1>7. row # Nil
    BY <1>3, OtaNilAssumption
  <1>8. \A u \in Streams : u # t /\ streams[u] # Nil =>
           streams[u].device \in senders /\ Len(streams[u].queue) <= CHANNEL_CAPACITY
    BY Types
  <1>9. row.device \in senders /\ Len(row.queue) <= CHANNEL_CAPACITY
    BY <1>1, <1>2
  <1>10. streams' \in [Streams -> StreamRow \cup {Nil}]
    BY <1>1, <1>3, <1>5
  <1> QED
    BY <1>6, <1>7, <1>8, <1>9, <1>10

-----------------------------------------------------------------------------
(* What a step of one robot, or of one call, leaves alone                  *)

\* A robot keeps its commands while its stream and its active job stay as they are.
LEMMA RobotKept ==
    ASSUME OtaInv, NEW e \in Devices, robots'[e] = robots[e],
           robots[e].stream # Nil => streams'[robots[e].stream] = streams[robots[e].stream],
           \A j \in JobIds : IsActive(j) /\ jobs[j].device = e =>
              jobs'[j] = jobs[j] /\ applied'[j] = applied[j]
    PROVE  OwnStream(e)' /\ OwnCommands(e)' /\ Waiting(e)' = Waiting(e)
  <1>0. OwnStream(e) /\ OwnCommands(e)
    BY DEF OtaInv
  <1>1. OwnStream(e)' /\ Waiting(e)' = Waiting(e)
    BY <1>0 DEF OwnStream, Waiting
  <1>2. Waiting(e) # <<>> =>
           /\ jobs'[Waiting(e)[1]] = jobs[Waiting(e)[1]]
           /\ applied'[Waiting(e)[1]] = applied[Waiting(e)[1]]
    BY <1>0 DEF OwnCommands
  <1>3. robots[e].pc \in {"apply", "ack"} =>
           /\ jobs'[robots[e].job] = jobs[robots[e].job]
           /\ applied'[robots[e].job] = applied[robots[e].job]
    BY <1>0 DEF OwnCommands
  <1>4. OwnCommands(e)'
    BY <1>0, <1>1, <1>2, <1>3 DEF OwnCommands, IsActive
  <1> QED
    BY <1>1, <1>4

\* A call that has created its job keeps it unsent while the job is left alone.
LEMMA UnsentKept ==
    ASSUME OtaInv, NEW o \in Operators, dispatching[o].pc = "created",
           dispatching'[o] = dispatching[o],
           jobs'[dispatching[o].job] = jobs[dispatching[o].job],
           applied'[dispatching[o].job] = applied[dispatching[o].job],
           \A d \in Devices :
              /\ ~ Holds(d, dispatching[o].job)'
              /\ Waiting(d)' # <<>> => Waiting(d)'[1] # dispatching[o].job,
           \A p \in Operators : dispatching'[p].pc = "created" =>
              dispatching'[p] = dispatching[p] \/ dispatching'[p].job # dispatching[o].job
    PROVE  Unsent(o)'
  <1>0. Unsent(o)
    BY DEF OtaInv
  <1> QED
    BY <1>0 DEF Unsent, IsActive, Holds

\* One robot moves on: it alone touches the command it holds, and what it holds next
\* it held or had waiting.
LEMMA OneRobotMoves ==
    ASSUME OtaInv, TypesOK', dispatching' = dispatching, NEW d \in Devices,
           \A e \in Devices : e # d =>
              /\ robots'[e] = robots[e]
              /\ robots[e].stream # Nil =>
                    streams'[robots[e].stream] = streams[robots[e].stream],
           OwnStream(d)', OwnCommands(d)',
           \A j \in JobIds : Holds(d, j)' =>
              Holds(d, j) \/ (Waiting(d) # <<>> /\ Waiting(d)[1] = j),
           Waiting(d)' # <<>> => Waiting(d) # <<>> /\ Waiting(d)'[1] = Waiting(d)[1],
           \A j \in JobIds : ~ Holds(d, j) => jobs'[j] = jobs[j] /\ applied'[j] = applied[j],
           OneActiveJob', StatusIsTruth',
           \A j \in JobIds : jobs'[j] = Nil => applied'[j] = {}
    PROVE  OtaInv'
  <1>1. ASSUME NEW e \in Devices, e # d
        PROVE  OwnStream(e)' /\ OwnCommands(e)' /\ Waiting(e)' = Waiting(e)
    <2>1. \A j \in JobIds : IsActive(j) /\ jobs[j].device = e => ~ Holds(d, j)
      BY <1>1 DEF OtaInv, OwnCommands, Holds
    <2> QED
      BY <1>1, <2>1, RobotKept
  <1>2. ASSUME NEW o \in Operators, dispatching'[o].pc = "created" PROVE Unsent(o)'
    <2> DEFINE j == dispatching[o].job
    <2>1. dispatching[o].pc = "created" /\ Unsent(o)
      BY <1>2 DEF OtaInv
    <2>2. /\ j \in JobIds
          /\ \A e \in Devices : ~ Holds(e, j) /\ (Waiting(e) # <<>> => Waiting(e)[1] # j)
      BY <2>1 DEF Unsent
    <2>3. jobs'[j] = jobs[j] /\ applied'[j] = applied[j]
      BY <2>2
    <2>4. ASSUME NEW e \in Devices
          PROVE  ~ Holds(e, dispatching[o].job)' /\ (Waiting(e)' # <<>> => Waiting(e)'[1] # j)
      <3>1. CASE e = d
        BY <2>2, <3>1
      <3>2. CASE e # d
        BY <1>1, <2>2, <3>2 DEF Holds
      <3> QED
        BY <3>1, <3>2
    <2> QED
      BY <2>1, <2>3, <2>4, UnsentKept
  <1> QED
    BY <1>1, <1>2 DEF OtaInv, TypesOK

-----------------------------------------------------------------------------
(* The steps of a robot                                                    *)

\* WatchUpdates opens an empty stream.
LEMMA WatchKeeps ==
    ASSUME OtaInv, NEW d \in Devices, NEW t \in Streams, Watch(d, t)
    PROVE  OtaInv'
  <1> DEFINE row == [device |-> d, queue |-> <<>>]
             task == [robots[d] EXCEPT !.pc = "watch", !.stream = t]
  <1>0. /\ robots \in [Devices -> Task]
        /\ streams \in [Streams -> StreamRow \cup {Nil}]
        /\ senders \subseteq Devices
        /\ dispatching \in [Operators -> Calls]
        /\ accepted \subseteq JobIds
    BY Types DEF Calls
  <1>1. /\ streams[t] = Nil
        /\ streams' = [streams EXCEPT ![t] = row]
        /\ senders' = senders \cup {d}
        /\ robots' = [robots EXCEPT ![d] = task]
        /\ UNCHANGED <<otaUp, jobs, applied, faulted, dispatching, accepted>>
    BY <1>0 DEF Watch, watch_updates, subscribe
  <1>2. row \in StreamRow /\ row # Nil
    <2>1. <<>> \in Seq(JobIds)
      OBVIOUS
    <2>2. row \in StreamRow
      BY <2>1 DEF StreamRow
    <2> QED
      BY <2>2, OtaNilAssumption
  <1>3. task \in Task /\ task.pc = "watch" /\ task.stream = t
    BY <1>0 DEF Task
  <1>4. robots' \in [Devices -> Task] /\ robots'[d] = task /\ streams'[t] = row
    BY <1>0, <1>1, <1>3
  <1>5. TypesOK'
    <2>1. streams' \in [Streams -> StreamRow \cup {Nil}]
      BY <1>0, <1>1, <1>2
    <2>2. ASSUME NEW u \in Streams, streams'[u] # Nil
          PROVE  streams'[u].device \in senders' /\ Len(streams'[u].queue) <= CHANNEL_CAPACITY
      <3>1. CASE u = t
        BY <1>1, <1>4, <3>1, CapacityAssumption
      <3>2. CASE u # t
        BY <1>0, <1>1, <2>2, <3>2, Types
      <3> QED
        BY <3>1, <3>2
    <2> QED
      BY <1>0, <1>1, <1>4, <2>1, <2>2, ChannelTypes
  <1>6. \A e \in Devices : e # d =>
           /\ robots'[e] = robots[e]
           /\ robots[e].stream # Nil => streams'[robots[e].stream] = streams[robots[e].stream]
    <2>1. \A e \in Devices : robots[e].stream # Nil =>
             robots[e].stream \in Streams /\ robots[e].stream # t
      BY <1>0, <1>1 DEF OtaInv, OwnStream, Task
    <2> QED
      BY <1>0, <1>1, <2>1
  <1>7. t # Nil
    BY OtaNilAssumption
  <1>8. OwnStream(d)' /\ Waiting(d)' = <<>>
    BY <1>2, <1>3, <1>4, <1>7 DEF OwnStream, Waiting
  <1>9. OwnCommands(d)'
    BY <1>3, <1>4, <1>8 DEF OwnCommands
  <1>10. \A j \in JobIds : ~ Holds(d, j)'
    BY <1>3, <1>4 DEF Holds
  <1>11. /\ OneActiveJob' /\ StatusIsTruth'
         /\ \A j \in JobIds : jobs'[j] = Nil => applied'[j] = {}
    BY <1>1, SameJobs
  <1> QED
    BY <1>1, <1>5, <1>6, <1>8, <1>9, <1>10, <1>11, OneRobotMoves

\* The robot takes its command from the stream.
LEMMA ReceiveKeeps ==
    ASSUME OtaInv, NEW d \in Devices, ReceiveCommand(d)
    PROVE  OtaInv'
  <1> DEFINE t == robots[d].stream
             j == Waiting(d)[1]
             task == [robots[d] EXCEPT !.pc = "apply", !.job = j]
  <1>0. /\ robots \in [Devices -> Task]
        /\ senders \subseteq Devices
        /\ dispatching \in [Operators -> Calls]
        /\ accepted \subseteq JobIds
        /\ Waiting(d) \in Seq(JobIds)
    BY Types DEF Calls
  <1>1. /\ robots[d].pc = "watch" /\ t # Nil
        /\ t \in Streams /\ streams[t] # Nil /\ streams[t].device = d
        /\ Waiting(d) = streams[t].queue
        /\ SendCommand(t)
        /\ UNCHANGED <<otaUp, jobs, senders, dispatching, accepted, applied, faulted>>
    BY <1>0 DEF ReceiveCommand, SendCommand, OtaInv, OwnStream, Waiting, Task
  <1>2. Waiting(d) # <<>> /\ Len(Waiting(d)) <= 1 /\ j \in JobIds /\ Head(Waiting(d)) = j
        /\ IsActive(j) /\ jobs[j].device = d /\ applied[j] = {}
    BY <1>0, <1>1, QueueFacts DEF SendCommand, OtaInv, OwnCommands
  <1>3. Tail(Waiting(d)) = <<>>
    BY <1>0, <1>2, QueueFacts
  <1>4. robots' = [robots EXCEPT ![d] = task]
    BY <1>0, <1>1, <1>2 DEF ReceiveCommand
  <1>5. task \in Task /\ task.pc = "apply" /\ task.stream = t /\ task.job = j
    BY <1>0, <1>2 DEF Task
  <1>6. robots' \in [Devices -> Task] /\ robots'[d] = task
    BY <1>0, <1>4, <1>5
  <1>7. TypesOK'
    BY <1>0, <1>1, <1>6, SendFacts, ChannelTypes
  <1>8. \A e \in Devices : e # d =>
           /\ robots'[e] = robots[e]
           /\ robots[e].stream # Nil => streams'[robots[e].stream] = streams[robots[e].stream]
    <2>1. \A e \in Devices : e # d /\ robots[e].stream # Nil =>
             robots[e].stream \in Streams /\ robots[e].stream # t
      BY <1>0, <1>1 DEF OtaInv, OwnStream, Task
    <2>2. \A u \in Streams : u # t => streams'[u] = streams[u]
      BY <1>1, SendFacts
    <2> QED
      BY <1>0, <1>4, <2>1, <2>2
  <1>9. streams'[t] = [device |-> d, queue |-> <<>>] /\ streams'[t] # Nil
    BY <1>1, <1>3, SendFacts
  <1>10. OwnStream(d)' /\ Waiting(d)' = <<>>
    BY <1>1, <1>5, <1>6, <1>9 DEF OwnStream, Waiting
  <1>11. OwnCommands(d)'
    BY <1>1, <1>2, <1>5, <1>6, <1>10 DEF OwnCommands, IsActive
  <1>12. \A k \in JobIds : Holds(d, k)' => k = j
    BY <1>5, <1>6 DEF Holds
  <1>13. /\ OneActiveJob' /\ StatusIsTruth'
         /\ \A k \in JobIds : jobs'[k] = Nil => applied'[k] = {}
    BY <1>1, SameJobs
  <1> QED
    BY <1>1, <1>2, <1>7, <1>8, <1>10, <1>11, <1>12, <1>13, OneRobotMoves

\* apply_update: the outcome of the job the robot holds is recorded.
LEMMA ApplyKeeps ==
    ASSUME OtaInv, NEW d \in Devices, apply_update(d)
    PROVE  OtaInv'
  <1> DEFINE j == robots[d].job
  <1>0. /\ robots \in [Devices -> Task]
        /\ applied \in [JobIds -> SUBSET BOOLEAN]
    BY Types
  <1>1. PICK success \in BOOLEAN :
           /\ robots' = [robots EXCEPT ![d].pc = "ack", ![d].success = success]
           /\ applied' = [applied EXCEPT ![j] = @ \cup {success}]
    BY DEF apply_update
  <1> DEFINE task == [robots[d] EXCEPT !.pc = "ack", !.success = success]
  <1>2. /\ robots[d].pc = "apply" /\ j \in JobIds /\ IsActive(j) /\ jobs[j].device = d
        /\ applied[j] = {} /\ Holds(d, j) /\ Waiting(d) = <<>>
        /\ UNCHANGED otaVars /\ faulted' = faulted
    BY DEF apply_update, OtaInv, OwnCommands, Holds
  <1>3. UNCHANGED <<otaUp, jobs, senders, streams, dispatching, accepted>>
    BY <1>2 DEF otaVars
  <1>4. task \in Task /\ task.pc = "ack" /\ task.stream = robots[d].stream /\ task.job = j
        /\ task.success = success
    BY <1>0 DEF Task
  <1>5. robots' = [robots EXCEPT ![d] = task]
    BY <1>0, <1>1
  <1>6. robots' \in [Devices -> Task] /\ robots'[d] = task
        /\ \A e \in Devices : e # d => robots'[e] = robots[e]
    BY <1>0, <1>4, <1>5
  <1>7. applied'[j] = {success} /\ \A k \in JobIds : k # j => applied'[k] = applied[k]
    BY <1>0, <1>1, <1>2
  <1>8. TypesOK'
    <2>1. applied' \in [JobIds -> SUBSET BOOLEAN]
      BY <1>0, <1>1
    <2>2. faulted' \in BOOLEAN
      BY <1>2 DEF OtaInv, RobotsTypeOK
    <2> QED
      BY <1>2, <1>6, <2>1, <2>2, RobotTypes
  <1>9. OwnStream(d)' /\ Waiting(d)' = Waiting(d)
    BY <1>2, <1>3, <1>4, <1>6 DEF OtaInv, OwnStream, Waiting
  <1>10. OwnCommands(d)'
    BY <1>2, <1>3, <1>4, <1>6, <1>7, <1>9 DEF OwnCommands, IsActive
  <1>11. \A k \in JobIds : Holds(d, k)' => k = j
    BY <1>4, <1>6 DEF Holds
  <1>12. \A k : (IsActive(k)' <=> IsActive(k)) /\ (IsFinished(k)' <=> IsFinished(k))
    BY <1>3 DEF IsActive, IsFinished
  <1>13. OneActiveJob'
    BY <1>3, <1>12 DEF OtaInv, OneActiveJob, get_pending_for_device
  <1>14. StatusIsTruth'
    <2>1. ~ IsFinished(j)
      BY <1>2 DEF IsActive, IsFinished
    <2> QED
      BY <1>3, <1>7, <1>12, <2>1 DEF OtaInv, StatusIsTruth
  <1>15. \A k \in JobIds : jobs'[k] = Nil => applied'[k] = {}
    BY <1>2, <1>3, <1>7 DEF OtaInv, IsActive
  <1>16. \A k \in JobIds : ~ Holds(d, k) => jobs'[k] = jobs[k] /\ applied'[k] = applied[k]
    BY <1>2, <1>3, <1>7
  <1> QED
    BY <1>2, <1>3, <1>6, <1>8, <1>9, <1>10, <1>11, <1>13, <1>14, <1>15, <1>16, OneRobotMoves

\* The robot reports a job, and the server stores the outcome; the robot learns of it
\* or reconnects.
Reports(d) ==
    /\ robots[d].pc = "ack"
    /\ ack_update(robots[d].job, robots[d].success, "Ok")
    /\ \/ robots' = [robots EXCEPT ![d] =
                       [Reconnecting EXCEPT !.pc = "watch", !.stream = robots[d].stream]]
       \/ robots' = [robots EXCEPT ![d] = Reconnecting]
    /\ applied' = applied

\* What ack_update does to the job the robot reports.
LEMMA ReportFacts ==
    ASSUME OtaInv, NEW d \in Devices, robots[d].pc = "ack",
           ack_update(robots[d].job, robots[d].success, "Ok")
    PROVE  /\ robots[d].job \in JobIds
           /\ jobs' \in [JobIds -> JobRow \cup {Nil}]
           /\ jobs'[robots[d].job] # Nil
           /\ jobs'[robots[d].job].status \notin Active
           /\ jobs'[robots[d].job].status = "completed" <=> robots[d].success = TRUE
           /\ applied[robots[d].job] = {robots[d].success}
           /\ \A k \in JobIds : k # robots[d].job => jobs'[k] = jobs[k]
  <1> DEFINE j == robots[d].job
             status == IF robots[d].success THEN "completed" ELSE "failed"
  <1>1. j \in JobIds /\ jobs[j] # Nil /\ applied[j] = {robots[d].success}
    BY DEF OtaInv, OwnCommands, IsActive
  <1>2. jobs' = [jobs EXCEPT ![j].status = status]
    BY <1>1 DEF ack_update, update_status
  <1>3. status \in JobStatus /\ status \notin Active
    BY DEF JobStatus, Active
  <1>4. robots[d].success \in BOOLEAN
    BY Types DEF Task
  <1>5. status = "completed" <=> robots[d].success = TRUE
    BY <1>4
  <1> HIDE DEF status
  <1>6. /\ jobs' \in [JobIds -> JobRow \cup {Nil}]
        /\ jobs'[j] = [device |-> jobs[j].device, status |-> status]
        /\ jobs'[j] # Nil
        /\ \A k \in JobIds : k # j => jobs'[k] = jobs[k]
    BY <1>1, <1>2, <1>3, UpdateFacts
  <1> QED
    BY <1>1, <1>3, <1>5, <1>6

\* A report finishes the job with the outcome the robot saw.
LEMMA ReportKeeps ==
    ASSUME OtaInv, NEW d \in Devices, Reports(d), faulted' \in BOOLEAN
    PROVE  OtaInv'
  <1> DEFINE j == robots[d].job
  <1>0. /\ robots \in [Devices -> Task]
        /\ dispatching \in [Operators -> Calls]
        /\ accepted \subseteq JobIds
        /\ robots[d].success \in BOOLEAN
        /\ otaUp \in BOOLEAN
    BY Types DEF Calls, Task, OtaInv, RobotsTypeOK, OtaTypeOK
  <1>1. /\ robots[d].pc = "ack" /\ Holds(d, j) /\ Waiting(d) = <<>>
        /\ IsActive(j) /\ jobs[j].device = d
        /\ UNCHANGED <<otaUp, senders, streams, dispatching, accepted, applied>>
    BY DEF Reports, OtaInv, OwnCommands, Holds, ack_update
  <1>2. /\ j \in JobIds
        /\ jobs' \in [JobIds -> JobRow \cup {Nil}]
        /\ jobs'[j] # Nil
        /\ jobs'[j].status \notin Active
        /\ jobs'[j].status = "completed" <=> robots[d].success = TRUE
        /\ applied[j] = {robots[d].success}
        /\ \A k \in JobIds : k # j => jobs'[k] = jobs[k]
    BY ReportFacts DEF Reports
  <1>3. PICK task \in Task : /\ robots' = [robots EXCEPT ![d] = task]
                             /\ \/ task.pc = "watch" /\ task.stream = robots[d].stream
                                \/ task.pc = "connect" /\ task.stream = Nil
    <2>1. CASE robots' = [robots EXCEPT ![d] =
                            [Reconnecting EXCEPT !.pc = "watch", !.stream = robots[d].stream]]
      <3> DEFINE task == [Reconnecting EXCEPT !.pc = "watch", !.stream = robots[d].stream]
      <3>1. task \in Task /\ task.pc = "watch" /\ task.stream = robots[d].stream
        BY <1>0 DEF Reconnecting, Task
      <3> QED
        BY <2>1, <3>1
    <2>2. CASE robots' = [robots EXCEPT ![d] = Reconnecting]
      <3>1. Reconnecting \in Task /\ Reconnecting.pc = "connect" /\ Reconnecting.stream = Nil
        BY TaskFacts DEF Reconnecting
      <3> QED
        BY <2>2, <3>1
    <2> QED
      BY <2>1, <2>2 DEF Reports
  <1>4. robots' \in [Devices -> Task] /\ robots'[d] = task
        /\ \A e \in Devices : e # d => robots'[e] = robots[e]
    BY <1>0, <1>3
  <1>5. TypesOK'
    BY <1>0, <1>1, <1>2, <1>4, StoreTypes
  <1>6. OwnStream(d)' /\ Waiting(d)' = <<>>
    BY <1>1, <1>3, <1>4 DEF OtaInv, OwnStream, Waiting
  <1>7. OwnCommands(d)'
    BY <1>3, <1>4, <1>6 DEF OwnCommands
  <1>8. \A k \in JobIds : ~ Holds(d, k)'
    BY <1>3, <1>4 DEF Holds
  <1>9. \A k \in JobIds : k # j =>
           (IsActive(k)' <=> IsActive(k)) /\ (IsFinished(k)' <=> IsFinished(k))
    BY <1>2 DEF IsActive, IsFinished
  <1>10. OneActiveJob'
    <2>1. \A k \in JobIds, e \in Devices : IsActive(k)' /\ jobs'[k].device = e =>
             IsActive(k) /\ jobs[k].device = e
      BY <1>2, <1>9 DEF IsActive
    <2> QED
      BY <2>1 DEF OtaInv, OneActiveJob, get_pending_for_device
  <1>11. StatusIsTruth'
    <2> SUFFICES ASSUME NEW k \in JobIds, IsFinished(k)'
                 PROVE  applied'[k] = {jobs'[k].status = "completed"}
      BY DEF StatusIsTruth
    <2>1. CASE k = j
      <3>1. CASE robots[d].success = TRUE
        <4>1. (jobs'[j].status = "completed") = TRUE
          BY <1>2, <3>1
        <4> QED
          BY <1>1, <1>2, <2>1, <3>1, <4>1
      <3>2. CASE robots[d].success = FALSE
        <4>1. (jobs'[j].status = "completed") = FALSE
          BY <1>2, <3>2
        <4> QED
          BY <1>1, <1>2, <2>1, <3>2, <4>1
      <3> QED
        BY <1>0, <3>1, <3>2
    <2>2. CASE k # j
      BY <1>1, <1>2, <1>9, <2>2 DEF OtaInv, StatusIsTruth
    <2> QED
      BY <2>1, <2>2
  <1>12. \A k \in JobIds : jobs'[k] = Nil => applied'[k] = {}
    BY <1>1, <1>2 DEF OtaInv
  <1>13. \A k \in JobIds : ~ Holds(d, k) => jobs'[k] = jobs[k] /\ applied'[k] = applied[k]
    BY <1>1, <1>2
  <1> QED
    BY <1>1, <1>4, <1>5, <1>6, <1>7, <1>8, <1>10, <1>11, <1>12, <1>13, OneRobotMoves

-----------------------------------------------------------------------------
(* The steps of DispatchUpdate                                             *)

\* create_job puts a row under a fresh id; the call goes on to dispatch, or fails
\* because the row could not be read back.
LEMMA InsertKeeps ==
    ASSUME OtaInv, NEW o \in Operators, NEW d \in Devices, NEW j \in JobIds, NEW call \in Calls,
           InsertJob(d, j), dispatching' = [dispatching EXCEPT ![o] = call],
           call.pc = "created" => call.device = d /\ call.job = j,
           UNCHANGED <<otaUp, senders, streams, accepted, robotVars>>
    PROVE  OtaInv'
  <1> DEFINE row == [device |-> d, status |-> "pending"]
  <1>0. /\ jobs \in [JobIds -> JobRow \cup {Nil}]
        /\ dispatching \in [Operators -> Calls]
        /\ accepted \subseteq JobIds
        /\ robots \in [Devices -> Task]
        /\ otaUp \in BOOLEAN
    BY Types DEF Calls, OtaInv, RobotsTypeOK, OtaTypeOK
  <1>1. /\ \A k \in JobIds : ~ (IsActive(k) /\ jobs[k].device = d)
        /\ jobs[j] = Nil
        /\ jobs' = [jobs EXCEPT ![j] = row]
        /\ UNCHANGED <<robots, applied, faulted>>
    BY DEF InsertJob, robotVars
  <1>2. row \in JobRow
    BY DEF JobRow, JobStatus
  <1>3. row # Nil
    BY <1>2, OtaNilAssumption
  <1>4. jobs' \in [JobIds -> JobRow \cup {Nil}] /\ jobs'[j] = row
        /\ \A k \in JobIds : k # j => jobs'[k] = jobs[k]
    BY <1>0, <1>1, <1>2
  <1>5. ~ IsActive(j) /\ IsActive(j)' /\ ~ IsFinished(j)' /\ jobs'[j].device = d
    BY <1>1, <1>3, <1>4 DEF IsActive, IsFinished, Active
  <1>6. \A k \in JobIds : k # j =>
           (IsActive(k)' <=> IsActive(k)) /\ (IsFinished(k)' <=> IsFinished(k))
    BY <1>4 DEF IsActive, IsFinished
  <1>7. TypesOK'
    <2>1. faulted' \in BOOLEAN
      BY <1>1 DEF OtaInv, RobotsTypeOK
    <2>2. dispatching' \in [Operators -> Calls]
      BY <1>0
    <2> QED
      BY <1>0, <1>1, <1>4, <2>1, <2>2, StoreTypes
  <1>8. OneActiveJob'
    <2>1. ASSUME NEW e \in Devices, NEW k \in JobIds, NEW l \in JobIds,
                 IsActive(k)', jobs'[k].device = e, IsActive(l)', jobs'[l].device = e
          PROVE  k = l
      <3>1. \A m \in JobIds : m # j /\ IsActive(m)' => jobs'[m].device # d
        BY <1>1, <1>4, <1>6
      <3>2. CASE k = j \/ l = j
        BY <1>5, <2>1, <3>1, <3>2
      <3>3. CASE k # j /\ l # j
        <4>1. IsActive(k) /\ IsActive(l) /\ jobs[k].device = e /\ jobs[l].device = e
          BY <1>4, <1>6, <2>1, <3>3
        <4> QED
          BY <4>1 DEF OtaInv, OneActiveJob, get_pending_for_device
      <3> QED
        BY <3>2, <3>3
    <2> QED
      BY <2>1 DEF OneActiveJob, get_pending_for_device
  <1>9. StatusIsTruth'
    BY <1>1, <1>4, <1>5, <1>6 DEF OtaInv, StatusIsTruth
  <1>10. \A k \in JobIds : jobs'[k] = Nil => applied'[k] = {}
    BY <1>1, <1>3, <1>4 DEF OtaInv
  <1>11. ASSUME NEW e \in Devices
         PROVE  /\ OwnStream(e)' /\ OwnCommands(e)' /\ Waiting(e)' = Waiting(e)
                /\ ~ Holds(e, j) /\ (Waiting(e) # <<>> => Waiting(e)[1] # j)
    <2>1. \A k \in JobIds : IsActive(k) /\ jobs[k].device = e =>
             jobs'[k] = jobs[k] /\ applied'[k] = applied[k]
      BY <1>1, <1>4, <1>5
    <2>2. ~ Holds(e, j) /\ (Waiting(e) # <<>> => Waiting(e)[1] # j)
      BY <1>5 DEF OtaInv, OwnCommands, Holds
    <2> QED
      BY <1>1, <2>1, <2>2, RobotKept
  <1>12. \A p \in Operators : dispatching[p].pc = "created" => dispatching[p].job # j
    BY <1>5 DEF OtaInv, Unsent
  <1>13. /\ dispatching'[o] = call
         /\ \A p \in Operators : p # o => dispatching'[p] = dispatching[p]
    BY <1>0
  <1>14. ASSUME NEW p \in Operators, dispatching'[p].pc = "created" PROVE Unsent(p)'
    <2>1. CASE p = o
      <3>1. call.device = d /\ call.job = j /\ applied'[j] = {}
        BY <1>1, <1>13, <1>14, <2>1 DEF OtaInv
      <3>2. \A e \in Devices : ~ Holds(e, j)' /\ (Waiting(e)' # <<>> => Waiting(e)'[1] # j)
        BY <1>1, <1>11 DEF Holds
      <3>3. \A q \in Operators :
               dispatching'[q].pc = "created" /\ dispatching'[q].job = j => q = o
        BY <1>12, <1>13
      <3> QED
        BY <1>5, <1>13, <2>1, <3>1, <3>2, <3>3 DEF Unsent, IsActive, Holds
    <2>2. CASE p # o
      <3> DEFINE k == dispatching[p].job
      <3>1. dispatching[p].pc = "created" /\ dispatching'[p] = dispatching[p] /\ Unsent(p)
        BY <1>13, <1>14, <2>2 DEF OtaInv
      <3>2. k \in JobIds /\ k # j
        BY <1>12, <3>1 DEF Unsent
      <3>3. jobs'[k] = jobs[k] /\ applied'[k] = applied[k]
        BY <1>1, <1>4, <3>2
      <3>4. \A e \in Devices :
               ~ Holds(e, dispatching[p].job)' /\ (Waiting(e)' # <<>> => Waiting(e)'[1] # k)
        BY <1>1, <1>11, <3>1 DEF Unsent, Holds
      <3>5. \A q \in Operators : dispatching'[q].pc = "created" =>
               dispatching'[q] = dispatching[q] \/ dispatching'[q].job # k
        BY <1>13, <3>2
      <3> QED
        BY <3>1, <3>3, <3>4, <3>5, UnsentKept
    <2> QED
      BY <2>1, <2>2
  <1> QED
    BY <1>7, <1>8, <1>9, <1>10, <1>11, <1>14 DEF OtaInv, TypesOK

\* A broadcast reaches the streams of its device only, each within its capacity.
LEMMA BroadcastFacts ==
    ASSUME OtaInv, NEW d \in Devices, NEW j \in JobIds, Broadcast(d, j)
    PROVE  /\ streams' \in [Streams -> StreamRow \cup {Nil}]
           /\ \A t \in Streams :
                 /\ streams'[t] # Nil => /\ streams'[t].device \in senders
                                         /\ Len(streams'[t].queue) <= CHANNEL_CAPACITY
                 /\ t \notin Receivers(d) => streams'[t] = streams[t]
                 /\ t \in Receivers(d) =>
                       /\ streams'[t] # Nil
                       /\ streams'[t].device = d
                       /\ streams[t].queue = <<>> => streams'[t].queue = <<j>>
  <1>0. streams \in [Streams -> StreamRow \cup {Nil}]
    BY Types
  <1>1. ASSUME NEW t \in Streams, t \in Receivers(d)
        PROVE  /\ streams'[t] \in StreamRow
               /\ streams'[t] # Nil
               /\ streams'[t].device = d
               /\ d \in senders
               /\ Len(streams'[t].queue) <= CHANNEL_CAPACITY
               /\ streams[t].queue = <<>> => streams'[t].queue = <<j>>
    <2> DEFINE q == streams[t].queue
               row == [device |-> d, queue |-> Enqueue(q, j)]
    <2>1. /\ streams[t] \in StreamRow /\ streams[t].device = d /\ d \in senders
          /\ q \in Seq(JobIds) /\ Len(q) <= CHANNEL_CAPACITY
      BY <1>1, Types DEF Receivers
    <2>2. /\ Enqueue(q, j) \in Seq(JobIds)
          /\ Len(Enqueue(q, j)) <= CHANNEL_CAPACITY
          /\ q = <<>> => Enqueue(q, j) = <<j>>
      BY <2>1, EnqueueFacts
    <2>3. row \in StreamRow
      BY <2>2 DEF StreamRow
    <2>4. [streams[t] EXCEPT !.queue = Enqueue(@, j)] = row
      <3>1. \A r \in StreamRow : \A x :
               [r EXCEPT !.queue = x] = [device |-> r.device, queue |-> x]
        BY DEF StreamRow
      <3> QED
        BY <2>1, <3>1
    <2>5. streams'[t] = row
      BY <1>1, <2>4 DEF Broadcast
    <2> QED
      BY <2>1, <2>2, <2>3, <2>5, OtaNilAssumption
  <1>2. \A t \in Streams : t \notin Receivers(d) => streams'[t] = streams[t]
    BY DEF Broadcast
  <1>3. streams' \in [Streams -> StreamRow \cup {Nil}]
    <2>1. \A t \in Streams : streams'[t] \in StreamRow \cup {Nil}
      BY <1>0, <1>1, <1>2
    <2> QED
      BY <2>1 DEF Broadcast
  <1>4. \A t \in Streams : t \notin Receivers(d) /\ streams'[t] # Nil =>
           streams'[t].device \in senders /\ Len(streams'[t].queue) <= CHANNEL_CAPACITY
    BY <1>2, Types
  <1> QED
    BY <1>1, <1>2, <1>3, <1>4

\* The command reaches a robot that has none: its queue was empty and it holds no other.
LEMMA BroadcastKeeps ==
    ASSUME OtaInv, NEW o \in Operators, dispatching[o].pc = "created",
           NEW d, dispatching[o].device = d, NEW j, dispatching[o].job = j, Broadcast(d, j),
           dispatching' = [dispatching EXCEPT ![o].pc = "replied", ![o].code = "ok"],
           accepted' = accepted \cup {j},
           UNCHANGED <<otaUp, jobs, senders, robotVars>>
    PROVE  OtaInv'
  <1> DEFINE call == [dispatching[o] EXCEPT !.pc = "replied", !.code = "ok"]
  <1>0. /\ dispatching \in [Operators -> Calls]
        /\ robots \in [Devices -> Task]
        /\ jobs \in [JobIds -> JobRow \cup {Nil}]
        /\ senders \subseteq Devices
        /\ accepted \subseteq JobIds
        /\ \A e \in Devices : Waiting(e) \in Seq(JobIds)
    BY Types DEF Calls
  <1>1. Unsent(o)
    BY DEF OtaInv
  <1>2. /\ j \in JobIds /\ IsActive(j) /\ jobs[j].device = d /\ applied[j] = {}
        /\ UNCHANGED <<robots, applied, faulted>>
    BY <1>1 DEF Unsent, robotVars
  <1>3. d \in Devices
    BY <1>0, <1>2 DEF IsActive, JobRow
  <1>4. /\ dispatching' = [dispatching EXCEPT ![o] = call]
        /\ call \in Calls /\ call.pc = "replied"
    BY <1>0 DEF Calls, OtaCodes
  <1>5. /\ dispatching' \in [Operators -> Calls] /\ dispatching'[o].pc = "replied"
        /\ \A p \in Operators : p # o => dispatching'[p] = dispatching[p]
    BY <1>0, <1>4
  <1>6. TypesOK'
    <2>1. accepted' \subseteq JobIds
      BY <1>0, <1>2
    <2> QED
      BY <1>0, <1>2, <1>3, <1>5, <2>1, BroadcastFacts, ChannelTypes
  <1>7. Waiting(d) = <<>> /\ robots[d].pc \notin {"apply", "ack"}
    <2>1. \A k \in JobIds : IsActive(k) /\ jobs[k].device = d => k = j
      BY <1>2, <1>3 DEF OtaInv, OneActiveJob, get_pending_for_device
    <2>2. Waiting(d) # <<>> => Waiting(d)[1] = j
      BY <1>3, <2>1 DEF OtaInv, OwnCommands
    <2>3. robots[d].pc \in {"apply", "ack"} => robots[d].job = j
      BY <1>3, <2>1 DEF OtaInv, OwnCommands
    <2> QED
      BY <1>1, <1>3, <2>2, <2>3 DEF Unsent, Holds
  <1>8. ASSUME NEW e \in Devices, e # d
        PROVE  OwnStream(e)' /\ OwnCommands(e)' /\ Waiting(e)' = Waiting(e)
    <2>1. robots[e].stream # Nil =>
             robots[e].stream \in Streams /\ robots[e].stream \notin Receivers(d)
      BY <1>0, <1>8 DEF OtaInv, OwnStream, Receivers, Task
    <2>2. robots[e].stream # Nil => streams'[robots[e].stream] = streams[robots[e].stream]
      BY <1>2, <1>3, <2>1, BroadcastFacts
    <2> QED
      BY <1>2, <2>2, RobotKept
  <1>9. OwnStream(d)' /\ OwnCommands(d)' /\ (Waiting(d)' = <<>> \/ Waiting(d)' = <<j>>)
    <2>1. CASE robots[d].stream = Nil
      <3>1. OwnStream(d)' /\ Waiting(d)' = <<>>
        BY <1>2, <2>1 DEF OwnStream, Waiting
      <3> QED
        BY <1>2, <1>7, <3>1 DEF OwnCommands
    <2>2. CASE robots[d].stream # Nil
      <3> DEFINE t == robots[d].stream
      <3>1. /\ t \in Streams /\ t \in Receivers(d) /\ streams[t].queue = <<>>
            /\ robots[d].pc # "connect"
        BY <1>0, <1>3, <1>7, <2>2 DEF OtaInv, OwnStream, Receivers, Waiting, Task
      <3>2. robots[d].pc = "watch"
        BY <1>0, <1>3, <1>7, <3>1 DEF Task
      <3>3. streams'[t] # Nil /\ streams'[t].device = d /\ streams'[t].queue = <<j>>
        BY <1>2, <1>3, <3>1, BroadcastFacts
      <3>4. OwnStream(d)' /\ Waiting(d)' = <<j>>
        BY <1>2, <2>2, <3>2, <3>3 DEF OwnStream, Waiting
      <3>5. Len(<<j>>) = 1 /\ <<j>>[1] = j
        OBVIOUS
      <3> QED
        BY <1>2, <3>2, <3>4, <3>5 DEF OwnCommands, IsActive
    <2> QED
      BY <2>1, <2>2
  <1>10. ASSUME NEW p \in Operators, dispatching'[p].pc = "created" PROVE Unsent(p)'
    <2> DEFINE k == dispatching[p].job
    <2>1. p # o /\ dispatching'[p] = dispatching[p] /\ dispatching[p].pc = "created" /\ Unsent(p)
      BY <1>5, <1>10 DEF OtaInv
    <2>2. k # j
      BY <1>1, <2>1 DEF Unsent
    <2>3. ASSUME NEW e \in Devices
          PROVE  ~ Holds(e, dispatching[p].job)' /\ (Waiting(e)' # <<>> => Waiting(e)'[1] # k)
      <3>1. ~ Holds(e, dispatching[p].job)'
        BY <1>2, <2>1 DEF Unsent, Holds
      <3>2. CASE e = d
        <4>1. <<j>>[1] = j
          OBVIOUS
        <4> QED
          BY <1>9, <2>2, <3>1, <3>2, <4>1
      <3>3. CASE e # d
        BY <1>8, <2>1, <3>1, <3>3 DEF Unsent
      <3> QED
        BY <3>2, <3>3
    <2>4. \A q \in Operators : dispatching'[q].pc = "created" => dispatching'[q] = dispatching[q]
      BY <1>5
    <2> QED
      BY <1>2, <2>1, <2>3, <2>4, UnsentKept
  <1>11. /\ OneActiveJob' /\ StatusIsTruth'
         /\ \A k \in JobIds : jobs'[k] = Nil => applied'[k] = {}
    BY <1>2, SameJobs
  <1> QED
    BY <1>3, <1>6, <1>8, <1>9, <1>10, <1>11 DEF OtaInv, TypesOK

\* The steps of DispatchUpdate that create no job and send no command.
LEMMA CallKeeps ==
    ASSUME OtaInv, NEW o \in Operators, NEW call \in Calls, call.pc # "created",
           dispatching' = [dispatching EXCEPT ![o] = call],
           UNCHANGED <<otaUp, jobs, senders, streams, accepted, robotVars>>
    PROVE  OtaInv'
  <1>0. /\ dispatching \in [Operators -> Calls] /\ robots \in [Devices -> Task]
        /\ jobs \in [JobIds -> JobRow \cup {Nil}] /\ accepted \subseteq JobIds
        /\ otaUp \in BOOLEAN /\ faulted \in BOOLEAN
    BY Types DEF Calls, OtaInv, RobotsTypeOK, OtaTypeOK
  <1>1. UNCHANGED <<robots, applied, faulted>>
    BY DEF robotVars
  <1>2. dispatching' \in [Operators -> Calls]
    BY <1>0
  <1>3. TypesOK'
    BY <1>0, <1>1, <1>2, StoreTypes
  <1>4. NoProgress
    BY <1>0, <1>1 DEF NoProgress
  <1> QED
    BY <1>3, <1>4, NoProgressKeeps

\* DispatchUpdate, first step.
LEMMA CreateKeeps ==
    ASSUME OtaInv, NEW o \in Operators, Dispatches(o)
    PROVE  OtaInv'
  <1>1. PICK d \in Devices : dispatch_update(o, d)
    BY DEF Dispatches
  <1>2. PICK res \in OtaResults, j \in JobIds :
           /\ create_job(d, j, res)
           /\ dispatching' = [dispatching EXCEPT ![o] =
                 IF res = "Ok"
                   THEN [pc |-> "created", device |-> d, job |-> j, code |-> Nil]
                   ELSE [pc |-> "replied", device |-> d, job |-> Nil, code |-> to_status(res)]]
    BY <1>1 DEF dispatch_update
  <1>3. UNCHANGED <<otaUp, senders, streams, accepted, robotVars>>
    BY <1>1 DEF dispatch_update, Dispatches
  <1> DEFINE created == [pc |-> "created", device |-> d, job |-> j, code |-> Nil]
             replied == [pc |-> "replied", device |-> d, job |-> Nil, code |-> to_status(res)]
  <1>4. created \in Calls /\ created.pc = "created" /\ created.device = d /\ created.job = j
    BY DEF Calls
  <1>5. replied \in Calls /\ replied.pc = "replied"
    <2>1. to_status(res) \in OtaCodes
      BY DEF to_status, OtaCodes, OtaResults
    <2> QED
      BY <2>1 DEF Calls
  <1> HIDE DEF created, replied
  <1>6. CASE res = "Ok"
    <2>1. dispatching' = [dispatching EXCEPT ![o] = created]
      BY <1>2, <1>6 DEF created
    <2>2. InsertJob(d, j)
      BY <1>2, <1>6 DEF create_job
    <2> QED
      BY <1>3, <1>4, <2>1, <2>2, InsertKeeps
  <1>7. CASE res # "Ok"
    <2>1. dispatching' = [dispatching EXCEPT ![o] = replied]
      BY <1>2, <1>7 DEF replied
    <2>2. InsertJob(d, j) \/ UNCHANGED jobs
      BY <1>2, <1>7 DEF create_job
    <2>3. CASE InsertJob(d, j)
      BY <1>3, <1>5, <2>1, <2>3, InsertKeeps
    <2>4. CASE UNCHANGED jobs
      BY <1>3, <1>5, <2>1, <2>4, CallKeeps
    <2> QED
      BY <2>2, <2>3, <2>4
  <1> QED
    BY <1>6, <1>7

\* DispatchUpdate, second step, and its response.
LEMMA DispatchKeeps ==
    ASSUME OtaInv, NEW o \in Operators, DispatchStep(o)
    PROVE  OtaInv'
  <1>0. dispatching \in [Operators -> Calls] /\ UNCHANGED robotVars
    BY Types DEF Calls, DispatchStep
  <1>1. CASE dispatch(o)
    <2> DEFINE call == [dispatching[o] EXCEPT !.pc = "replied",
                          !.code = to_status("NoActiveSubscribers")]
    <2>1. CASE Subscribed(dispatching[o].device)
      BY <1>0, <1>1, <2>1, BroadcastKeeps DEF dispatch
    <2>2. CASE ~ Subscribed(dispatching[o].device)
      <3>1. to_status("NoActiveSubscribers") \in OtaCodes
        BY DEF to_status, OtaCodes
      <3>2. call \in Calls /\ call.pc = "replied"
        BY <1>0, <3>1 DEF Calls
      <3>3. /\ dispatching' = [dispatching EXCEPT ![o] = call]
            /\ UNCHANGED <<otaUp, jobs, senders, streams, accepted>>
        BY <1>0, <1>1, <2>2 DEF dispatch
      <3> QED
        BY <1>0, <3>2, <3>3, CallKeeps
    <2> QED
      BY <2>1, <2>2
  <1>2. CASE DispatchReturns(o)
    <2>1. NoCall \in Calls /\ NoCall.pc = "idle"
      BY DEF NoCall, Calls
    <2> QED
      BY <1>0, <1>2, <2>1, CallKeeps DEF DispatchReturns
  <1> QED
    BY <1>1, <1>2 DEF DispatchStep

-----------------------------------------------------------------------------
(* Failures, and the life of the server                                    *)

\* A robot that reconnects, or whose stream broke, forgets what it was doing.
LEMMA BreakKeeps ==
    ASSUME OtaInv, NEW d \in Devices, UNCHANGED <<otaVars, applied>>, faulted' \in BOOLEAN,
           \/ robots' = [robots EXCEPT ![d] = Reconnecting]
           \/ robots' = [robots EXCEPT ![d].stream = Nil]
    PROVE  OtaInv'
  <1>0. robots \in [Devices -> Task] /\ applied \in [JobIds -> SUBSET BOOLEAN]
    BY Types
  <1>1. UNCHANGED <<otaUp, jobs, senders, streams, dispatching, accepted>>
    BY DEF otaVars
  <1>2. [robots[d] EXCEPT !.stream = Nil] \in Task
    BY <1>0, TaskFacts
  <1>3. \/ robots' = [robots EXCEPT ![d] = Reconnecting]
        \/ robots' = [robots EXCEPT ![d] = [robots[d] EXCEPT !.stream = Nil]]
    BY <1>0
  <1>4. robots' \in [Devices -> Task]
    BY <1>0, <1>2, <1>3, TaskFacts
  <1>5. \A e \in Devices : \/ robots'[e] = robots[e]
                           \/ robots'[e] = [robots[e] EXCEPT !.stream = Nil]
                           \/ robots'[e] = Reconnecting
    BY <1>0, <1>3
  <1>6. TypesOK'
    BY <1>0, <1>4, RobotTypes
  <1>7. NoProgress
    BY <1>1, <1>5 DEF NoProgress
  <1> QED
    BY <1>6, <1>7, NoProgressKeeps

\* AckUpdate: stored and known, stored and unknown, refused or lost.
LEMMA AckKeeps ==
    ASSUME OtaInv, NEW d \in Devices, Ack(d) \/ AckLost(d)
    PROVE  OtaInv'
  <1>0. faulted \in BOOLEAN
    BY DEF OtaInv, RobotsTypeOK
  <1>1. CASE Ack(d)
    <2>1. PICK res \in OtaResults :
             /\ ack_update(robots[d].job, robots[d].success, res)
             /\ robots' = [robots EXCEPT ![d] =
                   IF res = "Ok"
                     THEN [Reconnecting EXCEPT !.pc = "watch", !.stream = robots[d].stream]
                     ELSE Reconnecting]
             /\ faulted' = (faulted \/ res # "Ok")
      BY <1>1 DEF Ack
    <2>2. robots[d].pc = "ack" /\ applied' = applied
      BY <1>1 DEF Ack
    <2>3. faulted' \in BOOLEAN
      BY <2>1, Zenon
    <2>4. CASE res = "Ok"
      <3>1. Reports(d)
        BY <2>1, <2>2, <2>4 DEF Reports
      <3> QED
        BY <2>3, <3>1, ReportKeeps
    <2>5. CASE res # "Ok"
      <3>1. UNCHANGED <<otaVars, applied>>
        BY <2>1, <2>2, <2>5 DEF ack_update, update_status, otaVars
      <3> QED
        BY <2>1, <2>3, <2>5, <3>1, BreakKeeps
    <2> QED
      BY <2>4, <2>5
  <1>2. CASE AckLost(d)
    <2>1. robots' = [robots EXCEPT ![d] = Reconnecting] /\ applied' = applied
          /\ robots[d].pc = "ack" /\ faulted' = TRUE
      BY <1>2 DEF AckLost
    <2>2. CASE UNCHANGED otaVars
      BY <2>1, <2>2, BreakKeeps
    <2>3. CASE ack_update(robots[d].job, robots[d].success, "Ok")
      BY <2>1, <2>3, ReportKeeps DEF Reports
    <2> QED
      BY <1>2, <2>2, <2>3 DEF AckLost
  <1> QED
    BY <1>1, <1>2

\* A stream that no robot reads loses a command, or is closed.
LEMMA AbandonedKeeps ==
    ASSUME OtaInv, NEW t \in Streams, AbandonedStep(t)
    PROVE  OtaInv'
  <1>0. /\ streams \in [Streams -> StreamRow \cup {Nil}]
        /\ robots \in [Devices -> Task] /\ senders \subseteq Devices
        /\ dispatching \in [Operators -> Calls] /\ accepted \subseteq JobIds
    BY Types DEF Calls
  <1>1. /\ streams[t] # Nil /\ \A d \in Devices : robots[d].stream # t
        /\ UNCHANGED <<otaUp, jobs, senders, dispatching, accepted, robots, applied, faulted>>
    BY DEF AbandonedStep, Abandoned, SendCommand, DropStream, robotVars
  <1>2. /\ streams' \in [Streams -> StreamRow \cup {Nil}]
        /\ \A u \in Streams : u # t => streams'[u] = streams[u]
        /\ \A u \in Streams : streams'[u] # Nil =>
              /\ streams'[u].device \in senders
              /\ Len(streams'[u].queue) <= CHANNEL_CAPACITY
    <2>1. CASE SendCommand(t)
      BY <1>1, <2>1, SendFacts
    <2>2. CASE DropStream(t)
      <3>1. streams' = [streams EXCEPT ![t] = Nil]
        BY <2>2 DEF DropStream
      <3> QED
        BY <1>0, <3>1, Types
    <2> QED
      BY <2>1, <2>2 DEF AbandonedStep
  <1>3. TypesOK'
    BY <1>0, <1>1, <1>2, ChannelTypes
  <1>4. \A d \in Devices : robots[d].stream # Nil =>
           streams'[robots[d].stream] = streams[robots[d].stream]
    BY <1>0, <1>1, <1>2 DEF Task
  <1>5. NoProgress
    BY <1>1, <1>4 DEF NoProgress
  <1> QED
    BY <1>3, <1>5, NoProgressKeeps

\* A crash takes the channels, the streams and the calls; the jobs are on disk.
LEMMA CrashKeeps ==
    ASSUME OtaInv, ServerCrash
    PROVE  OtaInv'
  <1>0. /\ robots \in [Devices -> Task] /\ applied \in [JobIds -> SUBSET BOOLEAN]
        /\ jobs \in [JobIds -> JobRow \cup {Nil}] /\ accepted \subseteq JobIds
    BY Types
  <1>1. /\ otaUp' = FALSE /\ senders' = {} /\ streams' = [t \in Streams |-> Nil]
        /\ dispatching' = [o \in Operators |-> NoCall]
        /\ robots' = [d \in Devices |-> [robots[d] EXCEPT !.stream = Nil]]
        /\ faulted' = TRUE /\ UNCHANGED <<jobs, accepted, applied>>
    BY DEF ServerCrash, OtaCrash
  <1>2. NoCall \in Calls /\ NoCall.pc = "idle"
    BY DEF NoCall, Calls
  <1>3. dispatching' \in [Operators -> Calls] /\ \A o \in Operators : dispatching'[o].pc = "idle"
    BY <1>1, <1>2
  <1>4. robots' \in [Devices -> Task]
    <2>1. \A d \in Devices : [robots[d] EXCEPT !.stream = Nil] \in Task
      BY <1>0, TaskFacts
    <2> QED
      BY <1>1, <2>1
  <1>5. streams' \in [Streams -> StreamRow \cup {Nil}] /\ \A t \in Streams : streams'[t] = Nil
    BY <1>1
  <1>6. OtaTypeOK'
    BY <1>0, <1>1, <1>3, <1>5 DEF OtaTypeOK, Calls
  <1>7. TypesOK'
    BY <1>0, <1>1, <1>4, <1>5, <1>6 DEF TypesOK, RobotsTypeOK, StreamsTypeOK, Task
  <1>8. NoProgress
    BY <1>1, <1>3 DEF NoProgress
  <1> QED
    BY <1>7, <1>8, NoProgressKeeps

\* Neither a restart nor a step of something else changes what the invariant speaks of.
LEMMA StartKeeps ==
    ASSUME OtaInv, ServerStart \/ UNCHANGED otaFleetVars
    PROVE  OtaInv'
  <1>1. /\ otaUp' \in BOOLEAN
        /\ UNCHANGED <<jobs, senders, streams, dispatching, accepted, robots, applied, faulted>>
    BY DEF ServerStart, OtaStart, otaFleetVars, otaVars, robotVars, OtaInv, RobotsTypeOK,
           OtaTypeOK
  <1>2. TypesOK'
    BY <1>1 DEF OtaInv, TypesOK, RobotsTypeOK, StreamsTypeOK, OtaTypeOK
  <1>3. NoProgress
    BY <1>1 DEF NoProgress
  <1> QED
    BY <1>2, <1>3, NoProgressKeeps

-----------------------------------------------------------------------------
(* The theorems                                                            *)

\* Nothing is open, held or stored at the start.
LEMMA InitInv == Init => OtaInv
  <1> SUFFICES ASSUME Init PROVE OtaInv
    OBVIOUS
  <1>1. /\ jobs = [j \in JobIds |-> Nil] /\ senders = {} /\ streams = [t \in Streams |-> Nil]
        /\ dispatching = [o \in Operators |-> NoCall] /\ accepted = {} /\ otaUp = TRUE
        /\ robots = [d \in Devices |-> Reconnecting] /\ applied = [j \in JobIds |-> {}]
        /\ faulted = FALSE
    BY DEF Init, OtaInit
  <1>2. NoCall \in Calls /\ NoCall.pc = "idle"
    BY DEF NoCall, Calls
  <1>3. Reconnecting \in Task /\ Reconnecting.stream = Nil /\ Reconnecting.pc = "connect"
    BY TaskFacts DEF Reconnecting
  <1>4. OtaTypeOK
    BY <1>1, <1>2 DEF OtaTypeOK, Calls
  <1>5. RobotsTypeOK /\ StreamsTypeOK
    BY <1>1, <1>3, <1>4 DEF RobotsTypeOK, StreamsTypeOK, Task
  <1>6. \A d \in Devices : OwnStream(d) /\ Waiting(d) = <<>>
    BY <1>1, <1>3 DEF OwnStream, Waiting
  <1>7. ASSUME NEW d \in Devices PROVE OwnCommands(d)
    <2>1. robots[d].pc = "connect" /\ Waiting(d) = <<>>
      BY <1>1, <1>3, <1>6
    <2>2. Len(Waiting(d)) <= 1
      BY <2>1
    <2> QED
      BY <2>1, <2>2 DEF OwnCommands
  <1>8. \A j \in JobIds : ~ IsActive(j) /\ ~ IsFinished(j)
    BY <1>1 DEF IsActive, IsFinished
  <1>9. OneActiveJob /\ StatusIsTruth
    BY <1>8 DEF OneActiveJob, get_pending_for_device, StatusIsTruth
  <1> QED
    BY <1>1, <1>2, <1>5, <1>6, <1>7, <1>9 DEF OtaInv

\* Every step keeps the invariant.
LEMMA NextInv == OtaInv /\ [Next]_otaFleetVars => OtaInv'
  <1> SUFFICES ASSUME OtaInv, [Next]_otaFleetVars PROVE OtaInv'
    OBVIOUS
  <1>0. faulted \in BOOLEAN
    BY DEF OtaInv, RobotsTypeOK
  <1>1. ASSUME NEW d \in Devices, RobotStep(d) PROVE OtaInv'
    <2>1. CASE StreamFails(d)
      BY <1>0, <2>1, BreakKeeps DEF StreamFails
    <2> QED
      BY <1>1, <2>1, WatchKeeps, ReceiveKeeps, ApplyKeeps, AckKeeps DEF RobotStep
  <1>2. ASSUME NEW d \in Devices, ConnectionBreaks(d) PROVE OtaInv'
    BY <1>2, BreakKeeps DEF ConnectionBreaks
  <1>3. ASSUME NEW d \in Devices, AckLost(d) PROVE OtaInv'
    BY <1>3, AckKeeps
  <1>4. ASSUME NEW d \in Devices, RobotRestarts(d) PROVE OtaInv'
    BY <1>4, BreakKeeps DEF RobotRestarts
  <1>5. ASSUME NEW t \in Streams, AbandonedStep(t) PROVE OtaInv'
    BY <1>5, AbandonedKeeps
  <1>6. ASSUME NEW o \in Operators, Dispatches(o) \/ DispatchStep(o) PROVE OtaInv'
    BY <1>6, CreateKeeps, DispatchKeeps
  <1>7. CASE ServerCrash
    BY <1>7, CrashKeeps
  <1>8. CASE ServerStart \/ UNCHANGED otaFleetVars
    BY <1>8, StartKeeps
  <1> QED
    BY <1>1, <1>2, <1>3, <1>4, <1>5, <1>6, <1>7, <1>8 DEF Next

\* OtaInv is an invariant of the OTA fleet.
LEMMA OtaInvariant == Spec => []OtaInv
  <1> QED
    BY InitInv, NextInv, PTL DEF Spec

\* Every variable keeps its type: a channel stays within its capacity, and every
\* stream belongs to a device that has a sender in the dispatcher's map.
THEOREM OtaTypeCorrect == Spec => []RobotsTypeOK
  <1>1. OtaInv => RobotsTypeOK
    BY DEF OtaInv
  <1> QED
    BY <1>1, OtaInvariant, PTL

\* A device has one active job at most, for any number of operators and whatever
\* becomes of their calls (create_job).
THEOREM OneJobPerDevice == Spec => []OneActiveJob
  <1>1. OtaInv => OneActiveJob
    BY DEF OtaInv
  <1> QED
    BY <1>1, OtaInvariant, PTL

\* A command for a job is in one place only, in the robot's stream or in its hands,
\* and belongs to the robot's active job; no channel a robot reads ever overflows.
THEOREM CommandsAreSingle == Spec => []OneCommandUnderway
  <1>1. OtaInv => OneCommandUnderway
    <2> SUFFICES ASSUME OtaInv, NEW d \in Devices
                 PROVE  /\ Len(Waiting(d)) <= 1
                        /\ Waiting(d) # <<>> =>
                              /\ IsActive(Waiting(d)[1])
                              /\ jobs[Waiting(d)[1]].device = d
                              /\ robots[d].pc = "watch"
                        /\ robots[d].pc \in {"apply", "ack"} =>
                              /\ IsActive(robots[d].job)
                              /\ jobs[robots[d].job].device = d
      BY DEF OneCommandUnderway, Waiting
    <2> QED
      BY DEF OtaInv, OwnCommands
  <1> QED
    BY <1>1, OtaInvariant, PTL

\* No robot applies an update twice, across broken connections, lost
\* acknowledgements and restarts of either side (apply_update).
THEOREM UpdatesAppliedOnce == Spec => []AppliedOnce
  <1>1. OtaInv => AppliedOnce
    BY DEF OtaInv, OwnCommands, AppliedOnce
  <1> QED
    BY <1>1, OtaInvariant, PTL

\* A job is stored as completed only if its robot applied the update and succeeded,
\* as failed only if it tried and failed (ack_update).
THEOREM StatusesAreTrue == Spec => []StatusIsTruth
  <1>1. OtaInv => StatusIsTruth
    BY DEF OtaInv
  <1> QED
    BY <1>1, OtaInvariant, PTL

\* A finished job is never written again, though update_status overwrites whatever
\* it finds: only the robot that holds the active job acknowledges it.
THEOREM StatusIsFinal == Spec => FinalStatus
  <1>1. ASSUME OtaInv, NEW d \in Devices, robots[d].pc = "ack", NEW res \in OtaResults,
               ack_update(robots[d].job, robots[d].success, res)
        PROVE  FinalStatusStep
    <2>1. ~ IsFinished(robots[d].job)
      BY <1>1 DEF OtaInv, OwnCommands, IsActive, IsFinished
    <2>2. CASE res = "Ok"
      BY <1>1, <2>1, <2>2, ReportFacts DEF FinalStatusStep
    <2>3. CASE res # "Ok"
      BY <1>1, <2>3 DEF ack_update, update_status, FinalStatusStep
    <2> QED
      BY <2>2, <2>3
  <1>2. ASSUME OtaInv, NEW d \in Devices, NEW j \in JobIds, InsertJob(d, j)
        PROVE  FinalStatusStep
    <2>1. jobs \in [JobIds -> JobRow \cup {Nil}]
      BY <1>2, Types
    <2>2. ~ IsFinished(j) /\ \A k \in JobIds : k # j => jobs'[k] = jobs[k]
      BY <1>2, <2>1 DEF InsertJob, IsFinished
    <2> QED
      BY <2>2 DEF FinalStatusStep
  <1>3. ASSUME OtaInv, [Next]_otaFleetVars
        PROVE  FinalStatusStep
    <2>0. UNCHANGED jobs => FinalStatusStep
      BY DEF FinalStatusStep
    <2>1. ASSUME NEW d \in Devices, RobotStep(d) PROVE FinalStatusStep
      <3>1. CASE Ack(d)
        BY <1>1, <1>3, <3>1 DEF Ack
      <3>2. CASE ~ Ack(d)
        BY <2>0, <2>1, <3>2 DEF RobotStep, Watch, watch_updates, ReceiveCommand, SendCommand,
                                apply_update, StreamFails, otaVars
      <3> QED
        BY <3>1, <3>2
    <2>2. ASSUME NEW d \in Devices, AckLost(d) PROVE FinalStatusStep
      <3>1. "Ok" \in OtaResults
        BY DEF OtaResults
      <3> QED
        BY <1>1, <1>3, <2>0, <2>2, <3>1 DEF AckLost, otaVars
    <2>3. ASSUME NEW o \in Operators, Dispatches(o) PROVE FinalStatusStep
      <3>1. \E d \in Devices, j \in JobIds : InsertJob(d, j) \/ UNCHANGED jobs
        BY <2>3 DEF Dispatches, dispatch_update, create_job
      <3> QED
        BY <1>2, <1>3, <2>0, <3>1
    <2>4. ASSUME NEW o \in Operators, DispatchStep(o) PROVE FinalStatusStep
      BY <2>0, <2>4 DEF DispatchStep, dispatch, DispatchReturns
    <2>5. ASSUME NEW d \in Devices, ConnectionBreaks(d) \/ RobotRestarts(d) PROVE FinalStatusStep
      BY <2>0, <2>5 DEF ConnectionBreaks, RobotRestarts, otaVars
    <2>6. ASSUME NEW t \in Streams, AbandonedStep(t) PROVE FinalStatusStep
      BY <2>0, <2>6 DEF AbandonedStep, SendCommand, DropStream
    <2>7. CASE ServerCrash \/ ServerStart \/ UNCHANGED otaFleetVars
      BY <2>0, <2>7 DEF ServerCrash, OtaCrash, ServerStart, OtaStart, otaFleetVars, otaVars
    <2> QED
      BY <1>3, <2>1, <2>2, <2>3, <2>4, <2>5, <2>6, <2>7 DEF Next
  <1> QED
    BY <1>3, OtaInvariant, PTL DEF Spec, FinalStatus

=============================================================================
