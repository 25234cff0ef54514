------------------------------- MODULE Paging --------------------------------
(***************************************************************************)
(* An operator reads a table page by page while the service goes on        *)
(* writing it: ListDevices of the device-management service, whose pages   *)
(* go by id, and ListUpdateJobs of the OTA service, whose pages go by      *)
(* created_at in whole seconds.                                            *)
(*                                                                         *)
(* A page is one store operation under the store's lock; between two pages *)
(* anything may happen.  The initial state says which table is read.       *)
(***************************************************************************)
EXTENDS Naturals, Sequences, FiniteSets, SequencesExt

CONSTANTS
    DeviceIds,  \* ids of devices, ordered as the UUIDs they stand for
    Statuses,   \* statuses of devices
    JobIds,     \* ids of the jobs of one device
    Limit,      \* rows in a page
    MaxClock,   \* bound on the clock
    Nil         \* no row, no filter, no cursor

Job == [created_at : 0 .. MaxClock, active : BOOLEAN]

\* Ids are UUIDs, of which there are finitely many.
ASSUME PagingAssumption ==
    /\ DeviceIds \subseteq Nat
    /\ IsFiniteSet(DeviceIds) /\ IsFiniteSet(JobIds)
    /\ Limit \in Nat \ {0}
    /\ MaxClock \in Nat
    /\ Nil \notin Nat \cup Statuses \cup Job

VARIABLES
    table,      \* the table that is read: "devices" or "jobs"
    devices,    \* id |-> status
    jobs,       \* id |-> [created_at, active]
    clock,      \* seconds
    scan,       \* the operator: pc, status filter, cursor of the next page
    returned,   \* ids returned so far
    due,        \* history: rows that were there, and matched, during all of the scan
    cursors     \* history: cursors of ListUpdateJobs used so far

pagingVars == <<table, devices, jobs, clock, scan, returned, due, cursors>>
historyVars == <<returned, due, cursors>>

PagingInit ==
    /\ table \in {"devices", "jobs"}
    /\ devices = [d \in DeviceIds |-> Nil]
    /\ jobs = [j \in JobIds |-> Nil]
    /\ clock = 0
    /\ scan = [pc |-> "idle", filter |-> Nil, cursor |-> Nil]
    /\ returned = <<>> /\ due = {} /\ cursors = {}

Matches(d, filter) == devices[d] # Nil /\ filter \in {Nil, devices[d]}
ExistingJobs == {j \in JobIds : jobs[j] # Nil}

Prefix(s, n) == SubSeq(s, 1, IF Len(s) < n THEN Len(s) ELSE n)

\* A page was read: its rows, and the cursor of the next page or Nil.
Answered(rows, cursor) ==
    /\ returned' = returned \o rows
    /\ scan' = [scan EXCEPT !.cursor = cursor, !.pc = IF cursor = Nil THEN "done" ELSE "next"]

-----------------------------------------------------------------------------
(* ListDevices                                                             *)

\* INSERT under a random id.
create_device(d) ==
    /\ table = "devices"
    /\ devices[d] = Nil
    /\ devices' = [devices EXCEPT ![d] = "active"]
    /\ UNCHANGED <<table, jobs, clock, scan, historyVars>>

update_status(d, status) ==
    /\ table = "devices"
    /\ devices[d] \notin {Nil, status}
    /\ devices' = [devices EXCEPT ![d] = status]
    /\ due' = {e \in due : e # d \/ scan.filter \in {Nil, status}}
    /\ UNCHANGED <<table, jobs, clock, scan, returned, cursors>>

StartDeviceScan(filter) ==
    /\ table = "devices"
    /\ scan.pc = "idle"
    /\ scan' = [pc |-> "next", filter |-> filter, cursor |-> Nil]
    /\ due' = {d \in DeviceIds : Matches(d, filter)}
    /\ UNCHANGED <<table, devices, jobs, clock, returned, cursors>>

\* WHERE id > cursor ORDER BY id: i - 1 rows come before the i-th one
RowsAfter(cursor) ==
    LET ids == {d \in DeviceIds : Matches(d, scan.filter) /\ (cursor = Nil \/ d > cursor)}
    IN  [i \in 1 .. Cardinality(ids) |->
           CHOOSE d \in ids : Cardinality({e \in ids : e < d}) = i - 1]

\* Mutant: the cursor is the id of the lookahead row.
list_devices_lookahead ==
    LET rows == Prefix(RowsAfter(scan.cursor), Limit + 1)
    IN  /\ table = "devices"
        /\ scan.pc = "next"
        /\ Answered(Prefix(rows, Limit), IF Len(rows) > Limit THEN rows[Limit + 1] ELSE Nil)
        /\ UNCHANGED <<table, devices, jobs, clock, due, cursors>>

\* One row more than the page is fetched to see whether there is another page.
list_devices ==
    LET rows == Prefix(RowsAfter(scan.cursor), Limit + 1)
    IN  /\ table = "devices"
        /\ scan.pc = "next"
        /\ Answered(Prefix(rows, Limit), IF Len(rows) > Limit THEN rows[Limit] ELSE Nil)
        /\ UNCHANGED <<table, devices, jobs, clock, due, cursors>>

-----------------------------------------------------------------------------
(* ListUpdateJobs                                                          *)

\* Time passes, or the clock is set.
Tick ==
    /\ table = "jobs"
    /\ clock' \in 0 .. MaxClock
    /\ UNCHANGED <<table, devices, jobs, scan, historyVars>>

\* create_job: the device has no active job.
create_job(j) ==
    /\ table = "jobs"
    /\ jobs[j] = Nil
    /\ \A k \in ExistingJobs : ~ jobs[k].active
    /\ jobs' = [jobs EXCEPT ![j] = [created_at |-> clock, active |-> TRUE]]
    /\ UNCHANGED <<table, devices, clock, scan, historyVars>>

\* AckUpdate ends the active job.
finish_job(j) ==
    /\ table = "jobs"
    /\ jobs[j] # Nil /\ jobs[j].active
    /\ jobs' = [jobs EXCEPT ![j].active = FALSE]
    /\ UNCHANGED <<table, devices, clock, scan, historyVars>>

StartJobScan ==
    /\ table = "jobs"
    /\ scan.pc = "idle"
    /\ scan' = [scan EXCEPT !.pc = "next"]
    /\ due' = ExistingJobs
    /\ UNCHANGED <<table, devices, jobs, clock, returned, cursors>>

\* WHERE created_at < cursor ORDER BY created_at DESC, rows of one second in any order
JobsBefore(cursor) ==
    {s \in SetToSeqs({j \in ExistingJobs : cursor = Nil \/ jobs[j].created_at < cursor}) :
        \A i \in 1 .. Len(s) - 1 : jobs[s[i]].created_at >= jobs[s[i + 1]].created_at}

\* Mutant: the next page begins with the second of the last row.
list_for_device_inclusive ==
    /\ table = "jobs"
    /\ scan.pc = "next"
    /\ \E s \in JobsBefore(scan.cursor) :
          LET cursor == IF Len(s) > Limit THEN jobs[s[Limit]].created_at + 1 ELSE Nil
          IN  /\ Answered(Prefix(s, Limit), cursor)
              /\ cursors' = IF cursor = Nil THEN cursors ELSE cursors \cup {cursor}
    /\ UNCHANGED <<table, devices, jobs, clock, due>>

\* The cursor is the created_at of the last row of the page.
list_for_device ==
    /\ table = "jobs"
    /\ scan.pc = "next"
    /\ \E s \in JobsBefore(scan.cursor) :
          LET cursor == IF Len(s) > Limit THEN jobs[s[Limit]].created_at ELSE Nil
          IN  /\ Answered(Prefix(s, Limit), cursor)
              /\ cursors' = IF cursor = Nil THEN cursors ELSE cursors \cup {cursor}
    /\ UNCHANGED <<table, devices, jobs, clock, due>>

-----------------------------------------------------------------------------

PagingNext ==
    \/ \E d \in DeviceIds : create_device(d) \/ \E status \in Statuses : update_status(d, status)
    \/ \E filter \in Statuses \cup {Nil} : StartDeviceScan(filter)
    \/ list_devices
    \/ Tick
    \/ \E j \in JobIds : create_job(j) \/ finish_job(j)
    \/ StartJobScan
    \/ list_for_device

PagingSpec == PagingInit /\ [][PagingNext]_pagingVars

-----------------------------------------------------------------------------
(* Properties                                                              *)

\* A scan of ListDevices misses no device that was enrolled, and matched the filter,
\* from its beginning to its end, and returns none twice, whatever devices enroll or
\* change their status between its pages (list_devices).
DeviceScanExact ==
    table = "devices" =>
        /\ IsInjective(returned)
        /\ scan.pc = "done" => due \subseteq ToSet(returned)

\* A scan of ListUpdateJobs returns no job twice, and misses a job only if a page
\* ended within the second in which that job was created (list_for_device).
JobScanMissesOnlyTies ==
    table = "jobs" =>
        /\ IsInjective(returned)
        /\ scan.pc = "done" =>
              \A j \in due \ ToSet(returned) : jobs[j].created_at \in cursors

=============================================================================
