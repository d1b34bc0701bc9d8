------------------------------ MODULE TaskQueue ------------------------------
(***************************************************************************)
(* The post-ingest work queue of the media server: rows of                 *)
(* post_ingest_task (internal/postingest/queue.go), the scheduler          *)
(* reservations that hold their share of the budgets (internal/scheduler), *)
(* and the one dispatcher process that claims rows, executes them and      *)
(* settles them (internal/postingest/dispatcher.go), together with what    *)
(* happens behind its back: leases that lapse, the reservation reconciler, *)
(* administrators, cancelled scans, shutdown, crash and restart.           *)
(*                                                                         *)
(* Every claim is an execution.  It owns a fresh token (lease_owner) in    *)
(* the row and a fresh reservation; both carry the same 90 second lease,   *)
(* written together by claim and by heartbeat, so one value per execution  *)
(* stands for both.  Database transactions are atomic: SQLite serialises   *)
(* writers.  Clocks, backoff, priorities and error texts are abstracted.   *)
(***************************************************************************)
EXTENDS Integers, FiniteSets

CONSTANTS
    Tasks,        \* rows of post_ingest_task
    NoTask,       \* the task of an execution that was never claimed
    Types,        \* task types
    TypeOf,       \* [Tasks -> Types]
    ScanTasks,    \* tasks enqueued by the scan that may be cancelled
    Published,    \* of those, optional tasks of a run that is already published
    AtomicTypes,  \* types whose executor settles the row itself (poster, thumbnail, encrypt)
    Pausable,     \* types an administrator may pause and resume
    MaxAttempts,  \* [Types -> Nat], column max_attempts
    Limit,        \* [Types -> Nat], TypeConcurrency of the queue's policy
    Resources,    \* resource kinds and providers
    Capacity,     \* [Resources -> Nat], 0 is "no limit configured"
    Cost,         \* [Types -> [Resources -> Nat]], the static registry
    Zone,         \* time zone of the server relative to UTC
    MaxExec,      \* bound: claims ever made
    MaxResets,    \* bound: administrative resets and retries
    MaxCancels    \* bound: CancelTask calls

ASSUME TasksAssumption ==
    /\ NoTask \notin Tasks
    /\ TypeOf \in [Tasks -> Types]
    /\ ScanTasks \subseteq Tasks
    /\ Published \subseteq ScanTasks
    /\ AtomicTypes \subseteq Types
    /\ Pausable \subseteq Types

ASSUME BudgetAssumption ==
    /\ MaxAttempts \in [Types -> Nat \ {0}]
    /\ Limit \in [Types -> Nat]
    /\ Capacity \in [Resources -> Nat]
    /\ Cost \in [Types -> [Resources -> Nat]]
    /\ Zone \in {"utc", "east", "west"}

ASSUME BoundAssumption ==
    /\ MaxExec \in Nat
    /\ MaxResets \in Nat
    /\ MaxCancels \in Nat

Execs == 1..MaxExec
NoExec == 0

Terminal == {"done", "failed", "cancelled"}
RowStates == {"absent", "waiting", "running"} \cup Terminal

(* Where an execution is: in the hands of the dispatcher's loop (claimed,  *)
(* verified), in its runTask goroutine (running, finishing, isolating,     *)
(* cleanup, releasing), or left behind with an executor that ignored its   *)
(* cancelled context (handedOff).                                          *)
InLoop == {"claimed", "verified"}
Executing == {"running", "isolating", "handedOff"}
Registered == {"running", "finishing", "isolating", "handedOff", "cleanup"}
Phases == {"unused", "releasing", "gone"} \cup InLoop \cup Registered

Outcomes == {"none", "committed", "uncertain", "done",
             "retryable", "permanent", "cancelled", "shutdown"}

VARIABLES
    status,    \* [Tasks -> RowStates]
    owner,     \* [Tasks -> Execs \cup {NoExec}], lease_owner
    attempts,  \* [Tasks -> Nat]
    inScan,    \* tasks whose scan_task_id is set
    res,       \* [Execs -> {"none", "active", "released"}], scheduler_reservation
    lease,     \* [Execs -> {"none", "live", "lapsed", "late"}]; late: renewed after it had lapsed
    phase,     \* [Execs -> Phases]
    taskOf,    \* [Execs -> Tasks \cup {NoTask}]
    stop,      \* [Execs -> {"none", "cancelled", "retryable"}], workerState.kind
    outcome,   \* [Execs -> Outcomes], what the executor returned or the loop decided
    running,   \* [Tasks -> Execs \cup {NoExec}], Dispatcher.running
    reaper,    \* reservations the expiry reconciler has listed and not yet released
    proc,      \* the server process: "up", "stopping" or "down"
    scan,      \* "live", then "cancelling" (committed), then "cancelled" (dispatcher told)
    paused,    \* task types whose scheduler_control state is not running
    forced,    \* [Tasks -> {"none", "armed", "written"}], pending CancelTask timer
    target,    \* [Tasks -> Execs \cup {NoExec}], the execution CancelTask found registered
    claims, resets, cancels   \* counters for the bounds

rowVars  == <<status, owner, attempts>>
execVars == <<phase, taskOf, stop, outcome, running>>
leaseVars == <<res, lease>>
envVars  == <<proc, scan, paused, inScan>>
counters == <<claims, resets, cancels>>
timers == <<forced, target>>
vars == <<rowVars, execVars, leaseVars, envVars, reaper, timers, counters>>

-----------------------------------------------------------------------------
(* Reading the tables.                                                     *)

Owned(e) == taskOf[e] \in Tasks /\ owner[taskOf[e]] = e

ScanCancelled(t) == t \in inScan /\ scan # "live"

(* Reservations that count against the budgets: active and not lapsed.     *)
Counted == {e \in Execs : res[e] = "active" /\ lease[e] # "lapsed"}

CountedOf(ty) == {e \in Counted : TypeOf[taskOf[e]] = ty}

(* The units of resource r that reservations S hold, one by one: a         *)
(* reservation holds as many as its type costs.                            *)
Units(r, S) == UNION {{e} \X (1..Cost[TypeOf[taskOf[e]]][r]) : e \in S}

Usage(r) == Cardinality(Units(r, Counted))

(* Fault: the last slot is handed out twice. *)
WithinTypeOffByOne(ty) == Cardinality(CountedOf(ty)) <= Limit[ty]

WithinType(ty) == Cardinality(CountedOf(ty)) < Limit[ty]

(* Fault: the requested units are not added to the usage. *)
WithinResourcesUsedOnly(ty) ==
    \A r \in Resources :
        Cost[ty][r] > 0 /\ Capacity[r] > 0 => Usage(r) <= Capacity[r]

WithinResources(ty) ==
    \A r \in Resources :
        Cost[ty][r] > 0 /\ Capacity[r] > 0 => Usage(r) + Cost[ty][r] <= Capacity[r]

Admits(ty) == ty \notin paused /\ WithinType(ty) /\ WithinResources(ty)

Eligible(t) ==
    /\ status[t] = "waiting"
    /\ attempts[t] < MaxAttempts[TypeOf[t]]
    /\ ~ScanCancelled(t)

(* The periodic recovery compares lease_until, written as a local time, as *)
(* text with the UTC CURRENT_TIMESTAMP: east of Greenwich a lapsed lease   *)
(* looks live for hours, west of it a live one looks lapsed.               *)
LooksExpired(e) ==
    CASE Zone = "utc"  -> lease[e] = "lapsed"
      [] Zone = "east" -> FALSE
      [] Zone = "west" -> TRUE

(* Fault: the last attempt counts as one more to come. *)
RecoveredOffByOne(t) ==
    IF ScanCancelled(t) THEN "cancelled"
    ELSE IF attempts[t] > MaxAttempts[TypeOf[t]] THEN "failed" ELSE "waiting"

(* A row that lost its process or its lease.                               *)
Recovered(t) ==
    IF ScanCancelled(t) THEN "cancelled"
    ELSE IF attempts[t] >= MaxAttempts[TypeOf[t]] THEN "failed" ELSE "waiting"

-----------------------------------------------------------------------------
(* Writing the tables.                                                     *)

SetRow(t, st) ==
    /\ status' = [status EXCEPT ![t] = st]
    /\ owner' = [owner EXCEPT ![t] = NoExec]

SetRows(S, st(_)) ==
    /\ status' = [t \in Tasks |-> IF t \in S THEN st(t) ELSE status[t]]
    /\ owner' = [t \in Tasks |-> IF t \in S THEN NoExec ELSE owner[t]]

Release(S) == res' = [e \in Execs |-> IF e \in S /\ res[e] = "active"
                                      THEN "released" ELSE res[e]]

(* workerState.stop: the first cause wins, and once the executor returned  *)
(* nobody reads it again.                                                  *)
Stop(S, k) ==
    stop' = [e \in Execs |-> IF e \in S /\ phase[e] = "running" /\ stop[e] = "none"
                             THEN k ELSE stop[e]]

Forget(f, e) == f' = [f EXCEPT ![e] = "none"]

Move(e, p) == phase' = [phase EXCEPT ![e] = p]

Init ==
    /\ status = [t \in Tasks |-> "absent"]
    /\ owner = [t \in Tasks |-> NoExec]
    /\ attempts = [t \in Tasks |-> 0]
    /\ inScan = ScanTasks
    /\ res = [e \in Execs |-> "none"]
    /\ lease = [e \in Execs |-> "none"]
    /\ phase = [e \in Execs |-> "unused"]
    /\ taskOf = [e \in Execs |-> NoTask]
    /\ stop = [e \in Execs |-> "none"]
    /\ outcome = [e \in Execs |-> "none"]
    /\ running = [t \in Tasks |-> NoExec]
    /\ reaper = {}
    /\ proc = "up"
    /\ scan = "live"
    /\ paused = {}
    /\ forced = [t \in Tasks |-> "none"]
    /\ target = [t \in Tasks |-> NoExec]
    /\ claims = 0
    /\ resets = 0
    /\ cancels = 0

-----------------------------------------------------------------------------
(* The dispatcher's loop.                                                  *)

(* Enqueue: INSERT ... ON CONFLICT DO NOTHING.                             *)
Enqueue(t) ==
    /\ proc = "up"
    /\ status[t] = "absent"
    /\ status' = [status EXCEPT ![t] = "waiting"]
    /\ UNCHANGED <<owner, attempts, execVars, leaseVars, envVars, reaper, timers, counters>>

(* The loop runs one iteration at a time: it claims only when it holds no  *)
(* claim that is still to be launched.                                     *)
LoopFree == \A e \in Execs : phase[e] \notin InLoop

(* ClaimWithAdmission: budgets, candidate, row and reservation in one      *)
(* transaction.                                                            *)
Claim(t) ==
    /\ proc = "up" /\ LoopFree /\ claims < MaxExec
    /\ Eligible(t) /\ Admits(TypeOf[t])
    /\ LET e == claims + 1 IN
        /\ status' = [status EXCEPT ![t] = "running"]
        /\ owner' = [owner EXCEPT ![t] = e]
        /\ attempts' = [attempts EXCEPT ![t] = attempts[t] + 1]
        /\ Move(e, "claimed")
        /\ taskOf' = [taskOf EXCEPT ![e] = t]
        /\ res' = [res EXCEPT ![e] = "active"]
        /\ lease' = [lease EXCEPT ![e] = "live"]
    /\ claims' = claims + 1
    /\ UNCHANGED <<stop, outcome, running, envVars, reaper, timers, resets, cancels>>

(* taskFromClaimPayload reads the row again and drops a claim it no longer *)
(* owns; the reservation stays active.                                     *)
Verify(e) ==
    /\ phase[e] = "claimed"
    /\ Move(e, IF Owned(e) THEN "verified" ELSE "gone")
    /\ UNCHANGED <<rowVars, taskOf, stop, outcome, running, leaseVars, envVars,
                   reaper, timers, counters>>

(* The claim committed but the dispatcher got an error instead of it: the  *)
(* commit's outcome could not be reconciled, the read back failed, or the  *)
(* context was cancelled.                                                  *)
LoseClaim(e) ==
    /\ phase[e] = "claimed"
    /\ Move(e, "gone")
    /\ UNCHANGED <<rowVars, taskOf, stop, outcome, running, leaseVars, envVars,
                   reaper, timers, counters>>

(* launch: register, possibly over an older execution of the same task.    *)
Launch(e) ==
    /\ phase[e] = "verified"
    /\ Move(e, "running")
    /\ running' = [running EXCEPT ![taskOf[e]] = e]
    /\ UNCHANGED <<rowVars, taskOf, stop, outcome, leaseVars, envVars, reaper,
                   timers, counters>>

(* Fault: recovery looks at leases only, not at what is registered. *)
RecoverRegistered ==
    LET rows == {t \in Tasks : status[t] = "running" /\ lease[owner[t]] = "lapsed"}
        rsvs == {e \in Execs : res[e] = "active" /\ LooksExpired(e)}
    IN  /\ proc = "up" /\ LoopFree
        /\ rows # {} \/ rsvs # {}
        /\ SetRows(rows, Recovered)
        /\ Release(rsvs)
        /\ UNCHANGED <<attempts, execVars, lease, envVars, reaper, timers, counters>>

(* Fault: only rows that still have their reservation are recovered. *)
RecoverReserved ==
    LET rows == {t \in Tasks : /\ status[t] = "running"
                               /\ lease[owner[t]] = "lapsed" /\ res[owner[t]] = "active"
                               /\ running[t] = NoExec}
    IN  /\ proc = "up" /\ LoopFree /\ rows # {}
        /\ SetRows(rows, Recovered)
        /\ Release({owner[t] : t \in rows})
        /\ UNCHANGED <<attempts, execVars, lease, envVars, reaper, timers, counters>>

(* The loop's recovery tick.  It leaves alone the tasks and the executions *)
(* registered in this process.                                             *)
Recover ==
    LET rows == {t \in Tasks : /\ status[t] = "running"
                               /\ lease[owner[t]] = "lapsed"
                               /\ running[t] = NoExec}
        rsvs == {e \in Execs : /\ res[e] = "active" /\ LooksExpired(e)
                               /\ \A t \in Tasks : running[t] # e}
    IN  /\ proc = "up" /\ LoopFree
        /\ rows # {} \/ rsvs # {}
        /\ SetRows(rows, Recovered)
        /\ Release(rsvs)
        /\ UNCHANGED <<attempts, execVars, lease, envVars, reaper, timers, counters>>

-----------------------------------------------------------------------------
(* One execution: runTask and its executor.                                *)

(* heartbeatTask.  A busy database defers the renewal, which is no step.   *)
Heartbeat(e) ==
    /\ proc = "up" /\ phase[e] = "running" /\ stop[e] = "none"
    /\ \/ /\ ScanCancelled(taskOf[e])
          /\ Stop({e}, "cancelled")
          /\ UNCHANGED lease
       \/ /\ ~ScanCancelled(taskOf[e]) /\ Owned(e)
          /\ lease' = [lease EXCEPT ![e] = IF @ = "live" THEN "live" ELSE "late"]
          /\ UNCHANGED stop
       \/ /\ ~ScanCancelled(taskOf[e]) /\ ~Owned(e)
          /\ Stop({e}, "retryable")
          /\ UNCHANGED lease
    /\ UNCHANGED <<rowVars, phase, taskOf, outcome, running, res, envVars, reaper,
                   timers, counters>>

(* No progress reported, a failed cancellation check, or a renewal error   *)
(* that is not to be deferred.                                             *)
Stall(e) ==
    /\ phase[e] = "running" /\ stop[e] = "none"
    /\ Stop({e}, "retryable")
    /\ UNCHANGED <<rowVars, phase, taskOf, outcome, running, leaseVars, envVars,
                   reaper, timers, counters>>

(* An executor that settles the row in its own transaction, fenced by the  *)
(* token.  Its context may be dead already: it is the database that says   *)
(* whether it still owns the row.  The reservation is left to cleanup.     *)
CommitAtomically(e) ==
    /\ phase[e] \in Executing /\ TypeOf[taskOf[e]] \in AtomicTypes
    /\ outcome[e] \notin {"committed", "uncertain"} /\ Owned(e)
    /\ SetRow(taskOf[e], "done")
    /\ \/ phase[e] = "running" /\ \E o \in {"committed", "uncertain"} :
                outcome' = [outcome EXCEPT ![e] = o]
       \/ phase[e] # "running" /\ UNCHANGED outcome
    /\ UNCHANGED <<attempts, phase, taskOf, stop, running, leaseVars, envVars,
                   reaper, timers, counters>>

(* Its commit failed and nobody can tell; nothing was written.             *)
CommitUnknown(e) ==
    /\ phase[e] = "running" /\ TypeOf[taskOf[e]] \in AtomicTypes
    /\ outcome[e] = "none"
    /\ outcome' = [outcome EXCEPT ![e] = "uncertain"]
    /\ UNCHANGED <<rowVars, phase, taskOf, stop, running, leaseVars, envVars,
                   reaper, timers, counters>>

(* The executor returned and runTask decides what to write: a dead parent  *)
(* context first, then the recorded stop reason, then the result.          *)
ExecReturn(e) ==
    /\ phase[e] = "running"
    /\ Move(e, "finishing") /\ Forget(stop, e)
    /\ \/ proc # "up" /\ outcome' = [outcome EXCEPT ![e] = "shutdown"]
       \/ /\ proc = "up" /\ stop[e] # "none"
          /\ outcome' = [outcome EXCEPT ![e] = stop[e]]
       \/ /\ proc = "up" /\ stop[e] = "none" /\ outcome[e] = "none"
          /\ \E o \in {"done", "retryable", "permanent", "cancelled", "shutdown"} :
                outcome' = [outcome EXCEPT ![e] = o]
       \/ /\ proc = "up" /\ stop[e] = "none" /\ outcome[e] # "none"
          /\ UNCHANGED outcome
    /\ UNCHANGED <<rowVars, taskOf, running, leaseVars, envVars, reaper,
                   timers, counters>>

(* The context is done - stopped, shut down or past its deadline - and the *)
(* executor did not return within the grace period.                        *)
Unresponsive(e) ==
    /\ phase[e] = "running"
    /\ Move(e, "isolating") /\ Forget(stop, e)
    /\ outcome' = [outcome EXCEPT ![e] =
            IF proc = "up" /\ stop[e] = "cancelled" THEN "cancelled" ELSE "shutdown"]
    /\ UNCHANGED <<rowVars, taskOf, running, leaseVars, envVars, reaper,
                   timers, counters>>

(* Fault: a retryable failure writes its kind instead of a row state. *)
SettledAsKind(e) ==
    IF ScanCancelled(taskOf[e]) THEN "cancelled"
    ELSE IF outcome[e] = "permanent" THEN "failed" ELSE outcome[e]

(* What Complete and Fail make of the row.                                 *)
Settled(e) ==
    LET t == taskOf[e] IN
    IF ScanCancelled(t) THEN "cancelled"
    ELSE CASE outcome[e] = "done" -> "done"
           [] outcome[e] = "permanent" -> "failed"
           [] outcome[e] = "cancelled" -> "cancelled"
           [] outcome[e] = "retryable" ->
                IF attempts[t] >= MaxAttempts[TypeOf[t]] THEN "failed" ELSE "waiting"

(* Fault: the write is not fenced by the token. *)
WritesUnfenced(e) == outcome[e] \in {"done", "permanent", "cancelled", "retryable"}

Writes(e) ==
    /\ Owned(e)
    /\ \/ outcome[e] \in {"done", "permanent", "cancelled", "retryable"}
       \/ outcome[e] = "shutdown" /\ ScanCancelled(taskOf[e])

(* A shutdown failure keeps the row running; a write that is not fenced    *)
(* off settles the row and releases the reservation in one transaction.    *)
Write(e) ==
    /\ phase[e] \in {"finishing", "isolating"}
    /\ Move(e, IF phase[e] = "isolating" THEN "handedOff" ELSE "cleanup")
    /\ IF Writes(e) THEN SetRow(taskOf[e], Settled(e)) /\ Release({e})
                    ELSE UNCHANGED <<status, owner, res>>
    /\ Forget(outcome, e)
    /\ UNCHANGED <<attempts, taskOf, stop, running, lease, envVars, reaper,
                   timers, counters>>

(* The write's ten seconds ran out; runTask only logs it.                  *)
WriteLost(e) ==
    /\ phase[e] \in {"finishing", "isolating"}
    /\ Writes(e)
    /\ Move(e, IF phase[e] = "isolating" THEN "handedOff" ELSE "cleanup")
    /\ Forget(outcome, e)
    /\ UNCHANGED <<rowVars, taskOf, stop, running, leaseVars, envVars,
                   reaper, timers, counters>>

(* The executor left behind returns at last.                               *)
LateReturn(e) ==
    /\ phase[e] = "handedOff"
    /\ Move(e, "cleanup")
    /\ UNCHANGED <<rowVars, taskOf, stop, outcome, running, leaseVars, envVars,
                   reaper, timers, counters>>

(* Fault: unregister by task, not by execution. *)
UnregisterTask(e) ==
    /\ phase[e] = "cleanup"
    /\ Move(e, "releasing")
    /\ running' = [running EXCEPT ![taskOf[e]] = NoExec]
    /\ UNCHANGED <<rowVars, taskOf, stop, outcome, leaseVars, envVars, reaper,
                   timers, counters>>

(* cleanup: unregister, then release the reservation, which may fail.      *)
Unregister(e) ==
    /\ phase[e] = "cleanup"
    /\ Move(e, "releasing")
    /\ running' = [t \in Tasks |-> IF running[t] = e THEN NoExec ELSE running[t]]
    /\ UNCHANGED <<rowVars, taskOf, stop, outcome, leaseVars, envVars, reaper,
                   timers, counters>>

ReleaseAtEnd(e) ==
    /\ phase[e] = "releasing"
    /\ Move(e, "gone")
    /\ Release({e}) \/ UNCHANGED res
    /\ UNCHANGED <<rowVars, taskOf, stop, outcome, running, lease, envVars, reaper,
                   timers, counters>>

-----------------------------------------------------------------------------
(* Time, the expiry reconciler, and the process.                           *)

(* Ninety seconds without a renewal.  Only leases somebody still reads.    *)
Lapse(e) ==
    /\ proc # "down"
    /\ lease[e] \in {"live", "late"}
    /\ Owned(e) \/ res[e] = "active"
    /\ lease' = [lease EXCEPT ![e] = "lapsed"]
    /\ UNCHANGED <<rowVars, execVars, res, envVars, reaper, timers, counters>>

(* Fault: only reservations of executions that own a row are listed. *)
ReaperScanOwned ==
    /\ proc = "up" /\ reaper = {}
    /\ reaper' = {e \in Execs : res[e] = "active" /\ lease[e] = "lapsed" /\ Owned(e)}
    /\ reaper' # {}
    /\ UNCHANGED <<rowVars, execVars, leaseVars, envVars, timers, counters>>

(* ReservationExpiryReconciler.RunOnce lists the lapsed reservations, then *)
(* releases them one by one without looking at their leases again.         *)
ReaperScan ==
    /\ proc = "up" /\ reaper = {}
    /\ reaper' = {e \in Execs : res[e] = "active" /\ lease[e] = "lapsed"}
    /\ reaper' # {}
    /\ UNCHANGED <<rowVars, execVars, leaseVars, envVars, timers, counters>>

ReaperRelease(e) ==
    /\ proc = "up" /\ e \in reaper
    /\ reaper' = reaper \ {e}
    /\ Release({e})
    /\ UNCHANGED <<rowVars, execVars, lease, envVars, timers, counters>>

(* The server context is cancelled: nothing is claimed, renewed, recovered *)
(* or reconciled any more; executions end as shutdown failures.            *)
Shutdown ==
    /\ proc = "up"
    /\ proc' = "stopping"
    /\ UNCHANGED <<rowVars, execVars, leaseVars, scan, paused, inScan, reaper,
                   timers, counters>>

(* The process ends, by itself or killed: its memory is gone.              *)
Down ==
    /\ proc # "down"
    /\ proc' = "down"
    /\ phase' = [e \in Execs |-> IF phase[e] = "unused" THEN "unused" ELSE "gone"]
    /\ stop' = [e \in Execs |-> "none"]
    /\ outcome' = [e \in Execs |-> "none"]
    /\ running' = [t \in Tasks |-> NoExec]
    /\ forced' = [t \in Tasks |-> "none"]
    /\ target' = [t \in Tasks |-> NoExec]
    /\ reaper' = {}
    /\ scan' = IF scan = "cancelling" THEN "cancelled" ELSE scan
    /\ UNCHANGED <<rowVars, taskOf, leaseVars, paused, inScan, counters>>

(* RecoverAllInterrupted runs before the dispatcher is started: every      *)
(* running row and every active reservation is the dead process's.         *)
Restart ==
    /\ proc = "down"
    /\ proc' = "up"
    /\ SetRows({t \in Tasks : status[t] = "running"}, Recovered)
    /\ Release(Execs)
    /\ UNCHANGED <<attempts, execVars, lease, scan, paused, inScan, reaper, timers,
                   counters>>

-----------------------------------------------------------------------------
(* Cancellation and administration.                                        *)

Live(t) == status[t] \in {"waiting", "running"}

(* The scan coordinator's Cancel: its flag and the rows in one             *)
(* transaction.  The rows of a run that is already published stay.         *)
CancelScan ==
    /\ proc = "up" /\ scan = "live" /\ inScan # {}
    /\ scan' = "cancelling"
    /\ SetRows({t \in inScan \ Published : Live(t)}, LAMBDA t : "cancelled")
    /\ UNCHANGED <<attempts, execVars, leaseVars, proc, paused, inScan, reaper,
                   timers, counters>>

(* Then Dispatcher.CancelScan stops the executions it finds registered.    *)
CancelScanMemory ==
    /\ proc # "down" /\ scan = "cancelling"
    /\ scan' = "cancelled"
    /\ Stop({running[t] : t \in inScan}, "cancelled")
    /\ UNCHANGED <<rowVars, phase, taskOf, outcome, running, leaseVars, proc, paused,
                   inScan, reaper, timers, counters>>

(* AdminCancelTask and AdminCancelEncrypt; cancelling or superseding the   *)
(* task's run does the same to its row.  The reservation is not released.  *)
CancelRow(t) ==
    /\ proc = "up" /\ Live(t)
    /\ SetRow(t, "cancelled")
    /\ UNCHANGED <<attempts, execVars, leaseVars, envVars, reaper, timers, counters>>

(* Dispatcher.CancelTask: stop the registered execution and start a timer. *)
CancelTask(t) ==
    /\ proc = "up" /\ cancels < MaxCancels
    /\ status[t] # "absent" /\ forced[t] = "none"
    /\ cancels' = cancels + 1
    /\ forced' = [forced EXCEPT ![t] = "armed"]
    /\ target' = [target EXCEPT ![t] = running[t]]
    /\ Stop({running[t]}, "cancelled")
    /\ UNCHANGED <<rowVars, phase, taskOf, outcome, running, leaseVars, envVars,
                   reaper, claims, resets>>

(* Fault: the forced cancellation does not look at the row's state. *)
ForceWriteAny(t) ==
    /\ proc # "down" /\ forced[t] = "armed"
    /\ forced' = [forced EXCEPT ![t] = "written"]
    /\ SetRow(t, "cancelled")
    /\ UNCHANGED <<attempts, execVars, leaseVars, envVars, reaper, target, counters>>

(* When it fires it cancels whatever the row holds by then ...             *)
ForceWrite(t) ==
    /\ proc # "down" /\ forced[t] = "armed"
    /\ forced' = [forced EXCEPT ![t] = "written"]
    /\ IF Live(t) THEN SetRow(t, "cancelled") ELSE UNCHANGED <<status, owner>>
    /\ UNCHANGED <<attempts, execVars, leaseVars, envVars, reaper, target, counters>>

(* ... and stops whatever is registered by then.                           *)
ForceStop(t) ==
    /\ proc # "down" /\ forced[t] = "written"
    /\ forced' = [forced EXCEPT ![t] = "none"]
    /\ target' = [target EXCEPT ![t] = NoExec]
    /\ Stop({running[t]}, "cancelled")
    /\ UNCHANGED <<rowVars, phase, taskOf, outcome, running, leaseVars, envVars,
                   reaper, counters>>

(* AdminResetEncrypt: a terminal row, or a running one whose lease lapsed. *)
Reset(t) ==
    /\ proc = "up" /\ resets < MaxResets
    /\ \/ status[t] \in Terminal
       \/ status[t] = "running" /\ lease[owner[t]] = "lapsed"
    /\ resets' = resets + 1
    /\ SetRow(t, "waiting")
    /\ attempts' = [attempts EXCEPT ![t] = 0]
    /\ UNCHANGED <<execVars, leaseVars, envVars, reaper, timers, claims, cancels>>

(* An explicit retry detaches the row from its scan.                       *)
Retry(t) ==
    /\ proc = "up" /\ resets < MaxResets
    /\ status[t] \in Terminal
    /\ resets' = resets + 1
    /\ SetRow(t, "waiting")
    /\ attempts' = [attempts EXCEPT ![t] = 0]
    /\ inScan' = inScan \ {t}
    /\ UNCHANGED <<execVars, leaseVars, proc, scan, paused, reaper, timers, claims,
                   cancels>>

(* scheduler_control: pause or drain, and resume.                          *)
SetControl(ty) ==
    /\ proc = "up" /\ ty \in Pausable
    /\ paused' = IF ty \in paused THEN paused \ {ty} ELSE paused \cup {ty}
    /\ UNCHANGED <<rowVars, execVars, leaseVars, proc, scan, inScan, reaper, timers,
                   counters>>

-----------------------------------------------------------------------------
LoopStep(e) == Verify(e) \/ LoseClaim(e) \/ Launch(e)

Execution(e) ==
    \/ Heartbeat(e) \/ Stall(e) \/ CommitAtomically(e) \/ CommitUnknown(e)
    \/ ExecReturn(e) \/ Unresponsive(e) \/ Write(e) \/ WriteLost(e)
    \/ LateReturn(e) \/ Unregister(e) \/ ReleaseAtEnd(e)

Admin(t) ==
    \/ CancelRow(t) \/ CancelTask(t) \/ ForceWrite(t) \/ ForceStop(t)
    \/ Reset(t) \/ Retry(t)

Next ==
    \/ \E t \in Tasks : Enqueue(t) \/ Claim(t) \/ Admin(t)
    \/ \E e \in Execs : LoopStep(e) \/ Execution(e) \/ Lapse(e) \/ ReaperRelease(e)
    \/ Recover \/ ReaperScan \/ Shutdown \/ Down \/ Restart
    \/ CancelScan \/ CancelScanMemory
    \/ \E ty \in Types : SetControl(ty)

Spec == Init /\ [][Next]_vars

(* Fairness: runTask, its timers and the background loops keep going; a    *)
(* task has a deadline, so its executor returns or is given up; an         *)
(* executor that was given up returns at last.  Nobody renews the lease of *)
(* an execution that no longer runs, so that lease lapses.  A server that  *)
(* stops goes down and is started again.                                   *)
Fairness ==
    /\ \A e \in Execs :
        /\ WF_vars(Verify(e) \/ LoseClaim(e)) /\ WF_vars(Launch(e))
        /\ WF_vars(ExecReturn(e) \/ Unresponsive(e))
        /\ WF_vars(Write(e) \/ WriteLost(e)) /\ WF_vars(LateReturn(e))
        /\ WF_vars(Unregister(e)) /\ WF_vars(ReleaseAtEnd(e))
        /\ WF_vars(ReaperRelease(e))
        /\ WF_vars(phase[e] # "running" /\ Lapse(e))
    /\ WF_vars(Recover) /\ WF_vars(ReaperScan)
    /\ WF_vars(proc = "stopping" /\ Down) /\ WF_vars(Restart)

FairSpec == Spec /\ Fairness

-----------------------------------------------------------------------------
(* Properties.                                                             *)

(* Every variable has its type: the columns and the dispatcher's maps hold *)
(* the values the code writes.                                             *)
TypeOK ==
    /\ status \in [Tasks -> RowStates]
    /\ owner \in [Tasks -> Execs \cup {NoExec}]
    /\ attempts \in [Tasks -> Nat]
    /\ inScan \subseteq Tasks
    /\ res \in [Execs -> {"none", "active", "released"}]
    /\ lease \in [Execs -> {"none", "live", "lapsed", "late"}]
    /\ phase \in [Execs -> Phases]
    /\ taskOf \in [Execs -> Tasks \cup {NoTask}]
    /\ stop \in [Execs -> {"none", "cancelled", "retryable"}]
    /\ outcome \in [Execs -> Outcomes]
    /\ running \in [Tasks -> Execs \cup {NoExec}]
    /\ reaper \subseteq Execs
    /\ proc \in {"up", "stopping", "down"}
    /\ scan \in {"live", "cancelling", "cancelled"}
    /\ paused \subseteq Types
    /\ forced \in [Tasks -> {"none", "armed", "written"}]
    /\ target \in [Tasks -> Execs \cup {NoExec}]
    /\ claims \in 0..MaxExec
    /\ resets \in 0..MaxResets
    /\ cancels \in 0..MaxCancels

(* The dispatcher's map (dispatcher.go runningSnapshot, unregister) always *)
(* finds the execution that owns a row: however executions of one task     *)
(* overlap, none that still holds the row's token is hidden or forgotten   *)
(* before its cleanup.                                                     *)
RegisteredWhileOwned ==
    \A e \in Execs : phase[e] \in Registered /\ Owned(e) => running[taskOf[e]] = e

(* An execution whose lease never lapsed and that still owns its row pays  *)
(* for its slot: neither the reconciler, nor recovery, nor a cancelled or  *)
(* retried predecessor releases its reservation.                           *)
FreshLeaseHoldsReservation ==
    \A e \in Execs :
        phase[e] \notin {"releasing", "gone"} /\ Owned(e) /\ lease[e] = "live"
            => res[e] = "active"

Fresh(ty) ==
    {e \in Execs : res[e] = "active" /\ lease[e] = "live" /\ TypeOf[taskOf[e]] = ty}

(* Admission (admission.go CheckTypeConcurrency) keeps each type within    *)
(* its limit, not counting reservations whose lease lapsed and was renewed *)
(* late.                                                                   *)
FreshWithinLimit == \A ty \in Types : Cardinality(Fresh(ty)) <= Limit[ty]

(* The same for every resource and provider budget (CheckResourceBudget,   *)
(* CheckProviderBudget) over all types together.                           *)
FreshWithinCapacity ==
    \A r \in Resources : Capacity[r] > 0 =>
        Cardinality(Units(r, UNION {Fresh(ty) : ty \in Types})) <= Capacity[r]

(* No retry, recovery or reset (Fail, recoverRunning, AdminResetEncrypt)   *)
(* puts back a row whose attempts are used up: claims would pass it over   *)
(* for ever.                                                               *)
WaitingHasAttemptsLeft ==
    \A t \in Tasks : status[t] = "waiting" => attempts[t] < MaxAttempts[TypeOf[t]]

DoneByHolder ==
    \A t \in Tasks : status[t] # "done" /\ status'[t] = "done" =>
        /\ owner[t] # NoExec
        /\ phase[owner[t]] \in Executing \cup {"finishing"}
        /\ status[t] = "running"

(* A row becomes done only through the execution that holds its token,     *)
(* while this execution is alive: not through a predecessor that was       *)
(* cancelled, recovered or reset, and not through recovery.                *)
SettledByHolder == [][DoneByHolder]_vars

LeftByReset ==
    \A t \in Tasks :
        status[t] \in Terminal /\ status'[t] # status[t] => resets' > resets

(* done, failed and cancelled are left only by an administrator's reset or *)
(* retry, whatever late writes and timers are still pending.               *)
TerminalUntilReset == [][LeftByReset]_vars

TakenAfterEnd ==
    \A t \in Tasks :
        status[t] = "running" /\ status'[t] \in {"waiting", "failed"} /\ resets' = resets
        => \/ phase[owner[t]] \in {"releasing", "gone"}
           \/ /\ phase[owner[t]] = "finishing"
              /\ outcome[owner[t]] \in {"retryable", "permanent"}

(* A row goes back to waiting or to failed, other than by a reset, only    *)
(* through the write of its own execution or once this execution is over:  *)
(* recovery never takes a row from an executor that is still running, even *)
(* when its lease lapsed (dispatcher.go Start).                            *)
RecoverySparesLive == [][TakenAfterEnd]_vars

(* An execution as a worker: it decides when its executor returned within  *)
(* the grace period, and is over when nothing of it can touch the row.     *)
WorkerOf(e) ==
    CASE phase[e] = "unused" -> "new"
      [] phase[e] \in InLoop \cup Executing -> "working"
      [] phase[e] = "finishing" -> "decided"
      [] OTHER -> "over"

(* The queue, whatever lapses, crashes or overlaps behind it, is the plain *)
(* queue of LeasedWork: a row is held by one execution at a time, every    *)
(* claim costs an attempt, and only the holder settles the row.            *)
Promise == INSTANCE LeasedWork WITH
    Workers <- Execs, Nobody <- NoExec,
    Tries <- [t \in Tasks |-> MaxAttempts[TypeOf[t]]],
    task <- [t \in Tasks |-> IF status[t] = "running" THEN "held" ELSE status[t]],
    holder <- owner,
    used <- attempts,
    worker <- [e \in Execs |-> WorkerOf(e)]
ImplementsLeasedWork == Promise!Safe

(* A row whose execution is over - its claim lost, its last write lost,    *)
(* its process dead - does not stay running.                               *)
OrphanReclaimed == Promise!Reclaimed

(* The budget of an execution that is gone comes back.                     *)
ReservationReturned ==
    \A e \in Execs :
        (res[e] = "active" /\ phase[e] = "gone") ~> (res[e] = "released")

(* dispatcher.go, releaseReservation: "the shutdown-unresponsive path      *)
(* retains budget while the executor is unresponsive and releases here".   *)
UnresponsiveHoldsBudget ==
    \A e \in Execs :
        phase[e] = "handedOff" /\ Owned(e) => res[e] = "active"

(* dispatcher.go, CancelTask: "then force-cancels in DB after grace if the *)
(* executor has not released the slot".  So the timer of a cancellation    *)
(* never hits a later execution of the task.                               *)
ForcedCancelOnlyWhileHeld ==
    [][\A t \in Tasks :
        /\ forced[t] = "armed" /\ forced'[t] = "written"
        /\ status[t] = "running" /\ status'[t] = "cancelled"
        /\ target[t] \notin {NoExec, owner[t]}
        => phase[target[t]] # "gone"]_vars

(* main.go, OnScanCancelled: cancelling a scan cancels its post-ingest     *)
(* tasks with it ("synchronously"), so none of them is left waiting.       *)
ScanCancelReachesTasks ==
    [][scan = "live" /\ scan' # "live" => \A t \in inScan : status'[t] # "waiting"]_vars

=============================================================================
