--------------------------- MODULE ScanCoordinator ---------------------------
(***************************************************************************)
(* Scans of one library (internal/scancoord): several server processes     *)
(* compete for the library's lease; each scan is a goroutine that reads    *)
(* its cancellation, renews the lease and at the end settles its row and   *)
(* gives the lease back in one transaction.  A settlement that fails is    *)
(* handed to a worker that writes it to a table, from which a periodic     *)
(* loop of any process settles the scan later.                             *)
(*                                                                         *)
(* Libraries share nothing, so one is enough.  A scan is its number; its   *)
(* owner token is unique to it and is the number too.  The row is created  *)
(* waiting and made running in one transaction, so waiting is never seen.  *)
(***************************************************************************)
EXTENDS Integers

CONSTANTS
    Servers,     \* server processes
    NoServer,
    MaxScans,    \* bound: scans accepted
    MaxDowns     \* bound: crashes and stops of servers

ASSUME BoundAssumption ==
    /\ NoServer \notin Servers
    /\ MaxScans \in Nat /\ MaxDowns \in Nat

Scans == 1..MaxScans
Ended == {"done", "failed", "cancelled"}

\* A scan's goroutine, from the commit of Submit to the end of run() and of
\* its settlement; then it is "gone", or "lost" without having settled.
Alive == {"accepted", "starting", "scanning", "stopping", "returned", "closing", "unsettled"}

VARIABLES
    status,     \* scan_task.status, "none" before and "removed" after its life
    cancelled,  \* scan_task.cancelled
    lease,      \* scan_lease: the scan that holds it, 0 if there is no row
    lapsed,     \* lease_until is in the past
    server,     \* the process that runs its goroutine
    phase,      \* where that stands
    outcome,    \* scanErr until it is used: "ok" or "error"
    wanted,     \* the status that run() decided to write, while it may be
    stopped,    \* its context is cancelled, while it matters
    rec,        \* it has a row in scan_finalize_recovery, with wanted
    claim,      \* claim_owner of that row, by the loop of which server
    stale,      \* claim_until is in the past
    worker,     \* the recovery loop of each server: [scan, pc]
    mode,       \* "up", "closing", "stopped" (cleanly) or "down"
    entered,    \* a Submit is past its check of shuttingDown
    downs

scans == <<status, cancelled, lease, lapsed>>
locals == <<phase, outcome, wanted, stopped>>
recovery == <<rec, claim, stale, worker>>
process == <<mode, entered, downs>>
vars == <<scans, server, locals, recovery, process>>

Idle == [scan |-> 0, pc |-> "idle"]

Init ==
    /\ status = [t \in Scans |-> "none"]
    /\ cancelled = [t \in Scans |-> FALSE]
    /\ lease = 0 /\ lapsed = FALSE
    /\ server = [t \in Scans |-> NoServer]
    /\ phase = [t \in Scans |-> "none"]
    /\ outcome = [t \in Scans |-> "ok"]
    /\ wanted = [t \in Scans |-> "none"]
    /\ stopped = [t \in Scans |-> FALSE]
    /\ rec = [t \in Scans |-> FALSE]
    /\ claim = [t \in Scans |-> NoServer]
    /\ stale = [t \in Scans |-> FALSE]
    /\ worker = [s \in Servers |-> Idle]
    /\ mode = [s \in Servers |-> "up"]
    /\ entered = [s \in Servers |-> FALSE]
    /\ downs = 0

-----------------------------------------------------------------------------
(* Submit.                                                                 *)

(* Submit passes the check of shuttingDown and joins submitWG.             *)
SubmitEnter(s) ==
    /\ mode[s] = "up"
    /\ ~entered[s]
    /\ entered' = [entered EXCEPT ![s] = TRUE]
    /\ UNCHANGED <<scans, server, locals, recovery, mode, downs>>

(* A lease that stands in the way of a new scan.                           *)
Active == lease # 0 /\ ~lapsed /\ status[lease] = "running" /\ ~cancelled[lease]

(* Fault: a lapsed lease is overwritten, its scan is forgotten. *)
TakenOverSilently == status

(* The scan whose lease lapsed is ended by its successor.                  *)
TakenOver ==
    IF lease # 0 /\ lapsed /\ status[lease] = "running"
    THEN [status EXCEPT ![lease] = IF cancelled[lease] THEN "cancelled" ELSE "failed"]
    ELSE status

(* The transaction of Submit: an active scan is reported, otherwise the    *)
(* lease is taken, also from a live lease of a scan that was cancelled.    *)
SubmitExisting(s) ==
    /\ entered[s]
    /\ Active
    /\ entered' = [entered EXCEPT ![s] = FALSE]
    /\ UNCHANGED <<scans, server, locals, recovery, mode, downs>>

SubmitNew(s, t) ==
    /\ entered[s]
    /\ ~Active
    /\ status[t] = "none" /\ \A u \in Scans : u < t => status[u] # "none"
    /\ status' = [TakenOver EXCEPT ![t] = "running"]
    /\ lease' = t /\ lapsed' = FALSE
    /\ server' = [server EXCEPT ![t] = s]
    /\ phase' = [phase EXCEPT ![t] = "accepted"]
    /\ entered' = [entered EXCEPT ![s] = FALSE]
    /\ UNCHANGED <<cancelled, outcome, wanted, stopped, recovery, mode, downs>>

(* Submit fails: the database is busy, or the caller's context ends.       *)
SubmitFails(s) ==
    /\ entered[s]
    /\ entered' = [entered EXCEPT ![s] = FALSE]
    /\ UNCHANGED <<scans, server, locals, recovery, mode, downs>>

(* The scan is registered in cancels and its goroutine started.            *)
Register(t) ==
    /\ phase[t] = "accepted"
    /\ phase' = [phase EXCEPT ![t] = "starting"]
    /\ UNCHANGED <<scans, server, outcome, wanted, stopped, recovery, process>>

(* The goroutine ends, what it knew with it. *)
Ends(t, p) ==
    /\ phase' = [phase EXCEPT ![t] = p]
    /\ server' = [server EXCEPT ![t] = NoServer]

Forget(t) == wanted' = [wanted EXCEPT ![t] = "none"]

(* The commit was reported as failed and could not be confirmed: the scan  *)
(* holds the lease and has no goroutine.                                   *)
Ambiguous(t) ==
    /\ phase[t] = "accepted"
    /\ Ends(t, "lost")
    /\ UNCHANGED <<scans, outcome, wanted, stopped, recovery, process>>

-----------------------------------------------------------------------------
(* run: the goroutine of a scan.                                           *)

Enter(t, p, err) ==
    /\ phase' = [phase EXCEPT ![t] = p]
    /\ outcome' = [outcome EXCEPT ![t] = IF err THEN "error" ELSE @]
    /\ stopped' = [stopped EXCEPT ![t] = @ /\ p = "scanning"]
    /\ UNCHANGED <<scans, server, wanted, recovery, process>>

(* The first read of the cancellation; a read that fails ends the scan.    *)
Begin(t) ==
    /\ phase[t] = "starting"
    /\ \/ status[t] # "removed" /\ ~cancelled[t] /\ ~stopped[t] /\ Enter(t, "scanning", FALSE)
       \/ Enter(t, "returned", TRUE)

ScanCompletes(t) ==
    /\ phase[t] = "scanning"
    /\ \E err \in BOOLEAN : Enter(t, "returned", err)

(* The heartbeat: the cancellation is read, then the lease renewed.        *)
HeartbeatRenews(t) ==
    /\ phase[t] = "scanning"
    /\ status[t] # "removed" /\ ~cancelled[t]
    /\ lease = t
    /\ lapsed' = FALSE
    /\ UNCHANGED <<status, cancelled, lease, server, locals, recovery, process>>

(* Fault: a heartbeat that renews no lease counts as a renewal. *)
HeartbeatStopsOnCancel(t) ==
    /\ phase[t] = "scanning"
    /\ \/ status[t] = "removed" /\ Enter(t, "stopping", TRUE)
       \/ status[t] # "removed" /\ cancelled[t] /\ Enter(t, "stopping", FALSE)

HeartbeatStops(t) ==
    /\ phase[t] = "scanning"
    /\ \/ status[t] = "removed" /\ Enter(t, "stopping", TRUE)
       \/ status[t] # "removed" /\ cancelled[t] /\ Enter(t, "stopping", FALSE)
       \/ ~cancelled[t] /\ lease # t /\ Enter(t, "stopping", TRUE)

(* A read or a renewal that the database refuses until the retries end.    *)
HeartbeatFails(t) ==
    /\ phase[t] = "scanning"
    /\ Enter(t, "stopping", TRUE)

(* The context of the scan was cancelled by Cancel or by the shutdown.     *)
ContextStops(t) ==
    /\ phase[t] = "scanning"
    /\ stopped[t]
    /\ Enter(t, "stopping", FALSE)

(* The scanner was told to stop, and returns. *)
ScannerReturns(t) ==
    /\ phase[t] = "stopping"
    /\ \E err \in BOOLEAN : Enter(t, "returned", err)

(* The last read of the cancellation decides what run() wants to write.    *)
Decide(t) ==
    /\ phase[t] = "returned"
    /\ \/ /\ status[t] # "removed"
          /\ wanted' = [wanted EXCEPT ![t] = IF cancelled[t] THEN "cancelled"
                                             ELSE IF outcome[t] = "error" THEN "failed" ELSE "done"]
       \/ wanted' = [wanted EXCEPT ![t] = "failed"]
    /\ phase' = [phase EXCEPT ![t] = "closing"]
    /\ outcome' = [outcome EXCEPT ![t] = "ok"]
    /\ UNCHANGED <<scans, server, stopped, recovery, process>>

(* finalizeAndReleaseDB.                                                   *)
(* Fault: what run() decided is written over a later cancellation. *)
SettleAsWanted(t, want) ==
    /\ lease = t
    /\ status' = [status EXCEPT ![t] = want]
    /\ cancelled' = [cancelled EXCEPT ![t] = @ \/ want = "cancelled"]
    /\ lease' = 0 /\ lapsed' = FALSE

(* Fault: the row is settled whoever holds the lease. *)
SettleUnfenced(t, want) ==
    /\ status[t] # "removed"
    /\ status' = [status EXCEPT ![t] = IF cancelled[t] THEN "cancelled" ELSE want]
    /\ cancelled' = [cancelled EXCEPT ![t] = @ \/ want = "cancelled"]
    /\ lease' = 0 /\ lapsed' = FALSE

Settle(t, want) ==
    /\ lease = t
    /\ status' = [status EXCEPT ![t] = IF cancelled[t] THEN "cancelled" ELSE want]
    /\ cancelled' = [cancelled EXCEPT ![t] = @ \/ want = "cancelled"]
    /\ lease' = 0 /\ lapsed' = FALSE

(* The settlement is written, or it is not, or it is and looks failed.     *)
Finalize(t) ==
    /\ phase[t] = "closing"
    /\ \/ Settle(t, wanted[t]) /\ Ends(t, "gone") /\ Forget(t)
       \/ /\ Settle(t, wanted[t]) \/ UNCHANGED scans
          /\ phase' = [phase EXCEPT ![t] = "unsettled"]
          /\ UNCHANGED <<server, wanted>>
    /\ UNCHANGED <<outcome, stopped, recovery, process>>

(* The worker that writes failed settlements to the table drops those      *)
(* whose scan was removed or lost its lease, once a write of it failed.    *)
Persist(t) ==
    /\ phase[t] = "unsettled"
    /\ status[t] # "removed"
    /\ rec' = [rec EXCEPT ![t] = TRUE]
    /\ Ends(t, "gone")
    /\ UNCHANGED <<scans, outcome, wanted, stopped, claim, stale, worker, process>>

Drop(t) ==
    /\ phase[t] = "unsettled"
    /\ lease # t
    /\ Ends(t, "gone") /\ Forget(t)
    /\ UNCHANGED <<scans, outcome, stopped, recovery, process>>

-----------------------------------------------------------------------------
(* RecoverPendingFinalizations: one scan after the other.                  *)

At(s, pc) == worker[s].pc = pc

Go(s, w) ==
    /\ worker' = [worker EXCEPT ![s] = w]
    /\ UNCHANGED <<server, phase, outcome, stopped, process>>

RecoverClaim(s, t) ==
    /\ mode[s] = "up"
    /\ At(s, "idle")
    /\ rec[t] /\ (claim[t] = NoServer \/ stale[t])
    /\ claim' = [claim EXCEPT ![t] = s]
    /\ stale' = [stale EXCEPT ![t] = FALSE]
    /\ Go(s, [scan |-> t, pc |-> "claimed"])
    /\ UNCHANGED <<scans, wanted, rec>>

Held(s, t) == rec[t] /\ claim[t] = s

(* The claim is checked in a statement of its own.                         *)
RecoverCheck(s) ==
    LET t == worker[s].scan IN
    /\ At(s, "claimed")
    /\ IF Held(s, t) /\ ~stale[t]
       THEN Go(s, [scan |-> t, pc |-> "checked"])
       ELSE Go(s, Idle)
    /\ UNCHANGED <<scans, wanted, rec, claim, stale>>

(* A settled scan, and one that lost its lease, is taken off the table.    *)
(* The status is the one read with the claim.                              *)
RecoverSettle(s) ==
    LET t == worker[s].scan IN
    /\ At(s, "checked")
    /\ \/ Settle(t, wanted[t])
       \/ lease # t /\ UNCHANGED scans
    /\ Go(s, [scan |-> t, pc |-> "settled"])
    /\ UNCHANGED <<wanted, rec, claim, stale>>

RecoverDelete(s) ==
    LET t == worker[s].scan IN
    /\ At(s, "settled")
    /\ IF Held(s, t)
       THEN /\ rec' = [rec EXCEPT ![t] = FALSE]
            /\ Forget(t)
            /\ claim' = [claim EXCEPT ![t] = NoServer]
            /\ stale' = [stale EXCEPT ![t] = FALSE]
       ELSE UNCHANGED <<wanted, rec, claim, stale>>
    /\ Go(s, Idle)
    /\ UNCHANGED scans

(* A statement that fails otherwise gives the scan back for another try.   *)
RecoverBackoff(s) ==
    LET t == worker[s].scan IN
    /\ ~At(s, "idle")
    /\ IF Held(s, t)
       THEN /\ claim' = [claim EXCEPT ![t] = NoServer]
            /\ stale' = [stale EXCEPT ![t] = FALSE]
       ELSE UNCHANGED <<claim, stale>>
    /\ Go(s, Idle)
    /\ UNCHANGED <<scans, wanted, rec>>

(* Even that fails, or serverCtx ends: the claim is left to lapse.         *)
RecoverAborts(s) ==
    /\ ~At(s, "idle")
    /\ Go(s, Idle)
    /\ UNCHANGED <<scans, wanted, rec, claim, stale>>

-----------------------------------------------------------------------------
(* Users, clocks and processes.                                            *)

Running(s) == {t \in Scans : server[t] = s}
Listening(t) == phase[t] \in {"starting", "scanning"}

(* Every goroutine of a process ends. *)
AllEnd(s, p) ==
    /\ phase' = [t \in Scans |-> IF t \in Running(s) THEN p ELSE phase[t]]
    /\ server' = [t \in Scans |-> IF t \in Running(s) THEN NoServer ELSE server[t]]
    /\ outcome' = [t \in Scans |-> IF t \in Running(s) THEN "ok" ELSE outcome[t]]
    /\ wanted' = [t \in Scans |-> IF t \in Running(s) THEN "none" ELSE wanted[t]]
    /\ stopped' = [t \in Scans |-> stopped[t] /\ t \notin Running(s)]

(* Coordinator.Cancel, of any process: the row, later the context if the   *)
(* scan is registered in the same process.                                 *)
Cancel(t) ==
    /\ status[t] = "running" /\ ~cancelled[t]
    /\ cancelled' = [cancelled EXCEPT ![t] = TRUE]
    /\ UNCHANGED <<status, lease, lapsed, server, locals, recovery, process>>

CancelContext(t) ==
    /\ cancelled[t] /\ ~stopped[t]
    /\ Listening(t)
    /\ stopped' = [stopped EXCEPT ![t] = TRUE]
    /\ UNCHANGED <<scans, server, phase, outcome, wanted, recovery, process>>

(* Fault: the rows that refer to the scan stay. *)
RemoveRowOnly(t) ==
    /\ \/ status[t] \in Ended
       \/ status[t] = "running" /\ cancelled[t]
    /\ status' = [status EXCEPT ![t] = "removed"]
    /\ cancelled' = [cancelled EXCEPT ![t] = FALSE]
    /\ UNCHANGED <<lease, lapsed, server, locals, recovery, process>>

(* ScanTaskController.Remove: a row that looks ended, and with it its      *)
(* lease and its recovery record (ON DELETE CASCADE).                      *)
Remove(t) ==
    /\ \/ status[t] \in Ended
       \/ status[t] = "running" /\ cancelled[t]
    /\ status' = [status EXCEPT ![t] = "removed"]
    /\ cancelled' = [cancelled EXCEPT ![t] = FALSE]
    /\ lease' = IF lease = t THEN 0 ELSE lease
    /\ lapsed' = (lapsed /\ lease # t)
    /\ rec' = [rec EXCEPT ![t] = FALSE]
    /\ claim' = [claim EXCEPT ![t] = NoServer]
    /\ stale' = [stale EXCEPT ![t] = FALSE]
    /\ IF rec[t] THEN Forget(t) ELSE UNCHANGED wanted
    /\ UNCHANGED <<server, phase, outcome, stopped, worker, process>>

LeaseLapses ==
    /\ lease # 0 /\ ~lapsed
    /\ lapsed' = TRUE
    /\ UNCHANGED <<status, cancelled, lease, server, locals, recovery, process>>

ClaimLapses(t) ==
    /\ claim[t] # NoServer /\ ~stale[t]
    /\ stale' = [stale EXCEPT ![t] = TRUE]
    /\ UNCHANGED <<scans, server, locals, rec, claim, worker, process>>

(* ShutdownContext: no new Submit, those under way are waited for, then    *)
(* every context is cancelled, then goroutines and worker are waited for.  *)
(* The recovery loop ended before.                                         *)
Shutdown(s) ==
    /\ mode[s] = "up" /\ At(s, "idle")
    /\ downs < MaxDowns /\ downs' = downs + 1
    /\ mode' = [mode EXCEPT ![s] = "closing"]
    /\ UNCHANGED <<scans, server, locals, recovery, entered>>

(* Fault: a scan that runs already is not cancelled. *)
ShutdownCancelsStarting(s) ==
    /\ mode[s] = "closing"
    /\ ~entered[s] /\ \A t \in Running(s) : phase[t] # "accepted"
    /\ \E t \in Running(s) : phase[t] = "starting" /\ ~stopped[t]
    /\ stopped' = [t \in Scans |-> stopped[t] \/ (t \in Running(s) /\ phase[t] = "starting")]
    /\ UNCHANGED <<scans, server, phase, outcome, wanted, recovery, process>>

ShutdownCancels(s) ==
    /\ mode[s] = "closing"
    /\ ~entered[s] /\ \A t \in Running(s) : phase[t] # "accepted"
    /\ \E t \in Running(s) : Listening(t) /\ ~stopped[t]
    /\ stopped' = [t \in Scans |-> stopped[t] \/ (t \in Running(s) /\ Listening(t))]
    /\ UNCHANGED <<scans, server, phase, outcome, wanted, recovery, process>>

(* Fault: the worker is not waited for. *)
ShutdownReturnsEarly(s) ==
    /\ mode[s] = "closing"
    /\ ~entered[s] /\ \A t \in Running(s) : phase[t] = "unsettled"
    /\ mode' = [mode EXCEPT ![s] = "stopped"]
    /\ AllEnd(s, "gone")
    /\ UNCHANGED <<scans, recovery, entered, downs>>

ShutdownReturns(s) ==
    /\ mode[s] = "closing"
    /\ ~entered[s] /\ Running(s) = {}
    /\ mode' = [mode EXCEPT ![s] = "stopped"]
    /\ UNCHANGED <<scans, server, locals, recovery, entered, downs>>

(* The process dies, or its shutdown runs into the deadline.               *)
Crash(s) ==
    /\ mode[s] \in {"up", "closing"}
    /\ mode[s] = "up" => downs < MaxDowns
    /\ downs' = IF mode[s] = "up" THEN downs + 1 ELSE downs
    /\ mode' = [mode EXCEPT ![s] = "down"]
    /\ entered' = [entered EXCEPT ![s] = FALSE]
    /\ AllEnd(s, "lost")
    /\ worker' = [worker EXCEPT ![s] = Idle]
    /\ UNCHANGED <<scans, rec, claim, stale>>

StartServer(s) ==
    /\ mode[s] \in {"stopped", "down"}
    /\ mode' = [mode EXCEPT ![s] = "up"]
    /\ UNCHANGED <<scans, server, locals, recovery, entered, downs>>

-----------------------------------------------------------------------------

Submit(s) == SubmitExisting(s) \/ SubmitFails(s) \/ \E t \in Scans : SubmitNew(s, t)

Run(t) ==
    \/ Register(t) \/ Ambiguous(t) \/ Begin(t)
    \/ ScanCompletes(t) \/ HeartbeatRenews(t) \/ HeartbeatStops(t) \/ HeartbeatFails(t)
    \/ ContextStops(t) \/ ScannerReturns(t)
    \/ Decide(t) \/ Finalize(t) \/ Persist(t) \/ Drop(t)

Recovery(s) ==
    \/ \E t \in Scans : RecoverClaim(s, t)
    \/ RecoverCheck(s) \/ RecoverSettle(s) \/ RecoverDelete(s)
    \/ RecoverBackoff(s) \/ RecoverAborts(s)

Process(s) ==
    \/ Shutdown(s) \/ ShutdownCancels(s) \/ ShutdownReturns(s) \/ Crash(s) \/ StartServer(s)

Next ==
    \/ \E s \in Servers : SubmitEnter(s) \/ Submit(s) \/ Recovery(s) \/ Process(s)
    \/ \E t \in Scans : Run(t) \/ Cancel(t) \/ CancelContext(t) \/ Remove(t) \/ ClaimLapses(t)
    \/ LeaseLapses

Safe == Init /\ [][Next]_vars

(* The monitor submits a scan of every library again and again; goroutines *)
(* run, and a scanner whose context ended returns; an unrenewed lease      *)
(* lapses, and a dead process is started again.  A Submit that is tried    *)
(* again and again goes through once.                                      *)
Fairness ==
    /\ \A s \in Servers :
        /\ WF_vars(SubmitEnter(s)) /\ WF_vars(Submit(s))
        /\ SF_vars(\E t \in Scans : SubmitNew(s, t))
        /\ WF_vars(ShutdownCancels(s)) /\ WF_vars(ShutdownReturns(s)) /\ WF_vars(StartServer(s))
    /\ \A t \in Scans :
        /\ WF_vars(Register(t) \/ Begin(t) \/ ScannerReturns(t) \/ Decide(t) \/ Finalize(t))
        /\ WF_vars(HeartbeatStops(t)) /\ WF_vars(ContextStops(t))
        /\ WF_vars(Persist(t) \/ Drop(t))
    /\ SF_vars(LeaseLapses /\ phase[lease] \notin Alive)

(* The walk of the folders ends: assumed only where it is said.            *)
WalksEnd == \A t \in Scans : WF_vars(ScanCompletes(t))

Spec == Safe /\ Fairness

-----------------------------------------------------------------------------
(* Properties.                                                             *)

(* Every variable keeps its type, and the rows that refer to a scan refer  *)
(* to one that exists.                                                     *)
TypeOK ==
    /\ status \in [Scans -> {"none", "running", "removed"} \cup Ended]
    /\ cancelled \in [Scans -> BOOLEAN]
    /\ lease \in {0} \cup Scans /\ lapsed \in BOOLEAN
    /\ server \in [Scans -> Servers \cup {NoServer}]
    /\ phase \in [Scans -> {"none", "gone", "lost"} \cup Alive]
    /\ outcome \in [Scans -> {"ok", "error"}]
    /\ wanted \in [Scans -> {"none"} \cup Ended]
    /\ stopped \in [Scans -> BOOLEAN]
    /\ rec \in [Scans -> BOOLEAN] /\ stale \in [Scans -> BOOLEAN]
    /\ claim \in [Scans -> Servers \cup {NoServer}]
    /\ worker \in [Servers -> [scan : {0} \cup Scans, pc : {"idle", "claimed", "checked", "settled"}]]
    /\ mode \in [Servers -> {"up", "closing", "stopped", "down"}]
    /\ entered \in [Servers -> BOOLEAN]
    /\ \A t \in Scans : lease = t \/ rec[t] => status[t] \notin {"none", "removed"}
    /\ downs \in 0..MaxDowns

(* No scan is left running, and not told to stop, that no process could    *)
(* finish or take over: what Submit calls active, or will replace, holds   *)
(* the lease.                                                              *)
RunningHoldsLease ==
    \A t \in Scans : status[t] = "running" /\ ~cancelled[t] => lease = t

(* "waits for their database finalization": a goroutine that is gone, as   *)
(* all are after a complete ShutdownContext, has settled its scan, lost it *)
(* to another one, or left a record from which any process settles it.     *)
NothingIsLeftBehind ==
    \A t \in Scans : phase[t] = "gone" => lease # t \/ rec[t]

(* A scan is reported as done only while no later scan of the library was  *)
(* accepted, and with the outcome its goroutine decided.                   *)
DoneWasNotReplaced ==
    [][\A t \in Scans :
        status'[t] = "done" /\ status[t] # "done" =>
            /\ wanted[t] = "done"
            /\ \A u \in Scans : u > t => status'[u] = "none"]_vars

(* The list a user sees keeps the promise of ScanHistory.  It reports the  *)
(* status and the flag, and read together a scan that is told to stop is   *)
(* cancelled from then on.                                                 *)
Shown == [t \in Scans |-> IF status[t] = "running" /\ cancelled[t] THEN "cancelled" ELSE status[t]]

Promise == INSTANCE ScanHistory WITH seen <- Shown, Eventual <- {t \in Scans : t < MaxScans}

ImplementsHistory == Promise!Init /\ [][Promise!Next]_Shown

(* Every scan ends, whatever process dies, if scanners do and if scans go  *)
(* on being submitted: the last one of the bound may have no successor.    *)
EveryScanEnds == WalksEnd => Promise!Ending

(* A scan that was cancelled, replaced or removed stops to touch the        *)
(* library, however long its walk of the folders would still take.         *)
LostLeaseStops ==
    \A t \in Scans : phase[t] = "scanning" /\ (lease # t \/ cancelled[t]) ~> phase[t] # "scanning"

(* ShutdownContext returns, however long the walks would still take.       *)
ShutdownEnds == \A s \in Servers : mode[s] = "closing" ~> mode[s] # "closing"
=============================================================================
