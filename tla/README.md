# Vauldy: a TLA+ model of its background work

Vauldy is a media server.  Scanning a library enqueues work for every medium
(posters, previews, subtitles, encryption, ...), and one server process claims
that work from SQLite tables, executes it with external tools and publishes the
medium when its required steps are done.  This directory holds a model of that
machinery, written from the code, the instances TLC checks, and the theorems
TLAPS proves.

## 1. Inventory

| Component | Source (under `src/`) | State | Operations |
|---|---|---|---|
| Post-ingest queue | `internal/postingest/queue.go` | rows of `post_ingest_task`: status, lease_owner, lease_until, attempts, scan_task_id | Enqueue, Claim, Renew, Complete, Fail, recover, cancel, reset, retry, bump, remove, purge |
| Dispatcher | `internal/postingest/dispatcher.go` | maps `running` and `scans`, one `workerState` per execution | claim loop, launch, heartbeat, stop, hand-off, cleanup, CancelScan, CancelTask |
| Scheduler admission | `internal/scheduler/admission.go`, `release.go`, `store.go` | `scheduler_reservation`, `scheduler_control`, `scheduler_fairness` | check budgets, insert, renew, release |
| Scheduler policy | `internal/scheduler/service.go` | revisions, runtime overrides, in-memory policy | ApplyRuntimeOverride, Reload, Control, Snapshot |
| Reservation reconciler | `cmd/server/reservation_reconciler.go` | none | list expired, release |
| Publication | `internal/publication` | runs, steps, dependencies, media state | claim eligibility, aggregate, cancel, supersede, retry, recovery |
| Atomic committers | `internal/postingest/adapters.go`, `poster_atomic.go`, `thumbnail.go` | stage journals, files | stage, commit with the row, clean up |
| Scan coordinator | `internal/scancoord` | `scan_task`, `scan_lease` | start, heartbeat, Cancel, finalize, recover |
| Staged encryption | `internal/storage/staged_encrypt.go`, `internal/postingest/adapters.go`, `encryption_*.go` | `media_encryption_stage_journal`, `media_encrypt_resume`, ciphertext, plaintext, quarantine | stage, journal, hide, commit, clean up, reconcile |
| Ingest repository | `internal/ingest/repository.go` | `ingest_item` with leases and transition tokens | Enqueue, Claim, Finalize, RecoverExpired |
| Task control | `internal/taskcontrol` | the rows above, audit | abort, cancel, remove, reset, reopen, run now, skip |
| Synchronous admission | `internal/scheduler/sync_admission.go` | in-memory counters and reservations | AcquireSync, HeartbeatSync, ReleaseSync |
| JIT streaming | `cmd/scheduler`, `cmd/sliceworker`, `cmd/transcodeworker`, `internal/jit` | Redis queues, locks, sessions | slice, transcode, seek, end session |

How they interact.  The dispatcher's loop asks `Service.Claim`, which calls back
into the queue; `publication.ClaimWithAdmission` checks control state and
budgets, picks a row, takes it and inserts the reservation in one immediate
transaction.  `launch` registers the execution and starts `runTask`, which starts
the executor and renews row and reservation together every heartbeat.  When the
executor ends, `Complete` or `Fail` settles the row - only if it still holds the
execution's lease token - and releases the reservation; poster, thumbnail and
encryption executors settle the row themselves.  Behind this: the loop's own
recovery of expired leases, the reservation reconciler in a goroutine of its own,
the scan coordinator (which cancels rows in its transaction and afterwards tells
the dispatcher), administrators, and the start-up recovery.  The row's outcome
moves its step, and the steps of a run decide whether the medium is shown.  An
encryption has files beside its rows; a reconciler of its own looks after what
interrupted executions left of them, at every start and then once a minute.

What is hard.  The row's token, the reservation, the dispatcher's map and the
executor's goroutine are four records of the same execution, changed by different
actors in different steps.  Leases lapse under lock contention while the executor
is healthy.  Executors may ignore cancellation.  Commits may be reported as
failed.  The final write may be lost.  Two executions of one task can overlap
when an administrator or a reset takes the row away from the first.
`PROJECT.json` lists each of these hazards at its line.

What makes each component correct:

* queue and dispatcher: a row is settled only by the execution that holds it;
  terminal rows stay terminal until an administrator acts; recovery never takes a
  row from a living execution; no row waits with its attempts used up; orphaned
  rows come back.
* admission: active reservations stay within type, resource and provider
  budgets; a running execution has paid; budgets come back.
* policy: what claims use is the active revision; control transitions are
  serialised by their revision.
* publication: a medium is published only when its required steps are done;
  a superseded generation changes nothing any more; every run converges.
* ordering: libraries take turns, a row is not overtaken for ever.
* scan coordinator: one holder per lease, each scan ends once and does end.
* staged encryption: a medium never selects or needs a file that was deleted, and
  plaintext hidden for a commit that did not happen comes back.
* task control: the same invariants under every administrative command.

## 2. Modules

| Module | Subject | Composes |
|---|---|---|
| `TaskQueue` | rows, leases, reservations, dispatcher, process | implements `LeasedWork` |
| `Publication` | plans, steps, runs and visibility of one medium | implements `MediaVisibility` |
| `ScanCoordinator` | scans of one library by several servers | implements `ScanHistory` |
| `ClaimOrder` | the order of claims, as operators | |
| `PolicyControl` | policy revisions and control states | |
| `FairClaims` | claims of several types and libraries while both change | `PolicyControl`, `ClaimOrder` |
| `EncryptionJournal` | staged encryption of one medium and its reconciler | |

`MC...` modules instantiate a component for TLC, `...Proofs` modules hold its
theorems; `Publication` has two, `PublicationProofs` for what the tables keep to
and `PublicationViewProofs`, built on it, for what a viewer sees.  The components are cut where they share little: `TaskQueue` leaves open
which row a claim takes and what its execution produces, `FairClaims` and
`Publication` fill that in and in turn leave leases open (any running row may be
recovered).  `EncryptionJournal` sees of queue and publication only whether its
row still belongs to the execution and whether the run is published.

### TaskQueue

`TaskQueue` models queue, dispatcher, admission, reconciler, process and
administration together, since their interaction is the subject.
`MCTaskQueue` instantiates it for TLC.  `TaskQueueProofs` holds the theorems.

| State | Code |
|---|---|
| `status`, `owner`, `attempts`, `inScan` | columns `status`, `lease_owner`, `attempts`, `scan_task_id` of `post_ingest_task` |
| `res` | `scheduler_reservation.status` of the execution |
| `lease` | `lease_until` of row and reservation, which claim and heartbeat write together |
| `phase` | where the loop, the `runTask` goroutine or the abandoned executor stands |
| `stop` | `workerState.kind` |
| `outcome` | what the executor returned, or the kind `runTask` decided to write |
| `running` | `Dispatcher.running` |
| `reaper` | the slice `toRelease` of the reconciler |
| `proc`, `scan`, `paused` | the process, the scan with its cancellation, `scheduler_control` |
| `forced`, `target` | the timer of `CancelTask` and the execution it was meant for |

An *execution* is one claim: a number that stands for its lease token and its
reservation.  Each action is one transaction of the database or one step under the
dispatcher's mutex; `runTask` is cut where another goroutine can get in between:
after the executor returned (`ExecReturn`, `Unresponsive`), after the write
(`Write`, `WriteLost`), between unregistering and releasing (`Unregister`,
`ReleaseAtEnd`).  `CancelScan` and `CancelScanMemory` are the two halves of a
scan's cancellation; `CancelTask`, `ForceWrite` and `ForceStop` the three parts of
an administrator's.

Abstractions.  Clocks are the action `Lapse`, possible whenever a lease is not
renewed and blocked by nothing: the code promises no bound on the delay of a
heartbeat.  Backoff, priorities and fairness are dropped: a claim takes any
eligible row.  Recovery's batch limit of 100 rows is dropped.  The checks of run
and step that accompany the token in linked rows are represented by the token,
because cancelling or superseding a run clears it.  The preflight of `runTask` is
a heartbeat followed by an immediate return.  `cancelAll` only repeats what the
cancelled parent context does.  The transactions of a restart run before anything
else and are one action.  The poster repair path, which settles its row in other
tables, is left out.  An explicit retry detaches the row from its scan; the old
execution's stale membership in the map `scans`, which can at most stop an
execution that no longer owns its row, is left out.  `Zone` says how a local
timestamp compares, as text, with a UTC one in `recoverRunning`.

`LeasedWork` is what is promised of a row without leases, maps, reservations or
processes: a worker takes one task once in its life, at the cost of a try; the
task stays with it until it reports, is over, or somebody cancels or reopens the
task.  An execution is a worker (`WorkerOf`): it has decided once its executor
returned within the grace period, and is over from its cleanup on.

Bounds: `MaxExec` claims, `MaxResets` resets and retries, `MaxCancels` calls of
`CancelTask`, and one pending timer per task.

### Publication

Each transaction of the code is a pipeline of statements on one database, so `db`
is a record and every statement an operator from databases to databases
(`Aggregate`, `Supersede`, `Reopen`, ...); an action is the composition that its
handler runs.  `db` holds, per generation, `media_ingest_run` (`run`, `reason`,
`preserve`, `superseded`), `media_ingest_step` (`step`), `post_ingest_task`
(`row`, `attempts`, `round`) and `media_plan_completion` (`tally`), and for the
medium `publication_state`, `published_at` and `ingest_generation`.  `working` is
the set of tokens executors hold: what they write is fenced by the row.  Actions:
a plan by scan or upload (also by a scan whose cancellation is committed already:
the planner does not look), claim, complete, fail, a late report, recovery of a lost
row, cancellation of the scan or of a row, `RetryIngest`, `Repair`,
`RetryOptional`, `ResetEncrypt`, `EnqueueEncrypt`, a crash, and a start whose
validation (`reconcile_startup.go`) repairs what it finds.

`PlannerAssumption` says what plans the planner makes (planner.go:207-275,
media_templates.go:47-100): each has a required step, required steps depend on
required steps only, optional ones on optional ones only - the steps behind
visibility depend on the barrier.  Without it a run without required steps would
be published by nobody's success, and a visible item could lose an optional step
to a required one that failed.

`MediaVisibility` is what a viewer is promised: publication state and visibility
without runs or steps.  `Safe` says which changes a viewer may see, and
`Publication` implements it with `media.publication_state` and `published_at`
(`ImplementsPromise`).  That no item is processing for ever is `RunIsDecided`, in
`Publication`: it needs to know which runs a cancelled scan left behind.

### ScanCoordinator

One library, any number of servers.  `scan_task` (`status`, `cancelled`),
`scan_lease` (`lease`, `lapsed`), `scan_finalize_recovery` (`rec`, `claim`,
`stale`), and in memory the goroutine of each scan (`phase`, `outcome`, `wanted`,
`stopped`), the recovery loop (`worker`) and the process (`mode`, `entered`).
`Submit` is cut at its check of `shuttingDown`, its transaction and its
registration; the goroutine between its heartbeat, its decision and its
settlement; the recovery loop between claim, check, settlement and deletion.
Commits that look failed are `Ambiguous` and the `Finalize` that enqueues a
recovery record although the settlement happened.

`ScanHistory` is what the list of scans promises: one at a time, in order, each
ends once.  The list (api/handler/scan_task.go) reports the status with the
cancellation flag; `Shown` reads the two together, so that a scan that is told to
stop is cancelled from then on.

### PolicyControl, ClaimOrder, FairClaims

`PolicyControl` has `scheduler_policy_revision` (`revisions`), `Service.policy`
(`service`), `scheduler_control` (`control`) and where each call of
`ApplyRuntimeOverride` and `Control` stands (`edit`, `command`): both read, decide
and write in separate statements.  `ClaimOrder` has the effective priority with
its saturation, the order of rows, and the rotation of libraries as the claim's
SQL computes it.  `FairClaims` puts both under the dispatcher: `ClaimAny` tries
its types in a fixed order, a claim is admitted under the control state and the
queue's copy of the policy (`queue`), and the durable `cursor` turns.

### EncryptionJournal

| State | Code |
|---|---|
| `plain`, `cipher` | the plaintext at its source or in a stage's quarantine; complete `.enc` files |
| `selected` | `media.file_path` |
| `resume` | the stage that `media_encrypt_resume` records as staged |
| `journal` | `media_encryption_stage_journal`: state, owner (`by`), whether `quarantine_path` is set, `recovery_attempts` |
| `row`, `published` | the queue row, and whether the run is published or degraded |
| `exec` | where each execution of `ExecuteWithResult` stands and its stage |
| `rec` | `ReconcileEncryptionStages`: the rows it read (`todo`), the one it is at, where it stands |
| `faults` | ends of the process and passes of the reconciler that fail |

An execution is one claim; its number is its attempt and its token.  A stage is
the number of the execution that created it.  The executor's steps are those
between which another process or goroutine can act: stage, journal entry,
preflight, reservation, move, mark, hash (outside the transaction), commit,
cleanup, record.  Any of them may fail or be cancelled (`Interrupt`), the commit
may be uncertain, and the process may end.  `legacy` is a policy below version 3,
under which the plaintext is hidden before the commit; later policies leave it.
Validation and staging are one step; an encryption that stopped half-way
(`encrypting`) leaves nothing another one could confuse with a stage and is
abstracted; the medium stays in one generation.

Plaintext moves into a quarantine (`Hide`) and back (`BringBack`) by a rename or,
if the system refuses the rename, by a copy that is put in place (`place`,
`putback`) before the original is removed (`unlink`, `unhide`).  Hiding across
volumes is refused altogether, which is a failing step.  Executors and the
reconciler share the two moves, and any step of either may come between the steps
of the other, or be the last one before the process ends; plaintext at two places
is therefore an ordinary state, and the branches of the code for it are actions:
`Compare` and `Drop` (encryption_recovery.go:147-160, which removes the source)
and `Discard` (308-320, which removes the quarantine's copy).  Files still being
copied (`.tmp`, `.restore`) are not copies yet, and a leftover one that refuses the
next attempt is a failing step.  The content never changes, so that two hashes
differ only if a file vanished between the look at it and its hash.

The reconciler reads its rows once and then looks at each.  A failing file
operation of a restore is tried again up to `MaxTries` times (five in the code);
any other error - a reservation that cannot be carried out, two copies that do not
compare, neither copy there - ends the whole pass (`Aborted`), and while the server
starts it ends the start.  `AbortPass` is such an error from the outside; it is
bounded, with ends of the process, by `MaxFaults`.

## 3. Runs

### TaskQueue

| Run | Instance | Shows |
|---|---|---|
| `tq_scan` | two tasks of two types sharing one GPU slot, two claims, a scan that may be cancelled | types; shared budgets; attempts; settling only by the holder; recovery spares the living |
| `tq_admin` | one task, two claims, two resets, one timer, server west of Greenwich | the map finds every owner; paid leases; type limit; the implementation of `LeasedWork` |
| `tq_live` | one task, two claims, server east of Greenwich, fair | orphaned rows and reservations come back |
| `tq_hung` | one task, one claim | violated: dispatcher.go's "retains budget while the executor is unresponsive" |
| `tq_forced` | one task, two claims | violated: dispatcher.go's "if the executor has not released the slot" |
| `tq_scancancel` | one task of a published run | violated: main.go's "cancels the tasks synchronously" |

Why the bounds are enough.  Every hazard of this module is between two executions:
of one task (an old and a new holder) or of two tasks (competing for a budget), so
two claims reach them; with `MaxAttempts = 2` the second claim is also the last
attempt.  Two resets allow an execution to be displaced and its successor to be
displaced again.  The theorems below hold without the bounds.

Deadlock is checked in every run and never occurs: a server that is up can always
be shut down, and one that is down restarts.

Fairness (`FairSpec`).  Weak fairness of the steps a goroutine takes by itself:
verify, launch, write, cleanup, the loop's recovery, the reconciler.
`ExecReturn \/ Unresponsive` is fair because a task has a deadline, after which the
executor is given up.  `LateReturn` is fair: an abandoned executor ends at last;
without that its registration, and the row it owns, would stay for the life of the
process.  `Lapse` is fair only for an execution that is no longer running, since
nobody renews its lease.  A stopping server goes down and a server that is down is
restarted, which its supervisor (docker-compose `restart`) does.  Claims, writes
by users and crashes are not fair.

The three violated runs are disagreements between a comment and the code;
`PROJECT.json` quotes the comments.  They do not break the properties of the
passing runs: the guarantee the code does keep is the one for leases that never
lapsed (`FreshLeaseHoldsReservation`, `FreshWithinLimit`, `FreshWithinCapacity`).

### Publication: `pub_main`

One video, two generations, each with one of two plans (poster, visible, extract;
or poster, encrypt, visible), one attempt per row, one retry round, one crash.
Shows the invariants `RowsFollowSteps`, `SupersededIsOver`, `PublishedIsBacked`,
`CountsAreCurrent` and `FinishedRunIsQuiet`, that outcomes are final and done work
is kept (`OutcomeIsFinal`, `DoneIsKept`), that a start after lease recovery has
nothing to repair but counts (`StartupIsQuiet`), that the publication implements
`MediaVisibility` (`ImplementsPromise`), and that every run and its item are
decided and every step settled (`RunIsDecided`, `StepIsSettled`).  `RunIsDecided`
excepts runs planned for a scan that was cancelled already (`Stranded`), which
nothing decides: see section 6.  The two plans have a required
dependency (poster before encrypt), an optional step behind visibility, and a
generation that calls for more or for less than the one before; that is what
aggregation, repair and supersession distinguish.  Further attempts only repeat a
step's failure.  Deadlock is not checked: an item may end published with nothing
left to do.

Fairness: a waiting row that stays eligible is handed out; executors return;
rows whose executor is gone are recovered again and again (the loop's recovery,
shown by `OrphanReclaimed` in `TaskQueue`); a dead server is restarted.  It is
stated on what the steps do to tokens, rows and server rather than per handler.

`CountsAreCurrent` leaves degraded runs out: `cancelBlockedRequiredWaiting`
cancels required steps after the counts were taken, and only failed and cancelled
outcomes count again, so `media_plan_completion` of a degraded run can be stale.

### ScanCoordinator: `sc_main`

One server, two scans, one crash or shutdown.  Shows that a scan that runs holds
the lease (`RunningHoldsLease`), that a goroutine that is gone settled its scan,
lost it or left a record (`NothingIsLeftBehind`, the "waits for their database
finalization" of `ShutdownContext`), that nothing is reported done after it was
replaced (`DoneWasNotReplaced`), the implementation of `ScanHistory`, and three
liveness properties: every scan ends, a scan that lost its lease stops, the
shutdown returns.  Two scans are needed for a takeover; that competing servers
add nothing to safety is proved, not run.  Liveness is checked for one server, and
not for the last scan of the bound, which may have no successor to replace it.

Fairness: the monitor submits again and again and a submission that is tried again
and again goes through (`SF`), goroutines run, heartbeats and contexts stop what
they must, an unrenewed lease lapses, a process that is down restarts.  That the
walk of the folders ends is assumed only in `EveryScanEnds`.

### FairClaims: `fc_main`

Three libraries (one is the bucket of rows without a library) and two types, in
three scenarios: libraries that take turns; two editors with three overlapping
edits; two operators with two commands; each with one restart.  The scenarios
separate what does not interact: an edit never touches a cursor.  Shows that no
library gets a second turn before another that waits (`NoSecondTurn`), that a
backlogged library is served for ever (`BackloggedLibraryServed`), that a type held
back comes to rest (`HeldTypeComesToRest`), and that the policy in force is one
that was accepted, that memory follows the revision and that overrides accumulate
(`PolicyInForceIsAccepted`, `MemoryFollowsRevision`, `OverridesAccumulate`).
Fairness: the dispatcher polls, executions end.

Where the properties stop is where the code does: when the library served last has
no row left, the rotation starts over; only a type that is first in the fixed
order and shares no budget is assured; memory may differ from the revision after
an edit that read memory in another's window or whose caller went away
(`disturbed`).  See section 6.

### EncryptionJournal: `enc_main`, `enc_reuse`, `enc_restore`

Two executions, two tries of a restore, one fault - an end of the process or a
pass of the reconciler that fails - and both policies.  `enc_main` shows
`CopiesAreKept`: a ciphertext committed by the execution that journaled it is never
deleted by the reconciler, and the last copy of the content stays - plaintext is
all gone only behind a selected ciphertext that exists - unless the plaintext of
one stage is moved both ways at once (`Opposed`); and `InterruptedWorkSettles`: an
encryption interrupted anywhere is settled - plaintext back, entry closed or given
up - as long as reconciler and a living executor are not at the same stage
(`[]~Contended`) and passes do not fail for ever.  Section 6 says what happens
otherwise; it is also why the two properties are conditional.  Two executions are
an old and a new holder of the row, and one fault cuts off any step of either or of
the reconciler; the theorem of section 4 holds for any number of both.
`enc_reuse` and `enc_restore` are violated: see section 6.

Fairness: an executor goes on until it ends, the row of one that ended is taken
back (by its dispatcher or by recovery), the reconciler runs, and the process
starts again and again (`StartUp`), whether a start succeeds or not.  Claims,
failures, lost rows and faults are not fair.

## 4. Theorems

All hold for all values of the constants that satisfy the named assumptions.

### TaskQueue

`TaskQueueProofs` proves, for all values of the constants that satisfy the three
assumptions of `TaskQueue` (`TasksAssumption`, `BudgetAssumption`,
`BoundAssumption`; `LimitCorrect` and the rest need nothing else):

* `TypeCorrect`: `Spec => []TypeOK`
* `RegistrationCorrect`, `ReservationCorrect`, `AttemptsCorrect`: the invariants
  `RegisteredWhileOwned`, `FreshLeaseHoldsReservation`, `WaitingHasAttemptsLeft`
* `LimitCorrect`, `CapacityCorrect`: `FreshWithinLimit`, `FreshWithinCapacity`
* `TerminalCorrect`, `HolderCorrect`, `RecoveryCorrect`: the action properties
  `TerminalUntilReset`, `SettledByHolder`, `RecoverySparesLive`
* `LeasedWorkCorrect`: `ImplementsLeasedWork`

The argument.  None of these invariants is inductive.  `IInv` adds the facts that
carry them: a token in a row belongs to an execution claimed for that row and
claimed already (`Tokens`, `Claimed`); the loop holds at most one claim
(`LoopHolds`), so that `launch` can only overwrite an execution that lost its row;
a process that is down has no living executions (`DownGone`), which is why the
restart may take every row; the reconciler only ever lists leases that lapsed, and
a lapsed lease never becomes fresh again - a renewal makes it `"late"`
(`ReaperLapsed`); an isolated executor's outcome is a cancellation or a shutdown
(`IsolatedOutcome`); a row never claimed has no attempts (`AbsentUntried`).
`IInvInit` and `IInvStep` show it inductive, with the steps that touch neither row
nor map gathered in `QuietStep` and those that take rows away in `DisownStep`.
`LimitStep` needs cardinalities: a claim adds one fresh reservation to fewer than
`Limit`, every other step can only shrink the set (`FreshShrinks`).
`CapacityStep` is the same for resources and providers, where reservations weigh
differently: what a set of reservations uses is the number of its `Units`, pairs
of a reservation and one of the units it costs, so that the sum over the set is a
cardinality and a claim adds exactly its cost (`UnitsAdd`).  A fresh reservation
is always one that admission counts, so the units admitted to are no fewer than
the fresh ones.  `RowChange` says which action may change a row in which way, and
the three action properties follow from it.  (No run lists `TerminalUntilReset`:
`tq_admin` checks it as part of `LeasedWork`, where only `Reopen` leaves a settled
state.)

`PromiseStep` maps every action to `LeasedWork`.  What it takes is that a row the
loop's recovery takes is held by an execution neither in the loop's hands nor in
its map, which is therefore over (`Held`); that the dead process of a restart
leaves only executions that are over; and that an isolated execution can only
write a cancellation, so that it never settles a row by its own decision.
Heartbeats, lapsing leases, the reconciler and the reservations map to stutters: a
healthy row does not depend on them.

Only model-checked here: `OrphanReclaimed` (the liveness of `LeasedWork`) and
`ReservationReturned`, and the violated claims.

### Publication

`PublicationProofs` has `TypeCorrect`, `RowsCorrect`, `SupersededCorrect`,
`QuietCorrect`, `OutcomeCorrect` and `DoneCorrect`, from `StepsAssumption` and
`BoundsAssumption`.  The invariant is
`TypeOK /\ Settled(db)`: rows follow steps and only planned steps have a status; a
generation is superseded exactly if it is not the current one; what is finished is
quiet.  Since handlers are compositions, the proof follows the statements: a lemma
per operator says which part of `Settled` it restores or needs, and an action's
step chains them.

`PublicationViewProofs` adds `BackedCorrect` (`PublishedIsBacked`),
`CountsCorrect` (`CountsAreCurrent`), `StartupCorrect` (`StartupIsQuiet`) and
`PromiseCorrect` (`ImplementsPromise`).  Their invariant is `ViewInv`: between
transactions the current run

* is projected on its item (`Projected`): state and visibility of the medium are
  those of the run, its reason and whether it preserves visibility;
* has not missed its outcome: while it is processing, its steps do not yet decide
  it (`Undecided`), and no waiting step depends on one that went wrong
  (`Hopeful`) - here `PlannerAssumption` is needed;
* has its visibility barrier done once the item is shown (`BarrierDone`);
* is counted, unless it is degraded (`Counted`);

and an item that is shown was published by its current plan or by one whose
visibility all later plans preserve (`Backed`).  Every transaction but a new plan
changes a step and then runs the aggregation, which restores all of this from the
facts that survive the change (`AggregateRestores`, by the outcome that it finds:
`RestoredOpen`, `RestoredFinished`, `RestoredPublished`, ...).
A transaction that aggregates twice restores it twice.  `StartupIsQuiet` then
holds because each repair of the start looks for the negation of one of these
conjuncts, and `ImplementsPromise` because the state before and the outcome after
a transaction leave a viewer only the changes of `MediaVisibility` (`Viewed`).
`PublishedIsBacked` is not inductive without the projection, which says whose
outcome the item shows.

Only model-checked: the liveness.

### ScanCoordinator

`TypeCorrect`, `RunningCorrect`, `NothingLeft`, `DoneCorrect`, and
`HistoryCorrect`: the safety part of `ScanHistory` is implemented, by any number of
servers.  The invariant: only the last accepted scan can hold the lease, and it is
running (`Leases`); goroutine, record and recovery loop act one after the other on
a scan, never two at once (`Goroutines`, `Loops`).  Only model-checked: liveness.

### ClaimOrder

`NextInRotation` (the next library has a row, and none with a row lies between it
and the one served last), `AddSaturates` and `MulSaturates` (the saturating
operators are exact or at the bound), `EffectivePriorityRange`,
`BeforeIsTotalOrder`, and `AgedRowIsNotOvertaken`: a row whose static priority is
not negative is, once it has waited long enough, ahead of everything that comes
later without a run-now boost.  No run evaluates the priorities; `fc_main`
evaluates the rotation and the assumption.

### FairClaims

`TypeCorrect`, `RotationCorrect` (`NoSecondTurn`), `InForceCorrect`,
`MemoryCorrect`, `OverridesCorrect`.  For the rotation the invariant says that the
libraries that `passed` remembers for a waiting one lie between it and the cursor
(`Turns`, `Between`), so that the next one cannot be among them.

### EncryptionJournal

`TypeCorrect` and `CopiesCorrect` (`CopiesAreKept`), from `BoundAssumption`.  The
difficulty is that the reconciler's list may be older than anything the executors
did since.  The proof has two parts, each with an invariant of its own; steps that
only move an executor or the reconciler are gathered in `ExecutorFrame` and
`ReconcilerFrame`.

For the ciphertext, `Inv` carries: entries belong to the execution that works on
their stage and wrote them (`Journaled`); a stage is selected together with the end
of the row, by the last execution (`Selection`); whoever is about to commit a stage
it journaled, or to clean up after that, may (`Ready`); and the stage that the
reconciler is at was journaled by an execution that lost its row, unless it only
carries out a reservation (`Doomed`) - and an execution that lost its row never
owns it again.

For the plaintext, `CopiesStep` shows that a step from a state that is not `Opposed`
preserves two facts.  `Remaining`: a committed ciphertext stands for the content, or
there is a copy of the plaintext that nobody is about to remove from a quarantine.
`Covered`: whoever is about to remove the source for a stage finds the copy in that
stage's quarantine.  That some plaintext exists is not inductive, since a removal
counts on the other copy, which someone else may remove first - but only a move of
the same stage the other way does, and that is `Opposed`.  `CommittedStays` says
that a ciphertext that was committed stays the one selected.  The steps of executors
and of the reconciler are `CopiesByExecutor` and `CopiesByReconciler`.

### Only model-checked

Liveness under fairness everywhere (`OrphanReclaimed`, `ReservationReturned`,
`RunIsDecided`, `StepIsSettled`, `EveryScanEnds`, `LostLeaseStops`, `ShutdownEnds`,
`BackloggedLibraryServed`, `HeldTypeComesToRest`, `InterruptedWorkSettles`):
leads-to from weak and strong fairness needs ENABLED, which the provers do not
handle.  Every safety invariant and every action property of a passing run is a
theorem.

## 5. Plan

Done: the modules of section 2.  Left, in this order:

1. `TaskControl`: abort with acknowledgement and timeout, and the fenced recovery
   of `mutations.go:490`, which releases every reservation under an owner prefix.
2. The stages of posters and thumbnails, whose journals resemble the one of
   encryption.
3. `JitScheduler`: sessions, locks and queues in Redis, with the race of
   `cmd/scheduler/main.go:189-213`.

## 6. What the modelling found

Violated runs, each a line of the repository that the code contradicts:
`tq_hung`, `tq_forced`, `tq_scancancel` (section 3), `enc_reuse` and `enc_restore`.

`enc_reuse`: a second execution takes over the stage of an interrupted one, but the
journal entry keeps the dead execution's token (`ON CONFLICT DO NOTHING`,
adapters.go:770).
The reconciler takes it for stale and removes the ciphertext after the second
execution hashed it and before it commits; `media.file_path` then selects a file
that does not exist.  Under present policies the plaintext is still there.

`enc_restore`: under a legacy policy an executor whose commit was refused brings
the plaintext back by copy while the reconciler, from a list read earlier, still
carries out the reservation of the same stage.  It finds two copies and removes the
source (encryption_recovery.go:147-155); the executor then removes the quarantine's
copy (encryption_quarantine.go:232) without another look at the source and reports
that the plaintext was restored.  No copy is left, and the medium selects the
source.  It takes a rename that is refused although both are on one volume, as for a
file that is open on Windows, and a pass that began before the executor marked its
reservation.

Gaps that are modelled and that the properties step around:

* The reservation reconciler releases what it listed as expired without looking at
  the lease again (reservation_reconciler.go:103).  A heartbeat that renews row and
  reservation in between changes nothing about that, and later renewals of the
  released reservation are silent, so the row goes on running without budget;
  release.go:43-45 expects the two "in lockstep".  This is why the properties of
  reservations speak of leases that never lapsed.
* Encryption requested for a planned item without an encrypt step inserts a row
  without a run but with the current generation (queue.go:1147), and the claim's
  SQL accepts such rows only of generation 0 (eligibility.go:320-325): it waits
  for ever, and every further request is answered "already active".
* A scan that was cancelled and not yet settled loses its live lease to the next
  submission (coordinator.go:231-240); its row stays `running`, with `cancelled`
  set, for ever, and the list reports both.
* The rotation of libraries starts over when the one served last has no row
  (eligibility.go:336), so two libraries with little traffic that come first can
  starve a later one.
* An edit that reads memory while another one is between commit and swap, or whose
  caller goes away after the commit, drops overrides or leaves memory stale until
  the next start; swaps can happen out of order.  Overrides reach claims only at
  the next start, since the queue has its own copy of the policy (main.go:311).
* A PATCH rebuilds the policy from config.yml and puts back only the concurrency
  overrides: priority settings set earlier are dropped (service.go:612).
* Two commands with the same expected revision both succeed (service.go:825); a
  drain that counted no live work can report a type as drained that a claim
  entered meanwhile; `draining` never becomes `paused` by itself.
* `Cancel` commits before it cancels the scan's context (coordinator.go:745-765), and
  the planner only checks that the scan exists (planner.go:151-163).  What the scan
  plans in between is not cancelled with it, and none of its rows is eligible: the
  item stays processing until an administrator cancels, retries or repairs it or a
  later plan replaces it.  This is what `Stranded` excludes.
* Legacy encryption: a reservation that the reconciler cannot carry out, or two
  copies that do not compare, ends the pass and with it a start, and no try is
  counted (encryption_recovery.go:130-132, 150-152, 162).  While the cause lasts,
  every start fails on the same entry; `MaxFaults` and the word "finite" in
  `InterruptedWorkSettles` stand for that.
* Legacy encryption: a reconciler that read an entry before its executor restored
  the plaintext or lost its row can hide the plaintext again, or end the entry as
  restored while it is hidden, and nothing brings it back
  (encryption_recovery.go:128, 189).  This is what `Contended` excludes; if the two
  move the same plaintext by copy, it can be lost (`enc_restore`, `Opposed`).
* Legacy encryption: when a process ends between commit and cleanup, the plaintext
  stays in the quarantine, for the reconciler only marks the entry as verified.
  When it ends before the entry is verified and the run is still processing, the
  reconciler closes the entry as failed and the start fails once.
* `watchEncryptProgress` (adapters.go:744) orders by a column that
  `media_encrypt_resume` lacks, so a long encryption reports no progress.
* `media_plan_completion` of degraded runs, see `CountsAreCurrent`.

## 7. Not modelled

* Task control: the abort protocol, fenced recovery, lifecycle commands of other
  domains.  Only the removal of scans is in `ScanCoordinator`.  Projections and
  streams are read-only.
* Synchronous admission, the ingest repository and `LibraryFairnessPick`: only
  tests call them.
* `Publication`: the own rows of the scrape and prepare families,
  `ReplaceActiveV1`, adoption of work done by other domains, document steps.
* `ScanCoordinator`: the progress writer, the scanner's walk and callbacks, the
  reset of a scan's state, liveness of the recovery table.
* `FairClaims`: resource and provider capacities (in `TaskQueue`), claim errors
  that end a `ClaimAny`.
* `EncryptionJournal`: checkpoints inside one encryption, ciphers, validation of
  paths, unlinked encryption, several generations.
* Poster and thumbnail stages; scrape, transcode, document and lyric queues; JIT
  streaming and its workers.
* Task alignment backfills rows from pure computations.  Media analysis, parsers,
  scanners and scrapers are computation over files; HTTP handlers and the web
  client translate requests; schema and migrations are data.  The store's
  transactions are taken as atomic and serialised, which SQLite provides.
