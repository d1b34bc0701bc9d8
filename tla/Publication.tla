----------------------------- MODULE Publication -----------------------------
(***************************************************************************)
(* The publication runs of one media item (internal/publication): plans of *)
(* steps, one per generation, the queue rows that execute them, and the    *)
(* visibility that follows from them.                                      *)
(*                                                                         *)
(* A transaction of the code is a pipeline of statements on one database,  *)
(* so the database is one record and every statement an operator from      *)
(* databases to databases; an action is the composition its handler runs.  *)
(* The executor of a claim is only its token: what it writes is fenced by  *)
(* the row it was given.  Clocks, leases and budgets are in TaskQueue; any *)
(* running row may be found expired here.                                  *)
(***************************************************************************)
EXTENDS Integers, FiniteSets

CONSTANTS
    Steps,        \* step types
    Required,     \* those that must succeed before the item is published
    Visible,      \* the step media_visible, which has no queue row
    Encrypt,      \* the step encrypt
    Retryable,    \* optional steps an administrator may retry
    Cancellable,  \* bound: steps an administrator cancels
    Deps,         \* [Steps -> SUBSET Steps], success dependencies
    Plans,        \* plans the current policy may call for
    MaxAttempts,  \* column max_attempts
    MaxGen,       \* bound: generations
    MaxRound,     \* bound: retry rounds of one step
    MaxCrashes    \* bound: crashes of the server

ASSUME StepsAssumption ==
    /\ IsFiniteSet(Steps)
    /\ Required \subseteq Steps
    /\ Visible \in Steps \ Required
    /\ Encrypt \in Required
    /\ Retryable \subseteq Steps \ (Required \cup {Visible})
    /\ Cancellable \subseteq Steps
    /\ Deps \in [Steps -> SUBSET Steps]
    /\ Deps[Visible] = {}
    /\ Plans \subseteq SUBSET Steps

(* The planner: every media template asks for something, required steps    *)
(* depend on required steps only, optional ones on optional ones only.     *)
ASSUME PlannerAssumption ==
    /\ \A P \in Plans : P \cap Required # {}
    /\ \A s \in Required : Deps[s] \subseteq Required
    /\ \A s \in Steps \ Required : Deps[s] \cap Required = {}

ASSUME BoundsAssumption ==
    /\ MaxAttempts \in Nat \ {0}
    /\ MaxGen \in Nat
    /\ MaxRound \in Nat
    /\ MaxCrashes \in Nat

Gens == 1..MaxGen

Live == {"waiting", "running"}
Bad == {"failed", "cancelled", "skipped"}
Status == Live \cup Bad \cup {"done"}
Final == {"published", "degraded", "failed", "cancelled"}

VARIABLES
    db,        \* the database, see Database
    working,   \* tokens of the executors at work
    up,        \* the server runs (its claimers are started)
    crashes

vars == <<db, working, up, crashes>>

Tallies == [Status -> Nat]
NoTally == [st \in Status |-> 0]

Database ==
    [gen : 0..MaxGen,                      \* media.ingest_generation
     media : {"none", "processing"} \cup Final,   \* media.publication_state
     visible : BOOLEAN,                    \* media.published_at is set
     plan : [Gens -> SUBSET Steps],
     run : [Gens -> {"none", "processing"} \cup Final],
     reason : [Gens -> {"none", "scan", "upload", "repair", "manual_retry"}],
     preserve : [Gens -> BOOLEAN],
     superseded : [Gens -> BOOLEAN],
     step : [Gens -> [Steps -> Status \cup {"none"}]],   \* media_ingest_step.status
     row : [Gens -> [Steps -> Status \cup {"none"}]],    \* post_ingest_task.status
     attempts : [Gens -> [Steps -> 0..MaxAttempts]],
     round : [Gens -> [Steps -> 0..MaxRound]],
     tally : [Gens -> Tallies],            \* media_plan_completion
     loose : [0..MaxGen -> {"none", "waiting", "running"}],   \* an encrypt row without a run
     scanCancelled : BOOLEAN]              \* scan_task.cancelled

Tokens == [gen : Gens, step : Steps, round : 0..MaxRound, attempt : 1..MaxAttempts]

-----------------------------------------------------------------------------
(* Reading the database.                                                   *)

In(d, g, S) == {s \in d.plan[g] : d.step[g][s] \in S}

RequiredIn(d, g, S) == In(d, g, S) \cap Required

ScanGone(d, g) == d.scanCancelled /\ d.reason[g] = "scan"

Eligible(d, g, s) ==
    /\ g = d.gen
    /\ ~d.superseded[g]
    /\ s \in d.plan[g]
    /\ d.row[g][s] = "waiting"
    /\ d.step[g][s] = "waiting"
    /\ d.attempts[g][s] < MaxAttempts
    /\ ~ScanGone(d, g)
    /\ Deps[s] \cap d.plan[g] \subseteq In(d, g, {"done"})
    /\ IF s \in Required
       THEN d.run[g] = "processing"
       ELSE /\ d.visible
            /\ \/ d.run[g] = "processing" /\ d.media \in {"processing", "published", "degraded"}
               \/ d.run[g] = "published" /\ RequiredIn(d, g, Status \ {"done", "skipped"}) = {}
               \/ d.run[g] = "degraded" /\ RequiredIn(d, g, Live) = {}

(* Rows without a run are claimed only if they precede the first plan.     *)
LooseEligible(d, g) == g = 0 /\ d.loose[g] = "waiting"

TallyOf(d, g) == [st \in Status |-> Cardinality(In(d, g, {st}))]

(* Fault: the outcome is written by step only. *)
HoldsAnyToken(d, w) == w.gen = d.gen /\ w.step \in d.plan[w.gen]

(* The executor still owns its row: status, owner, round and generation.   *)
Holds(d, w) ==
    /\ w.gen = d.gen
    /\ ~d.superseded[w.gen]
    /\ d.row[w.gen][w.step] = "running"
    /\ d.step[w.gen][w.step] = "running"
    /\ d.attempts[w.gen][w.step] = w.attempt
    /\ d.round[w.gen][w.step] = w.round

-----------------------------------------------------------------------------
(* Statements: operators from databases to databases.                      *)

(* A row changes and mirrorLinkedStepTx copies it to its step.             *)
(* Fault: the step is not mirrored. *)
SetRowOnly(d, g, s, st) == [d EXCEPT !.row[g][s] = st]

SetRow(d, g, s, st) == [d EXCEPT !.row[g][s] = st, !.step[g][s] = st]

(* Rows and steps of S become st where they are in From.                   *)
Sweep(d, g, S, From, st) ==
    [d EXCEPT
        !.step[g] = [s \in Steps |-> IF s \in S /\ @[s] \in From THEN st ELSE @[s]],
        !.row[g] = [s \in Steps |-> IF s \in S /\ @[s] \in From THEN st ELSE @[s]]]

(* Waiting steps that can no longer succeed: the least set of waiting      *)
(* steps closed under "a success dependency is bad or in the set".         *)
Doomed(d, g) ==
    LET W == In(d, g, {"waiting"})
        Closed(D) == \A s \in W : Deps[s] \cap (In(d, g, Bad) \cup D) # {} => s \in D
    IN  {s \in W : \A D \in SUBSET W : Closed(D) => s \in D}

Propagate(d, g) == Sweep(d, g, Doomed(d, g), {"waiting"}, "skipped")

Count(d, g) == [d EXCEPT !.tally[g] = TallyOf(d, g)]

(* The barrier step is done once the item is durably visible.              *)
(* Fault: the counts are not brought up to date with the barrier. *)
BarrierUncounted(d, g) ==
    IF d.step[g][Visible] = "waiting" /\ d.visible /\ d.media \in {"published", "degraded"}
    THEN [d EXCEPT !.step[g][Visible] = "done"]
    ELSE d

Barrier(d, g) ==
    IF d.step[g][Visible] = "waiting" /\ d.visible /\ d.media \in {"published", "degraded"}
    THEN Count([d EXCEPT !.step[g][Visible] = "done"], g)
    ELSE d

(* The state of the run that its required steps call for.                  *)
(* Fault: failures are looked at before the steps that still run. *)
OutcomeImpatient(d, g) ==
    IF d.run[g] \in {"failed", "cancelled"} THEN d.run[g]
    ELSE IF RequiredIn(d, g, {"failed", "cancelled"}) # {}
         THEN IF d.preserve[g] THEN "degraded" ELSE "failed"
    ELSE IF RequiredIn(d, g, {"waiting"}) # {} THEN "processing"
    ELSE "published"

Outcome(d, g) ==
    CASE d.run[g] \in {"failed", "cancelled"} -> d.run[g]
      [] d.run[g] \notin {"failed", "cancelled"} /\ RequiredIn(d, g, {"running"}) # {} -> "processing"
      [] OTHER ->
            IF RequiredIn(d, g, {"failed", "cancelled"}) # {}
            THEN IF d.preserve[g] THEN "degraded" ELSE "failed"
            ELSE IF RequiredIn(d, g, {"waiting"}) # {} THEN "processing" ELSE "published"

CancelBlocked(d, g) ==
    IF d.run[g] \notin {"failed", "cancelled"} /\ Outcome(d, g) \in {"degraded", "failed"}
    THEN Sweep(d, g, Required, {"waiting"}, "cancelled")
    ELSE d

(* A failed or cancelled run fences all its unfinished work.               *)
Converge(d, g) ==
    IF d.run[g] \in {"failed", "cancelled"}
    THEN Count(Sweep(d, g, d.plan[g], Live, "cancelled"), g)
    ELSE d

(* The media row follows the run of its current generation.                *)
(* Fault: the generation is not compared. *)
ShowAny(d, g) == [d EXCEPT !.media = d.run[g]]

(* Fault: a failed run takes the item down even if its plan preserves it. *)
ShowLosing(d, g) ==
    CASE d.run[g] \in {"published", "degraded"} -> Barrier([d EXCEPT !.media = d.run[g], !.visible = TRUE], g)
      [] OTHER -> [d EXCEPT !.media = d.run[g], !.visible = FALSE]

(* Fault: publication leaves the barrier step to the next start. *)
ShowBehindBarrier(d, g) ==
    IF g = d.gen /\ d.run[g] = "published" THEN [d EXCEPT !.media = "published", !.visible = TRUE]
    ELSE IF g = d.gen /\ d.run[g] \in {"failed", "cancelled"} THEN [d EXCEPT !.media = d.run[g], !.visible = FALSE]
    ELSE d

Show(d, g) ==
    IF g # d.gen THEN d
    ELSE CASE d.run[g] = "published" -> Barrier([d EXCEPT !.media = "published", !.visible = TRUE], g)
           [] d.run[g] = "degraded" -> Barrier([d EXCEPT !.media = "degraded"], g)
           [] d.run[g] = "cancelled" ->
                IF d.preserve[g] THEN [d EXCEPT !.media = "degraded"]
                ELSE [d EXCEPT !.media = "cancelled", !.visible = FALSE]
           [] d.run[g] = "failed" ->
                [d EXCEPT !.media = "failed", !.visible = @ /\ d.reason[g] = "repair"]
           [] OTHER -> IF d.preserve[g] THEN d ELSE [d EXCEPT !.media = "processing"]

Aggregate(d, g) ==
    IF d.superseded[g] \/ d.run[g] \in {"published", "degraded"} THEN d
    ELSE LET blocked == CancelBlocked(d, g)
             decided == [blocked EXCEPT !.run[g] = Outcome(d, g)]
         IN  Show(Converge(decided, g), g)

Finalize(d, g) == Aggregate(Count(Propagate(d, g), g), g)

(* A new generation with plan P.                                           *)
Persist(d, P, keep, why) ==
    LET g == d.gen + 1
        first == [s \in Steps |-> IF s \notin P THEN "none"
                                  ELSE IF s = Visible /\ keep THEN "done" ELSE "waiting"]
    IN  [d EXCEPT
            !.gen = g,
            !.media = IF keep THEN @ ELSE "processing",
            !.plan[g] = P,
            !.run[g] = "processing",
            !.reason[g] = why,
            !.preserve[g] = keep,
            !.step[g] = first,
            !.row[g] = [first EXCEPT ![Visible] = "none"]]

(* The old generation ends: what was finished stays as evidence.           *)
(* Fault: steps that run are left to finish. *)
SupersedeWaiting(d, g) ==
    Sweep([d EXCEPT !.run[g] = IF @ = "processing" THEN "cancelled" ELSE @,
                    !.superseded[g] = TRUE],
          g, d.plan[g], {"waiting"}, "cancelled")

Supersede(d, g) ==
    Sweep([d EXCEPT !.run[g] = IF @ = "processing" THEN "cancelled" ELSE @,
                    !.superseded[g] = TRUE],
          g, d.plan[g], Live, "cancelled")

Replace(d, P, keep, why) == Supersede(Persist(d, P, keep, why), d.gen)

(* A repair adopts the artefacts found: optional steps with evidence are   *)
(* done, the others are skipped; the barrier waits for a hidden item.      *)
Adopt(d, g, found) ==
    LET optional == In(d, g, {"waiting"}) \ (Required \cup {Visible})
        barrier == IF d.media \in {"published", "degraded"} THEN {Visible} ELSE {}
    IN  Sweep(Sweep(d, g, (optional \cap found) \cup (barrier \cap d.plan[g]), {"waiting"}, "done"),
              g, optional \ found, {"waiting"}, "skipped")

(* Reopening a row in a new retry round.                                   *)
Reopen(d, g, s) ==
    SetRow([d EXCEPT !.attempts[g][s] = 0, !.round[g][s] = @ + 1], g, s, "waiting")

(* The result of one lapsed or interrupted execution.                      *)
(* Fault: an exhausted row is put back to wait. *)
RecoveredForever(d, g, s) == IF ScanGone(d, g) THEN "cancelled" ELSE "waiting"

Recovered(d, g, s) ==
    IF ScanGone(d, g) THEN "cancelled"
    ELSE IF d.attempts[g][s] >= MaxAttempts THEN "failed" ELSE "waiting"

(* Startup: queue rows decide over their steps, failed runs whose required *)
(* work waits again are resumed, orphans are cancelled, stale barriers are *)
(* completed, and the current run is projected and aggregated.             *)
Resync(d, g) ==
    [d EXCEPT !.step[g] = [s \in Steps |-> IF s = Visible THEN @[s] ELSE d.row[g][s]]]

Resume(d, g) ==
    LET broken == RequiredIn(d, g, {"failed", "cancelled"}) # {}
        waiting == RequiredIn(d, g, {"waiting"}) # {}
    IN  IF d.run[g] = "failed" /\ waiting /\ ~broken
        THEN [d EXCEPT !.run[g] = "processing",
                       !.media = IF @ = "failed" THEN "processing" ELSE @]
        ELSE IF d.run[g] \in {"failed", "cancelled"} /\ ~waiting /\ broken
        THEN Sweep(d, g, d.plan[g] \ Required, {"waiting"}, "cancelled")
        ELSE d

Unblock(d, g) ==
    IF /\ d.step[g][Visible] = "waiting"
       /\ d.run[g] \in {"processing", "published", "degraded"}
       /\ d.visible
       /\ d.media \in {"published", "degraded"}
    THEN [d EXCEPT !.step[g][Visible] = "done"]
    ELSE d

Validated(d) ==
    IF d.gen = 0 THEN d ELSE Finalize(Unblock(Resume(Resync(d, d.gen), d.gen), d.gen), d.gen)

-----------------------------------------------------------------------------
(* Actions.                                                                *)

Init ==
    /\ db = [gen |-> 0, media |-> "none", visible |-> FALSE,
             plan |-> [g \in Gens |-> {}],
             run |-> [g \in Gens |-> "none"],
             reason |-> [g \in Gens |-> "none"],
             preserve |-> [g \in Gens |-> FALSE],
             superseded |-> [g \in Gens |-> FALSE],
             step |-> [g \in Gens |-> [s \in Steps |-> "none"]],
             row |-> [g \in Gens |-> [s \in Steps |-> "none"]],
             attempts |-> [g \in Gens |-> [s \in Steps |-> 0]],
             round |-> [g \in Gens |-> [s \in Steps |-> 0]],
             tally |-> [g \in Gens |-> NoTally],
             loose |-> [g \in 0..MaxGen |-> "none"],
             scanCancelled |-> FALSE]
    /\ working = {}
    /\ up = TRUE
    /\ crashes = 0

Serving == up /\ UNCHANGED <<up, crashes>>

(* PlanNewMediaTx: a scan or an upload found the item.  A scan still plans *)
(* what it finds between the commit of its cancellation and the end of its *)
(* context.                                                                *)
PlanNew ==
    /\ Serving
    /\ db.gen = 0 /\ MaxGen > 0
    /\ \E P \in Plans, why \in {"scan", "upload"} : db' = Persist(db, P, FALSE, why)
    /\ UNCHANGED working

(* The dispatcher hands a row that it claims to a new executor.            *)
HandOut(s) ==
    LET g == db.gen IN
    /\ Serving
    /\ g > 0 /\ Eligible(db, g, s)
    /\ working' = working \cup
          {[gen |-> g, step |-> s, round |-> db.round[g][s], attempt |-> db.attempts[g][s] + 1]}

(* ClaimWithAdmission, in one transaction with FinalizeClaimTransitionTx.  *)
(* Fault: a claim leaves the recorded counts alone. *)
ClaimUncounted(s) ==
    /\ HandOut(s)
    /\ db' = SetRow([db EXCEPT !.attempts[db.gen][s] = @ + 1], db.gen, s, "running")

(* Fault: an attempt is counted by the selection and by the update. *)
ClaimTwice(s) ==
    /\ HandOut(s)
    /\ db' = Count(SetRow([db EXCEPT !.attempts[db.gen][s] = @ + 2], db.gen, s, "running"), db.gen)

Claim(s) ==
    /\ HandOut(s)
    /\ db' = Count(SetRow([db EXCEPT !.attempts[db.gen][s] = @ + 1], db.gen, s, "running"), db.gen)

(* Queue.Complete and Queue.Fail of an executor that still owns its row.   *)
Report(w, st) ==
    /\ Serving
    /\ w \in working
    /\ Holds(db, w)
    /\ db' = Finalize(SetRow(db, w.gen, w.step, st), w.gen)
    /\ working' = working \ {w}

Complete(w) == Report(w, IF ScanGone(db, w.gen) THEN "cancelled" ELSE "done")

(* A retryable failure, a permanent one, or a cancelled executor.          *)
Fail(w) ==
    \E kind \in {"retryable", "failed", "cancelled"} :
        Report(w, IF ScanGone(db, w.gen) THEN "cancelled"
                  ELSE IF kind # "retryable" THEN kind
                  ELSE IF db.attempts[w.gen][w.step] >= MaxAttempts THEN "failed" ELSE "waiting")

(* A late result: the write is refused and the executor ends.              *)
LateReport(w) ==
    /\ Serving
    /\ w \in working
    /\ ~Holds(db, w)
    /\ working' = working \ {w}
    /\ UNCHANGED db

(* Recovery of a row whose lease lapsed: any row while the server runs,    *)
(* every running row, one after the other, before its claimers start.      *)
Recover(g, s) ==
    /\ db.row[g][s] = "running"
    /\ db' = Finalize(SetRow(db, g, s, Recovered(db, g, s)), g)
    /\ UNCHANGED <<working, up, crashes>>

(* Coordinator.Cancel of the scan: its processing run is cancelled.        *)
(* Fault: the run of an older generation is cancelled too. *)
CancelScanShown ==
    LET runs == {g \in Gens : db.reason[g] = "scan"}
        cancelled == [db EXCEPT !.scanCancelled = TRUE,
                                !.run = [g \in Gens |-> IF g \in runs THEN "cancelled" ELSE @[g]]]
    IN  /\ Serving
        /\ ~db.scanCancelled
        /\ db' = IF runs = {} THEN cancelled
                 ELSE [cancelled EXCEPT !.media = "cancelled", !.visible = FALSE]
        /\ UNCHANGED working

CancelScan ==
    LET g == db.gen
        fenced == Sweep([db EXCEPT !.scanCancelled = TRUE, !.run[g] = "cancelled"],
                        g, db.plan[g], Live, "cancelled")
    IN  /\ Serving
        /\ ~db.scanCancelled
        /\ db' = IF g > 0 /\ db.reason[g] = "scan" /\ db.run[g] = "processing"
                 THEN Finalize(fenced, g)
                 ELSE [db EXCEPT !.scanCancelled = TRUE]
        /\ UNCHANGED working

(* AdminCancelTask on one row.                                             *)
CancelStep(g, s) ==
    /\ Serving
    /\ s \in Cancellable
    /\ db.row[g][s] \in Live
    /\ db' = Finalize(SetRow(db, g, s, "cancelled"), g)
    /\ UNCHANGED working

(* RetryIngest: a fresh plan for a failed, cancelled or degraded item.     *)
RetryIngest ==
    /\ Serving
    /\ 0 < db.gen /\ db.gen < MaxGen
    /\ db.media \in {"degraded", "failed", "cancelled"}
    /\ db.run[db.gen] # "processing"
    /\ \E P \in Plans : db' = Replace(db, P, db.media = "degraded", "manual_retry")
    /\ UNCHANGED working

(* RepairLegacyMedia: a visible item whose artefacts are incomplete gets a *)
(* repair run, unless one that covers the required steps is unfinished.    *)
(* Visibility is kept unless the item should be encrypted and is not.      *)
Covered(P) ==
    /\ db.reason[db.gen] = "repair"
    /\ db.run[db.gen] # "published"
    /\ P \cap Required \subseteq db.plan[db.gen]

Repair ==
    /\ Serving
    /\ 0 < db.gen /\ db.gen < MaxGen
    /\ db.media \in {"published", "degraded"}
    /\ \E P \in Plans, keep \in BOOLEAN, found \in SUBSET (Steps \ Required) :
          /\ found \subseteq P \ {Visible}
          /\ Encrypt \notin P => keep
          /\ ~Covered(P)
          /\ db' = Adopt(Replace(db, P, keep, "repair"), db.gen + 1, found)
    /\ UNCHANGED working

(* RetryOptionalPostIngest: one exhausted optional step of a finished run. *)
RetryOptional(s) ==
    LET g == db.gen IN
    /\ Serving
    /\ g > 0
    /\ db.media \in {"published", "degraded"} /\ db.run[g] \in {"published", "degraded"}
    /\ s \in Retryable
    /\ db.step[g][s] \in {"failed", "cancelled"} /\ db.row[g][s] \in {"failed", "cancelled"}
    /\ db.attempts[g][s] >= MaxAttempts
    /\ db.round[g][s] < MaxRound
    /\ db' = Finalize(Reopen(db, g, s), g)
    /\ UNCHANGED working

(* AdminResetEncrypt of the current row: finished, or running with a       *)
(* lapsed lease.                                                           *)
ResetEncrypt ==
    LET g == db.gen IN
    /\ Serving
    /\ g > 0
    /\ db.row[g][Encrypt] \in {"failed", "cancelled", "done", "running"}
    /\ db.round[g][Encrypt] < MaxRound
    /\ db' = Finalize(Reopen(db, g, Encrypt), g)
    /\ UNCHANGED working

(* EnqueueEncryptManual: reopens the current row if it is finished, and    *)
(* inserts a row without a run if the current plan has none.               *)
EnqueueEncrypt ==
    LET g == db.gen IN
    /\ Serving
    /\ IF g > 0 /\ Encrypt \in db.plan[g]
       THEN /\ db.row[g][Encrypt] \in {"failed", "cancelled", "done"}
            /\ db.round[g][Encrypt] < MaxRound
            /\ db' = Finalize(Reopen(db, g, Encrypt), g)
       ELSE /\ db.loose[g] = "none"
            /\ db' = [db EXCEPT !.loose[g] = "waiting"]
    /\ UNCHANGED working

ClaimLoose(g) ==
    /\ Serving
    /\ LooseEligible(db, g)
    /\ db' = [db EXCEPT !.loose[g] = "running"]
    /\ UNCHANGED working

(* The process dies and, after recovery, starts its claimers again.        *)
Crash ==
    /\ up
    /\ crashes < MaxCrashes
    /\ up' = FALSE
    /\ crashes' = crashes + 1
    /\ working' = {}
    /\ UNCHANGED db

Start ==
    /\ ~up
    /\ \A g \in Gens, s \in Steps : db.row[g][s] # "running"
    /\ db' = Validated(db)
    /\ up' = TRUE
    /\ UNCHANGED <<working, crashes>>

Operator ==
    \/ CancelScan
    \/ RetryIngest
    \/ Repair
    \/ ResetEncrypt
    \/ EnqueueEncrypt
    \/ \E s \in Steps : RetryOptional(s)
    \/ \E g \in Gens, s \in Steps : CancelStep(g, s)

Dispatch ==
    \/ \E s \in Steps : Claim(s)
    \/ \E g \in 0..MaxGen : ClaimLoose(g)
    \/ \E w \in working : Complete(w) \/ Fail(w) \/ LateReport(w)
    \/ \E g \in Gens, s \in Steps : Recover(g, s)

Next == PlanNew \/ Operator \/ Dispatch \/ Crash \/ Start

Safe == Init /\ [][Next]_vars

(* The dispatcher claims while a row stays eligible, executors return,     *)
(* rows whose executor is gone are recovered once their lease lapses, and  *)
(* a dead server is restarted.  Fairness is stated on what the steps do to *)
(* the tokens, the lost rows and the server.                               *)
Lost(g, s) ==
    /\ db.row[g][s] = "running"
    /\ ~\E w \in working : w.gen = g /\ w.step = s /\ Holds(db, w)

Fairness ==
    /\ WF_working(\E s \in Steps : HandOut(s))
    /\ WF_working(\E w \in working : Serving /\ working' = working \ {w})
    /\ \A g \in Gens, s \in Steps \ {Visible} : []<>~Lost(g, s)
    /\ WF_up(up' = TRUE /\ \A g \in Gens, s \in Steps : db.row[g][s] # "running")

Spec == Safe /\ Fairness

-----------------------------------------------------------------------------
(* Properties.                                                             *)

(* The database and the bookkeeping of the processes are well formed.      *)
TypeOK ==
    /\ db \in Database
    /\ working \subseteq Tokens
    /\ up \in BOOLEAN
    /\ crashes \in 0..MaxCrashes

(* Every transaction leaves a step and its queue row in the same status,   *)
(* so that propagation never meets an orphan row and startup validation    *)
(* (validateQueueSemantics) never refuses the database.                    *)
RowsFollowSteps ==
    \A g \in Gens, s \in Steps :
        db.row[g][s] = IF s = Visible THEN "none" ELSE db.step[g][s]

(* Work of a generation that was replaced is over: its run is finished and *)
(* nothing of it waits or runs (supersedeGeneration).                      *)
SupersededIsOver ==
    \A g \in Gens :
        /\ db.superseded[g] <=> g < db.gen
        /\ db.superseded[g] => /\ db.run[g] \in Final
                               /\ In(db, g, Live) = {}

(* A viewer who sees the item published sees the outcome of a run whose    *)
(* required steps were done, and of later plans that preserve it.          *)
PublishedIsBacked ==
    db.media \in {"published", "degraded"} =>
        /\ db.visible
        /\ \E g \in 1..db.gen :
              /\ db.run[g] = "published"
              /\ \A s \in db.plan[g] \cap Required :
                    db.step[g][s] \in {"done", "skipped"} \/ db.round[g][s] > 0
              /\ \A h \in (g + 1)..db.gen : db.preserve[h]

(* The recorded counts (media_plan_completion) of the current run are its  *)
(* step counts, whatever statements its last transaction was made of.  A   *)
(* degraded run is left out: cancelBlockedRequiredWaiting cancels required *)
(* steps after FinalizeNodeTransitionTx has counted, and only the failed   *)
(* and cancelled outcomes count again.                                     *)
CountsAreCurrent ==
    db.gen > 0 /\ db.run[db.gen] # "degraded" =>
        db.tally[db.gen] \in {NoTally, TallyOf(db, db.gen)}

(* A failed or cancelled run holds nothing open, and a finished run has no *)
(* required step that waits unless an administrator reopened it.           *)
FinishedRunIsQuiet ==
    \A g \in Gens :
        /\ db.run[g] \in {"failed", "cancelled"} => In(db, g, Live) = {}
        /\ db.run[g] \in {"published", "degraded"} =>
              \A s \in RequiredIn(db, g, Live) : db.round[g][s] > 0

(* A run that was decided is never reopened, by late results, recovery,    *)
(* retries or startup.                                                     *)
OutcomeIsFinal ==
    [][\A g \in Gens : db.run[g] \in Final => db'.run[g] = db.run[g]]_vars

(* Evidence is kept: a done step changes only if an administrator reopens  *)
(* it, whatever happens to its run or its siblings.                        *)
DoneIsKept ==
    [][\A g \in Gens, s \in Steps :
          db.step[g][s] = "done" =>
              db'.step[g][s] = "done" \/ db'.round[g][s] > db.round[g][s]]_vars

(* Startup validation finds nothing to change but counts: every committed  *)
(* state, after lease recovery, is already projected and aggregated.       *)
StartupIsQuiet ==
    [][up' /\ ~up => [db' EXCEPT !.tally = db.tally] = db]_vars

(* What a viewer sees follows the promise of MediaVisibility, whatever     *)
(* runs, retries, repairs and restarts go on behind it.                    *)
Promise == INSTANCE MediaVisibility WITH state <- db.media, visible <- db.visible
ImplementsPromise == Promise!Safe

(* A run that was planned for a scan already cancelled: Cancel has passed  *)
(* it by, and no row of it is ever claimed.                                *)
Stranded(g) == db.run[g] = "processing" /\ ScanGone(db, g)

(* Every run is decided or replaced, and with it the item it is for, by    *)
(* its steps, by the cancellation of its scan or by an administrator,      *)
(* except for a run that was planned for a scan already cancelled.         *)
RunIsDecided ==
    /\ \A g \in Gens :
          db.run[g] = "processing" /\ ~ScanGone(db, g) ~> db.run[g] # "processing"
    /\ db.media = "processing" /\ (\A g \in Gens : ~Stranded(g)) ~> db.media # "processing"

(* Every step that waits or runs is eventually settled, unless its scan    *)
(* was cancelled or a required step of its finished run was reopened.      *)
StepIsSettled ==
    \A g \in Gens, s \in Steps :
        db.step[g][s] \in Live ~>
            \/ db.step[g][s] \notin Live
            \/ ScanGone(db, g)
            \/ \E r \in Required : db.round[g][r] > 0
=============================================================================
