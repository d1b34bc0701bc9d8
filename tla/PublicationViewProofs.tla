------------------------ MODULE PublicationViewProofs ------------------------
(***************************************************************************)
(* Proofs about what a viewer sees of a publication: the promise of        *)
(* MediaVisibility, the recorded counts, and a startup that finds nothing  *)
(* to repair.                                                              *)
(*                                                                         *)
(* The argument is one more inductive invariant: between transactions the  *)
(* current run is projected on its item, undecided as long as it is        *)
(* processing, counted, and without waiting steps that cannot succeed.     *)
(* Every transaction but a new plan ends in Finalize, which restores it.   *)
(***************************************************************************)
EXTENDS PublicationProofs

Shown == {"published", "degraded"}

(* The item of a processing run.                                           *)
InProgress(d, g) ==
    IF d.preserve[g] THEN d.media \in Shown /\ d.visible ELSE d.media = "processing"

(* The media row shows run g as Show left it.                              *)
Projected(d, g) ==
    /\ d.run[g] = "processing" => InProgress(d, g)
    /\ d.run[g] = "published" => d.media = "published" /\ d.visible
    /\ d.run[g] = "degraded" => d.media = "degraded" /\ d.visible /\ d.preserve[g]
    /\ d.run[g] = "failed" => d.media = "failed" /\ (d.visible => d.reason[g] = "repair")
    /\ d.run[g] = "cancelled" =>
          IF d.preserve[g] THEN d.media = "degraded" /\ d.visible
          ELSE d.media = "cancelled" /\ ~d.visible

AllPlanned(d, g) == \A s \in d.plan[g] : d.step[g][s] # "none"

(* No waiting step depends on one that went wrong.                         *)
Hopeful(d, g) == \A s \in In(d, g, {"waiting"}) : Deps[s] \cap In(d, g, Bad) = {}

Undecided(d, g) == d.run[g] = "processing" => Outcome(d, g) = "processing"

BarrierDone(d, g) == d.visible /\ d.media \in Shown => d.step[g][Visible] # "waiting"

Counted(d, g) == d.run[g] # "degraded" => d.tally[g] \in {NoTally, TallyOf(d, g)}

ViewAt(d, g) ==
    /\ Projected(d, g)
    /\ AllPlanned(d, g)
    /\ Hopeful(d, g)
    /\ Undecided(d, g)
    /\ BarrierDone(d, g)
    /\ Counted(d, g)

(* Run g was published on the outcome of its required steps.               *)
Achieved(d, g) ==
    /\ d.run[g] = "published"
    /\ \A s \in d.plan[g] \cap Required :
          d.step[g][s] \in {"done", "skipped"} \/ d.round[g][s] > 0

Backed(d) ==
    d.media \in Shown =>
        /\ d.visible
        /\ \E g \in 1..d.gen : Achieved(d, g) /\ \A h \in (g + 1)..d.gen : d.preserve[h]

View(d) ==
    /\ d.gen = 0 => d.media = "none" /\ d.visible = FALSE
    /\ d.gen > 0 => ViewAt(d, d.gen)
    /\ \A h \in Gens : h > d.gen => d.tally[h] = NoTally
    /\ Backed(d)

(* A step of the promise, or none.                                         *)
Viewed(d, e) ==
    \/ e.media = d.media /\ e.visible = d.visible
    \/ e.media = "processing" /\ e.visible = d.visible
    \/ d.media \in Shown \cup {"processing"} /\ e.media = "published" /\ e.visible = TRUE
    \/ d.media \in Shown /\ e.media = "degraded" /\ e.visible = d.visible
    \/ /\ d.media = "processing" /\ e.media \in {"failed", "cancelled"}
       /\ e.visible \in {FALSE, d.visible /\ e.media = "failed"}

-----------------------------------------------------------------------------
(* What the statements do to the parts of the database the view reads.     *)

SameItem(d, e) ==
    /\ e.gen = d.gen /\ e.plan = d.plan /\ e.superseded = d.superseded /\ e.round = d.round
    /\ e.preserve = d.preserve /\ e.reason = d.reason
    /\ e.media = d.media /\ e.visible = d.visible

(* What is read of the steps depends on the plan and their statuses.       *)
LEMMA SameSteps ==
  ASSUME NEW d, NEW e, NEW g, e.plan = d.plan, e.step = d.step
  PROVE  /\ \A S : In(e, g, S) = In(d, g, S) /\ RequiredIn(e, g, S) = RequiredIn(d, g, S)
         /\ TallyOf(e, g) = TallyOf(d, g)
         /\ AllPlanned(e, g) <=> AllPlanned(d, g)
         /\ Hopeful(e, g) <=> Hopeful(d, g)
<1>1. \A S : In(e, g, S) = In(d, g, S)
  BY DEF In
<1> QED
  BY <1>1 DEF RequiredIn, TallyOf, AllPlanned, Hopeful

LEMMA SameOutcome ==
  ASSUME NEW d, NEW e, NEW g, e.plan = d.plan, e.step = d.step,
         e.run[g] = d.run[g], e.preserve = d.preserve
  PROVE  Outcome(e, g) = Outcome(d, g)
BY SameSteps DEF Outcome

LEMMA SweepFields ==
  ASSUME NEW d, Sound(d), NEW g \in Gens, NEW S, NEW From \in SUBSET Live, NEW st
  PROVE  LET e == Sweep(d, g, S, From, st)
         IN  /\ SameItem(d, e) /\ e.run = d.run /\ e.tally = d.tally
             /\ \A s \in Steps : e.step[g][s] = IF s \in S /\ d.step[g][s] \in From THEN st ELSE d.step[g][s]
<1>1. d \in Database
  BY DEF Sound
<1> QED
  BY <1>1 DEF Sweep, Database, SameItem

(* There is nothing to sweep.                                              *)
LEMMA SweepIdle ==
  ASSUME NEW d, Sound(d), NEW g \in Gens, NEW S, NEW From \in SUBSET Live, NEW st,
         \A s \in Steps : s \in S => d.step[g][s] \notin From
  PROVE  Sweep(d, g, S, From, st) = d
<1> DEFINE u == [s \in Steps |-> IF s \in S /\ d.step[g][s] \in From THEN st ELSE d.step[g][s]]
           v == [s \in Steps |-> IF s \in S /\ d.row[g][s] \in From THEN st ELSE d.row[g][s]]
<1>1. d \in Database
  BY DEF Sound
<1>2. d.step[g] \in [Steps -> Status \cup {"none"}] /\ d.row[g] \in [Steps -> Status \cup {"none"}]
  BY <1>1 DEF Database
<1>3. "none" \notin From
  BY DEF Live
<1>4. u = [s \in Steps |-> d.step[g][s]]
  OBVIOUS
<1>5. v = [s \in Steps |-> d.row[g][s]]
  BY <1>3 DEF Sound
<1>6. u = d.step[g] /\ v = d.row[g]
  BY <1>2, <1>4, <1>5
<1>7. Sweep(d, g, S, From, st) = [d EXCEPT !.step[g] = u, !.row[g] = v]
  BY <1>1 DEF Sweep, Database
<1> HIDE DEF u, v
<1>8. [d.step EXCEPT ![g] = u] = d.step /\ [d.row EXCEPT ![g] = v] = d.row
  BY <1>1, <1>6 DEF Database
<1>9. [d EXCEPT !.step[g] = u, !.row[g] = v] = [d EXCEPT !.step = d.step, !.row = d.row]
  BY <1>1, <1>8 DEF Database
<1>10. [d EXCEPT !.step = d.step, !.row = d.row] = d
  BY <1>1 DEF Database
<1> QED
  BY <1>7, <1>9, <1>10

LEMMA CountFields ==
  ASSUME NEW d, Sound(d), NEW g \in Gens
  PROVE  LET e == Count(d, g)
         IN  /\ SameItem(d, e) /\ e.run = d.run /\ e.step = d.step
             /\ e.tally[g] = TallyOf(d, g)
             /\ \A h \in Gens \ {g} : e.tally[h] = d.tally[h]
             /\ [e EXCEPT !.tally = d.tally] = d
             /\ d.tally[g] = TallyOf(d, g) => e = d
<1> DEFINE x == TallyOf(d, g)
<1> DEFINE e == Count(d, g)
<1>1. d \in Database
  BY DEF Sound
<1>2. e = [d EXCEPT !.tally[g] = x]
  BY DEF Count
<1> HIDE DEF x, e
<1>3. /\ SameItem(d, e) /\ e.run = d.run /\ e.step = d.step
      /\ e.tally = [d.tally EXCEPT ![g] = x]
  BY <1>1, <1>2 DEF Database, SameItem
<1>4. e.tally[g] = x /\ \A h \in Gens \ {g} : e.tally[h] = d.tally[h]
  BY <1>1, <1>3 DEF Database
<1>5. [e EXCEPT !.tally = d.tally] = d
  BY <1>1, <1>2 DEF Database
<1>6. ASSUME d.tally[g] = x PROVE e = d
  <2>1. [d.tally EXCEPT ![g] = x] = d.tally
    BY <1>1, <1>6 DEF Database
  <2>2. [d EXCEPT !.tally[g] = x] = [d EXCEPT !.tally = [d.tally EXCEPT ![g] = x]]
    BY <1>1 DEF Database
  <2> QED
    BY <1>1, <1>2, <2>1, <2>2 DEF Database
<1> QED
  BY <1>3, <1>4, <1>5, <1>6 DEF x, e

(* After propagation no waiting step depends on one that went wrong.       *)
LEMMA PropagateHopeful ==
  ASSUME NEW d, Sound(d), NEW g \in Gens
  PROVE  LET e == Propagate(d, g)
         IN  /\ SameItem(d, e) /\ e.run = d.run /\ e.tally = d.tally
             /\ Hopeful(e, g)
             /\ \A s \in Steps : \/ e.step[g][s] = d.step[g][s]
                                 \/ d.step[g][s] = "waiting" /\ e.step[g][s] = "skipped"
<1> DEFINE e == Propagate(d, g)
<1> DEFINE W == In(d, g, {"waiting"})
<1>1. /\ SameItem(d, e) /\ e.run = d.run /\ e.tally = d.tally
      /\ \A s \in Steps : e.step[g][s] = IF s \in Doomed(d, g) /\ d.step[g][s] \in {"waiting"} THEN "skipped" ELSE d.step[g][s]
  BY SweepFields DEF Propagate, Live
<1> HIDE DEF e
<1>2. e.plan[g] = d.plan[g] /\ d.plan[g] \subseteq Steps
  BY <1>1 DEF SameItem, Sound, Database
<1>3. In(e, g, {"waiting"}) = W \ Doomed(d, g)
  BY <1>1, <1>2 DEF In
<1>4. In(e, g, Bad) \subseteq In(d, g, Bad) \cup Doomed(d, g)
  BY <1>1, <1>2 DEF In
<1>5. ASSUME NEW s \in W, s \notin Doomed(d, g), NEW x \in Deps[s], x \in In(e, g, Bad)
      PROVE  FALSE
  <2> DEFINE Blocked(D) == \A w \in W : Deps[w] \cap (In(d, g, Bad) \cup D) # {} => w \in D
  <2>1. Doomed(d, g) = {w \in W : \A D \in SUBSET W : Blocked(D) => w \in D}
    BY DEF Doomed
  <2>2. PICK D \in SUBSET W : Blocked(D) /\ s \notin D
    BY <1>5, <2>1
  <2>3. Doomed(d, g) \subseteq D
    BY <2>1, <2>2
  <2>4. x \in In(d, g, Bad) \cup D
    BY <1>4, <1>5, <2>3
  <2>5. Deps[s] \cap (In(d, g, Bad) \cup D) # {}
    BY <1>5, <2>4
  <2> QED
    BY <2>2, <2>5
<1>6. Hopeful(e, g)
  BY <1>3, <1>5 DEF Hopeful
<1> QED
  BY <1>1, <1>6 DEF e

(* Nothing to propagate.                                                   *)
LEMMA PropagateIdle ==
  ASSUME NEW d, Sound(d), NEW g \in Gens, Hopeful(d, g)
  PROVE  Propagate(d, g) = d
<1>1. Doomed(d, g) = {}
  <2> SUFFICES ASSUME NEW s \in Doomed(d, g) PROVE FALSE
    OBVIOUS
  <2> DEFINE W == In(d, g, {"waiting"})
  <2>1. \A D \in SUBSET W : (\A w \in W : Deps[w] \cap (In(d, g, Bad) \cup D) # {} => w \in D) => s \in D
    BY DEF Doomed
  <2>2. \A w \in W : Deps[w] \cap (In(d, g, Bad) \cup {}) = {}
    BY DEF Hopeful
  <2> HIDE DEF W
  <2> QED
    BY <2>1, <2>2
<1>2. \A s \in Steps : s \in Doomed(d, g) => d.step[g][s] \notin {"waiting"}
  BY <1>1
<1>3. {"waiting"} \in SUBSET Live
  BY DEF Live
<1> HIDE DEF Propagate
<1>4. Sweep(d, g, Doomed(d, g), {"waiting"}, "skipped") = d
  BY <1>2, <1>3, SweepIdle
<1> QED
  BY <1>4 DEF Propagate

(* The barrier step is the only one the barrier touches.                   *)
LEMMA BarrierFields ==
  ASSUME NEW d, Sound(d), NEW g \in Gens
  PROVE  LET e == Barrier(d, g)
         IN  /\ SameItem(d, e) /\ e.run = d.run
             /\ \A s \in Steps \ {Visible} : e.step[g][s] = d.step[g][s]
             /\ e.step[g][Visible] = IF d.step[g][Visible] = "waiting" /\ d.visible /\ d.media \in Shown
                                     THEN "done" ELSE d.step[g][Visible]
             /\ d.tally[g] = TallyOf(d, g) => e.tally[g] = TallyOf(e, g)
<1>1. d \in Database /\ Visible \in Steps
  BY StepsAssumption DEF Sound
<1>2. CASE ~(d.step[g][Visible] = "waiting" /\ d.visible /\ d.media \in Shown)
  <2>1. Barrier(d, g) = d
    BY <1>2 DEF Barrier, Shown
  <2> QED
    BY <1>2, <2>1 DEF SameItem
<1>3. CASE d.step[g][Visible] = "waiting" /\ d.visible /\ d.media \in Shown
  <2> DEFINE m == [d EXCEPT !.step[g][Visible] = "done"]
  <2> DEFINE e == Barrier(d, g)
  <2>1. e = Count(m, g)
    BY <1>3 DEF Barrier, Shown
  <2>2. /\ SameItem(d, m) /\ m.run = d.run
        /\ m.step = [d.step EXCEPT ![g][Visible] = "done"]
    BY <1>1 DEF Database, SameItem
  <2>3. \A s \in Steps : m.step[g][s] = IF s = Visible THEN "done" ELSE d.step[g][s]
    BY <1>1, <2>2 DEF Database
  <2>4. m \in Database
    BY <1>1 DEF Database, Status
  <2>5. /\ SameItem(m, e) /\ e.run = m.run /\ e.step = m.step /\ e.tally[g] = TallyOf(m, g)
    <3>1. e = [m EXCEPT !.tally[g] = TallyOf(m, g)]
      BY <2>1 DEF Count
    <3>2. TallyOf(m, g) \in Tallies
      <4>1. m.plan[g] \subseteq Steps
        BY <1>1, <2>2 DEF Database, SameItem
      <4> QED
        BY <4>1, TallyType
    <3> HIDE DEF m, e
    <3> QED
      BY <2>4, <3>1 DEF Database, SameItem
  <2> HIDE DEF m, e
  <2>6. e.tally[g] = TallyOf(e, g)
    BY <2>5, SameSteps DEF SameItem
  <2> SUFFICES /\ SameItem(d, e) /\ e.run = d.run
               /\ \A s \in Steps \ {Visible} : e.step[g][s] = d.step[g][s]
               /\ e.step[g][Visible] = "done"
               /\ e.tally[g] = TallyOf(e, g)
    BY <1>3 DEF e
  <2> QED
    BY <1>1, <2>2, <2>3, <2>5, <2>6 DEF SameItem
<1> QED
  BY <1>2, <1>3

(* The assignments of aggregation: to the run, and to the media row.       *)
WithRun(d, g, o) == [d EXCEPT !.run[g] = o]

ItemOnly(d, e) ==
    /\ e.gen = d.gen /\ e.plan = d.plan /\ e.superseded = d.superseded /\ e.round = d.round
    /\ e.preserve = d.preserve /\ e.reason = d.reason
    /\ e.run = d.run /\ e.step = d.step /\ e.row = d.row /\ e.tally = d.tally

LEMMA RunFields ==
  ASSUME NEW d, Sound(d), NEW g \in Gens, NEW o \in {"processing"} \cup Final
  PROVE  LET e == WithRun(d, g, o)
         IN  /\ Sound(e) /\ SameItem(d, e) /\ e.step = d.step /\ e.tally = d.tally
             /\ e.run[g] = o
             /\ d.run[g] = o => e = d
<1> DEFINE e == WithRun(d, g, o)
<1>1. d \in Database
  BY DEF Sound
<1>2. e \in Database
  BY <1>1 DEF Database, WithRun
<1>3. /\ SameItem(d, e) /\ e.step = d.step /\ e.row = d.row /\ e.tally = d.tally
      /\ e.run = [d.run EXCEPT ![g] = o]
  BY <1>1 DEF Database, SameItem, WithRun
<1>4. ASSUME d.run[g] = o PROVE e = d
  <2>1. [d.run EXCEPT ![g] = o] = d.run
    BY <1>1, <1>4 DEF Database
  <2>2. e = [d EXCEPT !.run = [d.run EXCEPT ![g] = o]]
    BY <1>1 DEF Database, WithRun
  <2> HIDE DEF e
  <2> QED
    BY <1>1, <2>1, <2>2 DEF Database
<1> HIDE DEF e
<1>5. e.run[g] = o
  BY <1>1, <1>3 DEF Database
<1>6. Sound(e)
  BY <1>2, <1>3 DEF Sound, SameItem
<1> QED
  BY <1>3, <1>4, <1>5, <1>6 DEF e

LEMMA ItemFields ==
  ASSUME NEW d, Sound(d), NEW e \in Database, ItemOnly(d, e)
  PROVE  Sound(e)
BY DEF Sound, ItemOnly

-----------------------------------------------------------------------------
(* Aggregation restores the view.                                          *)

(* The current generation g before it is aggregated: its scan may just     *)
(* have been cancelled.                                                    *)
Pending(d, g) ==
    /\ Sound(d) /\ g \in Gens /\ g = d.gen /\ ~d.superseded[g]
    /\ AllPlanned(d, g) /\ Hopeful(d, g) /\ BarrierDone(d, g)
    /\ d.tally[g] = TallyOf(d, g)
    /\ d.run[g] # "none"
    /\ Projected(d, g) \/ (d.run[g] = "cancelled" /\ InProgress(d, g))

(* What aggregation makes of it.                                           *)
Restored(d, e, g) ==
    /\ ViewAt(e, g)
    /\ Viewed(d, e)
    /\ e.media \in Shown => d.media \in Shown \/ Achieved(e, g)

LEMMA AggregateSteps ==
  ASSUME NEW d, NEW g, ~d.superseded[g], d.run[g] \notin {"published", "degraded"}
  PROVE  Aggregate(d, g) = Show(Converge(WithRun(CancelBlocked(d, g), g, Outcome(d, g)), g), g)
BY DEF Aggregate, WithRun

(* A run that goes on stays as it is.                                      *)
LEMMA AggregateOpen ==
  ASSUME NEW d, NEW g \in Gens, Sound(d), g = d.gen, ~d.superseded[g],
         d.run[g] = "processing", Outcome(d, g) = "processing", InProgress(d, g)
  PROVE  Aggregate(d, g) = d
<1>1. CancelBlocked(d, g) = d
  BY DEF CancelBlocked
<1>2. WithRun(d, g, "processing") = d
  BY RunFields
<1>3. Converge(d, g) = d
  BY DEF Converge
<1>4. Show(d, g) = d
  <2>1. Show(d, g) = IF d.preserve[g] THEN d ELSE [d EXCEPT !.media = "processing"]
    BY DEF Show
  <2>2. ASSUME d.media = "processing" PROVE [d EXCEPT !.media = "processing"] = d
    BY <2>2 DEF Sound, Database
  <2> QED
    BY <2>1, <2>2 DEF InProgress
<1> QED
  BY <1>1, <1>2, <1>3, <1>4, AggregateSteps

LEMMA RestoredOpen ==
  ASSUME NEW d, NEW g, Pending(d, g), d.run[g] = "processing", Outcome(d, g) = "processing"
  PROVE  Restored(d, Aggregate(d, g), g)
<1>1. Projected(d, g) /\ InProgress(d, g)
  BY DEF Pending, Projected
<1>2. Aggregate(d, g) = d
  BY <1>1, AggregateOpen DEF Pending
<1>3. ViewAt(d, g)
  BY <1>1 DEF ViewAt, Pending, Undecided, Counted
<1> QED
  BY <1>2, <1>3 DEF Restored, Viewed

(* A finished run is not aggregated again.                                 *)
LEMMA RestoredFinished ==
  ASSUME NEW d, NEW g, Pending(d, g), d.run[g] \in {"published", "degraded"}
  PROVE  Restored(d, Aggregate(d, g), g)
<1>1. Aggregate(d, g) = d
  BY DEF Aggregate
<1>2. Projected(d, g)
  BY DEF Pending
<1>3. ViewAt(d, g)
  BY <1>2 DEF ViewAt, Pending, Undecided, Counted
<1> QED
  BY <1>1, <1>3 DEF Restored, Viewed

(* All required steps are done or skipped: the item is published.          *)
LEMMA RestoredPublished ==
  ASSUME NEW d, NEW g, Pending(d, g), d.run[g] = "processing", Outcome(d, g) = "published"
  PROVE  Restored(d, Aggregate(d, g), g)
<1> DEFINE c == WithRun(d, g, "published")
<1> DEFINE m == [c EXCEPT !.media = "published", !.visible = TRUE]
<1> DEFINE e == Barrier(m, g)
<1>0. /\ Sound(d) /\ g \in Gens /\ g = d.gen /\ ~d.superseded[g] /\ AllPlanned(d, g) /\ Hopeful(d, g)
      /\ d.tally[g] = TallyOf(d, g) /\ InProgress(d, g)
  BY DEF Pending, Projected
<1>1. /\ Sound(c) /\ SameItem(d, c) /\ c.step = d.step /\ c.tally = d.tally /\ c.run[g] = "published"
  <2>1. "published" \in {"processing"} \cup Final
    BY DEF Final
  <2> QED
    BY <1>0, <2>1, RunFields
<1>2. CancelBlocked(d, g) = d
  BY DEF CancelBlocked
<1> HIDE DEF c
<1>3. Converge(c, g) = c
  BY <1>1 DEF Converge
<1>4. Show(c, g) = e
  BY <1>0, <1>1 DEF Show, SameItem
<1>5. Aggregate(d, g) = e
  BY <1>0, <1>2, <1>3, <1>4, AggregateSteps DEF c
<1>6. /\ m.media = "published" /\ m.visible /\ ItemOnly(c, m) /\ Sound(m)
  <2>1. c \in Database
    BY <1>1 DEF Sound
  <2>2. m \in Database
    BY <2>1 DEF Database, Final
  <2>3. m.media = "published" /\ m.visible /\ ItemOnly(c, m)
    BY <2>1 DEF Database, ItemOnly
  <2> QED
    BY <1>1, <2>2, <2>3, ItemFields
<1> HIDE DEF m
<1>7. /\ SameItem(m, e) /\ e.run = m.run
      /\ \A s \in Steps \ {Visible} : e.step[g][s] = m.step[g][s]
      /\ e.step[g][Visible] = IF m.step[g][Visible] = "waiting" /\ m.visible /\ m.media \in Shown
                              THEN "done" ELSE m.step[g][Visible]
      /\ m.tally[g] = TallyOf(m, g) => e.tally[g] = TallyOf(e, g)
  BY <1>0, <1>6, BarrierFields
<1> HIDE DEF e
<1>8. /\ e.media = "published" /\ e.visible = TRUE /\ e.run[g] = "published" /\ e.plan = d.plan
      /\ \A s \in Steps : /\ s # Visible => e.step[g][s] = d.step[g][s]
                          /\ e.step[g][s] = d.step[g][s] \/ (d.step[g][s] = "waiting" /\ e.step[g][s] = "done")
      /\ e.step[g][Visible] # "waiting"
  BY <1>1, <1>6, <1>7 DEF SameItem, ItemOnly, Shown
<1>9. e.tally[g] = TallyOf(e, g)
  <2>1. TallyOf(m, g) = TallyOf(d, g) /\ m.tally = d.tally
    BY <1>1, <1>6, SameSteps DEF SameItem, ItemOnly
  <2> QED
    BY <1>0, <1>7, <2>1
<1>10. d.plan[g] \subseteq Steps
  BY <1>0 DEF Sound, Database
<1>11. AllPlanned(e, g)
  BY <1>0, <1>8, <1>10 DEF AllPlanned
<1>12. Hopeful(e, g)
  <2>1. In(e, g, {"waiting"}) \subseteq In(d, g, {"waiting"})
    BY <1>8, <1>10 DEF In
  <2>2. In(e, g, Bad) \subseteq In(d, g, Bad)
    BY <1>8, <1>10 DEF In, Bad
  <2> QED
    BY <1>0, <2>1, <2>2 DEF Hopeful
<1>13. Projected(e, g) /\ Undecided(e, g) /\ BarrierDone(e, g) /\ Counted(e, g)
  BY <1>8, <1>9 DEF Projected, Undecided, BarrierDone, Counted
<1>14. Achieved(e, g)
  <2> SUFFICES ASSUME NEW s \in d.plan[g] \cap Required
               PROVE  e.step[g][s] \in {"done", "skipped"}
    BY <1>8 DEF Achieved
  <2>1. /\ RequiredIn(d, g, {"running"}) = {} /\ RequiredIn(d, g, {"waiting"}) = {}
        /\ RequiredIn(d, g, {"failed", "cancelled"}) = {}
    <3>1. d.run[g] \notin {"failed", "cancelled"} /\ RequiredIn(d, g, {"running"}) = {}
      BY OutcomeFacts, <1>0
    <3>2. Outcome(d, g) = IF RequiredIn(d, g, {"failed", "cancelled"}) # {}
                          THEN IF d.preserve[g] THEN "degraded" ELSE "failed"
                          ELSE IF RequiredIn(d, g, {"waiting"}) # {} THEN "processing" ELSE "published"
      BY <3>1 DEF Outcome
    <3> QED
      BY <3>1, <3>2
  <2>2. d.step[g][s] \notin {"running", "waiting", "failed", "cancelled"}
    BY <2>1 DEF RequiredIn, In
  <2>3. d.step[g][s] \in Status
    BY <1>0, <1>10 DEF AllPlanned, Sound, Database
  <2>4. s # Visible /\ s \in Steps
    BY StepsAssumption
  <2> QED
    BY <1>8, <2>2, <2>3, <2>4 DEF Status, Live, Bad
<1>15. Viewed(d, e)
  BY <1>0, <1>8 DEF Viewed, InProgress
<1> QED
  BY <1>5, <1>11, <1>12, <1>13, <1>14, <1>15 DEF Restored, ViewAt

(* What Outcome says when no required step runs and the run is open.       *)
LEMMA OutcomeOpen ==
  ASSUME NEW d, NEW g \in Gens, d.run[g] \notin {"failed", "cancelled"}, Outcome(d, g) # "processing"
  PROVE  /\ Outcome(d, g) = "degraded" => d.preserve[g]
         /\ Outcome(d, g) = "failed" => ~d.preserve[g]
         /\ Outcome(d, g) # "cancelled"
<1>1. RequiredIn(d, g, {"running"}) = {}
  BY DEF Outcome
<1>2. Outcome(d, g) = IF RequiredIn(d, g, {"failed", "cancelled"}) # {}
                      THEN IF d.preserve[g] THEN "degraded" ELSE "failed"
                      ELSE IF RequiredIn(d, g, {"waiting"}) # {} THEN "processing" ELSE "published"
  BY <1>1 DEF Outcome
<1> QED
  BY <1>2

(* A preserved item survives the failure of a required step: the blocked   *)
(* required steps are cancelled, and no optional step depended on them.    *)
LEMMA RestoredDegraded ==
  ASSUME NEW d, NEW g, Pending(d, g), d.run[g] = "processing", Outcome(d, g) = "degraded"
  PROVE  Restored(d, Aggregate(d, g), g)
<1> DEFINE b == Sweep(d, g, Required, {"waiting"}, "cancelled")
<1> DEFINE c == WithRun(b, g, "degraded")
<1> DEFINE m == [c EXCEPT !.media = "degraded"]
<1> DEFINE e == Barrier(m, g)
<1>0. /\ Sound(d) /\ g \in Gens /\ g = d.gen /\ ~d.superseded[g] /\ AllPlanned(d, g) /\ Hopeful(d, g)
      /\ InProgress(d, g)
  BY DEF Pending, Projected
<1>1. d.preserve[g] /\ d.media \in Shown /\ d.visible
  BY <1>0, OutcomeOpen DEF InProgress
<1>2. {"waiting"} \in SUBSET Live /\ "cancelled" \in Status \ Live /\ "degraded" \in {"processing"} \cup Final
  BY DEF Live, Status, Bad, Final
<1>3. /\ Sound(b) /\ SameItem(d, b) /\ b.run = d.run
      /\ \A s \in Steps : b.step[g][s] = IF s \in Required /\ d.step[g][s] \in {"waiting"} THEN "cancelled" ELSE d.step[g][s]
  BY <1>0, <1>2, SweepSound, SweepFields
<1>4. CancelBlocked(d, g) = b
  BY DEF CancelBlocked
<1> HIDE DEF b
<1>5. /\ Sound(c) /\ SameItem(b, c) /\ c.step = b.step /\ c.run[g] = "degraded"
  BY <1>0, <1>2, <1>3, RunFields
<1> HIDE DEF c
<1>6. Converge(c, g) = c
  BY <1>5 DEF Converge
<1>7. Show(c, g) = e
  BY <1>0, <1>3, <1>5 DEF Show, SameItem
<1>8. Aggregate(d, g) = e
  BY <1>0, <1>4, <1>6, <1>7, AggregateSteps DEF c
<1>9. m.media = "degraded" /\ m.visible = c.visible /\ ItemOnly(c, m) /\ Sound(m)
  <2>1. c \in Database
    BY <1>5 DEF Sound
  <2>2. m \in Database
    BY <2>1 DEF Database, Final
  <2>3. m.media = "degraded" /\ m.visible = c.visible /\ ItemOnly(c, m)
    BY <2>1 DEF Database, ItemOnly
  <2> QED
    BY <1>5, <2>2, <2>3, ItemFields
<1> HIDE DEF m
<1>10. /\ SameItem(m, e) /\ e.run = m.run
       /\ \A s \in Steps \ {Visible} : e.step[g][s] = m.step[g][s]
       /\ e.step[g][Visible] = IF m.step[g][Visible] = "waiting" /\ m.visible /\ m.media \in Shown
                               THEN "done" ELSE m.step[g][Visible]
  BY <1>0, <1>9, BarrierFields
<1> HIDE DEF e
<1>11. /\ e.media = "degraded" /\ e.visible = d.visible /\ e.run[g] = "degraded"
       /\ e.plan = d.plan /\ e.preserve = d.preserve
  BY <1>3, <1>5, <1>9, <1>10 DEF SameItem, ItemOnly
<1>12. /\ \A s \in Steps \ {Visible} : e.step[g][s] =
             IF s \in Required /\ d.step[g][s] \in {"waiting"} THEN "cancelled" ELSE d.step[g][s]
       /\ e.step[g][Visible] \in {d.step[g][Visible], "done"} /\ e.step[g][Visible] # "waiting"
  <2>1. m.step = b.step /\ m.visible /\ m.media \in Shown
    BY <1>1, <1>3, <1>5, <1>9 DEF SameItem, ItemOnly, Shown
  <2>2. Visible \in Steps /\ Visible \notin Required
    BY StepsAssumption
  <2> QED
    BY <1>3, <1>10, <2>1, <2>2
<1>13. d.plan[g] \subseteq Steps
  BY <1>0 DEF Sound, Database
<1>14. AllPlanned(e, g)
  BY <1>0, <1>11, <1>12, <1>13 DEF AllPlanned
<1>15. Hopeful(e, g)
  <2> SUFFICES ASSUME NEW s \in In(e, g, {"waiting"}), NEW x \in Deps[s], x \in In(e, g, Bad)
               PROVE  FALSE
    BY DEF Hopeful
  <2>1. s \in Steps /\ s \notin Required /\ s \in In(d, g, {"waiting"})
    BY <1>11, <1>12, <1>13 DEF In
  <2>2. x \notin Required
    BY <2>1, PlannerAssumption
  <2>3. x \in In(d, g, Bad)
    BY <1>11, <1>12, <1>13, <2>2 DEF In, Bad
  <2> QED
    BY <1>0, <2>1, <2>3 DEF Hopeful
<1>16. Projected(e, g) /\ Undecided(e, g) /\ BarrierDone(e, g) /\ Counted(e, g)
  BY <1>1, <1>11, <1>12 DEF Projected, Undecided, BarrierDone, Counted
<1>17. Viewed(d, e)
  BY <1>1, <1>11 DEF Viewed
<1> QED
  BY <1>1, <1>8, <1>11, <1>14, <1>15, <1>16, <1>17 DEF Restored, ViewAt

(* A failed or cancelled run is fenced: nothing of it is open.             *)
LEMMA FencedFields ==
  ASSUME NEW d, NEW g, Pending(d, g), NEW o \in {"failed", "cancelled"}
  PROVE  LET f == Converge(WithRun(CancelBlocked(d, g), g, o), g)
         IN  /\ Sound(f) /\ SameItem(d, f) /\ f.run[g] = o /\ AllPlanned(f, g)
             /\ In(f, g, Live) = {} /\ f.step[g][Visible] # "waiting"
             /\ f.tally[g] = TallyOf(f, g)
<1> DEFINE b == CancelBlocked(d, g)
<1> DEFINE c == WithRun(b, g, o)
<1> DEFINE w == Sweep(c, g, c.plan[g], Live, "cancelled")
<1> DEFINE f == Converge(c, g)
<1>0. Sound(d) /\ g \in Gens /\ AllPlanned(d, g)
  BY DEF Pending
<1>1. {"waiting"} \in SUBSET Live /\ "cancelled" \in Status \ Live /\ o \in {"processing"} \cup Final
  BY DEF Live, Status, Bad, Final
<1>2. /\ Sound(b) /\ SameItem(d, b)
      /\ \A s \in Steps : b.step[g][s] = d.step[g][s] \/ b.step[g][s] = "cancelled"
  <2>1. CASE b = d
    BY <1>0, <2>1 DEF SameItem
  <2>2. CASE b # d
    <3>1. b = Sweep(d, g, Required, {"waiting"}, "cancelled")
      BY <2>2 DEF CancelBlocked
    <3> HIDE DEF b
    <3> QED
      BY <1>0, <1>1, <3>1, SweepSound, SweepFields
  <2> QED
    BY <2>1, <2>2
<1> HIDE DEF b
<1>3. /\ Sound(c) /\ SameItem(b, c) /\ c.step = b.step /\ c.run[g] = o
  BY <1>0, <1>1, <1>2, RunFields
<1>4. f = Count(w, g)
  BY <1>3 DEF Converge
<1> HIDE DEF c
<1>5. /\ Sound(w) /\ SameItem(c, w) /\ w.run = c.run
      /\ \A s \in Steps : w.step[g][s] = IF s \in c.plan[g] /\ c.step[g][s] \in Live THEN "cancelled" ELSE c.step[g][s]
  BY <1>0, <1>1, <1>3, SweepSound, SweepFields
<1> HIDE DEF w
<1>6. /\ Sound(f) /\ SameItem(w, f) /\ f.run = w.run /\ f.step = w.step /\ f.tally[g] = TallyOf(w, g)
  BY <1>0, <1>4, <1>5, CountSound, CountFields
<1> HIDE DEF f
<1>7. f.plan = d.plan /\ SameItem(d, f) /\ f.run[g] = o
  BY <1>2, <1>3, <1>5, <1>6 DEF SameItem
<1>8. d.plan[g] \subseteq Steps
  BY <1>0 DEF Sound, Database
<1>9. \A s \in Steps : /\ f.step[g][s] \in {d.step[g][s], "cancelled"}
                       /\ s \in d.plan[g] => f.step[g][s] \notin Live
  <2>1. "cancelled" \notin Live /\ c.plan[g] = d.plan[g]
    BY <1>2, <1>3 DEF Live, SameItem
  <2> QED
    BY <1>2, <1>3, <1>5, <1>6, <2>1
<1>10. AllPlanned(f, g)
  BY <1>0, <1>7, <1>8, <1>9 DEF AllPlanned
<1>11. In(f, g, Live) = {}
  BY <1>7, <1>8, <1>9 DEF In
<1>12. f.step[g][Visible] # "waiting"
  <2>1. Visible \in Steps
    BY StepsAssumption
  <2>2. f.step[g][Visible] # "none" => Visible \in d.plan[g]
    BY <1>0, <1>6, <1>7, <2>1 DEF Sound
  <2> QED
    BY <1>9, <2>1, <2>2 DEF Live
<1>13. f.tally[g] = TallyOf(f, g)
  BY <1>6, SameSteps DEF SameItem
<1> QED
  BY <1>6, <1>7, <1>10, <1>11, <1>12, <1>13 DEF f, c, b

(* A fenced run shows the view whatever its item is set to.                *)
LEMMA FencedView ==
  ASSUME NEW f, NEW e, NEW g, e.plan = f.plan, e.step = f.step, e.run = f.run, e.tally = f.tally,
         e.run[g] \in {"failed", "cancelled"}, AllPlanned(f, g), In(f, g, Live) = {},
         f.step[g][Visible] # "waiting", f.tally[g] = TallyOf(f, g), Projected(e, g)
  PROVE  ViewAt(e, g)
<1>1. In(e, g, {"waiting"}) = {}
  BY DEF In, Live
<1>2. Hopeful(e, g)
  BY <1>1 DEF Hopeful
<1>3. AllPlanned(e, g) /\ e.tally[g] = TallyOf(e, g)
  BY SameSteps
<1> QED
  BY <1>2, <1>3 DEF ViewAt, Undecided, BarrierDone, Counted

LEMMA RestoredFailed ==
  ASSUME NEW d, NEW g, Pending(d, g), d.run[g] \in {"processing", "failed"}, Outcome(d, g) = "failed"
  PROVE  Restored(d, Aggregate(d, g), g)
<1> DEFINE f == Converge(WithRun(CancelBlocked(d, g), g, "failed"), g)
<1> DEFINE e == [f EXCEPT !.media = "failed", !.visible = f.visible /\ f.reason[g] = "repair"]
<1>0. /\ Sound(d) /\ g \in Gens /\ g = d.gen /\ ~d.superseded[g]
      /\ Projected(d, g)
  BY DEF Pending
<1>1. /\ Sound(f) /\ SameItem(d, f) /\ f.run[g] = "failed" /\ AllPlanned(f, g)
      /\ In(f, g, Live) = {} /\ f.step[g][Visible] # "waiting"
      /\ f.tally[g] = TallyOf(f, g)
  BY FencedFields
<1>2. Aggregate(d, g) = Show(f, g)
  BY <1>0, AggregateSteps
<1> HIDE DEF f
<1>3. Show(f, g) = e
  <2>1. f.gen = g
    BY <1>0, <1>1 DEF SameItem
  <2>2. [f EXCEPT !.media = "failed", !.visible = @ /\ f.reason[g] = "repair"] = e
    BY <1>1 DEF Sound, Database
  <2> QED
    BY <1>1, <2>1, <2>2 DEF Show
<1>4. /\ e.media = "failed" /\ (e.visible <=> f.visible /\ f.reason[g] = "repair")
      /\ e.visible \in BOOLEAN
      /\ e.plan = f.plan /\ e.step = f.step /\ e.run = f.run /\ e.tally = f.tally
      /\ e.reason = f.reason
  BY <1>1 DEF Sound, Database
<1> HIDE DEF e
<1>5. d.visible \in BOOLEAN
  BY <1>0 DEF Sound, Database
<1>6. Projected(e, g)
  BY <1>1, <1>4 DEF Projected
<1>7. ViewAt(e, g)
  BY <1>1, <1>4, <1>6, FencedView
<1>8. Viewed(d, e)
  <2>1. CASE d.run[g] = "failed"
    <3>1. d.media = "failed" /\ (d.visible => d.reason[g] = "repair")
      BY <1>0, <2>1 DEF Projected
    <3>2. e.visible <=> d.visible
      BY <1>1, <1>4, <3>1 DEF SameItem
    <3>3. e.visible = d.visible
      BY <1>4, <1>5, <3>2
    <3> QED
      BY <1>4, <3>1, <3>3 DEF Viewed
  <2>2. CASE d.run[g] = "processing"
    <3>1. d.media = "processing"
      BY <1>0, <2>2, OutcomeOpen DEF Projected, InProgress
    <3>2. e.visible => d.visible
      BY <1>1, <1>4 DEF SameItem
    <3>3. e.visible \in {FALSE, d.visible}
      BY <1>4, <1>5, <3>2
    <3> QED
      BY <1>4, <1>5, <3>1, <3>3 DEF Viewed
  <2> QED
    BY <2>1, <2>2
<1> QED
  BY <1>2, <1>3, <1>4, <1>7, <1>8 DEF Restored, Shown

LEMMA RestoredCancelled ==
  ASSUME NEW d, NEW g, Pending(d, g), d.run[g] = "cancelled"
  PROVE  Restored(d, Aggregate(d, g), g)
<1> DEFINE f == Converge(WithRun(CancelBlocked(d, g), g, "cancelled"), g)
<1> DEFINE e == Show(f, g)
<1>0. /\ Sound(d) /\ g \in Gens /\ g = d.gen /\ ~d.superseded[g]
  BY DEF Pending
<1>1. /\ Sound(f) /\ SameItem(d, f) /\ f.run[g] = "cancelled" /\ AllPlanned(f, g)
      /\ In(f, g, Live) = {} /\ f.step[g][Visible] # "waiting"
      /\ f.tally[g] = TallyOf(f, g)
  BY FencedFields
<1>2. Aggregate(d, g) = e
  <2>1. Outcome(d, g) = "cancelled"
    BY DEF Outcome
  <2> QED
    BY <1>0, <2>1, AggregateSteps
<1>3. IF d.preserve[g] THEN d.media \in Shown /\ d.visible
      ELSE d.media = "processing" \/ (d.media = "cancelled" /\ ~d.visible)
  BY DEF Pending, Projected, InProgress, Shown
<1> HIDE DEF f
<1>4. f.gen = g /\ f.preserve = d.preserve /\ f.media = d.media /\ f.visible = d.visible
  BY <1>0, <1>1 DEF SameItem
<1>5. f \in Database
  BY <1>1 DEF Sound
<1>6. CASE d.preserve[g]
  <2> DEFINE m == [f EXCEPT !.media = "degraded"]
  <2>1. e = m
    BY <1>1, <1>4, <1>6 DEF Show
  <2>2. /\ m.media = "degraded" /\ m.visible = f.visible /\ m.preserve = f.preserve
        /\ m.plan = f.plan /\ m.step = f.step /\ m.run = f.run /\ m.tally = f.tally
    BY <1>5 DEF Database
  <2> HIDE DEF m, e
  <2>3. m.visible /\ m.preserve[g] /\ m.run[g] = "cancelled"
    BY <1>1, <1>3, <1>4, <1>6, <2>2
  <2>4. Projected(m, g)
    BY <2>2, <2>3 DEF Projected
  <2>5. ViewAt(m, g)
    BY <1>1, <2>2, <2>4, FencedView
  <2>6. Viewed(d, m) /\ d.media \in Shown
    BY <1>3, <1>4, <1>6, <2>2 DEF Viewed
  <2> QED
    BY <1>2, <2>1, <2>5, <2>6 DEF Restored
<1>7. CASE ~d.preserve[g]
  <2> DEFINE m == [f EXCEPT !.media = "cancelled", !.visible = FALSE]
  <2>1. e = m
    BY <1>1, <1>4, <1>7 DEF Show
  <2>2. /\ m.media = "cancelled" /\ m.visible = FALSE /\ m.preserve = f.preserve
        /\ m.plan = f.plan /\ m.step = f.step /\ m.run = f.run /\ m.tally = f.tally
    BY <1>5 DEF Database
  <2> HIDE DEF m, e
  <2>3. Projected(m, g)
    BY <1>1, <1>4, <1>7, <2>2 DEF Projected
  <2>4. ViewAt(m, g)
    BY <1>1, <2>2, <2>3, FencedView
  <2>5. d.visible \in BOOLEAN
    BY <1>0 DEF Sound, Database
  <2>6. Viewed(d, m)
    <3>1. CASE d.media = "processing"
      BY <2>2, <3>1 DEF Viewed
    <3>2. CASE d.media = "cancelled" /\ ~d.visible
      BY <2>2, <2>5, <3>2 DEF Viewed
    <3> QED
      BY <1>3, <1>7, <3>1, <3>2
  <2> QED
    BY <1>2, <2>1, <2>2, <2>4, <2>6 DEF Restored, Shown
<1> QED
  BY <1>6, <1>7

LEMMA AggregateRestores ==
  ASSUME NEW d, NEW g, Pending(d, g)
  PROVE  Restored(d, Aggregate(d, g), g)
<1>0. g \in Gens /\ d.run[g] \in {"processing"} \cup Final
  BY DEF Pending, Sound, Database
<1>1. CASE d.run[g] = "processing"
  <2>1. Outcome(d, g) \in {"processing", "published", "degraded", "failed"}
    BY <1>0, <1>1, OutcomeFacts DEF Final
  <2> QED
    BY <1>1, <2>1, RestoredOpen, RestoredPublished, RestoredDegraded, RestoredFailed
<1>2. CASE d.run[g] = "failed"
  BY <1>0, <1>2, OutcomeFacts, RestoredFailed
<1>3. CASE d.run[g] \notin {"processing", "failed"}
  BY <1>0, <1>3, RestoredFinished, RestoredCancelled DEF Final
<1> QED
  BY <1>1, <1>2, <1>3

-----------------------------------------------------------------------------
(* Transactions restore the view and keep the promise.                     *)

LEMMA AchievedStays ==
  ASSUME NEW d \in Database, NEW e \in Database, History(d, e), NEW g \in Gens, g <= d.gen, Achieved(d, g)
  PROVE  Achieved(e, g)
<1>1. e.run[g] = "published" /\ e.plan[g] = d.plan[g]
  BY DEF History, Achieved, Final
<1> SUFFICES ASSUME NEW s \in d.plan[g] \cap Required
             PROVE  e.step[g][s] \in {"done", "skipped"} \/ e.round[g][s] > 0
  BY <1>1 DEF Achieved
<1>2. s \in Steps
  BY DEF Database
<1>3. d.step[g][s] \in {"done", "skipped"} \/ d.round[g][s] > 0
  BY DEF Achieved
<1>4. CASE d.round[g][s] > 0
  BY <1>2, <1>4 DEF History
<1>5. CASE d.step[g][s] \in {"done", "skipped"}
  <2>1. e.step[g][s] = d.step[g][s] \/ e.round[g][s] > d.round[g][s]
    BY <1>2, <1>5 DEF History, Closed, Bad
  <2>2. d.round[g][s] \in 0..MaxRound /\ e.round[g][s] \in 0..MaxRound
    BY <1>2 DEF Database
  <2>3. e.round[g][s] > d.round[g][s] => e.round[g][s] > 0
    BY <2>2, BoundsAssumption
  <2> QED
    BY <1>5, <2>1, <2>3
<1> QED
  BY <1>3, <1>4, <1>5

(* The run behind a visible item stays the last one that was achieved, or  *)
(* the current run is achieved.                                            *)
LEMMA BackedStays ==
  ASSUME NEW d \in Database, NEW e \in Database, Backed(d), History(d, e),
         e.gen = d.gen, d.gen \in Gens,
         e.media \in Shown => e.visible /\ (d.media \in Shown \/ Achieved(e, d.gen))
  PROVE  Backed(e)
<1> SUFFICES ASSUME e.media \in Shown
             PROVE  \E g \in 1..e.gen : Achieved(e, g) /\ \A h \in (g + 1)..e.gen : e.preserve[h]
  BY DEF Backed
<1>0. d.gen \in Nat /\ d.gen > 0 /\ Gens = 1..MaxGen /\ MaxGen \in Nat
  BY BoundsAssumption DEF Gens
<1>1. CASE Achieved(e, d.gen)
  <2>1. d.gen \in 1..e.gen /\ (d.gen + 1)..e.gen = {}
    BY <1>0
  <2> QED
    BY <1>1, <2>1
<1>2. CASE d.media \in Shown
  <2>1. PICK g \in 1..d.gen : Achieved(d, g) /\ \A h \in (g + 1)..d.gen : d.preserve[h]
    BY <1>2 DEF Backed
  <2>2. g \in Gens /\ g <= d.gen
    BY <1>0
  <2>3. Achieved(e, g)
    BY <2>1, <2>2, AchievedStays
  <2>4. ASSUME NEW h \in (g + 1)..e.gen PROVE e.preserve[h]
    <3>1. h \in Gens /\ h <= d.gen /\ h \in (g + 1)..d.gen
      BY <1>0, <2>2
    <3> QED
      BY <2>1, <3>1 DEF History
  <2> QED
    BY <2>3, <2>4
<1> QED
  BY <1>1, <1>2

(* What Finalize finds after an edit.                                      *)
LEMMA PreparedPending ==
  ASSUME NEW d, Settled(d), NEW m, NEW g, Prepared(d, m, g), ViewAt(d, g)
  PROVE  LET c == Count(Propagate(m, g), g)
         IN  Pending(c, g) /\ c.media = d.media /\ c.visible = d.visible
<1> DEFINE p == Propagate(m, g)
<1> DEFINE c == Count(p, g)
<1>0. /\ g \in Gens /\ g = d.gen /\ Sound(m)
      /\ m.run[g] # d.run[g] => d.run[g] = "processing" /\ m.run[g] = "cancelled"
      /\ m.media = d.media /\ m.visible = d.visible
      /\ m.step[g][Visible] = "waiting" => d.step[g][Visible] = "waiting"
      /\ \A s \in Steps : m.step[g][s] = "none" => d.step[g][s] = "none"
  BY DEF Prepared
<1>1. /\ m.gen = d.gen /\ m.plan = d.plan /\ m.superseded = d.superseded
      /\ m.preserve = d.preserve /\ m.reason = d.reason
  BY DEF Prepared, Edited
<1>2. ~d.superseded[g] /\ d.run[g] # "none"
  BY <1>0 DEF Settled, Gens
<1>3. /\ SameItem(m, p) /\ p.run = m.run /\ p.tally = m.tally /\ Hopeful(p, g)
      /\ \A s \in Steps : \/ p.step[g][s] = m.step[g][s]
                          \/ m.step[g][s] = "waiting" /\ p.step[g][s] = "skipped"
  BY <1>0, PropagateHopeful
<1>4. Sound(p)
  BY <1>0, PropagateSound
<1> HIDE DEF p
<1>5. /\ Sound(c) /\ SameItem(p, c) /\ c.run = p.run /\ c.step = p.step /\ c.tally[g] = TallyOf(p, g)
  BY <1>0, <1>4, CountSound, CountFields
<1> HIDE DEF c
<1>6. /\ c.gen = g /\ c.plan = d.plan /\ c.superseded = d.superseded /\ c.run = m.run
      /\ c.preserve = d.preserve /\ c.reason = d.reason /\ c.media = d.media /\ c.visible = d.visible
  BY <1>0, <1>1, <1>3, <1>5 DEF SameItem
<1>7. c.tally[g] = TallyOf(c, g) /\ Hopeful(c, g)
  BY <1>3, <1>5, SameSteps DEF SameItem
<1>8. AllPlanned(c, g)
  <2>1. d.plan[g] \subseteq Steps
    BY <1>0 DEF Settled, Sound, Database
  <2>2. \A s \in Steps : d.step[g][s] # "none" => c.step[g][s] # "none"
    BY <1>0, <1>3, <1>5
  <2>3. AllPlanned(d, g)
    BY DEF ViewAt
  <2> QED
    BY <1>6, <2>1, <2>2, <2>3 DEF AllPlanned
<1>9. BarrierDone(c, g)
  <2>1. c.step[g][Visible] = "waiting" => d.step[g][Visible] = "waiting"
    BY <1>0, <1>3, <1>5, StepsAssumption
  <2>2. BarrierDone(d, g)
    BY DEF ViewAt
  <2> QED
    BY <1>6, <2>1, <2>2 DEF BarrierDone
<1>10. Projected(d, g)
  BY DEF ViewAt
<1>11. CASE m.run[g] = d.run[g]
  <2>1. Projected(c, g)
    BY <1>6, <1>10, <1>11 DEF Projected, InProgress
  <2> QED
    BY <1>0, <1>2, <1>5, <1>6, <1>7, <1>8, <1>9, <1>11, <2>1 DEF Pending, c, p
<1>12. CASE m.run[g] # d.run[g]
  <2>1. d.run[g] = "processing" /\ c.run[g] = "cancelled"
    BY <1>0, <1>6, <1>12
  <2>2. InProgress(c, g)
    BY <1>6, <1>10, <2>1 DEF Projected, InProgress
  <2> QED
    BY <1>0, <1>2, <1>5, <1>6, <1>7, <1>8, <1>9, <2>1, <2>2 DEF Pending, c, p
<1> QED
  BY <1>11, <1>12

LEMMA PreparedView ==
  ASSUME NEW d, Settled(d), View(d), NEW m, NEW g, Prepared(d, m, g)
  PROVE  LET e == Finalize(m, g) IN View(e) /\ Viewed(d, e)
<1> DEFINE c == Count(Propagate(m, g), g)
<1> DEFINE e == Finalize(m, g)
<1>0. g \in Gens /\ g = d.gen /\ g > 0 /\ Sound(m) /\ Edited(d, m, g)
  BY DEF Prepared, Gens
<1>1. ViewAt(d, g)
  BY <1>0 DEF View
<1>2. Pending(c, g) /\ c.media = d.media /\ c.visible = d.visible
  BY <1>1, PreparedPending
<1>3. e = Aggregate(c, g)
  BY DEF Finalize
<1>4. Restored(c, e, g)
  BY <1>2, <1>3, AggregateRestores
<1>5. Settled(e) /\ History(d, e)
  BY PreparedSettled
<1>6. Local(m, e, g)
  <2>1. ~d.superseded[g]
    BY <1>0 DEF Settled, Gens
  <2>2. ~m.superseded[g]
    BY <1>0, <2>1 DEF Edited
  <2>3. m.run[g] \in {"published", "degraded"} => Quiet(m, g)
    BY DEF Prepared
  <2> QED
    BY <1>0, <2>2, <2>3, FinalizeSound
<1> HIDE DEF c, e
<1>7. e.gen = d.gen /\ \A h \in Gens \ {g} : e.tally[h] = d.tally[h]
  BY <1>0, <1>6 DEF Local, Edited
<1>8. ViewAt(e, g) /\ Viewed(d, e)
  BY <1>2, <1>4 DEF Restored, Viewed
<1>9. Backed(e)
  <2>1. e.run[g] \in {"processing"} \cup Final
    <3>1. e.run[g] # "none"
      BY <1>0, <1>5, <1>7 DEF Settled, Gens
    <3> QED
      BY <1>0, <1>5, <3>1 DEF Settled, Sound, Database
  <2>2. e.media \in Shown => e.visible
    BY <1>8, <2>1 DEF ViewAt, Projected, InProgress, Shown, Final
  <2>3. e.media \in Shown => d.media \in Shown \/ Achieved(e, g)
    BY <1>2, <1>4 DEF Restored
  <2> QED
    BY <1>0, <1>5, <1>7, <2>2, <2>3, BackedStays DEF View, Settled, Sound
<1>10. View(e)
  <2>1. \A h \in Gens : h > g => h \in Gens \ {g}
    BY <1>0 DEF Gens
  <2> QED
    BY <1>0, <1>7, <1>8, <1>9, <2>1 DEF View
<1> QED
  BY <1>8, <1>10 DEF e

(* A claim opens no outcome: its step still stands in the way.             *)
LEMMA ClaimView ==
  ASSUME NEW d, Settled(d), View(d), NEW s \in Steps, d.gen > 0, Eligible(d, d.gen, s)
  PROVE  LET e == Count(SetRow([d EXCEPT !.attempts[d.gen][s] = @ + 1], d.gen, s, "running"), d.gen)
         IN  View(e) /\ Viewed(d, e)
<1> DEFINE g == d.gen
<1> DEFINE c == [d EXCEPT !.attempts[g][s] = @ + 1]
<1> DEFINE m == SetRow(c, g, s, "running")
<1> DEFINE e == Count(m, g)
<1>1. g \in Gens
  BY CurrentGen DEF Settled, Sound
<1>2. d.attempts[g][s] + 1 \in 0..MaxAttempts
  BY <1>1, BoundsAssumption DEF Eligible, Settled, Sound, Database
<1>3. c \in Database
  BY <1>1, <1>2 DEF Settled, Sound, Database
<1>4. ItemOnly(d, c) /\ c.media = d.media /\ c.visible = d.visible
  BY DEF Settled, Sound, Database, ItemOnly
<1> HIDE DEF c
<1>5. Sound(c)
  BY <1>3, <1>4, ItemFields DEF Settled
<1>6. c.row[g][s] = "waiting" /\ d.step[g][s] = "waiting" /\ s \in d.plan[g]
  BY <1>4 DEF Eligible, ItemOnly
<1>7. /\ Sound(m)
      /\ m.gen = c.gen /\ m.plan = c.plan /\ m.superseded = c.superseded /\ m.run = c.run
      /\ m.preserve = c.preserve /\ m.reason = c.reason /\ m.tally = c.tally
      /\ m.media = c.media /\ m.visible = c.visible
      /\ m.step = [c.step EXCEPT ![g][s] = "running"] /\ m.round = c.round
  BY <1>1, <1>5, <1>6, WriteStatus DEF Status, Live
<1> HIDE DEF m
<1>8. /\ Sound(e) /\ SameItem(m, e) /\ e.run = m.run /\ e.step = m.step
      /\ e.tally[g] = TallyOf(m, g)
      /\ \A h \in Gens \ {g} : e.tally[h] = m.tally[h]
  BY <1>1, <1>7, CountSound, CountFields
<1>9. Settled(e) /\ History(d, e)
  BY ClaimSettled DEF m, c
<1> HIDE DEF e
<1>10. /\ SameItem(d, e) /\ e.run = d.run
       /\ e.tally[g] = TallyOf(e, g)
       /\ \A h \in Gens \ {g} : e.tally[h] = d.tally[h]
  BY <1>4, <1>7, <1>8, SameSteps DEF SameItem, ItemOnly
<1>11. \A x \in Steps : e.step[g][x] = IF x = s THEN "running" ELSE d.step[g][x]
  BY <1>1, <1>4, <1>7, <1>8 DEF Settled, Sound, Database, ItemOnly
<1>12. d.plan[g] \subseteq Steps
  BY <1>1 DEF Settled, Sound, Database
<1>13. ViewAt(d, g)
  BY DEF View
<1>14. /\ In(e, g, {"waiting"}) \subseteq In(d, g, {"waiting"})
       /\ In(e, g, Bad) = In(d, g, Bad)
       /\ In(e, g, {"failed", "cancelled"}) = In(d, g, {"failed", "cancelled"})
       /\ In(e, g, {"running"}) = In(d, g, {"running"}) \cup {s}
       /\ s \notin Required => RequiredIn(e, g, {"waiting"}) = RequiredIn(d, g, {"waiting"})
  BY <1>6, <1>10, <1>11, <1>12 DEF In, RequiredIn, Bad, SameItem
<1>15. AllPlanned(e, g) /\ Hopeful(e, g)
  <2>1. AllPlanned(d, g) /\ Hopeful(d, g)
    BY <1>13 DEF ViewAt
  <2>2. AllPlanned(e, g)
    BY <1>10, <1>11, <1>12, <2>1 DEF AllPlanned, SameItem
  <2> QED
    BY <1>14, <2>1, <2>2 DEF Hopeful
<1>16. Undecided(e, g)
  <2> SUFFICES ASSUME e.run[g] = "processing" PROVE Outcome(e, g) = "processing"
    BY DEF Undecided
  <2>1. CASE RequiredIn(e, g, {"running"}) # {}
    BY <2>1 DEF Outcome
  <2>2. CASE RequiredIn(e, g, {"running"}) = {}
    <3>1. s \notin Required /\ RequiredIn(d, g, {"running"}) = {}
      BY <1>14, <2>2 DEF RequiredIn
    <3>2. /\ RequiredIn(e, g, {"running"}) = RequiredIn(d, g, {"running"})
          /\ RequiredIn(e, g, {"waiting"}) = RequiredIn(d, g, {"waiting"})
          /\ RequiredIn(e, g, {"failed", "cancelled"}) = RequiredIn(d, g, {"failed", "cancelled"})
      BY <1>14, <2>2, <3>1 DEF RequiredIn
    <3>3. Outcome(e, g) = Outcome(d, g)
      BY <1>10, <3>2 DEF Outcome, SameItem
    <3> QED
      BY <1>10, <1>13, <3>3 DEF ViewAt, Undecided
  <2> QED
    BY <2>1, <2>2
<1>17. Projected(e, g) /\ BarrierDone(e, g) /\ Counted(e, g)
  <2>1. Projected(d, g) /\ BarrierDone(d, g)
    BY <1>13 DEF ViewAt
  <2>2. Visible \in Steps
    BY StepsAssumption
  <2>3. Projected(e, g)
    BY <1>10, <2>1 DEF Projected, InProgress, SameItem
  <2> QED
    BY <1>10, <1>11, <2>1, <2>2, <2>3 DEF BarrierDone, Counted, SameItem
<1>18. Backed(e)
  BY <1>1, <1>9, <1>10, BackedStays DEF View, Settled, Sound, SameItem, Backed
<1>19. View(e)
  <2>1. \A h \in Gens : h > g => h \in Gens \ {g}
    BY <1>1 DEF Gens
  <2> QED
    BY <1>10, <1>15, <1>16, <1>17, <1>18, <2>1 DEF View, ViewAt, SameItem
<1> QED
  BY <1>10, <1>19 DEF e, m, c, Viewed, SameItem

(* A new plan is undecided, and keeps what it preserves.                   *)
LEMMA PlanView ==
  ASSUME NEW d, Settled(d), View(d), NEW e, Settled(e), History(d, e),
         NEW g \in Gens, g = d.gen + 1, NEW P \in Plans, NEW keep \in BOOLEAN,
         Planned(d, e, P, keep, g), keep => d.media \in Shown
  PROVE  View(e) /\ Viewed(d, e)
<1>0. /\ e.gen = g /\ e.plan[g] = P /\ e.run[g] = "processing" /\ (e.preserve[g] <=> keep)
      /\ e.visible = d.visible /\ e.tally = d.tally
      /\ \A s \in Steps : e.step[g][s] = IF s \notin P THEN "none"
                                         ELSE IF s = Visible /\ keep THEN "done" ELSE "waiting"
  BY DEF Planned
<1>1. (keep => e.media = d.media) /\ (~keep => e.media = "processing")
  BY DEF Planned
<1>2. P \subseteq Steps /\ Visible \in Steps \ Required /\ Required \subseteq Steps /\ P \cap Required # {}
  BY StepsAssumption, PlannerAssumption
<1>3. keep => d.visible
  BY DEF View, Backed
<1>4. Projected(e, g)
  BY <1>0, <1>1, <1>3 DEF Projected, InProgress
<1>5. AllPlanned(e, g)
  BY <1>0, <1>2 DEF AllPlanned
<1>6. In(e, g, Bad) = {} /\ In(e, g, {"failed", "cancelled"}) = {} /\ In(e, g, {"running"}) = {}
  BY <1>0, <1>2 DEF In, Bad
<1>7. RequiredIn(e, g, {"waiting"}) = P \cap Required
  BY <1>0, <1>2 DEF In, RequiredIn
<1>8. Hopeful(e, g)
  BY <1>6 DEF Hopeful
<1>9. Undecided(e, g)
  BY <1>0, <1>2, <1>6, <1>7 DEF Undecided, Outcome, RequiredIn
<1>10. BarrierDone(e, g)
  BY <1>0, <1>1, <1>2 DEF BarrierDone, Shown
<1>11. d.gen \in Nat /\ g > d.gen /\ g > 0 /\ \A h \in Gens : h > g => h > d.gen
  BY DEF Settled, Sound, Database, Gens
<1>12. d.tally[g] = NoTally /\ \A h \in Gens : h > g => d.tally[h] = NoTally
  BY <1>11 DEF View
<1>13. Counted(e, g)
  BY <1>0, <1>12 DEF Counted
<1>14. Backed(e)
  <2> SUFFICES ASSUME e.media \in Shown
               PROVE  e.visible /\ \E i \in 1..g : Achieved(e, i) /\ \A h \in (i + 1)..g : e.preserve[h]
    BY <1>0 DEF Backed
  <2>1. keep /\ d.media \in Shown /\ d.visible
    BY <1>1, <1>3 DEF Shown
  <2>2. PICK i \in 1..d.gen : Achieved(d, i) /\ \A h \in (i + 1)..d.gen : d.preserve[h]
    BY <2>1 DEF View, Backed
  <2>3. i \in Gens /\ i <= d.gen /\ i \in 1..g
    BY <1>11, BoundsAssumption DEF Gens
  <2>4. Achieved(e, i)
    BY <2>2, <2>3, AchievedStays DEF Settled, Sound
  <2>5. ASSUME NEW h \in (i + 1)..g PROVE e.preserve[h]
    <3>1. CASE h = g
      BY <1>0, <2>1, <3>1
    <3>2. CASE h # g
      <4>1. h \in Gens /\ h <= d.gen /\ h \in (i + 1)..d.gen
        BY <1>11, <2>3, <3>2, BoundsAssumption DEF Gens
      <4> QED
        BY <2>2, <4>1 DEF History
    <3> QED
      BY <3>1, <3>2
  <2> QED
    BY <1>0, <2>1, <2>3, <2>4, <2>5
<1>15. View(e)
  BY <1>0, <1>4, <1>5, <1>8, <1>9, <1>10, <1>11, <1>12, <1>13, <1>14 DEF View, ViewAt
<1>16. Viewed(d, e)
  BY <1>0, <1>1 DEF Viewed
<1> QED
  BY <1>15, <1>16

(* Adopting artefacts settles optional steps and the barrier only.         *)
LEMMA AdoptView ==
  ASSUME NEW m, Settled(m), View(m), NEW g \in Gens, g = m.gen, m.run[g] = "processing",
         m.tally[g] = NoTally, NEW found
  PROVE  LET e == Adopt(m, g, found)
         IN  View(e) /\ e.media = m.media /\ e.visible = m.visible
<1> DEFINE optional == In(m, g, {"waiting"}) \ (Required \cup {Visible})
<1> DEFINE barrier == IF m.media \in {"published", "degraded"} THEN {Visible} ELSE {}
<1> DEFINE adopted == (optional \cap found) \cup (barrier \cap m.plan[g])
<1> DEFINE c == Sweep(m, g, adopted, {"waiting"}, "done")
<1> DEFINE e == Sweep(c, g, optional \ found, {"waiting"}, "skipped")
<1>0. Adopt(m, g, found) = e
  BY DEF Adopt
<1>1. {"waiting"} \in SUBSET Live /\ "done" \in Status \ Live /\ "skipped" \in Status \ Live
  BY DEF Live, Status, Bad
<1>2. Settled(e) /\ History(m, e)
  <2>1. History(m, m)
    BY DEF History
  <2> HIDE DEF e
  <2> QED
    BY <1>0, <2>1, AdoptSettled
<1>3. /\ Sound(c) /\ SameItem(m, c) /\ c.run = m.run /\ c.tally = m.tally
      /\ \A s \in Steps : c.step[g][s] = IF s \in adopted /\ m.step[g][s] \in {"waiting"} THEN "done" ELSE m.step[g][s]
  <2>1. Sound(m)
    BY DEF Settled
  <2> HIDE DEF adopted, optional, barrier
  <2>2. Sound(c)
    BY <1>1, <2>1, SweepSound
  <2>3. LET x == Sweep(m, g, adopted, {"waiting"}, "done")
        IN  /\ SameItem(m, x) /\ x.run = m.run /\ x.tally = m.tally
            /\ \A s \in Steps : x.step[g][s] = IF s \in adopted /\ m.step[g][s] \in {"waiting"} THEN "done" ELSE m.step[g][s]
    BY <1>1, <2>1, SweepFields
  <2> QED
    BY <2>2, <2>3
<1> HIDE DEF c
<1>4. /\ SameItem(c, e) /\ e.run = c.run /\ e.tally = c.tally
      /\ \A s \in Steps : e.step[g][s] = IF s \in optional \ found /\ c.step[g][s] \in {"waiting"} THEN "skipped" ELSE c.step[g][s]
  <2> DEFINE rest == optional \ found
  <2> HIDE DEF rest
  <2>1. LET x == Sweep(c, g, rest, {"waiting"}, "skipped")
        IN  /\ SameItem(c, x) /\ x.run = c.run /\ x.tally = c.tally
            /\ \A s \in Steps : x.step[g][s] = IF s \in rest /\ c.step[g][s] \in {"waiting"} THEN "skipped" ELSE c.step[g][s]
    BY <1>1, <1>3, SweepFields
  <2> QED
    BY <2>1 DEF rest
<1> HIDE DEF e
<1>5. SameItem(m, e) /\ e.run = m.run /\ e.tally = m.tally
  BY <1>3, <1>4 DEF SameItem
<1>6. /\ \A s \in Required : e.step[g][s] = m.step[g][s]
      /\ \A s \in Steps : /\ e.step[g][s] = "waiting" => m.step[g][s] = "waiting" /\ s \notin optional
                          /\ m.step[g][s] # "none" => e.step[g][s] # "none"
                          /\ e.step[g][s] \in {m.step[g][s], "done", "skipped"}
  <2>1. /\ \A s \in optional : m.step[g][s] = "waiting" /\ s \notin Required
        /\ \A s \in optional : s \in found => s \in adopted
        /\ \A s \in adopted : s \notin Required
        /\ Required \subseteq Steps
    BY StepsAssumption DEF In
  <2> HIDE DEF optional, adopted
  <2> QED
    BY <1>3, <1>4, <2>1
<1>7. m.plan[g] \subseteq Steps /\ ViewAt(m, g)
  <2>1. m.gen > 0
    BY DEF Gens
  <2>2. m.plan[g] \subseteq Steps
    BY DEF Settled, Sound, Database
  <2> QED
    BY <2>1, <2>2 DEF View
<1>8. \A S : RequiredIn(e, g, S) = RequiredIn(m, g, S)
  BY <1>5, <1>6 DEF RequiredIn, In, SameItem
<1>9. AllPlanned(e, g)
  BY <1>5, <1>6, <1>7 DEF AllPlanned, ViewAt, SameItem
<1>10. Hopeful(e, g)
  <2> SUFFICES ASSUME NEW s \in In(e, g, {"waiting"}), NEW x \in Deps[s], x \in In(e, g, Bad)
               PROVE  FALSE
    BY DEF Hopeful
  <2>1. s \in Steps /\ s \in In(m, g, {"waiting"}) /\ s \notin optional
    BY <1>5, <1>6, <1>7 DEF In, SameItem
  <2>2. s # Visible
    BY StepsAssumption
  <2>3. s \in Required
    BY <2>1, <2>2
  <2>4. x \in Required
    BY <2>3, PlannerAssumption
  <2>5. x \in RequiredIn(m, g, Bad)
    BY <1>8, <2>4 DEF RequiredIn
  <2>6. Hopeful(m, g)
    BY <1>7 DEF ViewAt
  <2> QED
    BY <2>1, <2>5, <2>6 DEF Hopeful, RequiredIn
<1>11. Undecided(e, g)
  <2>1. Outcome(e, g) = Outcome(m, g)
    BY <1>5, <1>8 DEF Outcome, SameItem
  <2> QED
    BY <1>5, <1>7, <2>1 DEF Undecided, ViewAt
<1>12. Projected(e, g) /\ BarrierDone(e, g) /\ Counted(e, g)
  <2>1. Projected(m, g) /\ BarrierDone(m, g)
    BY <1>7 DEF ViewAt
  <2>2. Projected(e, g)
    BY <1>5, <2>1 DEF Projected, InProgress, SameItem
  <2>3. BarrierDone(e, g)
    BY <1>5, <1>6, <2>1, StepsAssumption DEF BarrierDone, SameItem
  <2> QED
    BY <1>5, <2>2, <2>3 DEF Counted
<1>13. Backed(e)
  BY <1>2, <1>5, BackedStays DEF View, Settled, Sound, SameItem, Backed
<1>14. View(e)
  BY <1>5, <1>9, <1>10, <1>11, <1>12, <1>13 DEF View, ViewAt, SameItem, Gens
<1> QED
  BY <1>0, <1>5, <1>14 DEF SameItem

-----------------------------------------------------------------------------
(* A restart finds every committed state projected and aggregated.         *)

LEMMA ValidatedIdle ==
  ASSUME NEW d, Settled(d), View(d)
  PROVE  Validated(d) = IF d.gen = 0 THEN d ELSE Count(d, d.gen)
<1> SUFFICES ASSUME NEW g \in Gens, g = d.gen, g > 0
             PROVE  Validated(d) = Count(d, g)
  <2>1. d \in Database /\ (d.gen # 0 => d.gen > 0)
    BY DEF Settled, Sound, Database
  <2> QED
    BY <2>1, CurrentGen DEF Validated
<1> DEFINE c == Count(d, g)
<1>1. Sound(d) /\ ViewAt(d, g) /\ Quiet(d, g) /\ ~d.superseded[g]
  BY DEF View, Settled, Gens
<1>2. {"waiting"} \in SUBSET Live /\ Live \in SUBSET Live /\ d.plan[g] \subseteq Steps
  BY <1>1 DEF Live, Sound, Database
<1>3. Resume(d, g) = d
  <2>1. d.run[g] \in {"failed", "cancelled"} => In(d, g, Live) = {}
    BY <1>1 DEF Quiet
  <2>2. d.run[g] = "failed" => RequiredIn(d, g, {"waiting"}) = {}
    BY <2>1 DEF RequiredIn, In, Live
  <2>3. d.run[g] \in {"failed", "cancelled"} => Sweep(d, g, d.plan[g] \ Required, {"waiting"}, "cancelled") = d
    <3> SUFFICES ASSUME d.run[g] \in {"failed", "cancelled"}
                 PROVE  Sweep(d, g, d.plan[g] \ Required, {"waiting"}, "cancelled") = d
      OBVIOUS
    <3>1. \A s \in Steps : s \in d.plan[g] \ Required => d.step[g][s] \notin {"waiting"}
      BY <2>1 DEF In, Live
    <3> QED
      BY <1>1, <1>2, <3>1, SweepIdle
  <2> QED
    BY <2>2, <2>3 DEF Resume
<1>4. Unblock(d, g) = d
  BY <1>1 DEF Unblock, ViewAt, BarrierDone, Shown
<1>5. Propagate(d, g) = d
  BY <1>1, PropagateIdle DEF ViewAt
<1>6. Validated(d) = Aggregate(c, g)
  BY <1>1, <1>3, <1>4, <1>5, ResyncIdle DEF Validated, Finalize
<1>7. /\ Sound(c) /\ SameItem(d, c) /\ c.run = d.run /\ c.step = d.step /\ c.tally[g] = TallyOf(d, g)
  BY <1>1, CountSound, CountFields
<1> HIDE DEF c
<1>8. Aggregate(c, g) = c
  <2>1. CASE c.run[g] \in {"published", "degraded"}
    BY <2>1 DEF Aggregate
  <2>2. CASE c.run[g] = "processing"
    <3>1. Outcome(c, g) = "processing"
      BY <1>1, <1>7, <2>2, SameOutcome DEF ViewAt, Undecided, SameItem
    <3>2. InProgress(c, g)
      BY <1>1, <1>7, <2>2 DEF ViewAt, Projected, InProgress, SameItem
    <3>3. c.gen = g /\ ~c.superseded[g]
      BY <1>1, <1>7 DEF SameItem
    <3> QED
      BY <1>7, <2>2, <3>1, <3>2, <3>3, AggregateOpen
  <2>3. CASE c.run[g] \in {"failed", "cancelled"}
    <3>1. CancelBlocked(c, g) = c /\ Outcome(c, g) = c.run[g]
      BY <2>3, OutcomeFacts DEF CancelBlocked
    <3>2. WithRun(c, g, c.run[g]) = c
      BY <1>7, <2>3, RunFields DEF Final
    <3>3. Sweep(c, g, c.plan[g], Live, "cancelled") = c
      <4>1. In(d, g, Live) = {}
        BY <1>1, <1>7, <2>3 DEF Quiet
      <4>2. \A s \in Steps : s \in c.plan[g] => c.step[g][s] \notin Live
        BY <1>7, <4>1 DEF In, SameItem
      <4> QED
        BY <1>2, <1>7, <4>2, SweepIdle
    <3>4. Count(c, g) = c
      BY <1>7, CountFields, SameSteps DEF SameItem
    <3>5. Converge(c, g) = c
      BY <2>3, <3>3, <3>4 DEF Converge
    <3>6. c.gen = g /\ Projected(c, g) /\ c \in Database
      BY <1>1, <1>7 DEF ViewAt, Projected, InProgress, SameItem, Sound
    <3>7. Show(c, g) = c
      <4>1. CASE c.run[g] = "failed"
        <5>1. c.media = "failed" /\ (c.visible /\ c.reason[g] = "repair" <=> c.visible) /\ c.visible \in BOOLEAN
          BY <3>6, <4>1 DEF Projected, Database
        <5>2. (c.visible /\ c.reason[g] = "repair") = c.visible
          BY <5>1
        <5>3. Show(c, g) = [c EXCEPT !.media = "failed", !.visible = c.visible /\ c.reason[g] = "repair"]
          BY <3>6, <4>1 DEF Show, Database
        <5>4. Show(c, g) = [c EXCEPT !.media = c.media, !.visible = c.visible]
          BY <5>1, <5>2, <5>3
        <5>5. [c EXCEPT !.media = c.media, !.visible = c.visible] = c
          BY <3>6 DEF Database
        <5> QED
          BY <5>4, <5>5
      <4>2. CASE c.run[g] = "cancelled" /\ c.preserve[g]
        <5>1. Show(c, g) = [c EXCEPT !.media = c.media]
          BY <3>6, <4>2 DEF Show, Projected
        <5>2. [c EXCEPT !.media = c.media] = c
          BY <3>6 DEF Database
        <5> QED
          BY <5>1, <5>2
      <4>3. CASE c.run[g] = "cancelled" /\ ~c.preserve[g]
        <5>1. c.visible = FALSE /\ c.media = "cancelled"
          BY <3>6, <4>3 DEF Projected, Database
        <5>2. Show(c, g) = [c EXCEPT !.media = c.media, !.visible = c.visible]
          BY <3>6, <4>3, <5>1 DEF Show
        <5>3. [c EXCEPT !.media = c.media, !.visible = c.visible] = c
          BY <3>6 DEF Database
        <5> QED
          BY <5>2, <5>3
      <4> QED
        BY <2>3, <4>1, <4>2, <4>3
    <3>8. ~c.superseded[g]
      BY <1>1, <1>7 DEF SameItem
    <3> QED
      BY <2>3, <3>1, <3>2, <3>5, <3>7, <3>8, AggregateSteps
  <2>4. c.run[g] \in {"processing"} \cup Final
    <3>1. d.run[g] # "none"
      BY DEF Settled, Gens
    <3> QED
      BY <1>7, <3>1 DEF Sound, Database
  <2> QED
    BY <2>1, <2>2, <2>3, <2>4 DEF Final
<1> QED
  BY <1>6, <1>8 DEF c

LEMMA StartView ==
  ASSUME NEW d, Settled(d), View(d)
  PROVE  View(Validated(d)) /\ [Validated(d) EXCEPT !.tally = d.tally] = d
<1>0. d \in Database
  BY DEF Settled, Sound
<1>1. CASE d.gen = 0
  <2>1. Validated(d) = d
    BY <1>1, ValidatedIdle
  <2>2. [d EXCEPT !.tally = d.tally] = d
    BY <1>0 DEF Database
  <2> QED
    BY <2>1, <2>2
<1>2. CASE d.gen # 0
  <2> DEFINE g == d.gen
  <2> DEFINE e == Count(d, g)
  <2>a. g > 0
    BY <1>0, <1>2, BoundsAssumption DEF Database
  <2>1. g \in Gens /\ g > 0
    BY <1>0, <2>a, CurrentGen
  <2>2. Validated(d) = e
    BY <1>2, ValidatedIdle
  <2>3. /\ SameItem(d, e) /\ e.run = d.run /\ e.step = d.step
        /\ e.tally[g] = TallyOf(d, g)
        /\ \A h \in Gens \ {g} : e.tally[h] = d.tally[h]
        /\ [e EXCEPT !.tally = d.tally] = d
    BY <2>1, CountFields DEF Settled
  <2>4. Settled(e) /\ History(d, e)
    BY <2>2, StartSettled
  <2> HIDE DEF e
  <2>5. ViewAt(d, g)
    BY <2>1 DEF View
  <2>6. AllPlanned(e, g) /\ Hopeful(e, g) /\ TallyOf(e, g) = TallyOf(d, g) /\ Outcome(e, g) = Outcome(d, g)
    BY <2>3, <2>5, SameSteps, SameOutcome DEF ViewAt, SameItem
  <2>7. Projected(e, g) /\ BarrierDone(e, g) /\ Undecided(e, g) /\ Counted(e, g)
    BY <2>3, <2>5, <2>6 DEF ViewAt, Projected, InProgress, BarrierDone, Undecided, Counted, SameItem
  <2>8. Backed(e)
    BY <2>1, <2>3, <2>4, BackedStays DEF View, Settled, Sound, SameItem, Backed
  <2>9. \A h \in Gens : h > g => h \in Gens \ {g}
    BY <2>1 DEF Gens
  <2>10. View(e)
    BY <2>1, <2>3, <2>6, <2>7, <2>8, <2>9 DEF View, ViewAt, SameItem
  <2> QED
    BY <2>2, <2>3, <2>10 DEF e
<1> QED
  BY <1>1, <1>2

LEMMA UnrelatedView ==
  ASSUME NEW d, Settled(d), View(d), NEW e, Unrelated(d, e)
  PROVE  View(e) /\ Viewed(d, e)
<1>0. /\ e \in Database
      /\ e.gen = d.gen /\ e.plan = d.plan /\ e.round = d.round
      /\ e.run = d.run /\ e.step = d.step /\ e.preserve = d.preserve
      /\ e.reason = d.reason /\ e.media = d.media /\ e.visible = d.visible /\ e.tally = d.tally
  BY DEF Unrelated
<1>1. d.gen > 0 => ViewAt(e, d.gen)
  <2> SUFFICES ASSUME ViewAt(d, d.gen) PROVE ViewAt(e, d.gen)
    BY DEF View
  <2> DEFINE g == d.gen
  <2>1. AllPlanned(e, g) /\ Hopeful(e, g) /\ TallyOf(e, g) = TallyOf(d, g) /\ Outcome(e, g) = Outcome(d, g)
    BY <1>0, SameSteps, SameOutcome DEF ViewAt
  <2>2. Projected(e, g) /\ BarrierDone(e, g) /\ Undecided(e, g) /\ Counted(e, g)
    BY <1>0, <2>1 DEF ViewAt, Projected, InProgress, BarrierDone, Undecided, Counted
  <2> QED
    BY <2>1, <2>2 DEF ViewAt
<1>2. \A g : Achieved(e, g) <=> Achieved(d, g)
  BY <1>0 DEF Achieved
<1>3. Backed(e)
  BY <1>0, <1>2 DEF View, Backed
<1> QED
  BY <1>0, <1>1, <1>3 DEF View, Viewed

(* What the plans of an operator preserve is there to be preserved.        *)
LEMMA TransactionView ==
  ASSUME TypeOK, Settled(db), View(db), Next
  PROVE  View(db') /\ Viewed(db, db')
<1>0. db \in Database /\ Settled(db') /\ History(db, db')
  BY TransactionSettled DEF TypeOK
<1>1. CASE PlanNew
  <2> SUFFICES ASSUME NEW P \in Plans, NEW why \in {"scan", "upload"}, db.gen = 0, MaxGen > 0,
                      db' = Persist(db, P, FALSE, why)
               PROVE  View(db') /\ Viewed(db, db')
    BY <1>1 DEF PlanNew
  <2>1. P \in SUBSET Steps /\ FALSE \in BOOLEAN /\ db.gen < MaxGen
    BY StepsAssumption
  <2>2. db.gen + 1 \in Gens
    BY <2>1, NextGen
  <2>3. Planned(db, db', P, FALSE, db.gen + 1)
    BY <2>1, <2>2, FirstPlanSettled
  <2> QED
    BY <1>0, <2>1, <2>2, <2>3, PlanView
<1>2. ASSUME NEW s \in Steps, Claim(s)
      PROVE  View(db') /\ Viewed(db, db')
  BY <1>2, ClaimView DEF Claim, HandOut
<1>3. CASE RetryIngest
  <2> SUFFICES ASSUME NEW P \in Plans, 0 < db.gen, db.gen < MaxGen, NEW keep \in BOOLEAN,
                      keep = (db.media = "degraded"),
                      db' = Replace(db, P, keep, "manual_retry")
               PROVE  View(db') /\ Viewed(db, db')
    BY <1>3 DEF RetryIngest
  <2>1. P \in SUBSET Steps /\ (keep => db.media \in Shown)
    BY StepsAssumption DEF Shown
  <2>2. db.gen \in Gens /\ db.gen + 1 \in Gens
    BY <1>0, CurrentGen, NextGen
  <2>3. Planned(db, db', P, keep, db.gen + 1)
    BY <2>1, <2>2, ReplaceSettled
  <2> QED
    BY <1>0, <2>1, <2>2, <2>3, PlanView
<1>4. CASE Repair
  <2> SUFFICES ASSUME NEW P \in Plans, NEW keep \in BOOLEAN, NEW found, 0 < db.gen, db.gen < MaxGen,
                      db.media \in Shown,
                      db' = Adopt(Replace(db, P, keep, "repair"), db.gen + 1, found)
               PROVE  View(db') /\ Viewed(db, db')
    BY <1>4 DEF Repair, Shown
  <2> DEFINE m == Replace(db, P, keep, "repair")
  <2>1. P \in SUBSET Steps
    BY StepsAssumption
  <2>2. db.gen \in Gens /\ db.gen + 1 \in Gens
    BY <1>0, CurrentGen, NextGen
  <2> SUFFICES ASSUME NEW g \in Gens, g = db.gen + 1
               PROVE  View(Adopt(m, g, found)) /\ Viewed(db, Adopt(m, g, found))
    BY <2>2
  <2>3. Settled(m) /\ History(db, m) /\ Planned(db, m, P, keep, g)
    BY <2>1, <2>2, ReplaceSettled
  <2> HIDE DEF m
  <2>4. View(m) /\ Viewed(db, m)
    BY <2>3, PlanView
  <2>5. m.gen = g /\ m.run[g] = "processing" /\ m.tally[g] = NoTally
    <3>1. m.gen = g /\ m.run[g] = "processing" /\ m.tally = db.tally
      BY <2>3 DEF Planned
    <3>2. g > db.gen
      BY <1>0 DEF Database, Gens
    <3> QED
      BY <3>1, <3>2 DEF View
  <2>6. /\ View(Adopt(m, g, found))
        /\ Adopt(m, g, found).media = m.media /\ Adopt(m, g, found).visible = m.visible
    BY <2>3, <2>4, <2>5, AdoptView
  <2> QED
    BY <2>4, <2>6 DEF Viewed
<1>5. CASE Start
  <2>1. db' = Validated(db)
    BY <1>5 DEF Start
  <2>2. View(db') /\ [db' EXCEPT !.tally = db.tally] = db
    BY <2>1, StartView
  <2>3. db'.media = db.media /\ db'.visible = db.visible
    <3>1. db' \in Database
      BY <1>0 DEF Settled, Sound
    <3>2. [db' EXCEPT !.tally = db.tally].media = db'.media /\ [db' EXCEPT !.tally = db.tally].visible = db'.visible
      BY <3>1 DEF Database
    <3> QED
      BY <2>2, <3>2
  <2> QED
    BY <2>2, <2>3 DEF Viewed
<1>6. CASE Unrelated(db, db')
  BY <1>6, UnrelatedView
<1>7. ASSUME NEW m, Prepared(db, m, db.gen), db' = Finalize(m, db.gen)
      PROVE  View(db') /\ Viewed(db, db')
  BY <1>7, PreparedView
<1> QED
  BY <1>1, <1>2, <1>3, <1>4, <1>5, <1>6, <1>7, Transactions

-----------------------------------------------------------------------------
(* The specification.                                                      *)

ViewInv == Inv /\ View(db)

LEMMA InitView == Init => ViewInv
<1> SUFFICES ASSUME Init PROVE ViewInv
  OBVIOUS
<1>1. db.gen = 0 /\ db.media = "none" /\ db.visible = FALSE /\ \A g \in Gens : db.tally[g] = NoTally
  BY DEF Init
<1>2. View(db)
  BY <1>1 DEF View, Backed, Shown
<1> QED
  BY <1>2, InitInv DEF ViewInv

LEMMA NextView == ViewInv /\ [Next]_vars => ViewInv' /\ Viewed(db, db')
<1> SUFFICES ASSUME ViewInv, [Next]_vars PROVE ViewInv' /\ Viewed(db, db')
  OBVIOUS
<1>1. CASE Next
  <2>1. Inv'
    BY <1>1, NextInv DEF ViewInv
  <2>2. View(db') /\ Viewed(db, db')
    BY <1>1, TransactionView DEF ViewInv, Inv
  <2>3. View(db)' <=> View(db')
    BY DEF View, ViewAt, Projected, InProgress, AllPlanned, Hopeful, Undecided, BarrierDone, Counted, Backed, Achieved
  <2> QED
    BY <2>1, <2>2 DEF ViewInv
<1>2. CASE UNCHANGED vars
  <2>1. db' = db
    BY <1>2 DEF vars
  <2>2. Inv'
    BY NextInv DEF ViewInv
  <2> QED
    BY <2>1, <2>2 DEF ViewInv, Viewed
<1> QED
  BY <1>1, <1>2

(* A viewer who sees the item published sees the outcome of a run whose    *)
(* required steps were done, and of later plans that preserve it           *)
(* (AggregateRunTx, PersistPlan with preserve_visibility).                 *)
THEOREM BackedCorrect == Spec => []PublishedIsBacked
<1>1. ViewInv => PublishedIsBacked
  BY DEF ViewInv, View, Backed, Achieved, PublishedIsBacked, Shown
<1> QED
  BY InitView, NextView, <1>1, PTL DEF Spec, Safe

(* The recorded counts are the step counts after every transaction         *)
(* (FinalizeNodeTransitionTx, FinalizeClaimTransitionTx, the barrier).     *)
THEOREM CountsCorrect == Spec => []CountsAreCurrent
<1>1. ViewInv => CountsAreCurrent
  BY DEF ViewInv, View, ViewAt, Counted, CountsAreCurrent
<1> QED
  BY InitView, NextView, <1>1, PTL DEF Spec, Safe

(* Startup validation changes counts only: what lease recovery leaves is   *)
(* projected and aggregated (ValidateStartup).                             *)
THEOREM StartupCorrect == Spec => StartupIsQuiet
<1>1. ViewInv /\ [Next]_vars => [up' /\ ~up => [db' EXCEPT !.tally = db.tally] = db]_vars
  <2> SUFFICES ASSUME ViewInv, Next, up', ~up
               PROVE  [db' EXCEPT !.tally = db.tally] = db
    OBVIOUS
  <2>1. Start
    BY DEF Next, Operator, Dispatch, PlanNew, CancelScan, RetryIngest, Repair, ResetEncrypt, EnqueueEncrypt,
           RetryOptional, CancelStep, Claim, HandOut, ClaimLoose, Complete, Fail, Report, LateReport, Recover,
           Crash, Serving
  <2> QED
    BY <2>1, StartView DEF Start, ViewInv, Inv
<1> QED
  BY InitView, NextView, <1>1, PTL DEF Spec, Safe, StartupIsQuiet

(* What a viewer sees keeps the promise of MediaVisibility: every          *)
(* transaction maps to one of its steps or to none.                        *)
THEOREM PromiseCorrect == Spec => ImplementsPromise
<1>1. Init => Promise!Init
  BY DEF Init, Promise!Init
<1>2. Viewed(db, db') => [Promise!Next]_(Promise!vars)
  BY DEF Viewed, Shown, Promise!Next, Promise!Start, Promise!Settle, Promise!Publish, Promise!GiveUp,
         Promise!Degrade, Promise!Shown, Promise!vars
<1> QED
  BY InitView, NextView, <1>1, <1>2, PTL DEF Spec, Safe, ImplementsPromise, Promise!Safe
=============================================================================
