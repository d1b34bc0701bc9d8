-------------------------- MODULE PublicationProofs --------------------------
(***************************************************************************)
(* Proofs about Publication, for every plan, policy and bound.             *)
(*                                                                         *)
(* A transaction is a pipeline of statements, so the argument is made once *)
(* per statement: it leaves a sound database sound, and what it changes is *)
(* local to the generation it is given.  Pipelines compose because both    *)
(* are transitive.                                                         *)
(***************************************************************************)
EXTENDS Publication, FiniteSetTheorems, TLAPS

(* The current generation, when there is one.                              *)
LEMMA CurrentGen == \A d \in Database : d.gen > 0 => d.gen \in Gens
BY BoundsAssumption DEF Database, Gens

-----------------------------------------------------------------------------
(* Statements keep the database sound and work on one generation.          *)

(* A database whose rows follow their steps and whose steps are planned.   *)
Sound(d) ==
    /\ d \in Database
    /\ \A g \in Gens, s \in Steps :
          /\ d.row[g][s] = IF s = Visible THEN "none" ELSE d.step[g][s]
          /\ d.step[g][s] # "none" => s \in d.plan[g]

Closed == Bad \cup {"done"}

(* What the statements of a transaction on generation g may change: open   *)
(* steps of g are closed, its decided run stays decided.                   *)
Local(d, e, g) ==
    /\ e.gen = d.gen /\ e.plan = d.plan /\ e.superseded = d.superseded
    /\ e.round = d.round /\ e.preserve = d.preserve /\ e.reason = d.reason
    /\ \A h \in Gens \ {g} : /\ e.run[h] = d.run[h] /\ e.step[h] = d.step[h]
                             /\ e.tally[h] = d.tally[h]
    /\ d.run[g] \in Final => e.run[g] = d.run[g]
    /\ d.run[g] # "none" => e.run[g] # "none"
    /\ \A s \in Steps : e.step[g][s] # d.step[g][s] =>
                            d.step[g][s] \in Live /\ e.step[g][s] # "none"

LEMMA LocalReflexive == \A d, g : Local(d, d, g)
BY DEF Local

LEMMA LocalTransitive ==
  ASSUME NEW d, NEW e, NEW f, NEW g, Local(d, e, g), Local(e, f, g)
  PROVE  Local(d, f, g)
BY DEF Local

(* Sweeping open steps into a status that is not open.                     *)
LEMMA SweepSound ==
  ASSUME NEW d, Sound(d), NEW g \in Gens, NEW S, NEW From \in SUBSET Live,
         NEW st \in Status \ Live
  PROVE  Sound(Sweep(d, g, S, From, st)) /\ Local(d, Sweep(d, g, S, From, st), g)
<1> DEFINE e == Sweep(d, g, S, From, st)
           u == [s \in Steps |-> IF s \in S /\ d.step[g][s] \in From THEN st ELSE d.step[g][s]]
           v == [s \in Steps |-> IF s \in S /\ d.row[g][s] \in From THEN st ELSE d.row[g][s]]
<1>1. d \in Database
  BY DEF Sound
<1>2. u \in [Steps -> Status \cup {"none"}] /\ v \in [Steps -> Status \cup {"none"}]
  BY <1>1 DEF Database
<1>3. e = [d EXCEPT !.step = [d.step EXCEPT ![g] = u], !.row = [d.row EXCEPT ![g] = v]]
  BY <1>1 DEF Sweep, Database
<1>4. \A s \in Steps : /\ u[s] # d.step[g][s] => d.step[g][s] \in Live /\ u[s] = st
                       /\ v[s] = IF s = Visible THEN "none" ELSE u[s]
                       /\ u[s] # "none" => s \in d.plan[g]
  BY DEF Sound, Live
<1> HIDE DEF u, v, e
<1>5. e \in Database
  <2> DEFINE i == [d.step EXCEPT ![g] = u]
             j == [d.row EXCEPT ![g] = v]
  <2>1. /\ i \in [Gens -> [Steps -> Status \cup {"none"}]]
        /\ j \in [Gens -> [Steps -> Status \cup {"none"}]]
        /\ e = [d EXCEPT !.step = i, !.row = j]
    BY <1>1, <1>2, <1>3 DEF Database
  <2> HIDE DEF i, j
  <2> QED
    BY <1>1, <2>1 DEF Database
<1>6. /\ e.gen = d.gen /\ e.plan = d.plan /\ e.superseded = d.superseded
      /\ e.round = d.round /\ e.run = d.run
      /\ e.preserve = d.preserve /\ e.reason = d.reason /\ e.tally = d.tally
      /\ e.step = [d.step EXCEPT ![g] = u] /\ e.row = [d.row EXCEPT ![g] = v]
  BY <1>1, <1>3 DEF Database
<1>7. /\ e.step[g] = u /\ e.row[g] = v
      /\ \A h \in Gens \ {g} : e.step[h] = d.step[h] /\ e.row[h] = d.row[h]
  BY <1>1, <1>6 DEF Database
<1>8. Sound(e)
  <2> SUFFICES ASSUME NEW h \in Gens, NEW s \in Steps
               PROVE  /\ e.row[h][s] = IF s = Visible THEN "none" ELSE e.step[h][s]
                      /\ e.step[h][s] # "none" => s \in e.plan[h]
    BY <1>5 DEF Sound
  <2>1. CASE h = g
    BY <1>4, <1>6, <1>7, <2>1
  <2>2. CASE h # g
    BY <1>6, <1>7, <2>2 DEF Sound
  <2> QED
    BY <2>1, <2>2
<1>9. st # "none"
  BY DEF Status, Live, Bad
<1>10. Local(d, e, g)
  BY <1>4, <1>6, <1>7, <1>9 DEF Local
<1> QED
  BY <1>8, <1>10 DEF e

(* Counting steps yields numbers: plans are finite.                        *)
LEMMA TallyType == ASSUME NEW d, NEW g PROVE d.plan[g] \subseteq Steps => TallyOf(d, g) \in Tallies
<1> SUFFICES ASSUME d.plan[g] \subseteq Steps, NEW st \in Status
             PROVE  Cardinality(In(d, g, {st})) \in Nat
  BY DEF TallyOf, Tallies
<1>1. In(d, g, {st}) \subseteq Steps
  BY DEF In
<1> QED
  BY <1>1, StepsAssumption, FS_Subset, FS_CardinalityType

LEMMA CountSound ==
  ASSUME NEW d, Sound(d), NEW g \in Gens
  PROVE  Sound(Count(d, g)) /\ Local(d, Count(d, g), g)
<1>1. TallyOf(d, g) \in Tallies
  BY TallyType DEF Sound, Database
<1>2. Count(d, g) \in Database
  BY <1>1 DEF Count, Sound, Database
<1>3. /\ Count(d, g).gen = d.gen /\ Count(d, g).plan = d.plan
      /\ Count(d, g).superseded = d.superseded /\ Count(d, g).round = d.round
      /\ Count(d, g).preserve = d.preserve /\ Count(d, g).reason = d.reason
      /\ Count(d, g).tally = [d.tally EXCEPT ![g] = TallyOf(d, g)]
      /\ Count(d, g).run = d.run /\ Count(d, g).step = d.step /\ Count(d, g).row = d.row
  BY DEF Count, Sound, Database
<1>4. \A h \in Gens \ {g} : Count(d, g).tally[h] = d.tally[h]
  BY <1>3 DEF Sound, Database
<1> QED
  BY <1>2, <1>3, <1>4 DEF Sound, Local

LEMMA PropagateSound ==
  ASSUME NEW d, Sound(d), NEW g \in Gens
  PROVE  Sound(Propagate(d, g)) /\ Local(d, Propagate(d, g), g)
BY SweepSound DEF Propagate, Status, Live, Bad

LEMMA CancelBlockedSound ==
  ASSUME NEW d, Sound(d), NEW g \in Gens
  PROVE  /\ Sound(CancelBlocked(d, g)) /\ Local(d, CancelBlocked(d, g), g)
         /\ CancelBlocked(d, g).run = d.run
<1>1. Sound(Sweep(d, g, Required, {"waiting"}, "cancelled"))
  BY SweepSound DEF Status, Live, Bad
<1>2. Local(d, Sweep(d, g, Required, {"waiting"}, "cancelled"), g)
  BY SweepSound DEF Status, Live, Bad
<1>3. Sweep(d, g, Required, {"waiting"}, "cancelled").run = d.run
  BY DEF Sweep, Sound, Database
<1> QED
  BY <1>1, <1>2, <1>3, LocalReflexive DEF CancelBlocked

LEMMA ConvergeSound ==
  ASSUME NEW d, Sound(d), NEW g \in Gens
  PROVE  Sound(Converge(d, g)) /\ Local(d, Converge(d, g), g)
<1> DEFINE e == Sweep(d, g, d.plan[g], Live, "cancelled")
<1>1. Sound(e) /\ Local(d, e, g)
  BY SweepSound DEF Status, Live, Bad
<1>2. Sound(Count(e, g)) /\ Local(d, Count(e, g), g)
  BY <1>1, CountSound, LocalTransitive
<1> QED
  BY <1>2, LocalReflexive DEF Converge

(* A barrier step that waits has no row: it is done without one.           *)
LEMMA BarrierSound ==
  ASSUME NEW d, Sound(d), NEW g \in Gens
  PROVE  Sound(Barrier(d, g)) /\ Local(d, Barrier(d, g), g)
<1> DEFINE e == [d EXCEPT !.step[g][Visible] = "done"]
<1> SUFFICES ASSUME d.step[g][Visible] = "waiting"
             PROVE  Sound(Count(e, g)) /\ Local(d, Count(e, g), g)
  BY LocalReflexive DEF Barrier
<1>1. Visible \in Steps
  BY StepsAssumption
<1>2. e \in Database
  BY <1>1 DEF Sound, Database, Status
<1>3. /\ e.gen = d.gen /\ e.plan = d.plan /\ e.superseded = d.superseded
      /\ e.preserve = d.preserve /\ e.reason = d.reason /\ e.tally = d.tally
      /\ e.media = d.media /\ e.visible = d.visible
      /\ e.round = d.round /\ e.run = d.run /\ e.row = d.row
      /\ e.step = [d.step EXCEPT ![g][Visible] = "done"]
  BY DEF Sound, Database
<1>4. \A h \in Gens, s \in Steps :
        e.step[h][s] = IF h = g /\ s = Visible THEN "done" ELSE d.step[h][s]
  BY <1>1, <1>3 DEF Sound, Database
<1>5. \A h \in Gens \ {g} : e.step[h] = d.step[h]
  BY <1>3 DEF Sound, Database
<1>6. Sound(e)
  BY <1>2, <1>3, <1>4 DEF Sound
<1>7. Local(d, e, g)
  BY <1>1, <1>3, <1>4, <1>5 DEF Local, Live
<1> QED
  BY <1>6, <1>7, CountSound, LocalTransitive

(* What a run is decided to be, and which of its steps that leaves open.   *)
LEMMA OutcomeFacts ==
  ASSUME NEW d, NEW g \in Gens
  PROVE  /\ Outcome(d, g) \in {"processing"} \cup Final
         /\ d.run[g] \in {"failed", "cancelled"} => Outcome(d, g) = d.run[g]
         /\ d.run[g] \notin {"failed", "cancelled"} /\ Outcome(d, g) \in {"published", "degraded", "failed"}
               => RequiredIn(d, g, {"running"}) = {}
         /\ Outcome(d, g) = "published" => RequiredIn(d, g, {"waiting"}) = {}
         /\ Outcome(d, g) = "cancelled" => d.run[g] = "cancelled"
<1>1. CASE d.run[g] \in {"failed", "cancelled"}
  BY <1>1 DEF Outcome, Final
<1>2. CASE d.run[g] \notin {"failed", "cancelled"} /\ RequiredIn(d, g, {"running"}) # {}
  <2>1. Outcome(d, g) = "processing"
    BY <1>2 DEF Outcome
  <2> QED
    BY <1>2, <2>1 DEF Final
<1>3. CASE d.run[g] \notin {"failed", "cancelled"} /\ RequiredIn(d, g, {"running"}) = {}
  <2>1. Outcome(d, g) = IF RequiredIn(d, g, {"failed", "cancelled"}) # {}
                        THEN IF d.preserve[g] THEN "degraded" ELSE "failed"
                        ELSE IF RequiredIn(d, g, {"waiting"}) # {} THEN "processing" ELSE "published"
    BY <1>3 DEF Outcome
  <2> QED
    BY <1>3, <2>1 DEF Final
<1> QED
  BY <1>1, <1>2, <1>3

(* Showing a run on its item touches the barrier step and the item only.   *)
LEMMA ShowSound ==
  ASSUME NEW d, Sound(d), NEW g \in Gens
  PROVE  /\ Sound(Show(d, g)) /\ Local(d, Show(d, g), g)
         /\ Show(d, g).run = d.run
<1> DEFINE e(m, v) == [d EXCEPT !.media = m, !.visible = v]
<1>1. ASSUME NEW m \in {"processing"} \cup Final, NEW v \in BOOLEAN
      PROVE  Sound(e(m, v)) /\ Local(d, e(m, v), g) /\ e(m, v).run = d.run
  <2>1. e(m, v) \in Database
    BY DEF Sound, Database
  <2>2. /\ e(m, v).gen = d.gen /\ e(m, v).plan = d.plan /\ e(m, v).superseded = d.superseded
        /\ e(m, v).preserve = d.preserve /\ e(m, v).reason = d.reason /\ e(m, v).tally = d.tally
        /\ e(m, v).round = d.round /\ e(m, v).run = d.run
        /\ e(m, v).step = d.step /\ e(m, v).row = d.row
    BY DEF Sound, Database
  <2> QED
    BY <2>1, <2>2 DEF Sound, Local
<1>2. ASSUME NEW m \in {"processing"} \cup Final
      PROVE  [d EXCEPT !.media = m] = e(m, d.visible)
  BY DEF Sound, Database
<1>3. d.visible \in BOOLEAN
  BY DEF Sound, Database
<1>4. ASSUME NEW f, Sound(f), Local(d, f, g), f.run = d.run
      PROVE  Sound(Barrier(f, g)) /\ Local(d, Barrier(f, g), g) /\ Barrier(f, g).run = d.run
  <2>1. Barrier(f, g).run = f.run
    BY <1>4 DEF Barrier, Count, Sound, Database
  <2> QED
    BY <1>4, <2>1, BarrierSound, LocalTransitive
<1> HIDE DEF e
<1>5. CASE g # d.gen
  BY <1>5, LocalReflexive DEF Show
<1>6. CASE g = d.gen /\ d.run[g] = "published"
  <2> DEFINE f == e("published", TRUE)
  <2>1. Show(d, g) = Barrier(f, g)
    BY <1>6 DEF Show, e
  <2>2. Sound(f) /\ Local(d, f, g) /\ f.run = d.run
    BY <1>1 DEF Final
  <2> HIDE DEF f
  <2> QED
    BY <1>4, <2>1, <2>2
<1>7. CASE g = d.gen /\ d.run[g] = "degraded"
  <2>1. Show(d, g) = Barrier(e("degraded", d.visible), g)
    BY <1>2, <1>7 DEF Show, Final
  <2>2. Sound(e("degraded", d.visible)) /\ Local(d, e("degraded", d.visible), g) /\ e("degraded", d.visible).run = d.run
    BY <1>1, <1>3 DEF Final
  <2> QED
    BY <1>4, <2>1, <2>2
<1>8. CASE g = d.gen /\ d.run[g] = "cancelled"
  <2>1. Show(d, g) = IF d.preserve[g] THEN e("degraded", d.visible) ELSE e("cancelled", FALSE)
    BY <1>2, <1>8 DEF Show, Final, e
  <2> QED
    BY <1>1, <1>3, <2>1 DEF Final
<1>9. CASE g = d.gen /\ d.run[g] = "failed"
  <2>1. Show(d, g) = e("failed", d.visible /\ d.reason[g] = "repair")
    BY <1>9 DEF Show, e
  <2> QED
    BY <1>1, <1>3, <2>1 DEF Final
<1>10. CASE g = d.gen /\ d.run[g] \notin {"published", "degraded", "cancelled", "failed"}
  <2>1. Show(d, g) = IF d.preserve[g] THEN d ELSE [d EXCEPT !.media = "processing"]
    BY <1>10 DEF Show
  <2>2. [d EXCEPT !.media = "processing"] = e("processing", d.visible)
    BY <1>2
  <2> QED
    BY <1>1, <1>3, <2>1, <2>2, LocalReflexive
<1> QED
  BY <1>5, <1>6, <1>7, <1>8, <1>9, <1>10

-----------------------------------------------------------------------------
(* What aggregation decides.                                               *)

(* A failed or cancelled run holds nothing open; a published or degraded   *)
(* one holds no required step open that was not reopened.                  *)
Quiet(d, g) ==
    /\ d.run[g] \in {"failed", "cancelled"} => In(d, g, Live) = {}
    /\ d.run[g] \in {"published", "degraded"} =>
          \A s \in RequiredIn(d, g, Live) : d.round[g][s] > 0

LEMMA QuietStays ==
  ASSUME NEW d, Sound(d), NEW e, Sound(e), NEW g \in Gens, Local(d, e, g), Quiet(d, g), d.run[g] \in Final
  PROVE  Quiet(e, g)
<1>1. e.run[g] = d.run[g]
  BY DEF Local
<1>2. In(e, g, Live) \subseteq In(d, g, Live)
  BY DEF In, Local, Sound, Database
<1>3. e.round = d.round
  BY DEF Local
<1> QED
  BY <1>1, <1>2, <1>3 DEF Quiet, RequiredIn

LEMMA AggregateSound ==
  ASSUME NEW d, Sound(d), NEW g \in Gens,
         d.superseded[g] \/ d.run[g] \in {"published", "degraded"} => Quiet(d, g)
  PROVE  /\ Sound(Aggregate(d, g)) /\ Local(d, Aggregate(d, g), g)
         /\ Quiet(Aggregate(d, g), g)
<1> SUFFICES ASSUME ~(d.superseded[g] \/ d.run[g] \in {"published", "degraded"})
             PROVE  /\ Sound(Aggregate(d, g)) /\ Local(d, Aggregate(d, g), g)
                    /\ Quiet(Aggregate(d, g), g)
  BY LocalReflexive DEF Aggregate
<1> DEFINE b == CancelBlocked(d, g)
<1> DEFINE c == [b EXCEPT !.run[g] = Outcome(d, g)]
<1> DEFINE f == Converge(c, g)
<1> DEFINE e == Show(f, g)
<1>0. Aggregate(d, g) = e
  BY DEF Aggregate
<1>1. Sound(b) /\ Local(d, b, g) /\ b.run = d.run
  BY CancelBlockedSound
<1>2. Outcome(d, g) \in {"processing"} \cup Final
  BY OutcomeFacts
<1>b. b \in Database
  BY <1>1 DEF Sound
<1>3. /\ c \in Database
      /\ c.gen = b.gen /\ c.plan = b.plan /\ c.superseded = b.superseded
      /\ c.preserve = b.preserve /\ c.reason = b.reason /\ c.tally = b.tally
      /\ c.media = b.media /\ c.visible = b.visible
      /\ c.round = b.round /\ c.step = b.step /\ c.row = b.row
      /\ c.run = [b.run EXCEPT ![g] = Outcome(d, g)]
  <2> HIDE DEF b
  <2> QED
    BY <1>2, <1>b DEF Database
<1>3a. b.run \in [Gens -> {"none", "processing"} \cup Final]
  <2> HIDE DEF b
  <2> QED
    BY <1>b DEF Database
<1>4. c.run[g] = Outcome(d, g) /\ \A h \in Gens \ {g} : c.run[h] = b.run[h]
  <2> HIDE DEF b, c
  <2> QED
    BY <1>3, <1>3a
<1>5. d.run[g] \in Final => Outcome(d, g) = d.run[g]
  BY OutcomeFacts DEF Final
<1>6. Sound(c) /\ Local(b, c, g)
  <2> HIDE DEF b, c
  <2>1. Sound(c)
    BY <1>1, <1>3 DEF Sound
  <2>2. Local(b, c, g)
    BY <1>1, <1>2, <1>3, <1>4, <1>5 DEF Local, Final
  <2> QED
    BY <2>1, <2>2
<1>7. Sound(f) /\ Local(c, f, g)
  <2> HIDE DEF c
  <2> QED
    BY <1>6, ConvergeSound
<1>8. Sound(e) /\ Local(f, e, g) /\ e.run = f.run
  <2> HIDE DEF f
  <2> QED
    BY <1>7, ShowSound
<1>9. Local(d, e, g)
  <2> HIDE DEF b, c, f, e
  <2> QED
    BY <1>1, <1>6, <1>7, <1>8, LocalTransitive
<1>10. Quiet(f, g)
  <2>1. CASE c.run[g] \in {"failed", "cancelled"}
    <3> DEFINE w == Sweep(c, g, c.plan[g], Live, "cancelled")
    <3>1. f = Count(w, g)
      BY <2>1 DEF Converge
    <3>2. c \in Database
      BY <1>3
    <3> HIDE DEF c
    <3>3. w.step[g] = [s \in Steps |-> IF s \in c.plan[g] /\ c.step[g][s] \in Live THEN "cancelled" ELSE c.step[g][s]]
          /\ w.plan = c.plan /\ w.run = c.run
      BY <3>2 DEF Sweep, Database
    <3>4. In(w, g, Live) = {}
      BY <3>2, <3>3 DEF In, Live, Database
    <3>5. Sound(w) /\ Local(c, w, g)
      BY <1>6, SweepSound DEF Status, Live, Bad
    <3>6. f.step = w.step /\ f.plan = w.plan /\ f.run = w.run
      <4> HIDE DEF f, w
      <4> QED
        BY <3>1, <3>5 DEF Count, Sound, Database
    <3> HIDE DEF f, w
    <3> QED
      BY <2>1, <3>3, <3>4, <3>6 DEF Quiet, In
  <2>2. CASE c.run[g] \notin {"failed", "cancelled"}
    <3>1. f = c
      BY <2>2 DEF Converge
    <3>2. Outcome(d, g) \in {"published", "degraded"} =>
            /\ RequiredIn(d, g, {"running"}) = {}
            /\ d.run[g] \notin {"failed", "cancelled"}
      BY OutcomeFacts
    <3>3. Outcome(d, g) = "published" => RequiredIn(c, g, Live) = {}
      <4>1. Outcome(d, g) = "published" => b = d
        BY DEF CancelBlocked
      <4>2. Outcome(d, g) = "published" => RequiredIn(d, g, {"waiting"}) = {}
        BY OutcomeFacts
      <4> HIDE DEF b, c
      <4> QED
        BY <1>3, <3>2, <4>1, <4>2 DEF RequiredIn, In, Live
    <3>4. Outcome(d, g) = "degraded" => RequiredIn(c, g, Live) = {}
      <4> SUFFICES ASSUME Outcome(d, g) = "degraded" PROVE RequiredIn(c, g, Live) = {}
        OBVIOUS
      <4>1. b = Sweep(d, g, Required, {"waiting"}, "cancelled")
        BY <3>2 DEF CancelBlocked
      <4>2. b.step[g] = [s \in Steps |-> IF s \in Required /\ d.step[g][s] \in {"waiting"} THEN "cancelled" ELSE d.step[g][s]]
            /\ b.plan = d.plan
        BY <4>1 DEF Sweep, Sound, Database
      <4> HIDE DEF b, c
      <4>3. d.plan[g] \subseteq Steps
        BY DEF Sound, Database
      <4> QED
        BY <1>3, <3>2, <4>2, <4>3 DEF RequiredIn, In, Live
    <3> HIDE DEF c, f
    <3> QED
      BY <1>4, <2>2, <3>1, <3>3, <3>4 DEF Quiet
  <2> QED
    BY <2>1, <2>2
<1>11. Quiet(e, g)
  <2> HIDE DEF b, c, f, e
  <2>1. CASE f.run[g] \in Final
    BY <1>7, <1>8, <1>10, <2>1, QuietStays
  <2>2. CASE f.run[g] \notin Final
    BY <1>8, <2>2 DEF Quiet, Final
  <2> QED
    BY <2>1, <2>2
<1> QED
  BY <1>0, <1>8, <1>9, <1>11

LEMMA FinalizeSound ==
  ASSUME NEW d, Sound(d), NEW g \in Gens,
         d.superseded[g] \/ d.run[g] \in {"published", "degraded"} => Quiet(d, g)
  PROVE  /\ Sound(Finalize(d, g)) /\ Local(d, Finalize(d, g), g)
         /\ Quiet(Finalize(d, g), g)
<1> DEFINE p == Propagate(d, g)
<1> DEFINE c == Count(p, g)
<1>1. Sound(p) /\ Local(d, p, g)
  BY PropagateSound
<1>2. Sound(c) /\ Local(p, c, g)
  <2> HIDE DEF p
  <2> QED
    BY <1>1, CountSound
<1>3. Local(d, c, g)
  BY <1>1, <1>2, LocalTransitive
<1>4. c.run[g] = d.run[g]
  BY DEF Count, Propagate, Sweep, Sound, Database
<1>5. c.superseded = d.superseded
  BY <1>3 DEF Local
<1>6. c.superseded[g] \/ c.run[g] \in {"published", "degraded"} => Quiet(c, g)
  <2> HIDE DEF c
  <2>1. CASE d.run[g] \in Final
    BY <1>2, <1>3, <1>4, <1>5, <2>1, QuietStays
  <2>2. CASE d.run[g] \notin Final
    BY <1>4, <2>2 DEF Quiet, Final
  <2> QED
    BY <2>1, <2>2
<1> HIDE DEF c
<1>7. /\ Sound(Aggregate(c, g)) /\ Local(c, Aggregate(c, g), g)
      /\ Quiet(Aggregate(c, g), g)
  BY <1>2, <1>6, AggregateSound
<1>8. Finalize(d, g) = Aggregate(c, g)
  BY DEF Finalize, c
<1> QED
  BY <1>3, <1>7, <1>8, LocalTransitive

-----------------------------------------------------------------------------
(* The inductive invariant, and what a transaction may do to the history.  *)

Settled(d) ==
    /\ Sound(d)
    /\ \A g \in Gens :
          /\ d.superseded[g] <=> g < d.gen
          /\ g <= d.gen => d.run[g] # "none"
          /\ g > d.gen => d.plan[g] = {} /\ d.run[g] = "none"
          /\ d.superseded[g] => d.run[g] \in Final /\ In(d, g, Live) = {}
          /\ Quiet(d, g)

History(d, e) ==
    \A g \in Gens :
       /\ d.run[g] \in Final => e.run[g] = d.run[g]
       /\ g <= d.gen => e.plan[g] = d.plan[g] /\ e.preserve[g] = d.preserve[g]
       /\ \A s \in Steps :
             /\ d.step[g][s] \in Closed => e.step[g][s] = d.step[g][s] \/ e.round[g][s] > d.round[g][s]
             /\ d.round[g][s] > 0 => e.round[g][s] > 0

(* An edit of generation g, before its transaction is finalized.           *)
Edited(d, m, g) ==
    /\ m.gen = d.gen /\ m.plan = d.plan /\ m.superseded = d.superseded
    /\ m.preserve = d.preserve /\ m.reason = d.reason
    /\ \A h \in Gens \ {g} : /\ m.run[h] = d.run[h] /\ m.step[h] = d.step[h]
                             /\ m.round[h] = d.round[h] /\ m.tally[h] = d.tally[h]
    /\ d.run[g] \in Final => m.run[g] = d.run[g]
    /\ d.run[g] # "none" => m.run[g] # "none"
    /\ \A s \in Steps :
          /\ d.step[g][s] \in Closed => m.step[g][s] = d.step[g][s] \/ m.round[g][s] > d.round[g][s]
          /\ d.round[g][s] > 0 => m.round[g][s] > 0

(* What an edit and the statements after it may do to the history.         *)
LEMMA EditedHistory ==
  ASSUME NEW d, NEW m, NEW e, NEW g \in Gens, Edited(d, m, g), Local(m, e, g)
  PROVE  History(d, e)
<1> SUFFICES ASSUME NEW h \in Gens
             PROVE  /\ d.run[h] \in Final => e.run[h] = d.run[h]
                    /\ e.plan[h] = d.plan[h] /\ e.preserve[h] = d.preserve[h]
                    /\ \A s \in Steps :
                          /\ d.step[h][s] \in Closed => e.step[h][s] = d.step[h][s] \/ e.round[h][s] > d.round[h][s]
                          /\ d.round[h][s] > 0 => e.round[h][s] > 0
  BY DEF History
<1>1. e.plan = d.plan /\ e.preserve = d.preserve /\ e.round = m.round
  BY DEF Edited, Local
<1>2. CASE h # g
  <2>1. e.run[h] = d.run[h] /\ e.step[h] = d.step[h] /\ e.round[h] = d.round[h]
    BY <1>2 DEF Edited, Local
  <2> QED
    BY <1>1, <2>1
<1>3. CASE h = g
  <2>1. d.run[g] \in Final => e.run[g] = d.run[g]
    BY DEF Edited, Local
  <2>2. \A s \in Steps : m.step[g][s] \in Closed => e.step[g][s] = m.step[g][s]
    BY DEF Local, Closed, Live, Bad
  <2>3. \A s \in Steps :
          /\ d.step[g][s] \in Closed => m.step[g][s] = d.step[g][s] \/ m.round[g][s] > d.round[g][s]
          /\ d.round[g][s] > 0 => m.round[g][s] > 0
    BY DEF Edited
  <2> QED
    BY <1>1, <1>3, <2>1, <2>2, <2>3
<1> QED
  BY <1>2, <1>3

LEMMA LocalSettled ==
  ASSUME NEW d, Settled(d), NEW m, NEW e, NEW g \in Gens, d.run[g] # "none", Edited(d, m, g),
         Sound(e), Local(m, e, g), Quiet(e, g), d.superseded[g] => In(e, g, Live) = {}
  PROVE  Settled(e) /\ History(d, e)
<1>1. /\ e.gen = d.gen /\ e.plan = d.plan /\ e.superseded = d.superseded
      /\ d.run[g] \in Final => e.run[g] = d.run[g]
      /\ d.run[g] # "none" => e.run[g] # "none"
  BY DEF Edited, Local
<1>2. \A h \in Gens \ {g} : e.run[h] = d.run[h] /\ e.step[h] = d.step[h] /\ e.round[h] = d.round[h]
  BY DEF Edited, Local
<1>3. History(d, e)
  BY EditedHistory
<1>4. \A h \in Gens \ {g} : In(e, h, Live) = In(d, h, Live)
  BY <1>1, <1>2 DEF In
<1>5. \A h \in Gens \ {g} : Quiet(e, h)
  BY <1>2, <1>4 DEF Settled, Quiet, RequiredIn
<1> QED
  BY <1>1, <1>2, <1>3, <1>4, <1>5 DEF Settled

LEMMA CommitSettled ==
  ASSUME NEW d, Settled(d), NEW m, Sound(m), NEW g \in Gens, d.run[g] # "none", Edited(d, m, g),
         d.superseded[g] => In(m, g, Live) = {},
         m.run[g] \in {"published", "degraded"} => Quiet(m, g)
  PROVE  Settled(Finalize(m, g)) /\ History(d, Finalize(m, g))
<1>1. m.superseded[g] \/ m.run[g] \in {"published", "degraded"} => Quiet(m, g)
  BY DEF Edited, Settled, Quiet, RequiredIn, In
<1>2. Sound(Finalize(m, g)) /\ Local(m, Finalize(m, g), g) /\ Quiet(Finalize(m, g), g)
  BY <1>1, FinalizeSound
<1>3. d.superseded[g] => In(Finalize(m, g), g, Live) = {}
  BY <1>2 DEF In, Local, Sound, Database
<1> QED
  BY <1>2, <1>3, LocalSettled

-----------------------------------------------------------------------------
(* Every transaction keeps the invariant and the history.                  *)

LEMMA LocalEdited == \A d, m, g : Local(d, m, g) => Edited(d, m, g)
BY DEF Local, Edited, Closed, Live, Bad

(* An edit of the current generation g that a transaction finalizes: it    *)
(* may end the run, but opens neither the barrier nor a finished run.      *)
Prepared(d, m, g) ==
    /\ g \in Gens /\ g = d.gen /\ Sound(m) /\ Edited(d, m, g)
    /\ m.run[g] # d.run[g] => d.run[g] = "processing" /\ m.run[g] = "cancelled"
    /\ m.run[g] \in {"published", "degraded"} => Quiet(m, g)
    /\ m.media = d.media /\ m.visible = d.visible /\ m.tally = d.tally
    /\ m.step[g][Visible] = "waiting" => d.step[g][Visible] = "waiting"
    /\ \A s \in Steps : m.step[g][s] = "none" => d.step[g][s] = "none"

LEMMA PreparedSettled ==
  ASSUME NEW d, Settled(d), NEW m, NEW g, Prepared(d, m, g)
  PROVE  Settled(Finalize(m, g)) /\ History(d, Finalize(m, g))
<1>1. /\ g \in Gens /\ g = d.gen /\ Sound(m) /\ Edited(d, m, g)
      /\ m.run[g] \in {"published", "degraded"} => Quiet(m, g)
  BY DEF Prepared
<1>2. d.run[g] # "none" /\ ~d.superseded[g]
  BY <1>1 DEF Settled, Gens
<1> QED
  BY <1>1, <1>2, CommitSettled

(* A row that exists belongs to a planned step of a known generation.      *)
LEMMA RowPlanned ==
  ASSUME NEW d, Settled(d), NEW g \in Gens, NEW s \in Steps, d.row[g][s] # "none"
  PROVE  /\ s # Visible /\ s \in d.plan[g] /\ d.step[g][s] = d.row[g][s]
         /\ g <= d.gen /\ d.run[g] # "none"
<1>1. s # Visible /\ d.step[g][s] = d.row[g][s] /\ s \in d.plan[g]
  BY DEF Settled, Sound
<1>2. ~(g > d.gen)
  BY <1>1 DEF Settled
<1>3. g \in Int /\ d.gen \in Int
  BY DEF Settled, Sound, Database, Gens
<1> QED
  BY <1>1, <1>2, <1>3 DEF Settled

(* Writing a row and its step.                                             *)
LEMMA WriteStatus ==
  ASSUME NEW d, Sound(d), NEW g \in Gens, NEW s \in Steps, d.row[g][s] # "none", NEW st \in Status
  PROVE  LET m == SetRow(d, g, s, st)
         IN  /\ Sound(m)
             /\ m.gen = d.gen /\ m.plan = d.plan /\ m.superseded = d.superseded /\ m.run = d.run
             /\ m.preserve = d.preserve /\ m.reason = d.reason /\ m.tally = d.tally
             /\ m.media = d.media /\ m.visible = d.visible
             /\ m.step = [d.step EXCEPT ![g][s] = st] /\ m.round = d.round
<1> DEFINE m == SetRow(d, g, s, st)
<1>1. m \in Database
  BY DEF SetRow, Sound, Database
<1>2. /\ m.gen = d.gen /\ m.plan = d.plan /\ m.superseded = d.superseded /\ m.run = d.run
      /\ m.preserve = d.preserve /\ m.reason = d.reason /\ m.tally = d.tally
      /\ m.media = d.media /\ m.visible = d.visible
      /\ m.step = [d.step EXCEPT ![g][s] = st]
      /\ m.row = [d.row EXCEPT ![g][s] = st]
      /\ m.round = d.round
  BY DEF SetRow, Sound, Database
<1>3. s # Visible /\ s \in d.plan[g]
  BY DEF Sound
<1>4. Sound(m)
  <2> HIDE DEF m
  <2>1. \A h \in Gens, x \in Steps :
           /\ m.step[h][x] = IF h = g /\ x = s THEN st ELSE d.step[h][x]
           /\ m.row[h][x] = IF h = g /\ x = s THEN st ELSE d.row[h][x]
    BY <1>2 DEF Sound, Database
  <2> QED
    BY <1>1, <1>2, <1>3, <2>1 DEF Sound
<1> QED
  BY <1>2, <1>4

(* Setting the counters of its attempts first.                             *)
Rewritten(d, g, s, a, r, st) ==
    SetRow([d EXCEPT !.attempts[g][s] = a, !.round[g][s] = r], g, s, st)

LEMMA WriteRow ==
  ASSUME NEW d, Sound(d), NEW g \in Gens, NEW s \in Steps, d.row[g][s] # "none",
         NEW a \in 0..MaxAttempts, NEW r \in 0..MaxRound, NEW st \in Status
  PROVE  LET m == Rewritten(d, g, s, a, r, st)
         IN  /\ Sound(m)
             /\ m.gen = d.gen /\ m.plan = d.plan /\ m.superseded = d.superseded /\ m.run = d.run
             /\ m.preserve = d.preserve /\ m.reason = d.reason /\ m.tally = d.tally
             /\ m.media = d.media /\ m.visible = d.visible
             /\ m.step = [d.step EXCEPT ![g][s] = st]
             /\ m.round = [d.round EXCEPT ![g][s] = r]
<1> DEFINE c == [d EXCEPT !.attempts[g][s] = a, !.round[g][s] = r]
<1>1. c \in Database
  BY DEF Sound, Database
<1>2. /\ c.gen = d.gen /\ c.plan = d.plan /\ c.superseded = d.superseded /\ c.run = d.run
      /\ c.preserve = d.preserve /\ c.reason = d.reason /\ c.tally = d.tally
      /\ c.media = d.media /\ c.visible = d.visible
      /\ c.step = d.step /\ c.row = d.row
      /\ c.round = [d.round EXCEPT ![g][s] = r]
  BY DEF Sound, Database
<1> HIDE DEF c
<1>3. Sound(c)
  BY <1>1, <1>2 DEF Sound
<1> SUFFICES LET m == SetRow(c, g, s, st)
             IN  /\ Sound(m)
                 /\ m.gen = d.gen /\ m.plan = d.plan /\ m.superseded = d.superseded /\ m.run = d.run
                 /\ m.preserve = d.preserve /\ m.reason = d.reason /\ m.tally = d.tally
                 /\ m.media = d.media /\ m.visible = d.visible
                 /\ m.step = [d.step EXCEPT ![g][s] = st]
                 /\ m.round = [d.round EXCEPT ![g][s] = r]
  BY DEF c, Rewritten
<1> QED
  BY <1>2, <1>3, WriteStatus

(* The result of an execution, its recovery, or its cancellation.          *)
LEMMA CloseRow ==
  ASSUME NEW d, Settled(d), NEW g \in Gens, NEW s \in Steps, d.row[g][s] \in Live, NEW st \in Status
  PROVE  Prepared(d, SetRow(d, g, s, st), g)
<1> DEFINE m == SetRow(d, g, s, st)
<1>0. g <= d.gen
  BY RowPlanned DEF Live
<1>1. /\ s # Visible /\ s \in d.plan[g] /\ d.step[g][s] = d.row[g][s]
      /\ d.run[g] # "none"
  BY RowPlanned DEF Live
<1>2. /\ Sound(m)
      /\ m.gen = d.gen /\ m.plan = d.plan /\ m.superseded = d.superseded /\ m.run = d.run
      /\ m.preserve = d.preserve /\ m.reason = d.reason /\ m.tally = d.tally
      /\ m.media = d.media /\ m.visible = d.visible
      /\ m.step = [d.step EXCEPT ![g][s] = st] /\ m.round = d.round
  BY WriteStatus DEF Settled, Live
<1> SUFFICES Prepared(d, m, g)
  OBVIOUS
<1> HIDE DEF m
<1>3. \A h \in Gens, x \in Steps : m.step[h][x] = IF h = g /\ x = s THEN st ELSE d.step[h][x]
  BY <1>2 DEF Settled, Sound, Database
<1>4. \A h \in Gens \ {g} : m.step[h] = d.step[h]
  BY <1>2 DEF Settled, Sound, Database
<1>5. Edited(d, m, g)
  BY <1>1, <1>2, <1>3, <1>4 DEF Edited, Closed, Live, Bad
<1>6. ~d.superseded[g]
  BY <1>1 DEF Settled, In
<1>7. In(m, g, Live) \subseteq In(d, g, Live)
  <2>1. d.plan[g] \subseteq Steps
    BY DEF Settled, Sound, Database
  <2> QED
    BY <1>1, <1>2, <1>3, <2>1 DEF In
<1>8. m.run[g] \in {"published", "degraded"} => Quiet(m, g)
  BY <1>2, <1>7 DEF Settled, Quiet, RequiredIn
<1>9. g = d.gen
  BY <1>0, <1>6 DEF Settled, Sound, Database, Gens
<1>10. Visible \in Steps /\ st # "none"
  BY StepsAssumption DEF Status, Live, Bad
<1> QED
  BY <1>1, <1>2, <1>3, <1>5, <1>8, <1>9, <1>10 DEF Prepared

(* A claim: the row was waiting and its run not over.                      *)
LEMMA ClaimSettled ==
  ASSUME NEW d, Settled(d), NEW s \in Steps, d.gen > 0, Eligible(d, d.gen, s)
  PROVE  LET e == Count(SetRow([d EXCEPT !.attempts[d.gen][s] = @ + 1], d.gen, s, "running"), d.gen)
         IN  Settled(e) /\ History(d, e)
<1> DEFINE g == d.gen
<1> DEFINE c == [d EXCEPT !.attempts[g][s] = @ + 1]
<1> DEFINE m == SetRow(c, g, s, "running")
<1>1. g \in Gens
  BY CurrentGen DEF Settled, Sound
<1>2. d.attempts[g][s] + 1 \in 0..MaxAttempts
  BY <1>1, BoundsAssumption DEF Eligible, Settled, Sound, Database
<1>3. c \in Database
  BY <1>1, <1>2 DEF Settled, Sound, Database
<1>4. /\ c.gen = d.gen /\ c.plan = d.plan /\ c.superseded = d.superseded /\ c.run = d.run
      /\ c.preserve = d.preserve /\ c.reason = d.reason /\ c.tally = d.tally
      /\ c.media = d.media /\ c.visible = d.visible
      /\ c.step = d.step /\ c.row = d.row /\ c.round = d.round
  BY DEF Settled, Sound, Database
<1> HIDE DEF c
<1>5. Sound(c)
  BY <1>3, <1>4 DEF Settled, Sound
<1>6. c.row[g][s] = "waiting"
  BY <1>4 DEF Eligible
<1>7. /\ Sound(m)
      /\ m.gen = d.gen /\ m.plan = d.plan /\ m.superseded = d.superseded /\ m.run = d.run
      /\ m.preserve = d.preserve /\ m.reason = d.reason /\ m.tally = d.tally
      /\ m.media = d.media /\ m.visible = d.visible
      /\ m.step = [d.step EXCEPT ![g][s] = "running"] /\ m.round = d.round
  BY <1>1, <1>4, <1>5, <1>6, WriteStatus DEF Status, Live
<1>8. d.step[g][s] = "waiting" /\ s \in d.plan[g] /\ ~d.superseded[g]
  BY DEF Eligible
<1> HIDE DEF m
<1>9. \A x \in Steps : m.step[g][x] = IF x = s THEN "running" ELSE d.step[g][x]
  BY <1>1, <1>7 DEF Settled, Sound, Database
<1>10. \A h \in Gens \ {g} : m.step[h] = d.step[h]
  BY <1>1, <1>7 DEF Settled, Sound, Database
<1>11. Edited(d, m, g)
  BY <1>1, <1>7, <1>8, <1>9, <1>10 DEF Edited, Closed, Bad
<1>12. In(m, g, Live) \subseteq In(d, g, Live)
  <2>1. d.plan[g] \subseteq Steps
    BY <1>1 DEF Settled, Sound, Database
  <2> QED
    BY <1>7, <1>8, <1>9, <2>1 DEF In, Live
<1>13. Quiet(m, g)
  BY <1>1, <1>7, <1>12 DEF Settled, Quiet, RequiredIn
<1>14. Sound(Count(m, g)) /\ Local(m, Count(m, g), g)
  BY <1>1, <1>7, CountSound
<1>15. Quiet(Count(m, g), g)
  <2> DEFINE e == Count(m, g)
  <2>1. e.run = m.run /\ e.plan = m.plan /\ e.step = m.step /\ e.round = m.round
    BY <1>7 DEF Count, Sound, Database
  <2> SUFFICES Quiet(e, g)
    OBVIOUS
  <2> HIDE DEF e
  <2> QED
    BY <1>13, <2>1 DEF Quiet, RequiredIn, In
<1>16. d.run[g] # "none"
  BY <1>1 DEF Settled, Gens
<1> QED
  BY <1>1, <1>8, <1>11, <1>14, <1>15, <1>16, LocalSettled DEF m, c

(* An administrator reopens a row of the current run, which is then        *)
(* finalized: a failed run cancels it again.                               *)
LEMMA ReopenRow ==
  ASSUME NEW d, Settled(d), NEW s \in Steps, d.gen > 0, d.row[d.gen][s] # "none",
         d.round[d.gen][s] < MaxRound
  PROVE  Prepared(d, Reopen(d, d.gen, s), d.gen)
<1> DEFINE g == d.gen
<1> DEFINE r == d.round[g][s] + 1
<1> DEFINE m == Reopen(d, g, s)
<1>1. g \in Gens
  BY CurrentGen DEF Settled, Sound
<1>2. r \in 0..MaxRound /\ 0 \in 0..MaxAttempts /\ r > d.round[g][s] /\ r > 0
  BY <1>1, BoundsAssumption DEF Settled, Sound, Database
<1>3. m = Rewritten(d, g, s, 0, r, "waiting")
  BY DEF Reopen, Rewritten, Settled, Sound, Database
<1>4. /\ Sound(m)
      /\ m.gen = d.gen /\ m.plan = d.plan /\ m.superseded = d.superseded /\ m.run = d.run
      /\ m.preserve = d.preserve /\ m.reason = d.reason /\ m.tally = d.tally
      /\ m.media = d.media /\ m.visible = d.visible
      /\ m.step = [d.step EXCEPT ![g][s] = "waiting"]
      /\ m.round = [d.round EXCEPT ![g][s] = r]
  <2> HIDE DEF m, r, g
  <2>1. Sound(d) /\ d.row[g][s] # "none" /\ "waiting" \in Status
    BY DEF Settled, Status, Live, g
  <2> QED
    BY <1>1, <1>2, <1>3, <2>1, WriteRow
<1> SUFFICES Prepared(d, m, g)
  OBVIOUS
<1> HIDE DEF m, r
<1>5. \A x \in Steps : /\ m.step[g][x] = IF x = s THEN "waiting" ELSE d.step[g][x]
                       /\ m.round[g][x] = IF x = s THEN r ELSE d.round[g][x]
  BY <1>1, <1>4 DEF Settled, Sound, Database
<1>6. \A h \in Gens \ {g} : m.step[h] = d.step[h] /\ m.round[h] = d.round[h]
  BY <1>1, <1>4 DEF Settled, Sound, Database
<1>7. Edited(d, m, g)
  BY <1>1, <1>2, <1>4, <1>5, <1>6 DEF Edited
<1>9. m.run[g] \in {"published", "degraded"} => Quiet(m, g)
  <2> SUFFICES ASSUME m.run[g] \in {"published", "degraded"}, NEW x \in RequiredIn(m, g, Live)
               PROVE  m.round[g][x] > 0
    BY DEF Quiet
  <2>1. x \in Steps /\ x \in d.plan[g]
    BY <1>1, <1>4 DEF RequiredIn, In, Settled, Sound, Database
  <2>2. CASE x = s
    BY <1>2, <1>5, <2>1, <2>2
  <2>3. CASE x # s
    <3>1. x \in RequiredIn(d, g, Live)
      BY <1>4, <1>5, <2>1, <2>3 DEF RequiredIn, In
    <3> QED
      BY <1>1, <1>4, <1>5, <2>1, <2>3, <3>1 DEF Settled, Quiet
  <2> QED
    BY <2>2, <2>3
<1>11. Visible \in Steps /\ s # Visible
  BY <1>1, StepsAssumption DEF Settled, Sound
<1> QED
  BY <1>1, <1>4, <1>5, <1>7, <1>9, <1>11 DEF Prepared

(* Cancelling the scan of a processing run fences its steps.               *)
Fenced(d, g) ==
    Sweep([d EXCEPT !.scanCancelled = TRUE, !.run[g] = "cancelled"], g, d.plan[g], Live, "cancelled")

LEMMA FenceRun ==
  ASSUME NEW d, Settled(d), d.gen > 0, d.run[d.gen] = "processing"
  PROVE  Prepared(d, Fenced(d, d.gen), d.gen)
<1> DEFINE g == d.gen
<1> DEFINE c == [d EXCEPT !.scanCancelled = TRUE, !.run[g] = "cancelled"]
<1> DEFINE m == Sweep(c, g, d.plan[g], Live, "cancelled")
<1>1. g \in Gens
  BY CurrentGen DEF Settled, Sound
<1>2. c \in Database
  BY <1>1 DEF Settled, Sound, Database, Final
<1>3. /\ c.gen = d.gen /\ c.plan = d.plan /\ c.superseded = d.superseded
      /\ c.preserve = d.preserve /\ c.reason = d.reason /\ c.tally = d.tally
      /\ c.media = d.media /\ c.visible = d.visible
      /\ c.step = d.step /\ c.row = d.row /\ c.round = d.round
      /\ c.run = [d.run EXCEPT ![g] = "cancelled"]
  BY DEF Settled, Sound, Database
<1> HIDE DEF c
<1>4. Sound(c)
  BY <1>2, <1>3 DEF Settled, Sound
<1>5. Edited(d, c, g)
  BY <1>1, <1>3 DEF Edited, Settled, Sound, Database, Final
<1>6. Sound(m) /\ Local(c, m, g)
  BY <1>1, <1>4, SweepSound DEF Status, Live, Bad
<1>7. m.run = c.run /\ m.media = c.media /\ m.visible = c.visible /\ m.tally = c.tally
  BY <1>2 DEF Sweep, Database
<1> HIDE DEF m
<1>8. Edited(d, m, g)
  <2>1. \A s \in Steps : c.step[g][s] \in Closed => m.step[g][s] = c.step[g][s]
    BY <1>6 DEF Local, Closed, Live, Bad
  <2> QED
    BY <1>3, <1>5, <1>6, <1>7, <2>1 DEF Edited, Local
<1>9. m.run[g] = "cancelled"
  BY <1>1, <1>3, <1>7 DEF Settled, Sound, Database
<1>10. \A s \in Steps : /\ m.step[g][s] = "none" => d.step[g][s] = "none"
                        /\ m.step[g][s] = "waiting" => d.step[g][s] = "waiting"
  <2>1. \A s \in Steps : m.step[g][s] \in {c.step[g][s], "cancelled"}
    BY <1>1, <1>2 DEF Sweep, Database, m
  <2> QED
    BY <1>3, <2>1
<1> QED
  BY <1>1, <1>3, <1>6, <1>7, <1>8, <1>9, <1>10, StepsAssumption DEF Prepared, m, c, Fenced

(* A new generation, and the end of the one it replaces.                   *)
LEMMA NextGen ==
  ASSUME NEW d, Settled(d), d.gen < MaxGen
  PROVE  d.gen + 1 \in Gens /\ d.gen + 1 \in 0..MaxGen
BY BoundsAssumption DEF Settled, Sound, Database, Gens

(* A record update with values of the right types is a database.           *)
Updated(d, a, b, c, e, f, h, i, j) ==
    [d EXCEPT !.gen = a, !.media = b, !.plan = c, !.run = e, !.reason = f,
              !.preserve = h, !.step = i, !.row = j]

LEMMA UpdateType ==
  ASSUME NEW d \in Database, NEW a \in 0..MaxGen, NEW b \in {"none", "processing"} \cup Final,
         NEW c \in [Gens -> SUBSET Steps], NEW e \in [Gens -> {"none", "processing"} \cup Final],
         NEW f \in [Gens -> {"none", "scan", "upload", "repair", "manual_retry"}],
         NEW h \in [Gens -> BOOLEAN],
         NEW i \in [Gens -> [Steps -> Status \cup {"none"}]],
         NEW j \in [Gens -> [Steps -> Status \cup {"none"}]]
  PROVE  Updated(d, a, b, c, e, f, h, i, j) \in Database
BY DEF Database, Updated

(* Generation g is the current one of e and starts with plan P.            *)
Planned(d, e, P, keep, g) ==
    /\ e.gen = g /\ e.plan[g] = P /\ e.run[g] = "processing" /\ e.preserve[g] = keep
    /\ e.media = (IF keep THEN d.media ELSE "processing") /\ e.visible = d.visible
    /\ e.tally = d.tally
    /\ \A s \in Steps : e.step[g][s] = IF s \notin P THEN "none"
                                      ELSE IF s = Visible /\ keep THEN "done" ELSE "waiting"

(* Generation g is appended to d with plan P.                              *)
Appended(d, p, P, keep, g) ==
    /\ Sound(p) /\ Planned(d, p, P, keep, g)
    /\ p.superseded = d.superseded /\ p.round = d.round
    /\ p.plan = [d.plan EXCEPT ![g] = P]
    /\ p.preserve = [d.preserve EXCEPT ![g] = keep]
    /\ p.run = [d.run EXCEPT ![g] = "processing"]
    /\ \A h \in Gens \ {g} : p.step[h] = d.step[h]

LEMMA PersistFields ==
  ASSUME NEW d, Settled(d), NEW P \in SUBSET Steps, NEW keep \in BOOLEAN,
         NEW why \in {"scan", "upload", "repair", "manual_retry"},
         NEW g \in Gens, g = d.gen + 1
  PROVE  Appended(d, Persist(d, P, keep, why), P, keep, g)
<1> DEFINE first == [s \in Steps |-> IF s \notin P THEN "none"
                                     ELSE IF s = Visible /\ keep THEN "done" ELSE "waiting"]
<1> DEFINE p == [d EXCEPT
                   !.gen = g,
                   !.media = IF keep THEN @ ELSE "processing",
                   !.plan[g] = P,
                   !.run[g] = "processing",
                   !.reason[g] = why,
                   !.preserve[g] = keep,
                   !.step[g] = first,
                   !.row[g] = [first EXCEPT ![Visible] = "none"]]
<1>1. g \in 0..MaxGen
  BY BoundsAssumption DEF Gens
<1>2. /\ first \in [Steps -> Status \cup {"none"}]
      /\ [first EXCEPT ![Visible] = "none"] \in [Steps -> Status \cup {"none"}]
  BY DEF Status, Live
<1>3. \A s \in Steps :
         /\ [first EXCEPT ![Visible] = "none"][s] = IF s = Visible THEN "none" ELSE first[s]
         /\ first[s] # "none" => s \in P
         /\ first[s] = IF s \notin P THEN "none"
                       ELSE IF s = Visible /\ keep THEN "done" ELSE "waiting"
  OBVIOUS
<1>4. d \in Database
  BY DEF Settled, Sound
<1>a. Persist(d, P, keep, why) = p
  BY DEF Persist
<1> HIDE DEF first
<1>b. /\ [d.plan EXCEPT ![g] = P] \in [Gens -> SUBSET Steps]
      /\ [d.run EXCEPT ![g] = "processing"] \in [Gens -> {"none", "processing"} \cup Final]
      /\ [d.reason EXCEPT ![g] = why] \in [Gens -> {"none", "scan", "upload", "repair", "manual_retry"}]
      /\ [d.preserve EXCEPT ![g] = keep] \in [Gens -> BOOLEAN]
      /\ [d.step EXCEPT ![g] = first] \in [Gens -> [Steps -> Status \cup {"none"}]]
      /\ [d.row EXCEPT ![g] = [first EXCEPT ![Visible] = "none"]] \in [Gens -> [Steps -> Status \cup {"none"}]]
      /\ (IF keep THEN d.media ELSE "processing") \in {"none", "processing"} \cup Final
  BY <1>2, <1>4 DEF Database
<1>c. p = [d EXCEPT
             !.gen = g,
             !.media = IF keep THEN d.media ELSE "processing",
             !.plan = [d.plan EXCEPT ![g] = P],
             !.run = [d.run EXCEPT ![g] = "processing"],
             !.reason = [d.reason EXCEPT ![g] = why],
             !.preserve = [d.preserve EXCEPT ![g] = keep],
             !.step = [d.step EXCEPT ![g] = first],
             !.row = [d.row EXCEPT ![g] = [first EXCEPT ![Visible] = "none"]]]
  BY <1>4 DEF Database
<1>5. p \in Database
  <2> DEFINE b == IF keep THEN d.media ELSE "processing"
             c == [d.plan EXCEPT ![g] = P]
             e == [d.run EXCEPT ![g] = "processing"]
             f == [d.reason EXCEPT ![g] = why]
             h == [d.preserve EXCEPT ![g] = keep]
             i == [d.step EXCEPT ![g] = first]
             j == [d.row EXCEPT ![g] = [first EXCEPT ![Visible] = "none"]]
  <2>1. p = Updated(d, g, b, c, e, f, h, i, j)
    BY <1>c DEF Updated
  <2>2. /\ b \in {"none", "processing"} \cup Final /\ c \in [Gens -> SUBSET Steps]
        /\ e \in [Gens -> {"none", "processing"} \cup Final]
        /\ f \in [Gens -> {"none", "scan", "upload", "repair", "manual_retry"}]
        /\ h \in [Gens -> BOOLEAN]
        /\ i \in [Gens -> [Steps -> Status \cup {"none"}]]
        /\ j \in [Gens -> [Steps -> Status \cup {"none"}]]
    BY <1>b
  <2> HIDE DEF b, c, e, f, h, i, j, p
  <2> QED
    BY <1>1, <1>4, <2>1, <2>2, UpdateType
<1>6. /\ p.gen = g /\ p.superseded = d.superseded /\ p.round = d.round
      /\ p.media = (IF keep THEN d.media ELSE "processing") /\ p.visible = d.visible
      /\ p.tally = d.tally
      /\ p.preserve = [d.preserve EXCEPT ![g] = keep]
      /\ p.plan = [d.plan EXCEPT ![g] = P]
      /\ p.run = [d.run EXCEPT ![g] = "processing"]
      /\ p.step = [d.step EXCEPT ![g] = first]
      /\ p.row = [d.row EXCEPT ![g] = [first EXCEPT ![Visible] = "none"]]
  BY <1>4 DEF Database
<1> HIDE DEF p
<1>8. /\ p.step[g] = first /\ p.row[g] = [first EXCEPT ![Visible] = "none"] /\ p.plan[g] = P
      /\ p.run[g] = "processing" /\ p.preserve[g] = keep
      /\ \A h \in Gens \ {g} : p.step[h] = d.step[h] /\ p.row[h] = d.row[h] /\ p.plan[h] = d.plan[h]
  BY <1>4, <1>6 DEF Database
<1>7. Sound(p)
  <2> SUFFICES ASSUME NEW h \in Gens, NEW s \in Steps
               PROVE  /\ p.row[h][s] = IF s = Visible THEN "none" ELSE p.step[h][s]
                      /\ p.step[h][s] # "none" => s \in p.plan[h]
    BY <1>5 DEF Sound
  <2>1. CASE h = g
    BY <1>3, <1>8, <2>1
  <2>2. CASE h # g
    BY <1>8, <2>2 DEF Sound, Settled
  <2> QED
    BY <2>1, <2>2
<1>9. Planned(d, p, P, keep, g)
  BY <1>3, <1>6, <1>8 DEF Planned
<1> QED
  BY <1>a, <1>6, <1>7, <1>8, <1>9 DEF Appended

LEMMA FirstPlanSettled ==
  ASSUME NEW d, Settled(d), d.gen = 0, 0 < MaxGen, NEW P \in SUBSET Steps, NEW keep \in BOOLEAN,
         NEW why \in {"scan", "upload"}, NEW g1 \in Gens, g1 = d.gen + 1
  PROVE  LET e == Persist(d, P, keep, why)
         IN  Settled(e) /\ History(d, e) /\ Planned(d, e, P, keep, g1)
<1> DEFINE p == Persist(d, P, keep, why)
<1>a. /\ Sound(p)
      /\ p.gen = g1 /\ p.superseded = d.superseded /\ p.round = d.round
      /\ p.plan = [d.plan EXCEPT ![g1] = P]
      /\ p.run = [d.run EXCEPT ![g1] = "processing"]
      /\ \A h \in Gens \ {g1} : p.step[h] = d.step[h]
      /\ Planned(d, p, P, keep, g1)
  <2>1. why \in {"scan", "upload", "repair", "manual_retry"}
    OBVIOUS
  <2> HIDE DEF p
  <2>2. Appended(d, p, P, keep, g1)
    BY <2>1, PersistFields DEF p
  <2> QED
    BY <2>2 DEF Appended, Planned
<1>0. g1 = 1
  OBVIOUS
<1>1. /\ Sound(p) /\ 1 \in Gens
      /\ p.gen = 1 /\ p.superseded = d.superseded /\ p.round = d.round
      /\ p.plan = [d.plan EXCEPT ![1] = P]
      /\ p.run = [d.run EXCEPT ![1] = "processing"]
      /\ \A h \in Gens \ {1} : p.step[h] = d.step[h]
  <2> HIDE DEF p
  <2> QED
    BY <1>a, <1>0
<1> HIDE DEF p
<1>2. d \in Database
  BY DEF Settled, Sound
<1>3. \A g \in Gens : d.plan[g] = {} /\ d.run[g] = "none" /\ ~d.superseded[g] /\ g >= 1
  BY DEF Settled, Gens
<1>4. \A g \in Gens, s \in Steps : d.step[g][s] = "none"
  BY <1>3 DEF Settled, Sound
<1>5. \A g \in Gens \ {1} : In(p, g, Live) = {}
  <2>1. \A g \in Gens \ {1} : p.plan[g] = {}
    BY <1>1, <1>2, <1>3 DEF Database
  <2> QED
    BY <2>1 DEF In
<1>6. \A g \in Gens : g <= 1 <=> g = 1
  BY DEF Gens
<1>7. p.run[1] = "processing" /\ \A g \in Gens \ {1} : p.run[g] = d.run[g] /\ p.plan[g] = d.plan[g]
  BY <1>0, <1>1, <1>2 DEF Database
<1>8. \A g \in Gens : Quiet(p, g)
  BY <1>5, <1>7 DEF Quiet, RequiredIn
<1>9. \A g \in Gens \ {1} : g > 1 /\ ~(g < 1)
  BY DEF Gens
<1>10. Settled(p)
  BY <1>1, <1>3, <1>6, <1>7, <1>8, <1>9 DEF Settled
<1>11. History(d, p)
  <2>1. \A g \in Gens : ~(g <= d.gen)
    BY DEF Gens
  <2> QED
    BY <1>1, <1>3, <1>4, <2>1 DEF History, Final, Closed, Bad
<1> QED
  BY <1>a, <1>10, <1>11 DEF p

LEMMA ReplaceSettled ==
  ASSUME NEW d, Settled(d), NEW g0 \in Gens, g0 = d.gen, NEW P \in SUBSET Steps, NEW keep \in BOOLEAN,
         NEW why \in {"repair", "manual_retry"}, NEW g1 \in Gens, g1 = d.gen + 1
  PROVE  LET e == Replace(d, P, keep, why)
         IN  Settled(e) /\ History(d, e) /\ Planned(d, e, P, keep, g1)
<1> DEFINE p == Persist(d, P, keep, why)
<1> DEFINE c == [p EXCEPT !.run[g0] = IF @ = "processing" THEN "cancelled" ELSE @,
                          !.superseded[g0] = TRUE]
<1> DEFINE e == Sweep(c, g0, p.plan[g0], Live, "cancelled")
<1>0. Replace(d, P, keep, why) = e
  BY DEF Replace, Supersede
<1>1. g0 \in Gens /\ g0 # g1
  BY DEF Gens
<1>a. why \in {"scan", "upload", "repair", "manual_retry"}
  OBVIOUS
<1>2. /\ Sound(p)
      /\ p.gen = g1 /\ p.superseded = d.superseded /\ p.round = d.round
      /\ p.plan = [d.plan EXCEPT ![g1] = P]
      /\ p.run = [d.run EXCEPT ![g1] = "processing"]
      /\ p.preserve = [d.preserve EXCEPT ![g1] = keep]
      /\ \A h \in Gens \ {g1} : p.step[h] = d.step[h]
      /\ Planned(d, p, P, keep, g1)
  <2>1. Appended(d, p, P, keep, g1)
    BY <1>a, PersistFields
  <2> HIDE DEF p
  <2> QED
    BY <2>1 DEF Appended, Planned
<1> HIDE DEF p
<1>3. d \in Database /\ p \in Database
  BY <1>2 DEF Settled, Sound
<1>4. /\ c.gen = p.gen /\ c.plan = p.plan /\ c.round = p.round /\ c.step = p.step /\ c.row = p.row
      /\ c.preserve = p.preserve /\ c.tally = p.tally /\ c.media = p.media /\ c.visible = p.visible
      /\ c.superseded = [p.superseded EXCEPT ![g0] = TRUE]
      /\ c.run = [p.run EXCEPT ![g0] = IF @ = "processing" THEN "cancelled" ELSE @]
  BY <1>3 DEF Database
<1>5. c \in Database
  <2> DEFINE r == [p.run EXCEPT ![g0] = IF @ = "processing" THEN "cancelled" ELSE @]
             u == [p.superseded EXCEPT ![g0] = TRUE]
  <2>1. r \in [Gens -> {"none", "processing"} \cup Final] /\ u \in [Gens -> BOOLEAN]
    BY <1>3 DEF Database, Final
  <2>2. c = [p EXCEPT !.run = r, !.superseded = u]
    BY <1>3 DEF Database
  <2> HIDE DEF r, u, c
  <2> QED
    BY <1>3, <2>1, <2>2 DEF Database
<1> HIDE DEF c
<1>6. Sound(c)
  BY <1>2, <1>4, <1>5 DEF Sound
<1>7. Sound(e) /\ Local(c, e, g0)
  BY <1>1, <1>6, SweepSound DEF Status, Live, Bad
<1>8. /\ e.run = c.run /\ e.tally = c.tally /\ e.media = c.media /\ e.visible = c.visible
      /\ e.step[g0] = [s \in Steps |-> IF s \in p.plan[g0] /\ c.step[g0][s] \in Live THEN "cancelled" ELSE c.step[g0][s]]
  BY <1>1, <1>5 DEF Sweep, Database
<1> HIDE DEF e
<1>9. /\ e.gen = g1 /\ e.round = d.round
      /\ e.superseded = [d.superseded EXCEPT ![g0] = TRUE]
      /\ e.plan = [d.plan EXCEPT ![g1] = P]
      /\ e.preserve = [d.preserve EXCEPT ![g1] = keep]
  BY <1>2, <1>4, <1>7 DEF Local
<1>10. d.run[g0] \in {"processing"} \cup Final
  <2>1. g0 <= d.gen
    BY DEF Gens
  <2>2. d.run[g0] # "none"
    BY <2>1 DEF Settled
  <2>3. d.run[g0] \in {"none", "processing"} \cup Final
    BY <1>3 DEF Database
  <2> QED
    BY <2>2, <2>3
<1>11. /\ e.run[g1] = "processing"
       /\ e.run[g0] = IF d.run[g0] = "processing" THEN "cancelled" ELSE d.run[g0]
       /\ \A h \in Gens \ {g0, g1} : e.run[h] = d.run[h]
  BY <1>1, <1>2, <1>3, <1>4, <1>8 DEF Database
<1>12. e.run[g0] \in Final
  BY <1>10, <1>11 DEF Final
<1>13. \A h \in Gens \ {g0, g1} : e.step[h] = d.step[h]
  BY <1>1, <1>2, <1>4, <1>7 DEF Local
<1>14. In(e, g0, Live) = {}
  <2>1. e.plan[g0] = p.plan[g0] /\ p.plan[g0] \subseteq Steps
    BY <1>1, <1>2, <1>3, <1>9 DEF Database
  <2> QED
    BY <1>8, <2>1 DEF In, Live
<1>15. \A h \in Gens \ {g1} : e.plan[h] = d.plan[h] /\ e.preserve[h] = d.preserve[h]
  BY <1>3, <1>9 DEF Database
<1>16. \A h \in Gens \ {g0, g1} : In(e, h, Live) = In(d, h, Live)
  BY <1>13, <1>15 DEF In
<1>17. \A h \in Gens : Quiet(e, h)
  <2> SUFFICES ASSUME NEW h \in Gens PROVE Quiet(e, h)
    OBVIOUS
  <2>1. CASE h = g0
    BY <1>14, <2>1 DEF Quiet, RequiredIn
  <2>2. CASE h = g1
    BY <1>11, <2>2 DEF Quiet
  <2>3. CASE h \notin {g0, g1}
    BY <1>9, <1>11, <1>16, <2>3 DEF Settled, Quiet, RequiredIn
  <2> QED
    BY <2>1, <2>2, <2>3
<1>18. \A h \in Gens : (h < g1 <=> h = g0 \/ h < g0) /\ (h > g1 => h > g0 /\ h \notin {g0, g1})
                       /\ (h <= g1 <=> h = g1 \/ h <= g0) /\ ~(g1 < g0) /\ ~(g1 < g1) /\ ~(g0 < g0) /\ ~(g0 > g1) /\ ~(g1 > g1)
  BY <1>1 DEF Gens
<1>19. \A h \in Gens : e.superseded[h] <=> h = g0 \/ d.superseded[h]
  BY <1>3, <1>9 DEF Database
<1>20. Settled(e)
  <2> SUFFICES ASSUME NEW h \in Gens
               PROVE  /\ e.superseded[h] <=> h < e.gen
                      /\ h <= e.gen => e.run[h] # "none"
                      /\ h > e.gen => e.plan[h] = {} /\ e.run[h] = "none"
                      /\ e.superseded[h] => e.run[h] \in Final /\ In(e, h, Live) = {}
    BY <1>7, <1>17 DEF Settled
  <2>1. CASE h = g0
    BY <1>9, <1>12, <1>14, <1>18, <1>19, <2>1 DEF Final
  <2>2. CASE h = g1
    BY <1>9, <1>11, <1>18, <1>19, <2>2 DEF Settled
  <2>3. CASE h \notin {g0, g1}
    BY <1>9, <1>11, <1>15, <1>16, <1>18, <1>19, <2>3 DEF Settled
  <2> QED
    BY <2>1, <2>2, <2>3
<1>21. d.run[g1] = "none" /\ \A s \in Steps : d.step[g1][s] = "none"
  <2>1. g1 > d.gen
    BY DEF Gens
  <2>2. d.run[g1] = "none" /\ d.plan[g1] = {}
    BY <2>1 DEF Settled
  <2> QED
    BY <2>2 DEF Settled, Sound
<1>22. \A s \in Steps : d.step[g0][s] \in Closed => e.step[g0][s] = d.step[g0][s]
  <2>1. p.step[g0] = d.step[g0]
    BY <1>1, <1>2
  <2> QED
    BY <1>1, <1>4, <1>7, <2>1 DEF Local, Closed, Live, Bad
<1>23. History(d, e)
  <2> SUFFICES ASSUME NEW h \in Gens
               PROVE  /\ d.run[h] \in Final => e.run[h] = d.run[h]
                      /\ h <= d.gen => e.plan[h] = d.plan[h] /\ e.preserve[h] = d.preserve[h]
                      /\ \A s \in Steps : d.step[h][s] \in Closed => e.step[h][s] = d.step[h][s]
    BY <1>9 DEF History
  <2>1. CASE h = g0
    BY <1>1, <1>11, <1>15, <1>22, <2>1 DEF Final
  <2>2. CASE h = g1
    <3>1. ~(g1 <= d.gen)
      BY DEF Gens
    <3> QED
      BY <1>21, <2>2, <3>1 DEF Final, Closed, Bad
  <2>3. CASE h \notin {g0, g1}
    BY <1>11, <1>13, <1>15, <2>3
  <2> QED
    BY <2>1, <2>2, <2>3
<1>24. Planned(d, e, P, keep, g1)
  <2>1. e.step[g1] = p.step[g1]
    BY <1>1, <1>4, <1>7 DEF Local
  <2>2. e.plan[g1] = P /\ e.preserve[g1] = keep
    BY <1>3, <1>9 DEF Database
  <2> QED
    BY <1>2, <1>4, <1>8, <1>9, <1>11, <2>1, <2>2 DEF Planned
<1> QED
  BY <1>0, <1>20, <1>23, <1>24

(* What a statement keeps is history too.                                  *)
LEMMA HistoryLocal ==
  ASSUME NEW d, NEW m, NEW e, NEW g \in Gens, History(d, m), Local(m, e, g)
  PROVE  History(d, e)
<1> SUFFICES ASSUME NEW h \in Gens
             PROVE  /\ d.run[h] \in Final => e.run[h] = d.run[h]
                    /\ h <= d.gen => e.plan[h] = d.plan[h] /\ e.preserve[h] = d.preserve[h]
                    /\ \A s \in Steps :
                          /\ d.step[h][s] \in Closed => e.step[h][s] = d.step[h][s] \/ e.round[h][s] > d.round[h][s]
                          /\ d.round[h][s] > 0 => e.round[h][s] > 0
  BY DEF History
<1>1. /\ d.run[h] \in Final => m.run[h] = d.run[h]
      /\ h <= d.gen => m.plan[h] = d.plan[h] /\ m.preserve[h] = d.preserve[h]
      /\ \A s \in Steps :
            /\ d.step[h][s] \in Closed => m.step[h][s] = d.step[h][s] \/ m.round[h][s] > d.round[h][s]
            /\ d.round[h][s] > 0 => m.round[h][s] > 0
  BY DEF History
<1>2. /\ e.round = m.round /\ e.plan = m.plan /\ e.preserve = m.preserve
      /\ m.run[h] \in Final => e.run[h] = m.run[h]
      /\ \A s \in Steps : m.step[h][s] \in Closed => e.step[h][s] = m.step[h][s]
  <2>1. CASE h = g
    BY <2>1 DEF Local, Closed, Live, Bad
  <2>2. CASE h # g
    BY <2>2 DEF Local
  <2> QED
    BY <2>1, <2>2
<1> QED
  BY <1>1, <1>2

(* A repair adopts artefacts in the run it has just planned.               *)
LEMMA AdoptSettled ==
  ASSUME NEW d, NEW m, Settled(m), History(d, m), NEW g \in Gens, m.run[g] = "processing", NEW found
  PROVE  Settled(Adopt(m, g, found)) /\ History(d, Adopt(m, g, found))
<1> DEFINE optional == In(m, g, {"waiting"}) \ (Required \cup {Visible})
<1> DEFINE barrier == IF m.media \in {"published", "degraded"} THEN {Visible} ELSE {}
<1> DEFINE c == Sweep(m, g, (optional \cap found) \cup (barrier \cap m.plan[g]), {"waiting"}, "done")
<1> DEFINE e == Sweep(c, g, optional \ found, {"waiting"}, "skipped")
<1>0. Adopt(m, g, found) = e
  BY DEF Adopt
<1>1. Sound(c) /\ Local(m, c, g)
  BY SweepSound DEF Settled, Status, Live, Bad
<1>2. c.run = m.run
  BY DEF Sweep, Settled, Sound, Database
<1> HIDE DEF c
<1>3. Sound(e) /\ Local(c, e, g)
  BY <1>1, SweepSound DEF Status, Live, Bad
<1>4. e.run = c.run
  BY <1>1 DEF Sweep, Sound, Database
<1> HIDE DEF e
<1>5. Local(m, e, g)
  BY <1>1, <1>3, LocalTransitive
<1>6. Quiet(e, g)
  BY <1>2, <1>4 DEF Quiet
<1>7. ~m.superseded[g]
  BY DEF Settled, Final
<1>8. Edited(m, m, g)
  BY LocalEdited, LocalReflexive
<1>9. Settled(e)
  BY <1>3, <1>5, <1>6, <1>7, <1>8, LocalSettled
<1> QED
  BY <1>0, <1>5, <1>9, HistoryLocal

(* Statements of startup validation on the current generation.             *)
LEMMA ResyncIdle ==
  ASSUME NEW d, Sound(d), NEW g \in Gens
  PROVE  Resync(d, g) = d
<1> DEFINE f == [s \in Steps |-> IF s = Visible THEN d.step[g][s] ELSE d.row[g][s]]
<1>1. d \in Database /\ d.step[g] \in [Steps -> Status \cup {"none"}]
  BY DEF Sound, Database
<1>2. \A s \in Steps : f[s] = d.step[g][s]
  BY DEF Sound
<1>3. f = d.step[g]
  <2>1. f \in [Steps -> Status \cup {"none"}]
    BY <1>1, <1>2
  <2> HIDE DEF f
  <2> QED
    BY <1>1, <1>2, <2>1
<1>4. Resync(d, g) = [d EXCEPT !.step[g] = f]
  BY DEF Resync
<1> HIDE DEF f
<1>5. [d.step EXCEPT ![g] = f] = d.step
  BY <1>1, <1>3 DEF Database
<1>6. [d EXCEPT !.step[g] = f] = d
  BY <1>1, <1>5 DEF Database
<1> QED
  BY <1>4, <1>6

LEMMA ResumeSound ==
  ASSUME NEW d, Sound(d), NEW g \in Gens, Quiet(d, g)
  PROVE  /\ Sound(Resume(d, g)) /\ Local(d, Resume(d, g), g)
         /\ Resume(d, g).run = d.run
<1> DEFINE e == Sweep(d, g, d.plan[g] \ Required, {"waiting"}, "cancelled")
<1>1. d.run[g] = "failed" => RequiredIn(d, g, {"waiting"}) = {}
  BY DEF Quiet, RequiredIn, In, Live
<1>2. Sound(e) /\ Local(d, e, g)
  BY SweepSound DEF Status, Live, Bad
<1>3. e.run = d.run
  BY DEF Sweep, Sound, Database
<1>4. Resume(d, g) = d \/ Resume(d, g) = e
  <2> HIDE DEF e
  <2>1. CASE d.run[g] = "failed"
    BY <1>1, <2>1 DEF Resume, e
  <2>2. CASE d.run[g] # "failed"
    BY <2>2 DEF Resume, e
  <2> QED
    BY <2>1, <2>2
<1> HIDE DEF e
<1> QED
  BY <1>2, <1>3, <1>4, LocalReflexive

LEMMA UnblockSound ==
  ASSUME NEW d, Sound(d), NEW g \in Gens
  PROVE  /\ Sound(Unblock(d, g)) /\ Local(d, Unblock(d, g), g)
         /\ Unblock(d, g).run = d.run
<1> DEFINE e == [d EXCEPT !.step[g][Visible] = "done"]
<1>0. CASE Unblock(d, g) = d
  BY <1>0, LocalReflexive
<1>1. CASE Unblock(d, g) # d
  <2>0. Unblock(d, g) = e /\ d.step[g][Visible] = "waiting"
    BY <1>1 DEF Unblock
  <2>1. Visible \in Steps
    BY StepsAssumption
  <2>2. e \in Database
    BY <2>1 DEF Sound, Database, Status
  <2>3. /\ e.gen = d.gen /\ e.plan = d.plan /\ e.superseded = d.superseded
        /\ e.preserve = d.preserve /\ e.reason = d.reason /\ e.tally = d.tally
        /\ e.media = d.media /\ e.visible = d.visible
        /\ e.round = d.round /\ e.run = d.run /\ e.row = d.row
        /\ e.step = [d.step EXCEPT ![g][Visible] = "done"]
    BY DEF Sound, Database
  <2>4. \A h \in Gens, s \in Steps :
          e.step[h][s] = IF h = g /\ s = Visible THEN "done" ELSE d.step[h][s]
    BY <2>1, <2>3 DEF Sound, Database
  <2>5. \A h \in Gens \ {g} : e.step[h] = d.step[h]
    BY <2>3 DEF Sound, Database
  <2> HIDE DEF e
  <2>6. Sound(e)
    BY <2>0, <2>1, <2>2, <2>3, <2>4 DEF Sound
  <2>7. Local(d, e, g)
    BY <2>0, <2>1, <2>3, <2>4, <2>5 DEF Local, Live
  <2> QED
    BY <2>0, <2>3, <2>6, <2>7
<1> QED
  BY <1>0, <1>1

(* A restart validates the current generation.                             *)
LEMMA StartSettled ==
  ASSUME NEW d, Settled(d)
  PROVE  Settled(Validated(d)) /\ History(d, Validated(d))
<1>1. CASE d.gen = 0
  BY <1>1 DEF Validated, History
<1>2. CASE d.gen # 0
  <2> SUFFICES ASSUME NEW g \in Gens, g = d.gen
               PROVE  Settled(Validated(d)) /\ History(d, Validated(d))
    <3>1. d \in Database /\ d.gen > 0
      BY <1>2 DEF Settled, Sound, Database
    <3> QED
      BY <3>1, CurrentGen
  <2> DEFINE r == Resume(d, g)
  <2> DEFINE m == Unblock(r, g)
  <2>1. Validated(d) = Finalize(m, g)
    BY <1>2, ResyncIdle DEF Validated, Settled
  <2>2. Sound(r) /\ Local(d, r, g) /\ r.run = d.run
    BY ResumeSound DEF Settled
  <2> HIDE DEF r
  <2>3. Sound(m) /\ Local(r, m, g) /\ m.run = r.run
    BY <2>2, UnblockSound
  <2> HIDE DEF m
  <2>4. Local(d, m, g)
    BY <2>2, <2>3, LocalTransitive
  <2>5. Edited(d, m, g)
    BY <2>4, LocalEdited
  <2>6. ~d.superseded[g] /\ d.run[g] # "none"
    BY DEF Settled, Gens
  <2>7. m.run[g] \in {"published", "degraded"} => Quiet(m, g)
    BY <2>2, <2>3, <2>4, QuietStays DEF Settled, Final
  <2> QED
    BY <2>1, <2>3, <2>5, <2>6, <2>7, CommitSettled
<1> QED
  BY <1>1, <1>2

(* What is not read by the invariant may change.                           *)
LEMMA OtherSettled ==
  ASSUME NEW d, Settled(d), NEW e \in Database,
         e.gen = d.gen, e.plan = d.plan, e.superseded = d.superseded, e.round = d.round,
         e.run = d.run, e.step = d.step, e.row = d.row, e.preserve = d.preserve
  PROVE  Settled(e) /\ History(d, e)
<1>1. Sound(e)
  BY DEF Settled, Sound
<1>2. \A g \in Gens : In(e, g, Live) = In(d, g, Live)
  BY DEF In
<1>3. \A g \in Gens : Quiet(e, g)
  BY <1>2 DEF Settled, Quiet, RequiredIn
<1> QED
  BY <1>1, <1>2, <1>3 DEF Settled, History

-----------------------------------------------------------------------------
(* The specification.                                                      *)

(* What a transaction leaves alone besides scan_task and rows without run. *)
Unrelated(d, e) ==
    /\ e \in Database
    /\ e.gen = d.gen /\ e.plan = d.plan /\ e.superseded = d.superseded /\ e.round = d.round
    /\ e.run = d.run /\ e.step = d.step /\ e.row = d.row /\ e.preserve = d.preserve
    /\ e.reason = d.reason /\ e.media = d.media /\ e.visible = d.visible /\ e.tally = d.tally

(* The transactions: all but four edit the current generation and finalize *)
(* it, or touch nothing of its run.                                        *)
LEMMA Transactions ==
  ASSUME TypeOK, Settled(db), Next
  PROVE  \/ PlanNew \/ RetryIngest \/ Repair \/ Start
         \/ \E s \in Steps : Claim(s)
         \/ Unrelated(db, db')
         \/ \E m : Prepared(db, m, db.gen) /\ db' = Finalize(m, db.gen)
<1> DEFINE Finalized == \E m : Prepared(db, m, db.gen) /\ db' = Finalize(m, db.gen)
<1>0. db \in Database
  BY DEF TypeOK
<1>1. ASSUME NEW m, NEW g, Prepared(db, m, g), db' = Finalize(m, g)
      PROVE  Finalized
  <2>1. g = db.gen
    BY <1>1 DEF Prepared
  <2> QED
    BY <1>1, <2>1
<1>2. ASSUME NEW w \in working, NEW st \in Status, Report(w, st)
      PROVE  Finalized
  <2>1. w.gen \in Gens /\ w.step \in Steps
    BY DEF TypeOK, Tokens
  <2>2. db.row[w.gen][w.step] \in Live /\ db' = Finalize(SetRow(db, w.gen, w.step, st), w.gen)
    BY <1>2 DEF Report, Holds, Live
  <2>3. Prepared(db, SetRow(db, w.gen, w.step, st), w.gen)
    BY <2>1, <2>2, CloseRow
  <2> HIDE DEF Finalized
  <2> QED
    BY <1>1, <2>2, <2>3
<1> HIDE DEF Finalized
<1>3. ASSUME NEW w \in working, Complete(w)
      PROVE  Finalized
  BY <1>2, <1>3 DEF Complete, Status, Bad
<1>4. ASSUME NEW w \in working, Fail(w)
      PROVE  Finalized
  <2>1. PICK st \in Status : Report(w, st)
    BY <1>4 DEF Fail, Status, Bad, Live
  <2> QED
    BY <1>2, <2>1
<1>5. ASSUME NEW g \in Gens, NEW s \in Steps, Recover(g, s)
      PROVE  Finalized
  <2>1. Recovered(db, g, s) \in Status
    BY DEF Recovered, Status, Live, Bad
  <2>2. db.row[g][s] \in Live /\ db' = Finalize(SetRow(db, g, s, Recovered(db, g, s)), g)
    BY <1>5 DEF Recover, Live
  <2>3. Prepared(db, SetRow(db, g, s, Recovered(db, g, s)), g)
    BY <2>1, <2>2, CloseRow
  <2> QED
    BY <1>1, <2>2, <2>3
<1>6. ASSUME NEW g \in Gens, NEW s \in Steps, CancelStep(g, s)
      PROVE  Finalized
  <2>1. db.row[g][s] \in Live /\ db' = Finalize(SetRow(db, g, s, "cancelled"), g)
    BY <1>6 DEF CancelStep
  <2>2. Prepared(db, SetRow(db, g, s, "cancelled"), g)
    BY <2>1, CloseRow DEF Status, Bad
  <2> QED
    BY <1>1, <2>1, <2>2
<1>7. CASE CancelScan
  <2> DEFINE e == [db EXCEPT !.scanCancelled = TRUE]
  <2>1. CASE db.gen > 0 /\ db.run[db.gen] = "processing" /\ db' # e
    <3>1. db' = Finalize(Fenced(db, db.gen), db.gen)
      BY <1>7, <2>1 DEF CancelScan, Fenced
    <3>2. Prepared(db, Fenced(db, db.gen), db.gen)
      BY <2>1, FenceRun
    <3> QED
      BY <1>1, <3>1, <3>2
  <2>2. CASE db' = e
    <3>1. Unrelated(db, e)
      BY <1>0 DEF Database, Unrelated
    <3> QED
      BY <2>2, <3>1
  <2> QED
    BY <1>7, <2>1, <2>2 DEF CancelScan
<1>8. ASSUME NEW s \in Steps, db.gen > 0, db.row[db.gen][s] # "none", db.round[db.gen][s] < MaxRound,
             db' = Finalize(Reopen(db, db.gen, s), db.gen)
      PROVE  Finalized
  <2>1. Prepared(db, Reopen(db, db.gen, s), db.gen)
    BY <1>8, ReopenRow
  <2> QED
    BY <1>1, <1>8, <2>1
<1>9. CASE ResetEncrypt
  <2> SUFFICES Finalized
    BY DEF Finalized
  <2>1. Encrypt \in Steps
    BY StepsAssumption
  <2> QED
    BY <1>8, <1>9, <2>1 DEF ResetEncrypt
<1>10. ASSUME NEW s \in Steps, RetryOptional(s)
       PROVE  Finalized
  BY <1>8, <1>10 DEF RetryOptional
<1>11. CASE EnqueueEncrypt
  <2>1. CASE db.gen > 0 /\ Encrypt \in db.plan[db.gen]
    <3>1. /\ db.row[db.gen][Encrypt] # "none" /\ db.round[db.gen][Encrypt] < MaxRound
          /\ db' = Finalize(Reopen(db, db.gen, Encrypt), db.gen)
      BY <1>11, <2>1 DEF EnqueueEncrypt
    <3>2. Finalized
      BY <1>8, <2>1, <3>1, StepsAssumption
    <3> QED
      BY <3>2 DEF Finalized
  <2>2. CASE ~(db.gen > 0 /\ Encrypt \in db.plan[db.gen])
    <3>1. db' = [db EXCEPT !.loose[db.gen] = "waiting"]
      BY <1>11, <2>2 DEF EnqueueEncrypt
    <3>2. Unrelated(db, [db EXCEPT !.loose[db.gen] = "waiting"])
      BY <1>0 DEF Database, Unrelated
    <3> QED
      BY <3>1, <3>2
  <2> QED
    BY <2>1, <2>2
<1>12. ASSUME NEW g \in 0..MaxGen, ClaimLoose(g)
       PROVE  Unrelated(db, db')
  <2>1. db' = [db EXCEPT !.loose[g] = "running"]
    BY <1>12 DEF ClaimLoose
  <2> QED
    BY <1>0, <2>1 DEF Database, Unrelated
<1>13. CASE db' = db
  BY <1>0, <1>13 DEF Unrelated
<1> QED
  BY <1>3, <1>4, <1>5, <1>6, <1>7, <1>9, <1>10, <1>11, <1>12, <1>13
  DEF Next, Operator, Dispatch, LateReport, Crash, Finalized

LEMMA TransactionSettled ==
  ASSUME TypeOK, Settled(db), Next
  PROVE  Settled(db') /\ History(db, db')
<1>0. db \in Database
  BY DEF TypeOK
<1>1. CASE PlanNew
  <2> SUFFICES ASSUME NEW P \in Plans, NEW why \in {"scan", "upload"}, db.gen = 0, MaxGen > 0,
                      db' = Persist(db, P, FALSE, why)
               PROVE  Settled(db') /\ History(db, db')
    BY <1>1 DEF PlanNew
  <2>1. P \in SUBSET Steps /\ FALSE \in BOOLEAN
    BY StepsAssumption
  <2>2. db.gen < MaxGen
    OBVIOUS
  <2>3. db.gen + 1 \in Gens
    BY <2>2, NextGen
  <2> QED
    BY <2>1, <2>3, FirstPlanSettled
<1>2. ASSUME NEW s \in Steps, Claim(s)
      PROVE  Settled(db') /\ History(db, db')
  BY <1>2, ClaimSettled DEF Claim, HandOut
<1>3. CASE RetryIngest
  <2> SUFFICES ASSUME NEW P \in Plans, 0 < db.gen, db.gen < MaxGen,
                      db' = Replace(db, P, db.media = "degraded", "manual_retry")
               PROVE  Settled(db') /\ History(db, db')
    BY <1>3 DEF RetryIngest
  <2>1. P \in SUBSET Steps /\ (db.media = "degraded") \in BOOLEAN
    BY StepsAssumption
  <2>2. db.gen \in Gens /\ db.gen + 1 \in Gens
    BY <1>0, CurrentGen, NextGen
  <2> QED
    BY <2>1, <2>2, ReplaceSettled
<1>4. CASE Repair
  <2> SUFFICES ASSUME NEW P \in Plans, NEW keep \in BOOLEAN, NEW found, 0 < db.gen, db.gen < MaxGen,
                      db' = Adopt(Replace(db, P, keep, "repair"), db.gen + 1, found)
               PROVE  Settled(db') /\ History(db, db')
    BY <1>4 DEF Repair
  <2>1. P \in SUBSET Steps
    BY StepsAssumption
  <2>2. db.gen \in Gens /\ db.gen + 1 \in Gens
    BY <1>0, CurrentGen, NextGen
  <2> DEFINE m == Replace(db, P, keep, "repair")
  <2>3. Settled(m) /\ History(db, m) /\ m.run[db.gen + 1] = "processing"
    <3>1. Settled(m) /\ History(db, m) /\ Planned(db, m, P, keep, db.gen + 1)
      BY <2>1, <2>2, ReplaceSettled
    <3> QED
      BY <3>1 DEF Planned
  <2> HIDE DEF m
  <2>4. ASSUME NEW g1 \in Gens, g1 = db.gen + 1
        PROVE  Settled(Adopt(m, g1, found)) /\ History(db, Adopt(m, g1, found))
    BY <2>3, <2>4, AdoptSettled
  <2> QED
    BY <2>2, <2>4 DEF m
<1>5. CASE Start
  BY <1>5, StartSettled DEF Start
<1>6. CASE Unrelated(db, db')
  BY <1>6, OtherSettled DEF Unrelated
<1>7. ASSUME NEW m, Prepared(db, m, db.gen), db' = Finalize(m, db.gen)
      PROVE  Settled(db') /\ History(db, db')
  BY <1>7, PreparedSettled
<1> QED
  BY <1>1, <1>2, <1>3, <1>4, <1>5, <1>6, <1>7, Transactions

(* The bookkeeping of executors, server and crashes.                       *)
LEMMA ProcessType ==
  ASSUME TypeOK, Settled(db), Next
  PROVE  working' \subseteq Tokens /\ up' \in BOOLEAN /\ crashes' \in 0..MaxCrashes
<1>1. ASSUME NEW s \in Steps, HandOut(s)
      PROVE  working' \subseteq Tokens
  <2> SUFFICES ASSUME NEW g \in Gens, g = db.gen
               PROVE  [gen |-> g, step |-> s, round |-> db.round[g][s], attempt |-> db.attempts[g][s] + 1] \in Tokens
    BY <1>1, CurrentGen DEF HandOut, TypeOK
  <2>1. db.round[g][s] \in 0..MaxRound /\ db.attempts[g][s] \in 0..MaxAttempts
    BY DEF TypeOK, Database
  <2>2. db.attempts[g][s] + 1 \in 1..MaxAttempts
    BY <1>1, <2>1, BoundsAssumption DEF HandOut, Eligible
  <2> QED
    BY <2>1, <2>2 DEF Tokens
<1>2. CASE \E s \in Steps : Claim(s)
  <2>1. PICK s \in Steps : HandOut(s)
    BY <1>2 DEF Claim
  <2>2. working' \subseteq Tokens
    BY <1>1, <2>1
  <2> QED
    BY <2>1, <2>2 DEF HandOut, Serving, TypeOK
<1>3. CASE Crash
  <2>1. crashes \in 0..MaxCrashes /\ crashes < MaxCrashes /\ crashes' = crashes + 1
    BY <1>3 DEF Crash, TypeOK
  <2>2. crashes' \in 0..MaxCrashes
    BY <2>1, BoundsAssumption
  <2>3. working' = {} /\ up' = FALSE
    BY <1>3 DEF Crash
  <2> QED
    BY <2>2, <2>3
<1>4. CASE Start
  BY <1>4 DEF Start, TypeOK
<1>5. CASE PlanNew \/ Operator
  BY <1>5 DEF PlanNew, Operator, Serving, CancelScan, RetryIngest, Repair, ResetEncrypt, EnqueueEncrypt,
              RetryOptional, CancelStep, TypeOK
<1>6. CASE \E g \in 0..MaxGen : ClaimLoose(g)
  BY <1>6 DEF ClaimLoose, Serving, TypeOK
<1>7. CASE \E w \in working : Complete(w) \/ Fail(w) \/ LateReport(w)
  BY <1>7 DEF Complete, Fail, Report, LateReport, Serving, TypeOK
<1>8. CASE \E g \in Gens, s \in Steps : Recover(g, s)
  BY <1>8 DEF Recover, TypeOK
<1> QED
  BY <1>2, <1>3, <1>4, <1>5, <1>6, <1>7, <1>8 DEF Next, Dispatch

Inv == TypeOK /\ Settled(db)

LEMMA InitInv == Init => Inv
<1> SUFFICES ASSUME Init PROVE Inv
  OBVIOUS
<1>1. /\ [g \in Gens |-> [s \in Steps |-> "none"]] \in [Gens -> [Steps -> Status \cup {"none"}]]
      /\ [g \in Gens |-> [s \in Steps |-> 0]] \in [Gens -> [Steps -> 0..MaxAttempts]]
      /\ [g \in Gens |-> [s \in Steps |-> 0]] \in [Gens -> [Steps -> 0..MaxRound]]
  BY BoundsAssumption
<1>2. [g \in Gens |-> NoTally] \in [Gens -> Tallies]
  BY DEF NoTally, Tallies
<1>3. db \in Database
  BY <1>1, <1>2, BoundsAssumption DEF Init, Database
<1>4. TypeOK
  BY <1>3, BoundsAssumption DEF Init, TypeOK
<1>5. db.gen = 0 /\ \A g \in Gens : /\ db.plan[g] = {} /\ db.run[g] = "none" /\ ~db.superseded[g]
                                    /\ \A s \in Steps : db.step[g][s] = "none" /\ db.row[g][s] = "none"
  BY DEF Init
<1>6. \A g \in Gens : g > 0 /\ ~(g <= 0) /\ ~(g < 0)
  BY DEF Gens
<1>7. Settled(db)
  BY <1>3, <1>5, <1>6 DEF Settled, Sound, Quiet
<1> QED
  BY <1>4, <1>7 DEF Inv

LEMMA NextInv == Inv /\ [Next]_vars => Inv' /\ History(db, db')
<1> SUFFICES ASSUME Inv, [Next]_vars PROVE Inv' /\ History(db, db')
  OBVIOUS
<1>1. CASE Next
  BY <1>1, TransactionSettled, ProcessType DEF Inv, TypeOK, Settled, Sound
<1>2. CASE UNCHANGED vars
  <2>1. Inv'
    BY <1>2 DEF vars, Inv, TypeOK, Settled, Sound, Quiet, RequiredIn, In
  <2> QED
    BY <1>2, <2>1 DEF vars, History
<1> QED
  BY <1>1, <1>2

(* The database and the tokens keep their types under every transaction.   *)
THEOREM TypeCorrect == Spec => []TypeOK
<1>1. Inv => TypeOK
  BY DEF Inv
<1> QED
  BY InitInv, NextInv, <1>1, PTL DEF Spec, Safe

(* Queue rows and steps never part (mirrorLinkedStepTx in every path).     *)
THEOREM RowsCorrect == Spec => []RowsFollowSteps
<1>1. Inv => RowsFollowSteps
  BY DEF Inv, Settled, Sound, RowsFollowSteps
<1> QED
  BY InitInv, NextInv, <1>1, PTL DEF Spec, Safe

(* Nothing of a replaced generation is left open (supersedeGeneration).    *)
THEOREM SupersededCorrect == Spec => []SupersededIsOver
<1>1. Inv => SupersededIsOver
  BY DEF Inv, Settled, SupersededIsOver
<1> QED
  BY InitInv, NextInv, <1>1, PTL DEF Spec, Safe

(* Finished runs hold no open work (AggregateRunTx, convergence).          *)
THEOREM QuietCorrect == Spec => []FinishedRunIsQuiet
<1>1. Inv => FinishedRunIsQuiet
  BY DEF Inv, Settled, Quiet, FinishedRunIsQuiet
<1> QED
  BY InitInv, NextInv, <1>1, PTL DEF Spec, Safe

(* A decided run is never decided again (AggregateRunTx, resumeRuns).      *)
THEOREM OutcomeCorrect == Spec => OutcomeIsFinal
<1>1. Inv /\ [Next]_vars => [\A g \in Gens : db.run[g] \in Final => db'.run[g] = db.run[g]]_vars
  BY NextInv DEF History
<1> QED
  BY InitInv, NextInv, <1>1, PTL DEF Spec, Safe, OutcomeIsFinal

(* Finished steps stay as evidence unless an administrator reopens them.   *)
THEOREM DoneCorrect == Spec => DoneIsKept
<1>1. Inv /\ [Next]_vars =>
        [\A g \in Gens, s \in Steps :
            db.step[g][s] = "done" =>
                db'.step[g][s] = "done" \/ db'.round[g][s] > db.round[g][s]]_vars
  BY NextInv DEF History, Closed
<1> QED
  BY InitInv, NextInv, <1>1, PTL DEF Spec, Safe, DoneIsKept
=============================================================================
