----------------------------- MODULE LeasedWork ------------------------------
(***************************************************************************)
(* What the work queue promises to those who enqueue work and to those who *)
(* do it, without leases, reservations, maps or processes.                 *)
(*                                                                         *)
(* A worker takes one task, once in its life, and only if the task has a   *)
(* try left.  The task stays with it until it reports, until it is over,   *)
(* or until somebody cancels or reopens the task; from then on the worker  *)
(* has no say in it.  What is settled stays settled until it is reopened.  *)
(***************************************************************************)
EXTENDS Naturals

CONSTANTS
    Tasks,
    Workers,
    Nobody,     \* not a worker
    Tries       \* [Tasks -> Nat], how often a task is tried before it fails

VARIABLES
    task,       \* [Tasks -> States]
    holder,     \* [Tasks -> Workers \cup {Nobody}]
    used,       \* [Tasks -> Nat], tries since the task was offered or reopened
    worker      \* [Workers -> {"new", "working", "decided", "over"}]

vars == <<task, holder, used, worker>>

Settled == {"done", "failed", "cancelled"}
States == {"absent", "waiting", "held"} \cup Settled

Init ==
    /\ task = [t \in Tasks |-> "absent"]
    /\ holder = [t \in Tasks |-> Nobody]
    /\ used = [t \in Tasks |-> 0]
    /\ worker = [w \in Workers |-> "new"]

Offer(t) ==
    /\ task[t] = "absent"
    /\ task' = [task EXCEPT ![t] = "waiting"]
    /\ UNCHANGED <<holder, used, worker>>

Take(t, w) ==
    /\ task[t] = "waiting" /\ used[t] < Tries[t]
    /\ worker[w] = "new"
    /\ task' = [task EXCEPT ![t] = "held"]
    /\ holder' = [holder EXCEPT ![t] = w]
    /\ used' = [used EXCEPT ![t] = used[t] + 1]
    /\ worker' = [worker EXCEPT ![w] = "working"]

(* The tasks in S are no longer held; the others stay as they are.         *)
Leave(S) ==
    /\ task' \in [Tasks -> States]
    /\ \A t \in Tasks \ S : task'[t] = task[t]
    /\ holder' = [t \in Tasks |-> IF t \in S THEN Nobody ELSE holder[t]]

GivenBack(t) == IF used[t] < Tries[t] THEN "waiting" ELSE "failed"

(* A worker finishes its task at once, or decides first and then reports.  *)
Finish(t) ==
    /\ task[t] = "held" /\ worker[holder[t]] = "working"
    /\ Leave({t}) /\ task'[t] = "done"
    /\ UNCHANGED <<used, worker>>

Decide(w) ==
    /\ worker[w] = "working"
    /\ worker' = [worker EXCEPT ![w] = "decided"]
    /\ UNCHANGED <<task, holder, used>>

Report(t, w) ==
    /\ task[t] = "held" /\ holder[t] = w /\ worker[w] = "decided"
    /\ Leave({t}) /\ task'[t] \in Settled \cup {GivenBack(t)}
    /\ worker' = [worker EXCEPT ![w] = "over"]
    /\ UNCHANGED used

(* Workers end, whether they have reported or not.                         *)
End(W) ==
    /\ \A w \in W : worker[w] # "new"
    /\ worker' = [w \in Workers |-> IF w \in W THEN "over" ELSE worker[w]]
    /\ UNCHANGED <<task, holder, used>>

(* Tasks are taken back from workers that are over, and from no others.    *)
TakeBack(S) ==
    /\ \A t \in S : task[t] = "held" /\ worker[holder[t]] = "over"
    /\ Leave(S) /\ \A t \in S : task'[t] \in {"cancelled", GivenBack(t)}
    /\ UNCHANGED <<used, worker>>

Cancel(S) ==
    /\ \A t \in S : task[t] \in {"waiting", "held"}
    /\ Leave(S) /\ \A t \in S : task'[t] = "cancelled"
    /\ UNCHANGED <<used, worker>>

(* An administrator may reopen even a task whose worker seems lost.        *)
Reopen(t) ==
    /\ task[t] \in Settled \cup {"held"}
    /\ Leave({t}) /\ task'[t] = "waiting"
    /\ used' = [used EXCEPT ![t] = 0]
    /\ UNCHANGED worker

Next ==
    \/ \E t \in Tasks : Offer(t) \/ Finish(t) \/ Reopen(t)
    \/ \E t \in Tasks, w \in Workers : Take(t, w) \/ Report(t, w)
    \/ \E w \in Workers : Decide(w)
    \/ \E W \in SUBSET Workers : End(W)
    \/ \E S \in SUBSET Tasks : TakeBack(S) \/ Cancel(S)

Safe == Init /\ [][Next]_vars

(* What a worker that is over still holds is taken back.                   *)
Reclaimed ==
    \A t \in Tasks :
        task[t] = "held" /\ worker[holder[t]] = "over" ~> task[t] # "held"

Spec == Safe /\ Reclaimed
=============================================================================
