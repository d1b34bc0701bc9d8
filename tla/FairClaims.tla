----------------------------- MODULE FairClaims -----------------------------
(***************************************************************************)
(* Claims of post-ingest rows as the dispatcher makes them: the types are  *)
(* tried in a fixed order, a claim is admitted under the control state and *)
(* the budgets, and the libraries take turns by a durable cursor.  With    *)
(* PolicyControl, for the administrator who changes both meanwhile.        *)
(*                                                                         *)
(* Rows are counted per type and library.  Attempts, leases and the        *)
(* outcomes of an execution are in TaskQueue, which in turn leaves the     *)
(* order of claims open.                                                   *)
(***************************************************************************)
EXTENDS PolicyControl, ClaimOrder

CONSTANTS
    Libraries,  \* ids of libraries, 0 is the bucket of rows without one
    NoLibrary,  \* the cursor of a type that was never claimed
    Place,      \* the place of a type in the dispatcher's list
    Shared,     \* the types with a resource or provider that others use too
    Scenarios,  \* bounds: [edits, commands, restarts, feeds], one per behaviour
    MaxWaiting  \* bound: waiting rows of a type in a library

ASSUME ClaimAssumption ==
    /\ Libraries \subseteq Nat /\ NoLibrary \in Int \ Nat
    /\ Place \in [Types -> Nat]
    /\ \A t, u \in Types : Place[t] = Place[u] => t = u
    /\ Shared \subseteq Types
    /\ Scenarios \subseteq [edits : Nat, commands : Nat, restarts : Nat,
                            feeds : SUBSET (Types \X Libraries)]
    /\ MaxWaiting \in Nat

VARIABLES
    waiting,  \* rows that a claim may take: [type][library] -> number
    running,  \* executions of a type, each with its reservation
    cursor,   \* scheduler_fairness.last_library_id
    toTry,    \* the types the running ClaimAny has still to try
    queue,    \* the overrides in the queue's copy of the policy
    passed,   \* history: [type][l] -> the libraries served since l waits for its turn
    bound     \* what is left of the scenario

claimVars == <<waiting, running, cursor, toTry, passed>>
adminVars == <<policyVars, controlVars, queue>>
vars == <<adminVars, claimVars, bound>>

Init ==
    /\ PolicyInit
    /\ waiting = [t \in Types |-> [l \in Libraries |-> 0]]
    /\ running = [t \in Types |-> 0]
    /\ cursor = [t \in Types |-> NoLibrary]
    /\ toTry = {}
    /\ queue = NoLayer
    /\ passed = [t \in Types |-> [l \in Libraries |-> {}]]
    /\ bound \in Scenarios

-----------------------------------------------------------------------------
(* Claims.                                                                 *)

Buckets(t) == {l \in Libraries : waiting[t][l] > 0}

(* Fault: draining does not hold a type back.                              *)
AdmitsDraining(t) ==
    /\ control[t].state # "paused"
    /\ running[t] < Limit(queue, t)

(* CheckControlState and CheckTypeConcurrency, with the policy of the      *)
(* queue.  What the other types leave of the resource and provider budgets *)
(* is open here, see PassOver; TaskQueue counts them.                      *)
Admits(t) ==
    /\ ~Held(t)
    /\ running[t] < Limit(queue, t)

(* ClaimAny starts with the types that have a row.                         *)
Poll ==
    /\ toTry = {}
    /\ toTry' = {t \in Types : Buckets(t) # {}}
    /\ toTry' # {}
    /\ UNCHANGED <<waiting, running, cursor, passed, adminVars, bound>>

Turn(t) == t \in toTry /\ \A u \in toTry : Place[t] <= Place[u]

(* The library served last has no row any more.                            *)
Restarts(t) == cursor[t] \notin Buckets(t)

(* ClaimWithAdmission takes a row of the library l; the row, the           *)
(* reservation and the cursor are written in one transaction.              *)
Serve(t, l) ==
    /\ Turn(t) /\ Admits(t)
    /\ Buckets(t) # {}
    /\ l = NextBucket(cursor[t], Buckets(t))
    /\ waiting' = [waiting EXCEPT ![t][l] = @ - 1]
    /\ running' = [running EXCEPT ![t] = @ + 1]
    /\ cursor' = [cursor EXCEPT ![t] = l]
    /\ toTry' = {}
    /\ passed' = [passed EXCEPT ![t] =
          [m \in Libraries |->
              IF m = l \/ m \notin Buckets(t) THEN {}
              ELSE (IF Restarts(t) THEN {} ELSE passed[t][m]) \cup {l}]]
    /\ UNCHANGED <<adminVars, bound>>

(* It is blocked, or the rows are gone since the poll.                     *)
PassOver(t) ==
    /\ Turn(t)
    /\ ~Admits(t) \/ t \in Shared \/ Buckets(t) = {}
    /\ toTry' = toTry \ {t}
    /\ UNCHANGED <<waiting, running, cursor, passed, adminVars, bound>>

(* Fault: a reservation is given back a second time.                       *)
EndTwice(t) ==
    /\ running' = [running EXCEPT ![t] = @ - 1]
    /\ UNCHANGED <<waiting, cursor, toTry, passed, adminVars, bound>>

(* An execution ends and gives its reservation back.                       *)
End(t) ==
    /\ running[t] > 0
    /\ running' = [running EXCEPT ![t] = @ - 1]
    /\ UNCHANGED <<waiting, cursor, toTry, passed, adminVars, bound>>

(* A row becomes due: enqueued, unblocked, or to be tried again.           *)
Arrive(t, l) ==
    /\ <<t, l>> \in bound.feeds
    /\ waiting[t][l] < MaxWaiting
    /\ waiting' = [waiting EXCEPT ![t][l] = @ + 1]
    /\ UNCHANGED <<running, cursor, toTry, passed, adminVars, bound>>

(* A waiting row is cancelled, superseded or loses its scan.               *)
Withdraw(t, l) ==
    /\ waiting[t][l] > 0
    /\ waiting' = [waiting EXCEPT ![t][l] = @ - 1]
    /\ passed' = [passed EXCEPT ![t][l] = IF waiting[t][l] = 1 THEN {} ELSE @]
    /\ UNCHANGED <<running, cursor, toTry, adminVars, bound>>

-----------------------------------------------------------------------------
(* Administration and restart.                                             *)

Edit(a) ==
    /\ \/ \E e \in Edits : ReadActive(a, e) /\ bound.edits > 0
                           /\ bound' = [bound EXCEPT !.edits = @ - 1]
       \/ (ReadMemory(a) \/ Apply(a) \/ ApplyUnseen(a) \/ Reject(a) \/ Swap(a))
          /\ UNCHANGED bound
    /\ UNCHANGED <<claimVars, queue>>

Command(a) ==
    /\ \/ \E t \in Types, c \in Commands : \E r \in -1..control[t].revision :
              ReadControl(a, t, c, r) /\ bound.commands > 0
              /\ bound' = [bound EXCEPT !.commands = @ - 1]
       \/ \E t \in Types : t = command[a].type /\ CountLive(a, running[t]) /\ UNCHANGED bound
       \/ WriteControl(a) /\ UNCHANGED bound
    /\ UNCHANGED <<claimVars, queue>>

(* The server dies and starts again: executions and reservations of the    *)
(* dead one are taken back, the queue gets a copy of the reloaded policy.  *)
Restart ==
    /\ bound.restarts > 0
    /\ bound' = [bound EXCEPT !.restarts = @ - 1]
    /\ ReloadPolicy
    /\ queue' = service'
    /\ running' = [t \in Types |-> 0]
    /\ toTry' = {}
    /\ UNCHANGED <<waiting, cursor, passed>>

Dispatch == Poll \/ \E t \in Types : PassOver(t) \/ \E l \in Libraries : Serve(t, l)

Next ==
    \/ Dispatch \/ Restart
    \/ \E t \in Types : End(t) \/ \E l \in Libraries : Arrive(t, l) \/ Withdraw(t, l)
    \/ \E a \in Editors : Edit(a)
    \/ \E a \in Operators : Command(a)

(* The dispatcher polls for ever and every execution ends.                 *)
Fairness == WF_vars(Dispatch) /\ \A t \in Types : WF_vars(End(t))

Safe == Init /\ [][Next]_vars
Spec == Safe /\ Fairness

-----------------------------------------------------------------------------
(* Properties.                                                             *)

(* Every variable has its type: rows, reservations, cursors, revisions and *)
(* calls hold the values the code writes.                                  *)
TypeOK ==
    /\ revisions \in Seq([layer : Layers, edit : EditType])
    /\ started \in 1..Len(revisions) /\ disturbed \in BOOLEAN
    /\ service \in Layers /\ queue \in Layers
    /\ edit \in [Editors -> EditorType]
    /\ control \in [Types -> [state : ControlStates, revision : Nat]]
    /\ command \in [Operators -> OperatorType]
    /\ \A a \in Operators :
        /\ command[a].pc # "idle" => command[a].type \in Types
        /\ command[a].pc = "count" => command[a].target \in Commands
        /\ command[a].pc = "write" => command[a].target \in ControlStates \ {"unset"}
    /\ waiting \in [Types -> [Libraries -> Nat]]
    /\ running \in [Types -> Nat]
    /\ cursor \in [Types -> Libraries \cup {NoLibrary}]
    /\ toTry \subseteq Types
    /\ passed \in [Types -> [Libraries -> SUBSET Libraries]]
    /\ bound \in [edits : Nat, commands : Nat, restarts : Nat,
                  feeds : SUBSET (Types \X Libraries)]

Claimed(t) == running'[t] > running[t]

(* fairnessLibraryCandidate: between two turns of a library, every library *)
(* that waits for the same type gets one, as long as the library served    *)
(* last still has a row; without one the rotation starts over.             *)
SecondTurn(t) ==
    /\ Claimed(t) /\ ~Restarts(t)
    /\ \E m \in Buckets(t) \ {cursor'[t]} : cursor'[t] \in passed[t][m]

NoSecondTurn == [][\A t \in Types : ~SecondTurn(t)]_vars

(* A library that always has a row is served again and again, when its     *)
(* type is the first in the dispatcher's list, is not held, shares no      *)
(* budget, and the rotation does not start over for ever.                  *)
Assured == {t \in Types \ Shared : \A u \in Types : Place[t] <= Place[u]}

BackloggedLibraryServed ==
    \A t \in Assured, l \in Libraries :
        /\ <>[](waiting[t][l] > 0 /\ ~Held(t) /\ Limit(queue, t) > 0)
        /\ <>[][Claimed(t) => ~Restarts(t)]_vars
        => []<><<Claimed(t) /\ cursor'[t] = l>>_vars

(* Control: a type that stays paused or draining comes to rest, whatever   *)
(* was claimed between the count of a drain and its write.                 *)
HeldTypeComesToRest ==
    \A t \in Types : <>[]Held(t) => <>[](running[t] = 0)

(* Service and Queue: the policy in memory is one that was accepted since  *)
(* the start, and claims use the one that was active at the start.         *)
PolicyInForceIsAccepted ==
    /\ \E r \in started..Len(revisions) : service = revisions[r].layer
    /\ queue = revisions[started].layer

(* ApplyRuntimeOverride: when no call is between its commit and its swap,  *)
(* memory holds the active revision, unless a call read memory in that     *)
(* window of another or was abandoned in its own.                          *)
MemoryFollowsRevision ==
    ~disturbed /\ (\A a \in Editors : edit[a].pc # "swap") => service = Active

(* A revision is its predecessor with the change the editor asked for: no  *)
(* limit that another editor set is lost, under the same condition.        *)
OverridesAccumulate ==
    ~disturbed => \A r \in (started + 1)..Len(revisions) :
        revisions[r].layer = Edited(revisions[r - 1].layer, revisions[r].edit)
=============================================================================
