---------------------------- MODULE PolicyControl ----------------------------
(***************************************************************************)
(* What an administrator changes at run time (scheduler.Service): the      *)
(* policy, by revisions that each hold the overrides, and the control      *)
(* state of every task type.  Both calls read, decide and write in         *)
(* separate statements, so calls overlap.                                  *)
(*                                                                         *)
(* Capacities of resources and providers are left out: a restart mixes     *)
(* them with those of config.yml, the service in memory does not.          *)
(***************************************************************************)
EXTENDS Integers, Sequences

CONSTANTS
    Types,         \* task types
    Settings,      \* settings of the priority: aging interval, aging step, ...
    Editors,       \* callers of ApplyRuntimeOverride
    Operators,     \* callers of Control
    Edits,         \* the changes an editor asks for
    BaseLimit,     \* the concurrency limits of config.yml and the defaults
    None           \* no override, no type

Keys == Types \cup Settings
NoLayer == [k \in Keys |-> None]
Layers == [Keys -> Nat \cup {None}]

\* A change: PUT (replace) or PATCH, the values it sets, the limits it clears.
EditType == [replace : BOOLEAN, set : Layers, clear : SUBSET Types]

ASSUME PolicyAssumption ==
    /\ None \notin Nat /\ None \notin Types /\ Types \cap Settings = {}
    /\ BaseLimit \in [Types -> Nat]
    /\ Edits \subseteq EditType

NoEdit == [replace |-> FALSE, set |-> NoLayer, clear |-> {}]

(* ApplyRuntimeOverride: the overrides after the change.  It starts from   *)
(* config.yml and puts back the limits that were overridden before, not    *)
(* the settings: those last until the next change, PATCH or not.           *)
Edited(layer, e) ==
    [k \in Keys |->
        IF ~e.replace /\ k \in e.clear THEN None
        ELSE IF e.set[k] # None THEN e.set[k]
        ELSE IF e.replace \/ k \in Settings THEN None ELSE layer[k]]

(* applyConcurrencyOverridesLayer: the limits that a layer means.          *)
Limit(layer, t) == IF layer[t] # None THEN layer[t] ELSE BaseLimit[t]

VARIABLES
    revisions,  \* scheduler_policy_revision, the last one is active: [layer, edit]
    service,    \* the overrides in memory, Service.policy
    edit,       \* per editor, where its call stands: [pc, expected, change, seen]
    control,    \* scheduler_control: [state, revision], state "unset" if no row
    command,    \* per operator: [pc, type, target, state, revision, expected]
    started,    \* history: the revision that was active at the last start
    disturbed   \* history: since then memory was read in the window of another
                \* call, or a caller went away in its own

policyVars == <<revisions, service, edit, started, disturbed>>
controlVars == <<control, command>>

ControlStates == {"unset", "running", "paused", "draining"}
Commands == {"pause", "resume", "drain"}

\* Where a call stands.
EditorType == [pc : {"idle", "memory", "apply", "swap"}, expected : Nat,
               change : EditType, seen : Layers]
OperatorType == [pc : {"idle", "count", "write"}, type : Types \cup {None},
                 target : Commands \cup ControlStates, state : ControlStates,
                 revision : Nat, expected : Int]

NotEditing == [pc |-> "idle", expected |-> 0, change |-> NoEdit, seen |-> NoLayer]
NoCommand == [pc |-> "idle", type |-> None, target |-> "unset",
              state |-> "unset", revision |-> 0, expected |-> -1]

Active == revisions[Len(revisions)].layer

(* The first start writes the defaults as revision 1.                      *)
PolicyInit ==
    /\ revisions = <<[layer |-> NoLayer, edit |-> NoEdit]>>
    /\ service = NoLayer
    /\ edit = [a \in Editors |-> NotEditing]
    /\ started = 1
    /\ disturbed = FALSE
    /\ control = [t \in Types |-> [state |-> "unset", revision |-> 0]]
    /\ command = [a \in Operators |-> NoCommand]

-----------------------------------------------------------------------------
(* ApplyRuntimeOverride.                                                   *)

(* The caller's expected revision is the active one; a call with any other *)
(* ends here.                                                              *)
ReadActive(a, e) ==
    /\ edit[a].pc = "idle"
    /\ edit' = [edit EXCEPT ![a] = [NotEditing EXCEPT !.pc = "memory",
                                    !.expected = Len(revisions), !.change = e]]
    /\ UNCHANGED <<revisions, service, started, disturbed, controlVars>>

Uninstalled(a) == \E b \in Editors \ {a} : edit[b].pc = "swap"

(* The new layer is built from the policy in memory.                       *)
ReadMemory(a) ==
    /\ edit[a].pc = "memory"
    /\ edit' = [edit EXCEPT ![a].pc = "apply", ![a].seen = service]
    /\ disturbed' = (disturbed \/ Uninstalled(a))
    /\ UNCHANGED <<revisions, service, started, controlVars>>

Result(a) == Edited(edit[a].seen, edit[a].change)

(* Fault: the expected revision is not compared.                           *)
ApplyAnyRevision(a) ==
    /\ edit[a].pc = "apply"
    /\ revisions' = Append(revisions, [layer |-> Result(a), edit |-> edit[a].change])

(* ApplyPolicyRevision, one transaction: the revision is created and made  *)
(* active if the expected one still is.                                    *)
ApplyRevision(a) ==
    /\ edit[a].pc = "apply"
    /\ edit[a].expected = Len(revisions)
    /\ revisions' = Append(revisions, [layer |-> Result(a), edit |-> edit[a].change])

Apply(a) ==
    /\ ApplyRevision(a)
    /\ edit' = [edit EXCEPT ![a].pc = "swap"]
    /\ UNCHANGED <<service, started, disturbed, controlVars>>

(* The caller goes away: the revision is read again with its context after *)
(* the commit, that fails, and memory is never swapped.                    *)
ApplyUnseen(a) ==
    /\ ApplyRevision(a)
    /\ edit' = [edit EXCEPT ![a] = NotEditing]
    /\ disturbed' = TRUE
    /\ UNCHANGED <<service, started, controlVars>>

(* Fault: memory is swapped although the revision was not accepted.        *)
RejectAfterSwap(a) ==
    /\ edit[a].pc = "apply"
    /\ service' = Result(a)
    /\ edit' = [edit EXCEPT ![a] = NotEditing]
    /\ UNCHANGED <<revisions, started, disturbed, controlVars>>

(* RevisionConflictError, or a transaction that failed: nothing is written.*)
Reject(a) ==
    /\ edit[a].pc = "apply"
    /\ edit' = [edit EXCEPT ![a] = NotEditing]
    /\ UNCHANGED <<revisions, service, started, disturbed, controlVars>>

(* SetPolicy.                                                              *)
Swap(a) ==
    /\ edit[a].pc = "swap"
    /\ service' = Result(a)
    /\ edit' = [edit EXCEPT ![a] = NotEditing]
    /\ UNCHANGED <<revisions, started, disturbed, controlVars>>

-----------------------------------------------------------------------------
(* Control.                                                                *)

(* The row of the type is read; -1 expects no revision.                    *)
ReadControl(a, t, c, r) ==
    /\ command[a].pc = "idle"
    /\ command' = [command EXCEPT ![a] =
                      [pc |-> "count", type |-> t, target |-> c, state |-> control[t].state,
                       revision |-> control[t].revision, expected |-> r]]
    /\ UNCHANGED <<policyVars, control>>

Target(c, live) ==
    CASE c = "pause" -> "paused"
      [] c = "resume" -> "running"
      [] c = "drain" -> IF live = 0 THEN "paused" ELSE "draining"

(* The live reservations are counted and the call decided: nothing to do,  *)
(* a conflict, or a write.                                                 *)
CountLive(a, live) ==
    LET c == command[a]
        target == Target(c.target, live)
    IN /\ c.pc = "count"
       /\ command' = [command EXCEPT ![a] =
             IF target = c.state \/ (c.expected >= 0 /\ c.expected # c.revision)
             THEN NoCommand
             ELSE [c EXCEPT !.pc = "write", !.target = target]]
       /\ UNCHANGED <<policyVars, control>>

(* SetControlState.                                                        *)
WriteControl(a) ==
    LET c == command[a]
    IN /\ c.pc = "write"
       /\ control' = [control EXCEPT ![c.type] =
             [state |-> c.target, revision |-> @.revision + 1]]
       /\ command' = [command EXCEPT ![a] = NoCommand]
       /\ UNCHANGED policyVars

(* CheckControlState: the type admits nothing.                             *)
Held(t) == control[t].state \in {"paused", "draining"}

-----------------------------------------------------------------------------
(* The server starts again: the calls are gone, Reload builds the policy   *)
(* from the active revision.                                               *)
ReloadPolicy ==
    /\ service' = Active
    /\ edit' = [a \in Editors |-> NotEditing]
    /\ command' = [a \in Operators |-> NoCommand]
    /\ started' = Len(revisions)
    /\ disturbed' = FALSE
    /\ UNCHANGED <<revisions, control>>
=============================================================================
