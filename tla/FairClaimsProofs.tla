--------------------------- MODULE FairClaimsProofs ---------------------------
(***************************************************************************)
(* Proofs about FairClaims, for any number of types, libraries, editors    *)
(* and operators.                                                          *)
(*                                                                         *)
(* The rotation: the libraries served since one waits for its turn lie, in *)
(* cyclic order, between it and the one served last.  The policy: as long  *)
(* as nothing disturbs, the call that committed last is the only one that  *)
(* has still to swap the memory, and every other one that read the memory  *)
(* before it expects a revision that is no longer active.                  *)
(***************************************************************************)
EXTENDS FairClaims, ClaimOrderProofs

-----------------------------------------------------------------------------
(* Types.                                                                  *)

LEMMA EditedIsLayer ==
  ASSUME NEW layer \in Layers, NEW e \in EditType
  PROVE  Edited(layer, e) \in Layers
BY DEF Edited, Layers, EditType

LEMMA LibraryIds ==
  Libraries \subseteq Nat /\ NoLibrary \in Int /\ NoLibrary < 0 /\ Libraries \cup {NoLibrary} \subseteq Int
<1>1. Libraries \subseteq Nat /\ NoLibrary \in Int /\ NoLibrary \notin Nat
  BY ClaimAssumption
<1> QED
  BY <1>1

LEMMA NoLayerIsLayer == NoLayer \in Layers
BY DEF NoLayer, Layers

PolicyTyped ==
    /\ revisions \in Seq([layer : Layers, edit : EditType])
    /\ started \in 1..Len(revisions) /\ disturbed \in BOOLEAN
    /\ service \in Layers /\ queue \in Layers
    /\ edit \in [Editors -> EditorType]

ControlTyped ==
    /\ control \in [Types -> [state : ControlStates, revision : Nat]]
    /\ command \in [Operators -> OperatorType]
    /\ \A a \in Operators :
        /\ command[a].pc # "idle" => command[a].type \in Types
        /\ command[a].pc = "count" => command[a].target \in Commands
        /\ command[a].pc = "write" => command[a].target \in ControlStates \ {"unset"}

ClaimsTyped ==
    /\ waiting \in [Types -> [Libraries -> Nat]]
    /\ running \in [Types -> Nat]
    /\ cursor \in [Types -> Libraries \cup {NoLibrary}]
    /\ toTry \subseteq Types
    /\ passed \in [Types -> [Libraries -> SUBSET Libraries]]

BoundTyped ==
    bound \in [edits : Nat, commands : Nat, restarts : Nat, feeds : SUBSET (Types \X Libraries)]

LEMMA TypeParts == TypeOK <=> PolicyTyped /\ ControlTyped /\ ClaimsTyped /\ BoundTyped
BY DEF TypeOK, PolicyTyped, ControlTyped, ClaimsTyped, BoundTyped

LEMMA NotEditingTyped ==
  NotEditing \in EditorType
BY NoLayerIsLayer DEF NotEditing, NoEdit, EditType, EditorType

LEMMA NoCommandTyped ==
  NoCommand \in OperatorType
BY DEF NoCommand, ControlStates, OperatorType

LEMMA InitTyped == Init => TypeOK
<1> SUFFICES ASSUME Init PROVE TypeOK
  OBVIOUS
<1>1. PolicyTyped
  <2>1. NoEdit \in EditType
    BY NoLayerIsLayer DEF NoEdit, EditType
  <2>2. revisions \in Seq([layer : Layers, edit : EditType]) /\ Len(revisions) = 1
    BY <2>1, NoLayerIsLayer DEF Init, PolicyInit
  <2>3. edit \in [Editors -> EditorType]
    BY NotEditingTyped DEF Init, PolicyInit
  <2>4. started \in 1..Len(revisions)
    BY <2>2 DEF Init, PolicyInit
  <2>6. disturbed \in BOOLEAN
    BY DEF Init, PolicyInit
  <2>5. service \in Layers /\ queue \in Layers
    BY NoLayerIsLayer DEF Init, PolicyInit
  <2> QED
    BY <2>2, <2>3, <2>4, <2>5, <2>6 DEF PolicyTyped
<1>2. ControlTyped
  BY NoCommandTyped DEF Init, PolicyInit, ControlTyped, ControlStates, NoCommand
<1>3. ClaimsTyped
  BY DEF Init, ClaimsTyped
<1>4. BoundTyped
  BY ClaimAssumption DEF Init, BoundTyped
<1> QED
  BY <1>1, <1>2, <1>3, <1>4, TypeParts

LEMMA ResultIsLayer ==
  ASSUME PolicyTyped, NEW a \in Editors
  PROVE  Result(a) \in Layers /\ edit[a].change \in EditType
BY EditedIsLayer DEF PolicyTyped, EditorType, Result

LEMMA EditTyped ==
  ASSUME TypeOK, NEW a \in Editors, Edit(a)
  PROVE  TypeOK'
<1>0. PolicyTyped /\ ControlTyped /\ ClaimsTyped /\ BoundTyped
  BY TypeParts
<1>1. ClaimsTyped' /\ ControlTyped'
  BY <1>0 DEF Edit, ReadActive, ReadMemory, Apply, ApplyUnseen, ApplyRevision, Reject, Swap,
     claimVars, controlVars, ClaimsTyped, ControlTyped
<1>2. BoundTyped'
  BY <1>0 DEF Edit, BoundTyped
<1>l. Len(revisions) \in Nat
  BY <1>0 DEF PolicyTyped
<1>q. UNCHANGED queue
  BY DEF Edit
<1>e. ASSUME NEW c \in EditorType, edit' = [edit EXCEPT ![a] = c]
      PROVE  edit' \in [Editors -> EditorType]
  BY <1>0, <1>e DEF PolicyTyped
<1>3. ASSUME NEW e \in Edits, ReadActive(a, e) PROVE PolicyTyped'
  <2>1. e \in EditType
    BY PolicyAssumption
  <2>2. [NotEditing EXCEPT !.pc = "memory", !.expected = Len(revisions), !.change = e] \in EditorType
    BY <1>l, <2>1, NotEditingTyped DEF EditorType
  <2>3. edit' \in [Editors -> EditorType]
    BY <1>3, <1>e, <2>2 DEF ReadActive
  <2> QED
    BY <1>0, <1>3, <1>q, <2>3 DEF ReadActive, PolicyTyped
<1>4. ASSUME ReadMemory(a) PROVE PolicyTyped'
  <2>1. edit' \in [Editors -> EditorType]
    BY <1>0, <1>4 DEF ReadMemory, PolicyTyped, EditorType
  <2>2. disturbed' \in BOOLEAN
    BY <1>4 DEF ReadMemory
  <2> QED
    BY <1>0, <1>4, <1>q, <2>1, <2>2 DEF ReadMemory, PolicyTyped
<1>5. ASSUME ApplyRevision(a)
      PROVE  revisions' \in Seq([layer : Layers, edit : EditType]) /\ started \in 1..Len(revisions')
  <2>1. [layer |-> Result(a), edit |-> edit[a].change] \in [layer : Layers, edit : EditType]
    BY <1>0, ResultIsLayer
  <2> QED
    BY <1>0, <1>5, <2>1 DEF ApplyRevision, PolicyTyped
<1>6. ASSUME Apply(a) PROVE PolicyTyped'
  <2>1. edit' \in [Editors -> EditorType]
    BY <1>0, <1>6 DEF Apply, PolicyTyped, EditorType
  <2> QED
    BY <1>0, <1>5, <1>6, <1>q, <2>1 DEF Apply, PolicyTyped
<1>n. ASSUME edit' = [edit EXCEPT ![a] = NotEditing] PROVE edit' \in [Editors -> EditorType]
  BY <1>e, <1>n, NotEditingTyped
<1>7. ASSUME ApplyUnseen(a) PROVE PolicyTyped'
  BY <1>0, <1>5, <1>7, <1>q, <1>n DEF ApplyUnseen, PolicyTyped
<1>8. ASSUME Reject(a) PROVE PolicyTyped'
  BY <1>0, <1>8, <1>q, <1>n DEF Reject, PolicyTyped
<1>9. ASSUME Swap(a) PROVE PolicyTyped'
  BY <1>0, <1>9, <1>q, <1>n, ResultIsLayer DEF Swap, PolicyTyped
<1>10. PolicyTyped'
  BY <1>3, <1>4, <1>6, <1>7, <1>8, <1>9 DEF Edit
<1> QED
  BY <1>1, <1>2, <1>10 DEF TypeOK, PolicyTyped, ControlTyped, ClaimsTyped, BoundTyped

LEMMA CommandTyped ==
  ASSUME TypeOK, NEW a \in Operators, Command(a)
  PROVE  TypeOK'
<1>0. PolicyTyped /\ ControlTyped /\ ClaimsTyped /\ BoundTyped
  BY TypeParts
<1>1. ClaimsTyped' /\ PolicyTyped'
  BY <1>0 DEF Command, ReadControl, CountLive, WriteControl, claimVars, policyVars,
     ClaimsTyped, PolicyTyped
<1>2. BoundTyped'
  BY <1>0 DEF Command, BoundTyped
<1> DEFINE Fits(c) ==
      /\ c \in OperatorType
      /\ c.pc # "idle" => c.type \in Types
      /\ c.pc = "count" => c.target \in Commands
      /\ c.pc = "write" => c.target \in ControlStates \ {"unset"}
<1>f. Fits(NoCommand)
  BY NoCommandTyped DEF NoCommand
<1>o. \A b \in Operators : Fits(command[b])
  BY <1>0 DEF ControlTyped
<1>c. ASSUME NEW c, Fits(c), command' = [command EXCEPT ![a] = c],
             control' \in [Types -> [state : ControlStates, revision : Nat]]
      PROVE  ControlTyped'
  <2> HIDE DEF Fits
  <2>1. command' \in [Operators -> OperatorType]
    BY <1>0, <1>c DEF ControlTyped, Fits
  <2>2. \A b \in Operators : Fits(command'[b])
    BY <1>0, <1>c, <1>o DEF ControlTyped
  <2> QED
    BY <1>c, <2>1, <2>2 DEF ControlTyped, Fits
<1>3. ASSUME NEW t \in Types, NEW k \in Commands, NEW r \in -1..control[t].revision,
             ReadControl(a, t, k, r)
      PROVE  ControlTyped'
  <2> DEFINE c == [pc |-> "count", type |-> t, target |-> k, state |-> control[t].state,
                   revision |-> control[t].revision, expected |-> r]
  <2>1. control[t] \in [state : ControlStates, revision : Nat]
    BY <1>0 DEF ControlTyped
  <2>2. Fits(c)
    BY <2>1 DEF OperatorType
  <2>3. command' = [command EXCEPT ![a] = c] /\ control' = control
    BY <1>3 DEF ReadControl
  <2> HIDE DEF c, Fits
  <2> QED
    BY <1>0, <1>c, <2>2, <2>3 DEF ControlTyped
<1>4. ASSUME NEW live, CountLive(a, live) PROVE ControlTyped'
  <2>1. Fits(command[a]) /\ command[a].pc = "count"
    BY <1>4, <1>o DEF CountLive
  <2> DEFINE target == Target(command[a].target, live)
             w == [command[a] EXCEPT !.pc = "write", !.target = target]
  <2>2. target \in ControlStates \ {"unset"}
    BY <2>1 DEF Target, Commands, ControlStates
  <2>3. Fits(w)
    BY <2>1, <2>2 DEF OperatorType
  <2>4. control' = control /\ \E c \in {NoCommand, w} : command' = [command EXCEPT ![a] = c]
    BY <1>4 DEF CountLive
  <2> HIDE DEF w, Fits
  <2> QED
    BY <1>0, <1>c, <1>f, <2>3, <2>4 DEF ControlTyped
<1>5. ASSUME WriteControl(a) PROVE ControlTyped'
  <2>1. Fits(command[a]) /\ command[a].pc = "write"
    BY <1>5, <1>o DEF WriteControl
  <2>2. control' \in [Types -> [state : ControlStates, revision : Nat]]
    BY <1>0, <1>5, <2>1 DEF WriteControl, ControlTyped
  <2>3. command' = [command EXCEPT ![a] = NoCommand]
    BY <1>5 DEF WriteControl
  <2> HIDE DEF Fits
  <2> QED
    BY <1>c, <1>f, <2>2, <2>3
<1>6. ControlTyped'
  <2> HIDE DEF Fits
  <2> QED
    BY <1>3, <1>4, <1>5 DEF Command
<1> QED
  BY <1>1, <1>2, <1>6 DEF TypeOK, PolicyTyped, ControlTyped, ClaimsTyped, BoundTyped

LEMMA RestartTyped ==
  ASSUME TypeOK, Restart
  PROVE  TypeOK'
<1>0. PolicyTyped /\ ControlTyped /\ ClaimsTyped /\ BoundTyped
  BY TypeParts
<1>1. ClaimsTyped'
  BY <1>0 DEF Restart, ClaimsTyped
<1>2. BoundTyped'
  BY <1>0 DEF Restart, BoundTyped
<1>3. control' = control /\ command' = [a \in Operators |-> NoCommand]
  BY DEF Restart, ReloadPolicy
<1>4. ControlTyped'
  BY <1>0, <1>3, NoCommandTyped DEF ControlTyped, NoCommand
<1>5. /\ revisions' = revisions /\ started' = Len(revisions) /\ disturbed' = FALSE
      /\ service' = Active /\ queue' = Active /\ edit' = [a \in Editors |-> NotEditing]
  BY DEF Restart, ReloadPolicy
<1>6. Len(revisions) \in 1..Len(revisions) /\ Active \in Layers
  <2>1. revisions \in Seq([layer : Layers, edit : EditType]) /\ started \in 1..Len(revisions)
    BY <1>0 DEF PolicyTyped
  <2>2. Len(revisions) \in 1..Len(revisions)
    BY <2>1
  <2> DEFINE R == [layer : Layers, edit : EditType]
  <2>3. revisions[Len(revisions)] \in R
    <3>1. revisions \in Seq(R)
      BY <2>1
    <3> HIDE DEF R
    <3> QED
      BY <2>2, <3>1
  <2> QED
    BY <2>2, <2>3 DEF Active
<1>7. PolicyTyped'
  <2>1. revisions' \in Seq([layer : Layers, edit : EditType])
    BY <1>0, <1>5 DEF PolicyTyped
  <2>2. started' \in 1..Len(revisions')
    <3>1. started' = Len(revisions) /\ revisions' = revisions
      BY <1>5
    <3> QED
      BY <1>6, <3>1
  <2>5. disturbed' \in BOOLEAN
    BY <1>5
  <2>3. service' \in Layers /\ queue' \in Layers
    BY <1>5, <1>6
  <2>4. edit' \in [Editors -> EditorType]
    BY <1>5, NotEditingTyped
  <2> QED
    BY <2>1, <2>2, <2>3, <2>4, <2>5 DEF PolicyTyped
<1> QED
  BY <1>1, <1>2, <1>4, <1>7 DEF TypeOK, PolicyTyped, ControlTyped, ClaimsTyped, BoundTyped

LEMMA ClaimStepTyped ==
  ASSUME TypeOK, NEW t \in Types, NEW l \in Libraries,
         Serve(t, l) \/ Arrive(t, l) \/ Withdraw(t, l)
  PROVE  TypeOK'
<1>0. PolicyTyped /\ ControlTyped /\ ClaimsTyped /\ BoundTyped
  BY TypeParts
<1>1. UNCHANGED <<adminVars, bound>>
  BY DEF Serve, Arrive, Withdraw
<1>2. PolicyTyped' /\ ControlTyped' /\ BoundTyped'
  BY <1>0, <1>1 DEF adminVars, policyVars, controlVars, PolicyTyped, ControlTyped, BoundTyped
<1> USE DEF ClaimsTyped
<1>4. ASSUME Serve(t, l) PROVE ClaimsTyped'
  <2>1. l \in Buckets(t)
    <3>1. cursor[t] \in Libraries \cup {NoLibrary}
      BY <1>0
    <3>2. cursor[t] \in Int
      BY <3>1, LibraryIds
    <3>3. Buckets(t) \subseteq Nat
      BY LibraryIds DEF Buckets
    <3>4. Buckets(t) # {} /\ l = NextBucket(cursor[t], Buckets(t))
      BY <1>4 DEF Serve
    <3> QED
      BY <3>2, <3>3, <3>4, NextInRotation
  <2>2. waiting' \in [Types -> [Libraries -> Nat]]
    <3>1. waiting[t][l] - 1 \in Nat
      BY <1>0, <2>1 DEF Buckets
    <3> QED
      BY <1>0, <1>4, <3>1 DEF Serve
  <2>3. passed' \in [Types -> [Libraries -> SUBSET Libraries]]
    <3> DEFINE f == [m \in Libraries |->
                      IF m = l \/ m \notin Buckets(t) THEN {}
                      ELSE (IF Restarts(t) THEN {} ELSE passed[t][m]) \cup {l}]
    <3>1. f \in [Libraries -> SUBSET Libraries]
      BY <1>0
    <3>2. passed' = [passed EXCEPT ![t] = f]
      BY <1>4 DEF Serve
    <3> HIDE DEF f
    <3> QED
      BY <1>0, <3>1, <3>2
  <2>4. running' \in [Types -> Nat] /\ cursor' \in [Types -> Libraries \cup {NoLibrary}]
    BY <1>0, <1>4 DEF Serve
  <2>5. toTry' \subseteq Types
    BY <1>4 DEF Serve
  <2> QED
    BY <2>2, <2>3, <2>4, <2>5
<1>6. ASSUME Arrive(t, l) PROVE ClaimsTyped'
  BY <1>0, <1>6 DEF Arrive
<1>7. ASSUME Withdraw(t, l) PROVE ClaimsTyped'
  <2>1. waiting[t][l] - 1 \in Nat /\ waiting' = [waiting EXCEPT ![t][l] = waiting[t][l] - 1]
    BY <1>0, <1>7 DEF Withdraw
  <2>2. waiting' \in [Types -> [Libraries -> Nat]]
    BY <1>0, <2>1
  <2>3. passed' \in [Types -> [Libraries -> SUBSET Libraries]]
    BY <1>0, <1>7 DEF Withdraw
  <2> QED
    BY <1>0, <1>7, <2>2, <2>3 DEF Withdraw
<1> QED
  BY <1>2, <1>4, <1>6, <1>7
     DEF TypeOK, PolicyTyped, ControlTyped, BoundTyped

LEMMA PollTyped ==
  ASSUME TypeOK, Poll \/ \E t \in Types : PassOver(t) \/ End(t)
  PROVE  TypeOK'
<1>0. PolicyTyped /\ ControlTyped /\ ClaimsTyped /\ BoundTyped
  BY TypeParts
<1>1. UNCHANGED <<adminVars, bound>>
  BY DEF Poll, PassOver, End
<1>2. PolicyTyped' /\ ControlTyped' /\ BoundTyped'
  BY <1>0, <1>1 DEF adminVars, policyVars, controlVars, PolicyTyped, ControlTyped, BoundTyped
<1>3. ASSUME Poll \/ \E t \in Types : PassOver(t) PROVE ClaimsTyped'
  BY <1>0, <1>3 DEF Poll, PassOver, ClaimsTyped
<1>4. ASSUME NEW t \in Types, End(t) PROVE ClaimsTyped'
  BY <1>0, <1>4 DEF End, ClaimsTyped
<1> QED
  BY <1>2, <1>3, <1>4 DEF TypeOK, PolicyTyped, ControlTyped, ClaimsTyped, BoundTyped

LEMMA NextTyped ==
  ASSUME TypeOK, [Next]_vars
  PROVE  TypeOK'
<1>1. CASE UNCHANGED vars
  BY <1>1 DEF TypeOK, vars, adminVars, policyVars, controlVars, claimVars
<1>2. CASE Next
  BY <1>2, PollTyped, ClaimStepTyped, RestartTyped, EditTyped, CommandTyped
     DEF Next, Dispatch
<1> QED
  BY <1>1, <1>2

(* Every variable always has its type.                                     *)
THEOREM TypeCorrect == Spec => []TypeOK
<1>1. Safe => []TypeOK
  BY InitTyped, NextTyped, PTL DEF Safe
<1> QED
  BY <1>1, PTL DEF Spec

-----------------------------------------------------------------------------
(* The rotation: since m waits, the libraries served lie on the way from m *)
(* round to the one served last, so that m is passed before any of them    *)
(* gets a second turn.                                                     *)

Between(m, x, c) ==
    \/ m < c /\ m < x /\ x <= c
    \/ c < m /\ (m < x \/ x <= c)

Turns ==
    \A t \in Types, m \in Libraries :
        /\ waiting[t][m] = 0 => passed[t][m] = {}
        /\ \A x \in passed[t][m] : Between(m, x, cursor[t])

LEMMA InitTurns == Init => Turns
BY DEF Init, Turns

LEMMA ServeRotation ==
  ASSUME NEW B, B \subseteq Nat, NEW c \in Int, NEW l \in B, l = NextBucket(c, B),
         NEW m \in B, m # l
  PROVE  /\ Between(m, l, l)
         /\ c \in B => \A x \in Int : Between(m, x, c) => Between(m, x, l) /\ x # l
<1>1. l \in Nat /\ m \in Nat
  OBVIOUS
<1>2. \/ c \in B /\ c < l /\ (m <= c \/ l <= m)
      \/ (c \in B => m <= c /\ l <= c) /\ l <= m
  BY NextInRotation
<1> QED
  BY <1>1, <1>2 DEF Between

LEMMA ServeTurns ==
  ASSUME TypeOK, Turns, NEW t \in Types, NEW l \in Libraries, Serve(t, l)
  PROVE  Turns' /\ ~SecondTurn(t)
<1> DEFINE B == Buckets(t)
           c == cursor[t]
<1>0. /\ waiting \in [Types -> [Libraries -> Nat]]
      /\ cursor \in [Types -> Libraries \cup {NoLibrary}]
      /\ passed \in [Types -> [Libraries -> SUBSET Libraries]]
  BY DEF TypeOK
<1>1. B \subseteq Nat /\ B \subseteq Libraries /\ Libraries \subseteq Nat
  BY LibraryIds DEF Buckets
<1>2. c \in Int
  <2>1. c \in Libraries \cup {NoLibrary}
    BY <1>0
  <2> QED
    BY <2>1, LibraryIds
<1>3. l = NextBucket(c, B) /\ B # {}
  BY DEF Serve
<1>4. l \in B
  BY <1>1, <1>2, <1>3, NextInRotation
<1>5. \A u \in Types : cursor'[u] = IF u = t THEN l ELSE cursor[u]
  BY <1>0 DEF Serve
<1>6. \A u \in Types, m \in Libraries :
        waiting'[u][m] = IF u = t /\ m = l THEN waiting[t][l] - 1 ELSE waiting[u][m]
  BY <1>0 DEF Serve
<1>7. \A u \in Types, m \in Libraries :
        passed'[u][m] = IF u # t THEN passed[u][m]
                        ELSE IF m = l \/ m \notin B THEN {}
                        ELSE (IF Restarts(t) THEN {} ELSE passed[t][m]) \cup {l}
  BY <1>0 DEF Serve
<1>8. Restarts(t) <=> c \notin B
  BY DEF Restarts
<1>9. ASSUME NEW m \in B, m # l
      PROVE  /\ Between(m, l, l)
             /\ c \in B => \A x \in passed[t][m] : Between(m, x, l) /\ x # l
  <2>1. Between(m, l, l) /\ (c \in B => \A x \in Int : Between(m, x, c) => Between(m, x, l) /\ x # l)
    <3> HIDE DEF B, c
    <3> QED
      BY <1>1, <1>2, <1>3, <1>4, <1>9, ServeRotation
  <2>2. m \in Libraries /\ passed[t][m] \subseteq Int
    <3>1. m \in Libraries
      BY <1>1
    <3>2. passed[t][m] \in SUBSET Libraries
      BY <1>0, <3>1
    <3> QED
      BY <3>1, <3>2, LibraryIds
  <2>3. \A x \in passed[t][m] : Between(m, x, c)
    BY <2>2 DEF Turns
  <2> QED
    BY <2>1, <2>2, <2>3
<1>10. Turns'
  <2> SUFFICES ASSUME NEW u \in Types, NEW m \in Libraries
               PROVE  /\ waiting'[u][m] = 0 => passed'[u][m] = {}
                      /\ \A x \in passed'[u][m] : Between(m, x, cursor'[u])
    BY DEF Turns, Between
  <2>1. CASE u # t
    <3>1. waiting'[u][m] = waiting[u][m] /\ passed'[u][m] = passed[u][m] /\ cursor'[u] = cursor[u]
      BY <1>5, <1>6, <1>7, <2>1
    <3>2. /\ waiting[u][m] = 0 => passed[u][m] = {}
          /\ \A x \in passed[u][m] : Between(m, x, cursor[u])
      BY DEF Turns
    <3> QED
      BY <3>1, <3>2
  <2>2. CASE u = t /\ (m = l \/ m \notin B)
    BY <1>7, <2>2
  <2>3. CASE u = t /\ m # l /\ m \in B
    <3>1. waiting'[u][m] = waiting[t][m] /\ waiting[t][m] > 0
      BY <1>6, <2>3 DEF Buckets
    <3>2. passed'[u][m] = (IF Restarts(t) THEN {} ELSE passed[t][m]) \cup {l} /\ cursor'[u] = l
      BY <1>5, <1>7, <2>3
    <3>3. Between(m, l, l) /\ (c \in B => \A x \in passed[t][m] : Between(m, x, l) /\ x # l)
      BY <1>9, <2>3
    <3>4. \A x \in passed'[u][m] : Between(m, x, cursor'[u])
      <4> HIDE DEF B, c
      <4> QED
        BY <1>8, <3>2, <3>3
    <3> QED
      BY <3>1, <3>4
  <2> QED
    BY <2>1, <2>2, <2>3
<1>11. ~SecondTurn(t)
  <2>1. cursor'[t] = l
    BY <1>5
  <2>2. ASSUME ~Restarts(t), NEW m \in B \ {l} PROVE l \notin passed[t][m]
    <3>1. c \in B
      BY <1>8, <2>2
    <3>2. m \in B /\ m # l
      BY <2>2
    <3> QED
      BY <1>9, <3>1, <3>2
  <2> QED
    BY <2>1, <2>2 DEF SecondTurn
<1> QED
  BY <1>10, <1>11

LEMMA OtherTurns ==
  ASSUME TypeOK, Turns, [Next]_vars,
         ~ \E t \in Types, l \in Libraries : Serve(t, l)
  PROVE  Turns' /\ \A t \in Types : ~SecondTurn(t)
<1>0. /\ waiting \in [Types -> [Libraries -> Nat]]
      /\ running \in [Types -> Nat]
      /\ passed \in [Types -> [Libraries -> SUBSET Libraries]]
  BY DEF TypeOK
<1>1. CASE UNCHANGED <<waiting, cursor, passed>> /\ \A t \in Types : ~Claimed(t)
  BY <1>1 DEF Turns, SecondTurn, Between
<1>2. ASSUME NEW u \in Types, NEW l \in Libraries, Arrive(u, l)
      PROVE  Turns' /\ \A t \in Types : ~SecondTurn(t)
  <2>1. \A t \in Types, m \in Libraries :
          waiting'[t][m] = IF t = u /\ m = l THEN waiting[t][m] + 1 ELSE waiting[t][m]
    BY <1>0, <1>2 DEF Arrive
  <2>2. passed' = passed /\ cursor' = cursor /\ running' = running
    BY <1>2 DEF Arrive
  <2>3. \A t \in Types, m \in Libraries : waiting[t][m] \in Nat
    BY <1>0
  <2>4. Turns'
    <3>1. \A t \in Types, m \in Libraries : waiting'[t][m] = 0 => waiting[t][m] = 0
      BY <2>1, <2>3
    <3> QED
      BY <2>2, <3>1 DEF Turns, Between
  <2> QED
    BY <1>0, <2>2, <2>4 DEF SecondTurn, Claimed
<1>3. ASSUME NEW u \in Types, NEW l \in Libraries, Withdraw(u, l)
      PROVE  Turns' /\ \A t \in Types : ~SecondTurn(t)
  <2>1. \A t \in Types, m \in Libraries :
          waiting'[t][m] = IF t = u /\ m = l THEN waiting[t][m] - 1 ELSE waiting[t][m]
    BY <1>0, <1>3 DEF Withdraw
  <2>2. \A t \in Types, m \in Libraries :
          passed'[t][m] = IF t = u /\ m = l /\ waiting[t][m] = 1 THEN {} ELSE passed[t][m]
    BY <1>0, <1>3 DEF Withdraw
  <2>3. cursor' = cursor /\ running' = running
    BY <1>3 DEF Withdraw
  <2>4. Turns'
    <3> SUFFICES ASSUME NEW t \in Types, NEW m \in Libraries
                 PROVE  /\ waiting'[t][m] = 0 => passed'[t][m] = {}
                        /\ \A x \in passed'[t][m] : Between(m, x, cursor[t])
      BY <2>3 DEF Turns, Between
    <3>1. waiting[t][m] \in Nat
      BY <1>0
    <3>2. /\ waiting[t][m] = 0 => passed[t][m] = {}
          /\ \A x \in passed[t][m] : Between(m, x, cursor[t])
      BY DEF Turns
    <3>3. passed'[t][m] \in {{}, passed[t][m]}
      BY <2>2
    <3>4. waiting'[t][m] = 0 => waiting[t][m] = 0 \/ passed'[t][m] = {}
      BY <2>1, <2>2, <3>1
    <3> QED
      BY <3>2, <3>3, <3>4
  <2> QED
    BY <1>0, <2>3, <2>4 DEF SecondTurn, Claimed
<1>4. ASSUME UNCHANGED <<waiting, cursor, passed>>, running' = running
      PROVE  Turns' /\ \A t \in Types : ~SecondTurn(t)
  BY <1>0, <1>1, <1>4 DEF Claimed
<1>5. ASSUME Poll \/ UNCHANGED vars \/ \E t \in Types : PassOver(t)
      PROVE  Turns' /\ \A t \in Types : ~SecondTurn(t)
  BY <1>4, <1>5 DEF Poll, PassOver, vars, claimVars
<1>6. ASSUME (\E a \in Editors : Edit(a)) \/ \E a \in Operators : Command(a)
      PROVE  Turns' /\ \A t \in Types : ~SecondTurn(t)
  BY <1>4, <1>6 DEF Edit, Command, claimVars
<1>7. ASSUME NEW u \in Types, End(u) PROVE Turns' /\ \A t \in Types : ~SecondTurn(t)
  <2>1. \A t \in Types : ~Claimed(t)
    BY <1>0, <1>7 DEF End, Claimed
  <2> QED
    BY <1>1, <1>7, <2>1 DEF End
<1>8. ASSUME Restart PROVE Turns' /\ \A t \in Types : ~SecondTurn(t)
  <2>1. \A t \in Types : ~Claimed(t)
    BY <1>0, <1>8 DEF Restart, Claimed
  <2> QED
    BY <1>1, <1>8, <2>1 DEF Restart
<1> QED
  BY <1>2, <1>3, <1>5, <1>6, <1>7, <1>8 DEF Next, Dispatch

LEMMA NextTurns ==
  ASSUME TypeOK, Turns, [Next]_vars
  PROVE  Turns' /\ \A t \in Types : ~SecondTurn(t)
<1>1. ASSUME NEW t \in Types, NEW l \in Libraries, Serve(t, l)
      PROVE  Turns' /\ \A u \in Types : ~SecondTurn(u)
  <2>1. Turns' /\ ~SecondTurn(t)
    BY <1>1, ServeTurns
  <2>2. ASSUME NEW u \in Types \ {t} PROVE ~Claimed(u)
    <3>1. running \in [Types -> Nat]
      BY DEF TypeOK
    <3>2. running'[u] = running[u]
      BY <1>1, <2>2, <3>1 DEF Serve
    <3> QED
      BY <3>1, <3>2 DEF Claimed
  <2> QED
    BY <2>1, <2>2 DEF SecondTurn
<1> QED
  BY <1>1, OtherTurns

(* Between two turns of a library every other one with a row gets a turn,  *)
(* as long as the library served last still has a row: whatever arrives,   *)
(* is withdrawn, held back or restarted in between.                        *)
THEOREM RotationCorrect == Spec => NoSecondTurn
<1>1. Init => TypeOK /\ Turns
  BY InitTyped, InitTurns
<1>2. TypeOK /\ Turns /\ [Next]_vars => (TypeOK /\ Turns)'
  BY NextTyped, NextTurns
<1>3. TypeOK /\ Turns /\ [Next]_vars => [\A t \in Types : ~SecondTurn(t)]_vars
  BY NextTurns
<1>4. Safe => [][\A t \in Types : ~SecondTurn(t)]_vars
  BY <1>1, <1>2, <1>3, PTL DEF Safe
<1> QED
  BY <1>4, PTL DEF Spec, NoSecondTurn

-----------------------------------------------------------------------------
(* The policy: what a call is about to install was accepted; and as long   *)
(* as nothing disturbs, one call at a time is between commit and swap, it  *)
(* is the one whose revision is active, and no call that read the memory   *)
(* before it can still be accepted.                                        *)

InForce ==
    /\ PolicyInForceIsAccepted
    /\ \A a \in Editors : edit[a].pc = "swap" =>
        \E r \in started..Len(revisions) : Result(a) = revisions[r].layer

InTurn ==
    /\ MemoryFollowsRevision
    /\ \A a \in Editors : edit[a].pc # "idle" => edit[a].expected <= Len(revisions)
    /\ ~disturbed =>
        /\ \A a \in Editors :
            /\ edit[a].pc = "apply" /\ edit[a].expected = Len(revisions) => edit[a].seen = Active
            /\ edit[a].pc = "swap" => Result(a) = Active
        /\ \A a, b \in Editors : a # b /\ edit[a].pc = "swap" =>
            /\ edit[b].pc # "swap"
            /\ edit[b].pc = "apply" => edit[b].expected < Len(revisions)

PolicyInv == InForce /\ InTurn /\ OverridesAccumulate

LEMMA InitPolicyInv == Init => PolicyInv
<1> SUFFICES ASSUME Init PROVE PolicyInv
  OBVIOUS
<1>1. /\ Len(revisions) = 1 /\ revisions[1].layer = NoLayer /\ started = 1
      /\ service = NoLayer /\ queue = NoLayer
  BY DEF Init, PolicyInit
<1>2. \A a \in Editors : edit[a].pc = "idle"
  BY DEF Init, PolicyInit, NotEditing
<1>3. InForce
  BY <1>1, <1>2 DEF InForce, PolicyInForceIsAccepted
<1>4. InTurn
  BY <1>1, <1>2 DEF InTurn, MemoryFollowsRevision, Active
<1>5. OverridesAccumulate
  BY <1>1 DEF OverridesAccumulate
<1> QED
  BY <1>3, <1>4, <1>5 DEF PolicyInv

LEMMA PolicyFacts ==
  ASSUME TypeOK
  PROVE  /\ Len(revisions) \in Nat /\ started \in 1..Len(revisions)
         /\ revisions \in Seq([layer : Layers, edit : EditType])
         /\ edit \in [Editors -> EditorType]
         /\ \A a \in Editors : edit[a].expected \in Nat
         /\ disturbed \in BOOLEAN
BY DEF TypeOK, EditorType

\* The calls of the others, and those that end, are not changed.
LEMMA CallEnds ==
  ASSUME TypeOK, NEW a \in Editors, edit' = [edit EXCEPT ![a] = NotEditing]
  PROVE  /\ edit'[a].pc = "idle"
         /\ \A b \in Editors : edit'[b].pc # "idle" =>
              b # a /\ edit'[b] = edit[b] /\ Result(b)' = Result(b)
BY PolicyFacts DEF NotEditing, Result

LEMMA Steady ==
  ASSUME PolicyInv, UNCHANGED <<policyVars, queue>>
  PROVE  PolicyInv'
BY DEF PolicyInv, InForce, InTurn, PolicyInForceIsAccepted, MemoryFollowsRevision,
   OverridesAccumulate, policyVars, Result, Active

LEMMA ReadActiveInv ==
  ASSUME TypeOK, PolicyInv, NEW a \in Editors, NEW e \in Edits, ReadActive(a, e), UNCHANGED queue
  PROVE  PolicyInv'
<1>0. Len(revisions) \in Nat /\ edit \in [Editors -> EditorType]
  BY PolicyFacts
<1>1. UNCHANGED <<revisions, service, started, disturbed, queue>>
  BY DEF ReadActive
<1>2. /\ edit'[a].pc = "memory" /\ edit'[a].expected = Len(revisions)
      /\ edit[a].pc = "idle"
      /\ \A b \in Editors \ {a} : edit'[b] = edit[b] /\ Result(b)' = Result(b)
  BY <1>0 DEF ReadActive, NotEditing, Result
<1>3. \A b \in Editors : edit'[b].pc \in {"apply", "swap"} => b # a /\ edit'[b] = edit[b] /\ Result(b)' = Result(b)
  BY <1>2
<1>4. \A b \in Editors : edit[b].pc = "swap" => edit'[b].pc = "swap"
  BY <1>2
<1>5. InForce'
  BY <1>1, <1>3 DEF PolicyInv, InForce, PolicyInForceIsAccepted
<1>6. InTurn'
  <2>1. MemoryFollowsRevision'
    BY <1>1, <1>4 DEF PolicyInv, InTurn, MemoryFollowsRevision, Active
  <2>2. \A b \in Editors : edit'[b].pc # "idle" => edit'[b].expected <= Len(revisions')
    BY <1>0, <1>1, <1>2 DEF PolicyInv, InTurn
  <2> QED
    BY <1>1, <1>3, <2>1, <2>2 DEF PolicyInv, InTurn, Active
<1>7. OverridesAccumulate'
  BY <1>1 DEF PolicyInv, OverridesAccumulate
<1> QED
  BY <1>5, <1>6, <1>7 DEF PolicyInv

LEMMA ReadMemoryInv ==
  ASSUME TypeOK, PolicyInv, NEW a \in Editors, ReadMemory(a), UNCHANGED queue
  PROVE  PolicyInv'
<1>0. Len(revisions) \in Nat /\ edit \in [Editors -> EditorType]
  BY PolicyFacts
<1>1. UNCHANGED <<revisions, service, started, queue>>
  BY DEF ReadMemory
<1>2. /\ edit'[a].pc = "apply" /\ edit'[a].expected = edit[a].expected /\ edit'[a].seen = service
      /\ edit[a].pc = "memory"
      /\ \A b \in Editors \ {a} : edit'[b] = edit[b] /\ Result(b)' = Result(b)
  BY <1>0 DEF ReadMemory, EditorType, Result
<1>3. ~disturbed' => ~disturbed /\ \A b \in Editors : edit[b].pc # "swap"
  BY <1>2 DEF ReadMemory, Uninstalled
<1>4. \A b \in Editors : edit'[b].pc = "swap" => b # a /\ edit[b].pc = "swap" /\ Result(b)' = Result(b)
  BY <1>2
<1>5. InForce'
  BY <1>1, <1>4 DEF PolicyInv, InForce, PolicyInForceIsAccepted
<1>6. InTurn'
  <2>1. ~disturbed' => service = Active /\ service' = Active' /\ Active' = Active
    BY <1>1, <1>3 DEF PolicyInv, InTurn, MemoryFollowsRevision, Active
  <2>2. \A b \in Editors : edit'[b].pc # "idle" => edit'[b].expected <= Len(revisions')
    BY <1>1, <1>2 DEF PolicyInv, InTurn
  <2>3. ~disturbed' => \A b \in Editors : edit'[b].pc # "swap"
    BY <1>3, <1>4
  <2>4. ASSUME ~disturbed', NEW b \in Editors, edit'[b].pc = "apply",
               edit'[b].expected = Len(revisions')
        PROVE  edit'[b].seen = Active'
    BY <1>1, <1>2, <1>3, <2>1, <2>4 DEF PolicyInv, InTurn
  <2>5. MemoryFollowsRevision'
    BY <2>1 DEF MemoryFollowsRevision
  <2> QED
    BY <2>2, <2>3, <2>4, <2>5 DEF InTurn
<1>7. OverridesAccumulate'
  BY <1>1, <1>3 DEF PolicyInv, OverridesAccumulate
<1> QED
  BY <1>5, <1>6, <1>7 DEF PolicyInv

LEMMA ApplyFacts ==
  ASSUME TypeOK, NEW a \in Editors, ApplyRevision(a)
  PROVE  /\ edit[a].pc = "apply" /\ edit[a].expected = Len(revisions)
         /\ Len(revisions') = Len(revisions) + 1
         /\ \A r \in 1..Len(revisions) : revisions'[r] = revisions[r]
         /\ revisions'[Len(revisions) + 1].layer = Result(a)
         /\ revisions'[Len(revisions) + 1].edit = edit[a].change
         /\ Active' = Result(a)
<1>1. revisions' = Append(revisions, [layer |-> Result(a), edit |-> edit[a].change])
  BY DEF ApplyRevision
<1>2. revisions \in Seq([layer : Layers, edit : EditType]) /\ Len(revisions) \in Nat
  BY PolicyFacts
<1>3. [layer |-> Result(a), edit |-> edit[a].change] \in [layer : Layers, edit : EditType]
  BY ResultIsLayer, TypeParts
<1>4. /\ Len(revisions') = Len(revisions) + 1
      /\ \A r \in 1..Len(revisions) : revisions'[r] = revisions[r]
      /\ revisions'[Len(revisions) + 1] = [layer |-> Result(a), edit |-> edit[a].change]
  BY <1>1, <1>2, <1>3
<1> QED
  BY <1>4 DEF ApplyRevision, Active

LEMMA ApplyAccumulates ==
  ASSUME TypeOK, PolicyInv, NEW a \in Editors, ApplyRevision(a), ~disturbed, started' = started
  PROVE  OverridesAccumulate'
<1>1. edit[a].seen = Active
  BY ApplyFacts DEF PolicyInv, InTurn
<1>2. Len(revisions) \in Nat /\ started \in 1..Len(revisions)
  BY PolicyFacts
<1> SUFFICES ASSUME NEW r \in (started + 1)..Len(revisions')
             PROVE  revisions'[r].layer = Edited(revisions'[r - 1].layer, revisions'[r].edit)
  BY DEF OverridesAccumulate
<1>3. r \in Nat /\ r - 1 \in 1..Len(revisions) /\ (r \in 1..Len(revisions) \/ r = Len(revisions) + 1)
  BY <1>2, ApplyFacts
<1>4. CASE r \in 1..Len(revisions)
  <2>1. revisions'[r] = revisions[r] /\ revisions'[r - 1] = revisions[r - 1]
    BY <1>3, <1>4, ApplyFacts
  <2>2. r \in (started + 1)..Len(revisions)
    BY <1>2, <1>3, <1>4
  <2> QED
    BY <2>1, <2>2 DEF PolicyInv, OverridesAccumulate
<1>5. CASE r = Len(revisions) + 1
  <2>1. revisions'[r - 1] = revisions[Len(revisions)]
    BY <1>2, <1>3, <1>5, ApplyFacts
  <2>2. revisions'[r].layer = Edited(edit[a].seen, edit[a].change) /\ revisions'[r].edit = edit[a].change
    BY <1>5, ApplyFacts DEF Result
  <2> QED
    BY <1>1, <2>1, <2>2 DEF Active
<1> QED
  BY <1>3, <1>4, <1>5

LEMMA AcceptedStay ==
  ASSUME TypeOK, PolicyInv, NEW a \in Editors, ApplyRevision(a), UNCHANGED <<service, started, queue>>
  PROVE  /\ PolicyInForceIsAccepted'
         /\ \E r \in started'..Len(revisions') : Result(a) = revisions'[r].layer
         /\ \A b \in Editors : edit[b].pc = "swap" =>
              \E r \in started'..Len(revisions') : Result(b) = revisions'[r].layer
<1>1. Len(revisions) \in Nat /\ started \in 1..Len(revisions)
  BY PolicyFacts
<1>2. Len(revisions') = Len(revisions) + 1
  BY ApplyFacts
<1>3. \A r \in started..Len(revisions) :
        r \in started'..Len(revisions') /\ revisions'[r] = revisions[r]
  <2>1. \A r \in started..Len(revisions) : r \in 1..Len(revisions) /\ r \in started'..Len(revisions')
    BY <1>1, <1>2
  <2> QED
    BY <2>1, ApplyFacts
<1>4. PolicyInForceIsAccepted'
  <2>1. started \in started..Len(revisions) /\ queue = revisions[started].layer
    BY <1>1 DEF PolicyInv, InForce, PolicyInForceIsAccepted
  <2>2. queue' = revisions'[started'].layer
    BY <1>3, <2>1
  <2>3. \E r \in started'..Len(revisions') : service' = revisions'[r].layer
    BY <1>3 DEF PolicyInv, InForce, PolicyInForceIsAccepted
  <2> QED
    BY <2>2, <2>3 DEF PolicyInForceIsAccepted
<1>5. \E r \in started'..Len(revisions') : Result(a) = revisions'[r].layer
  <2>1. Len(revisions) + 1 \in started'..Len(revisions')
    BY <1>1, <1>2
  <2> QED
    BY <2>1, ApplyFacts
<1>6. ASSUME NEW b \in Editors, edit[b].pc = "swap"
      PROVE  \E r \in started'..Len(revisions') : Result(b) = revisions'[r].layer
  BY <1>3, <1>6 DEF PolicyInv, InForce
<1> QED
  BY <1>4, <1>5, <1>6

LEMMA ApplyInv ==
  ASSUME TypeOK, PolicyInv, NEW a \in Editors, Apply(a), UNCHANGED queue
  PROVE  PolicyInv'
<1>0. Len(revisions) \in Nat /\ edit \in [Editors -> EditorType]
      /\ \A b \in Editors : edit[b].expected \in Nat
  BY PolicyFacts
<1>1. ApplyRevision(a) /\ UNCHANGED <<service, started, disturbed, queue>>
  BY DEF Apply
<1>2. /\ edit'[a].pc = "swap" /\ edit'[a].expected = edit[a].expected
      /\ Result(a)' = Result(a)
      /\ \A b \in Editors \ {a} : edit'[b] = edit[b] /\ Result(b)' = Result(b)
  BY <1>0 DEF Apply, EditorType, Result
<1>3. Len(revisions') = Len(revisions) + 1 /\ Active' = Result(a)
      /\ edit[a].pc = "apply" /\ edit[a].expected = Len(revisions)
  BY <1>1, ApplyFacts
<1>4. InForce'
  BY <1>1, <1>2, AcceptedStay DEF InForce
<1>5. InTurn'
  <2>1. MemoryFollowsRevision'
    BY <1>2 DEF MemoryFollowsRevision
  <2>2. \A b \in Editors : edit'[b].pc # "idle" => edit'[b].expected <= Len(revisions)
    BY <1>0, <1>2, <1>3 DEF PolicyInv, InTurn
  <2>3. \A b \in Editors : edit'[b].pc # "idle" => edit'[b].expected < Len(revisions')
    <3>1. \A b \in Editors : edit'[b].expected \in Nat
      BY <1>0, <1>2
    <3> QED
      BY <1>0, <1>3, <2>2, <3>1
  <2>4. \A b \in Editors : edit'[b].pc # "idle" =>
          edit'[b].expected <= Len(revisions') /\ edit'[b].expected # Len(revisions')
    <3>1. \A b \in Editors : edit'[b].expected \in Nat
      BY <1>0, <1>2
    <3> QED
      BY <1>0, <1>3, <2>3, <3>1
  <2>5. ~disturbed => \A b \in Editors \ {a} : edit[b].pc # "swap"
    <3> SUFFICES ASSUME ~disturbed, NEW b \in Editors \ {a}, edit[b].pc = "swap" PROVE FALSE
      OBVIOUS
    <3>1. edit[a].expected < Len(revisions)
      BY <1>3 DEF PolicyInv, InTurn
    <3> QED
      BY <1>0, <1>3, <3>1
  <2>6. ~disturbed' => \A b \in Editors : edit'[b].pc = "swap" => b = a
    BY <1>1, <1>2, <2>5
  <2> QED
    BY <1>2, <1>3, <2>1, <2>3, <2>4, <2>6 DEF InTurn
<1>6. OverridesAccumulate'
  BY <1>1, ApplyAccumulates DEF OverridesAccumulate
<1> QED
  BY <1>4, <1>5, <1>6 DEF PolicyInv

LEMMA ApplyUnseenInv ==
  ASSUME TypeOK, PolicyInv, NEW a \in Editors, ApplyUnseen(a), UNCHANGED queue
  PROVE  PolicyInv'
<1>0. Len(revisions) \in Nat /\ \A b \in Editors : edit[b].expected \in Nat
  BY PolicyFacts
<1>1. ApplyRevision(a) /\ UNCHANGED <<service, started, queue>> /\ disturbed'
      /\ edit' = [edit EXCEPT ![a] = NotEditing]
  BY DEF ApplyUnseen
<1>2. Len(revisions') = Len(revisions) + 1
  BY <1>1, ApplyFacts
<1>3. InForce'
  <2>1. \A b \in Editors : edit'[b].pc = "swap" => edit[b].pc = "swap" /\ Result(b)' = Result(b)
    BY <1>1, CallEnds
  <2> QED
    BY <1>1, <2>1, AcceptedStay DEF InForce
<1>4. InTurn'
  <2>1. \A b \in Editors : edit'[b].pc # "idle" => edit'[b].expected <= Len(revisions')
    <3>1. \A b \in Editors : edit'[b].pc # "idle" =>
            edit'[b].expected = edit[b].expected /\ edit[b].expected <= Len(revisions)
      BY <1>1, CallEnds DEF PolicyInv, InTurn
    <3> QED
      BY <1>0, <1>2, <3>1
  <2> QED
    BY <1>1, <2>1 DEF InTurn, MemoryFollowsRevision
<1>5. OverridesAccumulate'
  BY <1>1 DEF OverridesAccumulate
<1> QED
  BY <1>3, <1>4, <1>5 DEF PolicyInv

LEMMA RejectInv ==
  ASSUME TypeOK, PolicyInv, NEW a \in Editors, Reject(a), UNCHANGED queue
  PROVE  PolicyInv'
<1>1. /\ UNCHANGED <<revisions, service, started, disturbed, queue>>
      /\ edit[a].pc = "apply" /\ edit' = [edit EXCEPT ![a] = NotEditing]
  BY DEF Reject
<1>2. \A b \in Editors : edit'[b].pc # "idle" => edit'[b] = edit[b] /\ Result(b)' = Result(b)
  BY <1>1, CallEnds
<1>3. \A b \in Editors : edit[b].pc = "swap" => edit'[b].pc = "swap"
  BY <1>1, PolicyFacts
<1>4. InForce'
  BY <1>1, <1>2 DEF PolicyInv, InForce, PolicyInForceIsAccepted
<1>5. InTurn'
  <2>1. MemoryFollowsRevision'
    BY <1>1, <1>3 DEF PolicyInv, InTurn, MemoryFollowsRevision, Active
  <2> QED
    BY <1>1, <1>2, <2>1 DEF PolicyInv, InTurn, Active
<1>6. OverridesAccumulate'
  BY <1>1 DEF PolicyInv, OverridesAccumulate
<1> QED
  BY <1>4, <1>5, <1>6 DEF PolicyInv

LEMMA SwapInv ==
  ASSUME TypeOK, PolicyInv, NEW a \in Editors, Swap(a), UNCHANGED queue
  PROVE  PolicyInv'
<1>1. /\ UNCHANGED <<revisions, started, disturbed, queue>>
      /\ edit[a].pc = "swap" /\ edit' = [edit EXCEPT ![a] = NotEditing]
      /\ service' = Result(a)
  BY DEF Swap
<1>2. \A b \in Editors : edit'[b].pc # "idle" => b # a /\ edit'[b] = edit[b] /\ Result(b)' = Result(b)
  BY <1>1, CallEnds
<1>4. InForce'
  BY <1>1, <1>2 DEF PolicyInv, InForce, PolicyInForceIsAccepted
<1>5. InTurn'
  <2>1. MemoryFollowsRevision'
    BY <1>1 DEF PolicyInv, InTurn, MemoryFollowsRevision, Active
  <2> QED
    BY <1>1, <1>2, <2>1 DEF PolicyInv, InTurn, Active
<1>6. OverridesAccumulate'
  BY <1>1 DEF PolicyInv, OverridesAccumulate
<1> QED
  BY <1>4, <1>5, <1>6 DEF PolicyInv

LEMMA RestartInv ==
  ASSUME TypeOK, PolicyInv, Restart
  PROVE  PolicyInv'
<1>0. Len(revisions) \in Nat /\ started \in 1..Len(revisions)
  BY PolicyFacts
<1>1. /\ revisions' = revisions /\ started' = Len(revisions)
      /\ service' = Active /\ queue' = Active /\ edit' = [a \in Editors |-> NotEditing]
  BY DEF Restart, ReloadPolicy
<1>2. \A a \in Editors : edit'[a].pc = "idle"
  BY <1>1 DEF NotEditing
<1>3. InForce'
  BY <1>0, <1>1, <1>2 DEF InForce, PolicyInForceIsAccepted, Active
<1>4. InTurn'
  BY <1>1, <1>2 DEF InTurn, MemoryFollowsRevision, Active
<1>5. OverridesAccumulate'
  BY <1>0, <1>1 DEF OverridesAccumulate
<1> QED
  BY <1>3, <1>4, <1>5 DEF PolicyInv

LEMMA NextPolicyInv ==
  ASSUME TypeOK, PolicyInv, [Next]_vars
  PROVE  PolicyInv'
<1>1. CASE UNCHANGED <<policyVars, queue>>
  BY <1>1, Steady
<1>2. ASSUME NEW a \in Editors, Edit(a) PROVE PolicyInv'
  <2>1. UNCHANGED queue
    BY <1>2 DEF Edit
  <2>2. \/ \E e \in Edits : ReadActive(a, e)
        \/ ReadMemory(a) \/ Apply(a) \/ ApplyUnseen(a) \/ Reject(a) \/ Swap(a)
    BY <1>2 DEF Edit
  <2> QED
    BY <2>1, <2>2, ReadActiveInv, ReadMemoryInv, ApplyInv, ApplyUnseenInv, RejectInv, SwapInv
<1>3. CASE Restart
  BY <1>3, RestartInv
<1>4. ASSUME NEW a \in Operators, Command(a) PROVE UNCHANGED <<policyVars, queue>>
  BY <1>4 DEF Command, ReadControl, CountLive, WriteControl, policyVars
<1>5. ASSUME Dispatch \/ \E t \in Types : End(t) \/ \E l \in Libraries : Arrive(t, l) \/ Withdraw(t, l)
      PROVE  UNCHANGED <<policyVars, queue>>
  BY <1>5 DEF Dispatch, Poll, PassOver, Serve, End, Arrive, Withdraw, adminVars
<1>6. CASE UNCHANGED vars
  BY <1>1, <1>6 DEF vars, adminVars
<1> QED
  BY <1>1, <1>2, <1>3, <1>4, <1>5, <1>6 DEF Next

LEMMA PolicyInvariant == Spec => []PolicyInv
<1>1. Init => TypeOK /\ PolicyInv
  BY InitTyped, InitPolicyInv
<1>2. TypeOK /\ PolicyInv /\ [Next]_vars => (TypeOK /\ PolicyInv)'
  BY NextTyped, NextPolicyInv
<1>3. Safe => []PolicyInv
  BY <1>1, <1>2, PTL DEF Safe
<1> QED
  BY <1>3, PTL DEF Spec

(* Whoever edits, gives up and restarts: the service only ever uses a      *)
(* policy that was accepted since the start, and claims the one of the     *)
(* start.                                                                  *)
THEOREM InForceCorrect == Spec => []PolicyInForceIsAccepted
<1>1. PolicyInv => PolicyInForceIsAccepted
  BY DEF PolicyInv, InForce
<1> QED
  BY <1>1, PolicyInvariant, PTL

(* If no call read the memory in the window of another or was abandoned in *)
(* its own, memory holds the active revision between the calls.            *)
THEOREM MemoryCorrect == Spec => []MemoryFollowsRevision
<1>1. PolicyInv => MemoryFollowsRevision
  BY DEF PolicyInv, InTurn
<1> QED
  BY <1>1, PolicyInvariant, PTL

(* Under the same condition every revision is the one before it with the   *)
(* change that was asked for: no limit another editor set is lost.         *)
THEOREM OverridesCorrect == Spec => []OverridesAccumulate
<1>1. PolicyInv => OverridesAccumulate
  BY DEF PolicyInv
<1> QED
  BY <1>1, PolicyInvariant, PTL
=============================================================================
