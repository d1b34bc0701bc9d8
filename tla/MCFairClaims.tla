---------------------------- MODULE MCFairClaims ----------------------------
(***************************************************************************)
(* A small instance of FairClaims for TLC.                                 *)
(***************************************************************************)
EXTENDS FairClaims, TLC

CONSTANTS poster, encrypt, step, e1, e2, o1, o2

BothTypes == {poster, encrypt}
BaseLimits == (poster :> 1) @@ (encrypt :> 2)
Places == (poster :> 1) @@ (encrypt :> 2)
Sets(k, n) == [NoLayer EXCEPT ![k] = n]

\* Raise one type and age faster, forbid the other type and give up the first,
\* replace everything.
SomeEdits == {
    [replace |-> FALSE, set |-> [Sets(poster, 2) EXCEPT ![step] = 3], clear |-> {}],
    [replace |-> FALSE, set |-> Sets(encrypt, 0), clear |-> {poster}],
    [replace |-> TRUE, set |-> Sets(encrypt, 1), clear |-> {}]}

\* Three libraries take turns; two editors; two operators next to claims.
Rotation == [edits |-> 0, commands |-> 0, restarts |-> 1,
             feeds |-> {poster} \X {0, 1, 2} \cup {<<encrypt, 1>>}]
Editing == [edits |-> 3, commands |-> 0, restarts |-> 1, feeds |-> {<<poster, 1>>}]
Operating == [edits |-> 0, commands |-> 2, restarts |-> 1, feeds |-> {<<encrypt, 1>>}]
ThreeScenarios == {Rotation, Editing, Operating}

NoLib == -1
=============================================================================
