----------------------------- MODULE ScanHistory -----------------------------
(***************************************************************************)
(* What a user who reads the list of scans of one library is promised,     *)
(* whatever servers, leases and failures are behind it: scans run one at a *)
(* time, in the order they were accepted; a scan ends once, and how it     *)
(* ended never changes; every scan ends.                                   *)
(***************************************************************************)
EXTENDS Integers

CONSTANTS
    Scans,      \* numbers of scans
    Eventual    \* those that must end: the others may have no successor

VARIABLE seen   \* what the list shows for each scan

States == {"none", "running", "done", "failed", "cancelled", "removed"}
Ended == {"done", "failed", "cancelled"}

Init == seen = [t \in Scans |-> "none"]

(* A scan that starts may put an end to the running one first.             *)
Start(t, end) ==
    /\ seen[t] = "none"
    /\ \A u \in Scans : u < t => seen[u] # "none"
    /\ \A u \in Scans : u > t => seen[u] = "none"
    /\ seen' = [u \in Scans |-> IF u = t THEN "running"
                                ELSE IF seen[u] = "running" THEN end
                                ELSE seen[u]]

End(t, end) ==
    /\ seen[t] = "running"
    /\ seen' = [seen EXCEPT ![t] = end]

Remove(t) ==
    /\ seen[t] \in Ended
    /\ seen' = [seen EXCEPT ![t] = "removed"]

Next ==
    \E t \in Scans :
        \/ \E end \in Ended : Start(t, end) \/ End(t, end)
        \/ Remove(t)

Ending == \A t \in Eventual : seen[t] = "running" ~> seen[t] # "running"

Spec == Init /\ [][Next]_seen /\ Ending
=============================================================================
