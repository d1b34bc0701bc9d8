--------------------------- MODULE MediaVisibility ---------------------------
(***************************************************************************)
(* What the publication pipeline promises to a viewer of one media item,   *)
(* without runs, steps or queues: the publication state and whether the    *)
(* item has been published (published_at).                                 *)
(*                                                                         *)
(* An item becomes visible only by being published.  Once published it     *)
(* stays published or degraded until a replacement plan gives its          *)
(* visibility up, and it never disappears by the failure or cancellation   *)
(* of work that runs behind a published item.                              *)
(***************************************************************************)

VARIABLES
    state,    \* media.publication_state, "none" before the first plan
    visible   \* media.published_at is set

vars == <<state, visible>>

Shown == {"published", "degraded"}
States == {"none", "processing", "failed", "cancelled"} \cup Shown

Init == state = "none" /\ visible = FALSE

(* A plan that does not preserve visibility.                               *)
Start == state' = "processing" /\ UNCHANGED visible

Publish ==
    /\ state \in Shown \cup {"processing"}
    /\ state' = "published"
    /\ visible' = TRUE

Degrade ==
    /\ state \in Shown
    /\ state' = "degraded"
    /\ UNCHANGED visible

(* The plan fails or its scan is cancelled.  Only a failed repair of an    *)
(* item that had been published keeps the date of its publication.         *)
GiveUp ==
    /\ state = "processing"
    /\ state' \in {"failed", "cancelled"}
    /\ visible' \in {FALSE, visible /\ state' = "failed"}

Settle == Publish \/ GiveUp

Next == Start \/ Settle \/ Degrade

Safe == Init /\ [][Next]_vars
=============================================================================
