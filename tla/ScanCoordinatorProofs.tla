------------------------ MODULE ScanCoordinatorProofs ------------------------
(***************************************************************************)
(* Proofs about ScanCoordinator, for any number of servers and scans.      *)
(*                                                                         *)
(* A goroutine, its row in the table of settlements and a recovery loop    *)
(* may all come to settle one scan.  The argument is that only the last    *)
(* scan accepted can hold the lease, that it is running then, and that the *)
(* three are at work one after the other as long as it does.               *)
(***************************************************************************)
EXTENDS ScanCoordinator, TLAPS

(* A goroutine is alive in a process or in none; it exists once its scan   *)
(* was accepted, and a scan that is to be settled has a status to get.     *)
Goroutines ==
    \A t \in Scans :
        /\ phase[t] \in Alive <=> server[t] # NoServer
        /\ status[t] = "none" => phase[t] = "none" /\ ~cancelled[t]
        /\ status[t] = "removed" => ~cancelled[t]
        /\ rec[t] => phase[t] = "gone"
        /\ rec[t] \/ phase[t] \in {"closing", "unsettled"} => wanted[t] \in Ended

(* The lease is the last scan's, and that one is running.                  *)
Leases ==
    /\ \A t \in Scans : lease = t => status[t] = "running" /\ \A u \in Scans : u > t => status[u] = "none"
    /\ \A t, u \in Scans : u < t /\ status[t] # "none" => status[u] # "none"

(* A recovery loop works on a scan whose goroutine is gone.                *)
Loops ==
    \A s \in Servers :
        worker[s].pc # "idle" =>
            /\ worker[s].scan \in Scans
            /\ phase[worker[s].scan] = "gone"
            /\ worker[s].pc = "settled" => lease # worker[s].scan

Inv ==
    /\ TypeOK /\ Goroutines /\ Leases /\ Loops
    /\ RunningHoldsLease /\ NothingIsLeftBehind

-----------------------------------------------------------------------------
(* Settling.                                                               *)

(* The part of the state that a settlement changes, and the promise.       *)
ScansInv ==
    /\ status \in [Scans -> {"none", "running", "removed"} \cup Ended]
    /\ cancelled \in [Scans -> BOOLEAN]
    /\ lease \in {0} \cup Scans /\ lapsed \in BOOLEAN
    /\ \A t \in Scans : status[t] \in {"none", "removed"} => ~cancelled[t]
    /\ Leases /\ RunningHoldsLease

LEMMA SettleScans ==
  ASSUME ScansInv, NEW t \in Scans, NEW want \in Ended, Settle(t, want)
  PROVE  /\ ScansInv'
         /\ lease' = 0
         /\ \A u \in Scans : /\ status'[u] = "none" <=> status[u] = "none"
                             /\ status'[u] = "removed" <=> status[u] = "removed"
<1> USE DEF ScansInv, Settle, Ended
<1>t. t # 0
  BY BoundAssumption DEF Scans
<1>1. status' \in [Scans -> {"none", "running", "removed"} \cup Ended]
  OBVIOUS
<1>2. cancelled' \in [Scans -> BOOLEAN]
  OBVIOUS
<1>3. \A u \in Scans : /\ status'[u] = "none" <=> status[u] = "none"
                       /\ status'[u] = "removed" <=> status[u] = "removed"
  BY DEF Leases
<1>4. \A u \in Scans : status'[u] \in {"none", "removed"} => ~cancelled'[u]
  BY <1>3 DEF Leases
<1>5. Leases'
  BY <1>3, BoundAssumption DEF Leases, Scans
<1>6. RunningHoldsLease'
  BY <1>t DEF RunningHoldsLease, Leases
<1> QED BY <1>1, <1>2, <1>3, <1>4, <1>5, <1>6

LEMMA InvScans == Inv => ScansInv
BY DEF Inv, ScansInv, TypeOK, Goroutines

-----------------------------------------------------------------------------
(* Every step keeps the invariant.                                         *)

LEMMA InitInv == Init => Inv
<1> SUFFICES ASSUME Init PROVE Inv
  OBVIOUS
<1> USE BoundAssumption DEF Init, Scans
<1>1. TypeOK
  <2>1. \A t \in Scans : lease # t /\ rec[t] = FALSE
    OBVIOUS
  <2>2. worker \in [Servers -> [scan : {0} \cup Scans, pc : {"idle", "claimed", "checked", "settled"}]]
    BY DEF Idle
  <2>3. /\ server \in [Scans -> Servers \cup {NoServer}]
        /\ claim \in [Scans -> Servers \cup {NoServer}]
        /\ phase \in [Scans -> {"none", "gone", "lost"} \cup Alive]
        /\ wanted \in [Scans -> {"none"} \cup Ended]
        /\ status \in [Scans -> {"none", "running", "removed"} \cup Ended]
        /\ outcome \in [Scans -> {"ok", "error"}]
    OBVIOUS
  <2>4. /\ mode \in [Servers -> {"up", "closing", "stopped", "down"}]
        /\ entered \in [Servers -> BOOLEAN]
        /\ downs \in 0..MaxDowns
    OBVIOUS
  <2>5. /\ cancelled \in [Scans -> BOOLEAN] /\ stopped \in [Scans -> BOOLEAN]
        /\ rec \in [Scans -> BOOLEAN] /\ stale \in [Scans -> BOOLEAN]
        /\ lease \in {0} \cup Scans /\ lapsed \in BOOLEAN
    OBVIOUS
  <2> QED BY ONLY <2>1, <2>2, <2>3, <2>4, <2>5 DEF TypeOK
<1>2. Goroutines
  <2> USE DEF Goroutines
  <2> TAKE t \in Scans
  <2>1. /\ phase[t] = "none" /\ server[t] = NoServer
        /\ cancelled[t] = FALSE /\ rec[t] = FALSE
    OBVIOUS
  <2> QED BY <2>1 DEF Alive
<1>3. Leases
  BY DEF Leases
<1>4. Loops
  BY DEF Loops, Idle
<1>5. RunningHoldsLease /\ NothingIsLeftBehind
  BY DEF RunningHoldsLease, NothingIsLeftBehind
<1> QED BY <1>1, <1>2, <1>3, <1>4, <1>5 DEF Inv

(* Submit. *)
LEMMA SubmitInv ==
  ASSUME Inv, NEW s \in Servers, SubmitEnter(s) \/ Submit(s)
  PROVE  Inv'
<1> USE DEF Inv
<1>1. CASE SubmitEnter(s) \/ SubmitExisting(s) \/ SubmitFails(s)
  <2> USE <1>1 DEF SubmitEnter, SubmitExisting, SubmitFails, scans, locals, recovery
  <2>1. TypeOK'
    BY DEF TypeOK
  <2>2. Goroutines'
    BY DEF Goroutines
  <2>3. Leases' /\ Loops' /\ RunningHoldsLease' /\ NothingIsLeftBehind'
    BY DEF Leases, Loops, RunningHoldsLease, NothingIsLeftBehind
  <2> QED BY <2>1, <2>2, <2>3
<1>2. ASSUME NEW t \in Scans, SubmitNew(s, t)
      PROVE  Inv'
  <2> USE <1>2 DEF SubmitNew
  <2>t. t # 0 /\ s # NoServer
    BY BoundAssumption DEF Scans
  <2>o. ~rec[t] /\ phase[t] = "none" /\ ~cancelled[t]
    BY DEF Goroutines
  <2>k. /\ TakenOver \in [Scans -> {"none", "running", "removed"} \cup Ended]
        /\ \A u \in Scans :
              /\ TakenOver[u] = "none" <=> status[u] = "none"
              /\ TakenOver[u] = "removed" <=> status[u] = "removed"
              /\ TakenOver[u] = "running" => status[u] = "running" /\ ~(lapsed /\ lease = u)
    <3>1. CASE lease # 0 /\ lapsed /\ status[lease] = "running"
      <4> DEFINE st == IF cancelled[lease] THEN "cancelled" ELSE "failed"
      <4>1. TakenOver = [status EXCEPT ![lease] = st] /\ st \in Ended
        BY <3>1 DEF TakenOver, Ended
      <4>2. st \notin {"none", "running", "removed"}
        OBVIOUS
      <4> HIDE DEF st
      <4> QED BY <3>1, <4>1, <4>2 DEF TypeOK
    <3>2. CASE ~(lease # 0 /\ lapsed /\ status[lease] = "running")
      <4>1. TakenOver = status
        BY <3>2 DEF TakenOver
      <4> QED BY <3>2, <4>1, BoundAssumption DEF TypeOK, Scans
    <3> QED BY <3>1, <3>2
  <2>1. /\ status' \in [Scans -> {"none", "running", "removed"} \cup Ended]
        /\ status'[t] = "running"
        /\ \A u \in Scans \ {t} :
              /\ status'[u] = "none" <=> status[u] = "none"
              /\ status'[u] = "removed" <=> status[u] = "removed"
              /\ status'[u] = "running" => status[u] = "running" /\ ~(lapsed /\ lease = u)
    BY <2>k
  <2>2. TypeOK'
    BY <2>1, <2>o DEF TypeOK, Alive, recovery
  <2>3. Goroutines'
    <3> SUFFICES ASSUME NEW u \in Scans
                 PROVE  Goroutines!(u)'
      BY DEF Goroutines
    <3>1. CASE u = t
      BY <3>1, <2>1, <2>o, <2>t DEF Goroutines, TypeOK, Alive, recovery
    <3>2. CASE u # t
      BY <3>2, <2>1 DEF Goroutines, TypeOK, recovery
    <3> QED BY <3>1, <3>2
  <2>4. Leases'
    <3>1. \A u \in Scans : u > t => status[u] = "none"
      BY BoundAssumption DEF Leases, Scans
    <3>2. \A u, v \in Scans : v < u /\ status'[u] # "none" => status'[v] # "none"
      BY <2>1, <3>1, BoundAssumption DEF Leases, Scans
    <3>3. \A u \in Scans : u > t => status'[u] = "none"
      BY <2>1, <3>1, BoundAssumption DEF Scans
    <3> QED BY <2>1, <3>2, <3>3 DEF Leases
  <2>5. Loops'
    BY <2>o DEF Loops, TypeOK, recovery
  <2>6. RunningHoldsLease'
    <3> SUFFICES ASSUME NEW u \in Scans, u # t, status'[u] = "running", ~cancelled[u]
                 PROVE  FALSE
      BY DEF RunningHoldsLease
    <3>1. status[u] = "running" /\ lease = u /\ ~lapsed /\ u # 0
      BY <2>1, BoundAssumption DEF RunningHoldsLease, TypeOK, Scans
    <3> QED BY <3>1 DEF Active
  <2>7. NothingIsLeftBehind'
    BY <2>o DEF NothingIsLeftBehind, TypeOK, recovery
  <2> QED BY <2>2, <2>3, <2>4, <2>5, <2>6, <2>7
<1> QED BY <1>1, <1>2 DEF Submit

(* Steps of a goroutine that change neither the scan nor the table.        *)
LEMMA EnterInv ==
  ASSUME Inv, NEW t \in Scans, phase[t] \in Alive, NEW p \in Alive \ {"closing", "unsettled"},
         NEW err \in BOOLEAN, Enter(t, p, err)
  PROVE  Inv'
<1> USE DEF Inv, Enter
<1>1. TypeOK'
  BY DEF TypeOK, scans, recovery, process
<1>2. Goroutines'
  BY DEF Goroutines, TypeOK, scans, recovery, Alive
<1>3. Leases' /\ RunningHoldsLease'
  BY DEF Leases, RunningHoldsLease, scans
<1>4. Loops' /\ NothingIsLeftBehind'
  BY DEF Loops, NothingIsLeftBehind, TypeOK, scans, recovery, Alive
<1> QED BY <1>1, <1>2, <1>3, <1>4

LEMMA RunInv ==
  ASSUME Inv, NEW t \in Scans, Run(t)
  PROVE  Inv'
<1> USE DEF Inv
<1>1. CASE \/ Register(t) \/ Begin(t) \/ ScanCompletes(t) \/ HeartbeatStops(t)
           \/ HeartbeatFails(t) \/ ContextStops(t) \/ ScannerReturns(t)
  <2>1. CASE Register(t)
    <3> USE <2>1 DEF Register, scans, recovery, process
    <3>1. TypeOK'
      BY DEF TypeOK, Alive
    <3>2. Goroutines'
      BY DEF Goroutines, TypeOK, Alive
    <3>3. Leases' /\ RunningHoldsLease'
      BY DEF Leases, RunningHoldsLease
    <3>4. Loops' /\ NothingIsLeftBehind'
      BY DEF Loops, NothingIsLeftBehind, TypeOK
    <3> QED BY <3>1, <3>2, <3>3, <3>4
  <2>2. CASE Begin(t)
    BY <2>2, EnterInv DEF Begin, Alive
  <2>3. CASE ScanCompletes(t)
    BY <2>3, EnterInv DEF ScanCompletes, Alive
  <2>4. CASE HeartbeatStops(t)
    BY <2>4, EnterInv DEF HeartbeatStops, Alive
  <2>5. CASE HeartbeatFails(t)
    BY <2>5, EnterInv DEF HeartbeatFails, Alive
  <2>6. CASE ContextStops(t)
    BY <2>6, EnterInv DEF ContextStops, Alive
  <2>7. CASE ScannerReturns(t)
    BY <2>7, EnterInv DEF ScannerReturns, Alive
  <2> QED BY <1>1, <2>1, <2>2, <2>3, <2>4, <2>5, <2>6, <2>7
<1>2. CASE Ambiguous(t)
  <2> USE <1>2 DEF Ambiguous, Ends, scans, recovery, process
  <2>1. TypeOK'
    BY DEF TypeOK
  <2>2. Goroutines'
    BY DEF Goroutines, TypeOK, Alive
  <2>3. Leases' /\ RunningHoldsLease'
    BY DEF Leases, RunningHoldsLease
  <2>4. Loops' /\ NothingIsLeftBehind'
    BY DEF Loops, NothingIsLeftBehind, TypeOK
  <2> QED BY <2>1, <2>2, <2>3, <2>4
<1>3. CASE HeartbeatRenews(t)
  <2> USE <1>3 DEF HeartbeatRenews, locals, recovery, process
  <2>1. TypeOK' /\ Leases' /\ RunningHoldsLease'
    BY DEF TypeOK, Leases, RunningHoldsLease
  <2>2. Goroutines' /\ Loops' /\ NothingIsLeftBehind'
    BY DEF Goroutines, Loops, NothingIsLeftBehind
  <2> QED BY <2>1, <2>2
<1>4. CASE Decide(t)
  <2> USE <1>4 DEF Decide, scans, recovery, process
  <2>1. wanted' \in [Scans -> {"none"} \cup Ended] /\ wanted'[t] \in Ended
        /\ \A u \in Scans \ {t} : wanted'[u] = wanted[u]
    BY DEF TypeOK, Ended
  <2>2. TypeOK'
    BY <2>1 DEF TypeOK, Alive
  <2>3. Goroutines'
    BY <2>1 DEF Goroutines, TypeOK, Alive
  <2>4. Leases' /\ RunningHoldsLease'
    BY DEF Leases, RunningHoldsLease
  <2>5. Loops' /\ NothingIsLeftBehind'
    BY DEF Loops, NothingIsLeftBehind, TypeOK
  <2> QED BY <2>2, <2>3, <2>4, <2>5
<1>5. CASE Finalize(t)
  <2> USE <1>5 DEF Finalize, recovery, process
  <2>w. wanted[t] \in Ended /\ ~rec[t] /\ status[t] # "none"
    BY DEF Goroutines
  <2>p. /\ phase' \in [Scans -> {"none", "gone", "lost"} \cup Alive]
        /\ phase'[t] \in {"gone", "unsettled"}
        /\ \A u \in Scans \ {t} : phase'[u] = phase[u]
        /\ server' \in [Scans -> Servers \cup {NoServer}]
        /\ phase'[t] \in Alive <=> server'[t] # NoServer
        /\ \A u \in Scans \ {t} : server'[u] = server[u]
        /\ wanted' \in [Scans -> {"none"} \cup Ended]
        /\ phase'[t] = "unsettled" => wanted'[t] \in Ended
        /\ \A u \in Scans \ {t} : wanted'[u] = wanted[u]
    BY <2>w DEF Ends, Forget, Goroutines, TypeOK, Alive
  <2>s. /\ ScansInv'
        /\ lease' \in {0, lease}
        /\ phase'[t] = "gone" => lease' = 0
        /\ \A u \in Scans : /\ status'[u] = "none" <=> status[u] = "none"
                            /\ status'[u] = "removed" <=> status[u] = "removed"
    <3>1. CASE Settle(t, wanted[t])
      BY <3>1, <2>w, SettleScans, InvScans
    <3>2. CASE UNCHANGED scans /\ phase' = [phase EXCEPT ![t] = "unsettled"]
      <4>1. ScansInv'
        BY <3>2, InvScans DEF ScansInv, Leases, RunningHoldsLease, scans
      <4> QED BY <3>2, <4>1 DEF scans, TypeOK
    <3> QED BY <3>1, <3>2
  <2>r. \A u \in Scans : lease' = u \/ rec[u] => status'[u] \notin {"none", "removed"}
    BY <2>s, BoundAssumption DEF TypeOK, Scans
  <2>1. TypeOK'
    BY <2>p, <2>s, <2>r DEF TypeOK, ScansInv
  <2>2. Goroutines'
    BY <2>p, <2>s, <2>w DEF Goroutines, TypeOK, ScansInv
  <2>3. Leases' /\ RunningHoldsLease'
    BY <2>s DEF ScansInv
  <2>4. Loops'
    BY <2>p, <2>s, BoundAssumption DEF Loops, Scans
  <2>5. NothingIsLeftBehind'
    BY <2>p, <2>s, BoundAssumption DEF NothingIsLeftBehind, Scans
  <2> QED BY <2>1, <2>2, <2>3, <2>4, <2>5
<1>6. CASE Persist(t)
  <2> USE <1>6 DEF Persist, Ends, scans, process
  <2>1. TypeOK'
    BY DEF TypeOK, Goroutines
  <2>2. Goroutines'
    BY DEF Goroutines, TypeOK, Alive
  <2>3. Leases' /\ RunningHoldsLease'
    BY DEF Leases, RunningHoldsLease
  <2>4. Loops' /\ NothingIsLeftBehind'
    BY DEF Loops, NothingIsLeftBehind, TypeOK
  <2> QED BY <2>1, <2>2, <2>3, <2>4
<1>7. CASE Drop(t)
  <2> USE <1>7 DEF Drop, Ends, Forget, scans, recovery, process
  <2>1. TypeOK'
    BY DEF TypeOK
  <2>2. Goroutines'
    BY DEF Goroutines, TypeOK, Alive
  <2>3. Leases' /\ RunningHoldsLease'
    BY DEF Leases, RunningHoldsLease
  <2>4. Loops' /\ NothingIsLeftBehind'
    BY DEF Loops, NothingIsLeftBehind, TypeOK
  <2> QED BY <2>1, <2>2, <2>3, <2>4
<1> QED BY <1>1, <1>2, <1>3, <1>4, <1>5, <1>6, <1>7 DEF Run

LEMMA RecoveryInv ==
  ASSUME Inv, NEW s \in Servers, Recovery(s)
  PROVE  Inv'
<1> USE DEF Inv, Go, process
<1> DEFINE t == worker[s].scan
<1>1. ASSUME NEW u \in Scans, RecoverClaim(s, u)
      PROVE  Inv'
  <2> USE <1>1 DEF RecoverClaim, scans
  <2>1. TypeOK'
    BY DEF TypeOK
  <2>2. Goroutines' /\ Leases' /\ RunningHoldsLease' /\ NothingIsLeftBehind'
    BY DEF Goroutines, Leases, RunningHoldsLease, NothingIsLeftBehind
  <2>3. Loops'
    BY DEF Loops, TypeOK, Goroutines
  <2> QED BY <2>1, <2>2, <2>3
<1>2. CASE RecoverCheck(s) \/ RecoverBackoff(s) \/ RecoverAborts(s)
  <2> USE <1>2 DEF RecoverCheck, RecoverBackoff, RecoverAborts, scans
  <2>1. t \in Scans
    BY DEF At, Loops
  <2>2. /\ worker'[s] \in {Idle, [scan |-> t, pc |-> "checked"]}
        /\ worker' = [worker EXCEPT ![s] = worker'[s]]
        /\ claim' \in [Scans -> Servers \cup {NoServer}] /\ stale' \in [Scans -> BOOLEAN]
    BY <2>1 DEF TypeOK
  <2>3. TypeOK'
    BY <2>1, <2>2 DEF TypeOK, Idle
  <2>4. Goroutines' /\ Leases' /\ RunningHoldsLease' /\ NothingIsLeftBehind'
    BY DEF Goroutines, Leases, RunningHoldsLease, NothingIsLeftBehind
  <2>5. phase[t] = "gone"
    BY DEF At, Loops
  <2>6. Loops'
    BY <2>1, <2>2, <2>5 DEF Loops, TypeOK, Idle
  <2> QED BY <2>3, <2>4, <2>6
<1>3. CASE RecoverSettle(s)
  <2> USE <1>3 DEF RecoverSettle
  <2>1. t \in Scans /\ phase[t] = "gone"
    BY DEF At, Loops
  <2>2. /\ ScansInv' /\ lease' \in {0, lease} /\ lease' # t
        /\ \A u \in Scans : /\ status'[u] = "none" <=> status[u] = "none"
                            /\ status'[u] = "removed" <=> status[u] = "removed"
    <3>1. CASE Settle(t, wanted[t])
      <4>1. wanted[t] \in Ended
        BY <2>1, <3>1 DEF Settle, NothingIsLeftBehind, Goroutines
      <4> QED BY <2>1, <3>1, <4>1, SettleScans, InvScans, BoundAssumption DEF Scans
    <3>2. CASE lease # t /\ UNCHANGED scans
      <4>1. ScansInv'
        BY <3>2, InvScans DEF ScansInv, Leases, RunningHoldsLease, scans
      <4> QED BY <3>2, <4>1 DEF scans
    <3> QED BY <3>1, <3>2
  <2>3. \A u \in Scans : lease' = u \/ rec[u] => status'[u] \notin {"none", "removed"}
    BY <2>2, BoundAssumption DEF TypeOK, Scans
  <2>4. TypeOK'
    BY <2>1, <2>2, <2>3 DEF TypeOK, ScansInv
  <2>5. Goroutines'
    BY <2>2 DEF Goroutines, ScansInv
  <2>6. Leases' /\ RunningHoldsLease'
    BY <2>2 DEF ScansInv
  <2>7. Loops'
    BY <2>1, <2>2, BoundAssumption DEF Loops, TypeOK, Scans
  <2>8. NothingIsLeftBehind'
    BY <2>2, BoundAssumption DEF NothingIsLeftBehind, Scans
  <2> QED BY <2>4, <2>5, <2>6, <2>7, <2>8
<1>4. CASE RecoverDelete(s)
  <2> USE <1>4 DEF RecoverDelete, Forget, scans
  <2>1. t \in Scans /\ phase[t] = "gone" /\ lease # t
    BY DEF At, Loops
  <2>2. /\ rec' \in [Scans -> BOOLEAN] /\ stale' \in [Scans -> BOOLEAN]
        /\ wanted' \in [Scans -> {"none"} \cup Ended]
        /\ claim' \in [Scans -> Servers \cup {NoServer}]
        /\ \A u \in Scans \ {t} : rec'[u] = rec[u] /\ wanted'[u] = wanted[u]
        /\ rec'[t] => rec[t] /\ wanted'[t] = wanted[t]
    <3>1. CASE Held(s, t)
      <4>1. /\ rec' = [rec EXCEPT ![t] = FALSE] /\ wanted' = [wanted EXCEPT ![t] = "none"]
            /\ claim' = [claim EXCEPT ![t] = NoServer] /\ stale' = [stale EXCEPT ![t] = FALSE]
        BY <3>1
      <4>2. rec' \in [Scans -> BOOLEAN] /\ stale' \in [Scans -> BOOLEAN] /\ rec'[t] = FALSE
        BY <2>1, <4>1 DEF TypeOK
      <4> QED BY <2>1, <4>1, <4>2 DEF TypeOK
    <3>2. CASE ~Held(s, t)
      BY <3>2 DEF TypeOK
    <3> QED BY <3>1, <3>2
  <2>3. TypeOK'
    BY <2>2 DEF TypeOK, Idle
  <2>4. Goroutines'
    BY <2>1, <2>2 DEF Goroutines
  <2>5. Leases' /\ RunningHoldsLease'
    BY DEF Leases, RunningHoldsLease
  <2>6. Loops'
    BY DEF Loops, TypeOK, Idle
  <2>7. NothingIsLeftBehind'
    BY <2>1, <2>2 DEF NothingIsLeftBehind
  <2> QED BY <2>3, <2>4, <2>5, <2>6, <2>7
<1> QED BY <1>1, <1>2, <1>3, <1>4 DEF Recovery

LEMMA UserInv ==
  ASSUME Inv, NEW t \in Scans, Cancel(t) \/ CancelContext(t) \/ Remove(t) \/ ClaimLapses(t)
  PROVE  Inv'
<1> USE DEF Inv, process
<1>1. CASE Cancel(t)
  <2> USE <1>1 DEF Cancel, locals, recovery
  <2>1. TypeOK'
    BY DEF TypeOK
  <2>2. Goroutines'
    BY DEF Goroutines, TypeOK
  <2>3. Leases' /\ Loops' /\ RunningHoldsLease' /\ NothingIsLeftBehind'
    BY DEF Leases, Loops, RunningHoldsLease, NothingIsLeftBehind, TypeOK
  <2> QED BY <2>1, <2>2, <2>3
<1>2. CASE CancelContext(t) \/ ClaimLapses(t)
  <2> USE <1>2 DEF CancelContext, ClaimLapses, scans, locals, recovery
  <2>1. TypeOK'
    BY DEF TypeOK
  <2>2. Goroutines'
    BY DEF Goroutines
  <2>3. Leases' /\ Loops' /\ RunningHoldsLease' /\ NothingIsLeftBehind'
    BY DEF Leases, Loops, RunningHoldsLease, NothingIsLeftBehind
  <2> QED BY <2>1, <2>2, <2>3
<1>3. CASE Remove(t)
  <2> USE <1>3 DEF Remove, Forget
  <2>1. /\ status' \in [Scans -> {"none", "running", "removed"} \cup Ended]
        /\ status'[t] = "removed" /\ status[t] # "none" /\ cancelled'[t] = FALSE /\ rec'[t] = FALSE
        /\ \A u \in Scans \ {t} : status'[u] = status[u] /\ cancelled'[u] = cancelled[u] /\ rec'[u] = rec[u]
        /\ lease' # t /\ \A u \in Scans \ {t} : lease' = u <=> lease = u
        /\ lease' \in {0} \cup Scans
    BY BoundAssumption DEF TypeOK, Ended, Scans
  <2>2. /\ wanted' \in [Scans -> {"none"} \cup Ended]
        /\ \A u \in Scans \ {t} : wanted'[u] = wanted[u]
        /\ ~rec[t] => wanted'[t] = wanted[t]
    BY DEF TypeOK
  <2>3. TypeOK'
    BY <2>1, <2>2 DEF TypeOK
  <2>4. Goroutines'
    BY <2>1, <2>2 DEF Goroutines, TypeOK, Alive
  <2>5. Leases' /\ RunningHoldsLease'
    BY <2>1 DEF Leases, RunningHoldsLease
  <2>6. Loops' /\ NothingIsLeftBehind'
    BY <2>1 DEF Loops, NothingIsLeftBehind
  <2> QED BY <2>3, <2>4, <2>5, <2>6
<1> QED BY <1>1, <1>2, <1>3

LEMMA ProcessInv ==
  ASSUME Inv, NEW s \in Servers, Process(s)
  PROVE  Inv'
<1> USE DEF Inv
<1>1. CASE Shutdown(s) \/ ShutdownCancels(s) \/ ShutdownReturns(s) \/ StartServer(s)
  <2> USE <1>1 DEF Shutdown, ShutdownCancels, ShutdownReturns, StartServer, scans, locals,
                   recovery, process
  <2>t. /\ downs' \in 0..MaxDowns
        /\ mode' \in [Servers -> {"up", "closing", "stopped", "down"}]
        /\ stopped' \in [Scans -> BOOLEAN]
    <3>1. CASE Shutdown(s)
      BY <3>1, BoundAssumption DEF TypeOK
    <3>2. CASE ShutdownCancels(s)
      <4> DEFINE hears(t) == stopped[t] \/ (t \in Running(s) /\ Listening(t))
      <4>1. stopped' = [t \in Scans |-> hears(t)] /\ downs' = downs /\ mode' = mode
        BY <3>2
      <4>2. \A t \in Scans : hears(t) \in BOOLEAN
        OBVIOUS
      <4> HIDE DEF hears
      <4> QED BY <4>1, <4>2 DEF TypeOK
    <3>3. CASE ShutdownReturns(s) \/ StartServer(s)
      BY <3>3 DEF TypeOK
    <3> QED BY <1>1, <3>1, <3>2, <3>3
  <2>1. TypeOK'
    BY <2>t DEF TypeOK
  <2>2. Goroutines'
    BY DEF Goroutines
  <2>3. Leases' /\ Loops' /\ RunningHoldsLease' /\ NothingIsLeftBehind'
    BY DEF Leases, Loops, RunningHoldsLease, NothingIsLeftBehind
  <2> QED BY <2>1, <2>2, <2>3
<1>2. CASE Crash(s)
  <2> USE <1>2 DEF Crash, AllEnd, Running, scans
  <2>1. TypeOK'
    BY BoundAssumption DEF TypeOK, Idle
  <2>2. \A t \in Scans : \/ server[t] = s /\ phase'[t] = "lost" /\ server'[t] = NoServer
                         \/ /\ server[t] # s /\ phase'[t] = phase[t]
                            /\ server'[t] = server[t] /\ wanted'[t] = wanted[t]
    OBVIOUS
  <2>3. Goroutines'
    BY <2>2, BoundAssumption DEF Goroutines, Alive
  <2>4. Leases' /\ RunningHoldsLease'
    BY DEF Leases, RunningHoldsLease
  <2>5. Loops'
    <3>1. \A t \in Scans : phase[t] = "gone" => phase'[t] = "gone"
      BY <2>2, BoundAssumption DEF Goroutines, Alive
    <3>2. /\ worker \in [Servers -> [scan : {0} \cup Scans, pc : {"idle", "claimed", "checked", "settled"}]]
          /\ worker' = [worker EXCEPT ![s] = Idle] /\ lease' = lease
      BY DEF TypeOK
    <3>3. \A x \in Servers : worker'[x].pc # "idle" => worker'[x] = worker[x]
      BY <3>2 DEF Idle
    <3> HIDE DEF Inv
    <3> QED BY <3>1, <3>2, <3>3 DEF Inv, Loops
  <2>6. NothingIsLeftBehind'
    BY <2>2 DEF NothingIsLeftBehind
  <2> QED BY <2>1, <2>3, <2>4, <2>5, <2>6
<1> QED BY <1>1, <1>2 DEF Process

LEMMA NextInv == Inv /\ [Next]_vars => Inv'
<1> SUFFICES ASSUME Inv, [Next]_vars PROVE Inv'
  OBVIOUS
<1>1. CASE LeaseLapses
  <2> USE <1>1 DEF LeaseLapses, Inv, locals, recovery, process
  <2>1. TypeOK' /\ Leases' /\ RunningHoldsLease'
    BY DEF TypeOK, Leases, RunningHoldsLease
  <2>2. Goroutines' /\ Loops' /\ NothingIsLeftBehind'
    BY DEF Goroutines, Loops, NothingIsLeftBehind
  <2> QED BY <2>1, <2>2
<1>2. CASE UNCHANGED vars
  <2> USE <1>2 DEF vars, scans, locals, recovery, process, Inv
  <2>1. TypeOK'
    BY DEF TypeOK
  <2>2. Goroutines'
    BY DEF Goroutines
  <2>3. Leases' /\ Loops' /\ RunningHoldsLease' /\ NothingIsLeftBehind'
    BY DEF Leases, Loops, RunningHoldsLease, NothingIsLeftBehind
  <2> QED BY <2>1, <2>2, <2>3
<1> QED BY <1>1, <1>2, SubmitInv, RunInv, RecoveryInv, UserInv, ProcessInv DEF Next

LEMMA SafeInv == Safe => []Inv
BY InitInv, NextInv, PTL DEF Safe

-----------------------------------------------------------------------------
(* The promise to the user who reads the list.                             *)

(* What a step that settles, or not, shows.                                *)
LEMMA SettleShows ==
  ASSUME Inv, NEW t \in Scans, NEW want \in Ended, Settle(t, want)
  PROVE  Shown' = Shown \/ Promise!End(t, want)
<1> USE DEF Settle, Inv, TypeOK
<1>1. status[t] = "running"
  BY DEF Leases
<1>2. CASE cancelled[t]
  <2>1. \A u \in Scans : Shown'[u] = Shown[u]
    BY <1>1, <1>2 DEF Shown
  <2> QED BY <2>1 DEF Shown
<1>3. CASE ~cancelled[t]
  <2>1. Shown[t] = "running"
    BY <1>1, <1>3 DEF Shown
  <2>2. \A u \in Scans : Shown'[u] = IF u = t THEN want ELSE Shown[u]
    BY <1>3 DEF Shown, Ended
  <2>3. Shown' = [Shown EXCEPT ![t] = want]
    BY <2>2 DEF Shown
  <2> QED BY <2>1, <2>3 DEF Promise!End
<1> QED BY <1>2, <1>3

LEMMA StepShows ==
  ASSUME Inv, [Next]_vars
  PROVE  [Promise!Next]_Shown
<1> USE DEF Inv
<1>1. ASSUME UNCHANGED <<status, cancelled>>
      PROVE  Shown' = Shown
  BY <1>1 DEF Shown
<1>2. ASSUME NEW t \in Scans, NEW want \in Ended, Settle(t, want)
      PROVE  [Promise!Next]_Shown
  <2>1. want \in Promise!Ended
    BY DEF Promise!Ended, Ended
  <2> QED BY <1>2, <2>1, SettleShows DEF Promise!Next
<1>3. ASSUME NEW s \in Servers, NEW t \in Scans, SubmitNew(s, t)
      PROVE  Promise!Start(t, "failed")
  <2> USE <1>3 DEF SubmitNew
  <2>1. Shown[t] = "none" /\ \A u \in Scans : Shown[u] = "none" <=> status[u] = "none"
    BY DEF Shown, TypeOK
  <2>2. \A u \in Scans : u > t => status[u] = "none"
    BY BoundAssumption DEF Leases, Scans
  <2>3. ASSUME NEW u \in Scans
        PROVE  Shown'[u] = IF u = t THEN "running" ELSE IF Shown[u] = "running" THEN "failed" ELSE Shown[u]
    <3>1. CASE u = t
      BY <3>1 DEF Shown, TypeOK, TakenOver, Goroutines
    <3>2. CASE u # t /\ lease = u /\ lapsed /\ status[u] = "running"
      <4>1. status'[u] = IF cancelled[u] THEN "cancelled" ELSE "failed"
        BY <3>2, BoundAssumption DEF TakenOver, TypeOK, Scans
      <4> QED BY <3>2, <4>1 DEF Shown
    <3>3. CASE u # t /\ ~(lease = u /\ lapsed /\ status[u] = "running")
      <4>1. status'[u] = status[u]
        BY <3>3 DEF TakenOver, TypeOK
      <4>2. Shown[u] # "running"
        BY <3>3, BoundAssumption DEF Shown, RunningHoldsLease, Active, Scans
      <4> QED BY <3>3, <4>1, <4>2 DEF Shown
    <3> QED BY <3>1, <3>2, <3>3
  <2>4. Shown' = [u \in Scans |-> IF u = t THEN "running" ELSE IF Shown[u] = "running" THEN "failed" ELSE Shown[u]]
    BY <2>3 DEF Shown
  <2> QED BY <2>1, <2>2, <2>4 DEF Promise!Start
<1>4. ASSUME NEW s \in Servers, SubmitEnter(s) \/ Submit(s)
      PROVE  [Promise!Next]_Shown
  <2>1. CASE SubmitEnter(s) \/ SubmitExisting(s) \/ SubmitFails(s)
    BY <1>1, <2>1 DEF SubmitEnter, SubmitExisting, SubmitFails, scans
  <2>2. CASE \E t \in Scans : SubmitNew(s, t)
    BY <1>3, <2>2 DEF Promise!Next, Promise!Ended
  <2> QED BY <1>4, <2>1, <2>2 DEF Submit
<1>5. ASSUME NEW t \in Scans, Run(t)
      PROVE  [Promise!Next]_Shown
  <2>1. CASE Finalize(t)
    <3>1. wanted[t] \in Ended
      BY <2>1 DEF Finalize, Goroutines
    <3>2. Settle(t, wanted[t]) \/ UNCHANGED <<status, cancelled>>
      BY <2>1 DEF Finalize, scans
    <3> QED BY <1>1, <1>2, <3>1, <3>2
  <2>2. CASE ~Finalize(t)
    <3>1. UNCHANGED <<status, cancelled>>
      BY <1>5, <2>2 DEF Run, Register, Ambiguous, Begin, ScanCompletes, HeartbeatRenews, HeartbeatStops,
         HeartbeatFails, ContextStops, ScannerReturns, Decide, Persist, Drop, Enter, scans
    <3> QED BY <1>1, <3>1
  <2> QED BY <2>1, <2>2
<1>6. ASSUME NEW s \in Servers, Recovery(s)
      PROVE  [Promise!Next]_Shown
  <2>1. CASE RecoverSettle(s)
    <3> DEFINE t == worker[s].scan
    <3>1. t \in Scans /\ phase[t] = "gone"
      BY <2>1 DEF RecoverSettle, At, Loops
    <3>2. Settle(t, wanted[t]) \/ UNCHANGED <<status, cancelled>>
      BY <2>1 DEF RecoverSettle, scans
    <3>3. Settle(t, wanted[t]) => wanted[t] \in Ended
      BY <3>1 DEF Settle, NothingIsLeftBehind, Goroutines
    <3> QED BY <1>1, <1>2, <3>1, <3>2, <3>3
  <2>2. CASE ~RecoverSettle(s)
    <3>1. UNCHANGED <<status, cancelled>>
      BY <1>6, <2>2 DEF Recovery, RecoverClaim, RecoverCheck, RecoverDelete, RecoverBackoff, RecoverAborts, scans
    <3> QED BY <1>1, <3>1
  <2> QED BY <2>1, <2>2
<1>7. ASSUME NEW t \in Scans, Cancel(t)
      PROVE  Promise!End(t, "cancelled")
  <2> USE <1>7 DEF Cancel
  <2>1. Shown[t] = "running"
    BY DEF Shown
  <2>2. \A u \in Scans : Shown'[u] = IF u = t THEN "cancelled" ELSE Shown[u]
    BY DEF Shown, TypeOK
  <2>3. Shown' = [Shown EXCEPT ![t] = "cancelled"]
    BY <2>2 DEF Shown
  <2> QED BY <2>1, <2>3 DEF Promise!End
<1>8. ASSUME NEW t \in Scans, Remove(t)
      PROVE  Promise!Remove(t)
  <2> USE <1>8 DEF Remove
  <2>1. Shown[t] \in Promise!Ended
    BY DEF Shown, Ended, Promise!Ended
  <2>2. \A u \in Scans : Shown'[u] = IF u = t THEN "removed" ELSE Shown[u]
    BY DEF Shown, TypeOK
  <2>3. Shown' = [Shown EXCEPT ![t] = "removed"]
    BY <2>2 DEF Shown
  <2> QED BY <2>1, <2>3 DEF Promise!Remove
<1>9. ASSUME NEW t \in Scans, Cancel(t) \/ CancelContext(t) \/ Remove(t) \/ ClaimLapses(t)
      PROVE  [Promise!Next]_Shown
  <2>1. CASE Cancel(t) \/ Remove(t)
    BY <1>7, <1>8, <2>1 DEF Promise!Next, Promise!Ended
  <2>2. CASE CancelContext(t) \/ ClaimLapses(t)
    BY <1>1, <2>2 DEF CancelContext, ClaimLapses, scans
  <2> QED BY <1>9, <2>1, <2>2
<1>10. ASSUME NEW s \in Servers, Process(s)
       PROVE  [Promise!Next]_Shown
  BY <1>1, <1>10 DEF Process, Shutdown, ShutdownCancels, ShutdownReturns, Crash, StartServer, scans
<1>11. CASE LeaseLapses \/ UNCHANGED vars
  BY <1>1, <1>11 DEF LeaseLapses, vars, scans
<1> QED BY <1>4, <1>5, <1>6, <1>9, <1>10, <1>11 DEF Next

-----------------------------------------------------------------------------
(* Every variable keeps its type; a lease and a record refer to a scan.    *)
THEOREM TypeCorrect == Safe => []TypeOK
BY SafeInv, PTL DEF Inv

(* Submit, cancellation, settlement, recovery, removal and crashes leave   *)
(* no scan running without the lease its successor would end it by.        *)
THEOREM RunningCorrect == Safe => []RunningHoldsLease
BY SafeInv, PTL DEF Inv

(* A goroutine that ended left nothing that nobody would settle.           *)
THEOREM NothingLeft == Safe => []NothingIsLeftBehind
BY SafeInv, PTL DEF Inv

(* A late settlement never reports a replaced scan as done.                *)
THEOREM DoneCorrect == Safe => DoneWasNotReplaced
<1>1. Inv /\ [Next]_vars => [\A t \in Scans :
        status'[t] = "done" /\ status[t] # "done" =>
            /\ wanted[t] = "done"
            /\ \A u \in Scans : u > t => status'[u] = "none"]_vars
  <2> SUFFICES ASSUME Inv, Next, NEW t \in Scans, status'[t] = "done", status[t] # "done"
               PROVE  wanted[t] = "done" /\ \A u \in Scans : u > t => status'[u] = "none"
    OBVIOUS
  <2> USE DEF Inv
  <2>1. ASSUME NEW v \in Scans, Settle(v, wanted[v])
        PROVE  wanted[t] = "done" /\ \A u \in Scans : u > t => status'[u] = "none"
    <3>1. v = t /\ wanted[t] = "done"
      BY <2>1 DEF Settle, TypeOK
    <3>2. \A u \in Scans : u > t => status'[u] = "none"
      BY <2>1, <3>1, BoundAssumption DEF Settle, TypeOK, Leases, Scans
    <3> QED BY <3>1, <3>2
  <2>2. ASSUME UNCHANGED status PROVE FALSE
    BY <2>2
  <2>3. ASSUME NEW s \in Servers, SubmitEnter(s) \/ Submit(s)
        PROVE  FALSE
    BY <2>2, <2>3 DEF SubmitEnter, Submit, SubmitExisting, SubmitFails, SubmitNew, TakenOver, TypeOK, scans
  <2>4. ASSUME NEW v \in Scans, Run(v)
        PROVE  Settle(v, wanted[v])
    BY <2>2, <2>4 DEF Run, Register, Ambiguous, Begin, ScanCompletes, HeartbeatRenews, HeartbeatStops,
       HeartbeatFails, ContextStops, ScannerReturns, Decide, Finalize, Persist, Drop, Enter, scans
  <2>5. ASSUME NEW s \in Servers, Recovery(s)
        PROVE  worker[s].scan \in Scans /\ Settle(worker[s].scan, wanted[worker[s].scan])
    BY <2>2, <2>5 DEF Recovery, RecoverClaim, RecoverCheck, RecoverSettle, RecoverDelete, RecoverBackoff,
       RecoverAborts, scans, At, Loops
  <2>6. ASSUME NEW v \in Scans, Cancel(v) \/ CancelContext(v) \/ Remove(v) \/ ClaimLapses(v)
        PROVE  FALSE
    BY <2>2, <2>6 DEF Cancel, CancelContext, Remove, ClaimLapses, TypeOK, scans
  <2>7. ASSUME NEW s \in Servers, Process(s)
        PROVE  FALSE
    BY <2>2, <2>7 DEF Process, Shutdown, ShutdownCancels, ShutdownReturns, Crash, StartServer, scans
  <2>8. ASSUME LeaseLapses
        PROVE  FALSE
    BY <2>2, <2>8 DEF LeaseLapses
  <2> QED BY <2>1, <2>3, <2>4, <2>5, <2>6, <2>7, <2>8 DEF Next
<1> QED BY <1>1, SafeInv, PTL DEF Safe, DoneWasNotReplaced

(* The list a user sees implements ScanHistory, but for its liveness: scans *)
(* start in order and one at a time, end once and do not change thereafter. *)
THEOREM HistoryCorrect == Safe => ImplementsHistory
<1>1. Init => Promise!Init
  BY DEF Init, Promise!Init, Shown
<1>2. Inv /\ [Next]_vars => [Promise!Next]_Shown
  BY StepShows
<1> QED BY <1>1, <1>2, SafeInv, PTL DEF Safe, ImplementsHistory
=============================================================================
