--------------------------- MODULE TaskQueueProofs ---------------------------
(***************************************************************************)
(* Proofs about TaskQueue, for every number of tasks, types and claims.    *)
(***************************************************************************)
EXTENDS TaskQueue, FiniteSetTheorems, TLAPS

-----------------------------------------------------------------------------
(* Type correctness.                                                       *)

(* What a lost row becomes is a row state (recoverRunning).                *)
LEMMA RecoveredState == \A t \in Tasks : Recovered(t) \in RowStates
BY DEF Recovered, RowStates, Terminal

(* The helpers that write the tables write values of the columns' types.   *)
LEMMA SetRowType ==
  ASSUME TypeOK, NEW t \in Tasks, NEW st \in RowStates, SetRow(t, st)
  PROVE  status' \in [Tasks -> RowStates] /\ owner' \in [Tasks -> Execs \cup {NoExec}]
BY DEF TypeOK, SetRow

LEMMA ReleaseType ==
  ASSUME TypeOK, NEW S, Release(S)
  PROVE  res' \in [Execs -> {"none", "active", "released"}]
BY DEF TypeOK, Release

LEMMA StopType ==
  ASSUME TypeOK, NEW S, NEW k \in {"cancelled", "retryable"}, Stop(S, k)
  PROVE  stop' \in [Execs -> {"none", "cancelled", "retryable"}]
BY DEF TypeOK, Stop

LEMMA MoveType ==
  ASSUME TypeOK, NEW e \in Execs, NEW p \in Phases, Move(e, p)
  PROVE  phase' \in [Execs -> Phases]
BY DEF TypeOK, Move

LEMMA TypeInit == Init => TypeOK
BY TasksAssumption, BoundAssumption
   DEF Init, TypeOK, RowStates, Terminal, Execs, NoExec, Phases, Registered, InLoop, Outcomes

(* Every handler writes values of the columns' types.                      *)
LEMMA TypeStep == TypeOK /\ [Next]_vars => TypeOK'
<1> SUFFICES ASSUME TypeOK, [Next]_vars PROVE TypeOK'
  OBVIOUS
<1> USE DEF rowVars, execVars, leaseVars, envVars, timers, counters
<1>s. {"absent", "waiting", "running", "done", "failed", "cancelled"} \subseteq RowStates
  BY DEF RowStates, Terminal
<1>p. {"unused", "claimed", "verified", "running", "finishing", "isolating", "handedOff",
       "cleanup", "releasing", "gone"} \subseteq Phases
  BY DEF Phases, InLoop, Registered
<1>1. ASSUME NEW t \in Tasks, Enqueue(t) PROVE TypeOK'
  BY <1>1, <1>s DEF Enqueue, TypeOK
<1>2. ASSUME NEW t \in Tasks, Claim(t) PROVE TypeOK'
  <2>1. claims + 1 \in Execs
    BY <1>2, BoundAssumption DEF Claim, TypeOK, Execs
  <2>. QED
    BY <1>2, <2>1, <1>s, <1>p, MoveType, BoundAssumption DEF Claim, TypeOK, Execs
<1>3. ASSUME NEW e \in Execs, Verify(e) PROVE TypeOK'
  BY <1>3, <1>p, MoveType DEF Verify, TypeOK
<1>4. ASSUME NEW e \in Execs, LoseClaim(e) PROVE TypeOK'
  BY <1>4, <1>p, MoveType DEF LoseClaim, TypeOK
<1>5. ASSUME NEW e \in Execs, Launch(e) PROVE TypeOK'
  BY <1>5, <1>p, MoveType DEF Launch, TypeOK
<1>6. CASE Recover
  BY <1>6, RecoveredState, ReleaseType DEF Recover, SetRows, TypeOK
<1>7. ASSUME NEW e \in Execs, Heartbeat(e) PROVE TypeOK'
  BY <1>7, StopType DEF Heartbeat, TypeOK
<1>8. ASSUME NEW e \in Execs, Stall(e) PROVE TypeOK'
  BY <1>8, StopType DEF Stall, TypeOK
<1>9. ASSUME NEW e \in Execs, CommitAtomically(e) PROVE TypeOK'
  BY <1>9, <1>s, SetRowType DEF CommitAtomically, Owned, TypeOK, Outcomes
<1>10. ASSUME NEW e \in Execs, CommitUnknown(e) PROVE TypeOK'
  BY <1>10 DEF CommitUnknown, TypeOK, Outcomes
<1>11. ASSUME NEW e \in Execs, ExecReturn(e) PROVE TypeOK'
  <2>1. outcome' \in [Execs -> Outcomes]
    BY <1>11 DEF ExecReturn, TypeOK, Outcomes
  <2>. QED
    BY <1>11, <2>1, <1>p, MoveType DEF ExecReturn, Forget, TypeOK
<1>12. ASSUME NEW e \in Execs, Unresponsive(e) PROVE TypeOK'
  BY <1>12, <1>p, MoveType DEF Unresponsive, Forget, TypeOK, Outcomes
<1>13. ASSUME NEW e \in Execs, Write(e) PROVE TypeOK'
  <2>1. Writes(e) => taskOf[e] \in Tasks /\ Settled(e) \in RowStates
    BY <1>s DEF Writes, Settled, Owned
  <2>2. status' \in [Tasks -> RowStates] /\ owner' \in [Tasks -> Execs \cup {NoExec}]
    BY <1>13, <2>1, SetRowType DEF Write, TypeOK
  <2>3. res' \in [Execs -> {"none", "active", "released"}]
    BY <1>13, ReleaseType DEF Write, TypeOK
  <2>4. phase' \in [Execs -> Phases] /\ outcome' \in [Execs -> Outcomes]
    BY <1>13, <1>p, MoveType DEF Write, Forget, TypeOK, Outcomes
  <2>. QED
    BY <1>13, <2>2, <2>3, <2>4 DEF Write, TypeOK
<1>14. ASSUME NEW e \in Execs, WriteLost(e) PROVE TypeOK'
  BY <1>14, <1>p, MoveType DEF WriteLost, Forget, TypeOK, Outcomes
<1>15. ASSUME NEW e \in Execs, LateReturn(e) PROVE TypeOK'
  BY <1>15, <1>p, MoveType DEF LateReturn, TypeOK
<1>16. ASSUME NEW e \in Execs, Unregister(e) PROVE TypeOK'
  BY <1>16, <1>p, MoveType DEF Unregister, TypeOK
<1>17. ASSUME NEW e \in Execs, ReleaseAtEnd(e) PROVE TypeOK'
  BY <1>17, <1>p, MoveType, ReleaseType DEF ReleaseAtEnd, TypeOK
<1>18. ASSUME NEW e \in Execs, Lapse(e) PROVE TypeOK'
  BY <1>18 DEF Lapse, TypeOK
<1>19. ASSUME NEW e \in Execs, ReaperRelease(e) PROVE TypeOK'
  BY <1>19, ReleaseType DEF ReaperRelease, TypeOK
<1>20. CASE ReaperScan
  BY <1>20 DEF ReaperScan, TypeOK
<1>21. CASE Shutdown
  BY <1>21 DEF Shutdown, TypeOK
<1>22. CASE Down
  BY <1>22, <1>p DEF Down, TypeOK, Outcomes
<1>23. CASE Restart
  BY <1>23, RecoveredState, ReleaseType DEF Restart, SetRows, TypeOK
<1>24. CASE CancelScan
  BY <1>24, <1>s DEF CancelScan, SetRows, TypeOK
<1>25. CASE CancelScanMemory
  BY <1>25, StopType DEF CancelScanMemory, TypeOK
<1>26. ASSUME NEW t \in Tasks, CancelRow(t) PROVE TypeOK'
  BY <1>26, <1>s, SetRowType DEF CancelRow, TypeOK
<1>27. ASSUME NEW t \in Tasks, CancelTask(t) PROVE TypeOK'
  <2>1. cancels' \in 0..MaxCancels
    BY <1>27, BoundAssumption DEF CancelTask, TypeOK
  <2>. QED
    BY <1>27, <2>1, StopType DEF CancelTask, TypeOK
<1>28. ASSUME NEW t \in Tasks, ForceWrite(t) PROVE TypeOK'
  BY <1>28, <1>s, SetRowType DEF ForceWrite, TypeOK
<1>29. ASSUME NEW t \in Tasks, ForceStop(t) PROVE TypeOK'
  BY <1>29, StopType DEF ForceStop, TypeOK
<1>30. ASSUME NEW t \in Tasks, Reset(t) PROVE TypeOK'
  <2>1. resets' \in 0..MaxResets
    BY <1>30, BoundAssumption DEF Reset, TypeOK
  <2>. QED
    BY <1>30, <2>1, <1>s, SetRowType DEF Reset, TypeOK
<1>31. ASSUME NEW t \in Tasks, Retry(t) PROVE TypeOK'
  <2>1. resets' \in 0..MaxResets
    BY <1>31, BoundAssumption DEF Retry, TypeOK
  <2>. QED
    BY <1>31, <2>1, <1>s, SetRowType DEF Retry, TypeOK
<1>32. ASSUME NEW ty \in Types, SetControl(ty) PROVE TypeOK'
  BY <1>32 DEF SetControl, TypeOK
<1>33. CASE UNCHANGED vars
  BY <1>33 DEF vars, TypeOK
<1>. QED
  BY <1>1, <1>2, <1>3, <1>4, <1>5, <1>6, <1>7, <1>8, <1>9, <1>10, <1>11, <1>12, <1>13,
     <1>14, <1>15, <1>16, <1>17, <1>18, <1>19, <1>20, <1>21, <1>22, <1>23, <1>24, <1>25,
     <1>26, <1>27, <1>28, <1>29, <1>30, <1>31, <1>32, <1>33
     DEF Next, LoopStep, Execution, Admin

(* The columns and the dispatcher's maps keep their types in every         *)
(* behaviour.                                                              *)
THEOREM TypeCorrect == Spec => []TypeOK
BY TypeInit, TypeStep, PTL DEF Spec

-----------------------------------------------------------------------------
(* The inductive invariant.                                                *)

(* A row carries a token exactly while it is running, and the token is     *)
(* that of an execution claimed for this row.                              *)
Tokens ==
    \A t \in Tasks :
        /\ status[t] = "running" <=> owner[t] # NoExec
        /\ owner[t] # NoExec => owner[t] \in 1..claims /\ taskOf[owner[t]] = t

(* Tokens are handed out in order; one not handed out has left no trace.   *)
Claimed ==
    \A e \in Execs :
        /\ e <= claims => phase[e] # "unused" /\ taskOf[e] \in Tasks
        /\ e > claims => /\ phase[e] = "unused" /\ taskOf[e] = NoTask
                         /\ res[e] = "none" /\ lease[e] = "none"

(* While the loop holds a claim nobody else can claim its task.            *)
LoopHolds == \A e \in Execs : phase[e] \in InLoop => owner[taskOf[e]] \in {NoExec, e}

DownGone == proc = "down" => \A e \in Execs : phase[e] \in {"unused", "gone"}

(* What the reconciler has listed had lapsed; it is never fresh again.     *)
ReaperLapsed == \A e \in reaper : lease[e] \in {"lapsed", "late"}

IsolatedOutcome ==
    \A e \in Execs : phase[e] = "isolating" => outcome[e] \in {"cancelled", "shutdown"}

AbsentUntried == \A t \in Tasks : status[t] = "absent" => attempts[t] = 0

IInv == /\ TypeOK
        /\ Tokens /\ Claimed /\ LoopHolds /\ DownGone /\ ReaperLapsed
        /\ IsolatedOutcome /\ AbsentUntried
        /\ RegisteredWhileOwned /\ FreshLeaseHoldsReservation /\ WaitingHasAttemptsLeft

LEMMA IInvInit == Init => IInv
<1> SUFFICES ASSUME Init PROVE IInv
  OBVIOUS
<1>1. TypeOK
  BY TypeInit
<1>2. Tokens /\ Claimed /\ LoopHolds /\ DownGone /\ ReaperLapsed /\ IsolatedOutcome
  BY BoundAssumption
     DEF Init, Tokens, Claimed, LoopHolds, DownGone, ReaperLapsed, IsolatedOutcome,
         InLoop, Execs, NoExec
<1>3. AbsentUntried /\ RegisteredWhileOwned /\ FreshLeaseHoldsReservation
      /\ WaitingHasAttemptsLeft
  BY DEF Init, AbsentUntried, RegisteredWhileOwned, FreshLeaseHoldsReservation,
         WaitingHasAttemptsLeft, Registered, Owned
<1>. QED
  BY <1>1, <1>2, <1>3 DEF IInv

LEMMA MaxAttemptsPositive == \A t \in Tasks : MaxAttempts[TypeOf[t]] \in Nat \ {0}
BY TasksAssumption, BudgetAssumption

(* SetRow takes the token of one row away and changes nothing else.        *)
LEMMA SetRowDisowns ==
  ASSUME TypeOK, NEW t \in Tasks, NEW st, SetRow(t, st)
  PROVE  /\ status'[t] = st /\ owner'[t] = NoExec
         /\ \A u \in Tasks \ {t} : status'[u] = status[u] /\ owner'[u] = owner[u]
BY DEF TypeOK, SetRow

(* Taking tokens away keeps the parts of the invariant that speak of       *)
(* tokens, whatever becomes of the rows.                                   *)
LEMMA DisownKeeps ==
  ASSUME IInv, NEW S \in SUBSET Tasks,
         \A t \in S : status'[t] # "running" /\ owner'[t] = NoExec,
         \A t \in Tasks \ S : status'[t] = status[t] /\ owner'[t] = owner[t],
         UNCHANGED <<phase, taskOf, running, claims>>
  PROVE  /\ Tokens' /\ LoopHolds' /\ RegisteredWhileOwned'
         /\ \A e \in Execs : Owned(e)' => Owned(e)
<1>1. Tokens'
  BY DEF IInv, Tokens
<1>2. \A e \in Execs : Owned(e)' => Owned(e)
  BY DEF IInv, TypeOK, Owned, Execs, NoExec
<1>3. LoopHolds'
  BY DEF IInv, TypeOK, LoopHolds, Claimed, Execs, NoExec, InLoop
<1>4. RegisteredWhileOwned'
  BY <1>2 DEF IInv, RegisteredWhileOwned
<1>. QED
  BY <1>1, <1>2, <1>3, <1>4

(* A step that does no more than that to tokens, and puts back only rows   *)
(* with an attempt left, keeps the whole invariant.                        *)
LEMMA DisownStep ==
  ASSUME IInv, TypeOK', NEW S \in SUBSET Tasks,
         \A t \in S : /\ status'[t] \in {"waiting"} \cup Terminal /\ owner'[t] = NoExec
                      /\ status'[t] = "waiting" => attempts'[t] < MaxAttempts[TypeOf[t]],
         \A t \in Tasks \ S : /\ status'[t] = status[t] /\ owner'[t] = owner[t]
                              /\ attempts'[t] = attempts[t],
         \A e \in Execs : phase[e] = "isolating" => outcome'[e] = outcome[e],
         UNCHANGED <<phase, taskOf, running, claims, res, lease, proc, reaper>>
  PROVE  IInv'
<1>1. /\ Tokens' /\ LoopHolds' /\ RegisteredWhileOwned'
      /\ \A e \in Execs : Owned(e)' => Owned(e)
  BY DisownKeeps DEF Terminal
<1>2. Claimed' /\ DownGone' /\ ReaperLapsed' /\ IsolatedOutcome'
  BY DEF IInv, Claimed, DownGone, ReaperLapsed, IsolatedOutcome
<1>3. AbsentUntried' /\ WaitingHasAttemptsLeft'
  BY DEF IInv, AbsentUntried, WaitingHasAttemptsLeft, Terminal
<1>4. FreshLeaseHoldsReservation'
  BY <1>1 DEF IInv, FreshLeaseHoldsReservation
<1>. QED
  BY <1>1, <1>2, <1>3, <1>4 DEF IInv

(* Steps of one execution and of administrators that leave the rows, or    *)
(* all but their attempts and their scan, as they are.                     *)
LEMMA QuietStep ==
  ASSUME IInv, TypeOK', UNCHANGED <<status, owner, attempts, taskOf, claims>>,
         \/ \E t \in Tasks : CancelTask(t) \/ ForceStop(t)
         \/ \E e \in Execs : LoseClaim(e) \/ Stall(e) \/ CommitUnknown(e) \/ Unresponsive(e)
                             \/ WriteLost(e) \/ LateReturn(e) \/ Unregister(e)
                             \/ ReleaseAtEnd(e) \/ Lapse(e) \/ ReaperRelease(e)
         \/ \E ty \in Types : SetControl(ty)
         \/ ReaperScan \/ Shutdown \/ Down \/ CancelScanMemory \/ UNCHANGED vars
  PROVE  IInv'
<1> USE DEF IInv, Tokens, Claimed, LoopHolds, DownGone, ReaperLapsed, IsolatedOutcome,
            AbsentUntried, RegisteredWhileOwned, FreshLeaseHoldsReservation,
            WaitingHasAttemptsLeft, Owned, TypeOK, Registered, InLoop, Execs, NoExec,
            rowVars, execVars, leaseVars, envVars, timers, counters
<1>1. ASSUME NEW t \in Tasks, CancelTask(t) \/ ForceStop(t) PROVE IInv'
  BY <1>1 DEF CancelTask, ForceStop, Stop
<1>2. ASSUME NEW e \in Execs, LoseClaim(e) PROVE IInv'
  BY <1>2 DEF LoseClaim, Move
<1>3. ASSUME NEW e \in Execs, Stall(e) PROVE IInv'
  BY <1>3 DEF Stall, Stop
<1>4. ASSUME NEW e \in Execs, CommitUnknown(e) PROVE IInv'
  BY <1>4 DEF CommitUnknown
<1>5. ASSUME NEW e \in Execs, Unresponsive(e) PROVE IInv'
  BY <1>5 DEF Unresponsive, Move, Forget
<1>6. ASSUME NEW e \in Execs, WriteLost(e) PROVE IInv'
  BY <1>6 DEF WriteLost, Move, Forget
<1>7. ASSUME NEW e \in Execs, LateReturn(e) PROVE IInv'
  <2>1. phase[e] = "handedOff" /\ phase' = [phase EXCEPT ![e] = "cleanup"]
    BY <1>7 DEF LateReturn, Move
  <2>. QED
    BY <1>7, <2>1 DEF LateReturn
<1>8. ASSUME NEW e \in Execs, Unregister(e) PROVE IInv'
  BY <1>8 DEF Unregister, Move
<1>9. ASSUME NEW e \in Execs, ReleaseAtEnd(e) PROVE IInv'
  BY <1>9 DEF ReleaseAtEnd, Move, Release
<1>10. ASSUME NEW e \in Execs, Lapse(e) PROVE IInv'
  BY <1>10 DEF Lapse
<1>11. ASSUME NEW e \in Execs, ReaperRelease(e) PROVE IInv'
  BY <1>11 DEF ReaperRelease, Release
<1>12. ASSUME NEW ty \in Types, SetControl(ty) PROVE IInv'
  BY <1>12 DEF SetControl
<1>13. CASE ReaperScan \/ Shutdown
  BY <1>13 DEF ReaperScan, Shutdown
<1>14. CASE Down
  BY <1>14 DEF Down
<1>15. CASE CancelScanMemory
  BY <1>15 DEF CancelScanMemory, Stop
<1>16. CASE UNCHANGED vars
  BY <1>16 DEF vars
<1>. QED
  BY <1>1, <1>2, <1>3, <1>4, <1>5, <1>6, <1>7, <1>8, <1>9, <1>10, <1>11, <1>12, <1>13,
     <1>14, <1>15, <1>16

(* Every step of the system keeps the invariant.                           *)
LEMMA IInvStep == IInv /\ [Next]_vars => IInv'
<1> SUFFICES ASSUME IInv, [Next]_vars PROVE IInv'
  OBVIOUS
<1> USE DEF rowVars, execVars, leaseVars, envVars, timers, counters
<1>t. TypeOK /\ TypeOK'
  BY TypeStep DEF IInv
<1>c. Tokens /\ Claimed /\ LoopHolds /\ DownGone /\ ReaperLapsed /\ IsolatedOutcome
      /\ AbsentUntried /\ RegisteredWhileOwned /\ FreshLeaseHoldsReservation
      /\ WaitingHasAttemptsLeft
  BY DEF IInv
<1>1. ASSUME NEW t \in Tasks, Enqueue(t) PROVE IInv'
  <2>1. status[t] = "absent" /\ status' = [status EXCEPT ![t] = "waiting"]
    BY <1>1 DEF Enqueue
  <2>2. attempts[t] = 0 /\ MaxAttempts[TypeOf[t]] \in Nat \ {0}
    BY <2>1, <1>c, TasksAssumption, BudgetAssumption DEF AbsentUntried
  <2>3. Tokens' /\ AbsentUntried' /\ WaitingHasAttemptsLeft'
    BY <1>1, <1>t, <1>c, <2>1, <2>2
       DEF Enqueue, TypeOK, Tokens, AbsentUntried, WaitingHasAttemptsLeft
  <2>4. Claimed' /\ LoopHolds' /\ DownGone' /\ ReaperLapsed' /\ IsolatedOutcome'
        /\ RegisteredWhileOwned' /\ FreshLeaseHoldsReservation'
    BY <1>1, <1>c
       DEF Enqueue, Claimed, LoopHolds, DownGone, ReaperLapsed, IsolatedOutcome,
           RegisteredWhileOwned, FreshLeaseHoldsReservation, Owned
  <2>. QED
    BY <1>t, <2>3, <2>4 DEF IInv
<1>2. ASSUME NEW t \in Tasks, Claim(t) PROVE IInv'
  <2> DEFINE e == claims + 1
  <2>1. /\ e \in Execs /\ claims \in Nat /\ proc = "up" /\ status[t] = "waiting"
        /\ \A f \in Execs : phase[f] \notin InLoop
    BY <1>2, <1>t, BoundAssumption DEF Claim, TypeOK, Execs, LoopFree, Eligible
  <2>2. /\ status' = [status EXCEPT ![t] = "running"]
        /\ owner' = [owner EXCEPT ![t] = e]
        /\ attempts' = [attempts EXCEPT ![t] = attempts[t] + 1]
        /\ phase' = [phase EXCEPT ![e] = "claimed"]
        /\ taskOf' = [taskOf EXCEPT ![e] = t]
        /\ res' = [res EXCEPT ![e] = "active"]
        /\ lease' = [lease EXCEPT ![e] = "live"]
        /\ claims' = e
        /\ UNCHANGED <<outcome, running, proc, reaper>>
    BY <1>2 DEF Claim, Move
  <2> HIDE DEF e
  <2>3. e = claims + 1
    BY DEF e
  <2>4. /\ phase[e] = "unused" /\ lease[e] = "none" /\ owner[t] = NoExec
        /\ \A u \in Tasks : owner[u] # e
    <3>1. e > claims
      BY <2>1, <2>3
    <3>2. phase[e] = "unused" /\ lease[e] = "none"
      BY <1>c, <2>1, <3>1 DEF Claimed
    <3>3. owner[t] = NoExec
      BY <1>c, <2>1 DEF Tokens
    <3>4. \A u \in Tasks : owner[u] # e
      BY <1>c, <2>1, <3>1 DEF Tokens, NoExec, Execs
    <3>. QED
      BY <3>2, <3>3, <3>4
  <2>5. Tokens'
    BY <1>t, <1>c, <2>1, <2>2, <2>3, <2>4 DEF Tokens, TypeOK, Execs, NoExec
  <2>6. Claimed'
    BY <1>t, <1>c, <2>1, <2>2, <2>3 DEF Claimed, TypeOK, Execs
  <2>7. LoopHolds'
    BY <1>t, <2>1, <2>2 DEF LoopHolds, TypeOK, InLoop
  <2>8. DownGone' /\ IsolatedOutcome'
    BY <1>t, <1>c, <2>1, <2>2 DEF DownGone, IsolatedOutcome, TypeOK
  <2>9. ReaperLapsed'
    BY <1>t, <1>c, <2>2, <2>4 DEF ReaperLapsed, TypeOK
  <2>10. AbsentUntried' /\ WaitingHasAttemptsLeft'
    BY <1>t, <1>c, <2>2 DEF AbsentUntried, WaitingHasAttemptsLeft, TypeOK
  <2>11. \A f \in Execs \ {e} : Owned(f)' => Owned(f)
    BY <1>t, <2>2, <2>4 DEF Owned, TypeOK
  <2>12. RegisteredWhileOwned'
    BY <1>t, <1>c, <2>2, <2>11 DEF RegisteredWhileOwned, TypeOK, Registered
  <2>13. FreshLeaseHoldsReservation'
    BY <1>t, <1>c, <2>1, <2>2, <2>11 DEF FreshLeaseHoldsReservation, TypeOK
  <2>. QED
    BY <1>t, <2>5, <2>6, <2>7, <2>8, <2>9, <2>10, <2>12, <2>13 DEF IInv
<1>3. ASSUME NEW e \in Execs, Verify(e) PROVE IInv'
  <2>1. /\ phase[e] = "claimed"
        /\ \E p \in {"verified", "gone"} : phase' = [phase EXCEPT ![e] = p]
        /\ UNCHANGED <<rowVars, taskOf, outcome, running, leaseVars, proc, reaper, claims>>
    BY <1>3 DEF Verify, Move
  <2>2. Tokens' /\ ReaperLapsed' /\ AbsentUntried' /\ WaitingHasAttemptsLeft'
    BY <1>c, <2>1 DEF Tokens, ReaperLapsed, AbsentUntried, WaitingHasAttemptsLeft
  <2>3. Claimed'
    <3>1. \A f \in Execs : phase'[f] = "unused" <=> phase[f] = "unused"
      BY <1>t, <2>1 DEF TypeOK
    <3>. QED
      BY <1>c, <2>1, <3>1 DEF Claimed
  <2>4. LoopHolds'
    BY <1>t, <1>c, <2>1 DEF LoopHolds, TypeOK, InLoop
  <2>5. DownGone' /\ IsolatedOutcome'
    BY <1>t, <1>c, <2>1 DEF DownGone, IsolatedOutcome, TypeOK
  <2>6. RegisteredWhileOwned' /\ FreshLeaseHoldsReservation'
    BY <1>t, <1>c, <2>1
       DEF RegisteredWhileOwned, FreshLeaseHoldsReservation, TypeOK, Owned, Registered
  <2>. QED
    BY <1>t, <2>2, <2>3, <2>4, <2>5, <2>6 DEF IInv
<1>4. ASSUME NEW e \in Execs, Launch(e) PROVE IInv'
  <2>1. /\ phase[e] = "verified" /\ phase' = [phase EXCEPT ![e] = "running"]
        /\ running' = [running EXCEPT ![taskOf[e]] = e]
        /\ UNCHANGED <<rowVars, taskOf, outcome, leaseVars, proc, reaper, claims>>
    BY <1>4 DEF Launch, Move
  <2>2. taskOf[e] \in Tasks /\ owner[taskOf[e]] \in {NoExec, e} /\ proc # "down"
    BY <1>t, <1>c, <2>1 DEF TypeOK, Claimed, LoopHolds, DownGone, InLoop, Execs
  <2>3. Tokens' /\ ReaperLapsed' /\ AbsentUntried' /\ WaitingHasAttemptsLeft'
    BY <1>c, <2>1 DEF Tokens, ReaperLapsed, AbsentUntried, WaitingHasAttemptsLeft
  <2>4. Claimed' /\ LoopHolds' /\ DownGone' /\ IsolatedOutcome'
    <3>1. Claimed'
      BY <1>t, <1>c, <2>1 DEF Claimed, TypeOK, Execs
    <3>2. LoopHolds'
      BY <1>t, <1>c, <2>1 DEF LoopHolds, TypeOK, InLoop
    <3>3. DownGone' /\ IsolatedOutcome'
      BY <1>t, <1>c, <2>1, <2>2 DEF DownGone, IsolatedOutcome, TypeOK
    <3>. QED
      BY <3>1, <3>2, <3>3
  <2>5. RegisteredWhileOwned'
    <3> SUFFICES ASSUME NEW f \in Execs, phase'[f] \in Registered, Owned(f)
                 PROVE  running'[taskOf[f]] = f
      BY <2>1 DEF RegisteredWhileOwned, Owned
    <3>1. CASE f = e
      BY <1>t, <2>1, <2>2, <3>1 DEF TypeOK
    <3>2. CASE f # e
      <4>1. phase[f] \in Registered /\ running[taskOf[f]] = f
        BY <1>t, <1>c, <2>1, <3>2 DEF TypeOK, RegisteredWhileOwned
      <4>2. taskOf[f] # taskOf[e]
        BY <2>2, <3>2 DEF Owned, Execs, NoExec
      <4>. QED
        BY <1>t, <2>1, <4>1, <4>2 DEF TypeOK
    <3>. QED
      BY <3>1, <3>2
  <2>6. FreshLeaseHoldsReservation'
    BY <1>t, <1>c, <2>1 DEF FreshLeaseHoldsReservation, TypeOK, Owned
  <2>. QED
    BY <1>t, <2>3, <2>4, <2>5, <2>6 DEF IInv
<1>5. CASE Recover
  <2> DEFINE rows == {t \in Tasks : /\ status[t] = "running"
                                    /\ lease[owner[t]] = "lapsed"
                                    /\ running[t] = NoExec}
             rsvs == {e \in Execs : /\ res[e] = "active" /\ LooksExpired(e)
                                    /\ \A t \in Tasks : running[t] # e}
  <2>1. SetRows(rows, Recovered) /\ Release(rsvs) /\ LoopFree
        /\ UNCHANGED <<attempts, execVars, lease, proc, reaper, claims>>
    BY <1>5 DEF Recover
  <2>2. /\ rows \in SUBSET Tasks
        /\ \A t \in rows : /\ status'[t] \in {"cancelled", "failed", "waiting"}
                           /\ status'[t] = Recovered(t) /\ owner'[t] = NoExec
        /\ \A t \in Tasks \ rows : status'[t] = status[t] /\ owner'[t] = owner[t]
    BY <1>t, <2>1 DEF SetRows, Recovered, TypeOK
  <2>3. /\ Tokens' /\ LoopHolds' /\ RegisteredWhileOwned'
        /\ \A e \in Execs : Owned(e)' => Owned(e)
    BY <2>1, <2>2, DisownKeeps
  <2>4. Claimed'
    BY <1>c, <1>t, <2>1 DEF Claimed, Release, TypeOK
  <2>5. DownGone' /\ ReaperLapsed' /\ IsolatedOutcome'
    BY <1>c, <2>1 DEF DownGone, ReaperLapsed, IsolatedOutcome
  <2>6. AbsentUntried' /\ WaitingHasAttemptsLeft'
    <3>1. \A t \in rows : status'[t] = "waiting" => attempts[t] < MaxAttempts[TypeOf[t]]
      BY <1>t, <2>2, MaxAttemptsPositive DEF Recovered, TypeOK
    <3>2. AbsentUntried'
      BY <1>c, <2>1, <2>2 DEF AbsentUntried
    <3>3. WaitingHasAttemptsLeft'
      BY <1>c, <2>1, <2>2, <3>1 DEF WaitingHasAttemptsLeft
    <3>. QED
      BY <3>2, <3>3
  <2>7. FreshLeaseHoldsReservation'
    <3> SUFFICES ASSUME NEW e \in Execs, phase[e] \notin {"releasing", "gone"}, Owned(e),
                        lease[e] = "live"
                 PROVE  res'[e] = "active"
      BY <2>1, <2>3 DEF FreshLeaseHoldsReservation
    <3>1. res[e] = "active"
      BY <1>c DEF FreshLeaseHoldsReservation
    <3>2. phase[e] \in Registered
      <4>1. phase[e] # "unused"
        BY <1>t, <1>c, <3>1 DEF TypeOK, Claimed, Execs
      <4>2. phase[e] \notin InLoop
        BY <2>1 DEF LoopFree
      <4>. QED
        BY <1>t, <4>1, <4>2 DEF TypeOK, Phases
    <3>3. e \notin rsvs
      BY <1>c, <3>2 DEF RegisteredWhileOwned, Owned
    <3>. QED
      BY <2>1, <3>1, <3>3 DEF Release
  <2>. QED
    BY <1>t, <2>3, <2>4, <2>5, <2>6, <2>7 DEF IInv
<1>6. ASSUME NEW e \in Execs, Heartbeat(e) PROVE IInv'
  <2>1. /\ (proc = "up" /\ Owned(e)) \/ lease' = lease
        /\ \A f \in Execs : lease'[f] # lease[f] => f = e /\ lease'[f] = "late"
        /\ UNCHANGED <<rowVars, phase, taskOf, outcome, running, res, proc, reaper, claims>>
    BY <1>6, <1>t DEF Heartbeat, TypeOK
  <2>2. Tokens' /\ LoopHolds' /\ DownGone' /\ IsolatedOutcome' /\ AbsentUntried'
        /\ RegisteredWhileOwned' /\ WaitingHasAttemptsLeft'
    BY <1>c, <2>1
       DEF Tokens, LoopHolds, DownGone, IsolatedOutcome, AbsentUntried,
           RegisteredWhileOwned, WaitingHasAttemptsLeft, Owned
  <2>3. Claimed'
    BY <1>6, <1>c, <1>t, <2>1 DEF Claimed, Heartbeat, TypeOK, Execs
  <2>4. ReaperLapsed'
    BY <1>c, <1>t, <2>1 DEF ReaperLapsed, TypeOK
  <2>5. FreshLeaseHoldsReservation'
    BY <1>c, <1>t, <2>1 DEF FreshLeaseHoldsReservation, Owned
  <2>. QED
    BY <1>t, <2>2, <2>3, <2>4, <2>5 DEF IInv
<1>7. ASSUME NEW e \in Execs, CommitAtomically(e) PROVE IInv'
  <2>1. taskOf[e] \in Tasks /\ SetRow(taskOf[e], "done")
        /\ UNCHANGED <<attempts, phase, taskOf, running, claims, res, lease, proc, reaper>>
    BY <1>7 DEF CommitAtomically, Owned
  <2>2. \A f \in Execs : phase[f] = "isolating" => outcome'[f] = outcome[f]
    BY <1>7, <1>t DEF CommitAtomically, TypeOK
  <2>. QED
    <3>1. /\ \A u \in {taskOf[e]} : status'[u] = "done" /\ owner'[u] = NoExec
          /\ \A u \in Tasks \ {taskOf[e]} : status'[u] = status[u] /\ owner'[u] = owner[u]
      BY <1>t, <2>1, SetRowDisowns
    <3>2. {taskOf[e]} \in SUBSET Tasks
      BY <2>1
    <3>. QED
      BY <1>t, <2>1, <2>2, <3>1, <3>2, DisownStep DEF Terminal
<1>8. ASSUME NEW e \in Execs, ExecReturn(e) PROVE IInv'
  <2>1. /\ phase[e] = "running" /\ phase' = [phase EXCEPT ![e] = "finishing"]
        /\ \A f \in Execs \ {e} : outcome'[f] = outcome[f]
        /\ UNCHANGED <<rowVars, taskOf, running, leaseVars, proc, reaper, claims>>
    BY <1>8, <1>t DEF ExecReturn, Move, TypeOK
  <2>2. Tokens' /\ ReaperLapsed' /\ AbsentUntried' /\ WaitingHasAttemptsLeft'
    BY <1>c, <2>1 DEF Tokens, ReaperLapsed, AbsentUntried, WaitingHasAttemptsLeft
  <2>3. Claimed' /\ LoopHolds' /\ DownGone' /\ IsolatedOutcome'
    BY <1>t, <1>c, <2>1
       DEF Claimed, LoopHolds, DownGone, IsolatedOutcome, TypeOK, InLoop, Execs
  <2>4. RegisteredWhileOwned' /\ FreshLeaseHoldsReservation'
    BY <1>t, <1>c, <2>1
       DEF RegisteredWhileOwned, FreshLeaseHoldsReservation, TypeOK, Owned, Registered
  <2>. QED
    BY <1>t, <2>2, <2>3, <2>4 DEF IInv
<1>9. ASSUME NEW e \in Execs, Write(e) PROVE IInv'
  <2> DEFINE p == IF phase[e] = "isolating" THEN "handedOff" ELSE "cleanup"
  <2>1. /\ phase[e] \in {"finishing", "isolating"} /\ phase' = [phase EXCEPT ![e] = p]
        /\ outcome' = [outcome EXCEPT ![e] = "none"]
        /\ UNCHANGED <<attempts, taskOf, running, lease, proc, reaper, claims>>
    BY <1>9 DEF Write, Move, Forget
  <2>2. p \in {"handedOff", "cleanup"}
    OBVIOUS
  <2>3. Claimed' /\ DownGone' /\ ReaperLapsed' /\ IsolatedOutcome'
    <3>1. DownGone' /\ ReaperLapsed' /\ IsolatedOutcome'
      BY <1>t, <1>c, <2>1, <2>2 DEF DownGone, ReaperLapsed, IsolatedOutcome, TypeOK
    <3>2. \A f \in Execs : res'[f] # res[f] => f = e
      BY <1>9, <1>t DEF Write, Release, TypeOK
    <3>3. e <= claims
      BY <1>t, <1>c, <2>1 DEF Claimed, TypeOK, Execs
    <3>4. Claimed'
      BY <1>t, <1>c, <2>1, <2>2, <3>2, <3>3 DEF Claimed, TypeOK, Execs
    <3>. QED
      BY <3>1, <3>4
  <2>4. CASE Writes(e)
    <3> DEFINE t == taskOf[e]
    <3>1. t \in Tasks /\ owner[t] = e /\ SetRow(t, Settled(e)) /\ Release({e})
      BY <1>9, <2>4 DEF Write, Writes, Owned
    <3>2. /\ Settled(e) \in {"waiting", "done", "failed", "cancelled"}
          /\ Settled(e) = "waiting" => attempts[t] < MaxAttempts[TypeOf[t]]
      BY <1>t, <2>4, <3>1, TasksAssumption, BudgetAssumption DEF Writes, Settled, TypeOK
    <3> HIDE DEF t
    <3>3. /\ status'[t] = Settled(e) /\ owner'[t] = NoExec
          /\ \A u \in Tasks \ {t} : status'[u] = status[u] /\ owner'[u] = owner[u]
      BY <1>t, <3>1, SetRowDisowns
    <3>4. Tokens' /\ LoopHolds' /\ RegisteredWhileOwned'
          /\ \A f \in Execs : Owned(f)' => Owned(f) /\ f # e
      <4>1. \A f \in Execs : Owned(f)' => Owned(f) /\ f # e
        BY <2>1, <3>1, <3>3 DEF Owned, Execs, NoExec, t
      <4>2. Tokens'
        BY <1>t, <1>c, <2>1, <3>1, <3>2, <3>3 DEF Tokens
      <4>3. LoopHolds'
        BY <1>t, <1>c, <2>1, <2>2, <3>1, <3>3
           DEF LoopHolds, TypeOK, InLoop, Claimed, Execs, NoExec
      <4>4. RegisteredWhileOwned'
        BY <1>t, <1>c, <2>1, <4>1 DEF RegisteredWhileOwned, TypeOK
      <4>. QED
        BY <4>1, <4>2, <4>3, <4>4
    <3>5. AbsentUntried' /\ WaitingHasAttemptsLeft'
      BY <1>c, <2>1, <3>1, <3>2, <3>3 DEF AbsentUntried, WaitingHasAttemptsLeft
    <3>6. FreshLeaseHoldsReservation'
      BY <1>t, <1>c, <2>1, <3>1, <3>4 DEF FreshLeaseHoldsReservation, TypeOK, Release
    <3>. QED
      BY <1>t, <2>3, <3>4, <3>5, <3>6 DEF IInv
  <2>5. CASE ~Writes(e)
    <3>1. UNCHANGED <<status, owner, res>>
      BY <1>9, <2>5 DEF Write
    <3>2. Tokens' /\ AbsentUntried' /\ WaitingHasAttemptsLeft'
      BY <1>c, <2>1, <3>1 DEF Tokens, AbsentUntried, WaitingHasAttemptsLeft
    <3>3. LoopHolds' /\ RegisteredWhileOwned' /\ FreshLeaseHoldsReservation'
      BY <1>t, <1>c, <2>1, <2>2, <3>1
         DEF LoopHolds, RegisteredWhileOwned, FreshLeaseHoldsReservation, TypeOK, Owned,
             Registered, InLoop
    <3>. QED
      BY <1>t, <2>3, <3>2, <3>3 DEF IInv
  <2>. QED
    BY <2>4, <2>5
<1>10. CASE Restart
  <2> DEFINE rows == {t \in Tasks : status[t] = "running"}
  <2>1. /\ proc = "down" /\ proc' = "up" /\ SetRows(rows, Recovered) /\ Release(Execs)
        /\ UNCHANGED <<attempts, execVars, lease, reaper, claims>>
    BY <1>10 DEF Restart
  <2>2. /\ rows \in SUBSET Tasks
        /\ \A t \in rows : /\ status'[t] \in {"cancelled", "failed", "waiting"}
                           /\ status'[t] = Recovered(t) /\ owner'[t] = NoExec
        /\ \A t \in Tasks \ rows : status'[t] = status[t] /\ owner'[t] = owner[t]
    BY <1>t, <2>1 DEF SetRows, Recovered, TypeOK
  <2>3. Tokens' /\ LoopHolds' /\ RegisteredWhileOwned'
    BY <2>1, <2>2, DisownKeeps
  <2>4. Claimed'
    BY <1>c, <1>t, <2>1 DEF Claimed, Release, TypeOK
  <2>5. DownGone' /\ ReaperLapsed' /\ IsolatedOutcome'
    BY <1>c, <2>1 DEF DownGone, ReaperLapsed, IsolatedOutcome
  <2>6. AbsentUntried' /\ WaitingHasAttemptsLeft'
    <3>1. \A t \in rows : status'[t] = "waiting" => attempts[t] < MaxAttempts[TypeOf[t]]
      BY <1>t, <2>2, MaxAttemptsPositive DEF Recovered, TypeOK
    <3>2. AbsentUntried'
      BY <1>c, <2>1, <2>2 DEF AbsentUntried
    <3>3. WaitingHasAttemptsLeft'
      BY <1>c, <2>1, <2>2, <3>1 DEF WaitingHasAttemptsLeft
    <3>. QED
      BY <3>2, <3>3
  <2>7. \A t \in Tasks : owner'[t] = NoExec
    BY <1>c, <2>2 DEF Tokens
  <2>8. FreshLeaseHoldsReservation'
    BY <2>1, <2>7 DEF FreshLeaseHoldsReservation, Owned, Execs, NoExec
  <2>. QED
    BY <1>t, <2>3, <2>4, <2>5, <2>6, <2>8 DEF IInv
<1>11. CASE CancelScan
  <2> DEFINE S == {t \in inScan \ Published : Live(t)}
  <2>1. S \in SUBSET Tasks
    BY <1>t DEF TypeOK
  <2>2. /\ \A t \in S : status'[t] = "cancelled" /\ owner'[t] = NoExec
        /\ \A t \in Tasks \ S : status'[t] = status[t] /\ owner'[t] = owner[t]
        /\ UNCHANGED <<attempts, execVars, leaseVars, proc, reaper, claims>>
    BY <1>11, <2>1 DEF CancelScan, SetRows
  <2>. QED
    BY <1>t, <2>1, <2>2, DisownStep DEF Terminal
<1>12. ASSUME NEW t \in Tasks, CancelRow(t) PROVE IInv'
  <2>1. SetRow(t, "cancelled")
        /\ UNCHANGED <<attempts, execVars, leaseVars, proc, reaper, claims>>
    BY <1>12 DEF CancelRow
  <2>2. /\ \A u \in {t} : status'[u] = "cancelled" /\ owner'[u] = NoExec
        /\ \A u \in Tasks \ {t} : status'[u] = status[u] /\ owner'[u] = owner[u]
    BY <1>t, <2>1, SetRowDisowns
  <2>. QED
    BY <1>t, <2>1, <2>2, {t} \in SUBSET Tasks, DisownStep DEF Terminal
<1>13. ASSUME NEW t \in Tasks, ForceWrite(t) PROVE IInv'
  <2>1. UNCHANGED <<attempts, execVars, leaseVars, proc, reaper, claims>>
    BY <1>13 DEF ForceWrite
  <2>2. CASE SetRow(t, "cancelled")
    <3>1. /\ \A u \in {t} : status'[u] = "cancelled" /\ owner'[u] = NoExec
          /\ \A u \in Tasks \ {t} : status'[u] = status[u] /\ owner'[u] = owner[u]
      BY <1>t, <2>2, SetRowDisowns
    <3>. QED
      BY <1>t, <2>1, <3>1, {t} \in SUBSET Tasks, DisownStep DEF Terminal
  <2>3. CASE UNCHANGED <<status, owner>>
    BY <1>t, <2>1, <2>3, DisownStep, {} \in SUBSET Tasks
  <2>. QED
    BY <1>13, <2>2, <2>3 DEF ForceWrite
<1>14. ASSUME NEW t \in Tasks, Reset(t) \/ Retry(t) PROVE IInv'
  <2>1. /\ SetRow(t, "waiting") /\ attempts' = [attempts EXCEPT ![t] = 0]
        /\ UNCHANGED <<execVars, leaseVars, proc, reaper, claims>>
    BY <1>14 DEF Reset, Retry
  <2>2. \A u \in {t} : attempts'[u] < MaxAttempts[TypeOf[u]]
    BY <1>t, <2>1, MaxAttemptsPositive DEF TypeOK
  <2>3. \A u \in Tasks \ {t} : attempts'[u] = attempts[u]
    BY <1>t, <2>1 DEF TypeOK
  <2>4. /\ \A u \in {t} : status'[u] = "waiting" /\ owner'[u] = NoExec
        /\ \A u \in Tasks \ {t} : status'[u] = status[u] /\ owner'[u] = owner[u]
    BY <1>t, <2>1, SetRowDisowns
  <2>. QED
    BY <1>t, <2>1, <2>2, <2>3, <2>4, {t} \in SUBSET Tasks, DisownStep
<1>15. ASSUME \/ \E t \in Tasks : CancelTask(t) \/ ForceStop(t)
              \/ \E e \in Execs : LoseClaim(e) \/ Stall(e) \/ CommitUnknown(e)
                                  \/ Unresponsive(e) \/ WriteLost(e) \/ LateReturn(e)
                                  \/ Unregister(e) \/ ReleaseAtEnd(e) \/ Lapse(e)
                                  \/ ReaperRelease(e)
              \/ \E ty \in Types : SetControl(ty)
              \/ ReaperScan \/ Shutdown \/ Down \/ CancelScanMemory \/ UNCHANGED vars
       PROVE  IInv'
  <2>1. UNCHANGED <<status, owner, attempts, taskOf, claims>>
    BY <1>15
       DEF CancelTask, ForceStop, LoseClaim, Stall, CommitUnknown, Unresponsive, WriteLost,
           LateReturn, Unregister, ReleaseAtEnd, Lapse, ReaperRelease, SetControl,
           ReaperScan, Shutdown, Down, CancelScanMemory, vars
  <2>. QED
    BY <1>t, <1>15, <2>1, QuietStep
<1>. QED
  BY <1>1, <1>2, <1>3, <1>4, <1>5, <1>6, <1>7, <1>8, <1>9, <1>10, <1>11, <1>12, <1>13,
     <1>14, <1>15
     DEF Next, LoopStep, Execution, Admin

LEMMA IInvHolds == Spec => []IInv
BY IInvInit, IInvStep, PTL DEF Spec

-----------------------------------------------------------------------------
(* What follows from the invariant alone.                                  *)

(* However executions of one task overlap, the dispatcher's map finds the  *)
(* one that holds the row's token.                                         *)
THEOREM RegistrationCorrect == Spec => []RegisteredWhileOwned
<1>1. IInv => RegisteredWhileOwned
  BY DEF IInv
<1>. QED
  BY <1>1, IInvHolds, PTL

(* An execution with a fresh lease keeps its reservation through recovery, *)
(* reconciliation and the ends of its predecessors.                        *)
THEOREM ReservationCorrect == Spec => []FreshLeaseHoldsReservation
<1>1. IInv => FreshLeaseHoldsReservation
  BY DEF IInv
<1>. QED
  BY <1>1, IInvHolds, PTL

(* No path back to waiting leaves a row that claims would pass over.       *)
THEOREM AttemptsCorrect == Spec => []WaitingHasAttemptsLeft
<1>1. IInv => WaitingHasAttemptsLeft
  BY DEF IInv
<1>. QED
  BY <1>1, IInvHolds, PTL

-----------------------------------------------------------------------------
(* Admission: the type limit.                                              *)

LEMMA ExecsFinite == \A S \in SUBSET Execs : IsFiniteSet(S) /\ Cardinality(S) \in Nat
<1>1. IsFiniteSet(Execs)
  BY BoundAssumption, 1 \in Int, MaxExec \in Int, FS_Interval DEF Execs
<1>. QED
  BY <1>1, FS_Subset, FS_CardinalityType

(* Only a claim makes a reservation fresh; every other step can only take  *)
(* freshness away.                                                         *)
LEMMA FreshShrinks ==
  ASSUME IInv, [Next]_vars, \A t \in Tasks : ~Claim(t)
  PROVE  taskOf' = taskOf /\ \A ty \in Types : Fresh(ty)' \subseteq Fresh(ty)
<1> USE DEF rowVars, execVars, leaseVars, envVars, timers, counters
<1>1. TypeOK
  BY DEF IInv
<1>2. \/ UNCHANGED <<res, lease, taskOf>>
      \/ taskOf' = taskOf /\ UNCHANGED lease /\ (Recover \/ Restart)
      \/ \E e \in Execs : /\ taskOf' = taskOf
                          /\ \/ UNCHANGED lease /\ (Write(e) \/ ReleaseAtEnd(e) \/ ReaperRelease(e))
                             \/ UNCHANGED res /\ (Heartbeat(e) \/ Lapse(e))
  <2>1. CASE UNCHANGED vars
    BY <2>1 DEF vars
  <2>2. CASE \E t \in Tasks : Enqueue(t) \/ Claim(t) \/ Admin(t)
    BY <2>2 DEF Enqueue, Admin, CancelRow, CancelTask, ForceWrite, ForceStop, Reset, Retry
  <2>3. ASSUME NEW e \in Execs, LoopStep(e)
        PROVE  UNCHANGED <<res, lease, taskOf>>
    BY <2>3 DEF LoopStep, Verify, LoseClaim, Launch
  <2>4. ASSUME NEW e \in Execs, Execution(e)
        PROVE  \/ UNCHANGED <<res, lease, taskOf>>
               \/ /\ taskOf' = taskOf
                  /\ \/ UNCHANGED lease /\ (Write(e) \/ ReleaseAtEnd(e))
                     \/ UNCHANGED res /\ Heartbeat(e)
    <3>1. CASE Heartbeat(e) \/ Write(e) \/ ReleaseAtEnd(e)
      BY <3>1 DEF Heartbeat, Write, ReleaseAtEnd
    <3>2. CASE ~(Heartbeat(e) \/ Write(e) \/ ReleaseAtEnd(e))
      BY <2>4, <3>2 DEF Execution, Stall, CommitAtomically, CommitUnknown, ExecReturn,
                        Unresponsive, WriteLost, LateReturn, Unregister
    <3>. QED
      BY <3>1, <3>2
  <2>5. ASSUME NEW e \in Execs, Lapse(e) \/ ReaperRelease(e)
        PROVE  /\ taskOf' = taskOf
               /\ \/ UNCHANGED lease /\ ReaperRelease(e)
                  \/ UNCHANGED res /\ Lapse(e)
    BY <2>5 DEF Lapse, ReaperRelease
  <2>6. CASE Recover \/ Restart
    BY <2>6 DEF Recover, Restart
  <2>7. CASE ReaperScan \/ Shutdown \/ Down
    BY <2>7 DEF ReaperScan, Shutdown, Down
  <2>8. CASE CancelScan \/ CancelScanMemory
    BY <2>8 DEF CancelScan, CancelScanMemory, SetRows
  <2>9. CASE \E ty \in Types : SetControl(ty)
    BY <2>9 DEF SetControl
  <2>. QED
    BY <2>1, <2>2, <2>3, <2>4, <2>5, <2>6, <2>7, <2>8, <2>9 DEF Next
<1>3. \A e \in Execs : res'[e] = "active" => res[e] = "active"
  <2>1. CASE Recover
    BY <1>1, <2>1 DEF Recover, Release, TypeOK
  <2>2. CASE Restart
    BY <1>1, <2>2 DEF Restart, Release, TypeOK
  <2>3. ASSUME NEW e \in Execs, Write(e) \/ ReleaseAtEnd(e) \/ ReaperRelease(e)
        PROVE  \A f \in Execs : res'[f] = "active" => res[f] = "active"
    BY <1>1, <2>3 DEF Write, ReleaseAtEnd, ReaperRelease, Release, TypeOK
  <2>. QED
    BY <1>2, <2>1, <2>2, <2>3
<1>4. \A e \in Execs : lease'[e] = "live" => lease[e] = "live"
  <2>1. ASSUME NEW e \in Execs, Heartbeat(e) \/ Lapse(e)
        PROVE  \A f \in Execs : lease'[f] = "live" => lease[f] = "live"
    BY <1>1, <2>1 DEF Heartbeat, Lapse, TypeOK
  <2>. QED
    BY <1>2, <2>1
<1>5. taskOf' = taskOf
  BY <1>2
<1>. QED
  BY <1>3, <1>4, <1>5 DEF Fresh

LEMMA LimitInit == Init => FreshWithinLimit
<1> SUFFICES ASSUME Init, NEW ty \in Types PROVE Cardinality(Fresh(ty)) <= Limit[ty]
  BY DEF FreshWithinLimit
<1>1. Fresh(ty) = {}
  BY DEF Init, Fresh
<1>. QED
  BY <1>1, FS_EmptySet, BudgetAssumption

LEMMA LimitStep == IInv /\ FreshWithinLimit /\ [Next]_vars => FreshWithinLimit'
<1> SUFFICES ASSUME IInv, FreshWithinLimit, [Next]_vars, NEW ty \in Types
             PROVE  Cardinality(Fresh(ty)') <= Limit[ty]
  BY DEF FreshWithinLimit
<1>1. Limit[ty] \in Nat
  BY BudgetAssumption
<1>2. Cardinality(Fresh(ty)) <= Limit[ty] /\ Cardinality(Fresh(ty)) \in Nat /\ IsFiniteSet(Fresh(ty))
  BY ExecsFinite, Fresh(ty) \in SUBSET Execs DEF FreshWithinLimit, Fresh
<1>3. CASE \A t \in Tasks : ~Claim(t)
  <2>1. Fresh(ty)' \in SUBSET Fresh(ty)
    BY <1>3, FreshShrinks
  <2>2. Cardinality(Fresh(ty)') <= Cardinality(Fresh(ty)) /\ Cardinality(Fresh(ty)') \in Nat
    BY <1>2, <2>1, FS_Subset, FS_CardinalityType
  <2>. QED
    BY <1>1, <1>2, <2>2
<1>4. ASSUME NEW t \in Tasks, Claim(t) PROVE Cardinality(Fresh(ty)') <= Limit[ty]
  <2> DEFINE e == claims + 1
  <2>1. /\ e \in Execs
        /\ taskOf' = [taskOf EXCEPT ![e] = t]
        /\ res' = [res EXCEPT ![e] = "active"]
        /\ lease' = [lease EXCEPT ![e] = "live"]
        /\ WithinType(TypeOf[t]) /\ TypeOK /\ Claimed
    BY <1>4, BoundAssumption DEF Claim, IInv, TypeOK, Execs, Admits
  <2> HIDE DEF e
  <2>2. CASE TypeOf[t] # ty
    <3>1. Fresh(ty)' \in SUBSET Fresh(ty)
      BY <2>1, <2>2 DEF Fresh, TypeOK
    <3>2. Cardinality(Fresh(ty)') <= Cardinality(Fresh(ty)) /\ Cardinality(Fresh(ty)') \in Nat
      BY <1>2, <3>1, FS_Subset, FS_CardinalityType
    <3>. QED
      BY <1>1, <1>2, <3>2
  <2>3. CASE TypeOf[t] = ty
    <3>1. Fresh(ty)' \in SUBSET (CountedOf(ty) \cup {e})
      BY <2>1, <2>3 DEF Fresh, CountedOf, Counted, TypeOK
    <3>2. IsFiniteSet(CountedOf(ty)) /\ Cardinality(CountedOf(ty)) \in Nat
      BY ExecsFinite, CountedOf(ty) \in SUBSET Execs DEF CountedOf, Counted
    <3>3. Cardinality(CountedOf(ty)) < Limit[ty]
      BY <2>1, <2>3 DEF WithinType
    <3>4. /\ IsFiniteSet(CountedOf(ty) \cup {e})
          /\ Cardinality(CountedOf(ty) \cup {e}) \in
                {Cardinality(CountedOf(ty)), Cardinality(CountedOf(ty)) + 1}
      BY <3>2, FS_AddElement
    <3>5. /\ Cardinality(Fresh(ty)') <= Cardinality(CountedOf(ty) \cup {e})
          /\ Cardinality(Fresh(ty)') \in Nat
      BY <3>1, <3>4, FS_Subset, FS_CardinalityType
    <3>. QED
      BY <1>1, <3>2, <3>3, <3>4, <3>5
  <2>. QED
    BY <2>2, <2>3
<1>. QED
  BY <1>3, <1>4

(* Claims never hand out more slots of a type than its concurrency limit,  *)
(* as long as leases are renewed in time.                                  *)
THEOREM LimitCorrect == Spec => []FreshWithinLimit
BY LimitInit, LimitStep, IInvHolds, PTL DEF Spec

-----------------------------------------------------------------------------
(* Admission: resource and provider budgets.                               *)

(* The units held by finitely many reservations can be counted, ...        *)
LEMMA UnitsFinite ==
  ASSUME NEW r \in Resources, NEW S \in SUBSET Execs, \A e \in S : taskOf[e] \in Tasks
  PROVE  IsFiniteSet(Units(r, S)) /\ Cardinality(Units(r, S)) \in Nat
<1> DEFINE f == [e \in S |-> {e} \X (1..Cost[TypeOf[taskOf[e]]][r])]
           I == {f[e] : e \in S}
<1>1. \A e \in S : IsFiniteSet(f[e])
  <2> SUFFICES ASSUME NEW e \in S PROVE IsFiniteSet({e} \X (1..Cost[TypeOf[taskOf[e]]][r]))
    OBVIOUS
  <2>1. Cost[TypeOf[taskOf[e]]][r] \in Nat
    BY TasksAssumption, BudgetAssumption
  <2>2. IsFiniteSet({e}) /\ IsFiniteSet(1..Cost[TypeOf[taskOf[e]]][r])
    BY <2>1, 1 \in Int, Cost[TypeOf[taskOf[e]]][r] \in Int, FS_Singleton, FS_Interval
  <2>. QED
    BY <2>2, FS_Product
<1>2. IsFiniteSet(S)
  BY ExecsFinite
<1>3. f \in Surjection(S, I)
  BY DEF Surjection
<1>4. IsFiniteSet(I)
  <2> HIDE DEF f, I
  <2>. QED
    BY <1>2, <1>3, FS_Surjection
<1>5. IsFiniteSet(UNION I)
  <2>1. \A T \in I : IsFiniteSet(T)
    BY <1>1
  <2> HIDE DEF I
  <2>. QED
    BY <1>4, <2>1, FS_UNION
<1>6. Units(r, S) = UNION I
  BY DEF Units
<1>. QED
  BY <1>5, <1>6, FS_CardinalityType

(* ... and one more reservation adds what its type costs.                  *)
LEMMA UnitsAdd ==
  ASSUME NEW U, IsFiniteSet(U), Cardinality(U) \in Nat, NEW e, NEW c \in Nat
  PROVE  /\ IsFiniteSet(U \cup ({e} \X (1..c)))
         /\ Cardinality(U \cup ({e} \X (1..c))) \in Nat
         /\ Cardinality(U \cup ({e} \X (1..c))) <= Cardinality(U) + c
<1> DEFINE V == {e} \X (1..c)
<1>1. IsFiniteSet({e}) /\ Cardinality({e}) = 1
  BY FS_Singleton
<1>2. IsFiniteSet(1..c) /\ Cardinality(1..c) = c
  <2>1. 1 \in Int /\ c \in Int
    OBVIOUS
  <2>2. IsFiniteSet(1..c) /\ Cardinality(1..c) = IF 1 > c THEN 0 ELSE c - 1 + 1
    BY <2>1, FS_Interval
  <2>3. (IF 1 > c THEN 0 ELSE c - 1 + 1) = c
    OBVIOUS
  <2>. QED
    BY <2>2, <2>3
<1>3. IsFiniteSet(V) /\ Cardinality(V) = c
  <2>1. IsFiniteSet(V) /\ Cardinality(V) = Cardinality({e}) * Cardinality(1..c)
    BY <1>1, <1>2, FS_Product
  <2>. QED
    BY <1>1, <1>2, <2>1
<1> HIDE DEF V
<1>4. /\ IsFiniteSet(U \cup V)
      /\ Cardinality(U \cup V) = Cardinality(U) + Cardinality(V) - Cardinality(U \cap V)
  BY <1>3, FS_Union
<1>5. Cardinality(U \cap V) \in Nat /\ Cardinality(U \cup V) \in Nat
  BY <1>3, <1>4, FS_Subset, FS_CardinalityType, U \cap V \in SUBSET V
<1>. QED
  BY <1>3, <1>4, <1>5 DEF V

(* The reservations of the property, over all types.                       *)
AllFresh == UNION {Fresh(ty) : ty \in Types}

LEMMA CapacityInit == Init => FreshWithinCapacity
<1> SUFFICES ASSUME Init, NEW r \in Resources
             PROVE  Cardinality(Units(r, AllFresh)) <= Capacity[r]
  BY DEF FreshWithinCapacity, AllFresh
<1>1. Units(r, AllFresh) = {}
  BY DEF Init, Fresh, AllFresh, Units
<1>. QED
  BY <1>1, FS_EmptySet, BudgetAssumption

LEMMA CapacityStep == IInv /\ FreshWithinCapacity /\ [Next]_vars => FreshWithinCapacity'
<1> SUFFICES ASSUME IInv, FreshWithinCapacity, [Next]_vars, NEW r \in Resources, Capacity[r] > 0
             PROVE  Cardinality(Units(r, AllFresh)') <= Capacity[r]
  BY DEF FreshWithinCapacity, AllFresh
<1>1. Capacity[r] \in Nat /\ TypeOK /\ Claimed
  BY BudgetAssumption DEF IInv
<1>2. \A e \in Execs : res[e] = "active" => taskOf[e] \in Tasks /\ e <= claims
  BY <1>1, BoundAssumption DEF Claimed, TypeOK, Execs
<1>3. AllFresh \in SUBSET Execs /\ \A e \in AllFresh : res[e] = "active" /\ taskOf[e] \in Tasks
  BY <1>2 DEF AllFresh, Fresh
<1>4. /\ IsFiniteSet(Units(r, AllFresh)) /\ Cardinality(Units(r, AllFresh)) \in Nat
      /\ Cardinality(Units(r, AllFresh)) <= Capacity[r]
  BY <1>3, UnitsFinite DEF FreshWithinCapacity, AllFresh
<1>5. CASE \A t \in Tasks : ~Claim(t)
  <2>1. taskOf' = taskOf /\ AllFresh' \subseteq AllFresh
    BY <1>5, FreshShrinks DEF AllFresh
  <2>2. Units(r, AllFresh)' \in SUBSET Units(r, AllFresh)
    BY <2>1 DEF Units
  <2>3. /\ Cardinality(Units(r, AllFresh)') <= Cardinality(Units(r, AllFresh))
        /\ Cardinality(Units(r, AllFresh)') \in Nat
    BY <1>4, <2>2, FS_Subset, FS_CardinalityType
  <2>. QED
    BY <1>1, <1>4, <2>3
<1>6. ASSUME NEW t \in Tasks, Claim(t) PROVE Cardinality(Units(r, AllFresh)') <= Capacity[r]
  <2> DEFINE e == claims + 1
             c == Cost[TypeOf[t]][r]
  <2>1. /\ e \in Execs /\ ~(e <= claims)
        /\ taskOf' = [taskOf EXCEPT ![e] = t]
        /\ res' = [res EXCEPT ![e] = "active"]
        /\ lease' = [lease EXCEPT ![e] = "live"]
        /\ WithinResources(TypeOf[t])
    BY <1>1, <1>6, BoundAssumption DEF Claim, TypeOK, Execs, Admits
  <2> HIDE DEF e
  <2>2. TypeOf[t] \in Types /\ c \in Nat
    BY TasksAssumption, BudgetAssumption
  <2>3. e \notin AllFresh /\ AllFresh' \subseteq AllFresh \cup {e}
    BY <1>1, <1>2, <1>3, <2>1 DEF AllFresh, Fresh, TypeOK
  <2>4. \A x \in AllFresh : taskOf'[x] = taskOf[x]
    BY <1>1, <1>3, <2>1, <2>3 DEF TypeOK
  <2>5. taskOf'[e] = t
    BY <1>1, <2>1 DEF TypeOK
  <2>6. Units(r, AllFresh)' \in SUBSET (Units(r, AllFresh) \cup ({e} \X (1..c)))
    BY <2>3, <2>4, <2>5 DEF Units
  <2>7. CASE c = 0
    <3>1. Units(r, AllFresh)' \in SUBSET Units(r, AllFresh)
      <4>1. 1..c = {}
        BY <2>7
      <4>. QED
        BY <2>6, <4>1
    <3>2. /\ Cardinality(Units(r, AllFresh)') <= Cardinality(Units(r, AllFresh))
          /\ Cardinality(Units(r, AllFresh)') \in Nat
      BY <1>4, <3>1, FS_Subset, FS_CardinalityType
    <3>. QED
      BY <1>1, <1>4, <3>2
  <2>8. CASE c # 0
    <3>1. Usage(r) + c <= Capacity[r]
      BY <2>1, <2>2, <2>8 DEF WithinResources
    <3>2. Counted \in SUBSET Execs /\ \A x \in Counted : taskOf[x] \in Tasks
      BY <1>2 DEF Counted
    <3>3. IsFiniteSet(Units(r, Counted)) /\ Cardinality(Units(r, Counted)) \in Nat
      BY <3>2, UnitsFinite
    <3>4. AllFresh \subseteq Counted
      BY DEF AllFresh, Fresh, Counted
    <3>5. Units(r, AllFresh) \subseteq Units(r, Counted)
      BY <3>4 DEF Units
    <3> DEFINE U == Units(r, Counted)
               V == U \cup ({e} \X (1..c))
               W == Units(r, AllFresh)'
    <3>6. IsFiniteSet(V) /\ Cardinality(V) \in Nat /\ Cardinality(V) <= Cardinality(U) + c
      BY <2>2, <3>3, UnitsAdd
    <3>7. W \in SUBSET V
      BY <2>6, <3>5
    <3> HIDE DEF c, V, W
    <3>8. Cardinality(W) <= Cardinality(V) /\ Cardinality(W) \in Nat
      BY <3>6, <3>7, FS_Subset, FS_CardinalityType
    <3>9. Cardinality(U) + c <= Capacity[r]
      BY <3>1 DEF Usage
    <3> HIDE DEF U
    <3>10. Cardinality(W) <= Capacity[r]
      BY <1>1, <2>2, <3>3, <3>6, <3>8, <3>9 DEF U
    <3>. QED
      BY <3>10 DEF W
  <2>. QED
    BY <2>7, <2>8
<1>. QED
  BY <1>5, <1>6

(* Nor do they hand out more of a resource or provider than its capacity,  *)
(* whatever the types that share it.                                       *)
THEOREM CapacityCorrect == Spec => []FreshWithinCapacity
BY CapacityInit, CapacityStep, IInvHolds, PTL DEF Spec

-----------------------------------------------------------------------------
(* What a step may never do to a row.                                      *)

(* Only these steps change the rows; an execution that writes its row      *)
(* holds the row's token, so the row is running.                           *)
LEMMA RowChange ==
  ASSUME IInv, [Next]_vars, NEW t \in Tasks, status'[t] # status[t]
  PROVE  \/ Enqueue(t) /\ status[t] = "absent" /\ status'[t] = "waiting"
         \/ Claim(t) /\ status[t] = "waiting" /\ status'[t] = "running"
         \/ Recover /\ status[t] = "running" /\ running[t] = NoExec
                    /\ status'[t] \in {"cancelled", "failed", "waiting"}
         \/ Restart /\ status[t] = "running"
                    /\ status'[t] \in {"cancelled", "failed", "waiting"}
         \/ \E e \in Execs : CommitAtomically(e) /\ owner[t] = e /\ status[t] = "running"
                             /\ status'[t] = "done"
         \/ \E e \in Execs : Write(e) /\ Writes(e) /\ owner[t] = e /\ taskOf[e] = t
                             /\ status[t] = "running" /\ status'[t] = Settled(e)
         \/ CancelScan /\ Live(t) /\ status'[t] = "cancelled"
         \/ CancelRow(t) /\ Live(t) /\ status'[t] = "cancelled"
         \/ ForceWrite(t) /\ Live(t) /\ status'[t] = "cancelled"
         \/ (Reset(t) \/ Retry(t)) /\ status'[t] = "waiting" /\ resets' > resets
<1> USE DEF rowVars, execVars, leaseVars, envVars, timers, counters
<1>t. TypeOK /\ Tokens
  BY DEF IInv
<1>1. ASSUME NEW u \in Tasks, Enqueue(u) \/ Claim(u)
      PROVE  u = t /\ (Enqueue(u) => status[t] = "absent" /\ status'[t] = "waiting")
                   /\ (Claim(u) => status[t] = "waiting" /\ status'[t] = "running")
  BY <1>1, <1>t DEF Enqueue, Claim, Eligible, TypeOK
<1>2. CASE Recover
  BY <1>2, <1>t DEF Recover, SetRows, Recovered, TypeOK
<1>3. CASE Restart
  BY <1>3, <1>t DEF Restart, SetRows, Recovered, TypeOK
<1>4. ASSUME NEW e \in Execs, CommitAtomically(e)
      PROVE  owner[t] = e /\ status[t] = "running" /\ status'[t] = "done"
  <2>1. taskOf[e] \in Tasks /\ owner[taskOf[e]] = e /\ SetRow(taskOf[e], "done")
    BY <1>4 DEF CommitAtomically, Owned
  <2>2. taskOf[e] = t /\ status'[t] = "done"
    BY <1>t, <2>1, SetRowDisowns
  <2>. QED
    BY <1>t, <2>1, <2>2 DEF Tokens, Execs, NoExec
<1>5. ASSUME NEW e \in Execs, Write(e)
      PROVE  Writes(e) /\ owner[t] = e /\ taskOf[e] = t /\ status[t] = "running"
             /\ status'[t] = Settled(e)
  <2>1. Writes(e) /\ SetRow(taskOf[e], Settled(e))
    BY <1>5 DEF Write
  <2>2. taskOf[e] \in Tasks /\ owner[taskOf[e]] = e
    BY <2>1 DEF Writes, Owned
  <2>3. taskOf[e] = t /\ status'[t] = Settled(e)
    BY <1>t, <2>1, <2>2, SetRowDisowns
  <2>. QED
    BY <1>t, <2>1, <2>2, <2>3 DEF Tokens, Execs, NoExec
<1>6. CASE CancelScan
  BY <1>6, <1>t DEF CancelScan, SetRows, TypeOK
<1>7. ASSUME NEW u \in Tasks, CancelRow(u) \/ ForceWrite(u)
      PROVE  u = t /\ Live(t) /\ status'[t] = "cancelled"
  BY <1>7, <1>t DEF CancelRow, ForceWrite, SetRow, TypeOK
<1>8. ASSUME NEW u \in Tasks, Reset(u) \/ Retry(u)
      PROVE  u = t /\ status'[t] = "waiting" /\ resets' > resets
  BY <1>8, <1>t, BoundAssumption DEF Reset, Retry, SetRow, TypeOK
<1>9. \/ UNCHANGED status \/ Recover \/ Restart \/ CancelScan
      \/ \E u \in Tasks : Enqueue(u) \/ Claim(u) \/ CancelRow(u) \/ ForceWrite(u)
                          \/ Reset(u) \/ Retry(u)
      \/ \E e \in Execs : CommitAtomically(e) \/ Write(e)
  BY DEF Next, LoopStep, Execution, Admin, vars, Verify, LoseClaim, Launch, Heartbeat,
         Stall, CommitUnknown, ExecReturn, Unresponsive, WriteLost, LateReturn, Unregister,
         ReleaseAtEnd, Lapse, ReaperScan, ReaperRelease, Shutdown, Down,
         CancelScanMemory, CancelTask, ForceStop, SetControl
<1>. QED
  BY <1>1, <1>2, <1>3, <1>4, <1>5, <1>6, <1>7, <1>8, <1>9

(* Late writes, recovery and timers leave settled rows alone.              *)
THEOREM TerminalCorrect == Spec => TerminalUntilReset
<1>1. ASSUME IInv, [Next]_vars PROVE LeftByReset
  <2> SUFFICES ASSUME NEW t \in Tasks, status[t] \in Terminal, status'[t] # status[t]
               PROVE  resets' > resets
    BY DEF LeftByReset
  <2>. QED
    BY <1>1, RowChange DEF Terminal, Live
<1>. QED
  BY <1>1, IInvHolds, PTL DEF Spec, TerminalUntilReset

(* A row is done only by the hand of the living execution that holds it.   *)
THEOREM HolderCorrect == Spec => SettledByHolder
<1>1. ASSUME IInv, [Next]_vars PROVE DoneByHolder
  <2> SUFFICES ASSUME NEW t \in Tasks, status[t] # "done", status'[t] = "done"
               PROVE  /\ owner[t] # NoExec /\ status[t] = "running"
                      /\ phase[owner[t]] \in Executing \cup {"finishing"}
    BY DEF DoneByHolder
  <2>1. \E e \in Execs : owner[t] = e /\ status[t] = "running"
                         /\ (CommitAtomically(e) \/ Write(e))
    BY <1>1, RowChange
  <2>. QED
    BY <2>1 DEF CommitAtomically, Write, Executing, Execs, NoExec
<1>. QED
  BY <1>1, IInvHolds, PTL DEF Spec, SettledByHolder

(* Recovery takes rows only from executions that are over.                 *)
THEOREM RecoveryCorrect == Spec => RecoverySparesLive
<1>1. ASSUME IInv, [Next]_vars PROVE TakenAfterEnd
  <2> SUFFICES ASSUME NEW t \in Tasks, status[t] = "running",
                      status'[t] \in {"waiting", "failed"}, resets' = resets
               PROVE  \/ phase[owner[t]] \in {"releasing", "gone"}
                      \/ /\ phase[owner[t]] = "finishing"
                         /\ outcome[owner[t]] \in {"retryable", "permanent"}
    BY DEF TakenAfterEnd
  <2>1. /\ TypeOK /\ Claimed /\ DownGone /\ IsolatedOutcome /\ RegisteredWhileOwned
        /\ resets \in Nat
    BY <1>1, BoundAssumption DEF IInv, TypeOK
  <2>2. /\ owner[t] \in Execs /\ Owned(owner[t]) /\ phase[owner[t]] \in Phases \ {"unused"}
    BY <1>1, <2>1, BoundAssumption DEF IInv, TypeOK, Tokens, Claimed, Owned, Execs, NoExec
  <2>3. \/ Recover /\ running[t] = NoExec
        \/ Restart
        \/ \E e \in Execs : owner[t] = e /\ Write(e) /\ Writes(e) /\ status'[t] = Settled(e)
    <3>1. status'[t] # status[t] /\ ~(resets' > resets)
      BY <2>1
    <3>. QED
      BY <1>1, <3>1, RowChange, Zenon
  <2>4. CASE Recover /\ running[t] = NoExec
    <3>1. phase[owner[t]] \notin InLoop
      BY <2>2, <2>4 DEF Recover, LoopFree
    <3>2. taskOf[owner[t]] = t
      BY <1>1, <2>2 DEF IInv, Tokens, NoExec, Execs
    <3>3. phase[owner[t]] \notin Registered
      BY <2>1, <2>2, <2>4, <3>2 DEF RegisteredWhileOwned, Execs, NoExec
    <3>. QED
      BY <2>2, <3>1, <3>3 DEF Phases
  <2>5. CASE Restart
    BY <2>1, <2>2, <2>5 DEF Restart, DownGone
  <2>6. ASSUME NEW e \in Execs, owner[t] = e, Write(e), Writes(e), status'[t] = Settled(e)
        PROVE  /\ phase[e] = "finishing"
               /\ outcome[e] \in {"retryable", "permanent"}
    BY <2>1, <2>2, <2>6 DEF Write, Writes, Settled, IsolatedOutcome
  <2>. QED
    BY <2>3, <2>4, <2>5, <2>6
<1>. QED
  BY <1>1, IInvHolds, PTL DEF Spec, RecoverySparesLive

-----------------------------------------------------------------------------
(* The queue implements LeasedWork.                                        *)

LEMMA PromiseInit == Init => Promise!Init
<1> SUFFICES ASSUME Init PROVE Promise!Init
  OBVIOUS
<1>1. \A e \in Execs : WorkerOf(e) = "new"
  BY DEF Init, WorkerOf, InLoop, Executing
<1>2. \A t \in Tasks : status[t] = "absent"
  BY DEF Init
<1>. QED
  BY <1>1, <1>2 DEF Init, Promise!Init

(* Steps that change neither rows nor what an execution is as a worker.    *)
LEMMA PromiseIdle ==
  ASSUME UNCHANGED <<status, owner, attempts>>,
         \A e \in Execs : WorkerOf(e)' = WorkerOf(e)
  PROVE  UNCHANGED Promise!vars
BY DEF Promise!vars

LEMMA SameWorkers ==
  ASSUME UNCHANGED phase
  PROVE  \A e \in Execs : WorkerOf(e)' = WorkerOf(e)
BY DEF WorkerOf

(* One execution moves on.                                                 *)
LEMMA WorkerMoves ==
  ASSUME TypeOK, NEW e \in Execs, NEW p, Move(e, p)
  PROVE  /\ \A f \in Execs \ {e} : WorkerOf(f)' = WorkerOf(f)
         /\ phase'[e] = p
BY DEF TypeOK, Move, WorkerOf

LEMMA WorkerEnds ==
  ASSUME TypeOK, NEW e \in Execs, NEW p \in {"cleanup", "releasing", "gone"}, Move(e, p),
         phase[e] # "unused", UNCHANGED <<status, owner, attempts>>
  PROVE  Promise!Next
<1>1. WorkerOf(e)' = "over"
  BY WorkerMoves DEF WorkerOf, InLoop, Executing
<1>2. WorkerOf(e) # "new"
  BY DEF WorkerOf, InLoop, Executing
<1>3. Promise!End({e})
  BY <1>1, <1>2, WorkerMoves DEF Promise!End
<1>. QED
  BY <1>3 DEF Promise!Next

(* Rows that lose their token.                                             *)
LEMMA Leaving ==
  ASSUME TypeOK, TypeOK', NEW S \in SUBSET Tasks,
         \A t \in S : owner'[t] = NoExec,
         \A t \in Tasks \ S : status'[t] = status[t] /\ owner'[t] = owner[t]
  PROVE  Promise!Leave(S)
BY DEF TypeOK, Promise!Leave, Promise!States, Promise!Settled, RowStates, Terminal, NoExec

(* The row of a worker that is over is taken back.                         *)
LEMMA TakenBack ==
  ASSUME TypeOK, TypeOK', NEW S \in SUBSET Tasks,
         \A t \in S : status[t] = "running" /\ WorkerOf(owner[t]) = "over",
         SetRows(S, Recovered), UNCHANGED <<attempts, phase>>,
         \A t \in S : owner[t] \in Execs
  PROVE  Promise!Next
<1>1. Promise!Leave(S)
  BY Leaving DEF SetRows
<1>2. \A t \in S : status'[t] \in {"cancelled", Promise!GivenBack(t)}
  BY BudgetAssumption, TasksAssumption DEF SetRows, Recovered, Promise!GivenBack, TypeOK
<1>3. Promise!TakeBack(S)
  BY <1>1, <1>2, SameWorkers DEF Promise!TakeBack, Promise!GivenBack
<1>. QED
  BY <1>3 DEF Promise!Next

LEMMA Cancelled ==
  ASSUME TypeOK, TypeOK', NEW S \in SUBSET Tasks,
         \A t \in S : Live(t) /\ status'[t] = "cancelled" /\ owner'[t] = NoExec,
         \A t \in Tasks \ S : status'[t] = status[t] /\ owner'[t] = owner[t],
         UNCHANGED attempts, \A e \in Execs : WorkerOf(e)' = WorkerOf(e)
  PROVE  Promise!Next
<1>1. Promise!Leave(S)
  BY Leaving
<1>2. Promise!Cancel(S)
  BY <1>1 DEF Promise!Cancel, Live
<1>. QED
  BY <1>2 DEF Promise!Next

(* A running row is held by a claimed execution; one that neither the loop *)
(* nor the dispatcher's map knows is over.                                 *)
LEMMA Held ==
  ASSUME IInv, NEW t \in Tasks, status[t] = "running"
  PROVE  /\ owner[t] \in Execs /\ taskOf[owner[t]] = t /\ phase[owner[t]] # "unused"
         /\ LoopFree /\ running[t] = NoExec => WorkerOf(owner[t]) = "over"
<1>1. owner[t] \in Execs /\ taskOf[owner[t]] = t /\ phase[owner[t]] \in Phases \ {"unused"}
  BY BoundAssumption DEF IInv, TypeOK, Tokens, Claimed, Execs, NoExec
<1>2. ASSUME LoopFree, running[t] = NoExec PROVE WorkerOf(owner[t]) = "over"
  <2>1. phase[owner[t]] \notin InLoop \cup Registered
    BY <1>1, <1>2 DEF IInv, LoopFree, RegisteredWhileOwned, Owned, Execs, NoExec
  <2>. QED
    BY <1>1, <2>1 DEF WorkerOf, Executing, Registered
<1>. QED
  BY <1>1, <1>2

(* Every step of the system is a step of LeasedWork or one that it does    *)
(* not see.                                                                *)
LEMMA PromiseStep == IInv /\ IInv' /\ [Next]_vars => [Promise!Next]_(Promise!vars)
<1> SUFFICES ASSUME IInv, IInv', [Next]_vars
             PROVE  Promise!Next \/ UNCHANGED Promise!vars
  OBVIOUS
<1> USE DEF rowVars, execVars, leaseVars, envVars, timers, counters
<1>t. TypeOK /\ TypeOK'
  BY DEF IInv
<1>1. ASSUME NEW t \in Tasks, Enqueue(t) PROVE Promise!Next
  <2>1. Promise!Offer(t)
    BY <1>1, <1>t, SameWorkers DEF Enqueue, Promise!Offer, TypeOK
  <2>. QED
    BY <2>1 DEF Promise!Next
<1>2. ASSUME NEW t \in Tasks, Claim(t) PROVE Promise!Next
  <2>. PICK e \in Execs : e = claims + 1
    BY <1>2, BoundAssumption DEF IInv, TypeOK, Claim, Execs
  <2>1. phase[e] = "unused" /\ Move(e, "claimed")
    BY <1>2, BoundAssumption DEF IInv, TypeOK, Claimed, Claim, Execs
  <2>2. WorkerOf(e) = "new" /\ WorkerOf(e)' = "working"
    BY <1>t, <2>1, WorkerMoves DEF WorkerOf, InLoop, Executing
  <2>3. \A f \in Execs \ {e} : WorkerOf(f)' = WorkerOf(f)
    BY <1>t, <2>1, WorkerMoves
  <2>4. status[t] = "waiting" /\ attempts[t] < MaxAttempts[TypeOf[t]]
    BY <1>2 DEF Claim, Eligible
  <2>5. /\ status' = [status EXCEPT ![t] = "running"] /\ owner' = [owner EXCEPT ![t] = e]
        /\ attempts' = [attempts EXCEPT ![t] = attempts[t] + 1]
    BY <1>2 DEF Claim
  <2>6. Promise!Take(t, e)
    <3> USE DEF Promise!Take
    <3>1. [f \in Execs |-> WorkerOf(f)]'
            = [[f \in Execs |-> WorkerOf(f)] EXCEPT ![e] = "working"]
      BY <2>2, <2>3
    <3>2. [u \in Tasks |-> IF status[u] = "running" THEN "held" ELSE status[u]]'
            = [[u \in Tasks |-> IF status[u] = "running" THEN "held" ELSE status[u]]
               EXCEPT ![t] = "held"]
      BY <1>t, <2>5 DEF TypeOK
    <3>. QED
      BY <2>2, <2>4, <2>5, <3>1, <3>2
  <2>. QED
    BY <2>6 DEF Promise!Next
<1>3. ASSUME NEW e \in Execs, Verify(e) PROVE Promise!Next \/ UNCHANGED Promise!vars
  <2>1. CASE Owned(e)
    BY <1>3, <1>t, <2>1, WorkerMoves, PromiseIdle DEF Verify, WorkerOf, InLoop
  <2>2. CASE ~Owned(e)
    BY <1>3, <1>t, <2>2, WorkerEnds DEF Verify
  <2>. QED
    BY <2>1, <2>2
<1>4. ASSUME NEW e \in Execs, LoseClaim(e) PROVE Promise!Next
  BY <1>4, <1>t, WorkerEnds DEF LoseClaim
<1>5. ASSUME NEW e \in Execs, Launch(e) PROVE UNCHANGED Promise!vars
  BY <1>5, <1>t, WorkerMoves, PromiseIdle DEF Launch, WorkerOf, InLoop, Executing
<1>6. CASE Recover
  <2> DEFINE rows == {t \in Tasks : /\ status[t] = "running"
                                    /\ lease[owner[t]] = "lapsed"
                                    /\ running[t] = NoExec}
  <2>1. LoopFree /\ SetRows(rows, Recovered) /\ UNCHANGED <<attempts, phase>>
    BY <1>6 DEF Recover
  <2>2. \A t \in rows : status[t] = "running" /\ owner[t] \in Execs /\ WorkerOf(owner[t]) = "over"
    BY <2>1, Held
  <2>. QED
    BY <1>t, <2>1, <2>2, TakenBack
<1>7. ASSUME NEW e \in Execs, Heartbeat(e) \/ Stall(e) \/ CommitUnknown(e)
      PROVE  UNCHANGED Promise!vars
  BY <1>7, SameWorkers, PromiseIdle DEF Heartbeat, Stall, CommitUnknown
<1>8. ASSUME NEW e \in Execs, CommitAtomically(e) PROVE Promise!Next
  <2>. PICK t \in Tasks : t = taskOf[e]
    BY <1>8 DEF CommitAtomically, Owned
  <2>1. owner[t] = e /\ SetRow(t, "done") /\ phase[e] \in Executing
    BY <1>8 DEF CommitAtomically, Owned
  <2>2. status[t] = "running" /\ WorkerOf(owner[t]) = "working"
    BY <2>1 DEF IInv, Tokens, Execs, NoExec, WorkerOf, Executing
  <2>3. Promise!Leave({t}) /\ status'[t] = "done"
    BY <1>t, <2>1, SetRowDisowns, Leaving
  <2>4. Promise!Finish(t)
    BY <1>8, <2>1, <2>2, <2>3, SameWorkers DEF CommitAtomically, Promise!Finish
  <2>. QED
    BY <2>4 DEF Promise!Next
<1>9. ASSUME NEW e \in Execs, ExecReturn(e) PROVE Promise!Next
  <2>1. WorkerOf(e) = "working" /\ WorkerOf(e)' = "decided"
    BY <1>9, <1>t, WorkerMoves DEF ExecReturn, WorkerOf, InLoop, Executing
  <2>2. Promise!Decide(e)
    BY <1>9, <1>t, <2>1, WorkerMoves DEF ExecReturn, Promise!Decide
  <2>. QED
    BY <2>2 DEF Promise!Next
<1>10. ASSUME NEW e \in Execs, Unresponsive(e) PROVE UNCHANGED Promise!vars
  BY <1>10, <1>t, WorkerMoves, PromiseIdle DEF Unresponsive, WorkerOf, InLoop, Executing
<1>11. ASSUME NEW e \in Execs, Write(e), Writes(e) PROVE Promise!Next
  <2>. PICK t \in Tasks : t = taskOf[e]
    BY <1>11 DEF Writes, Owned
  <2>1. owner[t] = e /\ SetRow(t, Settled(e))
    BY <1>11 DEF Write, Writes, Owned
  <2>2. status[t] = "running"
    BY <2>1 DEF IInv, Tokens, Execs, NoExec
  <2>3. status'[t] = Settled(e) /\ Promise!Leave({t})
    BY <1>t, <2>1, SetRowDisowns, Leaving
  <2>4. CASE phase[e] = "finishing"
    <3>1. WorkerOf(e) = "decided" /\ WorkerOf(e)' = "over"
      BY <1>11, <1>t, <2>4, WorkerMoves DEF Write, WorkerOf, InLoop, Executing
    <3>2. Settled(e) \in {"done", "failed", "cancelled", Promise!GivenBack(t)}
      BY <1>11, <1>t, <2>1, BudgetAssumption, TasksAssumption
         DEF Writes, Settled, Promise!GivenBack, TypeOK
    <3>3. Settled(e) # "running"
      BY <1>11 DEF Writes, Settled
    <3>4. Promise!Report(t, e)
      BY <1>11, <1>t, <2>1, <2>2, <2>3, <3>1, <3>2, <3>3, WorkerMoves
         DEF Write, Promise!Report, Promise!Settled, Promise!GivenBack
    <3>. QED
      BY <3>4 DEF Promise!Next
  <2>5. CASE phase[e] = "isolating"
    <3>1. Settled(e) = "cancelled"
      BY <1>11, <2>5 DEF Writes, Settled, IInv, IsolatedOutcome
    <3>2. \A f \in Execs : WorkerOf(f)' = WorkerOf(f)
      BY <1>11, <1>t, <2>5, WorkerMoves DEF Write, WorkerOf, InLoop, Executing
    <3>. QED
      BY <1>11, <1>t, <2>1, <2>2, <2>3, <3>1, <3>2, SetRowDisowns, Cancelled
         DEF Write, Live
  <2>. QED
    BY <1>11, <2>4, <2>5 DEF Write
<1>12. ASSUME NEW e \in Execs, WriteLost(e) \/ (Write(e) /\ ~Writes(e))
       PROVE  Promise!Next \/ UNCHANGED Promise!vars
  <2>1. /\ phase[e] \in {"finishing", "isolating"} /\ UNCHANGED <<status, owner, attempts>>
        /\ Move(e, IF phase[e] = "isolating" THEN "handedOff" ELSE "cleanup")
    BY <1>12 DEF WriteLost, Write
  <2>2. CASE phase[e] = "finishing"
    BY <1>t, <2>1, <2>2, WorkerEnds
  <2>3. CASE phase[e] = "isolating"
    BY <1>t, <2>1, <2>3, WorkerMoves, PromiseIdle DEF WorkerOf, InLoop, Executing
  <2>. QED
    BY <2>1, <2>2, <2>3
<1>13. ASSUME NEW e \in Execs, LateReturn(e) \/ Unregister(e) \/ ReleaseAtEnd(e)
       PROVE  Promise!Next
  BY <1>13, <1>t, WorkerEnds DEF LateReturn, Unregister, ReleaseAtEnd
<1>14. ASSUME NEW e \in Execs, Lapse(e) \/ ReaperRelease(e) PROVE UNCHANGED Promise!vars
  BY <1>14, SameWorkers, PromiseIdle DEF Lapse, ReaperRelease
<1>15. CASE ReaperScan \/ Shutdown \/ CancelScanMemory \/ UNCHANGED vars
  BY <1>15, SameWorkers, PromiseIdle DEF ReaperScan, Shutdown, CancelScanMemory, vars
<1>16. CASE Down
  <2> DEFINE W == {e \in Execs : phase[e] # "unused"}
  <2>1. \A e \in Execs : WorkerOf(e)' = IF e \in W THEN "over" ELSE WorkerOf(e)
    BY <1>16 DEF Down, WorkerOf, InLoop, Executing
  <2>2. \A e \in W : WorkerOf(e) # "new"
    BY DEF WorkerOf
  <2>3. Promise!End(W)
    BY <1>16, <2>1, <2>2 DEF Down, Promise!End
  <2>. QED
    BY <2>3 DEF Promise!Next
<1>17. CASE Restart
  <2> DEFINE rows == {t \in Tasks : status[t] = "running"}
  <2>1. proc = "down" /\ SetRows(rows, Recovered) /\ UNCHANGED <<attempts, phase>>
    BY <1>17 DEF Restart
  <2>2. \A t \in rows : status[t] = "running" /\ owner[t] \in Execs /\ WorkerOf(owner[t]) = "over"
    BY <2>1, Held DEF IInv, DownGone, WorkerOf, InLoop, Executing
  <2>. QED
    BY <1>t, <2>1, <2>2, TakenBack
<1>18. CASE CancelScan
  <2> DEFINE S == {t \in inScan \ Published : Live(t)}
  <2>1. S \in SUBSET Tasks /\ UNCHANGED <<attempts, phase>>
    BY <1>18, <1>t DEF CancelScan, SetRows, TypeOK
  <2>2. /\ \A t \in S : Live(t) /\ status'[t] = "cancelled" /\ owner'[t] = NoExec
        /\ \A t \in Tasks \ S : status'[t] = status[t] /\ owner'[t] = owner[t]
    BY <1>18, <2>1 DEF CancelScan, SetRows
  <2>. QED
    BY <1>t, <2>1, <2>2, SameWorkers, Cancelled
<1>19. ASSUME NEW t \in Tasks, CancelRow(t) \/ ForceWrite(t)
       PROVE  Promise!Next \/ UNCHANGED Promise!vars
  <2>1. UNCHANGED <<attempts, phase>>
        /\ ((Live(t) /\ SetRow(t, "cancelled")) \/ UNCHANGED <<status, owner>>)
    BY <1>19 DEF CancelRow, ForceWrite
  <2>2. CASE Live(t) /\ SetRow(t, "cancelled")
    <3>1. /\ \A u \in {t} : Live(u) /\ status'[u] = "cancelled" /\ owner'[u] = NoExec
          /\ \A u \in Tasks \ {t} : status'[u] = status[u] /\ owner'[u] = owner[u]
      BY <1>t, <2>2, SetRowDisowns
    <3>2. {t} \in SUBSET Tasks
      OBVIOUS
    <3>3. \A e \in Execs : WorkerOf(e)' = WorkerOf(e)
      BY <2>1, SameWorkers
    <3>. QED
      BY <1>t, <2>1, <3>1, <3>2, <3>3, Cancelled, Zenon
  <2>3. CASE UNCHANGED <<status, owner>>
    BY <2>1, <2>3, SameWorkers, PromiseIdle
  <2>. QED
    BY <2>1, <2>2, <2>3
<1>20. ASSUME NEW t \in Tasks, CancelTask(t) \/ ForceStop(t) PROVE UNCHANGED Promise!vars
  BY <1>20, SameWorkers, PromiseIdle DEF CancelTask, ForceStop
<1>21. ASSUME NEW t \in Tasks, Reset(t) \/ Retry(t) PROVE Promise!Next
  <2>1. /\ status[t] \in Terminal \cup {"running"} /\ SetRow(t, "waiting")
        /\ attempts' = [attempts EXCEPT ![t] = 0] /\ UNCHANGED phase
    BY <1>21 DEF Reset, Retry
  <2>2. Promise!Leave({t}) /\ status'[t] = "waiting"
    BY <1>t, <2>1, SetRowDisowns, Leaving
  <2>3. Promise!Reopen(t)
    BY <2>1, <2>2, SameWorkers DEF Promise!Reopen, Promise!Settled, Terminal
  <2>. QED
    BY <2>3 DEF Promise!Next
<1>22. ASSUME NEW ty \in Types, SetControl(ty) PROVE UNCHANGED Promise!vars
  BY <1>22, SameWorkers, PromiseIdle DEF SetControl
<1>. QED
  BY <1>1, <1>2, <1>3, <1>4, <1>5, <1>6, <1>7, <1>8, <1>9, <1>10, <1>11, <1>12, <1>13,
     <1>14, <1>15, <1>16, <1>17, <1>18, <1>19, <1>20, <1>21, <1>22
     DEF Next, LoopStep, Execution, Admin

(* The queue, its dispatcher, its recovery and its administrators together *)
(* are the plain queue of LeasedWork.                                      *)
THEOREM LeasedWorkCorrect == Spec => ImplementsLeasedWork
<1>1. Init => Promise!Init
  BY PromiseInit
<1>2. IInv /\ IInv' /\ [Next]_vars => [Promise!Next]_(Promise!vars)
  BY PromiseStep
<1>. QED
  BY <1>1, <1>2, IInvHolds, PTL DEF Spec, ImplementsLeasedWork, Promise!Safe

==============================================================================
