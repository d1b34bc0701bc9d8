----------------------------- MODULE MCTaskQueue -----------------------------
(***************************************************************************)
(* Small instances of TaskQueue for TLC.                                   *)
(***************************************************************************)
EXTENDS TaskQueue

CONSTANTS t1, t2, video, audio, gpu

(* Two types that share one GPU slot, two attempts each. *)
TwoTypes == [t \in {t1, t2} |-> IF t = t1 THEN video ELSE audio]
OneVideo == [t \in {t1} |-> video]
TwoAttempts == [ty \in {video, audio} |-> 2]
OneEach == [ty \in {video, audio} |-> 1]
OneGpu == [r \in {gpu} |-> 1]
GpuEach == [ty \in {video, audio} |-> [r \in {gpu} |-> 1]]
Unlimited == [r \in {gpu} |-> 0]
=============================================================================
