-------------------------- MODULE MCScanCoordinator --------------------------
(***************************************************************************)
(* Small instances of ScanCoordinator for TLC.                             *)
(***************************************************************************)
EXTENDS ScanCoordinator

CONSTANT s1

OneServer == {s1}
=============================================================================
