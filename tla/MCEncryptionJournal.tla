------------------------- MODULE MCEncryptionJournal -------------------------
(***************************************************************************)
(* Small instances of EncryptionJournal for TLC: its constants are numbers *)
(* that the configurations give.                                           *)
(***************************************************************************)
EXTENDS EncryptionJournal
=============================================================================
