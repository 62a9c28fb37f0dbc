---------------------------- MODULE MCClientMgr ----------------------------
(***************************************************************************)
(* Instances of ClientMgr for TLC.                                         *)
(***************************************************************************)
EXTENDS ClientMgr
=============================================================================
