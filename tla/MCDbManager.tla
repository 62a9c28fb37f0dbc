---------------------------- MODULE MCDbManager ----------------------------
(***************************************************************************)
(* Instances of DbManager for TLC.                                         *)
(***************************************************************************)
EXTENDS DbManager
=============================================================================
