----------------------------- MODULE MCStartup -----------------------------
(***************************************************************************)
(* The one instance of Startup there is.                                   *)
(***************************************************************************)
EXTENDS Startup
=============================================================================
