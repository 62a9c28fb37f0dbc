------------------------- MODULE MCWebsocketServer -------------------------
(***************************************************************************)
(* Instances of WebsocketServer for TLC.                                   *)
(***************************************************************************)
EXTENDS WebsocketServer, TLC

Symmetry ==
  Permutations(Handles) \cup Permutations(Usernames)
    \cup Permutations(Messages) \cup Permutations(Requests)
=============================================================================
