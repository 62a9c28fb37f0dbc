---------------------------- MODULE MCEventBus ----------------------------
(***************************************************************************)
(* Instances of EventBus for TLC.                                          *)
(***************************************************************************)
EXTENDS EventBus

CONSTANTS r1, r2, NEW_MESSAGE, p1, p2

\* Two instances of one event, so that both go through the same entry.
MCEventOf == [p \in Posts |-> NEW_MESSAGE]
=============================================================================
