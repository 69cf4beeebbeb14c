----------------------------- MODULE MCTurnGuard -----------------------------
(* Small instances of TurnGuard for TLC. *)
EXTENDS TurnGuard, TLC

CONSTANTS s1, c1, c2, c3, f, g, t1, t2, t3, t4

(* The relay has three sockets open for the session. *)
AllOnOne == c1 :> s1 @@ c2 :> s1 @@ c3 :> s1
=============================================================================
