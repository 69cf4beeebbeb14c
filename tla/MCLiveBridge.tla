---------------------------- MODULE MCLiveBridge ----------------------------
(* LiveBridge for TLC; the configurations give MaxTurns its value. *)
EXTENDS LiveBridge
=============================================================================
