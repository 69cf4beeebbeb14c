---------------------------- MODULE MCVoiceTurn ----------------------------
(* VoiceTurn for TLC; the configurations give the constants their values. *)
EXTENDS VoiceTurn
=============================================================================
