---------------------------- MODULE MCVoiceCalls ----------------------------
(* LiveBridge and VoiceTurn for TLC, side by side: a call is served by the one bridge
   or by the other, never by both, so a behaviour is a behaviour of one of them, in
   which the other's variables keep their initial values. *)
EXTENDS LiveBridge, VoiceTurn

VARIABLE pipeline

callsVars == <<pipeline, vars, voiceTurnVars>>

VoiceCallsInit ==
    /\ pipeline \in {"speech_to_speech", "layered"}
    /\ Init /\ TurnInit
    /\ pipeline = "speech_to_speech" => ~streaming

VoiceCallsNext ==
    \/ pipeline = "speech_to_speech" /\ Next /\ UNCHANGED <<pipeline, voiceTurnVars>>
    \/ pipeline = "layered" /\ TurnNext /\ UNCHANGED <<pipeline, vars>>

VoiceCallsSpec == VoiceCallsInit /\ [][VoiceCallsNext]_callsVars

(* BridgeFairness and TurnFairness, each for the behaviours of its own module. *)
S2S == pipeline = "speech_to_speech"
Layered == pipeline = "layered"
VoiceCallsFairSpec ==
    /\ VoiceCallsSpec
    /\ WF_vars(S2S /\ Coroutine) /\ WF_vars(S2S /\ WatchdogWakes) /\ WF_vars(S2S /\ Drive)
    /\ WF_voiceTurnVars(Layered /\ WorkerGoes) /\ WF_voiceTurnVars(Layered /\ AgentGoes)
    /\ WF_voiceTurnVars(Layered /\ BridgeGoes) /\ WF_voiceTurnVars(Layered /\ PlaybackEnds)
    /\ WF_voiceTurnVars(Layered /\ CapExpires) /\ WF_voiceTurnVars(Layered /\ GraceExpires)

(* The type invariants of both modules. *)
TypesOK == TypeOK /\ TurnTypeOK
=============================================================================
