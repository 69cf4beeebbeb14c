------------------------------ MODULE VoiceTurn ------------------------------
(***************************************************************************)
(* A browser voice call on the layered pipeline: the bridge                *)
(* (api/browser_bridge.py), the agent's turn (agents/voicebot.py), and the *)
(* engine that streams one reply (pipeline/engine.py).                     *)
(*                                                                         *)
(* Four tasks interleave: run() with the microphone, the consumer of the   *)
(* streaming recogniser, the task of a turn, and inside a turn the engine  *)
(* with its speech worker. A turn comes from the recogniser or, when there *)
(* is no stream, from batch endpointing inside run() itself.               *)
(*                                                                         *)
(* A sentence is its number within the reply, Safe the line the guard      *)
(* speaks instead. Deadlines may pass at any time.                         *)
(***************************************************************************)
EXTENDS Integers, Sequences

CONSTANTS
    MaxUtterances,  \* bound: turns of a call
    MaxSentences,   \* bound: sentences of a reply
    MaxFailures     \* MAX_CONSECUTIVE_TTS_FAILURES

ASSUME TurnConstants ==
    /\ MaxUtterances \in Nat /\ MaxSentences \in Nat \ {0}
    /\ MaxFailures \in Nat \ {0}

VARIABLES
    (* bridge *)
    run,        \* where run() is: a batch turn is served inside it
    streaming,  \* _stream_session is not None
    consumer,   \* _run_stream_consumer runs
    halted,     \* _stopped
    busy,       \* _agent_busy
    armed,      \* _cancel_event is not None
    hadTurn,    \* _had_turn
    tail,       \* what the turn's task does after the agent returned
    playing,    \* time.monotonic() < _play_until
    browserGone,
    (* agent *)
    turnAt,     \* where the turn is, until handle_turn or handle_turn_text returns
    batch,      \* that turn is of the batch path
    machine,    \* the agent's state machine
    cancelled,  \* the turn's cancel_event is set
    cap,        \* _run_turn_with_backstop
    retried,    \* the turn is in its second attempt
    result,     \* the engine's result
    (* engine *)
    llm, said, speech, tripped,   \* the producer, sentences so far, sentence_queue, the guard
    worker, failures, spoken,     \* tts_worker, sentences_spoken
    (* ghosts *)
    utterances, \* turns dispatched
    collided,   \* a turn was dispatched onto an agent that was not listening
    bothPaths   \* a turn of the stream met the batch path

bridgeVars == <<run, streaming, consumer, halted, hadTurn, browserGone>>
sessionVars == <<busy, armed, tail>>
agentVars == <<turnAt, batch, machine, cap, retried, result>>
engineVars == <<llm, said, speech, tripped, worker, failures, spoken>>
turnGhosts == <<utterances, collided, bothPaths>>
voiceTurnVars == <<bridgeVars, sessionVars, playing, agentVars, cancelled, engineVars, turnGhosts>>

Safe == 0
NoResult == [cancelled |-> FALSE, raised |-> FALSE, heard |-> FALSE, parsed |-> FALSE, ends |-> FALSE]

TurnTypeOK ==
    /\ run \in {"listening", "dispatching", "wrapping", "closing", "over"}
    /\ {streaming, consumer, halted, busy, armed, hadTurn, playing, browserGone, batch, cancelled,
        retried, tripped, collided, bothPaths} \subseteq BOOLEAN
    /\ tail \in {"none", "cancelled", "done", "closing"}
    /\ turnAt \in {"none", "created", "starting", "engine", "result", "responding"}
    /\ machine \in {"listening", "processing", "responding", "ended"}
    /\ cap \in {"running", "grace", "forced"}
    /\ result \in [DOMAIN NoResult -> BOOLEAN]
    /\ llm \in {"stt", "unheard", "first", "streaming", "done", "raised"}
    /\ worker \in {"idle", "synthesizing", "sending", "over"}
    /\ said \in 0 .. MaxSentences /\ failures \in 0 .. MaxFailures
    /\ speech \in Seq(0 .. MaxSentences) /\ spoken \in Seq(0 .. MaxSentences)
    /\ Len(spoken) <= MaxSentences
    /\ utterances \in 0 .. MaxUtterances

(* The opening was sent; the stream is open if it can transcribe the language. *)
TurnInit ==
    /\ run = "listening"
    /\ streaming \in BOOLEAN /\ consumer = streaming
    /\ halted = FALSE /\ busy = FALSE /\ armed = FALSE /\ hadTurn = FALSE
    /\ tail = "none" /\ playing = TRUE /\ browserGone = FALSE
    /\ turnAt = "none" /\ batch = FALSE /\ machine = "listening" /\ cancelled = FALSE
    /\ cap = "running" /\ retried = FALSE /\ result = NoResult
    /\ llm = "done" /\ said = 0 /\ speech = <<>> /\ tripped = FALSE
    /\ worker = "over" /\ failures = 0 /\ spoken = <<>>
    /\ utterances = 0 /\ collided = FALSE /\ bothPaths = FALSE

-----------------------------------------------------------------------------
(* PipelineEngine: STT for a batch turn, then run_turn_text. *)

EngineOver == llm \in {"unheard", "done", "raised"} /\ worker = "over"
OnlyEngine ==
    UNCHANGED <<bridgeVars, sessionVars, playing, agentVars, turnGhosts>>

(* The state in which an attempt begins. *)
EngineStarts(stage) ==
    /\ llm' = stage /\ said' = 0 /\ speech' = <<>> /\ tripped' = FALSE
    /\ worker' = (IF stage = "stt" THEN "over" ELSE "idle")
    /\ failures' = 0 /\ spoken' = <<>>

(* Nothing was heard, or it raised: there is no reply to stream. *)
Transcribes ==
    /\ llm = "stt"
    /\ \/ llm' = "first" /\ worker' = "idle"
       \/ llm' \in {"unheard", "raised"} /\ UNCHANGED worker
    /\ UNCHANGED <<said, speech, tripped, failures, spoken, cancelled>>
    /\ OnlyEngine

(* _emit_sentence: once the guard replaced a sentence, the rest is not spoken. *)
EmitSentenceOn(n) ==                                                \* a mutant
    /\ said' = n
    /\ \/ speech' = Append(speech, n) /\ UNCHANGED tripped
       \/ speech' = Append(speech, Safe) /\ tripped' = TRUE
EmitSentence(n) ==
    /\ said' = n
    /\ IF tripped THEN UNCHANGED <<speech, tripped>>
       ELSE \/ speech' = Append(speech, n) /\ UNCHANGED tripped
            \/ speech' = Append(speech, Safe) /\ tripped' = TRUE

MaybeEmit ==
    \/ said < MaxSentences /\ EmitSentence(said + 1)
    \/ UNCHANGED <<said, speech, tripped>>

(* A token arrives. Cancellation, then the budget, end the reply. *)
LlmSpeaks ==
    /\ llm \in {"first", "streaming"}
    /\ \/ cancelled /\ llm' = "done" /\ UNCHANGED <<said, speech, tripped, cancelled>>
       \/ ~cancelled /\ llm' = "done" /\ cancelled' = TRUE /\ UNCHANGED <<said, speech, tripped>>
       \/ ~cancelled /\ llm' = "streaming" /\ MaybeEmit /\ UNCHANGED cancelled
    /\ UNCHANGED <<worker, failures, spoken>> /\ OnlyEngine

(* The wait for the first token has a limit of its own; later waits have none. *)
NoFirstToken ==
    /\ llm = "first" /\ llm' = "done" /\ cancelled' = TRUE
    /\ UNCHANGED <<said, speech, tripped, worker, failures, spoken>>
    /\ OnlyEngine

LlmEnds ==
    /\ llm \in {"first", "streaming"}
    /\ \/ llm' = "done" /\ IF cancelled THEN UNCHANGED <<said, speech, tripped>> ELSE MaybeEmit
       \/ llm' = "raised" /\ UNCHANGED <<said, speech, tripped>>
    /\ UNCHANGED <<worker, failures, spoken, cancelled>> /\ OnlyEngine

Taken == Tail(speech)

WorkerTakes ==
    /\ worker = "idle" /\ speech # <<>>
    /\ IF cancelled THEN speech' = Taken /\ UNCHANGED worker
       ELSE worker' = "synthesizing" /\ UNCHANGED speech
    /\ UNCHANGED <<llm, said, tripped, failures, spoken, cancelled>> /\ OnlyEngine

SendsUnlessCancelled ==
    /\ failures' = 0
    /\ IF cancelled THEN worker' = "idle" /\ speech' = Taken
       ELSE worker' = "sending" /\ UNCHANGED speech

WorkerSynthesized ==
    /\ worker = "synthesizing"
    /\ SendsUnlessCancelled
    /\ UNCHANGED <<llm, said, tripped, spoken, cancelled>> /\ OnlyEngine

(* A sentence that fails, or takes too long, is dropped. *)
WorkerFails ==
    /\ worker = "synthesizing" /\ worker' = "idle"
    /\ speech' = Taken
    /\ failures' = failures + 1
    /\ cancelled' = (cancelled \/ failures' >= MaxFailures)
    /\ UNCHANGED <<llm, said, tripped, spoken>> /\ OnlyEngine

(* _send_pcm. It finishes a sentence it began, and never raises. *)
WorkerSent ==
    /\ worker = "sending" /\ worker' = "idle"
    /\ spoken' = Append(spoken, Head(speech)) /\ speech' = Taken
    /\ halted' = (halted \/ browserGone)
    /\ cancelled' = (cancelled \/ (armed /\ browserGone /\ ~halted))
    /\ playing' = (playing \/ ~halted')
    /\ UNCHANGED <<run, streaming, consumer, hadTurn, browserGone>>
    /\ UNCHANGED <<sessionVars, agentVars, llm, said, tripped, failures, turnGhosts>>

WorkerEnds ==
    /\ worker = "idle" /\ speech = <<>> /\ llm \in {"done", "raised"}
    /\ worker' = "over"
    /\ UNCHANGED <<llm, said, speech, tripped, failures, spoken, cancelled>>
    /\ OnlyEngine

WorkerGoes ==
    WorkerTakes \/ WorkerSynthesized \/ WorkerFails \/ WorkerSent \/ WorkerEnds

-----------------------------------------------------------------------------
(* VoiceBotAgent. *)

(* The turn's hard cap: first the cancel event, then the task. A task cancelled in
   its final wait for the worker takes the worker with it. *)
CapExpires ==
    /\ turnAt = "engine" /\ ~EngineOver /\ cap = "running"
    /\ cap' = "grace" /\ cancelled' = TRUE
    /\ UNCHANGED <<bridgeVars, sessionVars, playing, turnAt, batch, machine, retried, result,
                   engineVars, turnGhosts>>

AsksAgain == UNCHANGED <<llm, worker, speech>>               \* a mutant
CutsShort ==
    IF llm \in {"stt", "first", "streaming"}
    THEN llm' = "raised" /\ UNCHANGED <<worker, speech>>
    ELSE worker' = "over" /\ speech' = <<>> /\ UNCHANGED llm

GraceExpires ==
    /\ turnAt = "engine" /\ ~EngineOver /\ cap = "grace"
    /\ cap' = "forced"
    /\ CutsShort
    /\ UNCHANGED <<bridgeVars, sessionVars, playing, turnAt, batch, machine, retried, result,
                   cancelled, said, tripped, failures, spoken, turnGhosts>>

FinishedAtOnce == EngineOver \/ cap = "forced"                \* a mutant
Finished == EngineOver

(* The result is fixed when the engine returns; the turn goes on later. What the
   model meant, and whether it can be parsed, is arbitrary. *)
EngineReturns ==
    /\ turnAt = "engine" /\ Finished
    /\ turnAt' = "result"
    /\ \E parsed, ends \in IF llm = "done" THEN BOOLEAN ELSE {FALSE} :
          result' = [cancelled |-> cancelled \/ cap = "forced",
                     raised |-> llm = "raised" /\ cap # "forced",
                     heard |-> llm # "unheard",
                     parsed |-> parsed, ends |-> ends]
    /\ llm' = "done" /\ said' = 0 /\ tripped' = FALSE /\ failures' = 0
    /\ cap' = IF cap = "forced" THEN cap ELSE "running"
    /\ UNCHANGED <<bridgeVars, sessionVars, playing, batch, machine, retried, cancelled,
                   speech, worker, spoken, turnGhosts>>

(* Back in the bridge: the turn's locals are gone, but for the last line. A batch turn
   goes on inside run(). *)
HandsBack(kind) ==
    /\ turnAt' = "none" /\ batch' = FALSE /\ cap' = "running" /\ retried' = FALSE
    /\ result' = NoResult /\ cancelled' = FALSE
    /\ spoken' = (IF machine' = "ended" THEN spoken ELSE <<>>)
    /\ IF batch THEN run' = "wrapping" /\ UNCHANGED <<tail, armed>>
       ELSE tail' = kind /\ armed' = FALSE /\ UNCHANGED run

(* An exception or a cancelled first attempt: nothing of the reply is used. *)
Abandons ==
    /\ turnAt = "result" /\ ~retried
    /\ result.raised \/ result.cancelled
    /\ machine' = "listening"
    /\ HandsBack(IF result.raised THEN "done" ELSE "cancelled")
    /\ UNCHANGED <<streaming, consumer, halted, hadTurn, browserGone, busy,
                   playing, llm, said, speech, tripped, worker, failures, turnGhosts>>

(* Once, when nothing was spoken, the reply is generated again. *)
Unusable == ~result.parsed /\ spoken = <<>>
Retries ==
    /\ turnAt = "result" /\ ~retried /\ ~result.raised /\ ~result.cancelled
    /\ result.heard /\ Unusable
    /\ turnAt' = "engine" /\ retried' = TRUE /\ cap' = "running"
    /\ EngineStarts("first") /\ result' = NoResult
    /\ UNCHANGED <<bridgeVars, sessionVars, playing, batch, machine, cancelled, turnGhosts>>

(* The action of the reply counts if its envelope was parsed, or was salvaged after
   it was spoken; that of a retry only if it was not cancelled. *)
Ends ==
    /\ result.ends /\ result.heard
    /\ ~result.raised /\ ~result.cancelled
    /\ ~Unusable

FinishesTurn ==
    /\ turnAt = "result"
    /\ retried \/ (~result.raised /\ ~result.cancelled /\ ~(result.heard /\ Unusable))
    /\ turnAt' = "responding" /\ machine' = "responding"
    /\ result' = [result EXCEPT !.ends = Ends]
    /\ UNCHANGED <<bridgeVars, sessionVars, playing, batch, cap, retried, cancelled, engineVars,
                   turnGhosts>>

(* The turn is recorded, and the agent listens again or has ended. The bridge learns
   of a cancelled retry only if some of it was spoken. *)
Delivers ==
    /\ turnAt = "responding"
    /\ machine' = (IF result.ends THEN "ended" ELSE "listening")
    /\ HandsBack(IF result.cancelled /\ cap # "forced" /\ spoken # <<>> THEN "cancelled" ELSE "done")
    /\ UNCHANGED <<streaming, consumer, halted, hadTurn, browserGone, busy,
                   playing, llm, said, speech, tripped, worker, failures, turnGhosts>>

AgentGoes == EngineReturns \/ Abandons \/ Retries \/ FinishesTurn \/ Delivers

-----------------------------------------------------------------------------
(* BrowserVoiceBridge. *)

TaskInFlight == tail # "none" \/ (turnAt # "none" /\ ~batch)
BatchInFlight == turnAt # "none" /\ batch

(* An endpoint starts a turn; one that meets a turn is dropped. (One that meets a
   batch turn fails in a task of its own.) *)
MayDispatchIfIdle == ~busy                                   \* a mutant
MayDispatch == ~busy /\ ~TaskInFlight

EndpointArrives ==
    /\ consumer /\ ~halted /\ utterances < MaxUtterances
    /\ MayDispatch /\ ~BatchInFlight
    /\ busy' = TRUE /\ hadTurn' = TRUE
    /\ turnAt' = "created" /\ batch' = FALSE
    /\ utterances' = utterances + 1
    /\ bothPaths' = (bothPaths \/ ~streaming \/ run # "listening")
    /\ UNCHANGED <<run, streaming, consumer, halted, browserGone, armed, tail,
                   playing, machine, cap, retried, result, cancelled, engineVars, collided>>

(* _dispatch_text_turn up to the agent: a filler may be played. *)
TaskStarts ==
    /\ turnAt = "created" /\ turnAt' = "starting"
    /\ busy' = TRUE /\ armed' = TRUE /\ cancelled' = FALSE
    /\ UNCHANGED <<bridgeVars, tail, playing, batch, machine, cap, retried, result, engineVars,
                   turnGhosts>>

HandsToAgent ==
    /\ turnAt = "starting"
    /\ playing' \in {playing, playing \/ (~cancelled /\ ~halted)}
    /\ IF machine = "listening"
       THEN /\ turnAt' = "engine" /\ machine' = "processing"
            /\ cap' = "running" /\ retried' = FALSE
            /\ EngineStarts("first")
            /\ UNCHANGED <<busy, armed, collided>>
       ELSE /\ turnAt' = "none" /\ busy' = FALSE /\ armed' = FALSE /\ collided' = TRUE
            /\ UNCHANGED <<machine, cap, retried, engineVars>>
    /\ UNCHANGED <<bridgeVars, tail, batch, result, cancelled, utterances, bothPaths>>

Frees == busy' = FALSE

(* A cancelled reply; a reply; the last reply, whose end is waited for. *)
TailGoes ==
    /\ \/ tail = "cancelled" /\ tail' = "none" /\ Frees /\ UNCHANGED halted
       \/ tail = "done" /\ machine # "ended" /\ tail' = "none" /\ busy' = FALSE /\ UNCHANGED halted
       \/ tail = "done" /\ machine = "ended" /\ tail' = "closing" /\ halted' = TRUE /\ UNCHANGED busy
       \/ tail = "closing" /\ ~playing /\ tail' = "none" /\ UNCHANGED <<busy, halted>>
    /\ UNCHANGED <<run, streaming, consumer, hadTurn, browserGone, armed,
                   playing, agentVars, cancelled, engineVars, turnGhosts>>

(* An interim transcript, or the client, says the caller speaks over the agent. *)
BargesIn ==
    /\ ~halted
    /\ run = "listening" \/ (hadTurn /\ consumer)
    /\ busy \/ playing
    /\ cancelled' = (cancelled \/ armed)
    /\ busy' = FALSE /\ playing' = FALSE
    /\ UNCHANGED <<bridgeVars, armed, tail, agentVars, engineVars, turnGhosts>>

GivesUpStream ==
    /\ streaming' = FALSE
    /\ bothPaths' = (bothPaths \/ TaskInFlight)

(* The recogniser drops, or after a turn the conversation's language changed: it is
   opened again, up to _MAX_STREAM_REOPENS times and if it can transcribe the language.
   Until it is open no endpoint arrives. Once _stopped, the consumer does nothing. *)
StreamReopens ==
    /\ consumer /\ ~halted /\ streaming' = TRUE
    /\ UNCHANGED <<run, consumer, halted, hadTurn, browserGone, sessionVars, playing,
                   agentVars, cancelled, engineVars, turnGhosts>>

StreamGone ==
    /\ consumer /\ ~halted /\ consumer' = FALSE
    /\ GivesUpStream
    /\ UNCHANGED <<run, halted, hadTurn, browserGone, sessionVars, playing, agentVars,
                   cancelled, engineVars, utterances, collided>>

(* A frame cannot be forwarded: from now on batch endpointing. *)
SendFails ==
    /\ run = "listening" /\ streaming /\ ~halted
    /\ GivesUpStream
    /\ UNCHANGED <<run, consumer, halted, hadTurn, browserGone, sessionVars,
                   playing, agentVars, cancelled, engineVars, utterances, collided>>

(* run()'s finally: the tasks are cancelled, and the agent hangs up. The engine runs
   in a task of its own, which nobody cancels. *)
TearsDown ==
    /\ run' = "over" /\ consumer' = FALSE
    /\ turnAt' = "none" /\ tail' = "none" /\ busy' = FALSE /\ armed' = FALSE
    /\ machine' = "ended"

(* Batch endpointing hears an utterance. Its echo gate knows of playback only, and
   like the stream's (SendFails) is open while the client says so, which it may with
   any message. A turn of
   the stream that has not reached the agent fails when it does. *)
BatchUtterance ==
    /\ run = "listening" /\ ~streaming /\ ~halted /\ utterances < MaxUtterances
    /\ utterances' = utterances + 1
    /\ IF machine = "listening"
       THEN /\ run' = "dispatching" /\ turnAt' = "engine" /\ batch' = TRUE
            /\ machine' = "processing" /\ cancelled' = FALSE
            /\ cap' = "running" /\ retried' = FALSE /\ EngineStarts("stt")
            /\ IF turnAt = "none" THEN UNCHANGED <<busy, armed>>
               ELSE busy' = FALSE /\ armed' = FALSE
            /\ UNCHANGED <<consumer, tail, collided>>
       ELSE /\ collided' = TRUE /\ TearsDown
            /\ UNCHANGED <<batch, cancelled, cap, retried, engineVars>>
    /\ UNCHANGED <<streaming, halted, hadTurn, browserGone, playing, result,
                   bothPaths>>

(* The rest of _dispatch_utterance: the last line is waited for before the loop ends. *)
BatchWraps ==
    /\ run = "wrapping"
    /\ IF machine = "ended" THEN run' = "closing" /\ halted' = TRUE
       ELSE run' = "listening" /\ UNCHANGED halted
    /\ UNCHANGED <<streaming, consumer, hadTurn, browserGone, sessionVars,
                   playing, agentVars, cancelled, engineVars, turnGhosts>>

BatchCloses ==
    /\ run = "closing" /\ ~playing
    /\ TearsDown
    /\ UNCHANGED <<streaming, halted, hadTurn, browserGone, playing, batch, cap,
                   retried, result, cancelled, engineVars, turnGhosts>>

(* The loop sees _stopped with the next message, or the client's leaving. *)
VoiceLoopEnds ==
    /\ run = "listening" /\ (halted \/ browserGone)
    /\ TearsDown
    /\ UNCHANGED <<streaming, halted, hadTurn, browserGone, playing, batch, cap,
                   retried, result, cancelled, engineVars, turnGhosts>>

(* The heartbeat of a turn, or a status, cannot be sent. *)
HeartbeatFails ==
    /\ browserGone /\ ~halted /\ (TaskInFlight \/ run \in {"dispatching", "wrapping", "closing"})
    /\ halted' = TRUE /\ cancelled' = (cancelled \/ armed)
    /\ UNCHANGED <<run, streaming, consumer, hadTurn, browserGone, sessionVars,
                   playing, agentVars, engineVars, turnGhosts>>

BrowserLeaves ==
    /\ run # "over" /\ ~browserGone /\ browserGone' = TRUE
    /\ UNCHANGED <<run, streaming, consumer, halted, hadTurn, sessionVars,
                   playing, agentVars, cancelled, engineVars, turnGhosts>>

PlaybackEnds ==
    /\ playing /\ playing' = FALSE
    /\ UNCHANGED <<bridgeVars, sessionVars, agentVars, cancelled, engineVars, turnGhosts>>

BridgeGoes == TaskStarts \/ HandsToAgent \/ TailGoes \/ BatchWraps \/ BatchCloses

TurnNext ==
    \/ Transcribes \/ LlmSpeaks \/ NoFirstToken \/ LlmEnds \/ WorkerGoes
    \/ CapExpires \/ GraceExpires \/ AgentGoes
    \/ EndpointArrives \/ BargesIn \/ StreamReopens \/ StreamGone \/ SendFails
    \/ BatchUtterance \/ VoiceLoopEnds \/ HeartbeatFails \/ BrowserLeaves
    \/ PlaybackEnds \/ BridgeGoes

TurnSpec == TurnInit /\ [][TurnNext]_voiceTurnVars

(* The event loop runs what is ready, speech synthesis and the caps have timeouts,
   and what is played ends. Nothing is assumed of the model or the recogniser. *)
TurnFairness ==
    /\ WF_voiceTurnVars(WorkerGoes) /\ WF_voiceTurnVars(AgentGoes)
    /\ WF_voiceTurnVars(BridgeGoes) /\ WF_voiceTurnVars(PlaybackEnds)
    /\ WF_voiceTurnVars(CapExpires) /\ WF_voiceTurnVars(GraceExpires)
TurnFairSpec == TurnSpec /\ TurnFairness

-----------------------------------------------------------------------------
(* Properties. *)

(* One turn at a time: handle_turn and handle_turn_text find the agent listening,
   and do not raise, unless the stream was given up under one of its turns. *)
TurnsCollideOnFallback == collided => bothPaths

(* What is sent of a reply is sent in order, none of it twice, and nothing after
   the guard's line; and an agent that listens is silent: no worker of an earlier turn
   speaks on. *)
InOrder ==
    \A i, j \in DOMAIN spoken :
        i < j => spoken[i] # Safe /\ (spoken[i] < spoken[j] \/ spoken[j] = Safe)
ListeningIsSilent == machine = "listening" /\ turnAt = "none" => EngineOver

(* The call speaks one turn at a time: turns do not collide, and what is sent of each
   is in order and ends with it. *)
SpokenInOrder == TurnsCollideOnFallback /\ InOrder /\ ListeningIsSilent

(* Every turn ends, whatever hangs, and the recogniser is listened to again. *)
TurnOn == TaskInFlight \/ BatchInFlight
TurnsEnd == (TurnOn \/ busy) ~> (~TurnOn /\ (busy => halted))

(* browser_bridge.py:127-130: the socket is not closed "before the final line has been
   heard". *)
ClosingLineHeard ==
    [][tail = "closing" /\ spoken # <<>> /\ ~browserGone /\ run' = "over" => ~playing]_voiceTurnVars
=============================================================================
