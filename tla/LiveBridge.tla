----------------------------- MODULE LiveBridge -----------------------------
(***************************************************************************)
(* One telephone call on the speech-to-speech bridge: the run skeleton of  *)
(* api/live_bridge_base.py with the transport and the transfer hold of     *)
(* api/telephony_live_bridge.py, and the call's entry in                   *)
(* api/transfer_store.py.                                                  *)
(*                                                                         *)
(* Three tasks run: _drive (the inbound loop, then the teardown), the      *)
(* events task (_consume_events) and the watchdog. They interleave at      *)
(* awaits only. A turn is committed, and the outcome emitted, by the       *)
(* events task or, once that has ended, by the teardown: never by both at  *)
(* a time, so one program counter serves. The teardown cancels the events  *)
(* task at whatever await it has reached.                                  *)
(*                                                                         *)
(* A turn's text is "the caller spoke" or "the agent spoke". Audio,        *)
(* playback, metrics and slots are left out. An operator marked "a mutant" *)
(* is the next definition with a plausible bug; nothing uses it.           *)
(***************************************************************************)
EXTENDS Integers, Sequences

CONSTANT MaxTurns   \* bound: turns of the model in a call

ASSUME TurnsAssumption == MaxTurns \in Nat \ {0}

(* "end" stands for every action that ends the agent without a hold, a
   callback included; "continue" for the rest. *)
Actions == {"continue", "end", "transfer"}
Speakers == {"user", "agent"}
Said == (1 .. MaxTurns) \X Speakers

VARIABLES
    drive,      \* where _drive is; "cancel" awaits the events task
    task,       \* the events task
    cancelling, \* a CancelledError is on its way to it
    watching,   \* the watchdog task runs
    stopped,    \* _stopped
    session,    \* _session: "none" is None, "dropped" a dead session still referred to
    sid,        \* _call_sid is known
    agent,      \* the agent's state machine
    turn,       \* number of the turn being spoken
    buf,        \* whose text _user_buf and _agent_buf hold
    action,     \* _pending_action
    turns,      \* agent.session.turns
    pc,         \* the await that _commit_turn or _emit_outcome stands at
    emitted,    \* _outcome_emitted
    delivered,  \* the outcome reached the persister
    entry,      \* transfer_store._pending has the call's key
    fut,        \* the future registered under it
    caller,     \* environment: still on the line?
    quiet,      \* environment: no model event for _idle_timeout_s
    accepted,   \* ghost: the result the coordination service was told is accepted
    heard,      \* ghost: all that was ever put in a buffer
    cut         \* ghost: the outcome was cancelled while being computed or delivered

vars == <<drive, task, cancelling, watching, stopped, session, sid, agent, turn, buf, action,
          turns, pc, emitted, delivered, entry, fut, caller, quiet, accepted, heard, cut>>
taskVars == <<task, cancelling, watching>>
turnVars == <<agent, turn, buf, action, turns, heard>>
outcomeVars == <<emitted, delivered, cut>>
holdVars == <<entry, fut, accepted>>
envVars == <<caller, quiet>>

(* Every variable keeps its type. *)
TypeOK ==
    /\ drive \in {"connect", "loop", "cancel", "salvage", "outcome", "hangup", "done"}
    /\ task \in {"none", "running", "done"}
    /\ {cancelling, watching, stopped, sid, emitted, delivered, entry, quiet, cut} \subseteq BOOLEAN
    /\ cancelling => task = "running"
    /\ session \in {"none", "open", "closing", "dropped"}
    /\ agent \in {"idle", "listening", "processing", "responding", "ended"}
    /\ turn \in 1 .. MaxTurns + 1 /\ buf \subseteq Speakers /\ action \in Actions
    /\ turns \in Seq(Said) /\ heard \subseteq Said
    /\ pc \in {"idle", "user", "agent", "state", "closing", "webhook", "waiting", "apology",
               "analysis", "deliver"}
    /\ fut \in {"none", "pending", "success", "failure", "cancelled"}
    /\ accepted \in {"none", "success", "failure"}
    /\ caller \in {"on", "gone"}
    /\ task = "running" => drive \in {"loop", "cancel"}

Init ==
    /\ drive = "connect" /\ task = "none" /\ session = "none" /\ agent = "idle"
    /\ cancelling = FALSE /\ watching = FALSE /\ stopped = FALSE /\ sid = FALSE
    /\ turn = 1 /\ buf = {} /\ action = "continue" /\ turns = <<>> /\ heard = {}
    /\ pc = "idle" /\ emitted = FALSE /\ delivered = FALSE /\ cut = FALSE
    /\ entry = FALSE /\ fut = "none" /\ accepted = "none"
    /\ caller = "on" /\ quiet = FALSE

Terminal == agent = "ended"

-----------------------------------------------------------------------------
(* The environment, and the model's events. *)

HangUp ==
    /\ caller = "on" /\ caller' = "gone"
    /\ UNCHANGED <<drive, taskVars, stopped, session, sid, turnVars, pc, outcomeVars, holdVars, quiet>>

FallsSilent ==
    /\ drive \in {"loop", "cancel"} /\ ~quiet /\ quiet' = TRUE
    /\ UNCHANGED <<drive, taskVars, stopped, session, sid, turnVars, pc, outcomeVars, holdVars, caller>>

UpstreamDrops ==
    /\ session = "open" /\ session' = "dropped"
    /\ UNCHANGED <<drive, taskVars, stopped, sid, turnVars, pc, outcomeVars, holdVars, envVars>>

(* The model does not speak first (_greets_first is False), so its first event
   follows the caller's audio, and that the start frame with the call SID. *)
Awaits == task = "running" /\ ~cancelling /\ pc = "idle"
Receives == Awaits /\ session = "open" /\ sid /\ quiet' = FALSE

(* input_transcript and output_transcript. *)
Hears(who) ==
    /\ Receives /\ turn <= MaxTurns
    /\ buf' = buf \cup {who} /\ heard' = heard \cup {<<turn, who>>}
    /\ UNCHANGED <<drive, taskVars, stopped, session, sid, agent, turn, action, turns, pc,
                   outcomeVars, holdVars, caller>>

(* tool_call record_turn_signal. *)
Signals(a) ==
    /\ Receives /\ turn <= MaxTurns /\ action' = a
    /\ UNCHANGED <<drive, taskVars, stopped, session, sid, agent, turn, buf, turns, heard, pc,
                   outcomeVars, holdVars, caller>>

(* The event stream ends, or raises; its finally stops the bridge. *)
StreamEnds ==
    /\ Awaits /\ session \in {"none", "dropped"}
    /\ task' = "done" /\ stopped' = TRUE
    /\ UNCHANGED <<drive, cancelling, watching, session, sid, turnVars, pc, outcomeVars,
                   holdVars, envVars>>

-----------------------------------------------------------------------------
(* _commit_turn and _emit_outcome: each action runs to the next await. *)

(* Whose coroutine it is: the events task's, unless it is being cancelled, or
   the teardown's. *)
Runs ==
    \/ drive \in {"loop", "cancel"} /\ task = "running" /\ ~cancelling
    \/ drive \in {"salvage", "outcome"}

(* The coroutine returns: the teardown goes on to its next step. *)
NextStep == CASE drive = "salvage" -> "outcome" [] drive = "outcome" -> "hangup" [] OTHER -> drive
Returns == pc' = "idle" /\ drive' = NextStep

(* From the reply's LLM_RESPONSE_READY on. That event raises in any state but
   PROCESSING, and the salvage gives the turn up. *)
RecordsReply(ts, st) ==
    IF st # "processing"
      THEN Returns /\ turns' = ts /\ agent' = st
      ELSE /\ agent' = "responding" /\ pc' = "agent" /\ UNCHANGED drive
           /\ turns' = IF "agent" \in buf THEN Append(ts, <<turn, "agent">>) ELSE ts

Commit ==
    LET st == IF agent = "listening" THEN "processing" ELSE agent IN
    IF "user" \in buf
      THEN /\ turns' = Append(turns, <<turn, "user">>) /\ agent' = st /\ pc' = "user"
           /\ UNCHANGED <<drive, turn, buf, action>>
      ELSE RecordsReply(turns, st) /\ UNCHANGED <<turn, buf, action>>

(* turn_complete; a turn without any text only resets the accumulators. *)
TurnComplete ==
    /\ Receives /\ turn <= MaxTurns /\ ~Terminal
    /\ IF buf = {}
         THEN /\ action' = "continue" /\ turn' = turn + 1
              /\ UNCHANGED <<drive, pc, agent, buf, turns>>
         ELSE Commit
    /\ UNCHANGED <<taskVars, stopped, session, sid, heard, outcomeVars, holdVars, caller>>

UserPersisted ==
    /\ Runs /\ pc = "user"
    /\ RecordsReply(turns, agent)
    /\ UNCHANGED <<taskVars, stopped, session, sid, turn, buf, action, heard, outcomeVars,
                   holdVars, envVars>>

AgentPersisted ==
    /\ Runs /\ pc = "agent" /\ pc' = "state"
    /\ agent' = IF action = "continue" THEN "listening" ELSE "ended"
    /\ UNCHANGED <<drive, taskVars, stopped, session, sid, turn, buf, action, turns, heard,
                   outcomeVars, holdVars, envVars>>

(* _emit_outcome up to its first await; a call in which the caller never spoke
   is classified without one. *)
CallerSpoke == \E i \in DOMAIN turns : turns[i][2] = "user"
Emits ==
    IF emitted
      THEN Returns /\ UNCHANGED emitted
      ELSE /\ emitted' = TRUE /\ UNCHANGED drive
           /\ pc' = IF CallerSpoke THEN "analysis" ELSE "deliver"
Finishes == stopped' = TRUE /\ Emits

StatePersisted ==
    /\ Runs /\ pc = "state"
    /\ buf' = {} /\ action' = "continue" /\ turn' = turn + 1
    /\ CASE action = "continue" -> Returns /\ UNCHANGED <<stopped, session, emitted>>
         [] action = "end" -> Finishes /\ UNCHANGED session
         [] action = "transfer" -> /\ pc' = "closing" /\ session' = "closing"
                                   /\ UNCHANGED <<drive, stopped, emitted>>
    /\ UNCHANGED <<taskVars, sid, agent, turns, heard, delivered, cut, holdVars, envVars>>

Analysed ==
    /\ Runs /\ pc = "analysis" /\ pc' = "deliver"
    /\ UNCHANGED <<drive, taskVars, stopped, session, sid, turnVars, outcomeVars, holdVars, envVars>>

(* Without a call SID the persister is not called. *)
Delivered ==
    /\ Runs /\ pc = "deliver"
    /\ Returns /\ delivered' = sid
    /\ UNCHANGED <<taskVars, stopped, session, sid, turnVars, emitted, cut, holdVars, envVars>>

-----------------------------------------------------------------------------
(* _on_transfer_hold, and the coordination service's result. *)

SessionClosed ==
    /\ Runs /\ pc = "closing" /\ session' = "none" /\ pc' = "webhook"
    /\ UNCHANGED <<drive, taskVars, stopped, sid, turnVars, outcomeVars, holdVars, envVars>>

Registers ==
    /\ Runs /\ pc = "webhook" /\ pc' = "waiting"
    /\ entry' = TRUE /\ fut' = "pending"
    /\ UNCHANGED <<drive, taskVars, stopped, session, sid, turnVars, outcomeVars, accepted, envVars>>

AcceptsAny == TRUE   \* a mutant
Accepts == fut = "pending"

PostResult(result) ==
    /\ entry /\ entry' = FALSE
    /\ IF Accepts THEN fut' = result /\ accepted' = result ELSE UNCHANGED <<fut, accepted>>
    /\ UNCHANGED <<drive, taskVars, stopped, session, sid, turnVars, pc, outcomeVars, envVars>>

(* The hold ends: the apology is played unless a human was found. *)
TakesResult ==
    /\ fut \in {"success", "failure"}
    /\ IF fut = "success" THEN Finishes ELSE pc' = "apology" /\ UNCHANGED <<drive, stopped, emitted>>

HoldResolved ==
    /\ Runs /\ pc = "waiting" /\ TakesResult
    /\ UNCHANGED <<taskVars, session, sid, turnVars, delivered, cut, holdVars, envVars>>

(* wait_for gives up: the future is cancelled, its entry stays behind. *)
TimeoutDue == fut = "pending"
HoldTimesOut ==
    /\ Runs /\ pc = "waiting" /\ TimeoutDue
    /\ fut' = "cancelled" /\ pc' = "apology"
    /\ UNCHANGED <<drive, taskVars, stopped, session, sid, turnVars, outcomeVars, entry, accepted,
                   envVars>>

ApologyPlayed ==
    /\ Runs /\ pc = "apology" /\ Finishes
    /\ UNCHANGED <<taskVars, session, sid, turnVars, delivered, cut, holdVars, envVars>>

-----------------------------------------------------------------------------
(* The watchdog, the inbound loop and the teardown. *)

HangsOnHold == quiet                        \* a mutant
HangsNever == FALSE                         \* a mutant
Hangs == quiet /\ session # "none"

WatchdogWakes ==
    /\ watching /\ (stopped \/ session = "none" \/ quiet) /\ watching' = FALSE
    /\ stopped' = (stopped \/ Hangs)
    /\ UNCHANGED <<drive, task, cancelling, session, sid, turnVars, pc, outcomeVars, holdVars, envVars>>

Connect ==
    /\ drive = "connect" /\ drive' = "loop"
    /\ session' = "open" /\ agent' = "listening" /\ task' = "running" /\ watching' = TRUE
    /\ UNCHANGED <<cancelling, stopped, sid, turn, buf, action, turns, heard, pc, outcomeVars,
                   holdVars, envVars>>

ConnectFails ==
    /\ drive = "connect" /\ drive' = "salvage"
    /\ agent' \in {"idle", "listening"}
    /\ UNCHANGED <<taskVars, stopped, session, sid, turn, buf, action, turns, heard, pc,
                   outcomeVars, holdVars, envVars>>

StartFrame ==
    /\ drive = "loop" /\ caller = "on" /\ ~sid /\ sid' = TRUE
    /\ UNCHANGED <<drive, taskVars, stopped, session, turnVars, pc, outcomeVars, holdVars, envVars>>

(* The loop ends at the caller's stop or disconnect, at the first frame after
   the bridge was stopped, or because the frame cannot be sent to a session
   that is closed or about to be. The teardown cancels the tasks. *)
LoopEnds ==
    /\ drive = "loop" /\ drive' = "cancel"
    /\ caller = "gone" \/ stopped \/ session \in {"closing", "dropped"}
    /\ stopped' = TRUE /\ watching' = FALSE /\ cancelling' = (task = "running")
    /\ UNCHANGED <<task, session, sid, turnVars, pc, outcomeVars, holdVars, envVars>>

(* CancelledError reaches the events task at its await. Only the wait for the
   transfer's result catches it, and goes on; a result already there is taken. *)
TaskCancelled ==
    /\ cancelling /\ cancelling' = FALSE
    /\ IF pc = "waiting"
         THEN /\ IF fut = "pending"
                   THEN fut' = "cancelled" /\ entry' = FALSE /\ Finishes
                   ELSE TakesResult /\ UNCHANGED <<fut, entry>>
              /\ UNCHANGED <<task, cut>>
         ELSE /\ task' = "done" /\ pc' = "idle"
              /\ cut' = (cut \/ pc \in {"analysis", "deliver"})
              /\ UNCHANGED <<drive, stopped, emitted, fut, entry>>
    /\ UNCHANGED <<watching, session, sid, turnVars, delivered, accepted, envVars>>

AwaitedNever == TRUE   \* a mutant
TaskAwaited == task = "done"

(* aclose may raise; the outcome is computed all the same. *)
AfterCloseUnguarded(raises) == IF raises THEN "hangup" ELSE "salvage"   \* a mutant
AfterClose(raises) == "salvage"

CloseSession ==
    /\ drive = "cancel" /\ TaskAwaited
    /\ \E raises \in BOOLEAN : drive' = AfterClose(raises)
    /\ session' = IF session = "none" THEN "none" ELSE "dropped"
    /\ UNCHANGED <<taskVars, stopped, sid, turnVars, pc, outcomeVars, holdVars, envVars>>

SalvageableReply == "user" \in buf /\ ~Terminal   \* a mutant
Salvageable == buf # {} /\ ~Terminal

Salvage ==
    /\ drive = "salvage" /\ pc = "idle"
    /\ IF Salvageable
         THEN Commit
         ELSE drive' = "outcome" /\ UNCHANGED <<pc, agent, turn, buf, action, turns>>
    /\ UNCHANGED <<taskVars, stopped, session, sid, heard, outcomeVars, holdVars, envVars>>

EmitOutcome ==
    /\ drive = "outcome" /\ pc = "idle"
    /\ Emits
    /\ UNCHANGED <<taskVars, stopped, session, sid, turnVars, delivered, cut, holdVars, envVars>>

HandleHangup ==
    /\ drive = "hangup" /\ drive' = "done" /\ agent' = "ended"
    /\ UNCHANGED <<taskVars, stopped, session, sid, turn, buf, action, turns, heard, pc,
                   outcomeVars, holdVars, envVars>>

-----------------------------------------------------------------------------

Environment ==
    \/ HangUp \/ FallsSilent \/ UpstreamDrops \/ TurnComplete
    \/ \E who \in Speakers : Hears(who)
    \/ \E a \in Actions : Signals(a)
    \/ \E r \in {"success", "failure"} : PostResult(r)

Coroutine ==
    \/ UserPersisted \/ AgentPersisted \/ StatePersisted \/ Analysed \/ Delivered
    \/ SessionClosed \/ Registers \/ HoldResolved \/ HoldTimesOut \/ ApologyPlayed
    \/ StreamEnds \/ TaskCancelled

Drive ==
    \/ Connect \/ ConnectFails \/ LoopEnds \/ CloseSession \/ Salvage
    \/ EmitOutcome \/ HandleHangup

Next == Environment \/ Coroutine \/ WatchdogWakes \/ Drive \/ StartFrame

Spec == Init /\ [][Next]_vars

(* Every await returns: the store, the webhook, the analysis and the persister
   all have timeouts. LoopEnds is fair because the transports send a frame
   every 20 ms and a disconnect is read. Nothing is asked of the caller, the
   model or the coordination service. *)
BridgeFairness ==
    /\ WF_vars(Coroutine) /\ WF_vars(WatchdogWakes) /\ WF_vars(Drive)
FairSpec == Spec /\ BridgeFairness

-----------------------------------------------------------------------------
(* Properties. *)

Recorded == {turns[i] : i \in DOMAIN turns}

(* The outcome is analysed over the whole call: when the analysis starts, on a
   turn that ends the call or in the teardown, whatever was heard is in the
   transcript, also when the commit that was recording it was cancelled or
   raised half-way. *)
WholeCallAnalysed == [][~emitted /\ emitted' => heard \subseteq Recorded]_vars

(* A call that is torn down with a known SID has its outcome delivered, unless
   the teardown cancelled the events task in the middle of computing it. *)
OutcomeUnlessCut == drive = "done" /\ sid => delivered \/ cut

(* What the teardown's comment promises: the outcome is always computed. *)
OutcomeComputed == drive = "done" /\ sid => delivered

(* The coordination service is told its "success" is accepted only if the
   caller is not then told that nobody is available: a result that comes after
   the hold timed out is refused. *)
NoApologyAfterSuccess == pc = "apology" => accepted # "success"

(* Once the caller is on hold, with the model's session gone, nothing but
   the hold's own end or the caller stops the bridge: not the watchdog, which
   sees no event all that time, nor a frame that has no session to go to. *)
OnHold == pc \in {"webhook", "waiting"} /\ session = "none"
HoldKept == [][OnHold /\ ~stopped /\ stopped' => caller = "gone" \/ pc' # pc]_vars

(* Every call is torn down to the end: one whose bridge was stopped or whose caller
   is gone, also when the salvaged turn is a transfer with nobody left to hold for,
   and one whose session fell silent. *)
CallEnds ==
    /\ (stopped \/ caller = "gone") ~> (drive = "done")
    /\ quiet ~> (~quiet \/ drive = "done")
=============================================================================
