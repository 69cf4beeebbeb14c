# TLA+ models of the voice and chat platform

Formal models of the parts of this repository whose correctness depends on the
order in which things happen: processes sharing a table, coroutines sharing
in-process state across `await`, calls and sessions that end while something is
still running. TLC checks each model on small instances; TLAPS proves the
results listed under "What is proved" for every value of the constants.

Paths are relative to the repository (`main.py` is `src/src/main.py` in
`PROJECT.json`, whose `map` names the source lines of every definition).

    tlc -workers 2 -config TurnGuard_overlap.cfg MCTurnGuard    # a run
    tlapm TurnGuardProofs.tla                                   # the proofs of a module

## 1. The system

A FastAPI service runs chat and voice agents for many tenants. One deployment is
several identical pods over one Postgres database and one Redis; a pod is one
asyncio event loop, so coroutines interleave at `await` only, while the database is
shared by all pods. The tenant's back office, called CRM below, is reached by
webhooks and calls the service's own endpoints.

| Component | State it keeps | Operations | Talks to |
|---|---|---|---|
| Webhook outbox: `api/chat_webhooks.py`, `integration/tenant_events.py`, loop and passes in `main.py` | `webhook_outbox` rows (status, attempts, next_attempt_at), kill switch | in-line send, enqueue, claim a batch, deliver, fenced finalize, prune | CRM; every pod's loop; the chat session's end |
| Duplicate-turn guard: `_try_begin_turn`, `_end_turn` in `api/chat.py` | `_turn_guards`, one entry per session | admit, take over, drop as echo, release, evict | the bot loop and the human loop of every connection |
| Chat session and human handover: `api/chat.py` | `chat_sessions.mode`, customer and agent queues, `_async_push_queues` | connect, turn, escalate, claim, decline, agent socket, push, time out, end | guard, outbox, CRM, deposit verification |
| A turn of the chat bot: `agents/chatbot.py`, keepalive and turn handling in `api/chat.py` | messages to the model, tool budget, `session.turns`, keepalive task | ask the model, run tools, direct, retry, time out, send interims | LLM, tool executor, chat session |
| External conversations: `api/external_chat.py` | a Redis key per conversation, sessions and transcripts | look up, create, hydrate, answer, persist, post | Chatwoot, OpenAI-style clients, the turn path |
| Deposit verification: `chatbot/deposit_verification.py`, `api/deposit_verification.py`, timers in `api/chat.py` | verification rows, relay signatures, timers | submit, vendor callback, relay, timer, sweep | chat session (push, escalation), vendor |
| Voice handoff: token, live lock, voice socket in `api/chat.py` | one token per chat, a Redis lock with expiry, `_active_voice_ws` | issue, redeem, acquire, renew, release, force-close | chat session, speech-to-speech bridge |
| Call records: `api/calls.py`, `api/call_store.py`, `api/livekit_routes.py`, `api/livekit_runner.py`, `api/telephony_crm.py` | `conversations` rows, rooms in flight | dial under a cap, register, join a room, outcome, reaper | providers, campaign, bridges |
| Speech-to-speech bridge: `api/live_bridge_base.py`, `api/telephony_live_bridge.py` | `_stopped`, `_session`, buffers, `_pending_action`, `_outcome_emitted` | drive, consume events, commit a turn, transfer hold, watchdog, teardown | model session, transport, agent, transfer store, persister |
| Layered pipeline: `api/browser_bridge.py`, `agents/voicebot.py`, `agents/state_machine.py`, `pipeline/engine.py`, `pipeline/interruption.py` | agent's state, sentence queue, cancel event, `_agent_busy`, playback | endpoint, turn, speak, barge in, cap and grace, closing line | STT, LLM, TTS, browser |
| Tenant configuration: `auth/registry.py`, `auth/db_resolver.py`, `api/tenants.py`, `api/chat_tools.py` | resolver tables, per-tenant clients, CRM tools, one lock per tenant | commit, reload, evict, resolve, load once | every call and chat |
| Campaigns: `campaign/` | lead statuses, retries, rate window, semaphore | poll, dial, retry, mark DND, close | calling hours, DND store, CRM |
| VAD, sentence splitting, normalisation; prompts; RAG; provider adapters; half-duplex telephony bridges; administration, billing, auth, metrics | mostly rows, requests and text | CRUD, vendor I/O | - |

### What is hard, and what makes each part correct

* **Outbox.** Several pods claim from one table. A claim is a lease with a wall
  clock; each pod compares it with its own clock; nothing stops a pass that overran
  its lease, and a deploy cancels passes anywhere. Correct means: a stale finalize
  changes nothing (the attempts count is a fencing token), a settled row stays
  settled, a queued row settles, what is recorded as delivered was received, and,
  while the time budget holds, no row is in two pods' hands.
* **Turn guard.** The relay reconnects and resends, so two connections of a session
  run turns concurrently. Correct means: no second turn before the first is over or
  hung, no answer to a frame just answered, no session wedged by a turn that never
  ends, and all of it also while the table sweeps itself.
* **Chat handover.** Five kinds of actor write `mode` without a lock; queues and
  registry are shared by connections that come and go. Correct means: each customer
  message has one addressee and one fate, pushes reach the live connection, and
  nobody stays in human mode for ever.
* **Chat turn.** A model that asks for tools under a budget, a turn that may hang in
  any of them, and a second task writing to the same socket. Correct means: the
  model knows exactly which look-ups failed, a human it asked for is in the
  reply, nothing lands after the reply, and a reply or an error frame always comes.
* **External conversations.** A look-up, a creation and a store without a lock, over a
  key that expires. Correct means: an answer remembers what was said before it.
* **Deposit verification.** Vendor callback, its retry, the relay's sliding
  deadline, timers, sweep and the session's mode race. Correct means: one verdict
  per request, told once, one hand-over, no timeout that is not due or over an agent
  it could have seen, and every submitted request settles.
* **Voice handoff.** A lock with expiry, renewed without looking at its owner and
  released by get-then-delete. Correct means: one live call per token, a dead call
  does not jam the token, and a session's end closes the call that is live.
* **Call records.** The cap is check-then-act; the reaper races live calls; webhooks
  and reports are repeated. Correct means: calls within the cap, one agent per room, one
  row and the last outcome per call, and no row that stays active for ever.
* **Bridges.** Events, inbound loop, watchdog, turn, worker and teardown race each other
  and the caller's hang-up. Correct means: every call and every turn ends, the outcome
  is computed over the whole transcript, a transfer hold is neither cut nor contradicted,
  and what is spoken is one turn at a time, in order.
* **Tenant configuration.** Eviction during a load, reloads that overtake each other.
  Correct means: once an update is over, what is cached was built from it.
* **Campaigns.** Retries, limits, refusals and closing hours. Correct means: attempts
  bounded, settled leads counted and never dialled, no more calls handed out in a window
  than the rate allows, and a run that comes to its end.

`PROJECT.json` lists each hazard at its line, with the properties that cover it and,
in a note, what they do not cover.

## 2. The modules

    component               proofs                     checked by
    DurableDelivery   <== refined by WebhookOutbox
    WebhookOutbox           WebhookOutboxProofs        MCWebhookOutbox, MCTimedState
    TurnGuard               TurnGuardProofs            MCTurnGuard
    ChatHandover            ChatHandoverProofs         MCChatHandover, MCChatRouting, MCInProcess
    ExternalChat            ExternalChatProofs         MCChatRouting
    ChatTurn                ChatWorkProofs             MCChatWork
    DepositVerification     ChatWorkProofs             MCChatWork
    VoiceHandoff            TimedStateProofs           MCTimedState
    CallRecords             TimedStateProofs           MCTimedState
    LiveBridge              VoiceCallsProofs           MCLiveBridge, MCVoiceCalls
    VoiceTurn               VoiceCallsProofs           MCVoiceTurn, MCVoiceCalls
    TenantConfig            InProcessProofs            MCTenantConfig, MCInProcess
    Campaign                InProcessProofs            MCInProcess

The component modules declare their parameters as CONSTANTS with named assumptions
and use no recursive operator. An `MC` module adds only model values, symmetry
sets and, for five of them, a choice: `MCTimedState`, `MCVoiceCalls`, `MCInProcess`,
`MCChatWork` and `MCChatRouting` put modules side by side that share no state. One
variable (`part`, `pipeline`) chosen at the start says whose behaviour it is, the
variables of the others keep their initial values, and each module's fairness counts
in its own behaviours only. So such a run is the disjoint union of its modules' runs,
not their product, and shows no interaction between them; `MCVoiceCalls` is at
the same time the code's own choice, since a call is on one bridge or the other.

A proof module is about one component or about those that one run puts side by side.
`ChatWorkProofs`, `VoiceCallsProofs` and `InProcessProofs` extend the `MC` module of
the composition, and prove that a behaviour of it is a behaviour of each of its
modules, so that what is proved of a module holds in the composition.

Where components do meet, the meeting is inside one module: the session's mode
in DepositVerification is written by its timeouts, relays, agents and turns; ChatHandover
has the jobs that escalate and push and the guard's holder; CallRecords has
the bridges as the source of outcomes.

A definition commented `a mutant` is a plausible slip in the definition after
it (a dropped guard, a swapped order); nothing uses it, and substituting it breaks
the property it is listed with in `PROJECT.json`. In the modules, history variables
(marked so, or "ghost") only record what the properties speak of.

### WebhookOutbox and DurableDelivery

State: the table (`status`, `attempts`, `nextAt`, `created` per row), one pass per
pod (`pc`, claimed rows `held`, their `token`s, the row in delivery `cur`, its
`result`, when it was begun), `now`, and the kill switch `enabled`. Statuses beyond
the table's own say what became of an event without a row: `none` (not sent yet),
`inline`, `dropped` (the tenant has no URL), `lost` (in-line failure, then the
enqueue failed). Ghosts: `received` (the CRM has seen the event) and `tries`.

| Action | Code |
|---|---|
| `InlineAcknowledged`, `NoUrlConfigured`, `Enqueue`, `EnqueueLost` | `send_bo_webhook` with `enqueue_on_failure` |
| `ClaimPass` | `_claim_webhook_outbox_rows`: one transaction retires over-age rows, leases the others |
| `BeginDelivery`, `EndDelivery` | `_deliver_webhook_outbox_claim`: any outcome, and independently of it, except for a 2xx, whether the CRM received it |
| `FinalizeDelivered`, `FinalizeDead`, `FinalizeReschedule`, `FinalizeSkipped` | `_finalize_webhook_outbox_row` and its fenced UPDATE |
| `AbandonPass` | cancellation by a deploy, or an exception outside the per-row `try` |
| `Prune`, `ToggleEnabled`, `Tick` | pruning, kill switch, time |

Every pod has its own clock (`Skew`). The code says that 10 rows of 45 s are
"comfortably inside" the 600 s lease; `LeaseAssumption` is what that must mean
with clocks that differ: `Batch * RowTime + Skew[q] < Lease + Skew[p]`. The code does
not bound the finalizing UPDATE, nor can it bound a stalled process, so
`Timely` is a parameter: TRUE means no row keeps a pod longer than `RowTime`, FALSE
lets passes outlive their leases. Only `LeaseExclusive` depends on it.
`DurableDelivery` is the contract without pods, leases and clocks; the refinement
maps `state` to `status` and keeps `received`.

### TurnGuard

State: `guards` (the table), `turns` (the turn each connection is in), and the ghost
`last` (the latest answered turn of a session). Timestamps are kept as ages, which stop
growing one past the maximum hold: every comparison in the code is with a limit not
above it, so nothing is lost. Tokens are identities no live reference has, as
`object()` gives them. A turn has three phases: fetching media, `_run_turn` under
`wait_for` (the only phase the code bounds), and what follows, which may be the whole
of human mode. The ghost `standing` tells whether another turn took the session over
or `_end_session` evicted the entry. `BeginTurn` is `_try_begin_turn` when it admits
(takeover, echo window and sweep included), `EndTurn` is `_end_turn` from any phase,
`EndSession` is the pop in `_end_session`, `Restart` loses everything.

### ChatHandover

One session: the row (`mode`, `ended`), the two queues and whether they are
registered, the push registry (`pushTo`) and the connections' push queues, the guard's
holder, the connections (`pc` is the `await` a connection stands at), the CRM's
claims, declines and agents, and the background jobs. Each step is what a coroutine
does between two awaits at which another can change what it goes on to use; reading
a row, checking it and committing are separate steps where the code has an await
between check and commit (`ClaimCheck`/`ClaimCommit`/`ClaimTell`, the same for decline,
`JobChecks`/`JobEscalates`/`JobNotified`/`JobPushes`), and one step where it has none that
matters. Ghosts follow each customer message (`sent`, `answered`, `refused`,
`relayed`, `unread`).

Abstractions: the guard is the exact table of TurnGuard reduced to its holder, and may
be taken over when the holder sits in human mode (the only way to exceed the maximum
hold there); agents share one queue, and the connections of the session the other
(`_customer_queues`, `chat.py:4651`): a frame of the claim or of the agent's end reaches
one connection. `HumanModeEnds` therefore says that a waiting customer is answered or
given back to the bot, and that of the connections in human mode the agent's end gets
one out. A second one that was told of the claim stays until its customer leaves
(section 5). A send to a dead socket, other than a turn's reply, succeeds; media frames,
`claimed_by` and the window in which asyncio cancels a wait at its deadline are left
out. `AgentConnects` asks for an answered claim because the integration guide's steps 1
and 2 do; the code checks the mode only. Jobs survive a restart as `pending` rows and
owe nothing.

### ChatTurn

One connection: where the agent is in `_handle_with_tools` (`agent`), the round, the
calls still to run, the budget spent, the messages to the model and the place of the
directive in them, the categories that failed in a row (`streak`, `prior`), what the
reply will say (`escalation`, `action`), where `chat_websocket` is with the turn
(`handler`), the keepalive task and how it is being stopped.

| Action | Code |
|---|---|
| `TurnStarts`, `ModelCalls`, `LocalCall`, `CallSkipped`, `CallReturns` | `_handle_with_tools`: rounds, the budget's slices, one result per call |
| `ModelAnswers`, `RetryEnds`, `Recorded` | the answer, the retry of an unusable one, the turn's record |
| `TurnFails` | an exception anywhere in the turn, or `wait_for`'s timeout |
| `IntervalPasses`, `InterimSent`, `InterimFails`, `KeepaliveEnds` | the keepalive |
| `TurnOver`, `Drained`, `DrainExpires` | the `finally` that stops the keepalive, waits for it and at last cancels it |
| `Answered`, `AnswerFails`, `BotAgain` | reply or error frame, hand-over, a dead socket, and the same agent after human mode |

A model's text is usable or not, a tool's result a failure or not; a call takes any
part of its slice. Tools of the tenant's own share one label; `LabelOf` is a parameter.
What the model has: an answer with the action "escalate" and no tool call sets the reply's
`action` but not `escalation`, and only the latter hands the session over (`chat.py:3635`);
a human asked for in a turn that fails is forgotten with it; `_persist` writes the state
(`chatbot.py:2648`) without the guard its base has, so an outage there turns a computed
reply into an error frame with the turn already in `session.turns`.

### ExternalChat

One conversation: the Redis key and its expiry, the transcript of each session, and
where each message's request is.

| Action | Code |
|---|---|
| `LooksUp`, `Creates`, `Stores` | `external_message`: GET, a new session's row, SET with expiry |
| `Hydrates`, `HydrationFails`, `Answers`, `PersistsTurn`, `PersistFails` | `process_message` in `api/chat.py` |
| `Replies`, `RequestFails` | the response, or Chatwoot's task: `_process_chatwoot_turn`, `_chatwoot_send` |
| `PodStops`, `ExternalTick` | a task lost after its 200; time, and the key's expiry |

A session is named by the message that created it. Redis is configured, and
`_HYDRATE_LIMIT` is taken to be longer than the conversation. The key is set once and not
renewed, so a conversation loses its memory after seven days however lively it is; two
first messages that overlap make two sessions, of which the later SET wins. Replies are
not ordered, and a webhook sent twice is answered twice.

### DepositVerification

The row (`status`, `created`, `deadline`, `sigs`), the submission (`attempt`), the sleeping
timers (`armed`), up to `Checks` calls of `_check_and_timeout_verification`, the vendor's
deliveries, and the session's `mode`. `contract` is the tenant's vendor: one that returns a
verdict, or one that relays messages.

| Action | Code |
|---|---|
| `Submit`, `CrossCheckRefuses`, `CreateRow`, `Post`, `Submitted`, `PostFails`, `MarkError`, `Cut` | `submit_deposit_verification`, and the tool budget that cancels it |
| `CallbackArrives`, `CallbackCommits` | `deposit_verification_callback`: check, then commit and push |
| `RelayArrives`, `RelayCommits`, `RelayEscalates`, `RelayNotified`, `RelayRearms` | `deposit_ticket_reply`: read, write back and slide the deadline, escalate for a bank statement, arm another timer |
| `TimerFires`, `SweepChecks`, `CheckMeetsOutage`, `CheckClaims`, `CheckReadsMode`, `CheckEscalates`, `CheckNotified` | timers and reconnect sweep: `_check_and_timeout_verification` with its conditional UPDATE and second look at the mode |
| `AgentClaims`, `ModeChanges`, `SessionEnds`, `Restart` | the session's other writers; the process |

`Patient` is an assumption on the vendor: it sends nothing while a call of its own is
unanswered; a call that a restart cut counts as answered. Without it two verdicts can both
be told, and `ToldOnce` claims nothing; its second half (no message twice) is about a
session with one order. A relay may un-assign an agent who claims during its push (no
re-read there); `TimeoutsJust` is about the timeout, which does re-read.

### VoiceHandoff

The issued tokens, the lock and its time to live per token, each socket's place, renewal
clock and failed renewals, the session's entry in `_active_voice_ws`.

| Action | Code |
|---|---|
| `RequestCall`, `ClaimToken` | `request_call`, the token's look-up in `chat_voice_ws` |
| `Acquire`, `Refuse`, `AcquireFails`, `Renew` | SET NX EX and the renewal task |
| `CallEnds`, `ReleaseReads`, `ReleaseDeletes`, `Leave` | the bridge's end, the compare and the delete, the entry dropped whoever's it is |
| `EndSession`, `Dies`, `VoiceTick` | `_end_session`, a restart, time |

`LockAssumption` says how many renewals may fail in a row and how late the delete may come:
`(MaxMissed + 1) * RenewEvery + MaxLag < LockTTL`. With more, a renewal extends another
call's lock and a release can delete it. The lock is per token: two tokens of one
session do carry two calls, and the entry is then the later one's, which is why
`EndReachesVoice` excepts calls that overlapped.

### CallRecords

`rows` by the provider's call id (which the table does not make unique), the phone call
itself, the dialling request, LiveKit's webhooks with the runners they spawn, CRM
registrations, rooms in flight, outcomes still to be handed over. A call is dialled for a
lead, registered by the CRM, or a LiveKit room, which the CRM may register as well
(`telephony_crm.py:76-86`): then registration and runner both look for the row and insert it.

| Action | Code |
|---|---|
| `CheckCap`, `NotDialled`, `InitiateCall`, `RecordLead` | `call_lead`: check, dial, insert |
| `RegisterLooks`, `RegisterInserts` | `register_call` |
| `Webhook`, `ClaimRoom`, `Connect`, `EnsureRowLooks`, `EnsureRowInserts`, `TrackTimesOut`, `TrackArrives`, `AnswerWrites`, `BuildBridge`, `BridgeEnds`, `Disconnect` | `livekit_webhook` and `run_call` |
| `Rings`, `HangsUp`, `HandsOver` | the phone; the outcome, perhaps reported twice |
| `Grows`, `Reap`, `ProcessRestarts` | 30 minutes pass, `reap_stale_calls`, the process |

A transaction is one step, except that `mark_answered` reads the row in one
(`TrackArrives`) and writes it by its key in another (`AnswerWrites`), with an await in
between. A webhook whose count of the active calls fails goes on as if there were none
(`livekit_routes.py:311-316`).

The code's exceptions to the promises are ghosts, each set at the step that makes it. `uncapped`
has the calls that came in past the cap: registered by the CRM, which asks for no room; admitted
while another call was on its way, or ran without a row (check-then-act); admitted by a
failed count; brought back by an answer that undid a reaping. They count against the others,
so `CapHeld` says that none of them lets in a further call. `twin` has the calls whose row two
looked for before either inserted it (two registrations, or a registration and the room's
runner), and `OneRecord` excepts these. `OneAgentPerRoom` is about the agents of one process:
the rooms in flight are a dict of the process (`livekit_routes.py:59`, "Single-process"), and of
several pods two would join the room. Softphone calls (`telephony_hooks.py:795-845`) are left
out. The reaper emits no event, unlike what
`campaign-call-handoff.md:94` says of it; no property is about events.

### LiveBridge

One telephone call: `drive` (where `_drive` is), the events task and whether a
`CancelledError` is on its way to it, the watchdog, `stopped`, `session`, the agent's
state, the turn being spoken (`buf`, `action`), the transcript `turns`, `pc` (the await at
which `_commit_turn`, `_emit_outcome` or `_on_transfer_hold` stands), the transfer store's
entry and future, the caller. A turn is committed by the events task or, after it has
ended, by the teardown, so one `pc` serves both. Cancellation follows Python 3.11
(`Dockerfile`): a task is cancelled at the await it has reached; a `wait_for` whose
future is already done returns the result. The hold catches the cancellation and
goes on to the outcome, so a call cut during a hold does deliver its outcome (the
note of 2026-07-31 on transcript persistence, lines 186-193, describes the opposite).

`end` stands for every action that ends the agent without a hold, `continue` for the
rest. Left out: audio, playback, pacing, slots, metrics, the sender task, the browser
and LiveKit transports, and branches that `bootstrap.py` cannot reach (no tenant, no LLM,
no TTS). The model's first event follows the start frame, since it does not speak first.

### VoiceTurn

A browser call on the layered pipeline: `run()`, the recogniser's consumer, the turn's task,
the engine and its speech worker, the cap and grace of the backstop.

| Action | Code |
|---|---|
| `Transcribes`, `LlmSpeaks`, `NoFirstToken`, `LlmEnds`, the worker's steps | `PipelineEngine`: producer, queue, `tts_worker`, the sentence guard |
| `CapExpires`, `GraceExpires`, `EngineReturns`, `Abandons`, `Retries`, `FinishesTurn`, `Delivers` | `VoiceBotAgent`'s turn and `_run_turn_with_backstop` |
| `EndpointArrives`, `TaskStarts`, `HandsToAgent`, `TailGoes`, `BargesIn` | the stream's consumer and the turn's task in `browser_bridge.py` |
| `StreamReopens`, `StreamGone`, `SendFails`, `HeartbeatFails` | failures of recogniser and socket |
| `BatchUtterance`, `BatchWraps`, `BatchCloses`, `VoiceLoopEnds`, `BrowserLeaves`, `PlaybackEnds` | batch endpointing inside `run()`, the end of the call |

Deadlines may pass at any time, which covers every setting of them. The tenant's barge-in
checkbox is not a variable (a barge-in may or may not happen), nor is the number of
times the stream was reopened (it may fail for good at any time). What a turn computed
locally is reset when the bridge takes it back.

### TenantConfig

Versions instead of settings: what is committed, what the resolver's tables hold, which
version a cached client and the cached tools were built from, whose lock is in the table, and
where each update and each visit is.

| Action | Code |
|---|---|
| `CommitSettings`, `ReloadReads`, `ReloadSwaps`, `ReloadEvicts`, `ReloadFails`, `EvictionFails` | an admin's PATCH, `DbTenantResolver.reload`, `on_reload` |
| `CommitTools`, `ApplyLive` | changes of tools, which evict nothing; changed platform defaults, which evict without a reload |
| `Resolves`, `UsesClient`, `Departs` | a request or a socket with its context |
| `HasTools`, `TakesLock`, `GetsLock`, `LoadReads`, `LoadStores`, `LoadFails` | `_AsyncPerTenantRegistry.get` |

Between the swap and the eviction the old clients are used with the new context, and stay if
closing the database session raises in between (`EvictionFails`). A reload raises as a whole
when any tenant's row is invalid. The histories `refilled`, `crossed` and `setback` mark these
ways out of `UpdateTakesHold` and `OneLoad`. Tools have a version of their own, of which no
property speaks: registering or deleting one takes effect whenever the next eviction comes.

### Campaign

Lead statuses and retries, the run's counters, the rate window, a task per lead, the DND
store, the calling hours. `Iterate` is one round of the polling loop; `Acquires`,
`DispatchCrashes`, `DispatchReturns`, `LeadUpdated`, `DndMarked`, `MarkFails` and
`Reported` are the task of a call; `DndChanges`, `HoursChange` and `CampaignTick` the
world. What the model has and no property forbids: a crash at the last attempt fails the lead
without counting it; a failing `mark_dnd` leaves a lead active and the run without end; a
refusal goes to the CRM and not to the DND store; a task that waited for the semaphore
dials although hours, DND or rate have changed (so `RateKept` is about what polls hand
out, which is what the scheduler counts). A lead that is polled again while an earlier
task still reports gets a new task in place of the old, whose report has no effect
on anything modelled.

## 3. Runs

| Run | Instance | Shows | Distinct states |
|---|---|---|---|
| `outbox_fencing` | 2 rows, 2 pods, batch 2, lease 3, passes of any length, horizon 4 | a newer claim is kept, and the refinement of `DurableDelivery` | 1.9 million |
| `outbox_threshold` | 1 row, 2 pods, threshold 3 | finding 1 | violation |
| `timed_live` | outbox: 1 row, 2 skewed pods, lease 3, horizon 9; calls: 2, with 2 webhooks, 2 registrations, cap 1, 1 fault, four mixes of kinds; handoff: 3 sockets on 2 tokens | no row in two hands and every queued one settles; one agent per room, one record, the cap, every call closes; one live call per token, no jam, the chat's end closes the call | 212 076 |
| `guard_overlap` | 3 connections of one session, hold 2, window 1, sweep at every admission | overlap, simultaneous answers, echoes, wedging | 860 613 |
| `chat_routing` | chat: 2 connections used twice, 1 agent, 1 job, 1 text; external: 3 messages, key life 2, 1 fault | one addressee and one fate per message, pushes reach the newest connection; an answer remembers its conversation | 871 437 |
| `process_live` | chat: 2 connections, an agent who may end; with one of them at a time also 1 reply, 1 decline, 1 restart; config: 2 updates, 2 visits, 1 fault; campaign: 2 leads, 2 attempts | human mode ends; an update takes hold, one load; leads accounted for, the campaign ends | 493 335 |
| `handover_expiry` | 1 connection used twice, 1 agent | finding 2 | violation |
| `voice_calls` | speech-to-speech: one call of 2 turns; layered: one call of 2 turns of 2 sentences, with stream or batch | outcome, whole transcript, hold, no contradiction, the call ends; speech in order, one turn at a time, turns end | 386 917 |
| `bridge_outcome` | one call of 1 turn | finding 3 | violation |
| `voice_closing` | one turn of one sentence | finding 4 | violation |
| `chat_work` | deposit: 1 request, 2 callbacks, 2 relays, 2 checks, 1 fault, either vendor; turn: 2 turns, 2 tools, 2 rounds, budget 1 | one hand-over, told once, timeouts just, requests settle; the directive is honest, the answer whole, every turn answered | 567 216 |
| `tenant_stale` | 1 update, 2 visits, no fault | finding 5 | violation |

### Bounds, and why they are enough

* Outbox. Two pods and one row give every race for a claim: overrun, re-claim, late
  finalize, crash. Two rows with `Batch = 2` (fencing) add a batch whose last row is begun
  late in the lease. `Lease` is the smallest that satisfies the assumption. `Horizon` cuts
  time: in the fencing run it allows two overlapping generations of claims; in `timed_live`
  the premise `FitsHorizon` selects rows whose whole life (age limit, lease, last backoff)
  ends before it, and `MaxAge = 4` is reached after several attempts.
* Guard. Three connections allow a takeover of a takeover with both older turns still to
  release; there is always a fresh token. Ages saturate, so time is unbounded.
  `MaxEntries = 0` makes every admission but the first sweep the table.
* Chat. Two connections and one text are what a hand-off to the wrong one and a late
  cleanup need; `MaxConnects = 2` bounds reconnects. The routing run leaves declines and
  restarts out, the proof of `OneAddressee` does not. `process_live` has both, and the
  agent's end. There `FewSockets` bounds the chats: while two sockets are open at once
  nothing was declined, replied or restarted, and the second came while the session was
  with the agents or on its way to them, so that two connections in human mode take from
  the one queue.
* Chat turn. Two tools, so that one category fails while the other does not; two rounds, so
  that a tool fails and then works or the reverse; two turns, so that a streak exists. With
  the budget at one unit a second tool of a round finds it spent.
* External. Three messages: two that overlap in creation and one that comes later; a key
  that expires once.
* Deposit. One request is what the races are about (a second of the same session is refused
  while it is pending); two of each of the vendor's deliveries and of the checks, so each
  meets its repeat; a message in the last unit before the deadline slides it to the ceiling.
  The order's cap is one message, so in the run the second is turned away by the cap
  as well as by its signature; the proof of `ToldOnce` has any cap.
* Calls. Two calls against a cap of one; the four mixes pair the kinds whose interplay
  differs, and a room may be registered in all of them. `Few` bounds the requests: two
  webhooks and two registrations for one call alone, or any two requests (dials, webhooks,
  registrations) for two calls, which is what a race for the cap takes. One fault is a
  restart, a failed count or a failed write. Rows age independently of one another, so the
  reaper may come at any time.
* Handoff. Two sockets on one token contend for a lock and a third, on another token,
  overlaps in the session; a life of four with one missed renewal and a lag of one is the
  tightest that satisfies the assumption.
* Bridges. Two turns show a signal or text of one turn leaking into the next, and a
  commit cut in the first half of either; two sentences an order, two failures the limit at
  which the worker gives up.
* Config. Two updates overtake each other, two visits contend for a load.
* Campaign. Two leads compete for one slot of the window and of the semaphore, and each
  may be retried once.

### Fairness

* Outbox: `WF(Tick)` and `WF(PassStep(p))`: the loop is written never to die, and each
  await in a pass has a timeout. Crashes, pruning, the kill switch are not owed, and
  `PendingSettles` assumes retries are not paused for ever. Weak fairness of a pod's
  steps as a group suffices: a pod whose passes are abandoned again and again still takes
  claiming steps, and a claim retires a row that has grown too old.
* Guard: `WF(Tick)` and `WF(EndAnswer(c))`, since `wait_for` bounds `_run_turn`. Nothing ends
  a turn's last phase, so `NeverWedged` holds because of the maximum hold.
* Chat: each connection's loops (their waits have deadlines), a request once it was
  received, an agent's socket once the end frame was read. Nobody has to connect, write,
  claim or decline, and jobs owe nothing.
* Chat turn: the turn's timeout, the keepalive once it was told to stop, and the handler's
  own steps after the turn. Nothing is asked of the model, a tool, or a send on a wedged
  socket, so `TurnAnswered` rests on `wait_for` and on the bounded drain.
* Deposit: time passes, steps of running coroutines are taken, and a sleeping timer wakes.
  The last is strong fairness: whether a slot for its check is free comes and goes.
  `SubmittedIsSettled` excepts restarts and outages, which take the timer away; the sweep at
  the customer's return is all that is left then, and nobody has to return.
* Handoff: time passes and a handler does what is its turn. Calls, ends and deaths are
  not owed.
* Calls: the reaper's loop comes round, rows grow old, a runner goes on.
* Speech-to-speech bridge: the coroutines (every await has a timeout), the watchdog and
  `_drive`. The inbound loop notices `_stopped` because telephony transports send a frame
  every 20 ms. Nothing is asked of caller, model or coordination service.
* Layered pipeline: the worker (synthesis has a timeout), the agent, the bridge, the end of
  what is played, the cap and its grace. Nothing is asked of the model or the recogniser.
* Campaign: the loop polls every millisecond (strong fairness, as the hours may close in
  between), time passes, closed hours open again, a dialled call ends.
* ExternalChat and TenantConfig state safety only.

Deadlock checking is off where the bounded system may stop (time reaches its horizon, a call
ends, everybody has gone): everywhere but in the guard, where it is on.

## 4. What is proved

Checked by TLAPS without bounds, under the named assumptions of the component modules
(limits are naturals, the lease and lock assumptions, sets typed, calls and leads finite).
Every invariant, action property and refinement that a run checks is proved, the
type invariants of the compositions included. Only liveness is not. Eight modules have
proofs; few of the properties below are inductive by themselves.

`WebhookOutboxProofs`, for any finite number of rows, any pods, any skew: `TypeCorrect`,
`FencingTokensHold`, `NewerClaimKeptHolds`, `TerminalIsFinalHolds`,
`DeliveredWasReceivedHolds` (no timing assumption), `OutboxImplementsContract` (initial
states map to initial states, each step to a step or a stutter of `DurableDelivery`), and
`LeaseExclusiveHolds`: `Spec => [](Timely => LeaseExclusive)`. `PassInv` ties a pass to its
rows: it holds some exactly while it runs, all of them queued once, its current row is one
of them, and a 2xx it is about to record was received. `OutcomeInv` adds that an event not
sent yet was not received, which the refinement needs. `LeaseInv` is the argument behind the
lease: the rows a pass still holds, times `RowTime`, counted from the start of the current
row, fit into what is left of every one of their leases. A claim establishes it, finishing
a row trades one `RowTime` for elapsed time, and a row under an unexpired lease is not due,
so nobody claims it. The proof covers larger batches than `timed_live`.

`TurnGuardProofs`, for any sessions, connections, frames and timeouts: `TypeCorrect`,
`NoEarlyOverlapHolds`, `OneAnswerAtATimeHolds`, `NoEchoHolds`. `IInv` adds to the types:
running turns have distinct tokens; a turn that nobody overtook or evicted owns its session's
entry, which is as old as the turn; every other turn owns nothing (so its late release
changes nothing); an overtaken turn is past the maximum hold; the phase under
`wait_for` is no older than the timeout; an answer within the echo window is still
remembered by the entry (so the sweep spares it).

`ChatHandoverProofs`, for any connections, agents, messages and jobs, restarts included:
`TypeCorrect`, `OneAddresseeHolds`, `PushReachesNewestHolds`. `AddresseeInv` says where a message
can be: what is still on a socket has no fate yet, what a loop has in hand is nobody
else's, and the fates exclude each other. The push registry names the newest connection
in the bot's loop because an older one that leaves takes back only its own entry.

`ExternalChatProofs`, for any messages, requests at once, failures and restarts:
`ExternalTypeCorrect`, `ConversationRememberedHolds`. `ConversationInv` says why an answer knows
what was said before: a session in use is the one the key leads to, unless it met
another in creation or the key expired (`KeyLeads`); whoever creates has the session to
itself, or both are marked (`CreationsMeet`); what a message is to know was recorded
in its own session, with the same exceptions (`KnowsItsOwn`); and once a request has
read the transcript, it remembers what of it is recorded there (`Remembers`).

`ChatWorkProofs` has three parts.

* DepositVerification, for any requests, deliveries and timers: `TypeCorrect`,
  `OneHandoffHolds`, `TimedOutWhenDueHolds`, `AgentNotUnseatedHolds`, `TimeoutsJustHolds`,
  `ToldOnceHolds`. `HandoffInv` says that a check past its claim is alone with its request
  (`ClaimedOnce`), that a row comes before its timers and checks, and that a check's look
  is not of the future, which is what makes a claim with an old time sound: the deadline
  it meets is not later than that time. `PatientInv` follows a patient vendor's unanswered
  call: a pending row was told nothing, and a message shown is among the signatures.
* ChatTurn, for any tools, labels, rounds, budget and turns: `AnswerWholeHolds`,
  `DirectiveHonestHolds`, `ChatTurnTypeCorrect`. `AnswerInv`: agent and handler agree on
  where the turn is, and a human who was asked for is noted or among the calls still to
  make. `DirectiveInv` says which tools failed without counting rounds (`FailsIn`: it failed in
  the last round that called it), so that no recursion over the messages is needed: during a
  round, the sets the code keeps are right for the messages before it and for those since
  (`Rounds`); between rounds, for all (`Asked`); the one directive is where the code thinks
  and names exactly these (`Placed`); and the streak is what was named last (`Counted`).
* Their composition: `WorkTypesCorrect`.

`TimedStateProofs` has two parts.

* VoiceHandoff, for any sockets and tokens: `VoiceTypeCorrect`, `LockExclusiveHolds`,
  `EndReachesVoiceHolds`. `LockInv` is the slack of renewals: the lock of a running call is
  its own, the time it has left falls short of a full life by no more than one interval for
  the current and each failed renewal, and the lock of a call that ended outlasts the
  lag of its release. `EntryInv` says whose socket the session's entry is while calls do
  not overlap.
* CallRecords, for any calls and repeats: `CallsTypeCorrect`, `OneAgentPerRoomHolds`,
  `OneRecordHolds`, `EndedStaysEndedHolds`, `CapHeldHolds`. `RoomInv`: a room in flight is
  exactly one runner's. `RowInv`: a lead before its insert has no row (`LeadsAreNew`); a
  call that two look for at once is in `twin` (`LookersMeet`), and so is one whose row came
  while somebody who missed it has still to insert (`LookersInsertFirst`); so a second row
  is always a twin's. `AnswerInv`: the row an answer is about to be written to is there,
  and has ended only if it was old, which is the one exception of `EndedStaysEnded` (only the
  reaper ends a row there). `CapInv`: the calls outside `uncapped` that are active or on their
  way are within the cap, and a runner that inserts a second row does so for a registered call.

`VoiceCallsProofs` has three parts.

* LiveBridge, for any number of turns: `TypeCorrect`, `OutcomeUnlessCutHolds`,
  `NoApologyAfterSuccessHolds`, `HoldKeptHolds`, `WholeCallAnalysedHolds`. `BridgeInv` ties
  the program counters to each other (`Where`: which of drive, events task and commit may be
  where together; `Turning`: what is buffered while a turn is committed) and has a part
  per promise (`HoldInv`, `OutcomeInv`, `HeardInv`).
* VoiceTurn, for any turns, sentences and failures: `SpokenInOrderHolds`,
  `VoiceTurnTypeCorrect`. `PathsInv` ties engine, turn, agent and loop together: the
  engine runs only for the turn that awaits it, until the call is over (`Quiet`,
  `OverIsOver`); the agent's state agrees with the turn's place (`MachineFits`); and as
  long as no turn of the stream met one of the batch path, a turn on its way finds the
  agent listening (`OnePath`). `ReplyInv`: what was spoken and what still waits in the
  queue are one reply in order, none of it beyond what the model has said, the safe line
  last. `WorkerFits` is the speech worker's part.
* Their composition: `CallsTypesCorrect`.

`InProcessProofs` extends also `ChatHandoverProofs` and has three parts.

* TenantConfig, for any updates and visits: `ConfigTypeCorrect`, `UpdateTakesHoldHolds`,
  `OneLoadHolds`. `ConfigInv` joins the types with `LockInv` (a visit that loads or waits
  does so at the lock in the table, or was crossed: an eviction drops the lock and crosses
  every visit at it, so a table without a lock has no uncrossed waiter) and `ContextInv` (the
  tables are never ahead of the rows, and while they are behind without a setback, some
  update is on its way to catch up).
* Campaign, for any finite set of leads, any limits and window: `LeadsAccountedHolds`,
  `RateKeptHolds`, `CampaignTypeCorrect`. `CampaignInv` lists the six places a lead can
  be (`Awaits`, `Queues`, `Talks`, `Refuses`, `Sticks`, `Settled`), each with its status, task,
  count and set, and says that exactly the settled ones that did not crash are counted. The
  rate is a sum over the window by age, a recursive function: the proof characterises it
  by its running sums, which exist and are unique for every table of ages, and follows
  them through a poll and a tick; a poll picks no more leads than its budget.
* The composition, with ChatHandover: `ProcessTypesCorrect`.

Only model-checked: all liveness (`PendingSettles`, `EveryCallCloses`, `TokenUsableAgain`,
`NeverWedged`, `HumanModeEnds`, `CampaignEnds`, `CallEnds`, `TurnsEnd`, `SubmittedIsSettled`,
`TurnAnswered`), which rests on fairness and ENABLED, outside the prover's reach.

## 5. Findings

1. `outbox_threshold` (`main.py:785`). The three-strike rule counts claims. A row
   whose first claims were abandoned before delivery dies on the first 4xx, against the
   comment at `main.py:536`.
2. `handover_expiry` (`chat.py:4654`). A customer who reconnects while an agent holds the
   session counts down again and is put back to the bot, with the agent connected.
3. `bridge_outcome` (`live_bridge_base.py:361`). When the agent ends the call, the
   teardown cancels the events task while it computes the outcome and then takes the
   outcome for emitted. `OutcomeUnlessCut` shows that, once the call SID is known,
   this is the only way to lose it.
4. `voice_closing` (`browser_bridge.py:674`). The socket can be closed while the final line is
   still being played, against the comment at `browser_bridge.py:127-130`.
5. `tenant_stale` (`auth/registry.py:229`). A visit that had resolved the tenant before an
   update fills the client cache with its old context after the eviction, and every later
   visit uses it, against `api/tenants.py:944-948`.

Behaviours the models contain without a property, because no document says otherwise, are
hazards with a note in `PROJECT.json` or are named above: two claims both answered, an
un-assignment by the relay, a closed session reopened, a duplicate turn in the salvage, an
early transfer result refused, a memory split over two sessions. Three things can be read
off the code and have no run:

* A session the agent ends is not reported with `session_closed` (`chat.py:2811-2814`), which
  `chat-widget-backend-integration.md` promises at lines 399 and 489.
* A room the CRM registers beforehand, as `docs/integrations/livekit-room-handoff.md:94-108`
  offers, has an active row when its own webhook counts the active calls
  (`livekit_routes.py:309-320`): with the default cap of one (`config_tenant.py:624`) no agent
  joins it, and the row waits for the reaper. CallRecords has that (`ActiveCalls` counts the
  room's own row).
* Of two connections of a session in human mode the agent's end reaches one
  (`chat.py:4651-4688`). If it was the other that was told of the claim, this one stays in
  human mode with nobody there, and the docstring of `_run_human_mode` ("True when the
  session ended normally (agent closed it ...)") is about that one only. ChatHandover has that.

## 6. Not modelled, and the plan

The plan's order was outbox, guard, handover, bridge, handoff, deposit, call records,
pipeline, registries, campaign, chat turn, external conversations; all are done, and
all their safety properties are proved. What is left, in the order of its worth:

| Part | Question | Remark |
|---|---|---|
| VAD and sentence detection (`pipeline/vad.py`, `sentence_detector.py`) | does every utterance end, is a sentence emitted once | sequential; a reference definition over bounded inputs |
| Half-duplex telephony bridges (`api/telephony_*.py`) | as VoiceTurn, over a transport without barge-in | the framing differs from vendor to vendor |
| Media turns and the single-shot path of the chat bot; REST chat, upload and history routes | a row written before the turn, and its answer after it | same tables and guard as the socket |
| A product of ChatHandover and DepositVerification | both write the mode | each has the other's writes as actions now |

Left out for good: provider adapters, media and LiveKit I/O, RAG ranking, prompt
construction and parsing, database schema, administration and reporting, metrics,
benchmarks. They are vendor I/O, data transformations or single-request CRUD; where
their effect matters it is an input of a model (a delivery's outcome, a turn's
escalation, an analysis that succeeds or fails). They are most of the code's
lines, so the `map` covers about a tenth of them.
