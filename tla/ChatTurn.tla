------------------------------ MODULE ChatTurn ------------------------------
(***************************************************************************)
(* A turn of the chat bot and the messages that bridge its wait            *)
(* (agents/chatbot.py, api/chat.py).                                       *)
(*                                                                         *)
(* The agent asks the model, runs the tools it asks for under a budget of  *)
(* time, and asks again, for a few rounds. Tools that failed are named to  *)
(* the model in one synthetic message, the directive. The turn is a task   *)
(* under a timeout; beside it a second task, the keepalive, sends "still   *)
(* working on it" every so often, and is stopped before the reply goes     *)
(* out. One connection is modelled, so one agent and one turn at a time.   *)
(*                                                                         *)
(* Texts, arguments and results are not modelled: a model's text is usable *)
(* or not, a tool's result is a failure or not.                            *)
(***************************************************************************)
EXTENDS Integers, SequencesExt

CONSTANTS
    CrmTools,       \* the tenant's tools, and submit_deposit_verification
    LabelOf,        \* _TOOL_CATEGORY_LABELS; tools of the tenant's own share a label
    MaxRounds,      \* _max_tool_rounds
    Budget,         \* _TOOL_BUDGET_S
    Ceiling,        \* _TOOL_CALL_CEILING_S
    MinSlice,       \* _TOOL_MIN_SLICE_S
    MaxCalls,       \* bound: tool calls in one response of the model
    MaxTurns,       \* bound: turns of the connection
    MaxInterims     \* bound: interim messages in one turn

ASSUME ChatTurnAssumption ==
    /\ {MaxRounds, Budget, Ceiling, MinSlice} \subseteq Nat \ {0}
    /\ {MaxCalls, MaxTurns, MaxInterims} \subseteq Nat

VARIABLES
    agent,          \* where _handle_with_tools is
    streak,         \* _consecutive_category_failures: the labels counted
    prior,          \* _prior_failure_counts
    round, toCall, spent, roundFailed, roundOk,
    failing,        \* failed_category_names
    messages, directive, instructed,
    escalation, action,
    handler,        \* where chat_websocket is with the turn
    keepalive, stopping,
    turns, interims,
    requested,      \* history: a human was asked for in this turn
    lastNamed,      \* history: the labels of the last answered turn's directive
    late            \* history: an interim message left after the turn's answer

toolVars == <<round, toCall, spent, roundFailed, roundOk>>
promptVars == <<failing, messages, directive, instructed>>
resultVars == <<escalation, action>>
agentVars == <<agent, streak, prior, toolVars, promptVars, resultVars, requested, lastNamed>>
keepaliveVars == <<keepalive, stopping, interims, late>>
chatTurnVars == <<agentVars, handler, keepaliveVars, turns>>

(* SEARCH_KB and ESCALATE, which draw nothing from the budget. OFFER_CALL is as ESCALATE,
   without asking for a human. *)
LocalTools == {"search", "escalate"}
Tools == CrmTools \cup LocalTools
Labels == {LabelOf[t] : t \in CrmTools}
LabelsOf(ts) == {LabelOf[t] : t \in ts}

Responses == UNION {[1..n -> Tools] : n \in 1..MaxCalls}

(* The messages of a request, as far as the turn reads or removes them. *)
Said == [is |-> "said"]
Calls == [is |-> "calls"]
Result(t, ok) == [is |-> "result", of |-> t, ok |-> ok]
Instruction == [is |-> "instruction"]
DirectiveOn(ts) ==
    [is |-> "directive", labels |-> LabelsOf(ts), escalates |-> LabelsOf(ts) \cap prior # {}]

AsksModel == {"model", "forced", "retry"}
Working == AsksModel \cup {"tools", "recording"}
Deciding == {"turn", "drain", "reap"}

ChatTurnTypeOK ==
    /\ agent \in Working \cup {"idle", "done", "failed"}
    /\ streak \subseteq Labels /\ prior \subseteq Labels /\ lastNamed \subseteq Labels
    /\ round \in 1..MaxRounds
    /\ toCall \in Responses \cup {<<>>}
    /\ spent \in 0..Budget
    /\ roundFailed \subseteq CrmTools /\ roundOk \subseteq CrmTools /\ failing \subseteq CrmTools
    /\ directive \in 0..Len(messages)
    /\ instructed \in BOOLEAN /\ escalation \in BOOLEAN /\ requested \in BOOLEAN
    /\ action \in {"none", "escalate"}
    /\ handler \in Deciding \cup {"receive", "reply", "error", "handover", "gone"}
    /\ keepalive \in {"none", "parked", "sending"}
    /\ stopping \in {"no", "set", "cancelled"}
    /\ turns \in 0..MaxTurns /\ interims \in 0..MaxInterims /\ late \in BOOLEAN

ChatTurnInit ==
    /\ agent = "idle" /\ streak = {} /\ prior = {} /\ lastNamed = {}
    /\ round = 1 /\ toCall = <<>> /\ spent = 0 /\ roundFailed = {} /\ roundOk = {}
    /\ failing = {} /\ messages = <<>> /\ directive = 0 /\ instructed = FALSE
    /\ escalation = FALSE /\ action = "none" /\ requested = FALSE
    /\ handler = "receive" /\ keepalive = "none" /\ stopping = "no"
    /\ turns = 0 /\ interims = 0 /\ late = FALSE

-----------------------------------------------------------------------------
(* The agent's turn (_handle_with_tools). *)

(* chat_websocket starts the turn and the keepalive, each a task. *)
TurnStarts ==
    /\ handler = "receive" /\ turns < MaxTurns
    /\ handler' = "turn"
    /\ agent' = "model" /\ prior' = streak
    /\ messages' = <<Said>>
    /\ escalation' = FALSE /\ action' = "none" /\ requested' = FALSE
    /\ keepalive' = "parked" /\ stopping' = "no" /\ interims' = 0
    /\ turns' = turns + 1
    /\ UNCHANGED <<streak, lastNamed, toolVars, failing, directive, instructed, late>>

(* The model wants tools. *)
ModelCalls(cs) ==
    /\ agent = "model"
    /\ agent' = "tools" /\ toCall' = cs
    /\ messages' = Append(messages, Calls)
    /\ roundFailed' = {} /\ roundOk' = {}
    /\ requested' = (requested \/ \E i \in DOMAIN cs : cs[i] = "escalate")
    /\ UNCHANGED <<streak, prior, lastNamed, round, spent, failing, directive, instructed,
                   resultVars, handler, keepaliveVars, turns>>

KeepsStale(msgs) == msgs                                            \* a mutant
WithoutDirective(msgs) == IF directive = 0 THEN msgs ELSE RemoveAt(msgs, directive)

(* The end of a round: a tool that worked in it is no longer failing. The directive is
   renewed, behind the results; after the last round the model is told to answer. *)
EndsRound(msgs) ==
    LET kept == WithoutDirective(msgs)
        named == IF failing' = {} THEN kept ELSE Append(kept, DirectiveOn(failing'))
        last == round = MaxRounds
    IN /\ failing' = (failing \ roundOk') \cup (roundFailed' \ roundOk')
       /\ directive' = IF failing' = {} THEN 0 ELSE Len(named)
       /\ messages' = IF last THEN Append(named, Instruction) ELSE named
       /\ instructed' = last
       /\ agent' = IF last THEN "forced" ELSE "model"
       /\ round' = IF last THEN round ELSE round + 1

(* A call has its result: it is noted, and the next call's turn comes, or the round's
   end. *)
CallEndsWith(ok) ==
    LET t == Head(toCall)
        msgs == Append(messages, Result(t, ok))
    IN /\ toCall' = Tail(toCall)
       /\ roundOk' = IF ok /\ t \in CrmTools THEN roundOk \cup {t} ELSE roundOk
       /\ roundFailed' = IF ~ok /\ t \in CrmTools THEN roundFailed \cup {t} ELSE roundFailed
       /\ IF Len(toCall) > 1
          THEN messages' = msgs /\ UNCHANGED <<agent, round, failing, directive, instructed>>
          ELSE EndsRound(msgs)
       /\ UNCHANGED <<streak, prior, lastNamed, action, requested, handler, keepaliveVars, turns>>

Budgeted(t) == t # "search"                                         \* a mutant
DrawsOnBudget(t) == t \notin LocalTools

CallsLeft == Cardinality({i \in DOMAIN toCall : DrawsOnBudget(toCall[i])})
Left == Budget - spent

(* The slice min(Ceiling, Left / CallsLeft) is too small. *)
TooLittle == Ceiling < MinSlice \/ Left < MinSlice * CallsLeft

(* The knowledge base is searched under a timeout of its own; a request for a human is
   only noted. *)
LocalCall ==
    /\ agent = "tools" /\ ~DrawsOnBudget(Head(toCall))
    /\ CallEndsWith(TRUE)
    /\ escalation' = (escalation \/ Head(toCall) = "escalate")
    /\ UNCHANGED spent

CallSkipped ==
    /\ agent = "tools" /\ DrawsOnBudget(Head(toCall))
    /\ TooLittle
    /\ CallEndsWith(FALSE)
    /\ UNCHANGED <<spent, escalation>>

(* The tool answered, failed, or was cut off at the end of its slice. *)
CallReturns(ok, took) ==
    /\ agent = "tools" /\ DrawsOnBudget(Head(toCall))
    /\ ~TooLittle
    /\ took <= Ceiling /\ took * CallsLeft <= Left
    /\ CallEndsWith(ok)
    /\ spent' = spent + took
    /\ UNCHANGED escalation

(* The labels the request's directive names. *)
Named == UNION {messages[i].labels : i \in {j \in DOMAIN messages : messages[j].is = "directive"}}

(* The model's text, or none: an unusable one is asked for once more. *)
ModelAnswers(usable, act) ==
    /\ agent \in {"model", "forced"}
    /\ streak' = LabelsOf(failing)
    /\ lastNamed' = Named
    /\ IF usable
       THEN /\ agent' = "recording"
            /\ action' = IF escalation THEN "escalate" ELSE act
            /\ UNCHANGED <<messages, instructed>>
       ELSE /\ agent' = "retry"
            /\ messages' = IF instructed THEN messages ELSE Append(messages, Instruction)
            /\ instructed' = TRUE
            /\ UNCHANGED action
    /\ UNCHANGED <<prior, toolVars, failing, directive, escalation, requested, handler,
                   keepaliveVars, turns>>

(* The second try, which may fail or time out as well: without a text the turn asks for a
   human. *)
RetryEnds(usable, act) ==
    /\ agent = "retry"
    /\ agent' = "recording"
    /\ escalation' = (escalation \/ ~usable)
    /\ requested' = (requested \/ ~usable)
    /\ action' = IF escalation' THEN "escalate" ELSE act
    /\ UNCHANGED <<streak, prior, lastNamed, toolVars, promptVars, handler, keepaliveVars, turns>>

(* The locals of a turn that is over. *)
DropsLocals ==
    /\ round' = 1 /\ toCall' = <<>> /\ spent' = 0 /\ roundFailed' = {} /\ roundOk' = {}
    /\ failing' = {} /\ messages' = <<>> /\ directive' = 0 /\ instructed' = FALSE

(* _persist and the metric, each an await. *)
Recorded ==
    /\ agent = "recording"
    /\ agent' = "done" /\ DropsLocals
    /\ UNCHANGED <<streak, prior, lastNamed, resultVars, requested, handler, keepaliveVars,
                   turns>>

(* The model or the session's store raised, or _run_turn's timeout passed. *)
TurnFails ==
    /\ agent \in Working
    /\ agent' = "failed" /\ DropsLocals
    /\ UNCHANGED <<streak, prior, lastNamed, resultVars, requested, handler, keepaliveVars,
                   turns>>

-----------------------------------------------------------------------------
(* The keepalive (_interim_wait_keepalive): parked until the interval passes or the turn
   is over. "none" is a task that is done. *)

IntervalPasses ==
    /\ keepalive = "parked" /\ stopping = "no" /\ interims < MaxInterims
    /\ keepalive' = "sending"
    /\ UNCHANGED <<agentVars, handler, stopping, interims, late, turns>>

InterimSent ==
    /\ keepalive = "sending" /\ stopping # "cancelled"
    /\ keepalive' = "parked" /\ interims' = interims + 1
    /\ late' = (late \/ handler \notin Deciding)
    /\ UNCHANGED <<agentVars, handler, stopping, turns>>

InterimFails ==
    /\ keepalive = "sending" /\ stopping # "cancelled"
    /\ keepalive' = "none"
    /\ UNCHANGED <<agentVars, handler, stopping, interims, late, turns>>

KeepaliveEnds ==
    /\ \/ keepalive = "parked" /\ stopping = "set"
       \/ keepalive # "none" /\ stopping = "cancelled"
    /\ keepalive' = "none"
    /\ UNCHANGED <<agentVars, handler, stopping, interims, late, turns>>

-----------------------------------------------------------------------------
(* The handler: _run_turn_with_keepalive, _stop_keepalive, and what follows the turn. *)

Over == agent \in {"done", "failed"}
Answers == IF agent = "done" THEN "reply" ELSE "error"

(* stop.set(), and the drain, unless the keepalive is done already. *)
TurnOver ==
    /\ handler = "turn" /\ Over
    /\ stopping' = "set"
    /\ handler' = IF keepalive = "none" THEN Answers ELSE "drain"
    /\ UNCHANGED <<agentVars, keepalive, interims, late, turns>>

NotAwaited == keepalive # "none" \/ keepalive = "none"              \* a mutant
KeepaliveDone == keepalive = "none"

Drained ==
    /\ handler \in {"drain", "reap"} /\ KeepaliveDone
    /\ handler' = Answers
    /\ UNCHANGED <<agentVars, keepaliveVars, turns>>

OnlyWaits == "set"                                                  \* a mutant
AfterDrain == "cancelled"

(* _KEEPALIVE_DRAIN_S: a send that hangs is cancelled, and awaited. *)
DrainExpires ==
    /\ handler = "drain" /\ keepalive # "none"
    /\ stopping' = AfterDrain
    /\ handler' = "reap"
    /\ UNCHANGED <<agentVars, keepalive, interims, late, turns>>

(* The reply, and with a request for a human the handover; or the error frame. *)
Answered ==
    /\ handler \in {"reply", "error"}
    /\ handler' = IF handler = "reply" /\ escalation THEN "handover" ELSE "receive"
    /\ UNCHANGED <<agentVars, keepaliveVars, turns>>

(* A step before the reply raised, or the socket is gone, or the reply closed the session
   ("resolved"). *)
AnswerFails ==
    /\ \/ handler = "reply" /\ handler' = "error"
       \/ handler \in {"reply", "error"} /\ handler' = "gone"
    /\ UNCHANGED <<agentVars, keepaliveVars, turns>>

(* The bot has the session again, with the agent it had. *)
BotAgain ==
    /\ handler = "handover" /\ handler' = "receive"
    /\ UNCHANGED <<agentVars, keepaliveVars, turns>>

-----------------------------------------------------------------------------
AgentGoes ==
    \/ \E cs \in Responses : ModelCalls(cs)
    \/ LocalCall \/ CallSkipped
    \/ \E ok \in BOOLEAN, took \in 0..Ceiling : CallReturns(ok, took)
    \/ \E usable \in BOOLEAN, act \in {"none", "escalate"} :
          ModelAnswers(usable, act) \/ RetryEnds(usable, act)
    \/ Recorded

KeepaliveGoes == IntervalPasses \/ InterimSent \/ InterimFails \/ KeepaliveEnds

HandlerGoes == TurnOver \/ Drained \/ DrainExpires \/ Answered \/ AnswerFails \/ BotAgain

ChatTurnNext == TurnStarts \/ AgentGoes \/ TurnFails \/ KeepaliveGoes \/ HandlerGoes

ChatTurnSpec == ChatTurnInit /\ [][ChatTurnNext]_chatTurnVars

(* The turn's timeout passes, a task that was stopped or cancelled goes on, and the
   handler answers. The model, the tools, and a send on a wedged socket owe nothing. *)
ChatTurnFairness ==
    /\ WF_chatTurnVars(TurnFails)
    /\ WF_chatTurnVars(KeepaliveEnds)
    /\ WF_chatTurnVars(TurnOver) /\ WF_chatTurnVars(Drained) /\ WF_chatTurnVars(DrainExpires)

-----------------------------------------------------------------------------
(* Properties. *)

(* What the messages themselves say: a tool is failing if no call of it worked in the
   last round that called it. *)
RoundOf(i) == Cardinality({j \in 1..i : messages[j].is = "calls"})
ResultsOf(t) == {i \in DOMAIN messages : messages[i].is = "result" /\ messages[i].of = t}
Latest(t) == {i \in ResultsOf(t) : \A j \in ResultsOf(t) : RoundOf(j) <= RoundOf(i)}
StillFailing == {t \in CrmTools : Latest(t) # {} /\ \A i \in Latest(t) : ~messages[i].ok}
Directives == {i \in DOMAIN messages : messages[i].is = "directive"}

(* Whenever the model is asked, it is told exactly what could not be looked up, once,
   and behind everything but the instruction to answer; and told to offer a human if
   the last answered turn failed at the same (chatbot.py:1763-1792, ticket 1762). *)
DirectiveHonest ==
    agent \in AsksModel =>
        /\ Directives = {} <=> StillFailing = {}
        /\ \A i \in Directives :
              /\ messages[i].labels = LabelsOf(StillFailing)
              /\ \A j \in DOMAIN messages : j > i => messages[j] = Instruction
              /\ agent # "retry" =>
                    (messages[i].escalates <=> messages[i].labels \cap lastNamed # {})

(* A human the model asked for, in whichever round and with however little budget left,
   or whom two empty answers call for, is in the reply (chatbot.py:1668-1674). *)
EscalationKept ==
    handler = "reply" /\ requested => escalation /\ action = "escalate"

(* No interim message lands after the reply or the error frame, nor in the next turn
   (chat.py:1012-1014). *)
InterimsFirst ==
    ~late /\ (handler \notin Deciding => keepalive = "none")

(* What the customer gets of a turn: its interim messages, then one answer, with the
   human that was asked for in it. *)
AnswerWhole == EscalationKept /\ InterimsFirst

(* A turn comes to its reply or its error frame, even if the model or a tool hangs, and
   even if the socket is wedged in the middle of an interim message. *)
TurnAnswered == handler = "turn" ~> handler \in {"reply", "error"}
=============================================================================
