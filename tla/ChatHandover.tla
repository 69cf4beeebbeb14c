---------------------------- MODULE ChatHandover ----------------------------
(***************************************************************************)
(* One chat session between the bot, its customer and the tenant's human   *)
(* agents (api/chat.py).                                                   *)
(*                                                                         *)
(* The session row's mode says who talks to the customer. It is written,   *)
(* without a lock or a version, by the customer's connections              *)
(* (chat_websocket, _run_human_mode), by the CRM's claim and decline       *)
(* requests, by the agent's socket, and by background jobs that escalate   *)
(* an overdue deposit verification. They signal each other through two     *)
(* in-process queues, one towards the customer and one towards the agent,  *)
(* and a registry of the queue on which background jobs reach the          *)
(* customer's connection. A step here is what one coroutine does between   *)
(* two awaits at which another one can change what it goes on to use.      *)
(*                                                                         *)
(* An operator marked "a mutant" is a slip in the definition after it that *)
(* a property below must detect; the specification does not use it.        *)
(***************************************************************************)
EXTENDS Integers, Sequences, FiniteSets

CONSTANTS
    Conns,        \* the customer's sockets (slots, used again after closing)
    Agents,       \* CRM agents, who may claim the session
    Declines,     \* decline requests of the CRM
    Jobs,         \* pending deposit verifications, overdue at any moment
    Texts,        \* the customer's messages, each sent once
    End,          \* the customer's end message
    NoConn,
    MaxConnects,  \* bound: connections opened
    MaxReplies,   \* bound: agent replies
    MaxRestarts,  \* bound: process restarts
    AgentEnds     \* TRUE: agents end the session from their socket

ASSUME NamesAssumption == NoConn \notin Conns /\ End \notin Texts /\ "gone" \notin Texts
ASSUME BoundsAssumption ==
    MaxConnects \in Nat /\ MaxReplies \in Nat /\ MaxRestarts \in Nat /\ AgentEnds \in BOOLEAN

VARIABLES
    \* the chat_sessions row
    mode, ended,
    \* _customer_queues, _bo_queues: do the session's entries exist, and what is in them
    registered, customerQ, agentQ,
    \* _async_push_queues: the connection whose queue is registered, and the queues
    pushTo, pushQ,
    \* _turn_guards: the connection whose turn holds the session's guard
    guard,
    \* the customer's connections
    pc,
    seen,       \* row.mode as read when the connection opened, until acted on
    joined,     \* _run_human_mode's claimed
    inbox,      \* frames arrived on the socket and not read yet
    via,        \* where _run_human_mode was called from
    \* the tenant's side, and the background jobs
    claim, decline, agent, job,
    \* ghosts
    sent, answered, refused, relayed, unread,   \* what became of each message
    newest,                                     \* the last connection to enter the bot loop
    connects, replies, restarts

row == <<mode, ended>>
queues == <<registered, customerQ, agentQ>>
push == <<pushTo, pushQ>>
conns == <<pc, seen, joined, inbox, via>>
crm == <<claim, decline, agent>>
fates == <<sent, answered, refused, relayed, unread>>
counts == <<connects, replies, restarts>>
vars == <<row, queues, push, guard, conns, crm, job, fates, newest, counts>>

Modes == {"ai", "bot", "awaiting_human", "human", "closed"}
Handover == {"awaiting_human", "human"}
Frames == {"claimed", "declined", "reply", "ended"}

(* bot: in the loop's wait. turn: a turn runs. notifying: in _escalate_session,
   awaiting the webhook. human: in _run_human_mode's wait. reverting: in
   _revert_to_bot. ending, closing: before _end_session and before the
   session_closed webhook, in the bot loop; leaving, reporting: the same in
   _run_human_mode. *)
Places == {"off", "connecting", "bot", "turn", "notifying", "human", "reverting",
           "ending", "closing", "leaving", "reporting"}

TypeOK ==
    /\ mode \in Modes /\ ended \in BOOLEAN
    /\ registered \in BOOLEAN
    /\ customerQ \in Seq(Frames)
    /\ agentQ \in Seq(Texts \cup {"bye"})
    /\ pushTo \in Conns \cup {NoConn}
    /\ pushQ \in [Conns -> Nat]
    /\ guard \in Conns \cup {NoConn}
    /\ pc \in [Conns -> Places]
    /\ seen \in [Conns -> Modes]
    /\ joined \in [Conns -> BOOLEAN]
    /\ inbox \in [Conns -> Seq(Texts \cup {End, "gone"})]
    /\ via \in [Conns -> {"connect", "turn", "push"}]
    /\ claim \in [Agents -> {"none", "checked", "committed", "claimed", "refused"}]
    /\ decline \in [Declines -> {"none", "checked", "committed", "declined", "refused"}]
    /\ agent \in [Agents -> {"off", "on", "ending"}]
    /\ job \in [Jobs -> {"pending", "checked", "notifying", "pushing", "done"}]
    /\ sent \in SUBSET (Texts \cup {End})
    /\ answered \in SUBSET Texts /\ refused \in SUBSET Texts /\ unread \in SUBSET Texts
    /\ relayed \in Seq(Texts)
    /\ newest \in Conns \cup {NoConn}
    /\ connects \in Nat /\ replies \in Nat /\ restarts \in Nat

Init ==
    /\ mode = "ai" /\ ended = FALSE
    /\ registered = FALSE /\ customerQ = <<>> /\ agentQ = <<>>
    /\ pushTo = NoConn /\ pushQ = [c \in Conns |-> 0]
    /\ guard = NoConn
    /\ pc = [c \in Conns |-> "off"]
    /\ seen = [c \in Conns |-> "ai"]
    /\ joined = [c \in Conns |-> FALSE]
    /\ inbox = [c \in Conns |-> <<>>]
    /\ via = [c \in Conns |-> "connect"]
    /\ claim = [a \in Agents |-> "none"]
    /\ decline = [d \in Declines |-> "none"]
    /\ agent = [a \in Agents |-> "off"]
    /\ job = [j \in Jobs |-> "pending"]
    /\ sent = {} /\ answered = {} /\ refused = {} /\ relayed = <<>> /\ unread = {}
    /\ newest = NoConn
    /\ connects = 0 /\ replies = 0 /\ restarts = 0

Elems(s) == {s[i] : i \in DOMAIN s}

-----------------------------------------------------------------------------
(* What several handlers do. *)

Goes(c, place) == pc' = [pc EXCEPT ![c] = place]

Writes(m) == mode' = m /\ UNCHANGED ended

(* _end_session: the row, and the turn guard's entry. *)
CloseSession == mode' = "closed" /\ ended' = TRUE /\ guard' = NoConn

(* chat_websocket returns: its turn releases the guard if the entry is still its
   own, its push queue is taken out of the registry if it is the one there, and
   what the socket still holds is never read. *)
ReleaseGuard(c) == guard' = IF guard = c THEN NoConn ELSE guard

PopAny(c) == NoConn                                          \* a mutant
PopOwn(c) == IF pushTo = c THEN NoConn ELSE pushTo

Leaves(c) ==
    /\ Goes(c, "off")
    /\ pushTo' = PopOwn(c)
    /\ pushQ' = [pushQ EXCEPT ![c] = 0]
    /\ inbox' = [inbox EXCEPT ![c] = <<>>]
    /\ unread' = unread \cup (Elems(inbox[c]) \cap Texts)
    /\ newest' = IF newest = c THEN NoConn ELSE newest
    /\ seen' = [seen EXCEPT ![c] = "ai"]
    /\ joined' = [joined EXCEPT ![c] = FALSE]
    /\ via' = [via EXCEPT ![c] = "connect"]

(* The head of _run_human_mode: always counting down, whatever the row says. *)
EntersHuman(c, from) ==
    /\ Goes(c, "human")
    /\ joined' = [joined EXCEPT ![c] = FALSE]
    /\ via' = [via EXCEPT ![c] = from]
    /\ registered' = TRUE

EntersBotLoop(c) ==
    /\ pushTo' = c
    /\ pushQ' = [pushQ EXCEPT ![c] = 0]
    /\ newest' = c

(* _run_human_mode and _forward_pending_text_to_bo hand a message to the agent. *)
Relays(t) == agentQ' = Append(agentQ, t) /\ relayed' = Append(relayed, t)

Arrived(c) == inbox[c] # <<>>
First(c) == Head(inbox[c])
Reads(c) == inbox' = [inbox EXCEPT ![c] = Tail(inbox[c])]

(* Only what carries a text is handed on. *)
ForwardsAny(c) == Relays(First(c))                           \* a mutant
Forwards(c) == IF First(c) \in Texts THEN Relays(First(c)) ELSE UNCHANGED <<agentQ, relayed>>

-----------------------------------------------------------------------------
(* The customer's end of the sockets. *)

Connect(c) ==
    /\ pc[c] = "off" /\ connects < MaxConnects
    /\ Goes(c, "connecting")
    /\ seen' = [seen EXCEPT ![c] = mode]
    /\ connects' = connects + 1
    /\ UNCHANGED <<row, queues, push, guard, joined, inbox, via, crm, job, fates,
                   newest, replies, restarts>>

IsOpen(c) == pc[c] # "off" /\ "gone" \notin Elems(inbox[c])

Send(c, x) ==
    /\ IsOpen(c) /\ x \notin sent
    /\ inbox' = [inbox EXCEPT ![c] = Append(@, x)]
    /\ sent' = sent \cup {x}
    /\ UNCHANGED <<row, queues, push, guard, pc, seen, joined, via, crm, job,
                   answered, refused, relayed, unread, newest, counts>>

Disconnect(c) ==
    /\ IsOpen(c)
    /\ inbox' = [inbox EXCEPT ![c] = Append(@, "gone")]
    /\ UNCHANGED <<row, queues, push, guard, pc, seen, joined, via, crm, job, fates,
                   newest, counts>>

-----------------------------------------------------------------------------
(* chat_websocket: from the row read to the loops. *)

(* The deposit sweep found a request due: it has been handled, and the row is
   read again. *)
Refetch(c) ==
    /\ pc[c] = "connecting" /\ seen[c] # mode
    /\ \E j \in Jobs : job[j] # "pending"
    /\ seen' = [seen EXCEPT ![c] = mode]
    /\ UNCHANGED <<row, queues, push, guard, pc, joined, inbox, via, crm, job, fates,
                   newest, counts>>

Enter(c) ==
    /\ pc[c] = "connecting"
    /\ \/ /\ seen[c] \in Handover
          /\ EntersHuman(c, "connect")
          /\ UNCHANGED <<push, newest>>
       \/ /\ seen[c] \notin Handover
          /\ Goes(c, "bot")
          /\ EntersBotLoop(c)
          /\ UNCHANGED <<registered, joined, via>>
    /\ seen' = [seen EXCEPT ![c] = "ai"]
    /\ UNCHANGED <<row, customerQ, agentQ, guard, inbox, crm, job, fates,
                   counts>>

-----------------------------------------------------------------------------
(* The bot loop. *)

(* _try_begin_turn: the guard is free, or its turn has sat in human mode for
   longer than the maximum hold. *)
Admits == guard \in {NoConn} \cup {c \in Conns : pc[c] \in {"human", "reverting", "leaving"}}

(* What the loop does with the frame it has just read. *)
HandlesFrame(c) ==
    /\ Reads(c)
    /\ \/ /\ First(c) \in Texts /\ Admits
          /\ Goes(c, "turn")
          /\ guard' = c
          /\ answered' = answered \cup {First(c)}
          /\ UNCHANGED refused
       \/ /\ First(c) \in Texts /\ guard # NoConn
          /\ refused' = refused \cup {First(c)}
          /\ UNCHANGED <<pc, guard, answered>>
       \/ /\ First(c) = End
          /\ Goes(c, "ending")
          /\ UNCHANGED <<guard, answered, refused>>
    /\ UNCHANGED <<row, queues, seen, joined, via, crm, job, sent, relayed, unread,
                   newest, counts>>

BotFrame(c) ==
    /\ pc[c] = "bot" /\ Arrived(c) /\ First(c) # "gone"
    /\ HandlesFrame(c)
    /\ UNCHANGED push

BotGone(c) ==
    /\ pc[c] = "bot" /\ Arrived(c) /\ First(c) = "gone"
    /\ Leaves(c)
    /\ UNCHANGED <<row, queues, guard, crm, job, sent, answered, refused, relayed,
                   counts>>

BotIdle(c) ==
    /\ pc[c] = "bot" /\ ~Arrived(c) /\ pushQ[c] = 0
    /\ Goes(c, "ending")
    /\ UNCHANGED <<row, queues, push, guard, seen, joined, inbox, via, crm, job, fates,
                   newest, counts>>

Delivers(c) == pushQ[c] > 0 /\ pushQ' = [pushQ EXCEPT ![c] = @ - 1] /\ UNCHANGED pushTo

(* A push arrives, alone: the row is read again. *)
BotPush(c) ==
    /\ pc[c] = "bot" /\ Delivers(c)
    /\ IF mode \in Handover
       THEN EntersHuman(c, "push")
       ELSE UNCHANGED <<pc, joined, via, registered>>
    /\ UNCHANGED <<row, customerQ, agentQ, guard, seen, inbox, crm, job, fates,
                   newest, counts>>

(* A push and a frame arrive in the same wait: the push must not make the loop
   skip the frame, nor a frame handed to the agent be answered as well. *)
SkipsFrame(c) ==                                             \* a mutant
    /\ Reads(c)
    /\ UNCHANGED <<row, queues, guard, pc, seen, joined, via, crm, job, fates,
                   newest, counts>>
AfterPush(c) == HandlesFrame(c)

AnsweredAfterHandOff(c) == answered

BotPushAndFrame(c) ==
    /\ pc[c] = "bot" /\ Delivers(c)
    /\ Arrived(c) /\ First(c) # "gone"
    /\ \/ mode \notin Handover /\ AfterPush(c)
       \/ /\ mode \in Handover
          /\ Reads(c)
          /\ EntersHuman(c, "push")
          /\ Forwards(c)
          /\ answered' = AnsweredAfterHandOff(c)
          /\ UNCHANGED <<row, customerQ, guard, seen, crm, job, sent, refused,
                         unread, newest, counts>>

-----------------------------------------------------------------------------
(* A turn. *)

(* It is answered, or fails and is apologised for; its finally releases the guard. *)
TurnReplies(c) ==
    /\ pc[c] = "turn"
    /\ Goes(c, "bot")
    /\ ReleaseGuard(c)
    /\ UNCHANGED <<row, queues, push, seen, joined, inbox, via, crm, job, fates,
                   newest, counts>>

(* The bot considers the customer's business resolved. *)
TurnResolves(c) ==
    /\ pc[c] = "turn"
    /\ Goes(c, "ending")
    /\ UNCHANGED <<row, queues, push, guard, seen, joined, inbox, via, crm, job, fates,
                   newest, counts>>

(* The reply meets a dead socket: the connection is left. *)
TurnUndelivered(c) ==
    /\ pc[c] = "turn" /\ ~IsOpen(c)
    /\ Leaves(c)
    /\ ReleaseGuard(c)
    /\ UNCHANGED <<row, queues, crm, job, sent, answered, refused, relayed,
                   counts>>

(* _escalate_session, called by the turn: the mode flips and the queues exist
   before the CRM is asked. *)
TurnEscalates(c) ==
    /\ pc[c] = "turn"
    /\ Goes(c, "notifying")
    /\ Writes("awaiting_human")
    /\ registered' = TRUE
    /\ UNCHANGED <<customerQ, agentQ, push, guard, seen, joined, inbox, via, crm, job,
                   fates, newest, counts>>

EscalationTaken(c) ==
    /\ pc[c] = "notifying"
    /\ EntersHuman(c, "turn")
    /\ UNCHANGED <<row, customerQ, agentQ, push, guard, seen, inbox, crm, job, fates,
                   newest, counts>>

EscalationFails(c) ==
    /\ pc[c] = "notifying"
    /\ Writes("bot")
    /\ Goes(c, "bot")
    /\ ReleaseGuard(c)
    /\ UNCHANGED <<queues, push, seen, joined, inbox, via, crm, job, fates,
                   newest, counts>>

(* _end_session, then _send_close_webhook, then the connection is left. *)
BotEnds(c) ==
    /\ pc[c] = "ending"
    /\ CloseSession
    /\ Goes(c, "closing")
    /\ UNCHANGED <<queues, push, seen, joined, inbox, via, crm, job, fates,
                   newest, counts>>

BotReportsClose(c) ==
    /\ pc[c] = "closing"
    /\ Leaves(c)
    /\ ReleaseGuard(c)
    /\ UNCHANGED <<row, queues, crm, job, sent, answered, refused, relayed, counts>>

-----------------------------------------------------------------------------
(* _run_human_mode. One pass takes a frame for the customer, a frame from the
   customer, or one of each. *)

Takes == customerQ # <<>> /\ customerQ' = Tail(customerQ)

JoinedBy(c, frame) == IF frame = "claimed" THEN [joined EXCEPT ![c] = TRUE] ELSE joined

HumanShows(c) ==
    /\ pc[c] = "human" /\ Takes
    /\ Head(customerQ) \in {"claimed", "reply"}
    /\ joined' = JoinedBy(c, Head(customerQ))
    /\ UNCHANGED <<row, registered, agentQ, push, guard, pc, seen, inbox, via, crm, job,
                   fates, newest, counts>>

(* On a decline, and on an ended frame below, a customer's frame that arrived in
   the same wait has been read and is not looked at. *)
HumanDeclined(c) ==
    /\ pc[c] = "human" /\ Takes
    /\ Head(customerQ) = "declined"
    /\ Goes(c, "reverting")
    /\ \/ UNCHANGED <<inbox, unread>>
       \/ /\ Arrived(c) /\ First(c) # "gone" /\ Reads(c)
          /\ unread' = unread \cup ({First(c)} \cap Texts)
    /\ UNCHANGED <<row, registered, agentQ, push, guard, seen, joined, via, crm, job,
                   sent, answered, refused, relayed, newest, counts>>

StaysInHuman(c) == UNCHANGED <<pc, push, inbox, unread, newest, seen, joined, via>>  \* a mutant
LeavesOnEnd(c) == Leaves(c)

HumanEnded(c) ==
    /\ pc[c] = "human" /\ Takes
    /\ Head(customerQ) = "ended"
    /\ LeavesOnEnd(c)
    /\ ReleaseGuard(c)
    /\ UNCHANGED <<row, registered, agentQ, crm, job, sent, answered, refused, relayed,
                   counts>>

(* A customer's frame, alone or together with a frame to show. *)
HumanFrame(c) ==
    /\ pc[c] = "human" /\ Arrived(c) /\ First(c) # "gone"
    /\ \/ UNCHANGED <<customerQ, joined>>
       \/ /\ Takes /\ Head(customerQ) \in {"claimed", "reply"}
          /\ joined' = JoinedBy(c, Head(customerQ))
    /\ Reads(c)
    /\ Forwards(c)
    /\ IF First(c) = End THEN Goes(c, "leaving") ELSE UNCHANGED pc
    /\ UNCHANGED <<row, registered, push, guard, seen, via, crm, job, sent, answered, refused,
                   unread, newest, counts>>

HumanGone(c) ==
    /\ pc[c] = "human" /\ Arrived(c) /\ First(c) = "gone"
    /\ \/ UNCHANGED customerQ
       \/ Takes /\ Head(customerQ) \in {"claimed", "reply"}
    /\ agentQ' = Append(agentQ, "bye")
    /\ Leaves(c)
    /\ ReleaseGuard(c)
    /\ UNCHANGED <<row, registered, crm, job, sent, answered, refused, relayed,
                   counts>>

(* The customer's end: _end_session, the webhook, a note to the agent. *)
HumanEnds(c) ==
    /\ pc[c] = "leaving"
    /\ CloseSession
    /\ Goes(c, "reporting")
    /\ UNCHANGED <<queues, push, seen, joined, inbox, via, crm, job, fates,
                   newest, counts>>

HumanReportsClose(c) ==
    /\ pc[c] = "reporting"
    /\ agentQ' = Append(agentQ, "bye")
    /\ Leaves(c)
    /\ ReleaseGuard(c)
    /\ UNCHANGED <<row, registered, customerQ, crm, job, sent, answered, refused, relayed,
                   counts>>

(* The deadline passes: nobody claimed or declined, as far as this call knows. *)
NeverExpires(c) == FALSE                                     \* a mutant
MayExpire(c) == ~joined[c]

HumanExpires(c) ==
    /\ pc[c] = "human" /\ MayExpire(c)
    /\ ~Arrived(c) /\ customerQ = <<>>
    /\ Goes(c, "reverting")
    /\ UNCHANGED <<row, queues, push, guard, seen, joined, inbox, via, crm, job, fates,
                   newest, counts>>

(* _revert_to_bot, and the return to the bot loop: a connection that opened in
   human mode enters it now, a turn's finally releases its guard. *)
Reverts(c) ==
    /\ pc[c] = "reverting"
    /\ Writes("bot")
    /\ Goes(c, "bot")
    /\ IF via[c] = "connect" THEN EntersBotLoop(c) ELSE UNCHANGED <<push, newest>>
    /\ IF via[c] = "turn" THEN ReleaseGuard(c) ELSE UNCHANGED guard
    /\ joined' = [joined EXCEPT ![c] = FALSE]
    /\ via' = [via EXCEPT ![c] = "connect"]
    /\ UNCHANGED <<queues, seen, inbox, crm, job, fates, counts>>

-----------------------------------------------------------------------------
(* The CRM's requests: the row is read and checked, then written, then the
   customer's queue is told. *)

ClaimCheck(a) ==
    /\ claim[a] = "none"
    /\ claim' = [claim EXCEPT ![a] = IF mode = "awaiting_human" THEN "checked" ELSE "refused"]
    /\ UNCHANGED <<row, queues, push, guard, conns, decline, agent, job, fates,
                   newest, counts>>

ClaimCommit(a) ==
    /\ claim[a] = "checked"
    /\ Writes("human")
    /\ claim' = [claim EXCEPT ![a] = "committed"]
    /\ UNCHANGED <<queues, push, guard, conns, decline, agent, job, fates,
                   newest, counts>>

(* Into the queue that exists at that moment, if one does. *)
Tells(frame) == customerQ' = IF registered THEN Append(customerQ, frame) ELSE customerQ

ClaimTell(a) ==
    /\ claim[a] = "committed"
    /\ Tells("claimed")
    /\ claim' = [claim EXCEPT ![a] = "claimed"]
    /\ UNCHANGED <<row, registered, agentQ, push, guard, conns, decline, agent, job, fates,
                   newest, counts>>

DeclineCheck(d) ==
    /\ decline[d] = "none"
    /\ decline' = [decline EXCEPT ![d] = IF mode = "awaiting_human" THEN "checked" ELSE "refused"]
    /\ UNCHANGED <<row, queues, push, guard, conns, claim, agent, job, fates,
                   newest, counts>>

DeclineCommit(d) ==
    /\ decline[d] = "checked"
    /\ Writes("bot")
    /\ decline' = [decline EXCEPT ![d] = "committed"]
    /\ UNCHANGED <<queues, push, guard, conns, claim, agent, job, fates,
                   newest, counts>>

DeclineTell(d) ==
    /\ decline[d] = "committed"
    /\ Tells("declined")
    /\ decline' = [decline EXCEPT ![d] = "declined"]
    /\ UNCHANGED <<row, registered, agentQ, push, guard, conns, claim, agent, job, fates,
                   newest, counts>>

-----------------------------------------------------------------------------
(* agent_websocket. The console connects once its claim was answered (the
   integration guide's steps 1 and 2); the code checks the mode only. *)

AgentConnects(a) ==
    /\ claim[a] = "claimed" /\ agent[a] = "off"
    /\ mode \in Handover
    /\ agent' = [agent EXCEPT ![a] = "on"]
    /\ registered' = TRUE
    /\ UNCHANGED <<row, customerQ, agentQ, push, guard, conns, claim, decline, job, fates,
                   newest, counts>>

AgentHears(a) ==
    /\ agent[a] = "on" /\ agentQ # <<>>
    /\ agentQ' = Tail(agentQ)
    /\ UNCHANGED <<row, registered, customerQ, push, guard, conns, crm, job, fates,
                   newest, counts>>

AgentReplies(a) ==
    /\ agent[a] = "on" /\ replies < MaxReplies
    /\ customerQ' = Append(customerQ, "reply")
    /\ replies' = replies + 1
    /\ UNCHANGED <<row, registered, agentQ, push, guard, conns, crm, job, fates,
                   newest, connects, restarts>>

(* The customer is told before the row is closed. *)
EndTold == Append(customerQ, "ended")

AgentEndsSession(a) ==
    /\ agent[a] = "on" /\ AgentEnds
    /\ customerQ' = EndTold
    /\ agent' = [agent EXCEPT ![a] = "ending"]
    /\ UNCHANGED <<row, registered, agentQ, push, guard, conns, claim, decline, job, fates,
                   newest, counts>>

AgentClosesSession(a) ==
    /\ agent[a] = "ending"
    /\ CloseSession
    /\ agent' = [agent EXCEPT ![a] = "off"]
    /\ UNCHANGED <<queues, push, conns, claim, decline, job, fates, newest,
                   counts>>

AgentDrops(a) ==
    /\ agent[a] = "on"
    /\ agent' = [agent EXCEPT ![a] = "off"]
    /\ UNCHANGED <<row, queues, push, guard, conns, claim, decline, job, fates,
                   newest, counts>>

-----------------------------------------------------------------------------
(* _check_and_timeout_verification, once the request is claimed. *)

JobChecks(j) ==
    /\ job[j] = "pending"
    /\ job' = [job EXCEPT ![j] = IF mode \in Handover THEN "done" ELSE "checked"]
    /\ UNCHANGED <<row, queues, push, guard, conns, crm, fates, newest, counts>>

JobEscalates(j) ==
    /\ job[j] = "checked"
    /\ Writes("awaiting_human")
    /\ registered' = TRUE
    /\ job' = [job EXCEPT ![j] = "notifying"]
    /\ UNCHANGED <<customerQ, agentQ, push, guard, conns, crm, fates, newest,
                   counts>>

JobNotified(j) ==
    /\ job[j] = "notifying"
    /\ job' = [job EXCEPT ![j] = "pushing"]
    /\ \/ UNCHANGED row
       \/ Writes("bot")
    /\ UNCHANGED <<queues, push, guard, conns, crm, fates, newest, counts>>

(* push_async_message: to the registered queue, if there is one. *)
JobPushes(j) ==
    /\ job[j] = "pushing"
    /\ job' = [job EXCEPT ![j] = "done"]
    /\ pushQ' = IF pushTo = NoConn THEN pushQ ELSE [pushQ EXCEPT ![pushTo] = @ + 1]
    /\ UNCHANGED <<row, queues, pushTo, guard, conns, crm, fates, newest, counts>>

-----------------------------------------------------------------------------
(* The process dies and comes back: only the row survives. A request that was
   being timed out stays timed out, and nobody escalates for it again. *)
Restart ==
    /\ restarts < MaxRestarts
    /\ restarts' = restarts + 1
    /\ registered' = FALSE /\ customerQ' = <<>> /\ agentQ' = <<>>
    /\ pushTo' = NoConn /\ pushQ' = [c \in Conns |-> 0]
    /\ guard' = NoConn /\ newest' = NoConn
    /\ pc' = [c \in Conns |-> "off"]
    /\ inbox' = [c \in Conns |-> <<>>]
    /\ unread' = unread \cup ((UNION {Elems(inbox[c]) : c \in Conns}) \cap Texts)
    /\ claim' = [a \in Agents |-> IF claim[a] \in {"checked", "committed"} THEN "refused" ELSE claim[a]]
    /\ decline' = [d \in Declines |-> IF decline[d] \in {"checked", "committed"} THEN "refused" ELSE decline[d]]
    /\ agent' = [a \in Agents |-> "off"]
    /\ job' = [j \in Jobs |-> IF job[j] = "pending" THEN "pending" ELSE "done"]
    /\ seen' = [c \in Conns |-> "ai"]
    /\ joined' = [c \in Conns |-> FALSE]
    /\ via' = [c \in Conns |-> "connect"]
    /\ UNCHANGED <<row, sent, answered, refused, relayed,
                   connects, replies>>

Customer ==
    \E c \in Conns : Connect(c) \/ Disconnect(c) \/ \E x \in Texts \cup {End} : Send(c, x)

BotLoop(c) ==
    \/ Refetch(c) \/ Enter(c)
    \/ BotFrame(c) \/ BotGone(c) \/ BotIdle(c) \/ BotPush(c) \/ BotPushAndFrame(c)
    \/ TurnReplies(c) \/ TurnResolves(c) \/ TurnUndelivered(c)
    \/ TurnEscalates(c) \/ EscalationTaken(c) \/ EscalationFails(c)
    \/ BotEnds(c) \/ BotReportsClose(c)

HumanLoop(c) ==
    \/ HumanShows(c) \/ HumanDeclined(c) \/ HumanEnded(c) \/ HumanFrame(c) \/ HumanGone(c)
    \/ HumanEnds(c) \/ HumanReportsClose(c)
    \/ HumanExpires(c) \/ Reverts(c)

Claim(a) == ClaimCheck(a) \/ ClaimCommit(a) \/ ClaimTell(a)
Decline(d) == DeclineCheck(d) \/ DeclineCommit(d) \/ DeclineTell(d)
Agent(a) ==
    \/ AgentConnects(a) \/ AgentHears(a) \/ AgentReplies(a) \/ AgentEndsSession(a)
    \/ AgentClosesSession(a) \/ AgentDrops(a)
Job(j) == JobChecks(j) \/ JobEscalates(j) \/ JobNotified(j) \/ JobPushes(j)

Next ==
    \/ Customer
    \/ \E c \in Conns : BotLoop(c) \/ HumanLoop(c)
    \/ \E a \in Agents : Claim(a) \/ Agent(a)
    \/ \E d \in Declines : Decline(d)
    \/ \E j \in Jobs : Job(j)
    \/ Restart

Spec == Init /\ [][Next]_vars

(* The event loop runs every coroutine that can go on: a connection's, which is in
   one of its two loops, and its timeouts, a request once received, an agent's socket once the end frame
   was read. Nothing makes anybody connect, write, claim or decline. *)
FairSpec ==
    /\ Spec
    /\ \A c \in Conns : WF_vars(BotLoop(c) \/ HumanLoop(c))
    /\ \A a \in Agents : WF_vars(ClaimCommit(a) \/ ClaimTell(a)) /\ WF_vars(AgentClosesSession(a))
    /\ \A d \in Declines : WF_vars(DeclineCommit(d) \/ DeclineTell(d))

-----------------------------------------------------------------------------
(* Properties. *)

(* The connection that entered the bot loop last, as long as it is open, is the
   one background jobs reach: the cleanup of an older connection, however late,
   never takes its queue away (chat_websocket's finally, "pop by identity"). *)
PushReachesNewest == newest # NoConn => pushTo = newest

(* Every message the customer sent is in one place: still on the socket, taken into
   a turn, handed to the agent (once), refused by the duplicate guard, or never looked
   at because its socket closed or a decline came in the same wait (the bot loop's "or
   a real customer message is silently dropped with no log"); the bot does not answer
   what the agent is given, whatever modes the session goes through in the meantime. *)
OneAddressee ==
    /\ Elems(relayed) \cap answered = {}
    /\ \A i, j \in DOMAIN relayed : relayed[i] = relayed[j] => i = j
    /\ sent \cap Texts \subseteq
           (UNION {Elems(inbox[c]) : c \in Conns}) \cup answered \cup Elems(relayed) \cup refused \cup unread

(* Human mode is left: a customer who waits gets an agent, or the bot back, within
   the deadline (_AWAIT_HUMAN_TIMEOUT_S); and of the connections in human mode, however
   many, one is told of the agent's end and leaves, however the frame is queued behind
   others. No more than one: the session's connections take from one queue
   (_customer_queues, chat.py:4651-4688), the end puts one frame there, and another
   connection that has been told of the claim stays in human mode until its customer
   leaves. *)
InHuman == {c \in Conns : pc[c] = "human"}
EndWaits == "ended" \in Elems(customerQ)

HumanModeEnds ==
    /\ \A c \in Conns :
          pc[c] = "human" /\ mode = "awaiting_human" ~> pc[c] # "human" \/ joined[c]
    /\ \A n \in 1 .. Cardinality(Conns) :
          EndWaits /\ Cardinality(InHuman) = n ~> Cardinality(InHuman) # n

Expires(c) == pc[c] = "human" /\ pc'[c] = "reverting" /\ UNCHANGED customerQ
AgentPresent == mode = "human" /\ \E a \in Agents : agent[a] = "on"

(* _run_human_mode: "The countdown stops as soon as an agent claims". *)
NoExpiryUnderAgent == [][\A c \in Conns : Expires(c) => ~AgentPresent]_vars
=============================================================================
