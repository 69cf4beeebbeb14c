----------------------------- MODULE ExternalChat -----------------------------
(***************************************************************************)
(* One conversation of an outside platform (api/external_chat.py,          *)
(* process_message in api/chat.py).                                        *)
(*                                                                         *)
(* Every message is a request, or a background task of Chatwoot's webhook, *)
(* which answers 200 before it begins. Nothing orders the requests of a    *)
(* conversation. Its session is found through a Redis key that expires,    *)
(* and created if there is none; the agent is built anew for each message  *)
(* and remembers what the session's transcript holds.                      *)
(*                                                                         *)
(* A session is named by the message whose request created it. A webhook   *)
(* that is sent twice counts as two messages, as it does in the code.      *)
(***************************************************************************)
EXTENDS Integers, FiniteSets

CONSTANTS
    Messages,       \* of the conversation
    NoSession,
    KeyTTL,         \* _EXT_SESSION_TTL
    MaxExtNow,      \* bound: the clock
    MaxExtFaults    \* bound: failures of Redis, the database or the turn, and restarts

ASSUME ExternalAssumption ==
    /\ NoSession \notin Messages
    /\ KeyTTL \in Nat \ {0} /\ {MaxExtNow, MaxExtFaults} \subseteq Nat

VARIABLES
    extNow,
    extKey,         \* the Redis key: a session and when it expires
    transcript,     \* per session, the messages with an answer in chat_messages
    request,        \* where each message's request is
    extFaults,
    overlapped,     \* history: sessions whose creation met another one
    expired         \* history: sessions whose key expired

extVars == <<extNow, extKey, transcript, request, extFaults, overlapped, expired>>

NoKey == [is |-> NoSession, until |-> 0]
(* known: the messages persisted when the request looked its session up; memory: those
   the agent was given; blind: the transcript could not be read. *)
Unsent == [at |-> "idle", session |-> NoSession, known |-> {}, memory |-> {}, blind |-> FALSE]

Creating == {"creating", "storing"}
Finished == {"replied", "failed", "lost"}
Stages == Creating \cup Finished \cup {"idle", "hydrating", "answering", "persisting", "sending"}

ExternalTypeOK ==
    /\ extNow \in 0..MaxExtNow /\ extFaults \in 0..MaxExtFaults
    /\ extKey.is \in Messages \cup {NoSession} /\ extKey.until \in Nat
    /\ transcript \in [Messages -> SUBSET Messages]
    /\ request \in [Messages -> [at : Stages, session : Messages \cup {NoSession},
                                 known : SUBSET Messages, memory : SUBSET Messages,
                                 blind : BOOLEAN]]
    /\ overlapped \subseteq Messages /\ expired \subseteq Messages

ExternalInit ==
    /\ extNow = 0 /\ extKey = NoKey /\ extFaults = 0
    /\ transcript = [s \in Messages |-> {}]
    /\ request = [m \in Messages |-> Unsent]
    /\ overlapped = {} /\ expired = {}

-----------------------------------------------------------------------------
At(m, stage) == request[m].at = stage
Moves(m, to) == request' = [request EXCEPT ![m].at = to]

Persisted == UNION {transcript[s] : s \in Messages}
InCreation == {m \in Messages : request[m].at \in Creating}

(* The API's request, or the webhook's task. *)
LooksUp(m) ==
    /\ At(m, "idle")
    /\ IF extKey.is = NoSession
       THEN /\ request' = [request EXCEPT ![m].at = "creating", ![m].session = m,
                                          ![m].known = Persisted]
            /\ overlapped' = IF InCreation = {} THEN overlapped
                             ELSE overlapped \cup InCreation \cup {m}
       ELSE /\ request' = [request EXCEPT ![m].at = "hydrating", ![m].session = extKey.is,
                                          ![m].known = Persisted]
            /\ UNCHANGED overlapped
    /\ UNCHANGED <<extNow, extKey, transcript, extFaults, expired>>

(* The row of the session is committed. *)
Creates(m) ==
    /\ At(m, "creating") /\ Moves(m, "storing")
    /\ UNCHANGED <<extNow, extKey, transcript, extFaults, overlapped, expired>>

NotStored(s) == extKey                                              \* a mutant
Stored(s) == [is |-> s, until |-> extNow + KeyTTL]

Stores(m) ==
    /\ At(m, "storing") /\ Moves(m, "hydrating")
    /\ extKey' = Stored(m)
    /\ UNCHANGED <<extNow, transcript, extFaults, overlapped, expired>>

(* _hydrate_agent_history; _HYDRATE_LIMIT is longer than the conversation. *)
Hydrates(m) ==
    /\ At(m, "hydrating")
    /\ request' = [request EXCEPT ![m].at = "answering",
                                  ![m].memory = transcript[request[m].session]]
    /\ UNCHANGED <<extNow, extKey, transcript, extFaults, overlapped, expired>>

(* The turn goes on without its memory. *)
HydrationFails(m) ==
    /\ At(m, "hydrating")
    /\ extFaults < MaxExtFaults /\ extFaults' = extFaults + 1
    /\ request' = [request EXCEPT ![m].at = "answering", ![m].blind = TRUE]
    /\ UNCHANGED <<extNow, extKey, transcript, overlapped, expired>>

Answers(m) ==
    /\ At(m, "answering") /\ Moves(m, "persisting")
    /\ UNCHANGED <<extNow, extKey, transcript, extFaults, overlapped, expired>>

PersistsTurn(m) ==
    /\ At(m, "persisting") /\ Moves(m, "sending")
    /\ transcript' = [transcript EXCEPT ![request[m].session] = @ \cup {m}]
    /\ UNCHANGED <<extNow, extKey, extFaults, overlapped, expired>>

(* _persist_turn swallows its failure, and the answer goes out without it. *)
PersistFails(m) ==
    /\ At(m, "persisting") /\ Moves(m, "sending")
    /\ extFaults < MaxExtFaults /\ extFaults' = extFaults + 1
    /\ UNCHANGED <<extNow, extKey, transcript, overlapped, expired>>

(* The answer, or one attempt to post it to Chatwoot, whatever comes of it. *)
Replies(m) ==
    /\ At(m, "sending") /\ Moves(m, "replied")
    /\ UNCHANGED <<extNow, extKey, transcript, extFaults, overlapped, expired>>

(* Redis, the database or the model raised: the webhook's task logs it, the API answers
   500. *)
RequestFails(m) ==
    /\ request[m].at \in Creating \cup {"answering"}
    /\ extFaults < MaxExtFaults /\ extFaults' = extFaults + 1
    /\ Moves(m, "failed")
    /\ UNCHANGED <<extNow, extKey, transcript, overlapped, expired>>

(* The pod stops: the task is gone, and Chatwoot has its 200. *)
PodStops(m) ==
    /\ request[m].at \notin Finished \cup {"idle"}
    /\ extFaults < MaxExtFaults /\ extFaults' = extFaults + 1
    /\ Moves(m, "lost")
    /\ UNCHANGED <<extNow, extKey, transcript, overlapped, expired>>

(* The key is set once, for seven days, and not renewed. *)
ExternalTick ==
    /\ extNow < MaxExtNow /\ extNow' = extNow + 1
    /\ IF extKey.is # NoSession /\ extKey.until <= extNow'
       THEN extKey' = NoKey /\ expired' = expired \cup {extKey.is}
       ELSE UNCHANGED <<extKey, expired>>
    /\ UNCHANGED <<transcript, request, extFaults, overlapped>>

ExternalNext ==
    \/ \E m \in Messages :
          \/ LooksUp(m) \/ Creates(m) \/ Stores(m) \/ Hydrates(m) \/ HydrationFails(m)
          \/ Answers(m) \/ PersistsTurn(m) \/ PersistFails(m) \/ Replies(m)
          \/ RequestFails(m) \/ PodStops(m)
    \/ ExternalTick

ExternalSpec == ExternalInit /\ [][ExternalNext]_extVars

-----------------------------------------------------------------------------
(* "... subsequent calls reuse the same agent context (full conversation memory)"
   (external_chat.py:84-85): a message is answered with every message in mind whose turn
   was recorded when it came, except those of a session that was created beside another,
   and those of before the key expired; unless the transcript could not be read. *)
ConversationRemembered ==
    \A m \in Messages :
        request[m].at \in {"answering", "persisting", "sending", "replied"} /\ ~request[m].blind =>
        \A k \in request[m].known :
            request[k].session \notin overlapped \cup expired => k \in request[m].memory
=============================================================================
