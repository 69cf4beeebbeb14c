------------------------- MODULE ExternalChatProofs --------------------------
(* Proofs about ExternalChat, for any messages, requests at once, failures and restarts. *)
EXTENDS ExternalChat, TLAPS

(* Requests that have found, or stored, their session. *)
Served == {"hydrating", "answering", "persisting", "sending", "replied"}

(* Whoever has begun has a session. *)
Sessioned == \A m \in Messages : request[m].at # "idle" => request[m].session \in Messages

(* What is recorded of a session came from a request for it. *)
TranscriptsOwn ==
    \A s \in Messages : \A k \in transcript[s] :
        request[k].session = s /\ request[k].at \in {"sending", "replied", "lost"}

(* A request that creates a session has it to itself, or was marked with whoever creates
   or has stored another. *)
CreationsMeet ==
    /\ \A m \in InCreation : request[m].session = m
    /\ \A m, n \in InCreation : m # n => m \in overlapped
    /\ \A m \in InCreation : extKey.is # NoSession => {m, extKey.is} \subseteq overlapped

(* The key leads to every session in use, but for the two exceptions. *)
InUse(s) ==
    \/ transcript[s] # {}
    \/ \E m \in Messages : request[m].session = s /\ request[m].at \in Served
KeyLeads ==
    \A s \in Messages : InUse(s) => s \in overlapped \cup expired \/ extKey.is = s

(* A request belongs to the session of every recorded message, with the same exceptions,
   and once it has read the transcript it remembers them. *)
KnowsItsOwn ==
    \A m \in Messages : \A k \in request[m].known :
        /\ request[k].session \in Messages /\ k \in transcript[request[k].session]
        /\ request[k].session \in overlapped \cup expired
              \/ request[k].session = request[m].session
Remembers ==
    \A m \in Messages :
        request[m].at \in Served \ {"hydrating"} /\ ~request[m].blind
            => transcript[request[m].session] \cap request[m].known \subseteq request[m].memory

ConversationInv ==
    ExternalTypeOK /\ Sessioned /\ TranscriptsOwn /\ CreationsMeet /\ KeyLeads /\ KnowsItsOwn /\ Remembers

-----------------------------------------------------------------------------
LEMMA ConversationInit == ExternalInit => ConversationInv
<1>. SUFFICES ASSUME ExternalInit PROVE ConversationInv
  OBVIOUS
<1>. USE DEF ExternalInit, Unsent, NoKey
<1>1. ExternalTypeOK
  BY ExternalAssumption DEF ExternalTypeOK, Stages, Creating, Finished
<1>2. Sessioned /\ TranscriptsOwn /\ CreationsMeet /\ KeyLeads /\ KnowsItsOwn /\ Remembers
  BY DEF Sessioned, TranscriptsOwn, CreationsMeet, KeyLeads, KnowsItsOwn, Remembers, InUse,
     InCreation,
         Creating, Served
<1>. QED BY <1>1, <1>2 DEF ConversationInv

(* The two updates of a request that give it its memory, and take it. *)
Requests(A, S, K) == [at : A, session : S, known : K, memory : K, blind : BOOLEAN]

LEMMA HydratedRequest ==
    ASSUME NEW A, NEW S, NEW K, NEW r \in Requests(A, S, K), NEW a \in A, NEW y \in K
    PROVE  [r EXCEPT !.at = a, !.memory = y] \in Requests(A, S, K)
  BY DEF Requests

LEMMA BlindRequest ==
    ASSUME NEW A, NEW S, NEW K, NEW r \in Requests(A, S, K), NEW a \in A
    PROVE  [r EXCEPT !.at = a, !.blind = TRUE] \in Requests(A, S, K)
  BY DEF Requests

LEMMA ExternalTyped == ExternalTypeOK /\ Sessioned /\ [ExternalNext]_extVars => (ExternalTypeOK /\ Sessioned)'
<1>. SUFFICES ASSUME ExternalTypeOK, Sessioned, [ExternalNext]_extVars
              PROVE (ExternalTypeOK /\ Sessioned)'
  OBVIOUS
<1>. USE ExternalAssumption DEF ExternalTypeOK, Sessioned, At, Moves, Stages, Creating, Finished
<1>1. ASSUME NEW m \in Messages, LooksUp(m) PROVE (ExternalTypeOK /\ Sessioned)'
  BY <1>1 DEF LooksUp, Persisted, InCreation
<1>2. ASSUME NEW m \in Messages, Creates(m) PROVE (ExternalTypeOK /\ Sessioned)'
  BY <1>2 DEF Creates
<1>3. ASSUME NEW m \in Messages, Stores(m) PROVE (ExternalTypeOK /\ Sessioned)'
  BY <1>3 DEF Stores, Stored
<1>4. ASSUME NEW m \in Messages, Hydrates(m) PROVE (ExternalTypeOK /\ Sessioned)'
  <2>. DEFINE Rec == Requests(Stages, Messages \cup {NoSession}, SUBSET Messages)
              new == [request[m] EXCEPT !.at = "answering",
                                        !.memory = transcript[request[m].session]]
  <2>1. transcript[request[m].session] \in SUBSET Messages /\ "answering" \in Stages
    BY <1>4 DEF Hydrates
  <2>2. request[m] \in Rec /\ request \in [Messages -> Rec]
    BY DEF Requests
  <2>3. new \in Rec
    <3>. HIDE DEF Stages
    <3>. QED BY <2>1, <2>2, HydratedRequest
  <2>4. request' = [request EXCEPT ![m] = new]
    BY <1>4 DEF Hydrates
  <2>5. request' \in [Messages -> Rec]
    <3>. HIDE DEF Rec, new
    <3>. QED BY <2>2, <2>3, <2>4
  <2>. QED BY <1>4, <2>5 DEF Hydrates, Requests
<1>5. ASSUME NEW m \in Messages, HydrationFails(m) PROVE (ExternalTypeOK /\ Sessioned)'
  <2>. DEFINE Rec == Requests(Stages, Messages \cup {NoSession}, SUBSET Messages)
              new == [request[m] EXCEPT !.at = "answering", !.blind = TRUE]
  <2>1. request[m] \in Rec /\ request \in [Messages -> Rec] /\ "answering" \in Stages
    BY DEF Requests
  <2>2. new \in Rec
    <3>. HIDE DEF Stages
    <3>. QED BY <2>1, BlindRequest
  <2>3. request' = [request EXCEPT ![m] = new]
    BY <1>5 DEF HydrationFails
  <2>4. request' \in [Messages -> Rec]
    <3>. HIDE DEF Rec, new
    <3>. QED BY <2>1, <2>2, <2>3
  <2>. QED BY <1>5, <2>4 DEF HydrationFails, Requests
<1>6. ASSUME NEW m \in Messages, Answers(m) PROVE (ExternalTypeOK /\ Sessioned)'
  BY <1>6 DEF Answers
<1>7. ASSUME NEW m \in Messages, PersistsTurn(m) PROVE (ExternalTypeOK /\ Sessioned)'
  BY <1>7 DEF PersistsTurn
<1>8. ASSUME NEW m \in Messages, PersistFails(m) PROVE (ExternalTypeOK /\ Sessioned)'
  BY <1>8 DEF PersistFails
<1>9. ASSUME NEW m \in Messages, Replies(m) PROVE (ExternalTypeOK /\ Sessioned)'
  BY <1>9 DEF Replies
<1>10. ASSUME NEW m \in Messages, RequestFails(m) PROVE (ExternalTypeOK /\ Sessioned)'
  BY <1>10 DEF RequestFails
<1>11. ASSUME NEW m \in Messages, PodStops(m) PROVE (ExternalTypeOK /\ Sessioned)'
  BY <1>11 DEF PodStops
<1>12. CASE ExternalTick
  BY <1>12 DEF ExternalTick, NoKey
<1>13. CASE UNCHANGED extVars
  BY <1>13 DEF extVars
<1>. QED BY <1>1, <1>2, <1>3, <1>4, <1>5, <1>6, <1>7, <1>8, <1>9, <1>10, <1>11, <1>12, <1>13
         DEF ExternalNext

LEMMA TranscriptsKeptOwn == ConversationInv /\ [ExternalNext]_extVars => TranscriptsOwn'
<1>. SUFFICES ASSUME ConversationInv, [ExternalNext]_extVars PROVE TranscriptsOwn'
  OBVIOUS
<1>. USE ExternalAssumption
     DEF ConversationInv, ExternalTypeOK, Sessioned, TranscriptsOwn, At, Moves, Stages,
        Creating, Finished
<1>1. ASSUME NEW m \in Messages, LooksUp(m) PROVE TranscriptsOwn'
  BY <1>1 DEF LooksUp, Persisted, InCreation
<1>2. ASSUME NEW m \in Messages, Creates(m) PROVE TranscriptsOwn'
  BY <1>2 DEF Creates
<1>3. ASSUME NEW m \in Messages, Stores(m) PROVE TranscriptsOwn'
  BY <1>3 DEF Stores, Stored
<1>4. ASSUME NEW m \in Messages, Hydrates(m) PROVE TranscriptsOwn'
  BY <1>4 DEF Hydrates
<1>5. ASSUME NEW m \in Messages, HydrationFails(m) PROVE TranscriptsOwn'
  BY <1>5 DEF HydrationFails
<1>6. ASSUME NEW m \in Messages, Answers(m) PROVE TranscriptsOwn'
  BY <1>6 DEF Answers
<1>7. ASSUME NEW m \in Messages, PersistsTurn(m) PROVE TranscriptsOwn'
  BY <1>7 DEF PersistsTurn
<1>8. ASSUME NEW m \in Messages, PersistFails(m) PROVE TranscriptsOwn'
  BY <1>8 DEF PersistFails
<1>9. ASSUME NEW m \in Messages, Replies(m) PROVE TranscriptsOwn'
  BY <1>9 DEF Replies
<1>10. ASSUME NEW m \in Messages, RequestFails(m) PROVE TranscriptsOwn'
  BY <1>10 DEF RequestFails
<1>11. ASSUME NEW m \in Messages, PodStops(m) PROVE TranscriptsOwn'
  BY <1>11 DEF PodStops
<1>12. CASE ExternalTick
  BY <1>12 DEF ExternalTick, NoKey
<1>13. CASE UNCHANGED extVars
  BY <1>13 DEF extVars
<1>. QED BY <1>1, <1>2, <1>3, <1>4, <1>5, <1>6, <1>7, <1>8, <1>9, <1>10, <1>11, <1>12, <1>13
         DEF ExternalNext

LEMMA CreationsStillMeet == ConversationInv /\ [ExternalNext]_extVars => CreationsMeet'
<1>. SUFFICES ASSUME ConversationInv, [ExternalNext]_extVars PROVE CreationsMeet'
  OBVIOUS
<1>. USE ExternalAssumption
     DEF ConversationInv, ExternalTypeOK, Sessioned, CreationsMeet, InCreation, At, Moves,
        Stages, Creating, Finished
<1>1. ASSUME NEW m \in Messages, LooksUp(m) PROVE CreationsMeet'
  BY <1>1 DEF LooksUp, Persisted, InCreation
<1>2. ASSUME NEW m \in Messages, Creates(m) PROVE CreationsMeet'
  BY <1>2 DEF Creates
<1>3. ASSUME NEW m \in Messages, Stores(m) PROVE CreationsMeet'
  BY <1>3 DEF Stores, Stored
<1>4. ASSUME NEW m \in Messages, Hydrates(m) PROVE CreationsMeet'
  BY <1>4 DEF Hydrates
<1>5. ASSUME NEW m \in Messages, HydrationFails(m) PROVE CreationsMeet'
  BY <1>5 DEF HydrationFails
<1>6. ASSUME NEW m \in Messages, Answers(m) PROVE CreationsMeet'
  BY <1>6 DEF Answers
<1>7. ASSUME NEW m \in Messages, PersistsTurn(m) PROVE CreationsMeet'
  BY <1>7 DEF PersistsTurn
<1>8. ASSUME NEW m \in Messages, PersistFails(m) PROVE CreationsMeet'
  BY <1>8 DEF PersistFails
<1>9. ASSUME NEW m \in Messages, Replies(m) PROVE CreationsMeet'
  BY <1>9 DEF Replies
<1>10. ASSUME NEW m \in Messages, RequestFails(m) PROVE CreationsMeet'
  BY <1>10 DEF RequestFails
<1>11. ASSUME NEW m \in Messages, PodStops(m) PROVE CreationsMeet'
  BY <1>11 DEF PodStops
<1>12. CASE ExternalTick
  BY <1>12 DEF ExternalTick, NoKey
<1>13. CASE UNCHANGED extVars
  BY <1>13 DEF extVars
<1>. QED BY <1>1, <1>2, <1>3, <1>4, <1>5, <1>6, <1>7, <1>8, <1>9, <1>10, <1>11, <1>12, <1>13
         DEF ExternalNext

LEMMA KeyStillLeads == ConversationInv /\ [ExternalNext]_extVars => KeyLeads'
<1>. SUFFICES ASSUME ConversationInv, [ExternalNext]_extVars PROVE KeyLeads'
  OBVIOUS
<1>. USE ExternalAssumption
     DEF ConversationInv, ExternalTypeOK, Sessioned, KeyLeads, InUse, Served, CreationsMeet,
        InCreation, At, Moves, Stages, Creating, Finished
<1>1. ASSUME NEW m \in Messages, LooksUp(m) PROVE KeyLeads'
  BY <1>1 DEF LooksUp, Persisted, InCreation
<1>2. ASSUME NEW m \in Messages, Creates(m) PROVE KeyLeads'
  BY <1>2 DEF Creates
<1>3. ASSUME NEW m \in Messages, Stores(m) PROVE KeyLeads'
  BY <1>3 DEF Stores, Stored
<1>4. ASSUME NEW m \in Messages, Hydrates(m) PROVE KeyLeads'
  BY <1>4 DEF Hydrates
<1>5. ASSUME NEW m \in Messages, HydrationFails(m) PROVE KeyLeads'
  BY <1>5 DEF HydrationFails
<1>6. ASSUME NEW m \in Messages, Answers(m) PROVE KeyLeads'
  BY <1>6 DEF Answers
<1>7. ASSUME NEW m \in Messages, PersistsTurn(m) PROVE KeyLeads'
  BY <1>7 DEF PersistsTurn
<1>8. ASSUME NEW m \in Messages, PersistFails(m) PROVE KeyLeads'
  BY <1>8 DEF PersistFails
<1>9. ASSUME NEW m \in Messages, Replies(m) PROVE KeyLeads'
  BY <1>9 DEF Replies
<1>10. ASSUME NEW m \in Messages, RequestFails(m) PROVE KeyLeads'
  BY <1>10 DEF RequestFails
<1>11. ASSUME NEW m \in Messages, PodStops(m) PROVE KeyLeads'
  BY <1>11 DEF PodStops
<1>12. CASE ExternalTick
  BY <1>12 DEF ExternalTick, NoKey
<1>13. CASE UNCHANGED extVars
  BY <1>13 DEF extVars
<1>. QED BY <1>1, <1>2, <1>3, <1>4, <1>5, <1>6, <1>7, <1>8, <1>9, <1>10, <1>11, <1>12, <1>13
         DEF ExternalNext

LEMMA KnownStayOwn == ConversationInv /\ [ExternalNext]_extVars => KnowsItsOwn'
<1>. SUFFICES ASSUME ConversationInv, [ExternalNext]_extVars PROVE KnowsItsOwn'
  OBVIOUS
<1>. USE ExternalAssumption
     DEF ConversationInv, ExternalTypeOK, Sessioned, KnowsItsOwn, TranscriptsOwn, KeyLeads,
        InUse, At, Moves, Stages, Creating, Finished
<1>1. ASSUME NEW m \in Messages, LooksUp(m) PROVE KnowsItsOwn'
  <2>. SUFFICES ASSUME NEW n \in Messages, NEW k \in request'[n].known
                PROVE /\ request'[k].session \in Messages /\ k \in transcript'[request'[k].session]
                      /\ request'[k].session \in (overlapped \cup expired)'
                            \/ request'[k].session = request'[n].session
    OBVIOUS
  <2>1. overlapped \subseteq overlapped' /\ UNCHANGED <<transcript, expired>>
    BY <1>1 DEF LooksUp
  <2>2. ASSUME NEW i \in Messages, i # m PROVE request'[i] = request[i]
    <3>1. CASE extKey.is = NoSession
      BY <1>1, <2>2, <3>1 DEF LooksUp
    <3>2. CASE extKey.is # NoSession
      BY <1>1, <2>2, <3>2 DEF LooksUp
    <3>. QED BY <3>1, <3>2
  <2>3. ASSUME NEW s \in Messages, NEW i \in transcript[s] PROVE i # m /\ request[i].session = s
    BY <1>1 DEF LooksUp
  <2>4. CASE n # m
    <3>1. k \in Messages /\ request'[n] = request[n] /\ k \in request[n].known
      BY <2>2, <2>4
    <3>2. request[k].session \in Messages /\ k \in transcript[request[k].session]
      BY <3>1
    <3>3. k # m
      BY <2>3, <3>2
    <3>. QED BY <2>1, <2>2, <3>1, <3>2, <3>3
  <2>5. CASE n = m
    <3>1. PICK s \in Messages : k \in transcript[s]
      BY <1>1, <2>5 DEF LooksUp, Persisted
    <3>2. k \in Messages /\ request'[k].session = s /\ k \in transcript'[s]
      BY <2>1, <2>2, <2>3, <3>1
    <3>3. s \in overlapped \cup expired \/ extKey.is = s
      BY <3>1
    <3>4. extKey.is # NoSession => request'[m].session = extKey.is
      BY <1>1 DEF LooksUp
    <3>. QED BY <2>1, <2>5, <3>2, <3>3, <3>4
  <2>. QED BY <2>4, <2>5
<1>2. ASSUME NEW m \in Messages, Creates(m) PROVE KnowsItsOwn'
  BY <1>2 DEF Creates
<1>3. ASSUME NEW m \in Messages, Stores(m) PROVE KnowsItsOwn'
  BY <1>3 DEF Stores, Stored
<1>4. ASSUME NEW m \in Messages, Hydrates(m) PROVE KnowsItsOwn'
  BY <1>4 DEF Hydrates
<1>5. ASSUME NEW m \in Messages, HydrationFails(m) PROVE KnowsItsOwn'
  BY <1>5 DEF HydrationFails
<1>6. ASSUME NEW m \in Messages, Answers(m) PROVE KnowsItsOwn'
  BY <1>6 DEF Answers
<1>7. ASSUME NEW m \in Messages, PersistsTurn(m) PROVE KnowsItsOwn'
  BY <1>7 DEF PersistsTurn
<1>8. ASSUME NEW m \in Messages, PersistFails(m) PROVE KnowsItsOwn'
  BY <1>8 DEF PersistFails
<1>9. ASSUME NEW m \in Messages, Replies(m) PROVE KnowsItsOwn'
  BY <1>9 DEF Replies
<1>10. ASSUME NEW m \in Messages, RequestFails(m) PROVE KnowsItsOwn'
  BY <1>10 DEF RequestFails
<1>11. ASSUME NEW m \in Messages, PodStops(m) PROVE KnowsItsOwn'
  BY <1>11 DEF PodStops
<1>12. CASE ExternalTick
  BY <1>12 DEF ExternalTick, NoKey
<1>13. CASE UNCHANGED extVars
  BY <1>13 DEF extVars
<1>. QED BY <1>1, <1>2, <1>3, <1>4, <1>5, <1>6, <1>7, <1>8, <1>9, <1>10, <1>11, <1>12, <1>13
         DEF ExternalNext

LEMMA StillRemembers == ConversationInv /\ [ExternalNext]_extVars => Remembers'
<1>. SUFFICES ASSUME ConversationInv, [ExternalNext]_extVars PROVE Remembers'
  OBVIOUS
<1>. USE ExternalAssumption
     DEF ConversationInv, ExternalTypeOK, Sessioned, Remembers, KnowsItsOwn, TranscriptsOwn,
        Served, At, Moves, Stages, Creating, Finished
<1>1. ASSUME NEW m \in Messages, LooksUp(m) PROVE Remembers'
  BY <1>1 DEF LooksUp, Persisted, InCreation
<1>2. ASSUME NEW m \in Messages, Creates(m) PROVE Remembers'
  BY <1>2 DEF Creates
<1>3. ASSUME NEW m \in Messages, Stores(m) PROVE Remembers'
  BY <1>3 DEF Stores, Stored
<1>4. ASSUME NEW m \in Messages, Hydrates(m) PROVE Remembers'
  BY <1>4 DEF Hydrates
<1>5. ASSUME NEW m \in Messages, HydrationFails(m) PROVE Remembers'
  BY <1>5 DEF HydrationFails
<1>6. ASSUME NEW m \in Messages, Answers(m) PROVE Remembers'
  BY <1>6 DEF Answers
<1>7. ASSUME NEW m \in Messages, PersistsTurn(m) PROVE Remembers'
  BY <1>7 DEF PersistsTurn
<1>8. ASSUME NEW m \in Messages, PersistFails(m) PROVE Remembers'
  BY <1>8 DEF PersistFails
<1>9. ASSUME NEW m \in Messages, Replies(m) PROVE Remembers'
  BY <1>9 DEF Replies
<1>10. ASSUME NEW m \in Messages, RequestFails(m) PROVE Remembers'
  BY <1>10 DEF RequestFails
<1>11. ASSUME NEW m \in Messages, PodStops(m) PROVE Remembers'
  BY <1>11 DEF PodStops
<1>12. CASE ExternalTick
  BY <1>12 DEF ExternalTick, NoKey
<1>13. CASE UNCHANGED extVars
  BY <1>13 DEF extVars
<1>. QED BY <1>1, <1>2, <1>3, <1>4, <1>5, <1>6, <1>7, <1>8, <1>9, <1>10, <1>11, <1>12, <1>13
         DEF ExternalNext

(* What was known is remembered: KnowsItsOwn puts it in the request's own transcript. *)
LEMMA InvRemembers == ConversationInv => ConversationRemembered
<1>. SUFFICES ASSUME ConversationInv, NEW m \in Messages, NEW k \in request[m].known,
                     request[m].at \in {"answering", "persisting", "sending", "replied"},
                     ~request[m].blind, request[k].session \notin overlapped \cup expired
              PROVE k \in request[m].memory
  BY DEF ConversationRemembered
<1>1. request[k].session = request[m].session /\ k \in transcript[request[m].session]
  BY DEF ConversationInv, KnowsItsOwn
<1>. QED BY <1>1 DEF ConversationInv, Remembers, Served

LEMMA ConversationInductive == ExternalSpec => []ConversationInv
<1>1. ConversationInv /\ [ExternalNext]_extVars => ConversationInv'
  BY ExternalTyped, TranscriptsKeptOwn, CreationsStillMeet, KeyStillLeads, KnownStayOwn,
     StillRemembers DEF ConversationInv
<1>. QED BY <1>1, ConversationInit, PTL DEF ExternalSpec

(* Type correctness of the conversations of outside platforms. *)
THEOREM ExternalTypeCorrect == ExternalSpec => []ExternalTypeOK
<1>1. ConversationInv => ExternalTypeOK
  BY DEF ConversationInv
<1>. QED BY <1>1, ConversationInductive, PTL

(* Any number of messages, of requests at once, failures and restarts: a message is
   answered with every earlier message of the conversation in mind, except those of a
   session that was created beside another and those of before the key expired. *)
THEOREM ConversationRememberedHolds == ExternalSpec => []ConversationRemembered
<1>. QED BY InvRemembers, ConversationInductive, PTL
=============================================================================
