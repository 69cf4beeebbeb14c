---------------------------- MODULE VoiceHandoff ----------------------------
(***************************************************************************)
(* The voice call a customer starts from a chat session (api/chat.py:      *)
(* request_call, chat_voice_ws and the live lock of a handoff token).      *)
(*                                                                         *)
(* A token stands for the chat's context and may be used again after a     *)
(* drop; a Redis lock with an expiry keeps a second call off a token that  *)
(* is in use. The call renews the lock while it lasts. The process keeps,  *)
(* per chat session, the socket that _end_session is to close. One session *)
(* is modelled; its tokens are those of repeated requests.                 *)
(*                                                                         *)
(* Time is counted down: to the expiry of a lock, to a call's renewal.     *)
(***************************************************************************)
EXTENDS Integers

CONSTANTS
    Sockets,      \* connections to /chat/voice
    Tokens,       \* handoff tokens of the session
    TokenOf,      \* TokenOf[s]: the token in the URL of s
    Free,         \* no lock, no socket
    LockTTL,      \* _HANDOFF_LIVE_LOCK_TTL_S
    RenewEvery,   \* _HANDOFF_LIVE_LOCK_RENEW_INTERVAL_S
    MaxMissed,    \* bound: renewals of one call that Redis fails in a row
    MaxLag        \* bound: time from a call's end to the second Redis call of its release

ASSUME SocketsAssumption == Free \notin Sockets /\ TokenOf \in [Sockets -> Tokens]
ASSUME LockAssumption ==
    /\ LockTTL \in Nat /\ RenewEvery \in Nat \ {0} /\ MaxMissed \in Nat /\ MaxLag \in Nat
    /\ (MaxMissed + 1) * RenewEvery + MaxLag < LockTTL

VARIABLES
    valid,        \* the tokens that were issued
    lock,         \* lock[t]: the owner of chat_handoff_live:t
    expires,      \* expires[t]: time until that key is gone; 0: it does not expire
    call,         \* call[s]: where the handler of socket s is
    entry,        \* _active_voice_ws[session]
    chatEnded

voiceVars == <<valid, lock, expires, call, entry, chatEnded>>

(* wake counts down to the next renewal; missed, the renewals that failed since the
   last good one; lag, the time since the call ended. crowded is a ghost:
   another call of the session was there at the same time. *)
CallPlaces == {"new", "claimed", "live", "closed", "releasing", "deleting", "leaving", "gone"}
CallAt(place) == [at |-> place, wake |-> 0, missed |-> 0, lag |-> 0, crowded |-> FALSE]

VoiceTypeOK ==
    /\ valid \subseteq Tokens
    /\ lock \in [Tokens -> Sockets \cup {Free}]
    /\ expires \in [Tokens -> 0 .. LockTTL]
    /\ call \in [Sockets -> [at : CallPlaces, wake : 0 .. RenewEvery,
                             missed : 0 .. MaxMissed, lag : 0 .. MaxLag, crowded : BOOLEAN]]
    /\ entry \in Sockets \cup {Free}
    /\ chatEnded \in BOOLEAN

VoiceInit ==
    /\ valid = {}
    /\ lock = [t \in Tokens |-> Free] /\ expires = [t \in Tokens |-> 0]
    /\ call = [s \in Sockets |-> CallAt("new")]
    /\ entry = Free
    /\ chatEnded = FALSE

(* The bridge runs; after "closed" it is being ended from our side. *)
Running(s) == call[s].at \in {"live", "closed"}
Freeing(s) == call[s].at \in {"releasing", "deleting"}
Holding(s) == Running(s) \/ Freeing(s) \/ call[s].at = "leaving"
To(s, place) == call' = [call EXCEPT ![s].at = place]
Becomes(s, place) == call' = [call EXCEPT ![s] = CallAt(place)]

(* A token expires after ten minutes: from then on nobody claims it. *)
RequestCall(t) ==
    /\ t \notin valid /\ valid' = valid \cup {t}
    /\ UNCHANGED <<lock, expires, call, entry, chatEnded>>

-----------------------------------------------------------------------------
(* chat_voice_ws. *)

(* The token's context is found. A missing, unknown or expired token, or one of
   another tenant, closes the socket and changes nothing. *)
ClaimToken(s) ==
    /\ call[s].at = "new" /\ TokenOf[s] \in valid
    /\ To(s, "claimed")
    /\ UNCHANGED <<valid, lock, expires, entry, chatEnded>>

SetForEver(t, s) ==                                          \* a mutant
    /\ lock' = [lock EXCEPT ![t] = s]
    /\ expires' = [expires EXCEPT ![t] = 0]
SetInMillis(t, s) ==                                         \* a mutant
    /\ lock' = [lock EXCEPT ![t] = s]
    /\ expires' = [expires EXCEPT ![t] = LockTTL * 1000]
SetWithExpiry(t, s) ==
    /\ lock' = [lock EXCEPT ![t] = s]
    /\ expires' = [expires EXCEPT ![t] = LockTTL]

(* SET NX EX; the socket is registered and the renewals begin. *)
Acquire(s) ==
    LET t == TokenOf[s] IN
    /\ call[s].at = "claimed" /\ lock[t] = Free
    /\ SetWithExpiry(t, s)
    /\ entry' = s
    /\ call' = [r \in Sockets |->
           IF r = s THEN [call[s] EXCEPT !.at = "live", !.wake = RenewEvery,
                                         !.crowded = \E q \in Sockets : Holding(q)]
           ELSE [call[r] EXCEPT !.crowded = @ \/ Holding(r)]]
    /\ UNCHANGED <<valid, chatEnded>>

DropsAny(s) == entry' = Free                                 \* a mutant
KeepsEntry(s) == UNCHANGED entry

(* The lock is another call's. *)
Refuse(s) ==
    /\ call[s].at = "claimed" /\ lock[TokenOf[s]] # Free
    /\ Becomes(s, "gone")
    /\ KeepsEntry(s)
    /\ UNCHANGED <<valid, lock, expires, chatEnded>>

(* Redis fails; it may have set the lock, which nobody will release. *)
AcquireFails(s) ==
    LET t == TokenOf[s] IN
    /\ call[s].at = "claimed"
    /\ Becomes(s, "gone")
    /\ \/ UNCHANGED <<lock, expires>>
       \/ lock[t] = Free /\ SetWithExpiry(t, s)
    /\ UNCHANGED <<valid, entry, chatEnded>>

(* EXPIRE refreshes the key whoever's it is, if it is still there. *)
ExtendedBriefly(t) == IF lock[t] = Free THEN 0 ELSE RenewEvery   \* a mutant
Extended(t) == IF lock[t] = Free THEN 0 ELSE LockTTL

Renew(s) ==
    LET t == TokenOf[s] IN
    /\ Running(s) /\ call[s].wake = 0
    /\ \/ /\ expires' = [expires EXCEPT ![t] = Extended(t)]
          /\ call' = [call EXCEPT ![s].wake = RenewEvery, ![s].missed = 0]
       \/ /\ call[s].missed < MaxMissed
          /\ call' = [call EXCEPT ![s].wake = RenewEvery, ![s].missed = @ + 1]
          /\ UNCHANGED expires
    /\ UNCHANGED <<valid, lock, entry, chatEnded>>

(* run_browser_voice returns or raises: the customer left, the call ended, or the
   socket was closed under it. The renewals stop. *)
CallEnds(s) ==
    /\ Running(s)
    /\ Becomes(s, "releasing")
    /\ UNCHANGED <<valid, lock, expires, entry, chatEnded>>

(* The release compares, in one Redis call, and deletes, in another. Either fails. *)
ReleaseReads(s) ==
    /\ call[s].at = "releasing"
    /\ \/ lock[TokenOf[s]] = s /\ To(s, "deleting")
       \/ Becomes(s, "leaving")
    /\ UNCHANGED <<valid, lock, expires, entry, chatEnded>>

ReleaseDeletes(s) ==
    LET t == TokenOf[s] IN
    /\ call[s].at = "deleting"
    /\ Becomes(s, "leaving")
    /\ \/ /\ lock' = [lock EXCEPT ![t] = Free]
          /\ expires' = [expires EXCEPT ![t] = 0]
       \/ UNCHANGED <<lock, expires>>
    /\ UNCHANGED <<valid, entry, chatEnded>>

(* The session's entry is dropped, whoever's it is. *)
Drops(s) == entry' = Free

Leave(s) ==
    /\ call[s].at = "leaving"
    /\ Becomes(s, "gone")
    /\ Drops(s)
    /\ UNCHANGED <<valid, lock, expires, chatEnded>>

-----------------------------------------------------------------------------
(* The rest of the process. *)

(* _end_session closes the socket that is registered. *)
EndSession ==
    /\ ~chatEnded /\ chatEnded' = TRUE
    /\ entry' = Free
    /\ call' = [s \in Sockets |->
           IF s = entry /\ call[s].at = "live" THEN [call[s] EXCEPT !.at = "closed"]
           ELSE call[s]]
    /\ UNCHANGED <<valid, lock, expires>>

(* The process dies; what Redis holds stays. *)
Dies ==
    /\ \E s \in Sockets : call[s].at \notin {"new", "gone"}
    /\ call' = [s \in Sockets |->
           IF call[s].at = "new" THEN call[s] ELSE CallAt("gone")]
    /\ entry' = Free
    /\ UNCHANGED <<valid, lock, expires, chatEnded>>

Down(n) == IF n = 0 THEN 0 ELSE n - 1

(* A renewal that is due is attempted in time; see MaxMissed for those that fail. *)
VoiceTick ==
    /\ \A s \in Sockets :
           /\ Running(s) => call[s].wake > 0
           /\ Freeing(s) => call[s].lag < MaxLag
    /\ lock' = [t \in Tokens |-> IF expires[t] = 1 THEN Free ELSE lock[t]]
    /\ expires' = [t \in Tokens |-> Down(expires[t])]
    /\ call' = [s \in Sockets |->
           CASE Running(s) -> [call[s] EXCEPT !.wake = @ - 1]
             [] Freeing(s) -> [call[s] EXCEPT !.lag = @ + 1]
             [] OTHER -> call[s]]
    /\ UNCHANGED <<valid, entry, chatEnded>>

SocketGoes(s) ==
    \/ Acquire(s) \/ Refuse(s) \/ AcquireFails(s)
    \/ Renew(s) \/ ReleaseReads(s) \/ ReleaseDeletes(s) \/ Leave(s)

VoiceNext ==
    \/ \E t \in Tokens : RequestCall(t)
    \/ \E s \in Sockets : ClaimToken(s) \/ CallEnds(s) \/ SocketGoes(s)
    \/ EndSession \/ Dies \/ VoiceTick

VoiceSpec == VoiceInit /\ [][VoiceNext]_voiceVars

(* Time passes, and a handler does what is its turn. The customer and the agents,
   the calls' ends and restarts are left to chance. *)
VoiceFairness ==
    /\ WF_voiceVars(VoiceTick)
    /\ \A s \in Sockets : WF_voiceVars(SocketGoes(s))
VoiceFairSpec == VoiceSpec /\ VoiceFairness

-----------------------------------------------------------------------------
(* Properties. *)

(* One live call per token: while Redis fails fewer renewals in a row than the
   expiry allows for, a second call is refused as long as the first one lasts,
   whatever is released, lost or cut off in between; and a call that releases the
   lock does not delete another one's. *)
LockExclusive ==
    /\ \A s, r \in Sockets :
          Running(s) /\ Running(r) /\ TokenOf[s] = TokenOf[r] => s = r
    /\ \A s \in Sockets : call[s].at = "deleting" => lock[TokenOf[s]] = s

(* A call that died, or whose release failed, does not jam its token: the lock goes
   by itself. *)
Unused(t) == \A s \in Sockets : TokenOf[s] = t => ~Holding(s)
TokenUsableAgain ==
    \A t \in Tokens : lock[t] # Free /\ Unused(t) ~> lock[t] = Free

(* The chat's end closes the session's voice call, unless another call of the
   session overlapped with it. *)
EndReachesVoice ==
    [][\A s \in Sockets :
          chatEnded' # chatEnded /\ call[s].at = "live" /\ ~call[s].crowded
              => call'[s].at = "closed"]_voiceVars
=============================================================================
