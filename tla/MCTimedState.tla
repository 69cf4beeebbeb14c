---------------------------- MODULE MCTimedState ----------------------------
(* WebhookOutbox, CallRecords and VoiceHandoff for TLC, side by side: what is put right
   by the passing of time. The outbox's rows, the calls' rows and the live locks have
   nothing in common, so a behaviour is a behaviour of one of the modules, in which the
   others' variables keep their initial values. *)
EXTENDS MCWebhookOutbox, CallRecords, VoiceHandoff

CONSTANTS s1, s2, s3, t1, t2

VARIABLE part

timedVars == <<part, vars, callVars, voiceVars>>

(* Two leads; a lead and a room; two rooms; a lead and a registered call. The CRM may
   register a room as well. *)
FirstMix == <<"lead", "lead">>
TheMixes == {FirstMix, <<"lead", "room">>, <<"room", "room">>, <<"lead", "registered">>}

(* Every request there is for one call, or two requests for two calls. Requests of a kind
   are alike: the first comes first. *)
Begun(c) ==
    \/ dial[c] # "new" \/ phone[c] # "none" \/ rows[c] # <<>>
    \/ \E g \in Registrations : registration[g] = [at |-> "missing", call |-> c]
Asked(requests) == {n \in DOMAIN requests : requests[n] # Nowhere}
Few ==
    /\ \/ Cardinality({c \in Calls : Begun(c)}) <= 1
       \/ Cardinality({c \in Calls : dial[c] # "new"}) + Cardinality(Asked(delivery))
             + Cardinality(Asked(registration)) <= 2
    /\ \A requests \in {delivery, registration} :
          \A n \in Asked(requests) : n - 1 \in Asked(requests) \cup {0}

(* A dropped voice call's second connection, and a second call of the same session. *)
TheTokens == s1 :> t1 @@ s2 :> t1 @@ s3 :> t2

TimedInit ==
    /\ part \in {"outbox", "calls", "handoff"}
    /\ Init
    /\ CallsInit /\ (part = "calls" \/ kind = FirstMix)
    /\ VoiceInit

TimedNext ==
    \/ /\ part = "outbox" /\ Next
       /\ UNCHANGED <<part, callVars, voiceVars>>
    \/ /\ part = "calls" /\ CallsNext /\ Few'
       /\ UNCHANGED <<part, vars, voiceVars>>
    \/ /\ part = "handoff" /\ VoiceNext
       /\ UNCHANGED <<part, vars, callVars>>

TimedSpec == TimedInit /\ [][TimedNext]_timedVars

(* Fairness, CallsFairness and VoiceFairness, each for the behaviours of its own module. *)
OfOutbox == part = "outbox"
OfCalls == part = "calls"
OfHandoff == part = "handoff"
TimedFairSpec ==
    /\ TimedSpec
    /\ WF_vars(OfOutbox /\ Tick) /\ \A p \in Pods : WF_vars(OfOutbox /\ PassStep(p))
    /\ WF_callVars(OfCalls /\ Reap)
    /\ \A c \in Calls : WF_callVars(OfCalls /\ Grows(c))
    /\ \A d \in Deliveries : WF_callVars(OfCalls /\ RunnerGoes(d))
    /\ WF_voiceVars(OfHandoff /\ VoiceTick)
    /\ \A s \in Sockets : WF_voiceVars(OfHandoff /\ SocketGoes(s))
=============================================================================
