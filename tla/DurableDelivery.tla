--------------------------- MODULE DurableDelivery ---------------------------
(***************************************************************************)
(* What the session_closed webhook path promises, with no pods, leases,    *)
(* clocks or attempt counters: an event is either acknowledged at once,    *)
(* queued, or (with a log line) not queued at all; a queued event is       *)
(* settled once, as delivered or as dead; it is settled as delivered only  *)
(* if the CRM really has it; and a settled event is never reopened, only   *)
(* deleted when its retention is over.                                     *)
(***************************************************************************)
EXTENDS Naturals

CONSTANT Events

VARIABLES state,      \* state[e]: what has become of the event
          received    \* received[e]: the CRM has got the event at least once

vars == <<state, received>>

States == {"none", "inline", "dropped", "lost", "pending", "delivered", "dead", "pruned"}

Settled == {"delivered", "dead", "pruned"}

Init == /\ state = [e \in Events |-> "none"]
        /\ received = [e \in Events |-> FALSE]

(* The first, in-line attempt and what follows from it. *)
Submit(e) ==
    /\ state[e] = "none"
    /\ \E s \in {"inline", "dropped", "lost", "pending"}, got \in BOOLEAN :
          /\ s = "inline" => got
          /\ s = "dropped" => ~got
          /\ state' = [state EXCEPT ![e] = s]
          /\ received' = [received EXCEPT ![e] = got]

(* A retry reaches the CRM, whatever its sender learns of it. *)
Receive(e) ==
    /\ state[e] \in {"pending", "delivered", "dead", "pruned"}
    /\ received' = [received EXCEPT ![e] = TRUE]
    /\ UNCHANGED state

(* Events are given up together when a retry pass finds several too old. *)
GiveUp ==
    /\ \E gone \in SUBSET {e \in Events : state[e] = "pending"} :
          state' = [e \in Events |-> IF e \in gone THEN "dead" ELSE state[e]]
    /\ UNCHANGED received

Acknowledge(e) ==
    /\ state[e] = "pending"
    /\ received[e]
    /\ state' = [state EXCEPT ![e] = "delivered"]
    /\ UNCHANGED received

(* Retention: only settled events are forgotten. *)
Forget ==
    /\ \E gone \in SUBSET {e \in Events : state[e] \in {"delivered", "dead"}} :
          state' = [e \in Events |-> IF e \in gone THEN "pruned" ELSE state[e]]
    /\ UNCHANGED received

Next == \/ \E e \in Events : Submit(e) \/ Receive(e) \/ Acknowledge(e)
        \/ GiveUp
        \/ Forget

Spec == Init /\ [][Next]_vars
=============================================================================
