---------------------------- MODULE CallRecords ----------------------------
(***************************************************************************)
(* The records of telephone calls: how a call gets its conversations row,  *)
(* and how the row is answered, ended and given its outcome                *)
(* (api/call_store.py, api/calls.py, api/livekit_routes.py,                *)
(* api/livekit_runner.py, register_call of api/telephony_crm.py, and the   *)
(* reaper loop of main.py).                                                *)
(*                                                                         *)
(* A call is dialled for a lead, registered by the CRM, or comes in as a   *)
(* LiveKit room, which the CRM may have registered too. Rows are found by  *)
(* the provider's id of the call, which is not unique in the table. Each   *)
(* database transaction is one step, but mark_answered's read and write    *)
(* are two; between them other handlers run. One tenant and one process    *)
(* are modelled: the rooms in flight are this process's own. Softphone     *)
(* calls are left out. What is said in a call is the business of module    *)
(* LiveBridge; here it has an outcome.                                     *)
(***************************************************************************)
EXTENDS Integers, Sequences, FiniteSets

CONSTANTS
    Calls,          \* provider_call_sids, room names
    Mixes,          \* the kinds of the calls: a set of functions from Calls
    Deliveries,     \* LiveKit's participant_joined webhooks, repeats included
    Registrations,  \* the CRM's register_call requests, repeats included
    Cap,            \* max_concurrent_calls
    MaxCallFaults       \* bound: restarts and database failures

AllKinds == {"lead", "registered", "room"}

ASSUME CallKindsAssumption == Mixes \subseteq [Calls -> AllKinds]
ASSUME FiniteCallsAssumption == IsFiniteSet(Calls)
ASSUME CallBoundsAssumption == Cap \in Nat /\ MaxCallFaults \in Nat

VARIABLES
    kind,           \* kind[c]
    rows,           \* rows[c]: the conversations rows with this provider_call_sid
    phone,          \* phone[c]: the call itself
    dial,           \* dial[c]: where call_lead is with a lead
    delivery,       \* where a webhook, and the runner it spawns, is
    registration,   \* where a register_call request is
    inFlight,       \* _in_flight_rooms
    pending,        \* outcomes the media bridge of a call still has to hand over
    \* ghosts
    spoken,         \* spoken[c]: the last outcome that met exactly one row
    uncapped,       \* calls that came in past the cap, each in a way named below
    twin,           \* calls whose row was looked for by two before either inserted it
    callFaults

callVars == <<kind, rows, phone, dial, delivery, registration, inFlight, pending,
              spoken, uncapped, twin, callFaults>>

CallOutcomes == {"talked", "no_answer", "call_failed"}
Active == {"in_progress", "answered"}
NewRow == [status |-> "in_progress", outcome |-> "none", old |-> FALSE]
Nowhere == [at |-> "idle"]
Over == [at |-> "done"]

CallsTypeOK ==
    /\ kind \in [Calls -> AllKinds]
    /\ rows \in [Calls -> Seq([status : Active \cup {"ended"},
                               outcome : CallOutcomes \cup {"none"}, old : BOOLEAN])]
    /\ phone \in [Calls -> {"none", "up", "over"}]
    /\ dial \in [Calls -> {"new", "checked", "dialled", "done"}]
    /\ delivery \in [Deliveries ->
           {Nowhere, Over}
           \cup [at : {"counted", "joining", "connected", "missing", "waiting",
                       "answering", "building", "bridged", "leaving"}, call : Calls]]
    /\ registration \in [Registrations -> {Nowhere, Over} \cup [at : {"missing"}, call : Calls]]
    /\ inFlight \subseteq Calls
    /\ pending \in [Calls -> {"none", "first", "again"}]
    /\ spoken \in [Calls -> CallOutcomes \cup {"none"}]
    /\ uncapped \subseteq Calls /\ twin \subseteq Calls /\ callFaults \in Nat

CallsInit ==
    /\ kind \in Mixes
    /\ rows = [c \in Calls |-> <<>>]
    /\ phone = [c \in Calls |-> "none"]
    /\ dial = [c \in Calls |-> "new"]
    /\ delivery = [d \in Deliveries |-> Nowhere]
    /\ registration = [g \in Registrations |-> Nowhere]
    /\ inFlight = {}
    /\ pending = [c \in Calls |-> "none"]
    /\ spoken = [c \in Calls |-> "none"]
    /\ uncapped = {} /\ twin = {} /\ callFaults = 0

-----------------------------------------------------------------------------
(* call_store.py. *)

RowsOf(c) == DOMAIN rows[c]

InProgressCalls == {c \in Calls : \E i \in RowsOf(c) : rows[c][i].status = "in_progress"}  \* a mutant
ActiveCalls == {c \in Calls : \E i \in RowsOf(c) : rows[c][i].status \in Active}

UnderCap == Cardinality(ActiveCalls) < Cap

InsertCall(c) == rows' = [rows EXCEPT ![c] = Append(@, NewRow)]

(* mark_answered reads the row, and writes it by its key at the commit.
   scalar_one_or_none: no row is a miss, two rows raise, and neither is written. *)
Unanswered(c) == Len(rows[c]) = 1 /\ rows[c][1].status = "in_progress"
MarkAnswered(c) == rows' = [rows EXCEPT ![c][1].status = "answered"]

EndedOnce(row, o) ==                                         \* a mutant
    IF row.status = "ended" THEN row
    ELSE [row EXCEPT !.status = "ended", !.outcome = o]
Ended(row, o) ==
    [row EXCEPT !.status = "ended", !.outcome = IF o = "none" THEN @ ELSE o]

RecordOutcome(c, o) ==
    IF Len(rows[c]) = 1
    THEN /\ rows' = [rows EXCEPT ![c][1] = Ended(@, o)]
         /\ spoken' = [spoken EXCEPT ![c] = IF o = "none" THEN @ ELSE o]
    ELSE UNCHANGED <<rows, spoken>>

(* 30 minutes have passed since the rows of c were started. *)
Grows(c) ==
    /\ \E i \in RowsOf(c) : ~rows[c][i].old
    /\ rows' = [rows EXCEPT ![c] = [i \in DOMAIN @ |-> [@[i] EXCEPT !.old = TRUE]]]
    /\ UNCHANGED <<kind, phone, dial, delivery, registration, inFlight, pending,
                   spoken, uncapped, twin, callFaults>>

StaleUnanswered(row) == row.status = "in_progress" /\ row.old  \* a mutant
Stale(row) == row.status \in Active /\ row.old

Reap ==
    /\ \E c \in Calls : \E i \in RowsOf(c) : Stale(rows[c][i])
    /\ rows' = [c \in Calls |->
           [i \in RowsOf(c) |-> IF Stale(rows[c][i])
                                THEN [rows[c][i] EXCEPT !.status = "ended"]
                                ELSE rows[c][i]]]
    /\ UNCHANGED <<kind, phone, dial, delivery, registration, inFlight, pending,
                   spoken, uncapped, twin, callFaults>>

-----------------------------------------------------------------------------
(* call_lead. *)

(* Calls that passed the check and have no row, yet or because the database failed. *)
OnItsWay(c) ==
    \/ dial[c] \in {"checked", "dialled"}
    \/ rows[c] = <<>> /\ \E d \in Deliveries :
           delivery[d] \notin {Nowhere, Over} /\ delivery[d].call = c
Crowds(c) == uncapped' = uncapped \cup {b \in {c} : \E a \in Calls \ {c} : OnItsWay(a)}

At(c, place) == dial' = [dial EXCEPT ![c] = place]

CheckCap(c) ==
    /\ kind[c] = "lead" /\ dial[c] = "new"
    /\ IF UnderCap THEN At(c, "checked") /\ Crowds(c)
       ELSE At(c, "done") /\ UNCHANGED uncapped
    /\ UNCHANGED <<kind, rows, phone, delivery, registration, inFlight, pending,
                   spoken, twin, callFaults>>

(* Calling hours, the DND list, the caller id or the credentials stop it, or the
   provider does not take it. *)
NotDialled(c) ==
    /\ dial[c] = "checked"
    /\ At(c, "done")
    /\ UNCHANGED <<kind, rows, phone, delivery, registration, inFlight, pending,
                   spoken, uncapped, twin, callFaults>>

InitiateCall(c) ==
    /\ dial[c] = "checked"
    /\ At(c, "dialled")
    /\ phone' = [phone EXCEPT ![c] = "up"]
    /\ UNCHANGED <<kind, rows, delivery, registration, inFlight, pending,
                   spoken, uncapped, twin, callFaults>>

RecordLead(c) ==
    /\ dial[c] = "dialled"
    /\ At(c, "done")
    /\ InsertCall(c)
    /\ UNCHANGED <<kind, phone, delivery, registration, inFlight, pending,
                   spoken, uncapped, twin, callFaults>>

-----------------------------------------------------------------------------
(* register_call: look for the row, insert it when there is none. A room may be
   registered before it is created; its runner looks and inserts in the same way. *)

Looked(c) ==
    \/ \E g \in Registrations : registration[g] = [at |-> "missing", call |-> c]
    \/ \E d \in Deliveries : delivery[d] = [at |-> "missing", call |-> c]
Looks(c) == twin' = twin \cup {b \in {c} : rows[c] = <<>> /\ Looked(c)}

RegisterLooks(g, c) ==
    /\ kind[c] # "lead" /\ registration[g] = Nowhere
    /\ registration' = [registration EXCEPT ![g] =
           IF rows[c] = <<>> THEN [at |-> "missing", call |-> c] ELSE Over]
    /\ Looks(c)
    /\ UNCHANGED <<kind, rows, phone, dial, delivery, inFlight, pending,
                   spoken, uncapped, callFaults>>

(* The cap is not asked. A campaign we do not know is refused by the table. *)
RegisterInserts(g) ==
    /\ registration[g].at = "missing"
    /\ registration' = [registration EXCEPT ![g] = Over]
    /\ \/ /\ InsertCall(registration[g].call)
          /\ uncapped' = uncapped \cup {registration[g].call}
       \/ UNCHANGED <<rows, uncapped>>
    /\ UNCHANGED <<kind, phone, dial, delivery, inFlight, pending,
                   spoken, twin, callFaults>>

(* The phone of a call we do not dial. *)
Rings(c) ==
    /\ kind[c] # "lead" /\ phone[c] = "none"
    /\ phone' = [phone EXCEPT ![c] = "up"]
    /\ UNCHANGED <<kind, rows, dial, delivery, registration, inFlight, pending,
                   spoken, uncapped, twin, callFaults>>

(* The call is over; the bridge of a lead or a registered call has an outcome. *)
HangsUp(c) ==
    /\ phone[c] = "up"
    /\ phone' = [phone EXCEPT ![c] = "over"]
    /\ pending' = IF kind[c] = "room" THEN pending ELSE [pending EXCEPT ![c] = "first"]
    /\ UNCHANGED <<kind, rows, dial, delivery, registration, inFlight,
                   spoken, uncapped, twin, callFaults>>

(* deliver_to_persister swallows a database failure. The same end may be reported
   a second time, with another outcome or with none. *)
HandsOver(c) ==
    \/ /\ pending[c] = "first"
       /\ RecordOutcome(c, "talked")
       /\ pending' = [pending EXCEPT ![c] = "again"]
       /\ UNCHANGED <<kind, phone, dial, delivery, registration, inFlight,
                      uncapped, twin, callFaults>>
    \/ /\ pending[c] = "again"
       /\ \E o \in {"none", "call_failed"} : RecordOutcome(c, o)
       /\ pending' = [pending EXCEPT ![c] = "none"]
       /\ UNCHANGED <<kind, phone, dial, delivery, registration, inFlight,
                      uncapped, twin, callFaults>>

-----------------------------------------------------------------------------
(* livekit_webhook and run_call. *)

Moves(d, place) == delivery' = [delivery EXCEPT ![d].at = place]
Leaves(d) == delivery' = [delivery EXCEPT ![d] = Over]
Counted(d, c) == delivery' = [delivery EXCEPT ![d] = [at |-> "counted", call |-> c]]

(* A SIP participant joined, or LiveKit says so again. Over the cap, nobody joins; when
   the count fails, no call counts as active. *)
Webhook(d, c) ==
    /\ kind[c] = "room" /\ phone[c] # "none" /\ delivery[d] = Nowhere
    /\ \/ /\ UnderCap /\ Counted(d, c)
          /\ Crowds(c) /\ UNCHANGED callFaults
       \/ /\ ~UnderCap /\ Leaves(d)
          /\ UNCHANGED <<uncapped, callFaults>>
       \/ /\ callFaults < MaxCallFaults /\ callFaults' = callFaults + 1
          /\ 0 < Cap /\ Counted(d, c)
          /\ uncapped' = uncapped \cup {c}
    /\ UNCHANGED <<kind, rows, phone, dial, registration, inFlight, pending,
                   spoken, twin>>

ClaimedAlready(c) == FALSE                                   \* a mutant
InFlight(c) == c \in inFlight

ClaimRoom(d) ==
    LET c == delivery[d].call IN
    /\ delivery[d].at = "counted"
    /\ IF InFlight(c) THEN Leaves(d) /\ UNCHANGED inFlight
       ELSE Moves(d, "joining") /\ inFlight' = inFlight \cup {c}
    /\ UNCHANGED <<kind, rows, phone, dial, registration, pending,
                   spoken, uncapped, twin, callFaults>>

(* No credentials, or the room does not open: there is no row to write this to. *)
Connect(d) ==
    /\ delivery[d].at = "joining"
    /\ Moves(d, "connected") \/ Moves(d, "leaving")
    /\ UNCHANGED <<kind, rows, phone, dial, registration, inFlight, pending,
                   spoken, uncapped, twin, callFaults>>

RowMissing(c) == rows[c] = <<>>

EnsureRowLooks(d) ==
    /\ delivery[d].at = "connected"
    /\ Moves(d, IF RowMissing(delivery[d].call) THEN "missing" ELSE "waiting")
    /\ Looks(delivery[d].call)
    /\ UNCHANGED <<kind, rows, phone, dial, registration, inFlight, pending,
                   spoken, uncapped, callFaults>>

(* The call runs without this row if the database fails. *)
EnsureRowInserts(d) ==
    /\ delivery[d].at = "missing"
    /\ Moves(d, "waiting")
    /\ \/ InsertCall(delivery[d].call) /\ UNCHANGED callFaults
       \/ callFaults < MaxCallFaults /\ callFaults' = callFaults + 1 /\ UNCHANGED rows
    /\ UNCHANGED <<kind, phone, dial, registration, inFlight, pending,
                   spoken, uncapped, twin>>

TrackTimesOut(d) ==
    /\ delivery[d].at = "waiting"
    /\ Moves(d, "leaving")
    /\ RecordOutcome(delivery[d].call, "no_answer")
    /\ UNCHANGED <<kind, phone, dial, registration, inFlight, pending,
                   uncapped, twin, callFaults>>

(* The caller's audio is there: mark_answered reads the row. *)
TrackArrives(d) ==
    /\ delivery[d].at = "waiting" /\ phone[delivery[d].call] = "up"
    /\ Moves(d, IF Unanswered(delivery[d].call) THEN "answering" ELSE "building")
    /\ UNCHANGED <<kind, rows, phone, dial, registration, inFlight, pending,
                   spoken, uncapped, twin, callFaults>>

(* The reaper may have ended the row since. The call goes on if the database fails. *)
AnswerWrites(d) ==
    LET c == delivery[d].call IN
    /\ delivery[d].at = "answering"
    /\ Moves(d, "building")
    /\ \/ /\ MarkAnswered(c)
          /\ uncapped' = uncapped \cup {b \in {c} : rows[c][1].status = "ended"}
          /\ UNCHANGED callFaults
       \/ /\ callFaults < MaxCallFaults /\ callFaults' = callFaults + 1
          /\ UNCHANGED <<rows, uncapped>>
    /\ UNCHANGED <<kind, phone, dial, registration, inFlight, pending, spoken, twin>>

BuildBridge(d) ==
    /\ delivery[d].at = "building"
    /\ \/ Moves(d, "bridged") /\ UNCHANGED <<rows, spoken>>
       \/ Moves(d, "leaving") /\ RecordOutcome(delivery[d].call, "call_failed")
    /\ UNCHANGED <<kind, phone, dial, registration, inFlight, pending,
                   uncapped, twin, callFaults>>

(* The bridge ends with the call, and hands its outcome over, unless that fails. *)
BridgeEnds(d) ==
    /\ delivery[d].at = "bridged" /\ phone[delivery[d].call] = "over"
    /\ Moves(d, "leaving")
    /\ \/ RecordOutcome(delivery[d].call, "talked") /\ UNCHANGED callFaults
       \/ callFaults < MaxCallFaults /\ callFaults' = callFaults + 1 /\ UNCHANGED <<rows, spoken>>
    /\ UNCHANGED <<kind, phone, dial, registration, inFlight, pending,
                   uncapped, twin>>

Unclaimed(c) == inFlight \ {c}

Disconnect(d) ==
    /\ delivery[d].at = "leaving"
    /\ Leaves(d)
    /\ inFlight' = Unclaimed(delivery[d].call)
    /\ UNCHANGED <<kind, rows, phone, dial, registration, pending,
                   spoken, uncapped, twin, callFaults>>

(* The process restarts: handlers, runners and outcomes on their way are gone. *)
ProcessRestarts ==
    /\ callFaults < MaxCallFaults
    /\ callFaults' = callFaults + 1
    /\ dial' = [c \in Calls |-> IF dial[c] = "new" THEN "new" ELSE "done"]
    /\ delivery' = [d \in Deliveries |-> IF delivery[d] = Nowhere THEN Nowhere ELSE Over]
    /\ registration' = [g \in Registrations |->
           IF registration[g] = Nowhere THEN Nowhere ELSE Over]
    /\ inFlight' = {}
    /\ pending' = [c \in Calls |-> "none"]
    /\ UNCHANGED <<kind, rows, phone, spoken, uncapped, twin>>

RunnerGoes(d) ==
    \/ ClaimRoom(d) \/ Connect(d) \/ EnsureRowLooks(d) \/ EnsureRowInserts(d)
    \/ TrackTimesOut(d) \/ TrackArrives(d) \/ AnswerWrites(d) \/ BuildBridge(d) \/ BridgeEnds(d)
    \/ Disconnect(d)

CallsNext ==
    \/ \E c \in Calls :
          \/ Grows(c) \/ CheckCap(c) \/ NotDialled(c) \/ InitiateCall(c) \/ RecordLead(c)
          \/ Rings(c) \/ HangsUp(c) \/ HandsOver(c)
          \/ \E g \in Registrations : RegisterLooks(g, c)
          \/ \E d \in Deliveries : Webhook(d, c)
    \/ \E g \in Registrations : RegisterInserts(g)
    \/ \E d \in Deliveries : RunnerGoes(d)
    \/ Reap \/ ProcessRestarts

CallsSpec == CallsInit /\ [][CallsNext]_callVars

(* The reaper's loop comes round, rows grow old, and a runner goes on (its waits have
   timeouts, or end with the call). Calls and requests are left to chance. *)
CallsFairness ==
    /\ WF_callVars(Reap)
    /\ \A c \in Calls : WF_callVars(Grows(c))
    /\ \A d \in Deliveries : WF_callVars(RunnerGoes(d))
CallsFairSpec == CallsSpec /\ CallsFairness

-----------------------------------------------------------------------------
(* Properties. *)

(* However often LiveKit repeats a webhook, two agents of this process never sit in one
   room. Another process has rooms in flight of its own, and would join too. *)
InRoom(d) == delivery[d].at \in {"joining", "connected", "missing", "waiting",
                                 "answering", "building", "bridged", "leaving"}
OneAgentPerRoom ==
    \A d, e \in Deliveries :
        InRoom(d) /\ InRoom(e) /\ delivery[d].call = delivery[e].call => d = e

(* A call that ended is not active again, although a repeated webhook joins its room and
   marks it answered a second time. The exception: the reaper ends the row, by then old,
   while its first answer is between its read and its write. *)
EndedStaysEnded ==
    [][\A c \in Calls : \A i \in RowsOf(c) :
          rows[c][i].status = "ended" =>
             \/ rows'[c][i].status = "ended"
             \/ rows[c][i].old /\ \E d \in Deliveries :
                    AnswerWrites(d) /\ delivery[d].call = c]_callVars

(* However often its runner comes back or its end is reported, a call has one row,
   and the last outcome reported is in it: neither the reaper, before it or after, nor
   a report without an outcome, loses it. A call has a second row only if two looked for
   its row before either inserted it: two registrations, or one and the room's runner. *)
OneRecord ==
    \A c \in Calls :
        /\ Len(rows[c]) > 1 => c \in twin
        /\ Len(rows[c]) = 1 => rows[c][1].outcome = spoken[c]

(* The cap holds, but for the calls that came in past it, each of them on its own
   account: the CRM registered it (which asks for no room under the cap), it passed the
   check while another call was on its way or ran without a row, its count failed, or its
   answer undid a reaping. None of them lets in another call. *)
CapHeld ==
    Cardinality({c \in Calls \ uncapped : \E i \in RowsOf(c) : rows[c][i].status # "ended"})
        <= Cap

(* No row stays active for ever, whatever was lost with the process. *)
EveryCallCloses ==
    \A c \in Calls :
        c \in ActiveCalls ~> c \notin ActiveCalls

=============================================================================
