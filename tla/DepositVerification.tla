------------------------ MODULE DepositVerification ------------------------
(***************************************************************************)
(* Deposit verification (chatbot/deposit_verification.py,                  *)
(* api/deposit_verification.py and the timers of api/chat.py).             *)
(*                                                                         *)
(* The bot submits a customer's disputed deposit to an outside vendor: a   *)
(* row is written as pending, the vendor is called, and a timer is armed.  *)
(* One kind of vendor answers with a verdict, the other relays messages of *)
(* its payments team, each of which pushes the deadline out up to a        *)
(* ceiling. A request still pending at its deadline hands the session to a *)
(* human. The row and the session's mode are read and written by all of    *)
(* them without a lock; only the timeout claims the row atomically.        *)
(*                                                                         *)
(* Screenshots, amounts and dates are not modelled: the cross-check agrees *)
(* or refuses. A vendor's message is one of Bodies.                        *)
(***************************************************************************)
EXTENDS Integers, Sequences

CONSTANTS
    Requests,     \* submissions by the bot; each makes at most one row
    Callbacks,    \* verdict deliveries by the vendor, numbered in the order of their arrival
    Relays,       \* message deliveries by the vendor, numbered likewise
    Bodies,       \* messages the vendor's payments team writes
    Statement,    \* the body that asks for a bank statement
    Checks,       \* slots for the _check_and_timeout_verification calls in flight
    Timeout,      \* timeout_minutes
    Multiplier,   \* _MAX_TOTAL_RELAY_TIMEOUT_MULTIPLIER
    Patient,      \* TRUE: the vendor sends nothing while a call of its own is unanswered
    PerOrder,     \* _MAX_RELAYS_PER_ORDER
    SigHistory,   \* _MAX_RELAY_SIG_HISTORY
    MaxNow,       \* bound: the clock, which goes on after it only for armed timers
    MaxFaults     \* bound: process restarts, and times the tenant cannot be resolved

ASSUME TimesAssumption == Timeout \in Nat \ {0} /\ Multiplier \in Nat \ {0}
ASSUME CapsAssumption == PerOrder \in Nat /\ SigHistory \in Nat /\ PerOrder <= SigHistory
ASSUME CallsAssumption == Callbacks \subseteq Nat /\ Relays \subseteq Nat /\ Checks \subseteq Nat
ASSUME BoundsAssumption == Patient \in BOOLEAN /\ MaxNow \in Nat /\ MaxFaults \in Nat

VARIABLES
    contract,     \* the tenant's contract: "verdict" or "relay"
    now,
    \* the deposit_verification_requests rows
    status, created, deadline, sigs,
    attempt,      \* where the bot's submission is
    asked,        \* requests that reached the vendor
    armed,        \* wake-up times of the sleeping timers
    check, callback, relay,
    \* the chat_sessions row
    mode, live,
    \* ghosts
    told,         \* verdicts pushed to the customer, per request
    shown,        \* how often each body was committed, to be pushed to the customer
    handoffs,     \* timeouts that escalated, per request
    faults

row == <<status, created, deadline, sigs>>
session == <<mode, live>>
said == <<told, shown>>
vars == <<contract, now, row, attempt, asked, armed, check, callback,
          relay, session, said, handoffs, faults>>

Verdicts == {"verified", "rejected"}
(* "bot" stands for a new session's "ai" too. *)
Modes == {"bot", "awaiting_human", "human", "closed"}
Handed == {"awaiting_human", "human"}
Attempts == {"idle", "checking", "created", "posting", "failing", "submitted", "over"}

(* A request is submitted while the vendor's calls can still reach its ceiling. *)
LastSubmission == MaxNow - Multiplier * Timeout

Idle == [at |-> "idle"]
Done == [at |-> "done"]

(* The next of the calls, or the slot, to be taken. *)
IsNext(calls, d) == calls[d] = Idle /\ \A e \in DOMAIN calls : calls[e] = Idle => d <= e

CheckStates ==
    {Idle} \cup [at : {"looked", "claimed", "decided", "notifying"}, req : Requests,
                 seen : Nat, raced : BOOLEAN]
CallbackStates == {Idle, Done} \cup [at : {"looked"}, req : Requests, verdict : Verdicts]
RelayStates ==
    {Idle, Done}
    \cup [at : {"looked"}, req : Requests, body : Bodies, sigs : Seq(Bodies), seen : Nat,
          handed : BOOLEAN]
    \cup [at : {"escalating", "notifying", "rearming"}, req : Requests]

DepositTypeOK ==
    /\ contract \in {"verdict", "relay"} /\ now \in Nat
    /\ status \in [Requests -> {"none", "pending", "timed_out", "error"} \cup Verdicts]
    /\ created \in [Requests -> Nat] /\ deadline \in [Requests -> Nat]
    /\ sigs \in [Requests -> Seq(Bodies)]
    /\ attempt \in [Requests -> Attempts]
    /\ asked \subseteq Requests
    /\ armed \in [Requests -> SUBSET Nat]
    /\ check \in [Checks -> CheckStates]
    /\ callback \in [Callbacks -> CallbackStates]
    /\ relay \in [Relays -> RelayStates]
    /\ mode \in Modes /\ live \in BOOLEAN
    /\ told \in [Requests -> Seq(Verdicts)]
    /\ shown \in [Bodies -> Nat]
    /\ handoffs \in [Requests -> Nat]
    /\ faults \in Nat

Init ==
    /\ contract \in {"verdict", "relay"} /\ now = 0
    /\ status = [r \in Requests |-> "none"]
    /\ created = [r \in Requests |-> 0] /\ deadline = [r \in Requests |-> 0]
    /\ sigs = [r \in Requests |-> <<>>]
    /\ attempt = [r \in Requests |-> "idle"]
    /\ asked = {}
    /\ armed = [r \in Requests |-> {}]
    /\ check = [k \in Checks |-> Idle]
    /\ callback = [d \in Callbacks |-> Idle]
    /\ relay = [d \in Relays |-> Idle]
    /\ mode = "bot" /\ live = TRUE
    /\ told = [r \in Requests |-> <<>>]
    /\ shown = [b \in Bodies |-> 0]
    /\ handoffs = [r \in Requests |-> 0]
    /\ faults = 0

Tick ==
    /\ now < MaxNow \/ \E r \in Requests : \E t \in armed[r] : now < t
    /\ now' = now + 1
    /\ UNCHANGED <<contract, row, attempt, asked, armed, check, callback,
                   relay, session, said, handoffs, faults>>

-----------------------------------------------------------------------------
(* submit_deposit_verification. *)

Goes(r, place) == attempt' = [attempt EXCEPT ![r] = place]
Writes(r, s) == status' = [status EXCEPT ![r] = s]

(* No other request of the session is pending; or the submission is refused. *)
Submit(r) ==
    /\ attempt[r] = "idle" /\ live /\ now <= LastSubmission
    /\ Goes(r, IF \E q \in Requests : status[q] = "pending" THEN "over" ELSE "checking")
    /\ UNCHANGED <<contract, now, row, asked, armed, check, callback, relay,
                   session, said, handoffs, faults>>

(* The cross-check, or the time it took, refuses, or the turn is cut: no row. *)
CrossCheckRefuses(r) ==
    /\ attempt[r] = "checking"
    /\ Goes(r, "over")
    /\ UNCHANGED <<contract, now, row, asked, armed, check, callback, relay,
                   session, said, handoffs, faults>>

CreateRow(r) ==
    /\ attempt[r] = "checking" /\ now <= LastSubmission
    /\ Goes(r, "created")
    /\ Writes(r, "pending")
    /\ created' = [created EXCEPT ![r] = now]
    /\ deadline' = [deadline EXCEPT ![r] = now + Timeout]
    /\ UNCHANGED <<contract, now, sigs, asked, armed, check, callback, relay,
                   session, said, handoffs, faults>>

(* The request leaves; the vendor may answer it before the response is read. *)
Post(r) ==
    /\ attempt[r] = "created"
    /\ Goes(r, "posting")
    /\ asked' \in {asked, asked \cup {r}}
    /\ UNCHANGED <<contract, now, row, armed, check, callback, relay,
                   session, said, handoffs, faults>>

ArmedFor(r) == armed' = [armed EXCEPT ![r] = @ \cup {now + Timeout}]

Submitted(r) ==
    /\ attempt[r] = "posting" /\ r \in asked
    /\ Goes(r, "submitted")
    /\ ArmedFor(r)
    /\ UNCHANGED <<contract, now, row, asked, check, callback, relay,
                   session, said, handoffs, faults>>

(* _mark_error: no usable URL, too little time, or no good answer from the vendor.
   The row is read here and written by MarkError. *)
PostFails(r) ==
    /\ attempt[r] \in {"created", "posting"}
    /\ Goes(r, IF status[r] = "pending" THEN "failing" ELSE "over")
    /\ UNCHANGED <<contract, now, row, asked, armed, check, callback, relay,
                   session, said, handoffs, faults>>

MarkError(r) ==
    /\ attempt[r] = "failing"
    /\ Goes(r, "over")
    /\ Writes(r, "error")
    /\ UNCHANGED <<contract, now, created, deadline, sigs, asked, armed, check,
                   callback, relay, session, said, handoffs, faults>>

(* The turn's tool budget cancels the submission after its row was written. *)
Cut(r) ==
    /\ attempt[r] \in {"created", "posting", "failing"}
    /\ Goes(r, "over")
    /\ UNCHANGED <<contract, now, row, asked, armed, check, callback, relay,
                   session, said, handoffs, faults>>

-----------------------------------------------------------------------------
(* deposit_verification_callback. A call that is turned down by its signature,
   its order or the tenant's settings changes nothing and is not modelled. *)

Unanswered(calls) == \E d \in DOMAIN calls : calls[d].at \notin {"idle", "done"}
MaySend == Patient => ~Unanswered(callback) /\ ~Unanswered(relay)

AnyRow(r) == TRUE                                            \* a mutant
StillPending(r) == status[r] = "pending"

CallbackArrives(d, r, v) ==
    /\ contract = "verdict" /\ MaySend
    /\ IsNext(callback, d) /\ r \in asked
    /\ callback' = [callback EXCEPT ![d] =
           IF StillPending(r) THEN [at |-> "looked", req |-> r, verdict |-> v] ELSE Done]
    /\ UNCHANGED <<contract, now, row, attempt, asked, armed, check, relay,
                   session, said, handoffs, faults>>

(* The row is committed, and then the verdict is pushed: push_async_message may fail
   and is not tried again, nor is the push when the process dies before it. *)
CallbackCommits(d) ==
    LET h == callback[d] IN
    /\ h.at = "looked"
    /\ callback' = [callback EXCEPT ![d] = Done]
    /\ Writes(h.req, h.verdict)
    /\ told' \in {told, [told EXCEPT ![h.req] = Append(@, h.verdict)]}
    /\ UNCHANGED <<contract, now, created, deadline, sigs, attempt, asked, armed,
                   check, relay, session, shown, handoffs, faults>>

-----------------------------------------------------------------------------
(* deposit_ticket_reply. *)

Newest(r) == \A q \in Requests : status[q] # "none" => created[q] <= created[r]
Earliest(a, b) == IF a < b THEN a ELSE b

SessionIsLive == live /\ mode # "closed"

LastOf(s, n) == IF Len(s) <= n THEN s ELSE SubSeq(s, Len(s) - n + 1, Len(s))
Remembered(s, b) == LastOf(Append(s, b), SigHistory)

Has(s, b) == \E i \in DOMAIN s : s[i] = b

(* The row, the session and the time are read; what the handler does with them is
   decided here, except the window of the rate limit, which may turn away any
   message but the order's first. *)
RelayArrives(d, r, b) ==
    /\ contract = "relay" /\ MaySend
    /\ IsNext(relay, d)
    /\ asked # {} /\ status[r] # "none" /\ Newest(r)
    /\ now <= MaxNow
    /\ LET accepted == SessionIsLive /\ ~Has(sigs[r], b) /\ Len(sigs[r]) < PerOrder
       IN \/ /\ accepted
             /\ relay' = [relay EXCEPT ![d] =
                    [at |-> "looked", req |-> r, body |-> b, sigs |-> sigs[r],
                     seen |-> now, handed |-> mode \in Handed]]
          \/ /\ ~accepted \/ sigs[r] # <<>>
             /\ relay' = [relay EXCEPT ![d] = Done]
    /\ UNCHANGED <<contract, now, row, attempt, asked, armed, check,
                   callback, session, said, handoffs, faults>>

(* The whole payload is written back, the deadline slides up to the ceiling, and the
   message is pushed. A request for a bank statement then hands the session over,
   unless the session row read on arrival said it had been already. *)
RelayCommits(d) ==
    LET h == relay[d] IN
    /\ h.at = "looked"
    /\ sigs' = [sigs EXCEPT ![h.req] = Remembered(h.sigs, h.body)]
    /\ deadline' = [deadline EXCEPT ![h.req] =
           Earliest(h.seen + Timeout, created[h.req] + Timeout * Multiplier)]
    /\ shown' = [shown EXCEPT ![h.body] = @ + 1]
    /\ relay' = [relay EXCEPT ![d] =
           [at |-> IF h.body = Statement /\ ~h.handed THEN "escalating"
                                                                ELSE "rearming",
            req |-> h.req]]
    /\ UNCHANGED <<contract, now, status, created, attempt, asked, armed, check,
                   callback, session, told, handoffs, faults>>

(* _escalate_session, up to the webhook and from its answer. *)
Forgotten == mode' \in {mode, "none"} /\ UNCHANGED live       \* a mutant
Escalates == mode' = "awaiting_human" /\ UNCHANGED live
EscalationAnswered == mode' \in {mode, "bot"} /\ UNCHANGED live

RelayEscalates(d) ==
    /\ relay[d].at = "escalating"
    /\ relay' = [relay EXCEPT ![d].at = "notifying"]
    /\ Escalates
    /\ UNCHANGED <<contract, now, row, attempt, asked, armed, check,
                   callback, said, handoffs, faults>>

RelayNotified(d) ==
    /\ relay[d].at = "notifying"
    /\ relay' = [relay EXCEPT ![d].at = "rearming"]
    /\ EscalationAnswered
    /\ UNCHANGED <<contract, now, row, attempt, asked, armed, check,
                   callback, said, handoffs, faults>>

NoNewTimer(r) == UNCHANGED armed                             \* a mutant
Rearmed(r) == ArmedFor(r)

RelayRearms(d) ==
    /\ relay[d].at = "rearming"
    /\ relay' = [relay EXCEPT ![d] = Done]
    /\ Rearmed(relay[d].req)
    /\ UNCHANGED <<contract, now, row, attempt, asked, check, callback,
                   session, said, handoffs, faults>>

-----------------------------------------------------------------------------
(* The timers, the sweep of a returning customer, and _check_and_timeout_verification. *)

Due(r) == status[r] = "pending" /\ now >= deadline[r]

Looks(k, r) ==
    check' = [check EXCEPT ![k] =
        IF Due(r) THEN [at |-> "looked", req |-> r, seen |-> now, raced |-> FALSE] ELSE Idle]

TimerFires(k, r, t) ==
    /\ IsNext(check, k)
    /\ t \in armed[r] /\ now >= t
    /\ armed' = [armed EXCEPT ![r] = @ \ {t}]
    /\ Looks(k, r)
    /\ UNCHANGED <<contract, now, row, attempt, asked, callback, relay,
                   session, said, handoffs, faults>>

(* A customer connects: chat_websocket looks at the overdue requests before the
   connection enters a loop. *)
SweepChecks(k, r) ==
    /\ IsNext(check, k)
    /\ status[r] = "pending" /\ deadline[r] < now
    /\ Looks(k, r)
    /\ UNCHANGED <<contract, now, row, attempt, asked, armed, callback, relay, session,
                   said, handoffs, faults>>

(* The tenant or the session cannot be resolved: the row stays pending. *)
CheckMeetsOutage(k) ==
    /\ check[k].at = "looked" /\ faults < MaxFaults
    /\ faults' = faults + 1
    /\ check' = [check EXCEPT ![k] = Idle]
    /\ UNCHANGED <<contract, now, row, attempt, asked, armed, callback,
                   relay, session, said, handoffs>>

(* The conditional UPDATE: still pending, and still overdue at the time first read. *)
ClaimsAny(k) == TRUE                                         \* a mutant
ClaimsPending(k) == status[check[k].req] = "pending"         \* a mutant
Claims(k) == status[check[k].req] = "pending" /\ deadline[check[k].req] <= check[k].seen

CheckClaims(k) ==
    /\ check[k].at = "looked"
    /\ IF Claims(k)
       THEN /\ Writes(check[k].req, "timed_out")
            /\ check' = [check EXCEPT ![k].at = "claimed"]
       ELSE check' = [check EXCEPT ![k] = Idle] /\ UNCHANGED status
    /\ UNCHANGED <<contract, now, created, deadline, sigs, attempt, asked, armed,
                   callback, relay, session, said, handoffs, faults>>

(* The mode is read again: nothing more to do when a human has the session. *)
HandedWhenRead == FALSE                                      \* a mutant
HandedNow == mode \in Handed

CheckReadsMode(k) ==
    /\ check[k].at = "claimed"
    /\ check' = [check EXCEPT ![k] = IF HandedNow THEN Idle ELSE [@ EXCEPT !.at = "decided"]]
    /\ UNCHANGED <<contract, now, row, attempt, asked, armed, callback,
                   relay, session, said, handoffs, faults>>

CheckEscalates(k) ==
    /\ check[k].at = "decided"
    /\ check' = [check EXCEPT ![k].at = "notifying"]
    /\ Escalates
    /\ handoffs' = [handoffs EXCEPT ![check[k].req] = @ + 1]
    /\ UNCHANGED <<contract, now, row, attempt, asked, armed, callback,
                   relay, said, faults>>

CheckNotified(k) ==
    /\ check[k].at = "notifying"
    /\ check' = [check EXCEPT ![k] = Idle]
    /\ EscalationAnswered
    /\ UNCHANGED <<contract, now, row, attempt, asked, armed, callback,
                   relay, said, handoffs, faults>>

-----------------------------------------------------------------------------
(* The rest of the session (module ChatHandover), as far as the mode goes. *)

(* An agent claims it; ghost: the checks that had read the mode before. *)
AgentClaims ==
    /\ mode = "awaiting_human"
    /\ mode' = "human"
    /\ check' = [k \in Checks |->
           IF check[k].at = "decided" THEN [check[k] EXCEPT !.raced = TRUE] ELSE check[k]]
    /\ UNCHANGED <<contract, now, row, attempt, asked, armed, callback,
                   relay, live, said, handoffs, faults>>

(* A turn of the bot escalates, or nobody claims the session in time. *)
ModeChanges ==
    /\ \/ mode = "bot" /\ live /\ mode' = "awaiting_human"
       \/ mode = "awaiting_human" /\ mode' = "bot"
    /\ UNCHANGED <<contract, now, row, attempt, asked, armed, check, callback,
                   relay, live, said, handoffs, faults>>

SessionEnds ==
    /\ live
    /\ mode' = "closed" /\ live' = FALSE
    /\ UNCHANGED <<contract, now, row, attempt, asked, armed, check, callback,
                   relay, said, handoffs, faults>>

(* The process restarts: its timers and handlers are gone, the rows stay. The
   vendor's calls in flight end unanswered. *)
Restart ==
    /\ faults < MaxFaults
    /\ faults' = faults + 1
    /\ armed' = [r \in Requests |-> {}]
    /\ check' = [k \in Checks |-> Idle]
    /\ callback' = [d \in Callbacks |->
           IF callback[d] = Idle THEN Idle ELSE Done]
    /\ relay' = [d \in Relays |->
           IF relay[d] = Idle THEN Idle ELSE Done]
    /\ attempt' = [r \in Requests |->
           IF attempt[r] \in {"checking", "created", "posting", "failing"}
           THEN "over" ELSE attempt[r]]
    /\ UNCHANGED <<contract, now, row, asked, session, said, handoffs>>

CheckSteps(k) == CheckClaims(k) \/ CheckReadsMode(k) \/ CheckEscalates(k) \/ CheckNotified(k)
RelaySteps(d) ==
    RelayCommits(d) \/ RelayEscalates(d) \/ RelayNotified(d) \/ RelayRearms(d)

Next ==
    \/ Tick
    \/ \E r \in Requests :
          \/ Submit(r) \/ CrossCheckRefuses(r) \/ CreateRow(r) \/ Post(r) \/ Submitted(r)
          \/ PostFails(r) \/ MarkError(r) \/ Cut(r)
          \/ \E d \in Callbacks, v \in Verdicts : CallbackArrives(d, r, v)
          \/ \E d \in Relays, b \in Bodies : RelayArrives(d, r, b)
          \/ \E k \in Checks : SweepChecks(k, r) \/ \E t \in armed[r] : TimerFires(k, r, t)
    \/ \E d \in Callbacks : CallbackCommits(d)
    \/ \E d \in Relays : RelaySteps(d)
    \/ \E k \in Checks : CheckMeetsOutage(k) \/ CheckSteps(k)
    \/ AgentClaims \/ ModeChanges \/ SessionEnds \/ Restart

Spec == Init /\ [][Next]_vars

(* Time passes, a sleeping timer wakes, and a coroutine that runs goes on. The
   vendor, the customer, the agents and the bot's turns owe nothing. *)
TimerWakes(r) == \E k \in Checks, t \in armed[r] : TimerFires(k, r, t)
DepositFairness ==
    /\ WF_vars(Tick)
    /\ \A r \in Requests : SF_vars(TimerWakes(r))
    /\ \A k \in Checks : WF_vars(CheckSteps(k))
    /\ \A d \in Relays : WF_vars(RelaySteps(d))
FairSpec == Spec /\ DepositFairness

-----------------------------------------------------------------------------
(* Properties. *)

(* A request times out only if nothing else has settled it, and only past its
   deadline as it is then: a verdict, a failed submission or a message of the vendor
   that slid the deadline wins, also against a timer that had found the request overdue
   before. *)
DueStep ==
    \A r \in Requests :
        status[r] # "timed_out" /\ status'[r] = "timed_out"
            => status[r] \notin Verdicts \cup {"error"} /\ now >= deadline[r]

(* A timeout takes the session from an agent only if the agent claimed it after
   the timeout had last read the mode. *)
SeatedStep ==
    \A k \in Checks :
        mode = "human" /\ check[k].at = "decided" /\ check'[k].at = "notifying"
            => check[k].raced

(* A timeout is just: of a request that is due, and over the head of no agent it could
   have seen (DueStep and SeatedStep). *)
TimeoutsJust == [][DueStep /\ SeatedStep]_vars

(* However many timers and sweeps are after it, a request hands its session to a
   human at most once. *)
OneHandoff == \A r \in Requests : handoffs[r] <= 1

(* A vendor that waits for each answer tells the customer one verdict per request,
   and no message of an order twice, whatever it repeats and whatever restarts come
   between. *)
ToldOnce ==
    Patient =>
        /\ \A r \in Requests : Len(told[r]) <= 1
        /\ (\A q, r \in Requests : q = r) => \A b \in Bodies : shown[b] <= 1

(* The vendor cannot hold a customer with messages for ever: a submitted request
   is settled or handed over, unless a restart or an outage took its timer. *)
SubmittedIsSettled ==
    \A r \in Requests :
        status[r] = "pending" /\ attempt[r] = "submitted"
            ~> status[r] # "pending" \/ faults > 0
=============================================================================
