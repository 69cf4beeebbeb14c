--------------------------- MODULE ChatWorkProofs ----------------------------
(* Proofs about DepositVerification, for any requests, vendor's calls and timers, and about
   ChatTurn, for any tools, categories and limits; and about the two of them as MCChatWork
   has them. *)
EXTENDS MCChatWork, FiniteSetTheorems, SequenceTheorems, TLAPS

(* DepositVerification. *)

(* The type invariant, a group of variables at a time. *)
RowOK ==
    /\ status \in [Requests -> {"none", "pending", "timed_out", "error"} \cup Verdicts]
    /\ created \in [Requests -> Nat] /\ deadline \in [Requests -> Nat]
    /\ sigs \in [Requests -> Seq(Bodies)]
BotOK ==
    /\ attempt \in [Requests -> Attempts]
    /\ asked \subseteq Requests
    /\ armed \in [Requests -> SUBSET Nat]
CallsOK ==
    /\ check \in [Checks -> CheckStates]
    /\ callback \in [Callbacks -> CallbackStates]
    /\ relay \in [Relays -> RelayStates]
RestOK ==
    /\ contract \in {"verdict", "relay"} /\ now \in Nat
    /\ mode \in Modes /\ live \in BOOLEAN
    /\ told \in [Requests -> Seq(Verdicts)]
    /\ shown \in [Bodies -> Nat]
    /\ handoffs \in [Requests -> Nat]
    /\ faults \in Nat

LEMMA TypeSplit == DepositTypeOK <=> RowOK /\ BotOK /\ CallsOK /\ RestOK
BY DEF DepositTypeOK, RowOK, BotOK, CallsOK, RestOK

LEMMA TypeSplitPrimed == DepositTypeOK' <=> RowOK' /\ BotOK' /\ CallsOK' /\ RestOK'
BY TypeSplit, PTL

-----------------------------------------------------------------------------
(* The records of the calls in flight. *)

LEMMA CheckRecord ==
    /\ Idle \in CheckStates /\ Idle.at = "idle"
    /\ \A r \in Requests, t \in Nat, b \in BOOLEAN :
           [at |-> "looked", req |-> r, seen |-> t, raced |-> b] \in CheckStates
    /\ \A h \in CheckStates : h.at # "idle" =>
           /\ h.at \in {"looked", "claimed", "decided", "notifying"}
           /\ h.req \in Requests /\ h.seen \in Nat /\ h.raced \in BOOLEAN
BY DEF CheckStates, Idle

(* A check goes on: only where it is changes. *)
LEMMA CheckMoves ==
    ASSUME NEW h \in CheckStates, h.at # "idle", NEW p \in {"looked", "claimed", "decided",
    "notifying"}
    PROVE  LET g == [h EXCEPT !.at = p]
           IN g \in CheckStates /\ g.at = p /\ g.req = h.req /\ g.seen = h.seen /\ g.raced = h.raced
BY DEF CheckStates, Idle

LEMMA CheckRaces ==
    ASSUME NEW h \in CheckStates, h.at # "idle"
    PROVE  LET g == [h EXCEPT !.raced = TRUE]
           IN g \in CheckStates /\ g.at = h.at /\ g.req = h.req /\ g.seen = h.seen /\ g.raced = TRUE
<1>1. h \in [at : {"looked", "claimed", "decided", "notifying"}, req : Requests, seen : Nat,
raced : BOOLEAN]
  BY DEF CheckStates, Idle
<1>2. ASSUME NEW b \in BOOLEAN
      PROVE  LET g == [h EXCEPT !.raced = b]
             IN g \in CheckStates /\ g.at = h.at /\ g.req = h.req /\ g.seen = h.seen /\ g.raced = b
  BY <1>1 DEF CheckStates
<1>. QED BY <1>2

LEMMA CallbackRecord ==
    /\ {Idle, Done} \subseteq CallbackStates /\ Idle.at = "idle" /\ Done.at = "done" /\ Idle # Done
    /\ \A r \in Requests, v \in Verdicts : [at |-> "looked", req |-> r, verdict |-> v] \in CallbackStates
    /\ \A h \in CallbackStates : h.at = "looked" => h.req \in Requests /\ h.verdict \in Verdicts
BY DEF CallbackStates, Idle, Done

LEMMA RelayRecord ==
    /\ {Idle, Done} \subseteq RelayStates
    /\ \A r \in Requests, b \in Bodies, s \in Seq(Bodies), t \in Nat, x \in BOOLEAN :
           [at |-> "looked", req |-> r, body |-> b, sigs |-> s, seen |-> t, handed |-> x] \in RelayStates
    /\ \A r \in Requests, p \in {"escalating", "notifying", "rearming"} : [at |-> p, req |-> r] \in RelayStates
    /\ \A h \in RelayStates : h.at = "looked" =>
           /\ h.req \in Requests /\ h.body \in Bodies /\ h.sigs \in Seq(Bodies) /\ h.seen \in Nat
           /\ h.handed \in BOOLEAN
BY DEF RelayStates, Idle, Done

LEMMA RelayMoves ==
    ASSUME NEW h \in RelayStates, h.at \in {"escalating", "notifying", "rearming"},
           NEW p \in {"escalating", "notifying", "rearming"}
    PROVE  LET g == [h EXCEPT !.at = p]
           IN g \in RelayStates /\ g.at = p /\ h.req \in Requests
BY DEF RelayStates, Idle, Done

LEMMA LooksType ==
    ASSUME CallsOK, RestOK, NEW k \in Checks, NEW r \in Requests, Looks(k, r)
    PROVE  check' \in [Checks -> CheckStates]
<1>1. FALSE \in BOOLEAN /\ now \in Nat
  BY DEF RestOK
<1>2. [at |-> "looked", req |-> r, seen |-> now,
raced |-> FALSE] \in CheckStates /\ Idle \in CheckStates
  BY <1>1, CheckRecord
<1>. QED BY <1>2 DEF Looks, CallsOK

(* What a check in flight may turn into. *)
LEMMA CheckStepType ==
    ASSUME CallsOK, NEW k \in Checks, check[k].at # "idle",
           \/ \E p \in {"looked", "claimed", "decided", "notifying"} :
                  check' = [check EXCEPT ![k] = [@ EXCEPT !.at = p]]
           \/ check' = [check EXCEPT ![k] = Idle]
    PROVE  check' \in [Checks -> CheckStates]
<1>. check[k] \in CheckStates
  BY DEF CallsOK
<1>1. \A p \in {"looked", "claimed", "decided",
"notifying"} : [check[k] EXCEPT !.at = p] \in CheckStates
  BY CheckMoves
<1>2. Idle \in CheckStates
  BY CheckRecord
<1>. QED BY <1>1, <1>2 DEF CallsOK

LEMMA CallbackDone ==
    ASSUME CallsOK, NEW d \in Callbacks, callback' = [callback EXCEPT ![d] = Done]
    PROVE  callback' \in [Callbacks -> CallbackStates]
BY CallbackRecord DEF CallsOK

LEMMA RelayDone ==
    ASSUME CallsOK, NEW d \in Relays, relay' = [relay EXCEPT ![d] = Done]
    PROVE  relay' \in [Relays -> RelayStates]
BY RelayRecord DEF CallsOK

LEMMA RelayStepType ==
    ASSUME CallsOK, NEW d \in Relays, relay[d].at \in {"escalating", "notifying", "rearming"},
           NEW p \in {"escalating", "notifying", "rearming"},
           relay' = [relay EXCEPT ![d] = [@ EXCEPT !.at = p]]
    PROVE  relay' \in [Relays -> RelayStates]
BY RelayMoves DEF CallsOK

(* A call in flight is about a request. *)
LEMMA CallFields ==
    ASSUME CallsOK
    PROVE  /\ \A k \in Checks : check[k].at # "idle" =>
                  /\ check[k].at \in {"looked", "claimed", "decided", "notifying"}
                  /\ check[k].req \in Requests /\ check[k].seen \in Nat /\ check[k].raced \in BOOLEAN
           /\ \A d \in Callbacks : callback[d].at = "looked" =>
                  callback[d].req \in Requests /\ callback[d].verdict \in Verdicts
           /\ \A d \in Relays : relay[d].at = "looked" =>
                  /\ relay[d].req \in Requests /\ relay[d].body \in Bodies
                  /\ relay[d].sigs \in Seq(Bodies) /\ relay[d].seen \in Nat
BY CheckRecord, CallbackRecord, RelayRecord DEF CallsOK

LEMMA RelayReq ==
    ASSUME CallsOK, NEW d \in Relays, relay[d].at \in {"escalating", "notifying", "rearming"}
    PROVE  relay[d].req \in Requests
BY RelayMoves DEF CallsOK

LEMMA RememberedType ==
    ASSUME NEW s \in Seq(Bodies), NEW b \in Bodies
    PROVE  Remembered(s, b) \in Seq(Bodies)
<1>. DEFINE t == Append(s, b)
<1>1. t \in Seq(Bodies) /\ Len(t) \in Nat
  OBVIOUS
<1>. HIDE DEF t
<1>2. CASE Len(t) > SigHistory
  <2>1. Len(t) - SigHistory + 1 \in 1 .. Len(t) + 1
    BY <1>1, <1>2, CapsAssumption
  <2>2. SubSeq(t, Len(t) - SigHistory + 1, Len(t)) \in Seq(Bodies)
    BY <1>1, <2>1
  <2>. QED BY <1>2, <1>1, <2>2, CapsAssumption DEF Remembered, LastOf, t
<1>. QED BY <1>1, <1>2, CapsAssumption DEF Remembered, LastOf, t

-----------------------------------------------------------------------------
(* The type invariant is kept. *)

LEMMA RowOKKept == DepositTypeOK /\ [Next]_vars => RowOK'
<1>. SUFFICES ASSUME DepositTypeOK, [Next]_vars PROVE RowOK'
  OBVIOUS
<1>. RowOK /\ BotOK /\ CallsOK /\ RestOK
  BY TypeSplit
<1>. USE DEF RowOK, RestOK, CallsOK, row, session, said
<1>1. CASE Tick
  BY <1>1 DEF Tick
<1>2. ASSUME NEW r \in Requests, Submit(r) PROVE RowOK'
  BY <1>2 DEF Submit, Goes
<1>3. ASSUME NEW r \in Requests, CrossCheckRefuses(r) PROVE RowOK'
  BY <1>3 DEF CrossCheckRefuses, Goes
<1>4. ASSUME NEW r \in Requests, CreateRow(r) PROVE RowOK'
  <2>1. now + Timeout \in Nat
    BY TimesAssumption
  <2>. QED BY <1>4, <2>1 DEF CreateRow, Writes
<1>5. ASSUME NEW r \in Requests, Post(r) PROVE RowOK'
  BY <1>5 DEF Post, Goes
<1>6. ASSUME NEW r \in Requests, Submitted(r) PROVE RowOK'
  BY <1>6 DEF Submitted, Goes, ArmedFor
<1>7. ASSUME NEW r \in Requests, PostFails(r) PROVE RowOK'
  BY <1>7 DEF PostFails, Goes
<1>8. ASSUME NEW r \in Requests, MarkError(r) PROVE RowOK'
  BY <1>8 DEF MarkError, Goes, Writes
<1>9. ASSUME NEW r \in Requests, Cut(r) PROVE RowOK'
  BY <1>9 DEF Cut, Goes
<1>10. ASSUME NEW d \in Callbacks, NEW r \in Requests, NEW v \in Verdicts, CallbackArrives(d, r,
v) PROVE RowOK'
  BY <1>10 DEF CallbackArrives, StillPending
<1>11. ASSUME NEW d \in Relays, NEW r \in Requests, NEW b \in Bodies, RelayArrives(d, r,
b) PROVE RowOK'
  BY <1>11 DEF RelayArrives
<1>12. ASSUME NEW k \in Checks, NEW r \in Requests, SweepChecks(k, r) PROVE RowOK'
  BY <1>12 DEF SweepChecks, Looks
<1>13. ASSUME NEW k \in Checks, NEW r \in Requests, NEW t \in armed[r], TimerFires(k, r,
t) PROVE RowOK'
  BY <1>13 DEF TimerFires, Looks
<1>14. ASSUME NEW d \in Callbacks, CallbackCommits(d) PROVE RowOK'
  <2>1. callback[d].verdict \in Verdicts
    BY <1>14, CallFields DEF CallbackCommits
  <2>. QED BY <1>14, <2>1 DEF CallbackCommits, Writes
<1>15. ASSUME NEW d \in Relays, RelayCommits(d) PROVE RowOK'
  <2>1. /\ relay[d].req \in Requests /\ relay[d].body \in Bodies
        /\ relay[d].sigs \in Seq(Bodies) /\ relay[d].seen \in Nat
    BY <1>15, CallFields DEF RelayCommits
  <2>2. Remembered(relay[d].sigs, relay[d].body) \in Seq(Bodies)
    BY <2>1, RememberedType
  <2>3. sigs' \in [Requests -> Seq(Bodies)]
    BY <1>15, <2>2 DEF RelayCommits
  <2>4. Timeout * Multiplier \in Nat
    BY TimesAssumption
  <2>5. Earliest(relay[d].seen + Timeout, created[relay[d].req] + Timeout * Multiplier) \in Nat
    <3>. DEFINE span == Timeout * Multiplier
    <3>1. span \in Nat /\ created[relay[d].req] \in Nat /\ relay[d].seen \in Nat /\ Timeout \in Nat
      BY <2>1, <2>4, TimesAssumption
    <3>. HIDE DEF span
    <3>2. relay[d].seen + Timeout \in Nat /\ created[relay[d].req] + span \in Nat
      BY <3>1
    <3>3. Earliest(relay[d].seen + Timeout, created[relay[d].req] + span) \in Nat
      BY <3>2 DEF Earliest
    <3>. QED BY <3>3 DEF span
  <2>6. deadline' \in [Requests -> Nat]
    BY <1>15, <2>5 DEF RelayCommits
  <2>. QED BY <1>15, <2>3, <2>6 DEF RelayCommits
<1>16. ASSUME NEW d \in Relays, RelayEscalates(d) PROVE RowOK'
  BY <1>16 DEF RelayEscalates, Escalates
<1>17. ASSUME NEW d \in Relays, RelayNotified(d) PROVE RowOK'
  BY <1>17 DEF RelayNotified, EscalationAnswered
<1>18. ASSUME NEW d \in Relays, RelayRearms(d) PROVE RowOK'
  BY <1>18 DEF RelayRearms, Rearmed, ArmedFor
<1>19. ASSUME NEW k \in Checks, CheckMeetsOutage(k) PROVE RowOK'
  BY <1>19 DEF CheckMeetsOutage
<1>20. ASSUME NEW k \in Checks, CheckClaims(k) PROVE RowOK'
  BY <1>20 DEF CheckClaims, Claims, Writes
<1>21. ASSUME NEW k \in Checks, CheckReadsMode(k) PROVE RowOK'
  BY <1>21 DEF CheckReadsMode, HandedNow, Handed
<1>22. ASSUME NEW k \in Checks, CheckEscalates(k) PROVE RowOK'
  BY <1>22 DEF CheckEscalates, Escalates
<1>23. ASSUME NEW k \in Checks, CheckNotified(k) PROVE RowOK'
  BY <1>23 DEF CheckNotified, EscalationAnswered
<1>24. CASE AgentClaims
  BY <1>24 DEF AgentClaims
<1>25. CASE ModeChanges
  BY <1>25 DEF ModeChanges
<1>26. CASE SessionEnds
  BY <1>26 DEF SessionEnds
<1>27. CASE Restart
  BY <1>27 DEF Restart
<1>28. CASE UNCHANGED vars
  BY <1>28 DEF vars
<1>. QED
  BY <1>1, <1>2, <1>3, <1>4, <1>5, <1>6, <1>7, <1>8, <1>9, <1>10, <1>11, <1>12,
     <1>13, <1>14, <1>15, <1>16, <1>17, <1>18, <1>19, <1>20, <1>21, <1>22, <1>23, <1>24,
     <1>25, <1>26, <1>27, <1>28
     DEF Next, CheckSteps, RelaySteps

LEMMA BotOKKept == DepositTypeOK /\ [Next]_vars => BotOK'
<1>. SUFFICES ASSUME DepositTypeOK, [Next]_vars PROVE BotOK'
  OBVIOUS
<1>. RowOK /\ BotOK /\ CallsOK /\ RestOK
  BY TypeSplit
<1>. USE DEF BotOK, RestOK, Attempts, row, session, said
<1>1. CASE Tick
  BY <1>1 DEF Tick
<1>2. ASSUME NEW r \in Requests, Submit(r) PROVE BotOK'
  BY <1>2 DEF Submit, Goes
<1>3. ASSUME NEW r \in Requests, CrossCheckRefuses(r) PROVE BotOK'
  BY <1>3 DEF CrossCheckRefuses, Goes
<1>4. ASSUME NEW r \in Requests, CreateRow(r) PROVE BotOK'
  BY <1>4 DEF CreateRow, Goes, Writes, LastSubmission
<1>5. ASSUME NEW r \in Requests, Post(r) PROVE BotOK'
  BY <1>5 DEF Post, Goes
<1>6. ASSUME NEW r \in Requests, Submitted(r) PROVE BotOK'
  <2>1. now + Timeout \in Nat
    BY TimesAssumption
  <2>. QED BY <1>6, <2>1 DEF Submitted, Goes, ArmedFor
<1>7. ASSUME NEW r \in Requests, PostFails(r) PROVE BotOK'
  BY <1>7 DEF PostFails, Goes
<1>8. ASSUME NEW r \in Requests, MarkError(r) PROVE BotOK'
  BY <1>8 DEF MarkError, Goes, Writes
<1>9. ASSUME NEW r \in Requests, Cut(r) PROVE BotOK'
  BY <1>9 DEF Cut, Goes
<1>10. ASSUME NEW d \in Callbacks, NEW r \in Requests, NEW v \in Verdicts, CallbackArrives(d, r,
v) PROVE BotOK'
  BY <1>10 DEF CallbackArrives, StillPending
<1>11. ASSUME NEW d \in Relays, NEW r \in Requests, NEW b \in Bodies, RelayArrives(d, r,
b) PROVE BotOK'
  BY <1>11 DEF RelayArrives
<1>12. ASSUME NEW k \in Checks, NEW r \in Requests, SweepChecks(k, r) PROVE BotOK'
  BY <1>12 DEF SweepChecks, Looks
<1>13. ASSUME NEW k \in Checks, NEW r \in Requests, NEW t \in armed[r], TimerFires(k, r,
t) PROVE BotOK'
  BY <1>13 DEF TimerFires, Looks
<1>14. ASSUME NEW d \in Callbacks, CallbackCommits(d) PROVE BotOK'
  BY <1>14 DEF CallbackCommits, Writes
<1>15. ASSUME NEW d \in Relays, RelayCommits(d) PROVE BotOK'
  BY <1>15 DEF RelayCommits, Earliest
<1>16. ASSUME NEW d \in Relays, RelayEscalates(d) PROVE BotOK'
  BY <1>16 DEF RelayEscalates, Escalates
<1>17. ASSUME NEW d \in Relays, RelayNotified(d) PROVE BotOK'
  BY <1>17 DEF RelayNotified, EscalationAnswered
<1>18. ASSUME NEW d \in Relays, RelayRearms(d) PROVE BotOK'
  <2>1. now + Timeout \in Nat
    BY TimesAssumption
  <2>. QED BY <1>18, <2>1 DEF RelayRearms, Rearmed, ArmedFor
<1>19. ASSUME NEW k \in Checks, CheckMeetsOutage(k) PROVE BotOK'
  BY <1>19 DEF CheckMeetsOutage
<1>20. ASSUME NEW k \in Checks, CheckClaims(k) PROVE BotOK'
  BY <1>20 DEF CheckClaims, Claims, Writes
<1>21. ASSUME NEW k \in Checks, CheckReadsMode(k) PROVE BotOK'
  BY <1>21 DEF CheckReadsMode, HandedNow, Handed
<1>22. ASSUME NEW k \in Checks, CheckEscalates(k) PROVE BotOK'
  BY <1>22 DEF CheckEscalates, Escalates
<1>23. ASSUME NEW k \in Checks, CheckNotified(k) PROVE BotOK'
  BY <1>23 DEF CheckNotified, EscalationAnswered
<1>24. CASE AgentClaims
  BY <1>24 DEF AgentClaims
<1>25. CASE ModeChanges
  BY <1>25 DEF ModeChanges
<1>26. CASE SessionEnds
  BY <1>26 DEF SessionEnds
<1>27. CASE Restart
  BY <1>27 DEF Restart
<1>28. CASE UNCHANGED vars
  BY <1>28 DEF vars
<1>. QED
  BY <1>1, <1>2, <1>3, <1>4, <1>5, <1>6, <1>7, <1>8, <1>9, <1>10, <1>11, <1>12,
     <1>13, <1>14, <1>15, <1>16, <1>17, <1>18, <1>19, <1>20, <1>21, <1>22, <1>23, <1>24,
     <1>25, <1>26, <1>27, <1>28
     DEF Next, CheckSteps, RelaySteps

LEMMA CallsOKKept == DepositTypeOK /\ [Next]_vars => CallsOK'
<1>. SUFFICES ASSUME DepositTypeOK, [Next]_vars PROVE CallsOK'
  OBVIOUS
<1>. RowOK /\ BotOK /\ CallsOK /\ RestOK
  BY TypeSplit
<1>. USE DEF CallsOK, RestOK, row, session, said
<1>1. CASE Tick
  BY <1>1 DEF Tick
<1>2. ASSUME NEW r \in Requests, Submit(r) PROVE CallsOK'
  BY <1>2 DEF Submit, Goes
<1>3. ASSUME NEW r \in Requests, CrossCheckRefuses(r) PROVE CallsOK'
  BY <1>3 DEF CrossCheckRefuses, Goes
<1>4. ASSUME NEW r \in Requests, CreateRow(r) PROVE CallsOK'
  BY <1>4 DEF CreateRow, Goes, Writes, LastSubmission
<1>5. ASSUME NEW r \in Requests, Post(r) PROVE CallsOK'
  BY <1>5 DEF Post, Goes
<1>6. ASSUME NEW r \in Requests, Submitted(r) PROVE CallsOK'
  BY <1>6 DEF Submitted, Goes, ArmedFor
<1>7. ASSUME NEW r \in Requests, PostFails(r) PROVE CallsOK'
  BY <1>7 DEF PostFails, Goes
<1>8. ASSUME NEW r \in Requests, MarkError(r) PROVE CallsOK'
  BY <1>8 DEF MarkError, Goes, Writes
<1>9. ASSUME NEW r \in Requests, Cut(r) PROVE CallsOK'
  BY <1>9 DEF Cut, Goes
<1>10. ASSUME NEW d \in Callbacks, NEW r \in Requests, NEW v \in Verdicts, CallbackArrives(d, r,
v) PROVE CallsOK'
  <2>1. [at |-> "looked", req |-> r, verdict |-> v] \in CallbackStates /\ Done \in CallbackStates
    BY CallbackRecord
  <2>. QED BY <1>10, <2>1 DEF CallbackArrives
<1>11. ASSUME NEW d \in Relays, NEW r \in Requests, NEW b \in Bodies, RelayArrives(d, r,
b) PROVE CallsOK'
  <2>1. (mode \in Handed) \in BOOLEAN /\ sigs[r] \in Seq(Bodies) /\ now \in Nat
    BY DEF RowOK
  <2>2. [at |-> "looked", req |-> r, body |-> b, sigs |-> sigs[r], seen |-> now,
         handed |-> mode \in Handed] \in RelayStates
    BY <2>1, RelayRecord
  <2>3. Done \in RelayStates
    BY RelayRecord
  <2>4. relay' \in [Relays -> RelayStates]
    BY <1>11, <2>2, <2>3 DEF RelayArrives
  <2>. QED BY <1>11, <2>4 DEF RelayArrives
<1>12. ASSUME NEW k \in Checks, NEW r \in Requests, SweepChecks(k, r) PROVE CallsOK'
  BY <1>12, LooksType DEF SweepChecks
<1>13. ASSUME NEW k \in Checks, NEW r \in Requests, NEW t \in armed[r], TimerFires(k, r,
t) PROVE CallsOK'
  BY <1>13, LooksType DEF TimerFires
<1>14. ASSUME NEW d \in Callbacks, CallbackCommits(d) PROVE CallsOK'
  BY <1>14, CallbackDone DEF CallbackCommits
<1>15. ASSUME NEW d \in Relays, RelayCommits(d) PROVE CallsOK'
  <2>1. relay[d].req \in Requests
    BY <1>15, CallFields DEF RelayCommits
  <2>2. \A p \in {"escalating", "rearming"} : [at |-> p, req |-> relay[d].req] \in RelayStates
    BY <2>1, RelayRecord
  <2>3. relay' \in [Relays -> RelayStates]
    BY <1>15, <2>2 DEF RelayCommits
  <2>. QED BY <1>15, <2>3 DEF RelayCommits
<1>16. ASSUME NEW d \in Relays, RelayEscalates(d) PROVE CallsOK'
  BY <1>16, RelayStepType DEF RelayEscalates
<1>17. ASSUME NEW d \in Relays, RelayNotified(d) PROVE CallsOK'
  BY <1>17, RelayStepType DEF RelayNotified
<1>18. ASSUME NEW d \in Relays, RelayRearms(d) PROVE CallsOK'
  BY <1>18, RelayDone DEF RelayRearms
<1>19. ASSUME NEW k \in Checks, CheckMeetsOutage(k) PROVE CallsOK'
  BY <1>19, CheckStepType DEF CheckMeetsOutage
<1>20. ASSUME NEW k \in Checks, CheckClaims(k) PROVE CallsOK'
  BY <1>20, CheckStepType DEF CheckClaims
<1>21. ASSUME NEW k \in Checks, CheckReadsMode(k) PROVE CallsOK'
  BY <1>21, CheckStepType DEF CheckReadsMode
<1>22. ASSUME NEW k \in Checks, CheckEscalates(k) PROVE CallsOK'
  BY <1>22, CheckStepType DEF CheckEscalates
<1>23. ASSUME NEW k \in Checks, CheckNotified(k) PROVE CallsOK'
  BY <1>23, CheckStepType DEF CheckNotified
<1>24. CASE AgentClaims
  <2>1. \A k \in Checks : check[k].at = "decided" => [check[k] EXCEPT !.raced = TRUE] \in CheckStates
    BY CheckRaces
  <2>2. check' \in [Checks -> CheckStates]
    BY <1>24, <2>1 DEF AgentClaims
  <2>. QED BY <1>24, <2>2 DEF AgentClaims
<1>25. CASE ModeChanges
  BY <1>25 DEF ModeChanges
<1>26. CASE SessionEnds
  BY <1>26 DEF SessionEnds
<1>27. CASE Restart
  <2>1. check' \in [Checks -> CheckStates]
    BY <1>27, CheckRecord DEF Restart
  <2>2. callback' \in [Callbacks -> CallbackStates]
    BY <1>27, CallbackRecord DEF Restart
  <2>3. relay' \in [Relays -> RelayStates]
    BY <1>27, RelayRecord DEF Restart
  <2>. QED BY <2>1, <2>2, <2>3
<1>28. CASE UNCHANGED vars
  BY <1>28 DEF vars
<1>. QED
  BY <1>1, <1>2, <1>3, <1>4, <1>5, <1>6, <1>7, <1>8, <1>9, <1>10, <1>11, <1>12,
     <1>13, <1>14, <1>15, <1>16, <1>17, <1>18, <1>19, <1>20, <1>21, <1>22, <1>23, <1>24,
     <1>25, <1>26, <1>27, <1>28
     DEF Next, CheckSteps, RelaySteps

LEMMA RestOKKept == DepositTypeOK /\ [Next]_vars => RestOK'
<1>. SUFFICES ASSUME DepositTypeOK, [Next]_vars PROVE RestOK'
  OBVIOUS
<1>. RowOK /\ BotOK /\ CallsOK /\ RestOK
  BY TypeSplit
<1>. USE DEF RestOK, Modes, row, session, said
<1>1. CASE Tick
  BY <1>1 DEF Tick
<1>2. ASSUME NEW r \in Requests, Submit(r) PROVE RestOK'
  BY <1>2 DEF Submit, Goes
<1>3. ASSUME NEW r \in Requests, CrossCheckRefuses(r) PROVE RestOK'
  BY <1>3 DEF CrossCheckRefuses, Goes
<1>4. ASSUME NEW r \in Requests, CreateRow(r) PROVE RestOK'
  BY <1>4 DEF CreateRow, Goes, Writes, LastSubmission
<1>5. ASSUME NEW r \in Requests, Post(r) PROVE RestOK'
  BY <1>5 DEF Post, Goes
<1>6. ASSUME NEW r \in Requests, Submitted(r) PROVE RestOK'
  BY <1>6 DEF Submitted, Goes, ArmedFor
<1>7. ASSUME NEW r \in Requests, PostFails(r) PROVE RestOK'
  BY <1>7 DEF PostFails, Goes
<1>8. ASSUME NEW r \in Requests, MarkError(r) PROVE RestOK'
  BY <1>8 DEF MarkError, Goes, Writes
<1>9. ASSUME NEW r \in Requests, Cut(r) PROVE RestOK'
  BY <1>9 DEF Cut, Goes
<1>10. ASSUME NEW d \in Callbacks, NEW r \in Requests, NEW v \in Verdicts, CallbackArrives(d, r,
v) PROVE RestOK'
  BY <1>10 DEF CallbackArrives, StillPending
<1>11. ASSUME NEW d \in Relays, NEW r \in Requests, NEW b \in Bodies, RelayArrives(d, r,
b) PROVE RestOK'
  BY <1>11 DEF RelayArrives
<1>12. ASSUME NEW k \in Checks, NEW r \in Requests, SweepChecks(k, r) PROVE RestOK'
  BY <1>12 DEF SweepChecks, Looks
<1>13. ASSUME NEW k \in Checks, NEW r \in Requests, NEW t \in armed[r], TimerFires(k, r,
t) PROVE RestOK'
  BY <1>13 DEF TimerFires, Looks
<1>14. ASSUME NEW d \in Callbacks, CallbackCommits(d) PROVE RestOK'
  <2>1. callback[d].req \in Requests /\ callback[d].verdict \in Verdicts
    BY <1>14, CallFields DEF CallbackCommits
  <2>2. Append(told[callback[d].req], callback[d].verdict) \in Seq(Verdicts)
    BY <2>1
  <2>3. told' \in [Requests -> Seq(Verdicts)]
    BY <1>14, <2>2 DEF CallbackCommits
  <2>. QED BY <1>14, <2>3 DEF CallbackCommits
<1>15. ASSUME NEW d \in Relays, RelayCommits(d) PROVE RestOK'
  <2>1. relay[d].body \in Bodies
    BY <1>15, CallFields DEF RelayCommits
  <2>2. shown' \in [Bodies -> Nat]
    BY <1>15, <2>1 DEF RelayCommits
  <2>. QED BY <1>15, <2>2 DEF RelayCommits
<1>16. ASSUME NEW d \in Relays, RelayEscalates(d) PROVE RestOK'
  BY <1>16 DEF RelayEscalates, Escalates
<1>17. ASSUME NEW d \in Relays, RelayNotified(d) PROVE RestOK'
  BY <1>17 DEF RelayNotified, EscalationAnswered
<1>18. ASSUME NEW d \in Relays, RelayRearms(d) PROVE RestOK'
  BY <1>18 DEF RelayRearms, Rearmed, ArmedFor
<1>19. ASSUME NEW k \in Checks, CheckMeetsOutage(k) PROVE RestOK'
  BY <1>19 DEF CheckMeetsOutage
<1>20. ASSUME NEW k \in Checks, CheckClaims(k) PROVE RestOK'
  BY <1>20 DEF CheckClaims, Claims, Writes
<1>21. ASSUME NEW k \in Checks, CheckReadsMode(k) PROVE RestOK'
  BY <1>21 DEF CheckReadsMode, HandedNow, Handed
<1>22. ASSUME NEW k \in Checks, CheckEscalates(k) PROVE RestOK'
  <2>1. check[k].req \in Requests
    BY <1>22, CallFields DEF CheckEscalates
  <2>2. handoffs' \in [Requests -> Nat]
    BY <1>22, <2>1 DEF CheckEscalates
  <2>. QED BY <1>22, <2>2 DEF CheckEscalates, Escalates
<1>23. ASSUME NEW k \in Checks, CheckNotified(k) PROVE RestOK'
  BY <1>23 DEF CheckNotified, EscalationAnswered
<1>24. CASE AgentClaims
  BY <1>24 DEF AgentClaims
<1>25. CASE ModeChanges
  BY <1>25 DEF ModeChanges
<1>26. CASE SessionEnds
  BY <1>26 DEF SessionEnds
<1>27. CASE Restart
  BY <1>27 DEF Restart
<1>28. CASE UNCHANGED vars
  BY <1>28 DEF vars
<1>. QED
  BY <1>1, <1>2, <1>3, <1>4, <1>5, <1>6, <1>7, <1>8, <1>9, <1>10, <1>11, <1>12,
     <1>13, <1>14, <1>15, <1>16, <1>17, <1>18, <1>19, <1>20, <1>21, <1>22, <1>23, <1>24,
     <1>25, <1>26, <1>27, <1>28
     DEF Next, CheckSteps, RelaySteps

LEMMA TypeKept == DepositTypeOK /\ [Next]_vars => DepositTypeOK'
BY RowOKKept, BotOKKept, CallsOKKept, RestOKKept, TypeSplitPrimed

-----------------------------------------------------------------------------
(* One hand-off: whoever has claimed a request's timeout is alone with it, and a request
   is claimed once, because no row goes back to pending. *)

Owns(k, r) == check[k].at \in {"claimed", "decided"} /\ check[k].req = r

RowComesFirst ==
    /\ \A r \in Requests : attempt[r] \in {"idle", "checking"} => status[r] = "none"
    /\ \A d \in Callbacks : callback[d].at = "looked" => status[callback[d].req] # "none"
ClaimedOnce ==
    /\ \A r \in Requests : status[r] \in {"none", "pending"} =>
           handoffs[r] = 0 /\ \A k \in Checks : ~Owns(k, r)
    /\ \A r \in Requests, k \in Checks : Owns(k, r) => handoffs[r] = 0
    /\ \A r \in Requests, k, l \in Checks : Owns(k, r) /\ Owns(l, r) => k = l
    /\ \A r \in Requests : handoffs[r] <= 1
SeenBefore == \A k \in Checks : check[k].at # "idle" => check[k].seen <= now
RacedIfHuman == \A k \in Checks : check[k].at = "decided" /\ mode = "human" => check[k].raced = TRUE

HandoffInv == DepositTypeOK /\ RowComesFirst /\ ClaimedOnce /\ SeenBefore /\ RacedIfHuman

(* How the checks in flight change. *)
CheckGoes(k, p) ==
    /\ check'[k].at = p /\ check'[k].req = check[k].req /\ check'[k].seen = check[k].seen
    /\ check'[k].raced = check[k].raced
    /\ \A l \in Checks \ {k} : check'[l] = check[l]
CheckStops(k) == check'[k].at = "idle" /\ \A l \in Checks \ {k} : check'[l] = check[l]
CheckStarts(k, r) ==
    /\ check'[k].at = "looked" /\ check'[k].req = r /\ check'[k].seen = now
    /\ \A l \in Checks \ {k} : check'[l] = check[l]

LEMMA Going ==
    ASSUME CallsOK, NEW k \in Checks, check[k].at # "idle",
           NEW p \in {"looked", "claimed", "decided", "notifying"},
           check' = [check EXCEPT ![k] = [@ EXCEPT !.at = p]]
    PROVE  CheckGoes(k, p)
<1>. check[k] \in CheckStates
  BY DEF CallsOK
<1>. QED BY CheckMoves DEF CallsOK, CheckGoes

LEMMA Stopping ==
    ASSUME CallsOK, NEW k \in Checks, check' = [check EXCEPT ![k] = Idle]
    PROVE  CheckStops(k)
BY CheckRecord DEF CallsOK, CheckStops

LEMMA Starting ==
    ASSUME CallsOK, NEW k \in Checks, NEW r \in Requests, Looks(k, r)
    PROVE  CheckStops(k) \/ CheckStarts(k, r)
BY CheckRecord DEF CallsOK, CheckStops, CheckStarts, Looks

(* A claim is won, given up, or used. *)
LEMMA CheckEffects ==
    ASSUME CallsOK, NEW k \in Checks
    PROVE  /\ CheckMeetsOutage(k) => CheckStops(k)
           /\ CheckClaims(k) => \/ CheckStops(k) /\ UNCHANGED status
                                \/ CheckGoes(k, "claimed") /\ Claims(k) /\ Writes(check[k].req, "timed_out")
           /\ CheckReadsMode(k) => CheckStops(k) \/ (CheckGoes(k, "decided") /\ mode \notin Handed)
           /\ CheckEscalates(k) => CheckGoes(k, "notifying")
           /\ CheckNotified(k) => CheckStops(k)
<1>1. CheckMeetsOutage(k) => CheckStops(k)
  BY Stopping DEF CheckMeetsOutage
<1>2. CheckClaims(k) => \/ CheckStops(k) /\ UNCHANGED status
                        \/ CheckGoes(k, "claimed") /\ Claims(k) /\ Writes(check[k].req, "timed_out")
  BY Stopping, Going DEF CheckClaims
<1>3. CheckReadsMode(k) => CheckStops(k) \/ (CheckGoes(k, "decided") /\ mode \notin Handed)
  BY Stopping, Going DEF CheckReadsMode, HandedNow
<1>4. CheckEscalates(k) => CheckGoes(k, "notifying")
  BY Going DEF CheckEscalates
<1>5. CheckNotified(k) => CheckStops(k)
  BY Stopping DEF CheckNotified
<1>. QED BY <1>1, <1>2, <1>3, <1>4, <1>5

(* The ghost of an agent's claim leaves the rest of a check alone. *)
LEMMA AgentMarks ==
    ASSUME CallsOK, AgentClaims
    PROVE  \A k \in Checks :
               /\ check'[k].at = check[k].at /\ check'[k].req = check[k].req /\ check'[k].seen = check[k].seen
               /\ check[k].at = "decided" => check'[k].raced = TRUE
<1>. SUFFICES ASSUME NEW k \in Checks
              PROVE  /\ check'[k].at = check[k].at /\ check'[k].req = check[k].req
                     /\ check'[k].seen = check[k].seen
                     /\ check[k].at = "decided" => check'[k].raced = TRUE
  OBVIOUS
<1>1. check[k] \in CheckStates
  BY DEF CallsOK
<1>2. check'[k] = IF check[k].at = "decided" THEN [check[k] EXCEPT !.raced = TRUE] ELSE check[k]
  BY DEF AgentClaims
<1>. QED BY <1>1, <1>2, CheckRaces

(* As long as nobody wins a claim, there is nothing to show. *)
LEMMA NoNewOwner ==
    ASSUME ClaimedOnce, UNCHANGED <<status, handoffs>>,
           \A k \in Checks, r \in Requests : Owns(k, r)' => Owns(k, r)
    PROVE  ClaimedOnce'
BY DEF ClaimedOnce

LEMMA StopOwnsLess ==
    ASSUME NEW k \in Checks, CheckStops(k) \/ \E r \in Requests : CheckStarts(k, r)
    PROVE  \A l \in Checks, r \in Requests : Owns(l, r)' => Owns(l, r)
<1>1. CASE CheckStops(k)
  BY <1>1 DEF CheckStops, Owns
<1>2. CASE \E r \in Requests : CheckStarts(k, r)
  BY <1>2 DEF CheckStarts, Owns
<1>. QED BY <1>1, <1>2

LEMMA RowComesFirstKept == HandoffInv /\ [Next]_vars => RowComesFirst'
<1>. SUFFICES ASSUME HandoffInv, [Next]_vars PROVE RowComesFirst'
  OBVIOUS
<1>. DepositTypeOK /\ RowComesFirst /\ ClaimedOnce /\ SeenBefore /\ RacedIfHuman
  BY DEF HandoffInv
<1>. RowOK /\ BotOK /\ CallsOK /\ RestOK
  BY TypeSplit
<1>. USE DEF RowOK, BotOK, RowComesFirst, row, session, said
<1>1. CASE Tick
  BY <1>1 DEF Tick
<1>2. ASSUME NEW r \in Requests, Submit(r) PROVE RowComesFirst'
  BY <1>2 DEF Submit, Goes
<1>3. ASSUME NEW r \in Requests, CrossCheckRefuses(r) PROVE RowComesFirst'
  BY <1>3 DEF CrossCheckRefuses, Goes
<1>4. ASSUME NEW r \in Requests, CreateRow(r) PROVE RowComesFirst'
  BY <1>4 DEF CreateRow, Goes, Writes, LastSubmission
<1>5. ASSUME NEW r \in Requests, Post(r) PROVE RowComesFirst'
  BY <1>5 DEF Post, Goes
<1>6. ASSUME NEW r \in Requests, Submitted(r) PROVE RowComesFirst'
  BY <1>6 DEF Submitted, Goes, ArmedFor
<1>7. ASSUME NEW r \in Requests, PostFails(r) PROVE RowComesFirst'
  BY <1>7 DEF PostFails, Goes
<1>8. ASSUME NEW r \in Requests, MarkError(r) PROVE RowComesFirst'
  BY <1>8 DEF MarkError, Goes, Writes
<1>9. ASSUME NEW r \in Requests, Cut(r) PROVE RowComesFirst'
  BY <1>9 DEF Cut, Goes
<1>10. ASSUME NEW d \in Callbacks, NEW r \in Requests, NEW v \in Verdicts, CallbackArrives(d, r,
v) PROVE RowComesFirst'
  <2>1. \A e \in Callbacks : callback'[e].at = "looked" =>
            \/ callback'[e] = callback[e]
            \/ callback'[e].req = r /\ status[r] = "pending"
    BY <1>10, CallbackRecord DEF CallbackArrives, CallsOK, StillPending
  <2>. QED BY <1>10, <2>1 DEF CallbackArrives
<1>11. ASSUME NEW d \in Relays, NEW r \in Requests, NEW b \in Bodies, RelayArrives(d, r,
b) PROVE RowComesFirst'
  BY <1>11 DEF RelayArrives
<1>12. ASSUME NEW k \in Checks, NEW r \in Requests, SweepChecks(k, r) PROVE RowComesFirst'
  BY <1>12 DEF SweepChecks, Looks
<1>13. ASSUME NEW k \in Checks, NEW r \in Requests, NEW t \in armed[r], TimerFires(k, r,
t) PROVE RowComesFirst'
  BY <1>13 DEF TimerFires, Looks
<1>14. ASSUME NEW d \in Callbacks, CallbackCommits(d) PROVE RowComesFirst'
  <2>1. callback[d].req \in Requests /\ callback[d].verdict \in Verdicts
    BY <1>14, CallFields DEF CallbackCommits
  <2>2. status[callback[d].req] # "none"
    BY <1>14 DEF CallbackCommits
  <2>3. \A e \in Callbacks : callback'[e].at = "looked" => callback[e].at = "looked" /\ callback'[e] = callback[e]
    BY <1>14, CallbackRecord DEF CallbackCommits, CallsOK
  <2>. QED BY <1>14, <2>1, <2>2, <2>3 DEF CallbackCommits, Writes, Verdicts
<1>15. ASSUME NEW d \in Relays, RelayCommits(d) PROVE RowComesFirst'
  BY <1>15 DEF RelayCommits, Earliest
<1>16. ASSUME NEW d \in Relays, RelayEscalates(d) PROVE RowComesFirst'
  BY <1>16 DEF RelayEscalates, Escalates
<1>17. ASSUME NEW d \in Relays, RelayNotified(d) PROVE RowComesFirst'
  BY <1>17 DEF RelayNotified, EscalationAnswered
<1>18. ASSUME NEW d \in Relays, RelayRearms(d) PROVE RowComesFirst'
  BY <1>18 DEF RelayRearms, Rearmed, ArmedFor
<1>19. ASSUME NEW k \in Checks, CheckMeetsOutage(k) PROVE RowComesFirst'
  BY <1>19 DEF CheckMeetsOutage
<1>20. ASSUME NEW k \in Checks, CheckClaims(k) PROVE RowComesFirst'
  <2>1. check[k].req \in Requests /\ \A d \in Callbacks : callback[d].at = "looked" => callback[d].req \in Requests
    BY <1>20, CallFields DEF CheckClaims
  <2>2. CASE Claims(k)
    BY <1>20, <2>1, <2>2 DEF CheckClaims, Claims, Writes
  <2>3. CASE ~Claims(k)
    BY <1>20, <2>3 DEF CheckClaims
  <2>. QED BY <2>2, <2>3
<1>21. ASSUME NEW k \in Checks, CheckReadsMode(k) PROVE RowComesFirst'
  BY <1>21 DEF CheckReadsMode, HandedNow, Handed
<1>22. ASSUME NEW k \in Checks, CheckEscalates(k) PROVE RowComesFirst'
  BY <1>22 DEF CheckEscalates, Escalates
<1>23. ASSUME NEW k \in Checks, CheckNotified(k) PROVE RowComesFirst'
  BY <1>23 DEF CheckNotified, EscalationAnswered
<1>24. CASE AgentClaims
  BY <1>24 DEF AgentClaims
<1>25. CASE ModeChanges
  BY <1>25 DEF ModeChanges
<1>26. CASE SessionEnds
  BY <1>26 DEF SessionEnds
<1>27. CASE Restart
  <2>1. \A e \in Callbacks : callback'[e].at # "looked"
    BY <1>27, CallbackRecord DEF Restart
  <2>. QED BY <1>27, <2>1 DEF Restart
<1>28. CASE UNCHANGED vars
  BY <1>28 DEF vars
<1>. QED
  BY <1>1, <1>2, <1>3, <1>4, <1>5, <1>6, <1>7, <1>8, <1>9, <1>10, <1>11, <1>12,
     <1>13, <1>14, <1>15, <1>16, <1>17, <1>18, <1>19, <1>20, <1>21, <1>22, <1>23, <1>24,
     <1>25, <1>26, <1>27, <1>28
     DEF Next, CheckSteps, RelaySteps

LEMMA ClaimedOnceKept == HandoffInv /\ [Next]_vars => ClaimedOnce'
<1>. SUFFICES ASSUME HandoffInv, [Next]_vars PROVE ClaimedOnce'
  OBVIOUS
<1>. DepositTypeOK /\ RowComesFirst /\ ClaimedOnce /\ SeenBefore /\ RacedIfHuman
  BY DEF HandoffInv
<1>. RowOK /\ BotOK /\ CallsOK /\ RestOK
  BY TypeSplit
<1>. USE DEF RowOK, RestOK, ClaimedOnce, Owns, row, session, said
<1>1. CASE Tick
  BY <1>1 DEF Tick
<1>2. ASSUME NEW r \in Requests, Submit(r) PROVE ClaimedOnce'
  BY <1>2 DEF Submit, Goes
<1>3. ASSUME NEW r \in Requests, CrossCheckRefuses(r) PROVE ClaimedOnce'
  BY <1>3 DEF CrossCheckRefuses, Goes
<1>4. ASSUME NEW r \in Requests, CreateRow(r) PROVE ClaimedOnce'
  <2>1. status[r] = "none"
    BY <1>4 DEF CreateRow, RowComesFirst
  <2>. QED BY <1>4, <2>1 DEF CreateRow, Writes
<1>5. ASSUME NEW r \in Requests, Post(r) PROVE ClaimedOnce'
  BY <1>5 DEF Post, Goes
<1>6. ASSUME NEW r \in Requests, Submitted(r) PROVE ClaimedOnce'
  BY <1>6 DEF Submitted, Goes, ArmedFor
<1>7. ASSUME NEW r \in Requests, PostFails(r) PROVE ClaimedOnce'
  BY <1>7 DEF PostFails, Goes
<1>8. ASSUME NEW r \in Requests, MarkError(r) PROVE ClaimedOnce'
  BY <1>8 DEF MarkError, Goes, Writes
<1>9. ASSUME NEW r \in Requests, Cut(r) PROVE ClaimedOnce'
  BY <1>9 DEF Cut, Goes
<1>10. ASSUME NEW d \in Callbacks, NEW r \in Requests, NEW v \in Verdicts, CallbackArrives(d, r,
v) PROVE ClaimedOnce'
  BY <1>10 DEF CallbackArrives, StillPending
<1>11. ASSUME NEW d \in Relays, NEW r \in Requests, NEW b \in Bodies, RelayArrives(d, r,
b) PROVE ClaimedOnce'
  BY <1>11 DEF RelayArrives
<1>12. ASSUME NEW k \in Checks, NEW r \in Requests, SweepChecks(k, r) PROVE ClaimedOnce'
  <2>1. CheckStops(k) \/ CheckStarts(k, r)
    BY <1>12, Starting DEF SweepChecks
  <2>. QED BY <1>12, <2>1, StopOwnsLess, NoNewOwner DEF SweepChecks
<1>13. ASSUME NEW k \in Checks, NEW r \in Requests, NEW t \in armed[r], TimerFires(k, r,
t) PROVE ClaimedOnce'
  <2>1. CheckStops(k) \/ CheckStarts(k, r)
    BY <1>13, Starting DEF TimerFires
  <2>. QED BY <1>13, <2>1, StopOwnsLess, NoNewOwner DEF TimerFires
<1>14. ASSUME NEW d \in Callbacks, CallbackCommits(d) PROVE ClaimedOnce'
  <2>1. callback[d].req \in Requests /\ callback[d].verdict \in Verdicts
    BY <1>14, CallFields DEF CallbackCommits
  <2>2. status[callback[d].req] # "none"
    BY <1>14 DEF CallbackCommits, RowComesFirst
  <2>. QED BY <1>14, <2>1, <2>2 DEF CallbackCommits, Writes, Verdicts
<1>15. ASSUME NEW d \in Relays, RelayCommits(d) PROVE ClaimedOnce'
  BY <1>15 DEF RelayCommits, Earliest
<1>16. ASSUME NEW d \in Relays, RelayEscalates(d) PROVE ClaimedOnce'
  BY <1>16 DEF RelayEscalates, Escalates
<1>17. ASSUME NEW d \in Relays, RelayNotified(d) PROVE ClaimedOnce'
  BY <1>17 DEF RelayNotified, EscalationAnswered
<1>18. ASSUME NEW d \in Relays, RelayRearms(d) PROVE ClaimedOnce'
  BY <1>18 DEF RelayRearms, Rearmed, ArmedFor
<1>19. ASSUME NEW k \in Checks, CheckMeetsOutage(k) PROVE ClaimedOnce'
  <2>1. CheckStops(k)
    BY <1>19, CheckEffects
  <2>. QED BY <1>19, <2>1 DEF CheckMeetsOutage, CheckStops, CheckGoes
<1>20. ASSUME NEW k \in Checks, CheckClaims(k) PROVE ClaimedOnce'
  <2>1. \/ CheckStops(k) /\ UNCHANGED status
        \/ CheckGoes(k, "claimed") /\ Claims(k) /\ Writes(check[k].req, "timed_out")
    BY <1>20, CheckEffects
  <2>2. UNCHANGED handoffs
    BY <1>20 DEF CheckClaims
  <2>3. CASE CheckStops(k) /\ UNCHANGED status
    BY <2>2, <2>3, StopOwnsLess, NoNewOwner
  <2>4. CASE CheckGoes(k, "claimed") /\ Claims(k) /\ Writes(check[k].req, "timed_out")
    <3>. DEFINE q == check[k].req
    <3>1. q \in Requests
      BY <1>20, CallFields DEF CheckClaims
    <3>2. status[q] = "pending" /\ status' = [status EXCEPT ![q] = "timed_out"]
      BY <2>4 DEF Claims, Writes
    <3>3. \A l \in Checks, r \in Requests : Owns(l, r)' => Owns(l, r) \/ (l = k /\ r = q)
      BY <2>4 DEF CheckGoes
    <3>4. handoffs[q] = 0 /\ \A l \in Checks : ~Owns(l, q)
      BY <3>1, <3>2
    <3>. HIDE DEF q, Owns
    <3>. QED BY <2>2, <3>1, <3>2, <3>3, <3>4
  <2>. QED BY <2>1, <2>3, <2>4
<1>21. ASSUME NEW k \in Checks, CheckReadsMode(k) PROVE ClaimedOnce'
  <2>1. CheckStops(k) \/ (CheckGoes(k, "decided") /\ mode \notin Handed)
    BY <1>21, CheckEffects
  <2>. QED BY <1>21, <2>1 DEF CheckReadsMode, CheckStops, CheckGoes, Handed
<1>22. ASSUME NEW k \in Checks, CheckEscalates(k) PROVE ClaimedOnce'
  <2>1. CheckGoes(k, "notifying") /\ check[k].req \in Requests
    BY <1>22, CheckEffects, CallFields DEF CheckEscalates
  <2>2. PICK q \in Requests : q = check[k].req
    BY <2>1
  <2>3. UNCHANGED status /\ handoffs' = [handoffs EXCEPT ![q] = @ + 1]
    BY <1>22, <2>2 DEF CheckEscalates
  <2>4. Owns(k, q)
    BY <1>22, <2>2 DEF CheckEscalates
  <2>5. \A l \in Checks, r \in Requests : Owns(l, r)' => Owns(l, r) /\ l # k
    BY <2>1 DEF CheckGoes
  <2>. HIDE DEF Owns
  <2>6. handoffs[q] = 0 /\ status[q] \notin {"none", "pending"}
    BY <2>4
  <2>7. \A l \in Checks : ~Owns(l, q)'
    BY <2>4, <2>5
  <2>. QED BY <2>3, <2>5, <2>6, <2>7
<1>23. ASSUME NEW k \in Checks, CheckNotified(k) PROVE ClaimedOnce'
  <2>1. CheckStops(k)
    BY <1>23, CheckEffects
  <2>. QED BY <1>23, <2>1 DEF CheckNotified, CheckStops, CheckGoes, EscalationAnswered
<1>24. CASE AgentClaims
  <2>1. \A k \in Checks :
           /\ check'[k].at = check[k].at /\ check'[k].req = check[k].req /\ check'[k].seen = check[k].seen
           /\ check[k].at = "decided" => check'[k].raced = TRUE
    BY <1>24, AgentMarks
  <2>. QED BY <1>24, <2>1 DEF AgentClaims
<1>25. CASE ModeChanges
  BY <1>25 DEF ModeChanges
<1>26. CASE SessionEnds
  BY <1>26 DEF SessionEnds
<1>27. CASE Restart
  <2>1. \A k \in Checks : check'[k].at = "idle"
    BY <1>27, CheckRecord DEF Restart
  <2>. QED BY <1>27, <2>1 DEF Restart
<1>28. CASE UNCHANGED vars
  BY <1>28 DEF vars
<1>. QED
  BY <1>1, <1>2, <1>3, <1>4, <1>5, <1>6, <1>7, <1>8, <1>9, <1>10, <1>11, <1>12,
     <1>13, <1>14, <1>15, <1>16, <1>17, <1>18, <1>19, <1>20, <1>21, <1>22, <1>23, <1>24,
     <1>25, <1>26, <1>27, <1>28
     DEF Next, CheckSteps, RelaySteps

LEMMA SeenBeforeKept == HandoffInv /\ [Next]_vars => SeenBefore'
<1>. SUFFICES ASSUME HandoffInv, [Next]_vars PROVE SeenBefore'
  OBVIOUS
<1>. DepositTypeOK /\ RowComesFirst /\ ClaimedOnce /\ SeenBefore /\ RacedIfHuman
  BY DEF HandoffInv
<1>. RowOK /\ BotOK /\ CallsOK /\ RestOK
  BY TypeSplit
<1>. USE DEF RestOK, SeenBefore, row, session, said
<1>1. CASE Tick
  <2>1. \A k \in Checks : check[k].at # "idle" => check[k].seen \in Nat
    BY CallFields
  <2>. QED BY <1>1, <2>1 DEF Tick
<1>2. ASSUME NEW r \in Requests, Submit(r) PROVE SeenBefore'
  BY <1>2 DEF Submit, Goes
<1>3. ASSUME NEW r \in Requests, CrossCheckRefuses(r) PROVE SeenBefore'
  BY <1>3 DEF CrossCheckRefuses, Goes
<1>4. ASSUME NEW r \in Requests, CreateRow(r) PROVE SeenBefore'
  BY <1>4 DEF CreateRow, Goes, Writes, LastSubmission
<1>5. ASSUME NEW r \in Requests, Post(r) PROVE SeenBefore'
  BY <1>5 DEF Post, Goes
<1>6. ASSUME NEW r \in Requests, Submitted(r) PROVE SeenBefore'
  BY <1>6 DEF Submitted, Goes, ArmedFor
<1>7. ASSUME NEW r \in Requests, PostFails(r) PROVE SeenBefore'
  BY <1>7 DEF PostFails, Goes
<1>8. ASSUME NEW r \in Requests, MarkError(r) PROVE SeenBefore'
  BY <1>8 DEF MarkError, Goes, Writes
<1>9. ASSUME NEW r \in Requests, Cut(r) PROVE SeenBefore'
  BY <1>9 DEF Cut, Goes
<1>10. ASSUME NEW d \in Callbacks, NEW r \in Requests, NEW v \in Verdicts, CallbackArrives(d, r,
v) PROVE SeenBefore'
  BY <1>10 DEF CallbackArrives, StillPending
<1>11. ASSUME NEW d \in Relays, NEW r \in Requests, NEW b \in Bodies, RelayArrives(d, r,
b) PROVE SeenBefore'
  BY <1>11 DEF RelayArrives
<1>12. ASSUME NEW k \in Checks, NEW r \in Requests, SweepChecks(k, r) PROVE SeenBefore'
  <2>1. CheckStops(k) \/ CheckStarts(k, r)
    BY <1>12, Starting DEF SweepChecks
  <2>2. now' = now /\ now <= now
    BY <1>12 DEF SweepChecks
  <2>3. CASE CheckStops(k)
    BY <2>2, <2>3 DEF CheckStops
  <2>4. CASE CheckStarts(k, r)
    BY <2>2, <2>4 DEF CheckStarts
  <2>. QED BY <2>1, <2>3, <2>4
<1>13. ASSUME NEW k \in Checks, NEW r \in Requests, NEW t \in armed[r], TimerFires(k, r,
t) PROVE SeenBefore'
  <2>1. CheckStops(k) \/ CheckStarts(k, r)
    BY <1>13, Starting DEF TimerFires
  <2>2. now' = now /\ now <= now
    BY <1>13 DEF TimerFires
  <2>3. CASE CheckStops(k)
    BY <2>2, <2>3 DEF CheckStops
  <2>4. CASE CheckStarts(k, r)
    BY <2>2, <2>4 DEF CheckStarts
  <2>. QED BY <2>1, <2>3, <2>4
<1>14. ASSUME NEW d \in Callbacks, CallbackCommits(d) PROVE SeenBefore'
  BY <1>14 DEF CallbackCommits, Writes
<1>15. ASSUME NEW d \in Relays, RelayCommits(d) PROVE SeenBefore'
  BY <1>15 DEF RelayCommits, Earliest
<1>16. ASSUME NEW d \in Relays, RelayEscalates(d) PROVE SeenBefore'
  BY <1>16 DEF RelayEscalates, Escalates
<1>17. ASSUME NEW d \in Relays, RelayNotified(d) PROVE SeenBefore'
  BY <1>17 DEF RelayNotified, EscalationAnswered
<1>18. ASSUME NEW d \in Relays, RelayRearms(d) PROVE SeenBefore'
  BY <1>18 DEF RelayRearms, Rearmed, ArmedFor
<1>19. ASSUME NEW k \in Checks, CheckMeetsOutage(k) PROVE SeenBefore'
  <2>1. CheckStops(k)
    BY <1>19, CheckEffects
  <2>. QED BY <1>19, <2>1 DEF CheckMeetsOutage, CheckStops, CheckGoes
<1>20. ASSUME NEW k \in Checks, CheckClaims(k) PROVE SeenBefore'
  <2>1. CheckStops(k) \/ CheckGoes(k, "claimed")
    BY <1>20, CheckEffects
  <2>. QED BY <1>20, <2>1 DEF CheckClaims, CheckStops, CheckGoes
<1>21. ASSUME NEW k \in Checks, CheckReadsMode(k) PROVE SeenBefore'
  <2>1. CheckStops(k) \/ (CheckGoes(k, "decided") /\ mode \notin Handed)
    BY <1>21, CheckEffects
  <2>. QED BY <1>21, <2>1 DEF CheckReadsMode, CheckStops, CheckGoes, Handed
<1>22. ASSUME NEW k \in Checks, CheckEscalates(k) PROVE SeenBefore'
  <2>1. CheckGoes(k, "notifying")
    BY <1>22, CheckEffects
  <2>. QED BY <1>22, <2>1 DEF CheckEscalates, CheckStops, CheckGoes, Escalates
<1>23. ASSUME NEW k \in Checks, CheckNotified(k) PROVE SeenBefore'
  <2>1. CheckStops(k)
    BY <1>23, CheckEffects
  <2>. QED BY <1>23, <2>1 DEF CheckNotified, CheckStops, CheckGoes, EscalationAnswered
<1>24. CASE AgentClaims
  <2>1. \A k \in Checks :
           /\ check'[k].at = check[k].at /\ check'[k].req = check[k].req /\ check'[k].seen = check[k].seen
           /\ check[k].at = "decided" => check'[k].raced = TRUE
    BY <1>24, AgentMarks
  <2>. QED BY <1>24, <2>1 DEF AgentClaims
<1>25. CASE ModeChanges
  BY <1>25 DEF ModeChanges
<1>26. CASE SessionEnds
  BY <1>26 DEF SessionEnds
<1>27. CASE Restart
  <2>1. \A k \in Checks : check'[k].at = "idle"
    BY <1>27, CheckRecord DEF Restart
  <2>. QED BY <1>27, <2>1 DEF Restart
<1>28. CASE UNCHANGED vars
  BY <1>28 DEF vars
<1>. QED
  BY <1>1, <1>2, <1>3, <1>4, <1>5, <1>6, <1>7, <1>8, <1>9, <1>10, <1>11, <1>12,
     <1>13, <1>14, <1>15, <1>16, <1>17, <1>18, <1>19, <1>20, <1>21, <1>22, <1>23, <1>24,
     <1>25, <1>26, <1>27, <1>28
     DEF Next, CheckSteps, RelaySteps

LEMMA RacedIfHumanKept == HandoffInv /\ [Next]_vars => RacedIfHuman'
<1>. SUFFICES ASSUME HandoffInv, [Next]_vars PROVE RacedIfHuman'
  OBVIOUS
<1>. DepositTypeOK /\ RowComesFirst /\ ClaimedOnce /\ SeenBefore /\ RacedIfHuman
  BY DEF HandoffInv
<1>. RowOK /\ BotOK /\ CallsOK /\ RestOK
  BY TypeSplit
<1>. USE DEF RacedIfHuman, row, session, said
<1>1. CASE Tick
  BY <1>1 DEF Tick
<1>2. ASSUME NEW r \in Requests, Submit(r) PROVE RacedIfHuman'
  BY <1>2 DEF Submit, Goes
<1>3. ASSUME NEW r \in Requests, CrossCheckRefuses(r) PROVE RacedIfHuman'
  BY <1>3 DEF CrossCheckRefuses, Goes
<1>4. ASSUME NEW r \in Requests, CreateRow(r) PROVE RacedIfHuman'
  BY <1>4 DEF CreateRow, Goes, Writes, LastSubmission
<1>5. ASSUME NEW r \in Requests, Post(r) PROVE RacedIfHuman'
  BY <1>5 DEF Post, Goes
<1>6. ASSUME NEW r \in Requests, Submitted(r) PROVE RacedIfHuman'
  BY <1>6 DEF Submitted, Goes, ArmedFor
<1>7. ASSUME NEW r \in Requests, PostFails(r) PROVE RacedIfHuman'
  BY <1>7 DEF PostFails, Goes
<1>8. ASSUME NEW r \in Requests, MarkError(r) PROVE RacedIfHuman'
  BY <1>8 DEF MarkError, Goes, Writes
<1>9. ASSUME NEW r \in Requests, Cut(r) PROVE RacedIfHuman'
  BY <1>9 DEF Cut, Goes
<1>10. ASSUME NEW d \in Callbacks, NEW r \in Requests, NEW v \in Verdicts, CallbackArrives(d, r,
v) PROVE RacedIfHuman'
  BY <1>10 DEF CallbackArrives, StillPending
<1>11. ASSUME NEW d \in Relays, NEW r \in Requests, NEW b \in Bodies, RelayArrives(d, r,
b) PROVE RacedIfHuman'
  BY <1>11 DEF RelayArrives
<1>12. ASSUME NEW k \in Checks, NEW r \in Requests, SweepChecks(k, r) PROVE RacedIfHuman'
  <2>1. CheckStops(k) \/ CheckStarts(k, r)
    BY <1>12, Starting DEF SweepChecks
  <2>. QED BY <1>12, <2>1 DEF SweepChecks, CheckStops, CheckStarts
<1>13. ASSUME NEW k \in Checks, NEW r \in Requests, NEW t \in armed[r], TimerFires(k, r,
t) PROVE RacedIfHuman'
  <2>1. CheckStops(k) \/ CheckStarts(k, r)
    BY <1>13, Starting DEF TimerFires
  <2>. QED BY <1>13, <2>1 DEF TimerFires, CheckStops, CheckStarts
<1>14. ASSUME NEW d \in Callbacks, CallbackCommits(d) PROVE RacedIfHuman'
  BY <1>14 DEF CallbackCommits, Writes
<1>15. ASSUME NEW d \in Relays, RelayCommits(d) PROVE RacedIfHuman'
  BY <1>15 DEF RelayCommits, Earliest
<1>16. ASSUME NEW d \in Relays, RelayEscalates(d) PROVE RacedIfHuman'
  BY <1>16 DEF RelayEscalates, Escalates
<1>17. ASSUME NEW d \in Relays, RelayNotified(d) PROVE RacedIfHuman'
  BY <1>17 DEF RelayNotified, EscalationAnswered
<1>18. ASSUME NEW d \in Relays, RelayRearms(d) PROVE RacedIfHuman'
  BY <1>18 DEF RelayRearms, Rearmed, ArmedFor
<1>19. ASSUME NEW k \in Checks, CheckMeetsOutage(k) PROVE RacedIfHuman'
  <2>1. CheckStops(k)
    BY <1>19, CheckEffects
  <2>. QED BY <1>19, <2>1 DEF CheckMeetsOutage, CheckStops, CheckGoes
<1>20. ASSUME NEW k \in Checks, CheckClaims(k) PROVE RacedIfHuman'
  <2>1. CheckStops(k) \/ CheckGoes(k, "claimed")
    BY <1>20, CheckEffects
  <2>. QED BY <1>20, <2>1 DEF CheckClaims, CheckStops, CheckGoes
<1>21. ASSUME NEW k \in Checks, CheckReadsMode(k) PROVE RacedIfHuman'
  <2>1. CheckStops(k) \/ (CheckGoes(k, "decided") /\ mode \notin Handed)
    BY <1>21, CheckEffects
  <2>. QED BY <1>21, <2>1 DEF CheckReadsMode, CheckStops, CheckGoes, Handed
<1>22. ASSUME NEW k \in Checks, CheckEscalates(k) PROVE RacedIfHuman'
  <2>1. CheckGoes(k, "notifying")
    BY <1>22, CheckEffects
  <2>. QED BY <1>22, <2>1 DEF CheckEscalates, CheckStops, CheckGoes, Escalates
<1>23. ASSUME NEW k \in Checks, CheckNotified(k) PROVE RacedIfHuman'
  <2>1. CheckStops(k)
    BY <1>23, CheckEffects
  <2>. QED BY <1>23, <2>1 DEF CheckNotified, CheckStops, CheckGoes, EscalationAnswered
<1>24. CASE AgentClaims
  <2>1. \A k \in Checks :
           /\ check'[k].at = check[k].at /\ check'[k].req = check[k].req /\ check'[k].seen = check[k].seen
           /\ check[k].at = "decided" => check'[k].raced = TRUE
    BY <1>24, AgentMarks
  <2>. QED BY <1>24, <2>1 DEF AgentClaims
<1>25. CASE ModeChanges
  BY <1>25 DEF ModeChanges
<1>26. CASE SessionEnds
  BY <1>26 DEF SessionEnds
<1>27. CASE Restart
  <2>1. \A k \in Checks : check'[k].at = "idle"
    BY <1>27, CheckRecord DEF Restart
  <2>. QED BY <1>27, <2>1 DEF Restart
<1>28. CASE UNCHANGED vars
  BY <1>28 DEF vars
<1>. QED
  BY <1>1, <1>2, <1>3, <1>4, <1>5, <1>6, <1>7, <1>8, <1>9, <1>10, <1>11, <1>12,
     <1>13, <1>14, <1>15, <1>16, <1>17, <1>18, <1>19, <1>20, <1>21, <1>22, <1>23, <1>24,
     <1>25, <1>26, <1>27, <1>28
     DEF Next, CheckSteps, RelaySteps

LEMMA TimedOutStep == HandoffInv /\ [Next]_vars => DueStep
<1>. SUFFICES ASSUME HandoffInv, [Next]_vars PROVE DueStep
  OBVIOUS
<1>. DepositTypeOK /\ RowComesFirst /\ ClaimedOnce /\ SeenBefore /\ RacedIfHuman
  BY DEF HandoffInv
<1>. RowOK /\ BotOK /\ CallsOK /\ RestOK
  BY TypeSplit
<1>. USE DEF RowOK, DueStep, row, session, said
<1>1. CASE Tick
  BY <1>1 DEF Tick
<1>2. ASSUME NEW r \in Requests, Submit(r) PROVE DueStep
  BY <1>2 DEF Submit, Goes
<1>3. ASSUME NEW r \in Requests, CrossCheckRefuses(r) PROVE DueStep
  BY <1>3 DEF CrossCheckRefuses, Goes
<1>4. ASSUME NEW r \in Requests, CreateRow(r) PROVE DueStep
  BY <1>4 DEF CreateRow, Goes, Writes, LastSubmission
<1>5. ASSUME NEW r \in Requests, Post(r) PROVE DueStep
  BY <1>5 DEF Post, Goes
<1>6. ASSUME NEW r \in Requests, Submitted(r) PROVE DueStep
  BY <1>6 DEF Submitted, Goes, ArmedFor
<1>7. ASSUME NEW r \in Requests, PostFails(r) PROVE DueStep
  BY <1>7 DEF PostFails, Goes
<1>8. ASSUME NEW r \in Requests, MarkError(r) PROVE DueStep
  BY <1>8 DEF MarkError, Goes, Writes
<1>9. ASSUME NEW r \in Requests, Cut(r) PROVE DueStep
  BY <1>9 DEF Cut, Goes
<1>10. ASSUME NEW d \in Callbacks, NEW r \in Requests, NEW v \in Verdicts, CallbackArrives(d, r,
v) PROVE DueStep
  BY <1>10 DEF CallbackArrives, StillPending
<1>11. ASSUME NEW d \in Relays, NEW r \in Requests, NEW b \in Bodies, RelayArrives(d, r,
b) PROVE DueStep
  BY <1>11 DEF RelayArrives
<1>12. ASSUME NEW k \in Checks, NEW r \in Requests, SweepChecks(k, r) PROVE DueStep
  BY <1>12 DEF SweepChecks, Looks
<1>13. ASSUME NEW k \in Checks, NEW r \in Requests, NEW t \in armed[r], TimerFires(k, r,
t) PROVE DueStep
  BY <1>13 DEF TimerFires, Looks
<1>14. ASSUME NEW d \in Callbacks, CallbackCommits(d) PROVE DueStep
  <2>1. callback[d].req \in Requests /\ callback[d].verdict \in Verdicts
    BY <1>14, CallFields DEF CallbackCommits
  <2>. QED BY <1>14, <2>1 DEF CallbackCommits, Writes, Verdicts
<1>15. ASSUME NEW d \in Relays, RelayCommits(d) PROVE DueStep
  BY <1>15 DEF RelayCommits, Earliest
<1>16. ASSUME NEW d \in Relays, RelayEscalates(d) PROVE DueStep
  BY <1>16 DEF RelayEscalates, Escalates
<1>17. ASSUME NEW d \in Relays, RelayNotified(d) PROVE DueStep
  BY <1>17 DEF RelayNotified, EscalationAnswered
<1>18. ASSUME NEW d \in Relays, RelayRearms(d) PROVE DueStep
  BY <1>18 DEF RelayRearms, Rearmed, ArmedFor
<1>19. ASSUME NEW k \in Checks, CheckMeetsOutage(k) PROVE DueStep
  BY <1>19 DEF CheckMeetsOutage
<1>20. ASSUME NEW k \in Checks, CheckClaims(k) PROVE DueStep
  <2>. DEFINE q == check[k].req
  <2>1. q \in Requests /\ check[k].seen \in Nat /\ check[k].seen <= now
    BY <1>20, CallFields DEF CheckClaims, SeenBefore
  <2>2. CASE Claims(k)
    <3>1. status[q] = "pending" /\ deadline[q] <= check[k].seen
      BY <2>2 DEF Claims
    <3>2. status' = [status EXCEPT ![q] = "timed_out"]
      BY <1>20, <2>2 DEF CheckClaims, Writes
    <3>3. deadline[q] \in Nat /\ now \in Nat
      BY <2>1 DEF RestOK
    <3>4. now >= deadline[q]
      BY <2>1, <3>1, <3>3
    <3>. HIDE DEF q
    <3>. QED BY <2>1, <3>1, <3>2, <3>4 DEF Verdicts
  <2>3. CASE ~Claims(k)
    BY <1>20, <2>3 DEF CheckClaims
  <2>. QED BY <2>2, <2>3
<1>21. ASSUME NEW k \in Checks, CheckReadsMode(k) PROVE DueStep
  BY <1>21 DEF CheckReadsMode, HandedNow, Handed
<1>22. ASSUME NEW k \in Checks, CheckEscalates(k) PROVE DueStep
  BY <1>22 DEF CheckEscalates, Escalates
<1>23. ASSUME NEW k \in Checks, CheckNotified(k) PROVE DueStep
  BY <1>23 DEF CheckNotified, EscalationAnswered
<1>24. CASE AgentClaims
  BY <1>24 DEF AgentClaims
<1>25. CASE ModeChanges
  BY <1>25 DEF ModeChanges
<1>26. CASE SessionEnds
  BY <1>26 DEF SessionEnds
<1>27. CASE Restart
  BY <1>27 DEF Restart
<1>28. CASE UNCHANGED vars
  BY <1>28 DEF vars
<1>. QED
  BY <1>1, <1>2, <1>3, <1>4, <1>5, <1>6, <1>7, <1>8, <1>9, <1>10, <1>11, <1>12,
     <1>13, <1>14, <1>15, <1>16, <1>17, <1>18, <1>19, <1>20, <1>21, <1>22, <1>23, <1>24,
     <1>25, <1>26, <1>27, <1>28
     DEF Next, CheckSteps, RelaySteps

LEMMA HandoffInit == Init => HandoffInv
<1>. SUFFICES ASSUME Init PROVE HandoffInv
  OBVIOUS
<1>0. \A k \in Checks : check[k].at = "idle"
  BY CheckRecord DEF Init
<1>1. \A d \in Callbacks : callback[d].at = "idle"
  BY CallbackRecord DEF Init
<1>2. DepositTypeOK
  <2>1. RowOK
    BY DEF Init, RowOK
  <2>2. BotOK
    BY DEF Init, BotOK, Attempts
  <2>3. CallsOK
    BY CheckRecord, CallbackRecord, RelayRecord DEF Init, CallsOK
  <2>4. RestOK
    BY DEF Init, RestOK, Modes
  <2>. QED BY <2>1, <2>2, <2>3, <2>4, TypeSplit
<1>3. RowComesFirst
  BY <1>1 DEF Init, RowComesFirst
<1>4. ClaimedOnce
  BY <1>0 DEF Init, ClaimedOnce, Owns
<1>5. SeenBefore
  BY <1>0 DEF SeenBefore
<1>6. RacedIfHuman
  BY <1>0 DEF RacedIfHuman
<1>. QED BY <1>2, <1>3, <1>4, <1>5, <1>6 DEF HandoffInv

LEMMA HandoffKept == HandoffInv /\ [Next]_vars => HandoffInv'
<1>1. HandoffInv /\ [Next]_vars => DepositTypeOK'
  BY TypeKept DEF HandoffInv
<1>. QED BY <1>1, RowComesFirstKept, ClaimedOnceKept, SeenBeforeKept,
   RacedIfHumanKept DEF HandoffInv

THEOREM HandoffInvariant == Spec => []HandoffInv
BY HandoffInit, HandoffKept, PTL DEF Spec

(* The type invariant of the component (DepositTypeOK). *)
THEOREM TypeCorrect == Spec => []DepositTypeOK
<1>1. HandoffInv => DepositTypeOK
  BY DEF HandoffInv
<1>. QED BY <1>1, HandoffInvariant, PTL

(* A request hands its session over at most once (OneHandoff), however many timers and
   sweeps find it overdue: the conditional UPDATE lets one of them claim it, and the
   row never goes back to pending (_check_and_timeout_verification). *)
THEOREM OneHandoffHolds == Spec => []OneHandoff
<1>1. HandoffInv => OneHandoff
  BY DEF HandoffInv, ClaimedOnce, OneHandoff
<1>. QED BY <1>1, HandoffInvariant, PTL

(* A request times out only unsettled and past its deadline of that moment
   (DueStep): the deadline in the UPDATE's condition is compared with a time
   the check read earlier, and the clock does not run back. *)
THEOREM TimedOutWhenDueHolds == Spec => [][DueStep]_vars
<1>1. HandoffInv /\ [Next]_vars => [DueStep]_vars
  BY TimedOutStep
<1>. QED BY <1>1, HandoffInvariant, PTL DEF Spec

(* A timeout that escalates a session an agent has, escalates one the agent claimed
   after the timeout last read the mode (SeatedStep): the mode is read again after
   the claim, and only the lines between that read and the escalation are exposed. *)
THEOREM AgentNotUnseatedHolds == Spec => [][SeatedStep]_vars
<1>1. HandoffInv => SeatedStep
  BY DEF HandoffInv, RacedIfHuman, SeatedStep
<1>. QED BY <1>1, HandoffInvariant, PTL DEF Spec

(* Both together: a timeout is of a request that is due, and over the head of no agent it
   could have seen (TimeoutsJust). *)
THEOREM TimeoutsJustHolds == Spec => TimeoutsJust
BY TimedOutWhenDueHolds, AgentNotUnseatedHolds, PTL DEF TimeoutsJust

-----------------------------------------------------------------------------
(* One verdict and no message twice, for a vendor that waits for each answer. Then one
   call is in flight at a time, and what it read of the row is still there when it
   writes. *)

Open(h) == h.at \notin {"idle", "done"}
OneOrder == \A q, r \in Requests : q = r

ToldInv ==
    Patient =>
        /\ \A d, e \in Callbacks : Open(callback[d]) /\ Open(callback[e]) => d = e
        /\ \A r \in Requests : status[r] \in {"none", "pending"} => told[r] = <<>>
        /\ \A d \in Callbacks : callback[d].at = "looked" => told[callback[d].req] = <<>>
        /\ \A r \in Requests : Len(told[r]) <= 1
ShownInv ==
    Patient /\ OneOrder =>
        /\ \A d, e \in Relays : Open(relay[d]) /\ Open(relay[e]) => d = e
        /\ \A d \in Relays : relay[d].at = "looked" =>
               /\ relay[d].sigs = sigs[relay[d].req] /\ ~Has(relay[d].sigs, relay[d].body)
               /\ Len(relay[d].sigs) < PerOrder
        /\ \A r \in Requests, b \in Bodies : shown[b] = 0 \/ Has(sigs[r], b)
        /\ \A b \in Bodies : shown[b] <= 1
PatientInv == HandoffInv /\ ToldInv /\ ShownInv

LEMMA NobodyOpen ==
    ASSUME CallsOK, Patient, MaySend
    PROVE  (\A d \in Callbacks : ~Open(callback[d])) /\ (\A d \in Relays : ~Open(relay[d]))
<1>1. DOMAIN callback = Callbacks /\ DOMAIN relay = Relays
  BY DEF CallsOK
<1>. QED BY <1>1 DEF MaySend, Unanswered, Open

(* The list is never trimmed while it grows to the cap on an order. *)
LEMMA RememberedAdds ==
    ASSUME NEW s \in Seq(Bodies), NEW b \in Bodies, Len(s) < PerOrder
    PROVE  \A c \in Bodies : Has(Remembered(s, b), c) <=> c = b \/ Has(s, c)
<1>1. Remembered(s, b) = Append(s, b)
  BY CapsAssumption DEF Remembered, LastOf
<1>2. ASSUME NEW c \in Bodies
      PROVE  Has(Append(s, b), c) <=> c = b \/ Has(s, c)
  <2>. DEFINE t == Append(s, b)
  <2>1. /\ DOMAIN s = 1 .. Len(s) /\ DOMAIN t = 1 .. Len(s) + 1 /\ Len(s) \in Nat
        /\ \A i \in 1 .. Len(s) : t[i] = s[i]
        /\ t[Len(s) + 1] = b
    OBVIOUS
  <2>. HIDE DEF t
  <2>2. ASSUME Has(t, c) PROVE c = b \/ Has(s, c)
    <3>1. PICK i \in 1 .. Len(s) + 1 : t[i] = c
      BY <2>1, <2>2 DEF Has
    <3>2. i \in 1 .. Len(s) \/ i = Len(s) + 1
      BY <2>1, <3>1
    <3>. QED BY <2>1, <3>1, <3>2 DEF Has
  <2>3. ASSUME c = b PROVE Has(t, c)
    <3>1. Len(s) + 1 \in 1 .. Len(s) + 1
      BY <2>1
    <3>. QED BY <2>1, <2>3, <3>1 DEF Has
  <2>4. ASSUME Has(s, c) PROVE Has(t, c)
    <3>1. PICK i \in 1 .. Len(s) : s[i] = c
      BY <2>1, <2>4 DEF Has
    <3>2. i \in 1 .. Len(s) + 1
      BY <2>1, <3>1
    <3>. QED BY <2>1, <3>1, <3>2 DEF Has
  <2>5. Has(t, c) <=> c = b \/ Has(s, c)
    BY <2>2, <2>3, <2>4
  <2>. QED BY <2>5 DEF t
<1>. QED BY <1>1, <1>2

LEMMA ToldInvKept == PatientInv /\ [Next]_vars => ToldInv'
<1>. SUFFICES ASSUME PatientInv, [Next]_vars PROVE ToldInv'
  OBVIOUS
<1>. DepositTypeOK /\ RowComesFirst /\ ToldInv /\ ShownInv
  BY DEF PatientInv, HandoffInv
<1>. RowOK /\ BotOK /\ CallsOK /\ RestOK
  BY TypeSplit
<1>. USE DEF RowOK, RestOK, ToldInv, row, session, said
<1>1. CASE Tick
  BY <1>1 DEF Tick
<1>2. ASSUME NEW r \in Requests, Submit(r) PROVE ToldInv'
  BY <1>2 DEF Submit, Goes
<1>3. ASSUME NEW r \in Requests, CrossCheckRefuses(r) PROVE ToldInv'
  BY <1>3 DEF CrossCheckRefuses, Goes
<1>4. ASSUME NEW r \in Requests, CreateRow(r) PROVE ToldInv'
  <2>1. status[r] = "none"
    BY <1>4 DEF CreateRow, RowComesFirst
  <2>. QED BY <1>4, <2>1 DEF CreateRow, Writes
<1>5. ASSUME NEW r \in Requests, Post(r) PROVE ToldInv'
  BY <1>5 DEF Post, Goes
<1>6. ASSUME NEW r \in Requests, Submitted(r) PROVE ToldInv'
  BY <1>6 DEF Submitted, Goes, ArmedFor
<1>7. ASSUME NEW r \in Requests, PostFails(r) PROVE ToldInv'
  BY <1>7 DEF PostFails, Goes
<1>8. ASSUME NEW r \in Requests, MarkError(r) PROVE ToldInv'
  BY <1>8 DEF MarkError, Goes, Writes
<1>9. ASSUME NEW r \in Requests, Cut(r) PROVE ToldInv'
  BY <1>9 DEF Cut, Goes
<1>10. ASSUME NEW d \in Callbacks, NEW r \in Requests, NEW v \in Verdicts, CallbackArrives(d, r,
v) PROVE ToldInv'
  <2>. SUFFICES ASSUME Patient PROVE ToldInv'
    BY DEF ToldInv
  <2>1. \A e \in Callbacks : ~Open(callback[e])
    BY <1>10, NobodyOpen DEF CallbackArrives
  <2>2. \A e \in Callbacks \ {d} : callback'[e] = callback[e]
    BY <1>10 DEF CallbackArrives
  <2>3. callback'[d].at = "looked" => callback'[d].req = r /\ status[r] = "pending"
    <3>1. CASE status[r] = "pending"
      <4>1. callback'[d] = [at |-> "looked", req |-> r, verdict |-> v]
        BY <1>10, <3>1 DEF CallbackArrives, StillPending, CallsOK
      <4>. QED BY <4>1, <3>1
    <3>2. CASE status[r] # "pending"
      <4>1. callback'[d] = Done
        BY <1>10, <3>2 DEF CallbackArrives, StillPending, CallsOK
      <4>. QED BY <4>1, CallbackRecord
    <3>. QED BY <3>1, <3>2
  <2>. QED BY <1>10, <2>1, <2>2, <2>3 DEF CallbackArrives, Open
<1>11. ASSUME NEW d \in Relays, NEW r \in Requests, NEW b \in Bodies, RelayArrives(d, r,
b) PROVE ToldInv'
  BY <1>11 DEF RelayArrives
<1>12. ASSUME NEW k \in Checks, NEW r \in Requests, SweepChecks(k, r) PROVE ToldInv'
  BY <1>12 DEF SweepChecks, Looks
<1>13. ASSUME NEW k \in Checks, NEW r \in Requests, NEW t \in armed[r], TimerFires(k, r,
t) PROVE ToldInv'
  BY <1>13 DEF TimerFires, Looks
<1>14. ASSUME NEW d \in Callbacks, CallbackCommits(d) PROVE ToldInv'
  <2>. SUFFICES ASSUME Patient PROVE ToldInv'
    BY DEF ToldInv
  <2>1. PICK q \in Requests : q = callback[d].req
    BY <1>14, CallFields DEF CallbackCommits
  <2>2. PICK v \in Verdicts : v = callback[d].verdict
    BY <1>14, CallFields DEF CallbackCommits
  <2>3. status' = [status EXCEPT ![q] = v] /\ v \notin {"none", "pending"}
    BY <1>14, <2>1, <2>2 DEF CallbackCommits, Writes, Verdicts
  <2>4. \A e \in Callbacks : ~Open(callback'[e])
    <3>1. \A e \in Callbacks : Open(callback[e]) => e = d
      BY <1>14 DEF CallbackCommits, Open
    <3>2. callback'[d].at = "done" /\ \A e \in Callbacks \ {d} : callback'[e] = callback[e]
      BY <1>14, CallbackRecord DEF CallbackCommits, CallsOK
    <3>. QED BY <3>1, <3>2 DEF Open
  <2>5. told[q] = <<>> /\ (told' = told \/ told' = [told EXCEPT ![q] = Append(@, v)])
    BY <1>14, <2>1, <2>2 DEF CallbackCommits
  <2>6. Len(Append(<<>>, v)) = 1
    OBVIOUS
  <2>7. \A r \in Requests : told'[r] = told[r] \/ (r = q /\ told'[r] = Append(<<>>, v))
    BY <2>5
  <2>8. \A r \in Requests : Len(told'[r]) <= 1
    <3>1. \A r \in Requests : Len(told[r]) <= 1
      OBVIOUS
    <3>2. Len(Append(<<>>, v)) <= 1
      BY <2>6
    <3>. QED BY <2>7, <3>1, <3>2
  <2>9. \A r \in Requests : status'[r] \in {"none", "pending"} => told'[r] = <<>>
    BY <2>3, <2>7
  <2>10. \A e \in Callbacks : callback'[e].at # "looked"
    BY <2>4 DEF Open
  <2>. QED BY <2>4, <2>8, <2>9, <2>10
<1>15. ASSUME NEW d \in Relays, RelayCommits(d) PROVE ToldInv'
  BY <1>15 DEF RelayCommits, Earliest
<1>16. ASSUME NEW d \in Relays, RelayEscalates(d) PROVE ToldInv'
  BY <1>16 DEF RelayEscalates, Escalates
<1>17. ASSUME NEW d \in Relays, RelayNotified(d) PROVE ToldInv'
  BY <1>17 DEF RelayNotified, EscalationAnswered
<1>18. ASSUME NEW d \in Relays, RelayRearms(d) PROVE ToldInv'
  BY <1>18 DEF RelayRearms, Rearmed, ArmedFor
<1>19. ASSUME NEW k \in Checks, CheckMeetsOutage(k) PROVE ToldInv'
  BY <1>19 DEF CheckMeetsOutage
<1>20. ASSUME NEW k \in Checks, CheckClaims(k) PROVE ToldInv'
  <2>1. check[k].req \in Requests
    BY <1>20, CallFields DEF CheckClaims
  <2>. QED BY <1>20, <2>1 DEF CheckClaims, Claims, Writes
<1>21. ASSUME NEW k \in Checks, CheckReadsMode(k) PROVE ToldInv'
  BY <1>21 DEF CheckReadsMode, HandedNow, Handed
<1>22. ASSUME NEW k \in Checks, CheckEscalates(k) PROVE ToldInv'
  BY <1>22 DEF CheckEscalates, Escalates
<1>23. ASSUME NEW k \in Checks, CheckNotified(k) PROVE ToldInv'
  BY <1>23 DEF CheckNotified, EscalationAnswered
<1>24. CASE AgentClaims
  BY <1>24 DEF AgentClaims
<1>25. CASE ModeChanges
  BY <1>25 DEF ModeChanges
<1>26. CASE SessionEnds
  BY <1>26 DEF SessionEnds
<1>27. CASE Restart
  <2>1. \A e \in Callbacks : callback'[e].at \in {"idle", "done"}
    BY <1>27, CallbackRecord DEF Restart
  <2>. QED BY <1>27, <2>1 DEF Restart, Open
<1>28. CASE UNCHANGED vars
  BY <1>28 DEF vars
<1>. QED
  BY <1>1, <1>2, <1>3, <1>4, <1>5, <1>6, <1>7, <1>8, <1>9, <1>10, <1>11, <1>12,
     <1>13, <1>14, <1>15, <1>16, <1>17, <1>18, <1>19, <1>20, <1>21, <1>22, <1>23, <1>24,
     <1>25, <1>26, <1>27, <1>28
     DEF Next, CheckSteps, RelaySteps

LEMMA ShownInvKept == PatientInv /\ [Next]_vars => ShownInv'
<1>. SUFFICES ASSUME PatientInv, [Next]_vars PROVE ShownInv'
  OBVIOUS
<1>. DepositTypeOK /\ RowComesFirst /\ ToldInv /\ ShownInv
  BY DEF PatientInv, HandoffInv
<1>. RowOK /\ BotOK /\ CallsOK /\ RestOK
  BY TypeSplit
<1>. USE DEF RowOK, RestOK, ShownInv, row, session, said
<1>1. CASE Tick
  BY <1>1 DEF Tick
<1>2. ASSUME NEW r \in Requests, Submit(r) PROVE ShownInv'
  BY <1>2 DEF Submit, Goes
<1>3. ASSUME NEW r \in Requests, CrossCheckRefuses(r) PROVE ShownInv'
  BY <1>3 DEF CrossCheckRefuses, Goes
<1>4. ASSUME NEW r \in Requests, CreateRow(r) PROVE ShownInv'
  BY <1>4 DEF CreateRow, Goes, Writes, LastSubmission
<1>5. ASSUME NEW r \in Requests, Post(r) PROVE ShownInv'
  BY <1>5 DEF Post, Goes
<1>6. ASSUME NEW r \in Requests, Submitted(r) PROVE ShownInv'
  BY <1>6 DEF Submitted, Goes, ArmedFor
<1>7. ASSUME NEW r \in Requests, PostFails(r) PROVE ShownInv'
  BY <1>7 DEF PostFails, Goes
<1>8. ASSUME NEW r \in Requests, MarkError(r) PROVE ShownInv'
  BY <1>8 DEF MarkError, Goes, Writes
<1>9. ASSUME NEW r \in Requests, Cut(r) PROVE ShownInv'
  BY <1>9 DEF Cut, Goes
<1>10. ASSUME NEW d \in Callbacks, NEW r \in Requests, NEW v \in Verdicts, CallbackArrives(d, r,
v) PROVE ShownInv'
  BY <1>10 DEF CallbackArrives, StillPending
<1>11. ASSUME NEW d \in Relays, NEW r \in Requests, NEW b \in Bodies, RelayArrives(d, r,
b) PROVE ShownInv'
  <2>. SUFFICES ASSUME Patient, OneOrder PROVE ShownInv'
    BY DEF ShownInv
  <2>1. \A e \in Relays : ~Open(relay[e])
    BY <1>11, NobodyOpen DEF RelayArrives
  <2>2. \A e \in Relays \ {d} : relay'[e] = relay[e]
    <3>1. \E h : relay' = [relay EXCEPT ![d] = h]
      BY <1>11 DEF RelayArrives
    <3>. QED BY <3>1 DEF CallsOK
  <2>3. relay'[d].at = "looked" =>
            /\ relay'[d].req = r /\ relay'[d].body = b /\ relay'[d].sigs = sigs[r]
            /\ ~Has(sigs[r], b) /\ Len(sigs[r]) < PerOrder
    BY <1>11, RelayRecord, CallbackRecord DEF RelayArrives, CallsOK
  <2>4. \A e, f \in Relays : Open(relay'[e]) /\ Open(relay'[f]) => e = f
    BY <2>1, <2>2
  <2>5. \A e \in Relays : relay'[e].at = "looked" => e = d
    BY <2>1, <2>2 DEF Open
  <2>6. sigs' = sigs /\ shown' = shown
    BY <1>11 DEF RelayArrives
  <2>. HIDE DEF Has
  <2>. QED BY <2>3, <2>4, <2>5, <2>6
<1>12. ASSUME NEW k \in Checks, NEW r \in Requests, SweepChecks(k, r) PROVE ShownInv'
  BY <1>12 DEF SweepChecks, Looks
<1>13. ASSUME NEW k \in Checks, NEW r \in Requests, NEW t \in armed[r], TimerFires(k, r,
t) PROVE ShownInv'
  BY <1>13 DEF TimerFires, Looks
<1>14. ASSUME NEW d \in Callbacks, CallbackCommits(d) PROVE ShownInv'
  BY <1>14 DEF CallbackCommits, Writes
<1>15. ASSUME NEW d \in Relays, RelayCommits(d) PROVE ShownInv'
  <2>. SUFFICES ASSUME Patient, OneOrder PROVE ShownInv'
    BY DEF ShownInv
  <2>1. PICK q \in Requests : q = relay[d].req
    BY <1>15, CallFields DEF RelayCommits
  <2>2. PICK b \in Bodies : b = relay[d].body
    BY <1>15, CallFields DEF RelayCommits
  <2>3. PICK s \in Seq(Bodies) : s = relay[d].sigs
    BY <1>15, CallFields DEF RelayCommits
  <2>4. s = sigs[q] /\ ~Has(s, b) /\ Len(s) < PerOrder
    BY <1>15, <2>1, <2>2, <2>3 DEF RelayCommits
  <2>5. sigs' = [sigs EXCEPT ![q] = Remembered(s, b)] /\ shown' = [shown EXCEPT ![b] = @ + 1]
    BY <1>15, <2>1, <2>2, <2>3 DEF RelayCommits
  <2>6. \A c \in Bodies : Has(sigs'[q], c) <=> c = b \/ Has(s, c)
    BY <2>4, <2>5, RememberedAdds
  <2>7. shown[b] = 0
    BY <2>4
  <2>8. \A c \in Bodies : shown'[c] = IF c = b THEN 1 ELSE shown[c]
    BY <2>5, <2>7
  <2>9. \A e \in Relays : Open(relay[e]) => e = d
    BY <1>15 DEF RelayCommits, Open
  <2>10. \A e \in Relays \ {d} : relay'[e] = relay[e]
    BY <1>15 DEF RelayCommits
  <2>11. relay'[d].at # "looked"
    <3>1. \E p \in {"escalating", "rearming"} : relay'[d] = [at |-> p, req |-> q]
      BY <1>15, <2>1 DEF RelayCommits, CallsOK
    <3>. QED BY <3>1
  <2>12. \A e \in Relays : Open(relay'[e]) => e = d
    BY <2>9, <2>10
  <2>13. \A e \in Relays : relay'[e].at # "looked"
    BY <2>11, <2>12 DEF Open
  <2>14. \A r \in Requests, c \in Bodies : shown'[c] = 0 \/ Has(sigs'[r], c)
    <3>1. \A c \in Bodies : shown[c] = 0 \/ Has(s, c)
      BY <2>4
    <3>2. \A c \in Bodies : shown'[c] = 0 \/ Has(sigs'[q], c)
      BY <2>6, <2>8, <3>1
    <3>. QED BY <3>2 DEF OneOrder
  <2>15. \A c \in Bodies : shown'[c] <= 1
    <3>. SUFFICES ASSUME NEW c \in Bodies PROVE shown'[c] <= 1
      OBVIOUS
    <3>1. CASE c = b
      <4>1. shown'[c] = 1
        BY <2>8, <3>1
      <4>. QED BY <4>1
    <3>2. CASE c # b
      <4>1. shown'[c] = shown[c]
        BY <2>8, <3>2
      <4>. QED BY <4>1
    <3>. QED BY <3>1, <3>2
  <2>. QED BY <2>12, <2>13, <2>14, <2>15
<1>16. ASSUME NEW d \in Relays, RelayEscalates(d) PROVE ShownInv'
  <2>1. \A e \in Relays \ {d} : relay'[e] = relay[e]
    BY <1>16 DEF RelayEscalates
  <2>2. relay[d].at \in {"escalating", "notifying", "rearming"}
    BY <1>16 DEF RelayEscalates
  <2>3. relay'[d].at # "looked"
    BY <1>16, <2>2, RelayMoves, RelayRecord DEF RelayEscalates, CallsOK, Done
  <2>4. \A e \in Relays : Open(relay'[e]) => Open(relay[e])
    BY <2>1, <2>2 DEF Open
  <2>5. sigs' = sigs /\ shown' = shown
    BY <1>16 DEF RelayEscalates
  <2>. HIDE DEF Has
  <2>. QED BY <2>1, <2>3, <2>4, <2>5
<1>17. ASSUME NEW d \in Relays, RelayNotified(d) PROVE ShownInv'
  <2>1. \A e \in Relays \ {d} : relay'[e] = relay[e]
    BY <1>17 DEF RelayNotified
  <2>2. relay[d].at \in {"escalating", "notifying", "rearming"}
    BY <1>17 DEF RelayNotified
  <2>3. relay'[d].at # "looked"
    BY <1>17, <2>2, RelayMoves, RelayRecord DEF RelayNotified, CallsOK, Done
  <2>4. \A e \in Relays : Open(relay'[e]) => Open(relay[e])
    BY <2>1, <2>2 DEF Open
  <2>5. sigs' = sigs /\ shown' = shown
    BY <1>17 DEF RelayNotified
  <2>. HIDE DEF Has
  <2>. QED BY <2>1, <2>3, <2>4, <2>5
<1>18. ASSUME NEW d \in Relays, RelayRearms(d) PROVE ShownInv'
  <2>1. \A e \in Relays \ {d} : relay'[e] = relay[e]
    BY <1>18 DEF RelayRearms
  <2>2. relay[d].at \in {"escalating", "notifying", "rearming"}
    BY <1>18 DEF RelayRearms
  <2>3. relay'[d].at # "looked"
    BY <1>18, <2>2, RelayMoves, RelayRecord DEF RelayRearms, CallsOK, Done
  <2>4. \A e \in Relays : Open(relay'[e]) => Open(relay[e])
    BY <2>1, <2>2 DEF Open
  <2>5. sigs' = sigs /\ shown' = shown
    BY <1>18 DEF RelayRearms
  <2>. HIDE DEF Has
  <2>. QED BY <2>1, <2>3, <2>4, <2>5
<1>19. ASSUME NEW k \in Checks, CheckMeetsOutage(k) PROVE ShownInv'
  BY <1>19 DEF CheckMeetsOutage
<1>20. ASSUME NEW k \in Checks, CheckClaims(k) PROVE ShownInv'
  BY <1>20 DEF CheckClaims, Claims, Writes
<1>21. ASSUME NEW k \in Checks, CheckReadsMode(k) PROVE ShownInv'
  BY <1>21 DEF CheckReadsMode, HandedNow, Handed
<1>22. ASSUME NEW k \in Checks, CheckEscalates(k) PROVE ShownInv'
  BY <1>22 DEF CheckEscalates, Escalates
<1>23. ASSUME NEW k \in Checks, CheckNotified(k) PROVE ShownInv'
  BY <1>23 DEF CheckNotified, EscalationAnswered
<1>24. CASE AgentClaims
  BY <1>24 DEF AgentClaims
<1>25. CASE ModeChanges
  BY <1>25 DEF ModeChanges
<1>26. CASE SessionEnds
  BY <1>26 DEF SessionEnds
<1>27. CASE Restart
  <2>1. \A e \in Relays : relay'[e].at \in {"idle", "done"}
    BY <1>27 DEF Restart, Idle, Done
  <2>. QED BY <1>27, <2>1 DEF Restart, Open
<1>28. CASE UNCHANGED vars
  BY <1>28 DEF vars
<1>. QED
  BY <1>1, <1>2, <1>3, <1>4, <1>5, <1>6, <1>7, <1>8, <1>9, <1>10, <1>11, <1>12,
     <1>13, <1>14, <1>15, <1>16, <1>17, <1>18, <1>19, <1>20, <1>21, <1>22, <1>23, <1>24,
     <1>25, <1>26, <1>27, <1>28
     DEF Next, CheckSteps, RelaySteps

LEMMA PatientInit == Init => PatientInv
<1>. SUFFICES ASSUME Init PROVE PatientInv
  OBVIOUS
<1>1. \A d \in Callbacks : callback[d].at = "idle"
  BY CallbackRecord DEF Init
<1>2. \A d \in Relays : relay[d].at = "idle"
  BY CheckRecord DEF Init
<1>3. ToldInv
  BY <1>1 DEF Init, ToldInv, Open
<1>4. ShownInv
  BY <1>2 DEF Init, ShownInv, Open
<1>. QED BY <1>3, <1>4, HandoffInit DEF PatientInv

LEMMA PatientKept == PatientInv /\ [Next]_vars => PatientInv'
<1>1. PatientInv /\ [Next]_vars => HandoffInv'
  BY HandoffKept DEF PatientInv
<1>. QED BY <1>1, ToldInvKept, ShownInvKept DEF PatientInv

(* A vendor that waits for each answer tells the customer one verdict per request and,
   while the session has one order, no message twice (ToldOnce): the row says
   whether the verdict is known (deposit_verification_callback), and the list of
   messages is not trimmed before the order's cap is reached (deposit_ticket_reply). *)
THEOREM ToldOnceHolds == Spec => []ToldOnce
<1>1. PatientInv => ToldOnce
  <2>. SUFFICES ASSUME PatientInv, Patient PROVE ToldOnce
    BY DEF ToldOnce
  <2>1. \A r \in Requests : Len(told[r]) <= 1
    BY DEF PatientInv, ToldInv
  <2>2. ASSUME \A q, r \in Requests : q = r
        PROVE  \A b \in Bodies : shown[b] <= 1
    BY <2>2 DEF PatientInv, ShownInv, OneOrder
  <2>. QED BY <2>1, <2>2 DEF ToldOnce
<1>. QED BY <1>1, PatientInit, PatientKept, PTL DEF Spec

-----------------------------------------------------------------------------
(* ChatTurn: the answer. *)

(* The turn's task and the handler agree on where the turn is. *)
HandlerFits ==
    /\ agent \in Working => handler = "turn"
    /\ handler \in {"drain", "reap"} => agent \in {"done", "failed"}
    /\ handler = "reply" => agent = "done"

(* Only a round has calls to make. *)
CallsOwed ==
    /\ toCall \in Seq(Tools) /\ (toCall # <<>> <=> agent = "tools")

(* The request for a human is noted, or among the calls to make; an answered turn has it. *)
HumanOwed ==
    /\ escalation \in BOOLEAN /\ requested \in BOOLEAN
    /\ agent \in Working \ {"recording"} /\ requested =>
          escalation \/ \E i \in 1..Len(toCall) : toCall[i] = "escalate"
    /\ agent \in {"recording", "done"} /\ requested => escalation /\ action = "escalate"

AnswerInv == HandlerFits /\ CallsOwed /\ HumanOwed /\ InterimsFirst

-----------------------------------------------------------------------------
LEMMA AnswerInit == ChatTurnInit => AnswerInv
<1>. SUFFICES ASSUME ChatTurnInit PROVE AnswerInv
  OBVIOUS
<1>. USE DEF ChatTurnInit
<1>1. escalation \in BOOLEAN /\ requested \in BOOLEAN
  OBVIOUS
<1>2. CallsOwed
  BY DEF CallsOwed
<1>. QED BY <1>1, <1>2 DEF AnswerInv, HandlerFits, HumanOwed, InterimsFirst, Working, AsksModel,
                           Deciding

LEMMA ResponseCalls ==
    ASSUME NEW cs \in Responses
    PROVE  cs \in Seq(Tools) /\ cs # <<>> /\ Len(cs) > 0
<1>1. PICK n \in 1..MaxCalls : cs \in [1..n -> Tools]
  BY DEF Responses
<1>2. n \in Nat /\ n > 0 /\ cs \in Seq(Tools) /\ Len(cs) = n
  BY <1>1, ChatTurnAssumption
<1>. QED BY <1>2

(* What the end of a call does to the calls that are left. *)
LEMMA OneCallLess ==
    ASSUME CallsOwed, NEW ok, agent = "tools", CallEndsWith(ok)
    PROVE  /\ CallsOwed' /\ agent' \in {"tools", "model", "forced"}
           /\ UNCHANGED <<requested, handler, keepalive, late, action>>
           /\ \A i \in 1..Len(toCall) :
                 i = 1 \/ (i - 1 \in 1..Len(toCall') /\ toCall'[i - 1] = toCall[i])
<1>1. /\ toCall \in Seq(Tools) /\ toCall # <<>> /\ toCall' = Tail(toCall)
      /\ Len(toCall) > 0
  BY DEF CallsOwed, CallEndsWith
<1>2. /\ toCall' \in Seq(Tools) /\ Len(toCall') = Len(toCall) - 1
      /\ \A i \in 1..Len(toCall) :
            i = 1 \/ (i - 1 \in 1..Len(toCall') /\ toCall'[i - 1] = toCall[i])
  BY <1>1
<1>3. CASE Len(toCall) > 1
  <2>1. agent' = "tools" /\ toCall' # <<>>
    BY <1>1, <1>2, <1>3 DEF CallEndsWith
  <2>. QED BY <1>2, <2>1 DEF CallEndsWith, CallsOwed, keepaliveVars
<1>4. CASE ~(Len(toCall) > 1)
  <2>1. toCall' = <<>>
    BY <1>1, <1>2, <1>4
  <2>2. agent' \in {"model", "forced"}
    BY <1>4 DEF CallEndsWith, EndsRound
  <2>. QED BY <1>2, <2>1, <2>2 DEF CallEndsWith, CallsOwed, keepaliveVars
<1>. QED BY <1>3, <1>4

LEMMA AnswerStep == AnswerInv /\ [ChatTurnNext]_chatTurnVars => AnswerInv'
<1>. SUFFICES ASSUME AnswerInv, [ChatTurnNext]_chatTurnVars PROVE AnswerInv'
  OBVIOUS
<1>. USE DEF AnswerInv, HandlerFits, InterimsFirst, Working, AsksModel, Deciding
<1>1. CASE TurnStarts
  BY <1>1 DEF TurnStarts, CallsOwed, HumanOwed, toolVars, agentVars, promptVars, resultVars,
     keepaliveVars
<1>2. ASSUME NEW cs \in Responses, ModelCalls(cs) PROVE AnswerInv'
  <2>1. cs \in Seq(Tools) /\ cs # <<>> /\ DOMAIN cs = 1..Len(cs)
    BY ResponseCalls
  <2>. QED BY <1>2, <2>1 DEF ModelCalls, CallsOwed, HumanOwed, resultVars, keepaliveVars
<1>3. ASSUME agent = "tools", NEW ok, CallEndsWith(ok),
             escalation' = (escalation \/ Head(toCall) = "escalate")
      PROVE  AnswerInv'
  <2>1. /\ CallsOwed' /\ agent' \in {"tools", "model", "forced"}
        /\ UNCHANGED <<requested, handler, keepalive, late, action>>
        /\ \A i \in 1..Len(toCall) :
              i = 1 \/ (i - 1 \in 1..Len(toCall') /\ toCall'[i - 1] = toCall[i])
    BY <1>3, OneCallLess
  <2>2. toCall \in Seq(Tools) /\ toCall # <<>> /\ Head(toCall) = toCall[1]
    BY <1>3 DEF CallsOwed
  <2>3. HumanOwed'
    BY <1>3, <2>1, <2>2 DEF HumanOwed
  <2>. QED BY <1>3, <2>1, <2>3
<1>4. CASE LocalCall
  BY <1>3, <1>4 DEF LocalCall
<1>5. CASE CallSkipped
  <2>1. Head(toCall) # "escalate"
    BY <1>5 DEF CallSkipped, DrawsOnBudget, LocalTools
  <2>2. escalation' = (escalation \/ Head(toCall) = "escalate")
    BY <1>5, <2>1 DEF CallSkipped, HumanOwed
  <2>. QED BY <1>3, <1>5, <2>2 DEF CallSkipped
<1>6. ASSUME NEW ok, NEW took, CallReturns(ok, took) PROVE AnswerInv'
  <2>1. Head(toCall) # "escalate"
    BY <1>6 DEF CallReturns, DrawsOnBudget, LocalTools
  <2>2. escalation' = (escalation \/ Head(toCall) = "escalate")
    BY <1>6, <2>1 DEF CallReturns, HumanOwed
  <2>. QED BY <1>3, <1>6, <2>2 DEF CallReturns
<1>7. ASSUME NEW usable \in BOOLEAN, NEW act, ModelAnswers(usable, act) PROVE AnswerInv'
  <2>. USE DEF ModelAnswers, CallsOwed, HumanOwed, toolVars, keepaliveVars
  <2>1. CASE usable
    BY <1>7, <2>1
  <2>2. CASE ~usable
    BY <1>7, <2>2
  <2>. QED BY <2>1, <2>2
<1>8. ASSUME NEW usable \in BOOLEAN, NEW act, RetryEnds(usable, act) PROVE AnswerInv'
  <2>. USE DEF RetryEnds, CallsOwed, HumanOwed, toolVars, keepaliveVars
  <2>1. CASE usable
    BY <1>8, <2>1
  <2>2. CASE ~usable
    BY <1>8, <2>2
  <2>. QED BY <2>1, <2>2
<1>9. CASE Recorded
  BY <1>9 DEF Recorded, DropsLocals, CallsOwed, HumanOwed, toolVars, agentVars, promptVars,
     resultVars, keepaliveVars
<1>10. CASE TurnFails
  BY <1>10 DEF TurnFails, DropsLocals, CallsOwed, HumanOwed, toolVars, agentVars, promptVars,
     resultVars, keepaliveVars
<1>11. CASE IntervalPasses
  BY <1>11 DEF IntervalPasses, CallsOwed, HumanOwed, toolVars, agentVars, promptVars,
     resultVars, keepaliveVars
<1>12. CASE InterimSent
  BY <1>12 DEF InterimSent, CallsOwed, HumanOwed, toolVars, agentVars, promptVars, resultVars,
     keepaliveVars
<1>13. CASE InterimFails
  BY <1>13 DEF InterimFails, CallsOwed, HumanOwed, toolVars, agentVars, promptVars, resultVars,
     keepaliveVars
<1>14. CASE KeepaliveEnds
  BY <1>14 DEF KeepaliveEnds, CallsOwed, HumanOwed, toolVars, agentVars, promptVars, resultVars,
     keepaliveVars
<1>15. CASE TurnOver
  BY <1>15 DEF TurnOver, Over, Answers, CallsOwed, HumanOwed, toolVars, agentVars, promptVars,
     resultVars, keepaliveVars
<1>16. CASE Drained
  BY <1>16 DEF Drained, KeepaliveDone, Answers, CallsOwed, HumanOwed, toolVars, agentVars,
     promptVars, resultVars, keepaliveVars
<1>17. CASE DrainExpires
  BY <1>17 DEF DrainExpires, AfterDrain, CallsOwed, HumanOwed, toolVars, agentVars, promptVars,
     resultVars, keepaliveVars
<1>18. CASE Answered
  BY <1>18 DEF Answered, CallsOwed, HumanOwed, toolVars, agentVars, promptVars, resultVars,
     keepaliveVars
<1>19. CASE AnswerFails
  BY <1>19 DEF AnswerFails, CallsOwed, HumanOwed, toolVars, agentVars, promptVars, resultVars,
     keepaliveVars
<1>20. CASE BotAgain
  BY <1>20 DEF BotAgain, CallsOwed, HumanOwed, toolVars, agentVars, promptVars, resultVars,
     keepaliveVars
<1>21. CASE UNCHANGED chatTurnVars
  BY <1>21 DEF chatTurnVars, CallsOwed, HumanOwed, toolVars, agentVars, promptVars, resultVars,
     keepaliveVars
<1>. QED BY <1>1, <1>2, <1>4, <1>5, <1>6, <1>7, <1>8, <1>9, <1>10, <1>11, <1>12, <1>13, <1>14,
           <1>15, <1>16, <1>17, <1>18, <1>19, <1>20, <1>21
         DEF ChatTurnNext, AgentGoes, KeepaliveGoes, HandlerGoes

(* A turn gets its interim messages, then one answer, with the human that was asked for:
   however many rounds and calls, and whatever of them fails or hangs. *)
THEOREM AnswerWholeHolds == ChatTurnSpec => []AnswerWhole
<1>1. AnswerInv => AnswerWhole
  BY DEF AnswerInv, AnswerWhole, EscalationKept, HandlerFits, HumanOwed
<1>. QED BY <1>1, AnswerInit, AnswerStep, PTL DEF ChatTurnSpec

-----------------------------------------------------------------------------
(* ChatTurn: the directive. *)

Message ==
    {Said, Calls, Instruction} \cup {Result(t, ok) : t \in Tools, ok \in BOOLEAN}
        \cup [is : {"directive"}, labels : SUBSET Labels, escalates : BOOLEAN]

(* The tools of the first n messages of s, without counting rounds: a round begins between
   i and j; a tool failed in the last round that called it; it worked in it, or was never
   called. *)
ResultOf(s, i, t) == s[i].is = "result" /\ s[i].of = t
RoundBetween(s, i, j) == \E c \in (i + 1)..(j - 1) : s[c].is = "calls"
FailsIn(s, n, t) ==
    \E i \in 1..n :
        /\ ResultOf(s, i, t) /\ ~s[i].ok
        /\ \A j \in 1..n : ResultOf(s, j, t) =>
              ~RoundBetween(s, i, j) /\ (s[j].ok => RoundBetween(s, j, i))
WorksIn(s, n, t) ==
    \/ \A i \in 1..n : ~ResultOf(s, i, t)
    \/ \E i \in 1..n :
          /\ ResultOf(s, i, t) /\ s[i].ok
          /\ \A j \in 1..n : ResultOf(s, j, t) => ~RoundBetween(s, i, j)

(* F are the tools that fail in the first n messages. *)
FailsAre(F, s, n) ==
    \A t \in CrmTools : IF t \in F THEN FailsIn(s, n, t) ELSE WorksIn(s, n, t)

(* The directive is the message d, and names the tools F; none if there are none. *)
DirectiveAt(s, d, F) ==
    /\ d \in 0..Len(s)
    /\ \A i \in 1..Len(s) : s[i].is = "directive" <=> i = d
    /\ d = 0 <=> F = {}
    /\ d # 0 => s[d].labels = LabelsOf(F) /\ (s[d].escalates <=> LabelsOf(F) \cap prior # {})
Behind(s, d) == d # 0 => \A j \in 1..Len(s) : j > d => s[j] = Instruction

(* The round in progress began with the message c: F failed before it, ok and bad worked
   and failed in it. *)
InRound(s, c, F, ok, bad) ==
    /\ c \in 1..Len(s) /\ s[c].is = "calls"
    /\ \A i \in (c + 1)..Len(s) : s[i].is = "result"
    /\ FailsAre(F, s, c - 1)
    /\ \A t \in CrmTools :
          /\ t \in ok <=> \E i \in (c + 1)..Len(s) : ResultOf(s, i, t) /\ s[i].ok
          /\ t \in bad <=> \E i \in (c + 1)..Len(s) : ResultOf(s, i, t) /\ ~s[i].ok

TurnLocals ==
    /\ agent \in Working \cup {"idle", "done", "failed"}
    /\ messages \in Seq(Message) /\ failing \subseteq CrmTools
    /\ roundOk \subseteq CrmTools /\ roundFailed \subseteq CrmTools
AtRest == agent \in {"idle", "done", "failed"} => failing = {} /\ directive = 0
Rounds ==
    agent = "tools" => \E c \in 1..Len(messages) :
              directive < c /\ InRound(messages, c, failing, roundOk, roundFailed)
Asked ==
    agent \in AsksModel => FailsAre(failing, messages, Len(messages)) /\ Behind(messages, directive)
Placed == agent \in AsksModel \cup {"tools"} => DirectiveAt(messages, directive, failing)
Counted ==
    /\ streak = lastNamed
    /\ agent \in {"model", "tools", "forced"} => prior = streak

DirectiveInv == TurnLocals /\ AtRest /\ Rounds /\ Asked /\ Placed /\ Counted

-----------------------------------------------------------------------------
(* Lemmas about a turn's messages. *)

LEMMA MessageFields ==
    /\ Said \in Message /\ Said.is = "said"
    /\ Calls \in Message /\ Calls.is = "calls"
    /\ Instruction \in Message /\ Instruction.is = "instruction"
    /\ \A t \in Tools, ok \in BOOLEAN :
          /\ Result(t, ok) \in Message /\ Result(t, ok).is = "result"
          /\ Result(t, ok).of = t /\ Result(t, ok).ok = ok
<1>1. Said.is = "said" /\ Calls.is = "calls" /\ Instruction.is = "instruction"
  BY DEF Said, Calls, Instruction
<1>2. Said \in Message /\ Calls \in Message /\ Instruction \in Message
  BY DEF Message
<1>3. ASSUME NEW t \in Tools, NEW ok \in BOOLEAN
      PROVE  /\ Result(t, ok) \in Message /\ Result(t, ok).is = "result"
             /\ Result(t, ok).of = t /\ Result(t, ok).ok = ok
  <2>1. Result(t, ok) \in Message
    BY <1>3 DEF Message
  <2>2. Result(t, ok).is = "result" /\ Result(t, ok).of = t /\ Result(t, ok).ok = ok
    BY DEF Result
  <2>. QED BY <2>1, <2>2
<1>. QED BY <1>1, <1>2, <1>3

LEMMA DirectiveFields ==
    ASSUME NEW F \in SUBSET CrmTools
    PROVE  /\ DirectiveOn(F) \in Message /\ DirectiveOn(F).is = "directive"
           /\ DirectiveOn(F).labels = LabelsOf(F)
           /\ DirectiveOn(F).escalates <=> LabelsOf(F) \cap prior # {}
<1>1. LabelsOf(F) \in SUBSET Labels
  BY DEF LabelsOf, Labels
<1>. DEFINE e == LabelsOf(F) \cap prior # {}
<1>2. e \in BOOLEAN
  OBVIOUS
<1>3. DirectiveOn(F) = [is |-> "directive", labels |-> LabelsOf(F), escalates |-> e]
  BY DEF DirectiveOn
<1>. HIDE DEF e
<1>4. DirectiveOn(F) \in Message
  BY <1>1, <1>2, <1>3 DEF Message
<1>5. /\ DirectiveOn(F).is = "directive" /\ DirectiveOn(F).labels = LabelsOf(F)
      /\ DirectiveOn(F).escalates = e
  BY <1>3
<1>. QED BY <1>4, <1>5 DEF e

(* What fails in a prefix depends on the prefix only. *)
LEMMA SamePrefix ==
    ASSUME NEW s, NEW z, NEW n \in Nat, \A i \in 1..n : s[i] = z[i], NEW F, FailsAre(F, s, n)
    PROVE  FailsAre(F, z, n)
<1>1. ASSUME NEW i \in 1..n, NEW j \in 1..n PROVE RoundBetween(s, i, j) <=> RoundBetween(z, i, j)
  BY DEF RoundBetween
<1>2. ASSUME NEW i \in 1..n, NEW t PROVE ResultOf(s, i, t) <=> ResultOf(z, i, t)
  BY DEF ResultOf
<1>3. ASSUME NEW t, FailsIn(s, n, t) PROVE FailsIn(z, n, t)
  BY <1>1, <1>2, <1>3 DEF FailsIn
<1>4. ASSUME NEW t, WorksIn(s, n, t) PROVE WorksIn(z, n, t)
  BY <1>1, <1>2, <1>4 DEF WorksIn
<1>. QED BY <1>3, <1>4 DEF FailsAre

(* A message that is no result, put at the end, changes nothing. *)
LEMMA FailsAppended ==
    ASSUME NEW s \in Seq(Message), NEW m \in Message, m.is # "result", NEW F,
           FailsAre(F, s, Len(s))
    PROVE  FailsAre(F, Append(s, m), Len(s) + 1)
<1>. DEFINE z == Append(s, m)
            n == Len(s)
<1>1. n \in Nat /\ (\A i \in 1..n : z[i] = s[i]) /\ z[n + 1] = m
  OBVIOUS
<1>2. FailsAre(F, z, n)
  BY <1>1, SamePrefix
<1>. HIDE DEF z, n
<1>3. ASSUME NEW t PROVE ~ResultOf(z, n + 1, t)
  BY <1>1 DEF ResultOf
<1>4. ASSUME NEW t, FailsIn(z, n, t) PROVE FailsIn(z, n + 1, t)
  BY <1>1, <1>3, <1>4 DEF FailsIn
<1>5. ASSUME NEW t, WorksIn(z, n, t) PROVE WorksIn(z, n + 1, t)
  BY <1>1, <1>3, <1>5 DEF WorksIn
<1>6. FailsAre(F, z, n + 1)
  BY <1>2, <1>4, <1>5 DEF FailsAre
<1>. QED BY <1>6 DEF z, n

(* Nor does the directive, taken out. *)
LEMMA Removed ==
    ASSUME NEW s \in Seq(Message), NEW d \in 1..Len(s)
    PROVE  /\ RemoveAt(s, d) \in Seq(Message) /\ Len(RemoveAt(s, d)) = Len(s) - 1
           /\ \A i \in 1..(Len(s) - 1) :
                 RemoveAt(s, d)[i] = IF i < d THEN s[i] ELSE s[i + 1]
<1>. DEFINE p == SubSeq(s, 1, d - 1)
            q == SubSeq(s, d + 1, Len(s))
<1>1. p \in Seq(Message) /\ Len(p) = d - 1 /\ \A i \in 1..(d - 1) : p[i] = s[i]
  OBVIOUS
<1>2. q \in Seq(Message) /\ Len(q) = Len(s) - d /\ \A i \in 1..(Len(s) - d) : q[i] = s[i + d]
  OBVIOUS
<1>3. RemoveAt(s, d) = p \o q
  BY DEF RemoveAt
<1>. HIDE DEF p, q
<1>4. p \o q \in Seq(Message) /\ Len(p \o q) = Len(s) - 1
  <2>1. p \o q \in Seq(Message)
    BY <1>1, <1>2
  <2>2. Len(p \o q) = Len(p) + Len(q)
    BY <1>1, <1>2, ConcatProperties
  <2>3. Len(p) + Len(q) = Len(s) - 1
    BY <1>1, <1>2
  <2>. QED BY <2>1, <2>2, <2>3
<1>5. ASSUME NEW i \in 1..(Len(s) - 1)
      PROVE  (p \o q)[i] = IF i < d THEN s[i] ELSE s[i + 1]
  <2>1. CASE i < d
    BY <1>1, <1>2, <2>1
  <2>2. CASE ~(i < d)
    <3>1. i > Len(p) /\ i - Len(p) \in 1..Len(q) /\ i <= Len(p) + Len(q)
      BY <1>1, <1>2, <2>2
    <3>2. (p \o q)[i] = q[i - Len(p)]
      BY <1>1, <1>2, <3>1
    <3>. QED BY <1>1, <1>2, <2>2, <3>1, <3>2
  <2>. QED BY <2>1, <2>2
<1>. QED BY <1>3, <1>4, <1>5

LEMMA FailsRemoved ==
    ASSUME NEW s \in Seq(Message), NEW d \in 1..Len(s), s[d].is = "directive", NEW F,
           FailsAre(F, s, Len(s))
    PROVE  FailsAre(F, RemoveAt(s, d), Len(s) - 1)
<1>. DEFINE z == RemoveAt(s, d)
            n == Len(s) - 1
            old(i) == IF i < d THEN i ELSE i + 1
            new(i) == IF i < d THEN i ELSE i - 1
<1>0. \A i \in 1..(Len(s) - 1) : RemoveAt(s, d)[i] = IF i < d THEN s[i] ELSE s[i + 1]
  BY Removed
<1>1. n \in Nat /\ Len(s) = n + 1 /\ d \in 1..(n + 1) /\ \A i \in 1..n : z[i] = s[old(i)]
  BY <1>0
<1>. HIDE DEF z, n
<1>2. ASSUME NEW i \in 1..(n + 1), i # d PROVE new(i) \in 1..n /\ old(new(i)) = i
  BY <1>1, <1>2
<1>3. ASSUME NEW i \in 1..n PROVE old(i) \in 1..(n + 1) /\ old(i) # d
  BY <1>1
<1>4. ASSUME NEW i \in 1..n, NEW t PROVE ResultOf(z, i, t) <=> ResultOf(s, old(i), t)
  BY <1>1 DEF ResultOf
<1>5. ASSUME NEW i \in 1..n, NEW j \in 1..n
      PROVE  RoundBetween(z, i, j) <=> RoundBetween(s, old(i), old(j))
  <2>1. ASSUME NEW c \in (i + 1)..(j - 1), z[c].is = "calls"
        PROVE  RoundBetween(s, old(i), old(j))
    <3>1. old(c) \in (old(i) + 1)..(old(j) - 1) /\ s[old(c)].is = "calls"
      BY <1>1, <2>1
    <3>. QED BY <3>1 DEF RoundBetween
  <2>2. ASSUME NEW c \in (old(i) + 1)..(old(j) - 1), s[c].is = "calls"
        PROVE  RoundBetween(z, i, j)
    <3>1. c # d
      BY <2>2
    <3>2. new(c) \in (i + 1)..(j - 1) /\ z[new(c)].is = "calls"
      BY <1>1, <1>3, <2>2, <3>1
    <3>. QED BY <3>2 DEF RoundBetween
  <2>. QED BY <2>1, <2>2 DEF RoundBetween
<1>6. ASSUME NEW j \in 1..(n + 1), NEW t, ResultOf(s, j, t) PROVE j # d
  BY <1>6 DEF ResultOf
<1>. HIDE DEF old, new
<1>7. ASSUME NEW t, FailsIn(s, n + 1, t) PROVE FailsIn(z, n, t)
  <2>1. PICK i \in 1..(n + 1) :
           /\ ResultOf(s, i, t) /\ ~s[i].ok
           /\ \A j \in 1..(n + 1) : ResultOf(s, j, t) =>
                 ~RoundBetween(s, i, j) /\ (s[j].ok => RoundBetween(s, j, i))
    BY <1>7 DEF FailsIn
  <2>2. new(i) \in 1..n /\ old(new(i)) = i
    BY <1>2, <1>6, <2>1
  <2>3. ResultOf(z, new(i), t) /\ ~z[new(i)].ok
    BY <1>1, <1>4, <2>1, <2>2
  <2>4. ASSUME NEW j \in 1..n, ResultOf(z, j, t)
        PROVE  ~RoundBetween(z, new(i), j) /\ (z[j].ok => RoundBetween(z, j, new(i)))
    <3>1. old(j) \in 1..(n + 1) /\ ResultOf(s, old(j), t) /\ z[j] = s[old(j)]
      BY <1>1, <1>3, <1>4, <2>4
    <3>. QED BY <1>5, <2>1, <2>2, <3>1
  <2>. QED BY <2>2, <2>3, <2>4 DEF FailsIn
<1>8. ASSUME NEW t, WorksIn(s, n + 1, t) PROVE WorksIn(z, n, t)
  <2>1. CASE \A i \in 1..(n + 1) : ~ResultOf(s, i, t)
    BY <1>3, <1>4, <2>1 DEF WorksIn
  <2>2. CASE \E i \in 1..(n + 1) :
                /\ ResultOf(s, i, t) /\ s[i].ok
                /\ \A j \in 1..(n + 1) : ResultOf(s, j, t) => ~RoundBetween(s, i, j)
    <3>1. PICK i \in 1..(n + 1) :
             /\ ResultOf(s, i, t) /\ s[i].ok
             /\ \A j \in 1..(n + 1) : ResultOf(s, j, t) => ~RoundBetween(s, i, j)
      BY <2>2
    <3>2. new(i) \in 1..n /\ old(new(i)) = i
      BY <1>2, <1>6, <3>1
    <3>3. ResultOf(z, new(i), t) /\ z[new(i)].ok
      BY <1>1, <1>4, <3>1, <3>2
    <3>4. ASSUME NEW j \in 1..n, ResultOf(z, j, t) PROVE ~RoundBetween(z, new(i), j)
      <4>1. old(j) \in 1..(n + 1) /\ ResultOf(s, old(j), t)
        BY <1>3, <1>4, <3>4
      <4>. QED BY <1>5, <3>1, <3>2, <4>1
    <3>. QED BY <3>2, <3>3, <3>4 DEF WorksIn
  <2>. QED BY <1>8, <2>1, <2>2 DEF WorksIn
<1>9. FailsAre(F, z, n)
  BY <1>1, <1>7, <1>8 DEF FailsAre
<1>. QED BY <1>9 DEF z, n

(* The round's results, on top of what failed before it. *)
LEMMA RoundSettles ==
    ASSUME NEW s \in Seq(Message), NEW c, NEW B, NEW ok, NEW bad, InRound(s, c, B, ok, bad)
    PROVE  FailsAre((B \ ok) \cup (bad \ ok), s, Len(s))
<1>. DEFINE n == Len(s)
            F == (B \ ok) \cup (bad \ ok)
<1>1. /\ n \in Nat /\ c \in 1..n /\ s[c].is = "calls"
      /\ \A i \in (c + 1)..n : s[i].is = "result"
      /\ FailsAre(B, s, c - 1)
      /\ \A t \in CrmTools :
            /\ t \in ok <=> \E i \in (c + 1)..n : ResultOf(s, i, t) /\ s[i].ok
            /\ t \in bad <=> \E i \in (c + 1)..n : ResultOf(s, i, t) /\ ~s[i].ok
  BY DEF InRound
<1>. HIDE DEF n
<1>2. ASSUME NEW i \in (c + 1)..n, NEW j \in 1..n PROVE ~RoundBetween(s, i, j)
  <2>1. \A k \in (i + 1)..(j - 1) : k \in (c + 1)..n
    BY <1>1
  <2>. QED BY <1>1, <2>1 DEF RoundBetween
<1>3. ASSUME NEW i \in (c + 1)..n, NEW j \in 1..(c - 1) PROVE RoundBetween(s, j, i)
  BY <1>1 DEF RoundBetween
<1>4. ASSUME NEW j \in 1..n, NEW t, ResultOf(s, j, t) PROVE j \in 1..(c - 1) \/ j \in (c + 1)..n
  <2>1. j # c
    BY <1>1, <1>4 DEF ResultOf
  <2>. QED BY <1>1, <2>1
<1>5. ASSUME NEW t \in CrmTools, t \in ok PROVE WorksIn(s, n, t)
  <2>1. PICK i \in (c + 1)..n : ResultOf(s, i, t) /\ s[i].ok
    BY <1>1, <1>5
  <2>2. i \in 1..n
    BY <1>1
  <2>. QED BY <1>2, <2>1, <2>2 DEF WorksIn
<1>6. ASSUME NEW t \in CrmTools, t \in bad \ ok PROVE FailsIn(s, n, t)
  <2>1. PICK i \in (c + 1)..n : ResultOf(s, i, t) /\ ~s[i].ok
    BY <1>1, <1>6
  <2>2. i \in 1..n
    BY <1>1
  <2>3. ASSUME NEW j \in 1..n, ResultOf(s, j, t)
        PROVE  ~RoundBetween(s, i, j) /\ (s[j].ok => RoundBetween(s, j, i))
    <3>1. s[j].ok => j \in 1..(c - 1)
      BY <1>1, <1>4, <1>6, <2>3
    <3>. QED BY <1>2, <1>3, <3>1
  <2>. QED BY <2>1, <2>2, <2>3 DEF FailsIn
<1>7. ASSUME NEW t \in CrmTools, t \notin ok, t \notin bad
      PROVE  IF t \in B THEN FailsIn(s, n, t) ELSE WorksIn(s, n, t)
  <2>1. ASSUME NEW j \in 1..n, ResultOf(s, j, t) PROVE j \in 1..(c - 1)
    BY <1>1, <1>4, <1>7, <2>1
  <2>2. 1..(c - 1) \subseteq 1..n
    BY <1>1
  <2>3. ASSUME FailsIn(s, c - 1, t) PROVE FailsIn(s, n, t)
    BY <2>1, <2>2, <2>3 DEF FailsIn
  <2>4. ASSUME WorksIn(s, c - 1, t) PROVE WorksIn(s, n, t)
    BY <2>1, <2>2, <2>4 DEF WorksIn
  <2>. QED BY <1>1, <2>3, <2>4 DEF FailsAre
<1>8. FailsAre(F, s, n)
  BY <1>5, <1>6, <1>7 DEF FailsAre
<1>. QED BY <1>8 DEF n

(* The next result of the round. *)
LEMMA ResultNoted ==
    ASSUME NEW s \in Seq(Message), NEW c, NEW B, NEW ok, NEW bad, InRound(s, c, B, ok, bad),
           NEW t \in Tools, NEW b \in BOOLEAN
    PROVE  InRound(Append(s, Result(t, b)), c, B,
                   IF b /\ t \in CrmTools THEN ok \cup {t} ELSE ok,
                   IF ~b /\ t \in CrmTools THEN bad \cup {t} ELSE bad)
<1>. DEFINE n == Len(s)
            m == Result(t, b)
            z == Append(s, m)
<1>1. m \in Message /\ m.is = "result" /\ m.of = t /\ m.ok = b
  BY MessageFields
<1>2. n \in Nat /\ Len(z) = n + 1 /\ (\A i \in 1..n : z[i] = s[i]) /\ z[n + 1] = m
  BY <1>1
<1>3. c \in 1..n /\ s[c].is = "calls" /\ FailsAre(B, s, c - 1)
      /\ \A i \in (c + 1)..n : s[i].is = "result"
  BY DEF InRound
<1>4. \A u \in CrmTools :
         /\ u \in ok <=> \E i \in (c + 1)..n : ResultOf(s, i, u) /\ s[i].ok
         /\ u \in bad <=> \E i \in (c + 1)..n : ResultOf(s, i, u) /\ ~s[i].ok
  BY DEF InRound
<1>. HIDE DEF n, m, z
<1>5. FailsAre(B, z, c - 1)
  <2>1. c - 1 \in Nat /\ \A i \in 1..(c - 1) : s[i] = z[i]
    BY <1>2, <1>3
  <2>. QED BY <1>3, <2>1, SamePrefix
<1>6. /\ c \in 1..(n + 1) /\ z[c].is = "calls"
      /\ \A i \in (c + 1)..(n + 1) : z[i].is = "result"
  BY <1>1, <1>2, <1>3
<1>7. /\ n + 1 \in (c + 1)..(n + 1) /\ (c + 1)..n \subseteq (c + 1)..(n + 1)
      /\ \A i \in (c + 1)..(n + 1) : i = n + 1 \/ i \in (c + 1)..n
      /\ \A i \in (c + 1)..n : z[i] = s[i]
  BY <1>2, <1>3
<1>8. ASSUME NEW u
      PROVE  /\ (\E i \in (c + 1)..(n + 1) : ResultOf(z, i, u) /\ z[i].ok)
                    <=> (\E i \in (c + 1)..n : ResultOf(s, i, u) /\ s[i].ok) \/ (u = t /\ b)
             /\ (\E i \in (c + 1)..(n + 1) : ResultOf(z, i, u) /\ ~z[i].ok)
                    <=> (\E i \in (c + 1)..n : ResultOf(s, i, u) /\ ~s[i].ok) \/ (u = t /\ ~b)
  <2>1. ResultOf(z, n + 1, u) <=> u = t
    BY <1>1, <1>2 DEF ResultOf
  <2>2. z[n + 1].ok = b
    BY <1>1, <1>2
  <2>3. \A i \in (c + 1)..n : ResultOf(z, i, u) <=> ResultOf(s, i, u)
    BY <1>7 DEF ResultOf
  <2>. QED BY <1>7, <2>1, <2>2, <2>3
<1>. DEFINE ok2 == IF b /\ t \in CrmTools THEN ok \cup {t} ELSE ok
            bad2 == IF ~b /\ t \in CrmTools THEN bad \cup {t} ELSE bad
<1>9. ASSUME NEW u \in CrmTools
      PROVE  /\ u \in ok2 <=> u \in ok \/ (u = t /\ b)
             /\ u \in bad2 <=> u \in bad \/ (u = t /\ ~b)
  OBVIOUS
<1>. HIDE DEF ok2, bad2
<1>10. InRound(z, c, B, ok2, bad2)
  BY <1>2, <1>3, <1>4, <1>5, <1>6, <1>8, <1>9 DEF InRound
<1>. QED BY <1>10 DEF ok2, bad2, z, m

(* The directive is taken out, and renewed behind the results. *)
LEMMA Kept ==
    ASSUME NEW s \in Seq(Message), directive \in 0..Len(s),
           \A i \in 1..Len(s) : s[i].is = "directive" <=> i = directive,
           NEW F, FailsAre(F, s, Len(s))
    PROVE  /\ WithoutDirective(s) \in Seq(Message)
           /\ \A i \in 1..Len(WithoutDirective(s)) : WithoutDirective(s)[i].is # "directive"
           /\ FailsAre(F, WithoutDirective(s), Len(WithoutDirective(s)))
<1>1. CASE directive = 0
  BY <1>1 DEF WithoutDirective
<1>2. CASE directive # 0
  <2>1. directive \in 1..Len(s) /\ WithoutDirective(s) = RemoveAt(s, directive)
    BY <1>2 DEF WithoutDirective
  <2>2. /\ RemoveAt(s, directive) \in Seq(Message)
        /\ Len(RemoveAt(s, directive)) = Len(s) - 1
        /\ \A i \in 1..(Len(s) - 1) :
              RemoveAt(s, directive)[i] = IF i < directive THEN s[i] ELSE s[i + 1]
    BY <2>1, Removed
  <2>3. FailsAre(F, RemoveAt(s, directive), Len(s) - 1)
    BY <2>1, FailsRemoved
  <2>. QED BY <2>1, <2>2, <2>3
<1>. QED BY <1>1, <1>2

LEMMA Renewed ==
    ASSUME NEW k \in Seq(Message), \A i \in 1..Len(k) : k[i].is # "directive",
           NEW F \in SUBSET CrmTools, FailsAre(F, k, Len(k)), F # {}
    PROVE  LET s == Append(k, DirectiveOn(F))
           IN  /\ s \in Seq(Message) /\ FailsAre(F, s, Len(s)) /\ DirectiveAt(s, Len(s), F)
               /\ Behind(s, Len(s))
<1>. DEFINE m == DirectiveOn(F)
            s == Append(k, m)
            n == Len(k)
<1>1. /\ m \in Message /\ m.is = "directive" /\ m.labels = LabelsOf(F)
      /\ m.escalates <=> LabelsOf(F) \cap prior # {}
  BY DirectiveFields
<1>. HIDE DEF m
<1>2. /\ n \in Nat /\ s \in Seq(Message) /\ Len(s) = n + 1 /\ s[n + 1] = m
      /\ \A i \in 1..n : s[i] = k[i]
  BY <1>1
<1>3. FailsAre(F, s, n + 1)
  BY <1>1, FailsAppended
<1>. HIDE DEF s, n
<1>4. DirectiveAt(s, n + 1, F)
  <2>1. \A i \in 1..(n + 1) : s[i].is = "directive" <=> i = n + 1
    BY <1>1, <1>2 DEF n
  <2>. QED BY <1>1, <1>2, <2>1 DEF DirectiveAt
<1>5. Behind(s, n + 1)
  BY <1>2 DEF Behind
<1>. QED BY <1>2, <1>3, <1>4, <1>5 DEF s, m

(* The instruction to answer goes behind it. *)
LEMMA Instructed ==
    ASSUME NEW k \in Seq(Message), NEW F, FailsAre(F, k, Len(k)), NEW d,
           DirectiveAt(k, d, F), Behind(k, d)
    PROVE  LET s == Append(k, Instruction)
           IN  /\ s \in Seq(Message) /\ FailsAre(F, s, Len(s)) /\ DirectiveAt(s, d, F)
               /\ Behind(s, d)
<1>. DEFINE s == Append(k, Instruction)
            n == Len(k)
<1>1. Instruction \in Message /\ Instruction.is = "instruction"
  BY MessageFields
<1>2. /\ n \in Nat /\ s \in Seq(Message) /\ Len(s) = n + 1 /\ s[n + 1] = Instruction
      /\ \A i \in 1..n : s[i] = k[i]
  BY <1>1
<1>3. FailsAre(F, s, n + 1)
  BY <1>1, FailsAppended
<1>4. DirectiveAt(k, d, F) /\ Len(k) = n
  OBVIOUS
<1>. HIDE DEF s, n
<1>5. DirectiveAt(s, d, F)
  BY <1>1, <1>2, <1>4 DEF DirectiveAt
<1>6. Behind(s, d)
  BY <1>2, <1>4 DEF Behind, DirectiveAt
<1>. QED BY <1>2, <1>3, <1>5, <1>6 DEF s

-----------------------------------------------------------------------------
(* The invariant. *)

LEMMA DirectiveInit == ChatTurnInit => DirectiveInv
<1>. SUFFICES ASSUME ChatTurnInit PROVE DirectiveInv
  OBVIOUS
<1>1. messages = <<>> /\ <<>> \in Seq(Message)
  BY DEF ChatTurnInit
<1>. QED BY <1>1 DEF ChatTurnInit, DirectiveInv, TurnLocals, AtRest, Rounds, Asked, Placed, Counted,
                     Working, AsksModel

(* A turn's first request. *)
LEMMA TurnStartsStep == ASSUME AnswerInv, DirectiveInv, TurnStarts PROVE DirectiveInv'
<1>1. failing = {} /\ directive = 0
  BY DEF TurnStarts, AnswerInv, HandlerFits, DirectiveInv, TurnLocals, AtRest
<1>2. /\ messages' = <<Said>> /\ <<Said>> \in Seq(Message) /\ Len(<<Said>>) = 1
      /\ <<Said>>[1] = Said /\ Said.is = "said"
  BY MessageFields DEF TurnStarts
<1>3. FailsAre({}, <<Said>>, 1)
  BY <1>2 DEF FailsAre, WorksIn, ResultOf
<1>. QED BY <1>1, <1>2, <1>3
         DEF TurnStarts, DirectiveInv, TurnLocals, AtRest, Rounds, Asked, Placed, Counted,
            AsksModel,
             Working, toolVars, DirectiveAt, Behind

LEMMA ModelCallsStep ==
    ASSUME AnswerInv, DirectiveInv, NEW cs \in Responses, ModelCalls(cs) PROVE DirectiveInv'
<1>. DEFINE n == Len(messages)
            z == Append(messages, Calls)
<1>1. agent = "model" /\ agent' = "tools" /\ messages \in Seq(Message) /\ messages' = z
  BY DEF ModelCalls, DirectiveInv, TurnLocals
<1>2. /\ n \in Nat /\ z \in Seq(Message) /\ Len(z) = n + 1 /\ z[n + 1] = Calls
      /\ Calls.is = "calls" /\ \A i \in 1..n : z[i] = messages[i]
  BY <1>1, MessageFields
<1>3. FailsAre(failing, messages, n) /\ DirectiveAt(messages, directive, failing)
  BY <1>1 DEF DirectiveInv, Asked, Placed, AsksModel
<1>4. directive \in 0..n
  BY <1>3 DEF DirectiveAt
<1>. HIDE DEF n, z
<1>5. FailsAre(failing, z, n)
  BY <1>2, <1>3, SamePrefix
<1>6. DirectiveAt(z, directive, failing)
  BY <1>2, <1>3, <1>4 DEF DirectiveAt, n
<1>7. InRound(z, n + 1, failing, {}, {})
  BY <1>2, <1>5 DEF InRound
<1>8. Rounds'
  <2>1. failing' = failing /\ roundOk' = {} /\ roundFailed' = {} /\ directive' = directive
    BY DEF ModelCalls
  <2>2. n + 1 \in 1..Len(messages') /\ directive' < n + 1
    BY <1>1, <1>2, <1>4, <2>1
  <2>. QED BY <1>1, <1>7, <2>1, <2>2 DEF Rounds
<1>9. Placed'
  BY <1>1, <1>6 DEF Placed, ModelCalls, DirectiveAt
<1>. QED BY <1>1, <1>2, <1>8, <1>9
         DEF ModelCalls, DirectiveInv, TurnLocals, AtRest, Asked, Counted, AsksModel, Working

(* A call's result, and the next call. *)
LEMMA CallStep ==
    ASSUME AnswerInv, DirectiveInv, agent = "tools", NEW ok \in BOOLEAN, CallEndsWith(ok)
    PROVE  DirectiveInv'
<1>. DEFINE t == Head(toCall)
            msgs == Append(messages, Result(t, ok))
            okd == IF ok /\ t \in CrmTools THEN roundOk \cup {t} ELSE roundOk
            bad == IF ~ok /\ t \in CrmTools THEN roundFailed \cup {t} ELSE roundFailed
            n == Len(messages)
<1>1. t \in Tools
  BY DEF AnswerInv, CallsOwed
<1>2. PICK c \in 1..n : directive < c /\ InRound(messages, c, failing, roundOk, roundFailed)
  BY DEF DirectiveInv, Rounds
<1>3. /\ messages \in Seq(Message) /\ failing \subseteq CrmTools
      /\ roundOk \subseteq CrmTools /\ roundFailed \subseteq CrmTools
      /\ DirectiveAt(messages, directive, failing)
  BY DEF DirectiveInv, TurnLocals, Placed
<1>4. Result(t, ok) \in Message /\ Result(t, ok).is = "result"
  BY <1>1, MessageFields
<1>5. /\ n \in Nat /\ msgs \in Seq(Message) /\ Len(msgs) = n + 1
      /\ msgs[n + 1] = Result(t, ok) /\ \A i \in 1..n : msgs[i] = messages[i]
  BY <1>3, <1>4
<1>6. InRound(msgs, c, failing, okd, bad)
  BY <1>1, <1>2, <1>3, ResultNoted
<1>7. directive \in 0..n /\ DirectiveAt(msgs, directive, failing)
  BY <1>3, <1>4, <1>5 DEF DirectiveAt
<1>8. /\ roundOk' = okd /\ roundFailed' = bad /\ okd \subseteq CrmTools /\ bad \subseteq CrmTools
      /\ UNCHANGED <<streak, prior, lastNamed>>
  BY <1>3 DEF CallEndsWith
<1>9. CASE Len(toCall) > 1
  <2>1. messages' = msgs /\ UNCHANGED <<agent, failing, directive>>
    BY <1>9 DEF CallEndsWith
  <2>. HIDE DEF t, msgs, okd, bad, n
  <2>2. Rounds'
    <3>1. c \in 1..Len(messages') /\ directive' < c
      BY <1>2, <1>5, <2>1
    <3>. QED BY <1>6, <1>8, <2>1, <3>1 DEF Rounds
  <2>3. Placed'
    BY <1>7, <1>8, <2>1 DEF Placed, DirectiveAt
  <2>. QED BY <1>3, <1>5, <1>8, <2>1, <2>2, <2>3
           DEF DirectiveInv, TurnLocals, AtRest, Asked, Counted, AsksModel, Working
<1>10. CASE ~(Len(toCall) > 1)
  <2>. DEFINE F == (failing \ okd) \cup (bad \ okd)
              kept == WithoutDirective(msgs)
              named == IF F = {} THEN kept ELSE Append(kept, DirectiveOn(F))
              d == IF F = {} THEN 0 ELSE Len(named)
  <2>1. EndsRound(msgs)
    BY <1>10 DEF CallEndsWith
  <2>2. /\ failing' = F /\ directive' = d
        /\ \/ messages' = named /\ agent' = "model"
           \/ messages' = Append(named, Instruction) /\ agent' = "forced"
    <3>1. failing' = F
      BY <1>8, <2>1 DEF EndsRound
    <3>2. CASE round = MaxRounds
      BY <2>1, <3>1, <3>2 DEF EndsRound
    <3>3. CASE round # MaxRounds
      BY <2>1, <3>1, <3>3 DEF EndsRound
    <3>. QED BY <3>1, <3>2, <3>3
  <2>3. F \in SUBSET CrmTools
    BY <1>3, <1>8
  <2>4. FailsAre(F, msgs, Len(msgs))
    BY <1>5, <1>6, RoundSettles
  <2>. HIDE DEF F
  <2>5. /\ kept \in Seq(Message) /\ FailsAre(F, kept, Len(kept))
        /\ \A i \in 1..Len(kept) : kept[i].is # "directive"
    <3>. HIDE DEF msgs
    <3>1. /\ directive \in 0..Len(msgs)
          /\ \A i \in 1..Len(msgs) : msgs[i].is = "directive" <=> i = directive
      BY <1>7 DEF DirectiveAt
    <3>. QED BY <1>5, <2>4, <3>1, Kept
  <2>. HIDE DEF t, msgs, okd, bad, n, kept
  <2>6. /\ named \in Seq(Message) /\ FailsAre(F, named, Len(named)) /\ DirectiveAt(named, d, F)
        /\ Behind(named, d)
    <3>1. CASE F = {}
      BY <2>5, <3>1 DEF DirectiveAt, Behind
    <3>2. CASE F # {}
      BY <2>3, <2>5, <3>2, Renewed
    <3>. QED BY <3>1, <3>2
  <2>. HIDE DEF named, d
  <2>7. /\ messages' \in Seq(Message) /\ FailsAre(F, messages', Len(messages'))
        /\ DirectiveAt(messages', d, F) /\ Behind(messages', d)
    BY <2>2, <2>6, Instructed
  <2>8. Asked' /\ Placed'
    BY <1>8, <2>2, <2>7 DEF Asked, Placed, DirectiveAt, Behind
  <2>. QED BY <1>8, <2>2, <2>3, <2>7, <2>8
           DEF DirectiveInv, TurnLocals, AtRest, Rounds, Counted, AsksModel, Working
<1>. QED BY <1>9, <1>10

(* What an answer's directive named is what counts as failing. *)
LEMMA NamedFailing ==
    ASSUME DirectiveInv, agent \in AsksModel PROVE Named = LabelsOf(failing)
<1>1. DirectiveAt(messages, directive, failing) /\ DOMAIN messages = 1..Len(messages)
  BY DEF DirectiveInv, Placed, TurnLocals
<1>2. {j \in DOMAIN messages : messages[j].is = "directive"} = {directive} \ {0}
  BY <1>1 DEF DirectiveAt
<1>3. CASE directive = 0
  BY <1>1, <1>2, <1>3 DEF Named, DirectiveAt, LabelsOf
<1>4. CASE directive # 0
  <2>1. Named = UNION {messages[i].labels : i \in {directive}}
    BY <1>2, <1>4 DEF Named
  <2>2. messages[directive].labels = LabelsOf(failing)
    BY <1>1, <1>4 DEF DirectiveAt
  <2>. QED BY <2>1, <2>2
<1>. QED BY <1>3, <1>4

LEMMA ModelAnswersStep ==
    ASSUME DirectiveInv, NEW usable \in BOOLEAN, NEW act, ModelAnswers(usable, act)
    PROVE  DirectiveInv'
<1>1. streak' = lastNamed'
  BY NamedFailing DEF ModelAnswers, AsksModel
<1>2. /\ agent \in {"model", "forced"} /\ messages \in Seq(Message)
      /\ FailsAre(failing, messages, Len(messages)) /\ Behind(messages, directive)
      /\ DirectiveAt(messages, directive, failing)
      /\ UNCHANGED <<failing, directive, prior, roundOk, roundFailed>>
  BY DEF ModelAnswers, DirectiveInv, TurnLocals, Asked, Placed, AsksModel, toolVars
<1>3. CASE usable
  BY <1>1, <1>2, <1>3
     DEF ModelAnswers, DirectiveInv, TurnLocals, AtRest, Rounds, Asked, Placed, Counted, AsksModel,
         Working
<1>4. CASE ~usable
  <2>1. agent' = "retry" /\ messages' \in {messages, Append(messages, Instruction)}
    BY <1>4 DEF ModelAnswers
  <2>2. /\ messages' \in Seq(Message) /\ FailsAre(failing, messages', Len(messages'))
        /\ DirectiveAt(messages', directive, failing) /\ Behind(messages', directive)
    BY <1>2, <2>1, Instructed
  <2>3. Asked' /\ Placed'
    BY <1>2, <2>1, <2>2 DEF Asked, Placed, DirectiveAt, Behind
  <2>. QED BY <1>1, <1>2, <2>1, <2>2, <2>3
           DEF DirectiveInv, TurnLocals, AtRest, Rounds, Counted, AsksModel, Working
<1>. QED BY <1>3, <1>4

LEMMA DirectiveStep ==
    AnswerInv /\ DirectiveInv /\ [ChatTurnNext]_chatTurnVars => DirectiveInv'
<1>. SUFFICES ASSUME AnswerInv, DirectiveInv, [ChatTurnNext]_chatTurnVars PROVE DirectiveInv'
  OBVIOUS
<1>1. CASE TurnStarts
  BY <1>1, TurnStartsStep
<1>2. ASSUME NEW cs \in Responses, ModelCalls(cs) PROVE DirectiveInv'
  BY <1>2, ModelCallsStep
<1>3. CASE LocalCall
  BY <1>3, CallStep DEF LocalCall
<1>4. CASE CallSkipped
  BY <1>4, CallStep DEF CallSkipped
<1>5. ASSUME NEW ok \in BOOLEAN, NEW took, CallReturns(ok, took) PROVE DirectiveInv'
  BY <1>5, CallStep DEF CallReturns
<1>6. ASSUME NEW usable \in BOOLEAN, NEW act, ModelAnswers(usable, act) PROVE DirectiveInv'
  BY <1>6, ModelAnswersStep
<1>. USE DEF DirectiveInv, TurnLocals, AtRest, Rounds, Asked, Placed, Counted, AsksModel, Working
<1>7. ASSUME NEW usable, NEW act, RetryEnds(usable, act) PROVE DirectiveInv'
  BY <1>7 DEF RetryEnds, toolVars, promptVars
<1>8. ASSUME DropsLocals, UNCHANGED <<streak, prior, lastNamed>>, agent' \in {"done", "failed"}
      PROVE  DirectiveInv'
  <2>1. <<>> \in Seq(Message)
    OBVIOUS
  <2>. QED BY <1>8, <2>1 DEF DropsLocals
<1>9. CASE Recorded \/ TurnFails
  BY <1>8, <1>9 DEF Recorded, TurnFails
<1>10. ASSUME UNCHANGED agentVars PROVE DirectiveInv'
  <2>1. /\ UNCHANGED <<agent, messages, failing, directive, roundOk, roundFailed>>
        /\ UNCHANGED <<streak, prior, lastNamed>>
    BY <1>10 DEF agentVars, toolVars, promptVars
  <2>. QED BY <2>1 DEF DirectiveAt, Behind
<1>11. CASE KeepaliveGoes \/ HandlerGoes \/ UNCHANGED chatTurnVars
  BY <1>10, <1>11
     DEF KeepaliveGoes, IntervalPasses, InterimSent, InterimFails, KeepaliveEnds, HandlerGoes,
         TurnOver, Drained, DrainExpires, Answered, AnswerFails, BotAgain, chatTurnVars
<1>. QED BY <1>1, <1>2, <1>3, <1>4, <1>5, <1>6, <1>7, <1>9, <1>11 DEF ChatTurnNext, AgentGoes

-----------------------------------------------------------------------------
(* What the messages say, and what the invariant says of them. *)

LEMMA RoundsCounted ==
    ASSUME NEW i \in Nat, NEW j \in Nat
    PROVE  /\ RoundBetween(messages, i, j) => RoundOf(i) < RoundOf(j)
           /\ messages[j].is # "calls" /\ ~RoundBetween(messages, i, j) => RoundOf(j) <= RoundOf(i)
<1>. DEFINE Begun(k) == {c \in 1..k : messages[c].is = "calls"}
<1>1. ASSUME NEW k \in Nat
      PROVE  IsFiniteSet(Begun(k)) /\ RoundOf(k) = Cardinality(Begun(k)) /\ RoundOf(k) \in Nat
  <2>1. IsFiniteSet(1..k)
    BY FS_Interval
  <2>2. IsFiniteSet(Begun(k))
    BY <2>1, FS_Subset
  <2>. QED BY <2>2, FS_CardinalityType DEF RoundOf
<1>2. ASSUME RoundBetween(messages, i, j) PROVE RoundOf(i) < RoundOf(j)
  <2>1. PICK c \in (i + 1)..(j - 1) : messages[c].is = "calls"
    BY <1>2 DEF RoundBetween
  <2>2. Begun(i) \subseteq Begun(j) /\ c \in Begun(j) /\ c \notin Begun(i)
    BY <2>1
  <2>3. Begun(i) # Begun(j)
    BY <2>2
  <2>. HIDE DEF Begun
  <2>. QED BY <1>1, <2>2, <2>3, FS_Subset
<1>3. ASSUME messages[j].is # "calls", ~RoundBetween(messages, i, j)
      PROVE  RoundOf(j) <= RoundOf(i)
  <2>1. Begun(j) \subseteq Begun(i)
    BY <1>3 DEF RoundBetween
  <2>. HIDE DEF Begun
  <2>. QED BY <1>1, <2>1, FS_Subset
<1>. QED BY <1>2, <1>3

LEMMA StillFailingIs ==
    ASSUME messages \in Seq(Message), NEW F \in SUBSET CrmTools,
           FailsAre(F, messages, Len(messages))
    PROVE  StillFailing = F
<1>. DEFINE n == Len(messages)
<1>1. n \in Nat /\ DOMAIN messages = 1..n
  OBVIOUS
<1>2. ASSUME NEW t PROVE ResultsOf(t) = {i \in 1..n : ResultOf(messages, i, t)}
  BY <1>1 DEF ResultsOf, ResultOf
<1>. HIDE DEF n
<1>3. ASSUME NEW i \in 1..n PROVE RoundOf(i) \in Nat
  <2>. DEFINE upTo == {c \in 1..i : messages[c].is = "calls"}
  <2>1. i \in Int /\ upTo \subseteq 1..i
    BY <1>1
  <2>2. IsFiniteSet(1..i)
    BY <2>1, FS_Interval
  <2>. HIDE DEF upTo
  <2>3. IsFiniteSet(upTo)
    BY <2>1, <2>2, FS_Subset
  <2>. QED BY <2>3, FS_CardinalityType DEF RoundOf, upTo
<1>4. ASSUME NEW i \in 1..n, NEW j \in 1..n, NEW t, ResultOf(messages, j, t)
      PROVE  RoundOf(j) <= RoundOf(i) <=> ~RoundBetween(messages, i, j)
  <2>1. messages[j].is # "calls" /\ i \in Nat /\ j \in Nat
    BY <1>1, <1>4 DEF ResultOf
  <2>. QED BY <1>3, <2>1, RoundsCounted
<1>5. ASSUME NEW t \in CrmTools, FailsIn(messages, n, t) PROVE t \in StillFailing
  <2>1. PICK i \in 1..n :
           /\ ResultOf(messages, i, t) /\ ~messages[i].ok
           /\ \A j \in 1..n : ResultOf(messages, j, t) =>
                 ~RoundBetween(messages, i, j) /\ (messages[j].ok => RoundBetween(messages, j, i))
    BY <1>5 DEF FailsIn
  <2>2. i \in Latest(t)
    BY <1>2, <1>4, <2>1 DEF Latest
  <2>3. ASSUME NEW j \in Latest(t) PROVE ~messages[j].ok
    <3>1. j \in 1..n /\ ResultOf(messages, j, t) /\ RoundOf(i) <= RoundOf(j)
      BY <1>2, <2>1, <2>3 DEF Latest
    <3>. QED BY <1>4, <2>1, <3>1
  <2>. QED BY <2>2, <2>3 DEF StillFailing
<1>6. ASSUME NEW t \in CrmTools, WorksIn(messages, n, t) PROVE t \notin StillFailing
  <2>1. CASE \A i \in 1..n : ~ResultOf(messages, i, t)
    BY <1>2, <2>1 DEF StillFailing, Latest
  <2>2. CASE \E i \in 1..n :
                /\ ResultOf(messages, i, t) /\ messages[i].ok
                /\ \A j \in 1..n : ResultOf(messages, j, t) => ~RoundBetween(messages, i, j)
    <3>1. PICK i \in 1..n :
             /\ ResultOf(messages, i, t) /\ messages[i].ok
             /\ \A j \in 1..n : ResultOf(messages, j, t) => ~RoundBetween(messages, i, j)
      BY <2>2
    <3>2. i \in Latest(t)
      BY <1>2, <1>4, <3>1 DEF Latest
    <3>. QED BY <3>1, <3>2 DEF StillFailing
  <2>. QED BY <1>6, <2>1, <2>2 DEF WorksIn
<1>7. StillFailing \subseteq CrmTools
  BY DEF StillFailing
<1>. QED BY <1>5, <1>6, <1>7 DEF FailsAre, n

LEMMA InvHonest == DirectiveInv => DirectiveHonest
<1>. SUFFICES ASSUME DirectiveInv, agent \in AsksModel PROVE DirectiveHonest
  BY DEF DirectiveHonest
<1>1. StillFailing = failing
  BY StillFailingIs DEF DirectiveInv, TurnLocals, Asked
<1>2. /\ DOMAIN messages = 1..Len(messages) /\ DirectiveAt(messages, directive, failing)
      /\ Behind(messages, directive)
  BY DEF DirectiveInv, TurnLocals, Asked, Placed
<1>3. Directives = {directive} \ {0}
  BY <1>2 DEF Directives, DirectiveAt
<1>4. agent # "retry" => prior = lastNamed
  BY DEF DirectiveInv, Counted, AsksModel
<1>. QED BY <1>1, <1>2, <1>3, <1>4 DEF DirectiveHonest, DirectiveAt, Behind

(* Any tools and labels, rounds, calls in a round, budget and number of turns: whenever the
   model is asked, it is told what could not be looked up, once and last, and of a human
   if that failed in the last answered turn too. *)
THEOREM DirectiveHonestHolds == ChatTurnSpec => []DirectiveHonest
<1>1. AnswerInv /\ DirectiveInv /\ [ChatTurnNext]_chatTurnVars => (AnswerInv /\ DirectiveInv)'
  BY AnswerStep, DirectiveStep
<1>. QED BY <1>1, AnswerInit, DirectiveInit, InvHonest, PTL DEF ChatTurnSpec

-----------------------------------------------------------------------------
(* ChatTurn: types. *)

(* A send that has begun is within the bound. *)
TurnTyped == ChatTurnTypeOK /\ (keepalive = "sending" => interims < MaxInterims)

LEMMA TurnTypedInit == ChatTurnInit => TurnTyped
<1>. SUFFICES ASSUME ChatTurnInit PROVE TurnTyped
  OBVIOUS
<1>. USE ChatTurnAssumption DEF ChatTurnInit
<1>1. round \in 1..MaxRounds /\ spent \in 0..Budget /\ directive \in 0..Len(messages)
      /\ turns \in 0..MaxTurns /\ interims \in 0..MaxInterims
  OBVIOUS
<1>2. instructed \in BOOLEAN /\ escalation \in BOOLEAN /\ requested \in BOOLEAN /\ late \in BOOLEAN
  OBVIOUS
<1>. QED BY <1>1, <1>2 DEF TurnTyped, ChatTurnTypeOK, Working, AsksModel, Deciding

(* The calls that are left are a response without its first ones. *)
LEMMA FewerCalls ==
    ASSUME NEW cs \in Responses PROVE Tail(cs) \in Responses \cup {<<>>}
<1>1. PICK n \in 1..MaxCalls : cs \in [1..n -> Tools]
  BY DEF Responses
<1>2. n \in Nat /\ n > 0 /\ cs \in Seq(Tools) /\ Len(cs) = n
  BY <1>1, ChatTurnAssumption
<1>3. Tail(cs) \in Seq(Tools) /\ Len(Tail(cs)) = n - 1
  BY <1>2
<1>4. CASE n = 1
  <2>1. Tail(cs) \in Seq(Tools) /\ Len(Tail(cs)) = 0
    BY <1>3, <1>4
  <2>2. \A s \in Seq(Tools) : s # <<>> => Len(s) \in Nat \ {0}
    BY EmptySeq
  <2>3. Tail(cs) = <<>>
    BY <2>1, <2>2
  <2>. QED BY <2>3
<1>5. CASE n # 1
  <2>1. Tail(cs) \in [1..(n - 1) -> Tools]
    BY <1>3, LenProperties
  <2>2. n - 1 \in 1..MaxCalls
    BY <1>2, <1>5, ChatTurnAssumption
  <2>. QED BY <2>1, <2>2 DEF Responses
<1>. QED BY <1>4, <1>5

(* A call takes no more than what is left of the budget. *)
LEMMA SliceFits ==
    ASSUME NEW took \in Nat, toCall \in Seq(Tools), toCall # <<>>, DrawsOnBudget(Head(toCall)),
           NEW left \in Int, took * CallsLeft <= left
    PROVE  took <= left
<1>. DEFINE Drawing == {i \in DOMAIN toCall : DrawsOnBudget(toCall[i])}
<1>1. DOMAIN toCall = 1..Len(toCall) /\ Len(toCall) \in Nat /\ Len(toCall) > 0
      /\ Head(toCall) = toCall[1]
  OBVIOUS
<1>2. 1 \in Drawing /\ Drawing \subseteq 1..Len(toCall) /\ IsFiniteSet(1..Len(toCall))
  BY <1>1, FS_Interval
<1>. HIDE DEF Drawing
<1>3. IsFiniteSet(Drawing)
  BY <1>2, FS_Subset
<1>4. Cardinality(Drawing) \in Nat /\ Cardinality(Drawing) # 0
  BY <1>2, <1>3, FS_CardinalityType, FS_EmptySet
<1>5. CallsLeft \in Nat /\ CallsLeft >= 1
  BY <1>4 DEF CallsLeft, Drawing
<1>6. \A k \in Nat : k >= 1 => took <= took * k
  OBVIOUS
<1>7. took * CallsLeft \in Nat /\ took <= took * CallsLeft
  BY <1>5, <1>6
<1>. QED BY <1>7

LEMMA CallTyped ==
    ASSUME TurnTyped, CallsOwed, agent = "tools", NEW ok \in BOOLEAN, CallEndsWith(ok),
           DirectiveInv'
    PROVE  /\ agent' \in Working /\ UNCHANGED <<streak, prior, lastNamed, action, requested>>
           /\ UNCHANGED <<handler, keepaliveVars, turns>>
           /\ round' \in 1..MaxRounds /\ toCall' \in Responses \cup {<<>>}
           /\ roundFailed' \subseteq CrmTools /\ roundOk' \subseteq CrmTools
           /\ failing' \subseteq CrmTools /\ directive' \in 0..Len(messages')
           /\ instructed' \in BOOLEAN
<1>1. toCall \in Responses /\ toCall' = Tail(toCall)
  BY DEF TurnTyped, ChatTurnTypeOK, CallEndsWith, CallsOwed
<1>2. toCall' \in Responses \cup {<<>>}
  BY <1>1, FewerCalls
<1>3. roundFailed' \subseteq CrmTools /\ roundOk' \subseteq CrmTools /\ failing' \subseteq CrmTools
  BY DEF DirectiveInv, TurnLocals
<1>4. agent' \in AsksModel \cup {"tools"} /\ round' \in 1..MaxRounds /\ instructed' \in BOOLEAN
  <2>1. CASE Len(toCall) > 1
    BY <2>1 DEF CallEndsWith, TurnTyped, ChatTurnTypeOK
  <2>2. CASE ~(Len(toCall) > 1)
    <3>1. /\ round \in 1..MaxRounds /\ instructed' = (round = MaxRounds)
          /\ agent' = IF round = MaxRounds THEN "forced" ELSE "model"
          /\ round' = IF round = MaxRounds THEN round ELSE round + 1
      BY <2>2 DEF CallEndsWith, EndsRound, TurnTyped, ChatTurnTypeOK
    <3>. QED BY <3>1, ChatTurnAssumption DEF AsksModel
  <2>. QED BY <2>1, <2>2
<1>5. directive' \in 0..Len(messages')
  BY <1>4 DEF DirectiveInv, Placed, DirectiveAt
<1>. QED BY <1>2, <1>3, <1>4, <1>5 DEF CallEndsWith, Working

LEMMA TurnTypedStep ==
    ASSUME TurnTyped, AnswerInv, DirectiveInv, AnswerInv', DirectiveInv',
           [ChatTurnNext]_chatTurnVars
    PROVE  TurnTyped'
<1>. USE ChatTurnAssumption DEF TurnTyped, ChatTurnTypeOK, Working, AsksModel, Deciding
<1>0. escalation' \in BOOLEAN /\ requested' \in BOOLEAN
  BY DEF AnswerInv, HumanOwed
<1>1. CASE TurnStarts
  <2>1. directive' = 0 /\ messages' = <<Said>> /\ Len(<<Said>>) = 1
    BY <1>1 DEF TurnStarts, DirectiveInv, TurnLocals, AtRest, AnswerInv, HandlerFits
  <2>. QED BY <1>0, <1>1, <2>1 DEF TurnStarts, toolVars
<1>2. ASSUME NEW cs \in Responses, ModelCalls(cs) PROVE TurnTyped'
  <2>1. directive' \in 0..Len(messages')
    BY <1>2 DEF ModelCalls, DirectiveInv, Placed, DirectiveAt
  <2>. QED BY <1>0, <1>2, <2>1 DEF ModelCalls, resultVars, keepaliveVars
<1>3. CASE LocalCall
  BY <1>0, <1>3, CallTyped DEF LocalCall, AnswerInv, keepaliveVars
<1>4. CASE CallSkipped
  BY <1>0, <1>4, CallTyped DEF CallSkipped, AnswerInv, keepaliveVars
<1>5. ASSUME NEW ok \in BOOLEAN, NEW took \in 0..Ceiling, CallReturns(ok, took) PROVE TurnTyped'
  <2>0. Left = Budget - spent /\ Left \in Int
    BY DEF Left
  <2>1. took <= Left
    <3>1. /\ took \in Nat /\ toCall \in Seq(Tools) /\ toCall # <<>>
          /\ DrawsOnBudget(Head(toCall)) /\ took * CallsLeft <= Left
      BY <1>5 DEF CallReturns, AnswerInv, CallsOwed
    <3>. HIDE DEF TurnTyped
    <3>. QED BY <2>0, <3>1, SliceFits
  <2>2. spent' \in 0..Budget
    BY <1>5, <2>0, <2>1 DEF CallReturns
  <2>. QED BY <1>0, <1>5, <2>2, CallTyped DEF CallReturns, AnswerInv, keepaliveVars
<1>6. ASSUME NEW usable \in BOOLEAN, NEW act \in {"none", "escalate"}, ModelAnswers(usable, act)
      PROVE  TurnTyped'
  <2>1. streak' \subseteq Labels /\ lastNamed' \subseteq Labels
    BY <1>6, NamedFailing DEF ModelAnswers, LabelsOf, Labels
  <2>2. directive' \in 0..Len(messages') /\ instructed' \in BOOLEAN /\ action' \in {"none", "escalate"}
        /\ agent' \in {"recording", "retry"}
    <3>1. CASE usable
      BY <1>6, <3>1 DEF ModelAnswers
    <3>2. CASE ~usable
      BY <1>6, <3>2 DEF ModelAnswers, DirectiveInv, Placed, DirectiveAt
    <3>. QED BY <3>1, <3>2
  <2>. QED BY <1>0, <1>6, <2>1, <2>2 DEF ModelAnswers, toolVars, keepaliveVars
<1>7. ASSUME NEW usable, NEW act \in {"none", "escalate"}, RetryEnds(usable, act) PROVE TurnTyped'
  BY <1>0, <1>7 DEF RetryEnds, toolVars, promptVars, keepaliveVars
<1>8. CASE Recorded \/ TurnFails
  <2>1. DropsLocals /\ agent' \in {"done", "failed"}
        /\ UNCHANGED <<streak, prior, lastNamed, action, handler, keepaliveVars, turns>>
    BY <1>8 DEF Recorded, TurnFails, resultVars
  <2>2. instructed' \in BOOLEAN
    BY <2>1 DEF DropsLocals
  <2>3. directive' \in 0..Len(messages')
    BY <2>1 DEF DropsLocals
  <2>4. /\ round' \in 1..MaxRounds /\ spent' \in 0..Budget /\ toCall' = <<>>
        /\ roundFailed' = {} /\ roundOk' = {} /\ failing' = {}
    BY <2>1 DEF DropsLocals
  <2>5. toCall' \in Responses \cup {<<>>}
    BY <2>4
  <2>6. /\ streak' \subseteq Labels /\ prior' \subseteq Labels /\ lastNamed' \subseteq Labels
        /\ action' \in {"none", "escalate"} /\ turns' \in 0..MaxTurns
        /\ handler' \in Deciding \cup {"receive", "reply", "error", "handover", "gone"}
    BY <2>1
  <2>7. /\ keepalive' \in {"none", "parked", "sending"} /\ stopping' \in {"no", "set", "cancelled"}
        /\ interims' \in 0..MaxInterims /\ (keepalive' = "sending" => interims' < MaxInterims)
        /\ late' \in BOOLEAN
    BY <2>1 DEF keepaliveVars
  <2>8. /\ agent' \in Working \cup {"idle", "done", "failed"} /\ roundFailed' \subseteq CrmTools
        /\ roundOk' \subseteq CrmTools /\ failing' \subseteq CrmTools
    BY <2>1, <2>4
  <2>. QED BY <1>0, <2>2, <2>3, <2>4, <2>5, <2>6, <2>7, <2>8
<1>9. CASE KeepaliveGoes
  <2>. USE DEF agentVars, toolVars, promptVars, resultVars
  <2>1. CASE IntervalPasses
    BY <2>1 DEF IntervalPasses
  <2>2. CASE InterimSent
    BY <2>2 DEF InterimSent
  <2>3. CASE InterimFails \/ KeepaliveEnds
    BY <2>3 DEF InterimFails, KeepaliveEnds
  <2>. QED BY <1>9, <2>1, <2>2, <2>3 DEF KeepaliveGoes
<1>10. CASE HandlerGoes
  BY <1>10 DEF HandlerGoes, TurnOver, Drained, DrainExpires, Answered, AnswerFails, BotAgain,
               Answers, AfterDrain, agentVars, toolVars, promptVars, resultVars, keepaliveVars
<1>11. CASE UNCHANGED chatTurnVars
  BY <1>11 DEF chatTurnVars, agentVars, toolVars, promptVars, resultVars, keepaliveVars
<1>. QED BY <1>1, <1>2, <1>3, <1>4, <1>5, <1>6, <1>7, <1>8, <1>9, <1>10, <1>11
         DEF ChatTurnNext, AgentGoes

(* Type correctness of the bot's turn; its tools never overrun the budget. *)
THEOREM ChatTurnTypeCorrect == ChatTurnSpec => []ChatTurnTypeOK
<1>1. AnswerInv /\ DirectiveInv /\ TurnTyped /\ [ChatTurnNext]_chatTurnVars
        => (AnswerInv /\ DirectiveInv /\ TurnTyped)'
  BY AnswerStep, DirectiveStep, TurnTypedStep
<1>2. TurnTyped => ChatTurnTypeOK
  BY DEF TurnTyped
<1>. QED BY <1>1, <1>2, AnswerInit, DirectiveInit, TurnTypedInit, PTL DEF ChatTurnSpec

-----------------------------------------------------------------------------
(* The two, side by side. *)

LEMMA EachOfTheWork == WorkSpec => Spec /\ ChatTurnSpec
<1>1. WorkInit => Init /\ ChatTurnInit
  BY DEF WorkInit
<1>2. [WorkNext]_workVars => [Next]_vars /\ [ChatTurnNext]_chatTurnVars
  BY DEF WorkNext, workVars
<1>. QED BY <1>1, <1>2, PTL DEF WorkSpec, Spec, ChatTurnSpec

(* The types of a deposit's verification and of the turn. *)
THEOREM WorkTypesCorrect == WorkSpec => []WorkTypesOK
<1>1. DepositTypeOK /\ ChatTurnTypeOK => WorkTypesOK
  BY DEF WorkTypesOK
<1>. QED BY <1>1, EachOfTheWork, TypeCorrect, ChatTurnTypeCorrect, PTL
=============================================================================
