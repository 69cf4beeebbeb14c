-------------------------- MODULE TimedStateProofs ---------------------------
(* Proofs about CallRecords and VoiceHandoff: for any calls, deliveries and registrations,
   any mix of kinds, any cap and any number of faults; for any sockets and tokens and any
   times that satisfy LockAssumption, by which a call's lock outlasts the renewals Redis
   may fail and the two Redis calls of its release. *)
EXTENDS CallRecords, VoiceHandoff, SequenceTheorems, FiniteSetTheorems, TLAPS

(* CallRecords. *)

Row == [status : Active \cup {"ended"}, outcome : CallOutcomes \cup {"none"}, old : BOOLEAN]
Handling == [at : {"counted", "joining", "connected", "missing", "waiting",
                   "answering", "building", "bridged", "leaving"}, call : Calls]
Registering == [at : {"missing"}, call : Calls]

-----------------------------------------------------------------------------
(* What a step does to the rows of one call: it keeps them, or inserts one. *)

Answers(c) == \E d \in Deliveries : AnswerWrites(d) /\ delivery[d].call = c

(* A row is revived only by an answer; a single row that has the last outcome reported
   still has it. *)
Kept(c) ==
    /\ rows'[c] \in Seq(Row) /\ Len(rows'[c]) = Len(rows[c])
    /\ \A i \in 1 .. Len(rows[c]) : rows[c][i].status = "ended" =>
          rows'[c][i].status = "ended" \/ (i = 1 /\ Answers(c) /\ c \in uncapped')
    /\ Len(rows[c]) = 0 => spoken'[c] = spoken[c]
    /\ Len(rows[c]) = 1 /\ rows[c][1].outcome = spoken[c] => rows'[c][1].outcome = spoken'[c]

Inserted(c) ==
    /\ rows'[c] = Append(rows[c], NewRow)
    /\ spoken' = spoken
    /\ \/ dial[c] = "dialled" /\ dial'[c] = "done"
       \/ \E d \in Deliveries :
             delivery[d].at = "missing" /\ delivery[d].call = c /\ delivery'[d].at = "waiting"
       \/ \E g \in Registrations :
             /\ registration[g].at = "missing" /\ registration[g].call = c
             /\ registration'[g] = Over /\ c \in uncapped'

RowsOK == rows \in [Calls -> Seq(Row)] /\ spoken \in [Calls -> CallOutcomes \cup {"none"}]

LEMMA RowKinds ==
    /\ NewRow \in Row /\ NewRow.outcome = "none" /\ NewRow.status # "ended"
    /\ \A row \in Row :
          /\ [row EXCEPT !.status = "answered"] \in Row
          /\ [row EXCEPT !.status = "answered"].outcome = row.outcome
          /\ \A o \in CallOutcomes \cup {"none"} :
                /\ Ended(row, o) \in Row /\ Ended(row, o).status = "ended"
                /\ Ended(row, o).outcome = IF o = "none" THEN row.outcome ELSE o
          /\ [row EXCEPT !.old = TRUE] \in Row
          /\ [row EXCEPT !.old = TRUE].status = row.status
          /\ [row EXCEPT !.old = TRUE].outcome = row.outcome
          /\ [row EXCEPT !.status = "ended"] \in Row
          /\ [row EXCEPT !.status = "ended"].status = "ended"
          /\ [row EXCEPT !.status = "ended"].outcome = row.outcome
BY DEF NewRow, Row, Active, CallOutcomes, Ended

LEMMA RowAt ==
    ASSUME RowsOK, NEW c \in Calls, NEW i \in 1 .. Len(rows[c])
    PROVE  rows[c][i] \in Row /\ Len(rows[c]) \in Nat
BY DEF RowsOK

LEMMA OneOfOne ==
    ASSUME NEW S, NEW q \in Seq(S), Len(q) = 1, NEW x \in S
    PROVE  LET p == [q EXCEPT ![1] = x] IN p \in Seq(S) /\ Len(p) = 1 /\ p[1] = x
<1>1. DOMAIN q = 1 .. 1
  BY ElementOfSeq
<1>2. [q EXCEPT ![1] = x] \in Seq(S) /\ Len([q EXCEPT ![1] = x]) = Len(q)
  BY ExceptSeq
<1>3. [q EXCEPT ![1] = x][1] = x
  BY <1>1
<1>. QED BY <1>2, <1>3

LEMMA OneRow ==
    ASSUME NEW q \in Seq(Row), Len(q) = 1, NEW x \in Row, NEW p, p = [q EXCEPT ![1] = x]
    PROVE  p \in Seq(Row) /\ Len(p) = 1 /\ p[1] = x
BY OneOfOne, Zenon

LEMMA KeptIfSame ==
    ASSUME RowsOK, NEW c \in Calls, rows'[c] = rows[c], spoken'[c] = spoken[c] PROVE Kept(c)
BY DEF RowsOK, Kept

(* The rows of a call one by one. *)
LEMMA KeptIfMapped ==
    ASSUME RowsOK, NEW c \in Calls, spoken'[c] = spoken[c], NEW F,
           rows'[c] = F, F = [i \in 1 .. Len(rows[c]) |-> F[i]],
           \A i \in 1 .. Len(rows[c]) :
               /\ F[i] \in Row /\ F[i].outcome = rows[c][i].outcome
               /\ rows[c][i].status = "ended" =>
                     F[i].status = "ended" \/ (i = 1 /\ Answers(c) /\ c \in uncapped')
    PROVE  Kept(c)
<1>1. Len(rows[c]) \in Nat
  BY DEF RowsOK
<1>2. F \in [1 .. Len(rows[c]) -> Row]
  OBVIOUS
<1>3. F \in Seq(Row) /\ Len(F) = Len(rows[c])
  BY <1>1, <1>2
<1>4. Len(rows[c]) = 1 => F[1].outcome = rows[c][1].outcome
  OBVIOUS
<1>. QED BY <1>1, <1>3, <1>4 DEF Kept

LEMMA MarkKeeps ==
    ASSUME RowsOK, NEW b \in Calls, MarkAnswered(b), spoken' = spoken,
           Answers(b), rows[b][1].status = "ended" => b \in uncapped', NEW c \in Calls
    PROVE  Kept(c)
<1>1. CASE c = b
  <2>. DEFINE F == [i \in 1 .. Len(rows[c]) |-> IF i = 1 THEN [rows[c][i] EXCEPT !.status = "answered"]
                                                ELSE rows[c][i]]
  <2>1. DOMAIN rows[c] = 1 .. Len(rows[c])
    BY DEF RowsOK
  <2>2. rows'[c] = [rows[c] EXCEPT ![1] = [rows[c][1] EXCEPT !.status = "answered"]]
    BY <1>1 DEF MarkAnswered, RowsOK
  <2>3. rows[c] = [i \in 1 .. Len(rows[c]) |-> rows[c][i]]
    BY <2>1 DEF RowsOK
  <2>4. rows'[c] = F
    BY <2>1, <2>2, <2>3
  <2>5. \A i \in 1 .. Len(rows[c]) :
            /\ F[i] \in Row /\ F[i].outcome = rows[c][i].outcome
            /\ rows[c][i].status = "ended" =>
                  F[i].status = "ended" \/ (i = 1 /\ Answers(c) /\ c \in uncapped')
    BY <1>1, RowAt, RowKinds
  <2>6. F = [i \in 1 .. Len(rows[c]) |-> F[i]]
    OBVIOUS
  <2>. HIDE DEF F
  <2>. QED BY <2>4, <2>5, <2>6, KeptIfMapped
<1>2. CASE c # b
  BY <1>2, KeptIfSame DEF MarkAnswered, RowsOK
<1>. QED BY <1>1, <1>2

LEMMA RecordKeeps ==
    ASSUME RowsOK, NEW b \in Calls, NEW o \in CallOutcomes \cup {"none"}, RecordOutcome(b, o),
           NEW c \in Calls
    PROVE  Kept(c)
<1>1. CASE Len(rows[b]) = 1 /\ c = b
  <2>1. rows'[c] = [rows[c] EXCEPT ![1] = Ended(rows[c][1], o)]
        /\ spoken'[c] = IF o = "none" THEN spoken[c] ELSE o
    BY <1>1 DEF RecordOutcome, RowsOK
  <2>0. rows[c] \in Seq(Row) /\ Len(rows[c]) = 1
    BY <1>1 DEF RowsOK
  <2>2. rows[c][1] \in Row
    BY <2>0, ElementOfSeq
  <2>3. rows'[c] \in Seq(Row) /\ Len(rows'[c]) = 1 /\ rows'[c][1] = Ended(rows[c][1], o)
    <3>1. Ended(rows[c][1], o) \in Row
      BY <2>2, RowKinds
    <3>2. rows'[c] = [rows[c] EXCEPT ![1] = Ended(rows[c][1], o)]
      BY <2>1
    <3>. QED BY <2>0, <3>1, <3>2, OneRow
  <2>4. /\ Ended(rows[c][1], o).status = "ended"
        /\ Ended(rows[c][1], o).outcome = IF o = "none" THEN rows[c][1].outcome ELSE o
    BY <2>2, RowKinds
  <2>5. \A i \in 1 .. Len(rows[c]) : i = 1
    BY <2>0
  <2>. QED BY <2>0, <2>1, <2>3, <2>4, <2>5 DEF Kept
<1>2. CASE ~(Len(rows[b]) = 1 /\ c = b)
  <2>1. rows'[c] = rows[c] /\ spoken'[c] = spoken[c]
    BY <1>2 DEF RecordOutcome, RowsOK
  <2>. QED BY <2>1, KeptIfSame
<1>. QED BY <1>1, <1>2

LEMMA InsertOne ==
    ASSUME RowsOK, NEW b \in Calls, InsertCall(b), spoken' = spoken, NEW c \in Calls
    PROVE  IF c = b THEN rows'[c] = Append(rows[c], NewRow) ELSE Kept(c)
<1>1. c # b => rows'[c] = rows[c] /\ spoken'[c] = spoken[c]
  BY DEF InsertCall, RowsOK
<1>2. c = b => rows'[c] = Append(rows[c], NewRow)
  BY DEF InsertCall, RowsOK
<1>. QED BY <1>1, <1>2, KeptIfSame

LEMMA GrowsKeeps == ASSUME RowsOK, NEW b \in Calls, Grows(b), NEW c \in Calls PROVE Kept(c)
<1>1. CASE c = b
  <2>. DEFINE F == [i \in DOMAIN rows[c] |-> [rows[c][i] EXCEPT !.old = TRUE]]
  <2>1. rows'[c] = F /\ spoken'[c] = spoken[c]
    BY <1>1 DEF Grows, RowsOK
  <2>2. DOMAIN rows[c] = 1 .. Len(rows[c])
    BY DEF RowsOK
  <2>3. \A i \in 1 .. Len(rows[c]) :
            /\ F[i] \in Row /\ F[i].outcome = rows[c][i].outcome
            /\ rows[c][i].status = "ended" => F[i].status = "ended"
    BY <2>2, RowAt, RowKinds
  <2>4. F = [i \in 1 .. Len(rows[c]) |-> F[i]]
    BY <2>2
  <2>. HIDE DEF F
  <2>. QED BY <2>1, <2>3, <2>4, KeptIfMapped
<1>2. CASE c # b
  BY <1>2, KeptIfSame DEF Grows, RowsOK
<1>. QED BY <1>1, <1>2

LEMMA ReapKeeps == ASSUME RowsOK, Reap, NEW c \in Calls PROVE Kept(c)
<1>. DEFINE F == [i \in RowsOf(c) |-> IF Stale(rows[c][i])
                                      THEN [rows[c][i] EXCEPT !.status = "ended"]
                                      ELSE rows[c][i]]
<1>1. rows'[c] = F /\ spoken'[c] = spoken[c]
  BY DEF Reap, RowsOK
<1>2. RowsOf(c) = 1 .. Len(rows[c])
  BY DEF RowsOK, RowsOf
<1>3. \A i \in 1 .. Len(rows[c]) :
          /\ F[i] \in Row /\ F[i].outcome = rows[c][i].outcome
          /\ rows[c][i].status = "ended" => F[i].status = "ended"
  BY <1>2, RowAt, RowKinds
<1>4. F = [i \in 1 .. Len(rows[c]) |-> F[i]]
  BY <1>2
<1>. HIDE DEF F
<1>. QED BY <1>1, <1>3, <1>4, KeptIfMapped

(* Where a delivery and a registration are, and of which call. *)
DeliveryOK == delivery \in [Deliveries -> {Nowhere, Over} \cup Handling]
RegistrationOK == registration \in [Registrations -> {Nowhere, Over} \cup Registering]
OthersOK ==
    /\ kind \in [Calls -> AllKinds] /\ phone \in [Calls -> {"none", "up", "over"}]
    /\ dial \in [Calls -> {"new", "checked", "dialled", "done"}]
    /\ inFlight \subseteq Calls /\ pending \in [Calls -> {"none", "first", "again"}]
    /\ uncapped \subseteq Calls /\ twin \subseteq Calls /\ callFaults \in Nat

LEMMA BusyDelivery ==
    ASSUME DeliveryOK, NEW d \in Deliveries, delivery[d].at \notin {"idle", "done"}
    PROVE  delivery[d] \in Handling
BY DEF DeliveryOK, Nowhere, Over

LEMMA BusyRegistration ==
    ASSUME RegistrationOK, NEW g \in Registrations, registration[g].at = "missing"
    PROVE  registration[g] \in Registering
BY DEF RegistrationOK, Nowhere, Over

LEMMA RowsEffect ==
    ASSUME RowsOK, DeliveryOK, RegistrationOK, OthersOK, CallsNext, NEW c \in Calls
    PROVE  Kept(c) \/ Inserted(c)
<1>1. CASE UNCHANGED <<rows, spoken>>
  BY <1>1, KeptIfSame
<1>2. ASSUME NEW b \in Calls, Grows(b) PROVE Kept(c)
  BY <1>2, GrowsKeeps
<1>3. CASE Reap
  BY <1>3, ReapKeeps
<1>4. ASSUME NEW b \in Calls, RecordLead(b) PROVE Kept(c) \/ Inserted(c)
  <2>1. dial'[b] = "done"
    BY <1>4 DEF RecordLead, At, OthersOK
  <2>. QED BY <1>4, <2>1, InsertOne DEF RecordLead, Inserted
<1>5. ASSUME NEW b \in Calls, HandsOver(b) PROVE Kept(c)
  BY <1>5, RecordKeeps DEF HandsOver, CallOutcomes
<1>6. ASSUME NEW g \in Registrations, RegisterInserts(g) PROVE Kept(c) \/ Inserted(c)
  <2>1. registration[g].call \in Calls
    BY <1>6, BusyRegistration DEF RegisterInserts, Registering
  <2>2. registration'[g] = Over
    BY <1>6 DEF RegisterInserts, RegistrationOK
  <2>. QED BY <1>1, <1>6, <2>1, <2>2, InsertOne DEF RegisterInserts, Inserted
<1>7. ASSUME NEW d \in Deliveries, EnsureRowInserts(d) PROVE Kept(c) \/ Inserted(c)
  <2>1. delivery[d].call \in Calls
    BY <1>7, BusyDelivery DEF EnsureRowInserts, Handling
  <2>2. delivery'[d].at = "waiting"
    BY <1>7, BusyDelivery DEF EnsureRowInserts, Moves, DeliveryOK, Handling
  <2>. QED BY <1>1, <1>7, <2>1, <2>2, InsertOne DEF EnsureRowInserts, Inserted
<1>8. ASSUME NEW d \in Deliveries, TrackTimesOut(d) \/ BuildBridge(d) \/ BridgeEnds(d)
      PROVE  Kept(c)
  <2>1. delivery[d].call \in Calls
    BY <1>8, BusyDelivery DEF TrackTimesOut, BuildBridge, BridgeEnds, Handling
  <2>. QED BY <1>1, <1>8, <2>1, RecordKeeps, KeptIfSame
           DEF TrackTimesOut, BuildBridge, BridgeEnds, CallOutcomes
<1>9. ASSUME NEW d \in Deliveries, AnswerWrites(d) PROVE Kept(c)
  <2>1. delivery[d].call \in Calls
    BY <1>9, BusyDelivery DEF AnswerWrites, Handling
  <2>2. Answers(delivery[d].call) /\ spoken' = spoken
    BY <1>9 DEF Answers, AnswerWrites
  <2>3. CASE UNCHANGED rows
    BY <2>2, <2>3, KeptIfSame
  <2>4. CASE MarkAnswered(delivery[d].call)
              /\ (rows[delivery[d].call][1].status = "ended" => delivery[d].call \in uncapped')
    BY <2>1, <2>2, <2>4, MarkKeeps
  <2>. QED BY <1>9, <2>3, <2>4 DEF AnswerWrites
<1>. QED BY <1>1, <1>2, <1>3, <1>4, <1>5, <1>6, <1>7, <1>8, <1>9
         DEF CallsNext, RunnerGoes, CheckCap, NotDialled, InitiateCall, Rings, HangsUp,
             RegisterLooks, Webhook, ClaimRoom, Connect, EnsureRowLooks, TrackArrives,
             Disconnect, ProcessRestarts

-----------------------------------------------------------------------------
(* Type correctness. *)

LEMMA CallsTypeSplit == CallsTypeOK <=> RowsOK /\ DeliveryOK /\ RegistrationOK /\ OthersOK
BY DEF CallsTypeOK, RowsOK, DeliveryOK, RegistrationOK, OthersOK, Row, Handling, Registering

LEMMA TypeInit == CallsInit => CallsTypeOK
<1>. SUFFICES ASSUME CallsInit PROVE CallsTypeOK
  OBVIOUS
<1>1. \A c \in Calls : rows[c] = <<>>
  BY DEF CallsInit
<1>2. RowsOK
  BY DEF CallsInit, RowsOK
<1>3. DeliveryOK /\ RegistrationOK
  BY DEF CallsInit, DeliveryOK, RegistrationOK
<1>4. kind \in [Calls -> AllKinds]
  BY CallKindsAssumption DEF CallsInit
<1>5. OthersOK
  BY <1>4 DEF CallsInit, OthersOK
<1>. QED BY <1>2, <1>3, <1>5, CallsTypeSplit

LEMMA RowsStep ==
    ASSUME RowsOK, DeliveryOK, RegistrationOK, OthersOK, CallsNext PROVE RowsOK'
<1>1. rows' = [c \in Calls |-> rows'[c]]
  BY DEF RowsOK, CallsNext, RunnerGoes, InsertCall, MarkAnswered, RecordOutcome, Grows, Reap,
         CheckCap, NotDialled, InitiateCall, RecordLead, RegisterLooks, RegisterInserts, Rings,
         HangsUp, HandsOver, Webhook, ClaimRoom, Connect, EnsureRowLooks, EnsureRowInserts,
         TrackTimesOut, TrackArrives, AnswerWrites, BuildBridge, BridgeEnds, Disconnect, ProcessRestarts
<1>2. \A c \in Calls : rows'[c] \in Seq(Row)
  <2>. SUFFICES ASSUME NEW c \in Calls PROVE rows'[c] \in Seq(Row)
    OBVIOUS
  <2>1. CASE Kept(c)
    BY <2>1 DEF Kept
  <2>2. CASE Inserted(c)
    <3>1. rows[c] \in Seq(Row) /\ NewRow \in Row
      BY RowKinds DEF RowsOK
    <3>. QED BY <2>2, <3>1, AppendProperties DEF Inserted
  <2>. QED BY <2>1, <2>2, RowsEffect
<1>3. spoken' \in [Calls -> CallOutcomes \cup {"none"}]
  <2>1. ASSUME NEW c, NEW o \in CallOutcomes \cup {"none"}, RecordOutcome(c, o)
        PROVE  spoken' \in [Calls -> CallOutcomes \cup {"none"}]
    BY <2>1 DEF RecordOutcome, RowsOK
  <2>2. CASE UNCHANGED spoken
    BY <2>2 DEF RowsOK
  <2>3. "none" \in CallOutcomes \cup {"none"} /\ "talked" \in CallOutcomes
        /\ "no_answer" \in CallOutcomes /\ "call_failed" \in CallOutcomes
    BY DEF CallOutcomes
  <2>. QED BY <2>1, <2>2, <2>3
           DEF CallsNext, RunnerGoes, Grows, Reap,
         CheckCap, NotDialled, InitiateCall, RecordLead, RegisterLooks, RegisterInserts, Rings,
         HangsUp, HandsOver, Webhook, ClaimRoom, Connect, EnsureRowLooks, EnsureRowInserts,
         TrackTimesOut, TrackArrives, AnswerWrites, BuildBridge, BridgeEnds, Disconnect, ProcessRestarts
<1>. QED BY <1>1, <1>2, <1>3 DEF RowsOK

(* What a step does to one delivery. *)
Places == {"joining", "connected", "missing", "waiting", "answering", "building", "bridged",
           "leaving"}
Goes(e, place) ==
    delivery[e] \in Handling /\ delivery'[e] = [delivery[e] EXCEPT !.at = place]

(* What is seen there: no row, or a row that is not answered. *)
Seen(e, place) ==
    /\ place = "missing" => EnsureRowLooks(e) /\ rows[delivery[e].call] = <<>>
    /\ place = "answering" => TrackArrives(e)

LEMMA MovesOne ==
    ASSUME DeliveryOK, NEW d \in Deliveries, NEW e \in Deliveries, NEW place,
           delivery[d] \in Handling, Moves(d, place)
    PROVE  IF e = d THEN Goes(e, place) ELSE delivery'[e] = delivery[e]
BY DEF DeliveryOK, Moves, Goes

LEMMA LeavesOne ==
    ASSUME DeliveryOK, NEW d \in Deliveries, NEW e \in Deliveries, Leaves(d)
    PROVE  IF e = d THEN delivery'[e] = Over ELSE delivery'[e] = delivery[e]
BY DEF DeliveryOK, Leaves

LEMMA DeliveryEffect ==
    ASSUME DeliveryOK, CallsNext, NEW e \in Deliveries
    PROVE  \/ delivery'[e] \in {delivery[e], Over}
           \/ \E place \in Places : Goes(e, place) /\ Seen(e, place)
           \/ \E c \in Calls : Webhook(e, c) /\ delivery'[e] = [at |-> "counted", call |-> c]
<1>1. ASSUME NEW d \in Deliveries, RunnerGoes(d)
      PROVE  \/ delivery'[e] \in {delivery[e], Over}
             \/ \E place \in Places : Goes(e, place) /\ Seen(e, place)
  <2>1. delivery[d] \in Handling
    BY <1>1, BusyDelivery DEF RunnerGoes, ClaimRoom, Connect, EnsureRowLooks, EnsureRowInserts,
         TrackTimesOut, TrackArrives, AnswerWrites, BuildBridge, BridgeEnds, Disconnect
  <2>2. Leaves(d) \/ \E place \in Places : Moves(d, place) /\ Seen(d, place)
    BY <1>1 DEF RunnerGoes, ClaimRoom, Connect, EnsureRowLooks, EnsureRowInserts, RowMissing,
         TrackTimesOut, TrackArrives, AnswerWrites, BuildBridge, BridgeEnds, Disconnect, Places, Seen
  <2>. QED BY <2>1, <2>2, MovesOne, LeavesOne
<1>2. ASSUME NEW d \in Deliveries, NEW c \in Calls, Webhook(d, c)
      PROVE  \/ delivery'[e] \in {delivery[e], Over}
             \/ Webhook(e, c) /\ delivery'[e] = [at |-> "counted", call |-> c]
  BY <1>2, LeavesOne DEF Webhook, Counted, DeliveryOK
<1>3. ASSUME ProcessRestarts PROVE delivery'[e] \in {delivery[e], Over}
  BY <1>3 DEF ProcessRestarts
<1>4. CASE UNCHANGED delivery
  BY <1>4
<1>. QED BY <1>1, <1>2, <1>3, <1>4
         DEF CallsNext, Grows, Reap, CheckCap, NotDialled, InitiateCall, RecordLead,
             RegisterLooks, RegisterInserts, Rings, HangsUp, HandsOver

LEMMA DeliveryStep == ASSUME DeliveryOK, CallsNext PROVE DeliveryOK'
<1>1. delivery' = [e \in Deliveries |-> delivery'[e]]
  BY DEF DeliveryOK, CallsNext, RunnerGoes, Moves, Leaves, Counted, Grows, Reap,
         CheckCap, NotDialled, InitiateCall, RecordLead, RegisterLooks, RegisterInserts, Rings,
         HangsUp, HandsOver, Webhook, ClaimRoom, Connect, EnsureRowLooks, EnsureRowInserts,
         TrackTimesOut, TrackArrives, AnswerWrites, BuildBridge, BridgeEnds, Disconnect, ProcessRestarts
<1>2. \A e \in Deliveries : delivery'[e] \in {Nowhere, Over} \cup Handling
  <2>. SUFFICES ASSUME NEW e \in Deliveries PROVE delivery'[e] \in {Nowhere, Over} \cup Handling
    OBVIOUS
  <2>1. CASE delivery'[e] \in {delivery[e], Over}
    BY <2>1 DEF DeliveryOK
  <2>2. ASSUME NEW place \in Places, Goes(e, place) PROVE delivery'[e] \in Handling
    BY <2>2 DEF Goes, Handling, Places
  <2>3. ASSUME NEW c \in Calls, delivery'[e] = [at |-> "counted", call |-> c]
        PROVE  delivery'[e] \in Handling
    BY <2>3 DEF Handling
  <2>. QED BY <2>1, <2>2, <2>3, DeliveryEffect
<1>. QED BY <1>1, <1>2 DEF DeliveryOK

LEMMA RegistrationStep == ASSUME RegistrationOK, CallsNext PROVE RegistrationOK'
<1>1. ASSUME NEW g \in Registrations, NEW c \in Calls, RegisterLooks(g, c) PROVE RegistrationOK'
  <2>1. [at |-> "missing", call |-> c] \in Registering
    BY DEF Registering
  <2>. QED BY <1>1, <2>1 DEF RegisterLooks, RegistrationOK
<1>2. ASSUME NEW g \in Registrations, RegisterInserts(g) PROVE RegistrationOK'
  BY <1>2 DEF RegisterInserts, RegistrationOK
<1>3. CASE ProcessRestarts
  BY <1>3 DEF ProcessRestarts, RegistrationOK
<1>4. CASE UNCHANGED registration
  BY <1>4 DEF RegistrationOK
<1>. QED BY <1>1, <1>2, <1>3, <1>4
         DEF CallsNext, RunnerGoes, Grows, Reap,
         CheckCap, NotDialled, InitiateCall, RecordLead, Rings,
         HangsUp, HandsOver, Webhook, ClaimRoom, Connect, EnsureRowLooks, EnsureRowInserts,
         TrackTimesOut, TrackArrives, AnswerWrites, BuildBridge, BridgeEnds, Disconnect

LEMMA OthersStep == ASSUME OthersOK, DeliveryOK, RegistrationOK, CallsNext PROVE OthersOK'
<1>1. ASSUME NEW c \in Calls, CheckCap(c) \/ NotDialled(c) \/ InitiateCall(c) \/ RecordLead(c)
      PROVE  OthersOK'
  BY <1>1 DEF OthersOK, CheckCap, NotDialled, InitiateCall, RecordLead, At, Crowds
<1>2. ASSUME NEW c \in Calls, Rings(c) \/ HangsUp(c) PROVE OthersOK'
  BY <1>2 DEF OthersOK, Rings, HangsUp
<1>3. ASSUME NEW c \in Calls, Grows(c) \/ HandsOver(c) PROVE OthersOK'
  BY <1>3 DEF OthersOK, Grows, HandsOver
<1>4. ASSUME NEW c \in Calls, NEW g \in Registrations, RegisterLooks(g, c) PROVE OthersOK'
  BY <1>4 DEF OthersOK, RegisterLooks, Looks
<1>5. ASSUME NEW c \in Calls, NEW d \in Deliveries, Webhook(d, c) PROVE OthersOK'
  BY <1>5 DEF OthersOK, Webhook, Crowds
<1>6. ASSUME NEW g \in Registrations, RegisterInserts(g) PROVE OthersOK'
  BY <1>6, BusyRegistration DEF OthersOK, RegisterInserts, Registering
<1>7. ASSUME NEW d \in Deliveries, RunnerGoes(d) PROVE OthersOK'
  <2>1. delivery[d].call \in Calls
    BY <1>7, BusyDelivery DEF Handling, RunnerGoes, ClaimRoom, Connect, EnsureRowLooks,
         EnsureRowInserts, TrackTimesOut, TrackArrives, AnswerWrites, BuildBridge, BridgeEnds, Disconnect
  <2>. QED BY <1>7, <2>1 DEF OthersOK, RunnerGoes, ClaimRoom, Connect, EnsureRowLooks,
         EnsureRowInserts, TrackTimesOut, TrackArrives, AnswerWrites, BuildBridge, BridgeEnds, Disconnect,
         Unclaimed, Looks
<1>8. CASE Reap \/ ProcessRestarts
  BY <1>8 DEF OthersOK, Reap, ProcessRestarts
<1>. QED BY <1>1, <1>2, <1>3, <1>4, <1>5, <1>6, <1>7, <1>8 DEF CallsNext

LEMMA CallsTypeStep == CallsTypeOK /\ [CallsNext]_callVars => CallsTypeOK'
<1>1. CallsTypeOK /\ UNCHANGED callVars => CallsTypeOK'
  BY DEF CallsTypeOK, callVars
<1>2. CallsTypeOK /\ CallsNext => CallsTypeOK'
  <2>1. (RowsOK /\ DeliveryOK /\ RegistrationOK /\ OthersOK)' => CallsTypeOK'
    BY CallsTypeSplit, PTL
  <2>. QED BY <2>1, CallsTypeSplit, RowsStep, DeliveryStep, RegistrationStep, OthersStep
<1>. QED BY <1>1, <1>2

(* The type invariant of the call records (CallRecords.CallsTypeOK). *)
THEOREM CallsTypeCorrect == CallsSpec => []CallsTypeOK
BY TypeInit, CallsTypeStep, PTL DEF CallsSpec

-----------------------------------------------------------------------------
(* One agent per room: whoever is in a room holds its claim. *)

RoomsClaimed == \A d \in Deliveries : InRoom(d) => delivery[d].call \in inFlight
RoomInv == CallsTypeOK /\ RoomsClaimed /\ OneAgentPerRoom

LEMMA RoomIsHandled ==
    ASSUME DeliveryOK, NEW d \in Deliveries, InRoom(d) PROVE delivery[d] \in Handling
BY BusyDelivery DEF InRoom

(* Steps that bring nobody into a room and drop no claim of one who stays. *)
LEMMA RoomKept ==
    ASSUME RoomInv,
           \A e \in Deliveries : InRoom(e)' =>
               InRoom(e) /\ delivery'[e].call = delivery[e].call /\ delivery[e].call \in inFlight'
    PROVE  (RoomsClaimed /\ OneAgentPerRoom)'
BY DEF RoomInv, RoomsClaimed, OneAgentPerRoom

LEMMA RoomStep == RoomInv /\ CallsNext => (RoomsClaimed /\ OneAgentPerRoom)'
<1>. SUFFICES ASSUME RoomInv, CallsNext PROVE (RoomsClaimed /\ OneAgentPerRoom)'
  OBVIOUS
<1>0. DeliveryOK
  BY CallsTypeSplit DEF RoomInv
<1>1. ASSUME NEW d \in Deliveries, ClaimRoom(d) PROVE (RoomsClaimed /\ OneAgentPerRoom)'
  <2>1. delivery[d] \in Handling /\ ~InRoom(d)
    BY <1>0, <1>1, BusyDelivery DEF ClaimRoom, InRoom
  <2>2. CASE delivery[d].call \in inFlight
    <3>1. Leaves(d) /\ UNCHANGED inFlight
      BY <1>1, <2>2 DEF ClaimRoom, InFlight
    <3>2. \A e \in Deliveries : InRoom(e)' => InRoom(e) /\ delivery'[e] = delivery[e]
      BY <1>0, <3>1, LeavesOne DEF InRoom, Over
    <3>. QED BY <3>1, <3>2, RoomKept DEF RoomInv, RoomsClaimed
  <2>3. CASE delivery[d].call \notin inFlight
    <3>1. Moves(d, "joining") /\ inFlight' = inFlight \cup {delivery[d].call}
      BY <1>1, <2>3 DEF ClaimRoom, InFlight
    <3>2. \A e \in Deliveries : e # d => delivery'[e] = delivery[e]
      BY <1>0, <2>1, <3>1, MovesOne
    <3>3. delivery'[d].call = delivery[d].call
      BY <1>0, <2>1, <3>1, MovesOne DEF Goes, Handling
    <3>4. \A e \in Deliveries : InRoom(e) => delivery[e].call # delivery[d].call
      BY <2>3 DEF RoomInv, RoomsClaimed
    <3>5. \A e \in Deliveries : e # d => (InRoom(e)' <=> InRoom(e))
      BY <3>2 DEF InRoom
    <3>6. RoomsClaimed'
      BY <3>1, <3>2, <3>3, <3>5 DEF RoomInv, RoomsClaimed
    <3>7. OneAgentPerRoom'
      BY <3>2, <3>3, <3>4, <3>5 DEF RoomInv, OneAgentPerRoom
    <3>. QED BY <3>6, <3>7
  <2>. QED BY <2>2, <2>3
<1>2. ASSUME NEW d \in Deliveries, Disconnect(d) PROVE (RoomsClaimed /\ OneAgentPerRoom)'
  <2>1. InRoom(d) /\ Leaves(d) /\ inFlight' = inFlight \ {delivery[d].call}
    BY <1>2 DEF Disconnect, InRoom, Unclaimed
  <2>2. \A e \in Deliveries : InRoom(e)' => e # d /\ InRoom(e) /\ delivery'[e] = delivery[e]
    BY <1>0, <2>1, LeavesOne DEF InRoom, Over
  <2>3. \A e \in Deliveries : InRoom(e)' => delivery[e].call # delivery[d].call
    BY <2>1, <2>2 DEF RoomInv, OneAgentPerRoom
  <2>. QED BY <2>1, <2>2, <2>3, RoomKept DEF RoomInv, RoomsClaimed
<1>3. ASSUME NEW d \in Deliveries,
             Connect(d) \/ EnsureRowLooks(d) \/ EnsureRowInserts(d) \/ TrackTimesOut(d)
             \/ TrackArrives(d) \/ AnswerWrites(d) \/ BuildBridge(d) \/ BridgeEnds(d)
      PROVE  (RoomsClaimed /\ OneAgentPerRoom)'
  <2>1. InRoom(d) /\ UNCHANGED inFlight
    BY <1>3 DEF InRoom, Connect, EnsureRowLooks, EnsureRowInserts, TrackTimesOut, TrackArrives, AnswerWrites,
                BuildBridge, BridgeEnds
  <2>2. PICK place \in Places : Moves(d, place)
    BY <1>3 DEF Places, Connect, EnsureRowLooks, EnsureRowInserts, TrackTimesOut, TrackArrives, AnswerWrites,
                BuildBridge, BridgeEnds
  <2>3. \A e \in Deliveries : IF e = d THEN Goes(e, place) ELSE delivery'[e] = delivery[e]
    BY <1>0, <2>1, <2>2, RoomIsHandled, MovesOne
  <2>4. \A e \in Deliveries : InRoom(e)' => InRoom(e) /\ delivery'[e].call = delivery[e].call
    BY <2>1, <2>3 DEF Goes, Handling, InRoom
  <2>. QED BY <2>1, <2>4, RoomKept DEF RoomInv, RoomsClaimed
<1>4. ASSUME NEW d \in Deliveries, NEW c \in Calls, Webhook(d, c)
      PROVE  (RoomsClaimed /\ OneAgentPerRoom)'
  <2>1. UNCHANGED inFlight
        /\ \A e \in Deliveries : delivery'[e] = delivery[e] \/ ~InRoom(e)'
    BY <1>0, <1>4, LeavesOne DEF Webhook, Counted, InRoom, DeliveryOK, Over
  <2>. QED BY <2>1, RoomKept DEF InRoom, RoomInv, RoomsClaimed
<1>5. CASE ProcessRestarts
  <2>1. \A e \in Deliveries : ~InRoom(e)'
    BY <1>5 DEF ProcessRestarts, InRoom, Nowhere, Over
  <2>. QED BY <2>1, RoomKept
<1>6. CASE UNCHANGED <<delivery, inFlight>>
  BY <1>6, RoomKept DEF InRoom, RoomInv, RoomsClaimed
<1>. QED BY <1>1, <1>2, <1>3, <1>4, <1>5, <1>6
         DEF CallsNext, RunnerGoes, Grows, Reap, CheckCap, NotDialled, InitiateCall, RecordLead,
             RegisterLooks, RegisterInserts, Rings, HangsUp, HandsOver

LEMMA RoomInvHolds == CallsSpec => []RoomInv
<1>1. CallsInit => RoomInv
  <2>. SUFFICES ASSUME CallsInit PROVE RoomInv
    OBVIOUS
  <2>1. \A d \in Deliveries : ~InRoom(d)
    BY DEF CallsInit, InRoom, Nowhere
  <2>. QED BY <2>1, TypeInit DEF RoomInv, RoomsClaimed, OneAgentPerRoom
<1>2. RoomInv /\ UNCHANGED callVars => RoomInv'
  BY DEF RoomInv, CallsTypeOK, RoomsClaimed, OneAgentPerRoom, InRoom, callVars
<1>3. RoomInv /\ CallsNext => RoomInv'
  BY RoomStep, CallsTypeStep DEF RoomInv
<1>. QED BY <1>1, <1>2, <1>3, PTL DEF CallsSpec

(* However often LiveKit repeats a webhook, two agents never sit in one room
   (CallRecords.OneAgentPerRoom). *)
THEOREM OneAgentPerRoomHolds == CallsSpec => []OneAgentPerRoom
BY RoomInvHolds, PTL DEF RoomInv

-----------------------------------------------------------------------------
(* Who may insert a row. *)

LeadsAreNew ==
    \A c \in Calls :
        /\ dial[c] # "new" => kind[c] = "lead"
        /\ kind[c] = "lead" /\ dial[c] # "done" => rows[c] = <<>>
Missed(c) == [at |-> "missing", call |-> c]
KindsFit ==
    /\ \A d \in Deliveries : delivery[d] \in Handling => kind[delivery[d].call] = "room"
    /\ \A g \in Registrations, c \in Calls : registration[g] = Missed(c) => kind[c] # "lead"
    /\ \A c \in Calls : pending[c] # "none" => kind[c] # "room"
LookersMeet ==
    \A c \in Calls, g \in Registrations : registration[g] = Missed(c) =>
        /\ \A h \in Registrations \ {g} : registration[h] = Missed(c) => c \in twin
        /\ \A d \in Deliveries : delivery[d] = Missed(c) => c \in twin
LookersInsertFirst == \A c \in Calls : Looked(c) /\ rows[c] # <<>> => c \in twin
OutcomeKept ==
    \A c \in Calls :
        /\ Len(rows[c]) = 0 => spoken[c] = "none"
        /\ Len(rows[c]) > 1 => c \in twin
        /\ Len(rows[c]) = 1 => rows[c][1].outcome = spoken[c]

RowInv == RoomInv /\ LeadsAreNew /\ KindsFit /\ LookersMeet /\ LookersInsertFirst /\ OutcomeKept

LEMMA RowInvInit == CallsInit => RowInv
<1>. SUFFICES ASSUME CallsInit PROVE RowInv
  OBVIOUS
<1>1. RoomInv
  <2>1. \A d \in Deliveries : ~InRoom(d)
    BY DEF CallsInit, InRoom, Nowhere
  <2>. QED BY <2>1, TypeInit DEF RoomInv, RoomsClaimed, OneAgentPerRoom
<1>2. LeadsAreNew /\ OutcomeKept
  BY DEF CallsInit, LeadsAreNew, OutcomeKept
<1>3. \A d \in Deliveries : delivery[d] \notin Handling
  <2>1. \A d \in Deliveries : delivery[d].at = "idle"
    BY DEF CallsInit, Nowhere
  <2>. QED BY <2>1 DEF Handling
<1>4. \A g \in Registrations, c \in Calls : registration[g] # Missed(c)
  BY DEF CallsInit, Nowhere, Missed
<1>5. KindsFit /\ LookersMeet
  BY <1>3, <1>4 DEF CallsInit, KindsFit, LookersMeet
<1>6. LookersInsertFirst
  BY DEF CallsInit, LookersInsertFirst
<1>. QED BY <1>1, <1>2, <1>5, <1>6 DEF RowInv

LEMMA KindStays == CallsNext => kind' = kind /\ twin \subseteq twin' /\ uncapped \subseteq uncapped'
BY DEF CallsNext, RunnerGoes, Grows, Reap, Looks, Crowds,
         CheckCap, NotDialled, InitiateCall, RecordLead, RegisterLooks, RegisterInserts, Rings,
         HangsUp, HandsOver, Webhook, ClaimRoom, Connect, EnsureRowLooks, EnsureRowInserts,
         TrackTimesOut, TrackArrives, AnswerWrites, BuildBridge, BridgeEnds, Disconnect,
         ProcessRestarts

LEMMA DialEffect ==
    ASSUME OthersOK, CallsNext, NEW c \in Calls
    PROVE  /\ dial'[c] # "new" => dial[c] # "new" \/ kind[c] = "lead"
           /\ dial'[c] # "done" => dial[c] # "done"
BY DEF OthersOK, At, CallsNext, RunnerGoes, Grows, Reap,
         CheckCap, NotDialled, InitiateCall, RecordLead, RegisterLooks, RegisterInserts, Rings,
         HangsUp, HandsOver, Webhook, ClaimRoom, Connect, EnsureRowLooks, EnsureRowInserts,
         TrackTimesOut, TrackArrives, AnswerWrites, BuildBridge, BridgeEnds, Disconnect,
         ProcessRestarts

LEMMA PendingEffect ==
    ASSUME OthersOK, CallsNext, NEW c \in Calls, pending'[c] # "none"
    PROVE  pending[c] # "none" \/ kind[c] # "room"
BY DEF OthersOK, CallsNext, RunnerGoes, Grows, Reap,
         CheckCap, NotDialled, InitiateCall, RecordLead, RegisterLooks, RegisterInserts, Rings,
         HangsUp, HandsOver, Webhook, ClaimRoom, Connect, EnsureRowLooks, EnsureRowInserts,
         TrackTimesOut, TrackArrives, AnswerWrites, BuildBridge, BridgeEnds, Disconnect,
         ProcessRestarts

(* A registration that misses the row did so before, or looks now and changes nothing else. *)
LEMMA RegistrationEffect ==
    ASSUME RegistrationOK, CallsNext, NEW c \in Calls, NEW g \in Registrations,
           registration'[g] = Missed(c)
    PROVE  \/ registration[g] = Missed(c)
           \/ /\ rows[c] = <<>> /\ rows' = rows /\ delivery' = delivery
              /\ kind[c] # "lead" /\ Looks(c)
              /\ \A h \in Registrations \ {g} : registration'[h] = registration[h]
<1>1. ASSUME NEW h \in Registrations, NEW b \in Calls, RegisterLooks(h, b)
      PROVE  \/ registration[g] = Missed(c)
             \/ /\ rows[c] = <<>> /\ rows' = rows /\ delivery' = delivery
                /\ kind[c] # "lead" /\ Looks(c)
                /\ \A f \in Registrations \ {g} : registration'[f] = registration[f]
  <2>1. CASE h # g
    BY <1>1, <2>1 DEF RegisterLooks, RegistrationOK
  <2>2. CASE h = g
    <3>1. registration'[g] = IF rows[b] = <<>> THEN Missed(b) ELSE Over
      BY <1>1, <2>2 DEF RegisterLooks, RegistrationOK, Missed
    <3>2. b = c /\ rows[c] = <<>>
      BY <3>1 DEF Missed, Over
    <3>. QED BY <1>1, <2>2, <3>2 DEF RegisterLooks, RegistrationOK
  <2>. QED BY <2>1, <2>2
<1>2. ASSUME NEW h \in Registrations, RegisterInserts(h) PROVE registration[g] = Missed(c)
  BY <1>2 DEF RegisterInserts, RegistrationOK, Missed, Over
<1>3. CASE ProcessRestarts
  BY <1>3 DEF ProcessRestarts, Missed, Nowhere, Over
<1>4. CASE UNCHANGED registration
  BY <1>4
<1>. QED BY <1>1, <1>2, <1>3, <1>4
         DEF CallsNext, RunnerGoes, Grows, Reap,
         CheckCap, NotDialled, InitiateCall, RecordLead, Rings,
         HangsUp, HandsOver, Webhook, ClaimRoom, Connect, EnsureRowLooks, EnsureRowInserts,
         TrackTimesOut, TrackArrives, AnswerWrites, BuildBridge, BridgeEnds, Disconnect

(* The same of a room's runner. *)
LEMMA RunnerEffect ==
    ASSUME DeliveryOK, CallsNext, NEW c \in Calls, NEW d \in Deliveries, delivery'[d] = Missed(c)
    PROVE  \/ delivery[d] = Missed(c)
           \/ rows[c] = <<>> /\ rows' = rows /\ registration' = registration /\ Looks(c)
<1>1. ASSUME NEW place \in Places, Goes(d, place), Seen(d, place)
      PROVE  rows[c] = <<>> /\ rows' = rows /\ registration' = registration /\ Looks(c)
  <2>1. place = "missing" /\ delivery[d].call = c
    BY <1>1 DEF Goes, Handling, Missed
  <2>. QED BY <1>1, <2>1 DEF Seen, EnsureRowLooks
<1>2. ASSUME NEW b \in Calls, delivery'[d] = [at |-> "counted", call |-> b] PROVE FALSE
  BY <1>2 DEF Missed
<1>3. delivery'[d] # Over
  BY DEF Missed, Over
<1>. QED BY <1>1, <1>2, <1>3, DeliveryEffect

LEMMA Lookers ==
    ASSUME RowInv, NEW c \in Calls
    PROVE  /\ Looked(c) <=> \/ \E g \in Registrations : registration[g] = Missed(c)
                            \/ \E d \in Deliveries : delivery[d] = Missed(c)
           /\ Looked(c) => kind[c] # "lead"
           /\ \A d, e \in Deliveries : delivery[d] = Missed(c) /\ delivery[e] = Missed(c) => d = e
<1>1. Missed(c) \in Handling /\ Missed(c).call = c /\ Missed(c).at = "missing"
  BY DEF Missed, Handling
<1>2. \A d \in Deliveries : delivery[d] = Missed(c) => kind[c] # "lead" /\ InRoom(d)
  BY <1>1 DEF RowInv, KindsFit, InRoom
<1>3. \A g \in Registrations : registration[g] = Missed(c) => kind[c] # "lead"
  BY DEF RowInv, KindsFit
<1>4. \A d, e \in Deliveries : delivery[d] = Missed(c) /\ delivery[e] = Missed(c) => d = e
  BY <1>2 DEF RowInv, RoomInv, OneAgentPerRoom
<1>. QED BY <1>2, <1>3, <1>4 DEF Looked, Missed

(* Whoever inserts has looked before, and looks no more. *)
LEMMA Inserter ==
    ASSUME RowInv, NEW c \in Calls, Inserted(c)
    PROVE  \/ kind[c] = "lead" /\ dial[c] = "dialled" /\ dial'[c] = "done" /\ rows[c] = <<>>
           \/ \E d \in Deliveries : delivery[d] = Missed(c) /\ delivery'[d] # Missed(c)
           \/ \E g \in Registrations :
                  registration[g] = Missed(c) /\ registration'[g] # Missed(c) /\ c \in uncapped'
<1>. USE CallsTypeSplit DEF RowInv, RoomInv
<1>1. ASSUME dial[c] = "dialled" PROVE kind[c] = "lead" /\ rows[c] = <<>>
  BY <1>1 DEF LeadsAreNew
<1>2. ASSUME NEW d \in Deliveries, delivery[d].at = "missing", delivery[d].call = c,
             delivery'[d].at = "waiting"
      PROVE  delivery[d] = Missed(c) /\ delivery'[d] # Missed(c)
  BY <1>2, BusyDelivery DEF Handling, Missed
<1>3. ASSUME NEW g \in Registrations, registration[g].at = "missing", registration[g].call = c,
             registration'[g] = Over
      PROVE  registration[g] = Missed(c) /\ registration'[g] # Missed(c)
  BY <1>3, BusyRegistration DEF Registering, Missed, Over
<1>. QED BY <1>1, <1>2, <1>3 DEF Inserted

LEMMA RowStep ==
    RowInv /\ CallsNext =>
        (LeadsAreNew /\ KindsFit /\ LookersMeet /\ LookersInsertFirst /\ OutcomeKept)'
<1>. SUFFICES ASSUME RowInv, CallsNext
              PROVE  (LeadsAreNew /\ KindsFit /\ LookersMeet /\ LookersInsertFirst /\ OutcomeKept)'
  OBVIOUS
<1>1. RowsOK /\ DeliveryOK /\ RegistrationOK /\ OthersOK
  BY CallsTypeSplit DEF RowInv, RoomInv
<1>2. \A c \in Calls : Kept(c) \/ Inserted(c)
  BY <1>1, RowsEffect
<1>3. \A c \in Calls : Kept(c) => (rows'[c] = <<>> <=> rows[c] = <<>>)
  BY <1>1 DEF Kept, RowsOK
<1>4. kind' = kind /\ twin \subseteq twin'
  BY KindStays
<1>5. LeadsAreNew'
  <2>1. ASSUME NEW c \in Calls, dial'[c] # "new" PROVE kind'[c] = "lead"
    BY <1>1, <1>4, <2>1, DialEffect DEF RowInv, LeadsAreNew
  <2>2. ASSUME NEW c \in Calls, kind'[c] = "lead", dial'[c] # "done" PROVE rows'[c] = <<>>
    <3>1. rows[c] = <<>> /\ ~Looked(c)
      BY <1>1, <1>4, <2>2, DialEffect, Lookers DEF RowInv, LeadsAreNew
    <3>2. ~Inserted(c)
      BY <2>2, <3>1, Inserter, Lookers
    <3>. QED BY <1>2, <1>3, <3>1, <3>2
  <2>. QED BY <2>1, <2>2 DEF LeadsAreNew
<1>6. KindsFit'
  <2>1. ASSUME NEW d \in Deliveries, delivery'[d] \in Handling
        PROVE  kind[delivery'[d].call] = "room"
    <3>1. ASSUME NEW place \in Places, Goes(d, place) PROVE kind[delivery'[d].call] = "room"
      BY <3>1 DEF Goes, Handling, RowInv, KindsFit
    <3>2. ASSUME NEW c \in Calls, Webhook(d, c), delivery'[d] = [at |-> "counted", call |-> c]
          PROVE  kind[delivery'[d].call] = "room"
      BY <3>2 DEF Webhook
    <3>3. delivery'[d] # Over
      BY <2>1 DEF Handling, Over
    <3>4. CASE delivery'[d] = delivery[d]
      BY <2>1, <3>4 DEF RowInv, KindsFit
    <3>. QED BY <1>1, <3>1, <3>2, <3>3, <3>4, DeliveryEffect
  <2>2. ASSUME NEW g \in Registrations, NEW c \in Calls, registration'[g] = Missed(c)
        PROVE  kind[c] # "lead"
    BY <1>1, <2>2, RegistrationEffect DEF RowInv, KindsFit
  <2>3. ASSUME NEW c \in Calls, pending'[c] # "none" PROVE kind[c] # "room"
    BY <1>1, <2>3, PendingEffect DEF RowInv, KindsFit
  <2>. QED BY <1>4, <2>1, <2>2, <2>3 DEF KindsFit
(* A second look-up meets the first. *)
<1>7. LookersMeet'
  <2>. SUFFICES ASSUME NEW c \in Calls, NEW g \in Registrations, registration'[g] = Missed(c)
                PROVE  /\ \A h \in Registrations \ {g} : registration'[h] = Missed(c) => c \in twin'
                       /\ \A d \in Deliveries : delivery'[d] = Missed(c) => c \in twin'
    BY DEF LookersMeet, Missed
  <2>0. ASSUME rows[c] = <<>>, Looks(c), Looked(c) PROVE c \in twin'
    BY <2>0 DEF Looks
  <2>1. ASSUME NEW h \in Registrations \ {g}, registration'[h] = Missed(c) PROVE c \in twin'
    <3>1. CASE registration[g] = Missed(c) /\ registration[h] = Missed(c)
      BY <1>4, <3>1 DEF RowInv, LookersMeet
    <3>2. CASE registration[g] # Missed(c)
      <4>1. rows[c] = <<>> /\ Looks(c) /\ registration[h] = Missed(c)
        BY <1>1, <2>1, <3>2, RegistrationEffect
      <4>. QED BY <2>0, <4>1, Lookers
    <3>3. CASE registration[h] # Missed(c)
      <4>1. rows[c] = <<>> /\ Looks(c) /\ registration[g] = Missed(c)
        BY <1>1, <2>1, <3>3, RegistrationEffect
      <4>. QED BY <2>0, <4>1, Lookers
    <3>. QED BY <3>1, <3>2, <3>3
  <2>2. ASSUME NEW d \in Deliveries, delivery'[d] = Missed(c) PROVE c \in twin'
    <3>1. CASE registration[g] = Missed(c) /\ delivery[d] = Missed(c)
      BY <1>4, <3>1 DEF RowInv, LookersMeet
    <3>2. CASE registration[g] # Missed(c)
      <4>1. rows[c] = <<>> /\ Looks(c) /\ delivery[d] = Missed(c)
        BY <1>1, <2>2, <3>2, RegistrationEffect
      <4>. QED BY <2>0, <4>1, Lookers
    <3>3. CASE delivery[d] # Missed(c)
      <4>1. rows[c] = <<>> /\ Looks(c) /\ registration[g] = Missed(c)
        BY <1>1, <2>2, <3>3, RunnerEffect
      <4>. QED BY <2>0, <4>1, Lookers
    <3>. QED BY <3>1, <3>2, <3>3
  <2>. QED BY <2>1, <2>2
(* Who still looks when a row is there has met the one who inserted it. *)
<1>8. LookersInsertFirst'
  <2>. SUFFICES ASSUME NEW c \in Calls, Looked(c)', rows'[c] # <<>> PROVE c \in twin'
    BY DEF LookersInsertFirst
  <2>1. CASE Inserted(c)
    <3>1. rows' # rows
      BY <1>1, <2>1, RowKinds, AppendProperties DEF Inserted, RowsOK
    <3>2. \A g \in Registrations : registration'[g] = Missed(c) => registration[g] = Missed(c)
      BY <1>1, <3>1, RegistrationEffect
    <3>3. \A d \in Deliveries : delivery'[d] = Missed(c) => delivery[d] = Missed(c)
      BY <1>1, <3>1, RunnerEffect
    <3>4. \/ \E g \in Registrations : registration'[g] = Missed(c)
          \/ \E d \in Deliveries : delivery'[d] = Missed(c)
      BY DEF Looked, Missed
    <3>5. kind[c] # "lead"
      BY <3>2, <3>3, <3>4, Lookers
    <3>6. ASSUME NEW d \in Deliveries, delivery[d] = Missed(c), delivery'[d] # Missed(c)
          PROVE  c \in twin
      <4>1. \A e \in Deliveries : delivery'[e] # Missed(c)
        BY <3>3, <3>6, Lookers
      <4>2. \E g \in Registrations : registration[g] = Missed(c)
        BY <3>2, <3>4, <4>1
      <4>. QED BY <3>6, <4>2 DEF RowInv, LookersMeet
    <3>7. ASSUME NEW g \in Registrations, registration[g] = Missed(c), registration'[g] # Missed(c)
          PROVE  c \in twin
      <4>1. \/ \E h \in Registrations \ {g} : registration[h] = Missed(c)
            \/ \E d \in Deliveries : delivery[d] = Missed(c)
        BY <3>2, <3>3, <3>4, <3>7
      <4>. QED BY <3>7, <4>1 DEF RowInv, LookersMeet
    <3>. QED BY <1>4, <2>1, <3>5, <3>6, <3>7, Inserter
  <2>2. CASE Kept(c)
    <3>1. rows[c] # <<>>
      BY <1>3, <2>2
    <3>2. \A g \in Registrations : registration'[g] = Missed(c) => registration[g] = Missed(c)
      BY <1>1, <3>1, RegistrationEffect
    <3>3. \A d \in Deliveries : delivery'[d] = Missed(c) => delivery[d] = Missed(c)
      BY <1>1, <3>1, RunnerEffect
    <3>4. Looked(c)
      BY <3>2, <3>3, Lookers DEF Looked, Missed
    <3>. QED BY <1>4, <3>1, <3>4 DEF RowInv, LookersInsertFirst
  <2>. QED BY <1>2, <2>1, <2>2
<1>9. OutcomeKept'
  <2>. SUFFICES ASSUME NEW c \in Calls
                PROVE  /\ Len(rows'[c]) = 0 => spoken'[c] = "none"
                       /\ Len(rows'[c]) > 1 => c \in twin'
                       /\ Len(rows'[c]) = 1 => rows'[c][1].outcome = spoken'[c]
    BY DEF OutcomeKept
  <2>1. /\ Len(rows[c]) = 0 => spoken[c] = "none"
        /\ Len(rows[c]) > 1 => c \in twin
        /\ Len(rows[c]) = 1 => rows[c][1].outcome = spoken[c]
    BY DEF RowInv, OutcomeKept
  <2>2. CASE Kept(c)
    BY <1>4, <2>1, <2>2 DEF Kept
  <2>3. CASE Inserted(c)
    <3>1. rows[c] \in Seq(Row) /\ NewRow \in Row /\ NewRow.outcome = "none"
      BY <1>1, RowKinds DEF RowsOK
    <3>2. rows'[c] = Append(rows[c], NewRow) /\ Len(rows'[c]) = Len(rows[c]) + 1 /\ spoken' = spoken
      BY <2>3, <3>1 DEF Inserted
    <3>3. CASE rows[c] = <<>>
      <4>1. Len(rows'[c]) = 1 /\ rows'[c][1] = NewRow
        BY <3>2, <3>3
      <4>. QED BY <2>1, <3>1, <3>2, <3>3, <4>1
    <3>4. CASE rows[c] # <<>>
      <4>1. Looked(c)
        BY <2>3, <3>4, Inserter, Lookers
      <4>2. c \in twin'
        BY <1>4, <3>4, <4>1 DEF RowInv, LookersInsertFirst
      <4>3. Len(rows[c]) \in Nat \ {0}
        BY <3>1, <3>4
      <4>4. Len(rows'[c]) # 0 /\ Len(rows'[c]) # 1
        BY <3>2, <4>3
      <4>. QED BY <4>2, <4>4
    <3>. QED BY <3>3, <3>4
  <2>. QED BY <1>2, <2>2, <2>3
<1>. QED BY <1>5, <1>6, <1>7, <1>8, <1>9

LEMMA RowInvHolds == CallsSpec => []RowInv
<1>1. RowInv /\ UNCHANGED callVars => RowInv'
  <2>. SUFFICES ASSUME RowInv, UNCHANGED callVars PROVE RowInv'
    OBVIOUS
  <2>1. CallsTypeOK'
    BY DEF RowInv, RoomInv, CallsTypeOK, callVars
  <2>2. RoomsClaimed' /\ OneAgentPerRoom'
    BY DEF RowInv, RoomInv, RoomsClaimed, OneAgentPerRoom, InRoom, callVars
  <2>3. LeadsAreNew' /\ KindsFit'
    BY DEF RowInv, LeadsAreNew, KindsFit, Missed, callVars
  <2>4. LookersMeet' /\ LookersInsertFirst' /\ OutcomeKept'
    BY DEF RowInv, LookersMeet, LookersInsertFirst, Looked, Missed, OutcomeKept, callVars
  <2>. QED BY <2>1, <2>2, <2>3, <2>4 DEF RowInv, RoomInv
<1>2. RowInv /\ CallsNext => RowInv'
  BY RowStep, RoomStep, CallsTypeStep DEF RowInv, RoomInv
<1>. QED BY <1>1, <1>2, RowInvInit, PTL DEF CallsSpec

(* A call has one row, unless two looked for it before either inserted it, and the last
   outcome reported is in it (CallRecords.OneRecord). *)
THEOREM OneRecordHolds == CallsSpec => []OneRecord
<1>1. RowInv => OneRecord
  BY DEF RowInv, OutcomeKept, OneRecord
<1>. QED BY <1>1, RowInvHolds, PTL

-----------------------------------------------------------------------------
(* Rows that ended. *)

(* Between the read and the write of an answer only the reaper ends the row. *)
AnswerInv ==
    \A d \in Deliveries : delivery[d].at = "answering" =>
        LET c == delivery[d].call IN
        rows[c] # <<>> /\ (rows[c][1].status = "ended" => rows[c][1].old)

(* What a step may do to the first row of a call whose answer is being written. *)
LEMMA AnswerStep == RowInv /\ AnswerInv /\ CallsNext => AnswerInv'
<1>. SUFFICES ASSUME RowInv, AnswerInv, CallsNext, NEW d \in Deliveries,
                     delivery'[d].at = "answering"
              PROVE  LET c == delivery'[d].call IN
                     rows'[c] # <<>> /\ (rows'[c][1].status = "ended" => rows'[c][1].old)
  BY DEF AnswerInv
<1>1. RowsOK /\ DeliveryOK /\ RegistrationOK /\ OthersOK
  BY CallsTypeSplit DEF RowInv, RoomInv
<1>2. ASSUME TrackArrives(d)
      PROVE  LET c == delivery'[d].call IN
             rows'[c] # <<>> /\ (rows'[c][1].status = "ended" => rows'[c][1].old)
  <2>1. delivery[d] \in Handling
    BY <1>1, <1>2, BusyDelivery DEF TrackArrives
  <2>2. rows' = rows /\ delivery'[d].call = delivery[d].call
        /\ (delivery'[d].at = "answering" => Unanswered(delivery[d].call))
    BY <1>1, <1>2, <2>1 DEF TrackArrives, Moves, DeliveryOK, Handling
  <2>3. delivery[d].call \in Calls
    BY <2>1 DEF Handling
  <2>4. Unanswered(delivery[d].call)
    BY <2>2
  <2>5. rows[delivery[d].call] # <<>> /\ rows[delivery[d].call][1].status = "in_progress"
    BY <1>1, <2>3, <2>4 DEF Unanswered, RowsOK
  <2>. QED BY <2>2, <2>5
<1>3. ASSUME delivery'[d] = delivery[d]
      PROVE  LET c == delivery'[d].call IN
             rows'[c] # <<>> /\ (rows'[c][1].status = "ended" => rows'[c][1].old)
  <2>. DEFINE c == delivery[d].call
  <2>1. delivery[d] \in Handling /\ c \in Calls /\ InRoom(d) /\ kind[c] = "room"
    BY <1>1, <1>3, BusyDelivery DEF Handling, InRoom, RowInv, KindsFit
  <2>2. rows[c] # <<>> /\ (rows[c][1].status = "ended" => rows[c][1].old)
    BY <1>3 DEF AnswerInv
  <2>3. rows[c] \in Seq(Row) /\ 1 \in 1 .. Len(rows[c]) /\ DOMAIN rows[c] = 1 .. Len(rows[c])
    BY <1>1, <2>1, <2>2 DEF RowsOK
  <2>4. ASSUME rows'[c] = rows[c] PROVE rows'[c] # <<>> /\ (rows'[c][1].status = "ended" => rows'[c][1].old)
    BY <2>2, <2>4
  <2>5. ASSUME NEW b \in Calls, Grows(b)
        PROVE  rows'[c] # <<>> /\ (rows'[c][1].status = "ended" => rows'[c][1].old)
    <3>1. CASE b = c
      <4>1. rows'[c] = [i \in DOMAIN rows[c] |-> [rows[c][i] EXCEPT !.old = TRUE]]
        BY <1>1, <2>5, <3>1 DEF Grows, RowsOK
      <4>2. rows'[c][1] = [rows[c][1] EXCEPT !.old = TRUE] /\ DOMAIN rows'[c] # {}
        BY <2>3, <4>1
      <4>3. rows[c][1] \in Row
        BY <2>3, ElementOfSeq
      <4>. QED BY <4>2, <4>3 DEF Row
    <3>2. CASE b # c
      BY <1>1, <2>1, <2>2, <2>5, <3>2 DEF Grows, RowsOK
    <3>. QED BY <3>1, <3>2
  <2>6. ASSUME Reap PROVE rows'[c] # <<>> /\ (rows'[c][1].status = "ended" => rows'[c][1].old)
    <3>1. rows'[c] = [i \in RowsOf(c) |-> IF Stale(rows[c][i])
                                THEN [rows[c][i] EXCEPT !.status = "ended"]
                                ELSE rows[c][i]]
      BY <2>1, <2>6 DEF Reap
    <3>2. /\ rows'[c][1] = IF Stale(rows[c][1]) THEN [rows[c][1] EXCEPT !.status = "ended"]
                                                ELSE rows[c][1]
          /\ DOMAIN rows'[c] # {}
      BY <2>3, <3>1 DEF RowsOf
    <3>3. rows[c][1] \in Row
      BY <2>3, ElementOfSeq
    <3>4. CASE Stale(rows[c][1])
      BY <3>2, <3>3, <3>4 DEF Stale, Row
    <3>5. CASE ~Stale(rows[c][1])
      BY <2>2, <3>2, <3>5
    <3>. QED BY <3>4, <3>5
  <2>7. ASSUME NEW b \in Calls, InsertCall(b)
        PROVE  rows'[c] # <<>> /\ (rows'[c][1].status = "ended" => rows'[c][1].old)
    <3>1. rows'[c] = rows[c] \/ rows'[c] = Append(rows[c], NewRow)
      BY <1>1, <2>1, <2>7 DEF InsertCall, RowsOK
    <3>2. Append(rows[c], NewRow)[1] = rows[c][1] /\ Append(rows[c], NewRow) # <<>>
      BY <2>3, RowKinds, AppendProperties
    <3>. QED BY <2>2, <3>1, <3>2
  <2>8. ASSUME NEW b \in Calls \ {c}, NEW o, RecordOutcome(b, o) PROVE rows'[c] = rows[c]
    BY <1>1, <2>1, <2>8 DEF RecordOutcome, RowsOK
  <2>9. ASSUME NEW b \in Calls, HandsOver(b) PROVE rows'[c] = rows[c]
    <3>1. b # c
      BY <1>1, <2>1, <2>9 DEF HandsOver, OthersOK, RowInv, KindsFit
    <3>. QED BY <2>8, <2>9, <3>1 DEF HandsOver
  (* Another runner is in another room. *)
  <2>10. ASSUME NEW e \in Deliveries,
                TrackTimesOut(e) \/ AnswerWrites(e) \/ BuildBridge(e) \/ BridgeEnds(e)
         PROVE  rows'[c] = rows[c]
    <3>1. delivery[e] \in Handling /\ InRoom(e)
      BY <1>1, <2>10, BusyDelivery
         DEF TrackTimesOut, AnswerWrites, BuildBridge, BridgeEnds, InRoom
    <3>2. PICK place \in Places \ {delivery[e].at} : Moves(e, place)
      BY <2>10 DEF TrackTimesOut, AnswerWrites, BuildBridge, BridgeEnds, Places
    <3>3. delivery'[e] # delivery[e]
      <4>1. Goes(e, place)
        BY <1>1, <3>1, <3>2, MovesOne
      <4>. QED BY <3>2, <4>1 DEF Goes, Handling
    <3>4. delivery[e].call # c /\ delivery[e].call \in Calls
      BY <1>3, <2>1, <3>1, <3>3 DEF RowInv, RoomInv, OneAgentPerRoom, Handling
    <3>5. AnswerWrites(e) => rows'[c] = rows[c]
      BY <1>1, <2>1, <3>4 DEF AnswerWrites, MarkAnswered, RowsOK
    <3>. QED BY <2>8, <2>10, <3>4, <3>5 DEF TrackTimesOut, BuildBridge, BridgeEnds
  <2>11. ASSUME NEW e \in Deliveries, EnsureRowInserts(e)
         PROVE  rows'[c] # <<>> /\ (rows'[c][1].status = "ended" => rows'[c][1].old)
    <3>1. delivery[e].call \in Calls
      BY <1>1, <2>11, BusyDelivery DEF EnsureRowInserts, Handling
    <3>. QED BY <2>2, <2>7, <2>11, <3>1 DEF EnsureRowInserts
  <2>12. ASSUME NEW g \in Registrations, RegisterInserts(g)
         PROVE  rows'[c] # <<>> /\ (rows'[c][1].status = "ended" => rows'[c][1].old)
    <3>1. registration[g].call \in Calls
      BY <1>1, <2>12, BusyRegistration DEF RegisterInserts, Registering
    <3>. QED BY <2>2, <2>7, <2>12, <3>1 DEF RegisterInserts
  <2>13. ASSUME NEW b \in Calls, RecordLead(b)
         PROVE  rows'[c] # <<>> /\ (rows'[c][1].status = "ended" => rows'[c][1].old)
    BY <2>7, <2>13 DEF RecordLead
  <2>14. ASSUME rows' = rows PROVE rows'[c] # <<>> /\ (rows'[c][1].status = "ended" => rows'[c][1].old)
    BY <2>4, <2>14
  <2>15. rows'[c] # <<>> /\ (rows'[c][1].status = "ended" => rows'[c][1].old)
    <3>. HIDE DEF c
    <3>1. ASSUME NEW e \in Deliveries, RunnerGoes(e) PROVE rows'[c] # <<>> /\ (rows'[c][1].status = "ended" => rows'[c][1].old)
      BY <2>4, <2>10, <2>11, <2>14, <3>1
         DEF RunnerGoes, ClaimRoom, Connect, EnsureRowLooks, TrackArrives, Disconnect
    <3>. QED BY <2>4, <2>5, <2>6, <2>9, <2>12, <2>13, <2>14, <3>1
             DEF CallsNext, CheckCap, NotDialled, InitiateCall, Rings, HangsUp,
                 RegisterLooks, Webhook, ProcessRestarts
  <2>. QED BY <1>3, <2>15
<1>4. delivery'[d] = delivery[d] \/ TrackArrives(d)
  <2>1. ASSUME NEW place \in Places, Goes(d, place), Seen(d, place) PROVE TrackArrives(d)
    BY <2>1 DEF Goes, Handling, Seen
  <2>2. delivery'[d] # Over
    BY DEF Over
  <2>3. ASSUME NEW c \in Calls, delivery'[d] = [at |-> "counted", call |-> c] PROVE FALSE
    BY <2>3
  <2>. QED BY <1>1, <2>1, <2>2, <2>3, DeliveryEffect
<1>. QED BY <1>2, <1>3, <1>4

(* A call that ended is not active again (CallRecords.EndedStaysEnded): what reaches its
   rows later, a second runner of its room included, revives none, but for an answer that
   was read before the reaper ended the row and is written after. *)
THEOREM EndedStaysEndedHolds == CallsSpec => EndedStaysEnded
<1>1. CallsInit => AnswerInv
  BY DEF CallsInit, AnswerInv, Nowhere
<1>2. AnswerInv /\ UNCHANGED callVars => AnswerInv'
  BY DEF AnswerInv, callVars
<1>3. CallsSpec => [](RowInv /\ AnswerInv)
  BY <1>1, <1>2, AnswerStep, RowInvHolds, PTL DEF CallsSpec
<1>4. RowInv /\ AnswerInv /\ [CallsNext]_callVars =>
          [\A c \in Calls : \A i \in RowsOf(c) :
              rows[c][i].status = "ended" =>
                 \/ rows'[c][i].status = "ended"
                 \/ rows[c][i].old /\ \E d \in Deliveries :
                        AnswerWrites(d) /\ delivery[d].call = c]_callVars
  <2>. SUFFICES ASSUME RowInv, AnswerInv, CallsNext, NEW c \in Calls, NEW i \in RowsOf(c),
                       rows[c][i].status = "ended", rows'[c][i].status # "ended"
                PROVE  rows[c][i].old /\ \E d \in Deliveries :
                           AnswerWrites(d) /\ delivery[d].call = c
    BY DEF callVars
  <2>1. RowsOK /\ DeliveryOK /\ RegistrationOK /\ OthersOK
    BY CallsTypeSplit DEF RowInv, RoomInv
  <2>2. i \in 1 .. Len(rows[c]) /\ rows[c] \in Seq(Row)
    BY <2>1 DEF RowsOf, RowsOK
  <2>3. CASE Kept(c)
    <3>1. i = 1 /\ Answers(c)
      BY <2>2, <2>3 DEF Kept
    <3>. QED BY <3>1 DEF Answers, AnswerWrites, AnswerInv
  <2>4. CASE Inserted(c)
    BY <2>2, <2>4 DEF Inserted
  <2>. QED BY <2>1, <2>3, <2>4, RowsEffect
<1>. QED BY <1>3, <1>4, PTL DEF EndedStaysEnded, CallsSpec

-----------------------------------------------------------------------------
(* The cap. *)

NotEnded(c) == \E i \in RowsOf(c) : rows[c][i].status # "ended"

(* Calls that take up room under the cap, or are on their way to. *)
Taking == {c \in Calls \ uncapped : OnItsWay(c) \/ NotEnded(c)}

(* A runner that inserts a second row does so for a call that was registered. *)
RunnersRegistered ==
    \A c \in Calls, d \in Deliveries :
        delivery[d] = Missed(c) /\ rows[c] # <<>> => c \in uncapped
CapInv == Cardinality(Taking) <= Cap /\ RunnersRegistered

LEMMA RunnersStep == RowInv /\ RunnersRegistered /\ CallsNext => RunnersRegistered'
<1>. SUFFICES ASSUME RowInv, RunnersRegistered, CallsNext, NEW c \in Calls, NEW d \in Deliveries,
                     delivery'[d] = Missed(c), rows'[c] # <<>>
              PROVE  c \in uncapped'
  BY DEF RunnersRegistered, Missed
<1>1. RowsOK /\ DeliveryOK /\ RegistrationOK /\ OthersOK
  BY CallsTypeSplit DEF RowInv, RoomInv
<1>2. uncapped \subseteq uncapped'
  BY KindStays
<1>3. CASE Inserted(c)
  <2>1. rows' # rows
    BY <1>1, <1>3, RowKinds, AppendProperties DEF Inserted, RowsOK
  <2>2. delivery[d] = Missed(c)
    BY <1>1, <2>1, RunnerEffect
  <2>. QED BY <1>3, <2>2, Inserter, Lookers
<1>4. CASE Kept(c)
  <2>1. rows[c] # <<>>
    BY <1>1, <1>4 DEF Kept, RowsOK
  <2>2. delivery[d] = Missed(c)
    BY <1>1, <2>1, RunnerEffect
  <2>. QED BY <1>2, <2>1, <2>2 DEF RunnersRegistered
<1>. QED BY <1>1, <1>3, <1>4, RowsEffect

LEMMA ActiveIsNotEnded ==
    ASSUME RowsOK PROVE ActiveCalls = {c \in Calls : NotEnded(c)}
<1>1. ASSUME NEW c \in Calls, NEW i \in RowsOf(c)
      PROVE  rows[c][i].status \in Active <=> rows[c][i].status # "ended"
  <2>1. i \in 1 .. Len(rows[c])
    BY DEF RowsOf, RowsOK
  <2>2. rows[c][i] \in Row
    BY <2>1, RowAt
  <2>. QED BY <2>2 DEF Row, Active
<1>. QED BY <1>1 DEF ActiveCalls, NotEnded

LEMMA Smaller ==
    ASSUME NEW S, NEW T, IsFiniteSet(T), S \subseteq T, Cardinality(T) <= Cap
    PROVE  Cardinality(S) <= Cap
<1>1. IsFiniteSet(S) /\ Cardinality(S) <= Cardinality(T)
  BY FS_Subset
<1>2. Cardinality(S) \in Nat /\ Cardinality(T) \in Nat
  BY <1>1, FS_CardinalityType
<1>. QED BY <1>1, <1>2, CallBoundsAssumption

(* Whoever passes the check while nobody is on the way makes one more. *)
LEMMA PassedTheCheck ==
    ASSUME RowsOK, UnderCap, NEW c \in Calls, NEW S, S \subseteq ActiveCalls \cup {c}
    PROVE  Cardinality(S) <= Cap
<1>1. IsFiniteSet(ActiveCalls)
  BY FS_Subset, FiniteCallsAssumption DEF ActiveCalls
<1>2. /\ IsFiniteSet(ActiveCalls \cup {c})
      /\ Cardinality(ActiveCalls \cup {c}) \in {Cardinality(ActiveCalls), Cardinality(ActiveCalls) + 1}
  BY <1>1, FS_AddElement
<1>3. Cardinality(ActiveCalls) \in Nat
  BY <1>1, FS_CardinalityType
<1>4. Cardinality(ActiveCalls \cup {c}) <= Cap
  BY <1>2, <1>3, CallBoundsAssumption DEF UnderCap
<1>. QED BY <1>2, <1>4, Smaller

LEMMA CapStep == RowInv /\ CapInv /\ CallsNext => CapInv'
<1>. SUFFICES ASSUME RowInv, CapInv, CallsNext PROVE Cardinality(Taking') <= Cap
  BY RunnersStep DEF CapInv
<1>1. RowsOK /\ DeliveryOK /\ RegistrationOK /\ OthersOK /\ RowsOK'
  <2>1. (CallsTypeOK => RowsOK)'
    BY CallsTypeSplit, PTL
  <2>. QED BY <2>1, CallsTypeSplit, CallsTypeStep DEF RowInv, RoomInv
<1>2. uncapped \subseteq uncapped'
  BY KindStays
<1>0. ASSUME Taking' \subseteq Taking PROVE Cardinality(Taking') <= Cap
  <2>1. IsFiniteSet(Taking)
    BY FS_Subset, FiniteCallsAssumption DEF Taking
  <2>. QED BY <1>0, <2>1, Smaller DEF CapInv
(* A row that is active now was active, or its call was on its way, or came in past the cap. *)
<1>3. ASSUME NEW c \in Calls, NotEnded(c)', c \notin uncapped' PROVE NotEnded(c) \/ OnItsWay(c)
  <2>1. CASE Kept(c)
    <3>1. RowsOf(c) = 1 .. Len(rows[c]) /\ RowsOf(c)' = 1 .. Len(rows[c])
      BY <1>1, <2>1 DEF RowsOf, RowsOK, Kept
    <3>. QED BY <1>3, <2>1, <3>1 DEF Kept, NotEnded
  <2>2. CASE Inserted(c)
    <3>1. CASE kind[c] = "lead" /\ dial[c] = "dialled"
      BY <3>1 DEF OnItsWay
    <3>2. ASSUME NEW d \in Deliveries, delivery[d] = Missed(c) PROVE OnItsWay(c)
      <4>1. rows[c] = <<>>
        BY <1>2, <1>3, <3>2 DEF CapInv, RunnersRegistered
      <4>. QED BY <3>2, <4>1 DEF OnItsWay, Nowhere, Over, Missed
    <3>. QED BY <1>3, <2>2, <3>1, <3>2, Inserter
  <2>. QED BY <1>1, <2>1, <2>2, RowsEffect
<1>4. ASSUME NEW c \in Calls, rows'[c] = <<>> PROVE rows[c] = <<>>
  <2>1. Kept(c) => rows[c] = <<>>
    BY <1>1, <1>4 DEF Kept, RowsOK
  <2>2. ~Inserted(c)
    <3>1. Append(rows[c], NewRow) # <<>>
      BY <1>1, RowKinds, AppendProperties DEF RowsOK
    <3>. QED BY <1>4, <3>1 DEF Inserted
  <2>. QED BY <1>1, <2>1, <2>2, RowsEffect
(* No step but the cap's check puts a call on its way. *)
<1>5. CASE /\ ~\E c \in Calls : CheckCap(c)
           /\ ~\E d \in Deliveries, c \in Calls : Webhook(d, c) /\ ~Leaves(d)
  <2>1. ASSUME NEW c \in Calls, dial'[c] \in {"checked", "dialled"}
        PROVE  dial[c] \in {"checked", "dialled"}
    BY <1>1, <1>5, <2>1 DEF OthersOK, At, CallsNext, RunnerGoes, Grows, Reap,
         NotDialled, InitiateCall, RecordLead, RegisterLooks, RegisterInserts, Rings,
         HangsUp, HandsOver, Webhook, ClaimRoom, Connect, EnsureRowLooks, EnsureRowInserts,
         TrackTimesOut, TrackArrives, AnswerWrites, BuildBridge, BridgeEnds, Disconnect,
         ProcessRestarts
  <2>2. ASSUME NEW d \in Deliveries, delivery'[d] \notin {Nowhere, Over}
        PROVE  delivery[d] \notin {Nowhere, Over} /\ delivery[d].call = delivery'[d].call
    <3>1. CASE delivery'[d] = delivery[d]
      BY <2>2, <3>1
    <3>2. ASSUME NEW place \in Places, Goes(d, place)
          PROVE  delivery[d] \notin {Nowhere, Over} /\ delivery[d].call = delivery'[d].call
      <4>1. delivery'[d].call = delivery[d].call /\ delivery[d].at \notin {"idle", "done"}
        BY <3>2 DEF Goes, Handling
      <4>. QED BY <4>1 DEF Nowhere, Over
    <3>3. ASSUME NEW c \in Calls, Webhook(d, c) PROVE FALSE
      BY <1>1, <1>5, <2>2, <3>3 DEF Leaves, DeliveryOK
    <3>. QED BY <1>1, <2>2, <3>1, <3>2, <3>3, DeliveryEffect
  <2>3. \A c \in Calls : OnItsWay(c)' => OnItsWay(c)
    BY <1>4, <2>1, <2>2 DEF OnItsWay
  <2>. QED BY <1>0, <1>2, <1>3, <2>3 DEF Taking
(* A call put on its way comes in past the cap, or alone and under it. *)
<1>6. ASSUME NEW c \in Calls, rows' = rows, (UnderCap /\ Crowds(c)) \/ c \in uncapped',
             \A b \in Calls \ {c} : OnItsWay(b)' => OnItsWay(b)
      PROVE  Cardinality(Taking') <= Cap
  <2>1. \A b \in Calls : NotEnded(b)' => NotEnded(b)
    BY <1>6 DEF NotEnded, RowsOf
  <2>2. CASE c \in uncapped'
    BY <1>0, <1>2, <1>6, <2>1, <2>2 DEF Taking
  <2>3. CASE c \notin uncapped'
    <3>1. \A b \in Calls \ {c} : ~OnItsWay(b)
      BY <1>6, <2>3 DEF Crowds
    <3>2. \A b \in Calls : NotEnded(b)' => b \in ActiveCalls
      BY <1>1, <2>1, ActiveIsNotEnded
    <3>3. Taking' \subseteq ActiveCalls \cup {c}
      BY <1>6, <3>1, <3>2 DEF Taking
    <3>. QED BY <1>1, <1>6, <2>3, <3>3, PassedTheCheck
  <2>. QED BY <2>2, <2>3
<1>7. ASSUME NEW c \in Calls, CheckCap(c) PROVE Cardinality(Taking') <= Cap
  <2>1. rows' = rows /\ delivery' = delivery
    BY <1>7 DEF CheckCap
  <2>2. \A b \in Calls \ {c} : OnItsWay(b)' => OnItsWay(b)
    BY <1>1, <1>7, <2>1 DEF CheckCap, At, OnItsWay, OthersOK
  <2>3. CASE UnderCap
    BY <1>6, <1>7, <2>1, <2>2, <2>3 DEF CheckCap
  <2>4. CASE ~UnderCap
    <3>1. dial'[c] = "done"
      BY <1>1, <1>7, <2>4 DEF CheckCap, At, OthersOK
    <3>2. OnItsWay(c)' => OnItsWay(c)
      BY <2>1, <3>1 DEF OnItsWay
    <3>3. \A b \in Calls : NotEnded(b)' => NotEnded(b)
      BY <2>1 DEF NotEnded, RowsOf
    <3>. QED BY <1>0, <1>2, <2>2, <3>2, <3>3 DEF Taking
  <2>. QED BY <2>3, <2>4
<1>8. ASSUME NEW d \in Deliveries, NEW c \in Calls, Webhook(d, c), ~Leaves(d)
      PROVE  Cardinality(Taking') <= Cap
  <2>1. /\ (UnderCap /\ Crowds(c)) \/ c \in uncapped'
        /\ rows' = rows /\ dial' = dial
        /\ delivery' = [delivery EXCEPT ![d] = [at |-> "counted", call |-> c]]
    BY <1>8 DEF Webhook, Counted
  <2>2. \A e \in Deliveries : e # d => delivery'[e] = delivery[e]
    BY <1>1, <2>1 DEF DeliveryOK
  <2>3. delivery'[d].call = c
    BY <1>1, <2>1 DEF DeliveryOK
  <2>4. \A b \in Calls \ {c} : OnItsWay(b)' => OnItsWay(b)
    BY <2>1, <2>2, <2>3 DEF OnItsWay
  <2>. QED BY <1>6, <2>1, <2>4
<1>. QED BY <1>5, <1>7, <1>8

(* The cap holds but for calls that came in past it, each on its own account
   (CallRecords.CapHeld): for any cap, any number of calls, registrations and webhooks,
   across restarts, reapings and counts that fail. *)
THEOREM CapHeldHolds == CallsSpec => []CapHeld
<1>1. CallsInit => CapInv
  <2>. SUFFICES ASSUME CallsInit PROVE CapInv
    OBVIOUS
  <2>1. \A c \in Calls : dial[c] = "new" /\ RowsOf(c) = {} /\ rows[c] = <<>>
    BY DEF CallsInit, RowsOf
  <2>2. \A d \in Deliveries : delivery[d] = Nowhere
    BY DEF CallsInit
  <2>3. Taking = {}
    BY <2>1, <2>2 DEF Taking, OnItsWay, NotEnded
  <2>. QED BY <2>1, <2>3, FS_EmptySet, CallBoundsAssumption DEF CapInv, RunnersRegistered
<1>2. CapInv /\ UNCHANGED callVars => CapInv'
  <2>. SUFFICES ASSUME CapInv, UNCHANGED callVars PROVE CapInv'
    OBVIOUS
  <2>1. Taking' = Taking
    BY DEF Taking, OnItsWay, NotEnded, RowsOf, callVars
  <2>2. RunnersRegistered'
    BY DEF CapInv, RunnersRegistered, Missed, callVars
  <2>. QED BY <2>1, <2>2 DEF CapInv
<1>3. RowInv /\ CapInv /\ [CallsNext]_callVars => CapInv'
  BY <1>2, CapStep
<1>4. CapInv => CapHeld
  <2>. SUFFICES ASSUME CapInv
                PROVE  Cardinality({c \in Calls \ uncapped : NotEnded(c)}) <= Cap
    BY DEF CapHeld, NotEnded
  <2>1. IsFiniteSet(Taking)
    BY FS_Subset, FiniteCallsAssumption DEF Taking
  <2>2. {c \in Calls \ uncapped : NotEnded(c)} \subseteq Taking
    BY DEF Taking
  <2>. QED BY <2>1, <2>2, Smaller DEF CapInv
<1>. QED BY <1>1, <1>3, <1>4, RowInvHolds, PTL DEF CallsSpec

-----------------------------------------------------------------------------
(* VoiceHandoff. *)

(* How long a call may go without a good renewal after m failed ones. *)
Slack(m) == (m + 1) * RenewEvery

Holder(s) == Running(s) \/ Freeing(s)

(* Whoever runs or releases owns the lock of its token. *)
OwnsLock == \A s \in Sockets : Holder(s) => lock[TokenOf[s]] = s

(* The lock of a running call has time left for the renewals that may still fail. *)
RenewedInTime ==
    \A s \in Sockets : Running(s) =>
        expires[TokenOf[s]] + Slack(call[s].missed) >= LockTTL + call[s].wake

(* The lock of a call that ended outlasts its release. *)
ReleasedInTime ==
    \A s \in Sockets : Freeing(s) => expires[TokenOf[s]] + call[s].lag > MaxLag

LockInv == VoiceTypeOK /\ OwnsLock /\ RenewedInTime /\ ReleasedInTime

(* A call that was never crowded is alone, and its socket is the registered one. *)
Alone ==
    \A s, r \in Sockets : Running(s) /\ ~call[s].crowded /\ r # s => ~Holding(r)
Registered ==
    \A s \in Sockets : call[s].at = "live" /\ ~call[s].crowded => entry = s

EntryInv == VoiceTypeOK /\ Alone /\ Registered

-----------------------------------------------------------------------------
(* Arithmetic of the slack. *)

LEMMA SlackType == \A m \in Nat : Slack(m) \in Nat
BY LockAssumption DEF Slack

LEMMA SlackStep == \A m \in Nat : Slack(m + 1) = Slack(m) + RenewEvery /\ Slack(0) = RenewEvery
BY LockAssumption DEF Slack

(* The longest slack fits the expiry, with the release. *)
LEMMA SlackBound == \A m \in 0 .. MaxMissed : Slack(m) + MaxLag < LockTTL
<1>. SUFFICES ASSUME NEW m \in 0 .. MaxMissed PROVE Slack(m) <= Slack(MaxMissed)
  BY LockAssumption DEF Slack
<1>1. PICK d \in Nat : MaxMissed = m + d
  <2>1. MaxMissed - m \in Nat /\ MaxMissed = m + (MaxMissed - m)
    BY LockAssumption
  <2>. QED BY <2>1
<1>2. Slack(MaxMissed) = Slack(m) + d * RenewEvery
  BY <1>1, LockAssumption DEF Slack
<1>3. d * RenewEvery \in Nat
  BY LockAssumption
<1>. QED BY <1>2, <1>3, SlackType, LockAssumption

LEMMA TimesType ==
    LockTTL \in Nat /\ RenewEvery \in Nat \ {0} /\ MaxMissed \in Nat /\ MaxLag \in Nat
BY LockAssumption

LEMMA TimesFull == RenewEvery \in 0 .. RenewEvery /\ LockTTL \in 0 .. LockTTL
BY TimesType

LEMMA CallFields ==
    ASSUME VoiceTypeOK, NEW s \in Sockets
    PROVE  /\ call[s].at \in CallPlaces
           /\ call[s].wake \in 0 .. RenewEvery
           /\ call[s].missed \in 0 .. MaxMissed
           /\ call[s].lag \in 0 .. MaxLag
           /\ call[s].crowded \in BOOLEAN
           /\ TokenOf[s] \in Tokens
           /\ expires[TokenOf[s]] \in 0 .. LockTTL
BY SocketsAssumption DEF VoiceTypeOK

CallRecord == [at : CallPlaces, wake : 0 .. RenewEvery, missed : 0 .. MaxMissed,
               lag : 0 .. MaxLag, crowded : BOOLEAN]

TypeParts ==
    /\ valid \subseteq Tokens
    /\ lock \in [Tokens -> Sockets \cup {Free}]
    /\ expires \in [Tokens -> 0 .. LockTTL]
    /\ call \in [Sockets -> CallRecord]
    /\ entry \in Sockets \cup {Free}
    /\ chatEnded \in BOOLEAN

LEMMA VoiceTypeSplit == VoiceTypeOK <=> TypeParts
BY DEF VoiceTypeOK, TypeParts, CallRecord

LEMMA CallAtType == \A place \in CallPlaces : CallAt(place) \in CallRecord
BY TimesType DEF CallAt, CallRecord

(* What the actions make of a call's record. *)
LEMMA Placed ==
    ASSUME NEW c \in CallRecord, NEW place \in CallPlaces
    PROVE  [c EXCEPT !.at = place] \in CallRecord
BY DEF CallRecord

LEMMA Renewed ==
    ASSUME NEW c \in CallRecord, NEW n \in 0 .. MaxMissed
    PROVE  [c EXCEPT !.wake = RenewEvery, !.missed = n] \in CallRecord
<1>. DEFINE w == 0 .. RenewEvery
            m == 0 .. MaxMissed
            l == 0 .. MaxLag
<1>1. RenewEvery \in w /\ n \in m
  BY TimesFull
<1>. HIDE DEF w, m, l
<1>2. c \in [at : CallPlaces, wake : w, missed : m, lag : l, crowded : BOOLEAN]
  BY DEF CallRecord, w, m, l
<1>3. [c EXCEPT !.wake = RenewEvery, !.missed = n]
         \in [at : CallPlaces, wake : w, missed : m, lag : l, crowded : BOOLEAN]
  BY <1>1, <1>2
<1>. QED BY <1>3 DEF CallRecord, w, m, l

LEMMA Crowded ==
    ASSUME NEW c \in CallRecord, NEW b \in BOOLEAN
    PROVE  [c EXCEPT !.crowded = b] \in CallRecord
BY DEF CallRecord

LEMMA Lively ==
    ASSUME NEW c \in CallRecord, NEW b \in BOOLEAN
    PROVE  [c EXCEPT !.at = "live", !.wake = RenewEvery, !.crowded = b] \in CallRecord
<1>. DEFINE w == 0 .. RenewEvery
            m == 0 .. MaxMissed
            l == 0 .. MaxLag
<1>1. RenewEvery \in w /\ "live" \in CallPlaces
  BY TimesFull DEF CallPlaces
<1>. HIDE DEF w, m, l
<1>2. c \in [at : CallPlaces, wake : w, missed : m, lag : l, crowded : BOOLEAN]
  BY DEF CallRecord, w, m, l
<1>3. [c EXCEPT !.at = "live", !.wake = RenewEvery, !.crowded = b]
         \in [at : CallPlaces, wake : w, missed : m, lag : l, crowded : BOOLEAN]
  BY <1>1, <1>2
<1>. QED BY <1>3 DEF CallRecord, w, m, l

LEMMA Ticked ==
    ASSUME NEW c \in CallRecord
    PROVE  /\ c.wake > 0 => [c EXCEPT !.wake = @ - 1] \in CallRecord
           /\ c.lag < MaxLag => [c EXCEPT !.lag = @ + 1] \in CallRecord
BY TimesType DEF CallRecord

-----------------------------------------------------------------------------
(* The invariants hold at first: nobody calls. *)
LEMMA InitInv == VoiceInit => LockInv /\ EntryInv
<1>. SUFFICES ASSUME VoiceInit PROVE LockInv /\ EntryInv
  OBVIOUS
<1>1. VoiceTypeOK
  <2>1. call \in [Sockets -> CallRecord]
    BY CallAtType DEF VoiceInit, CallPlaces
  <2>2. expires \in [Tokens -> 0 .. LockTTL]
    BY TimesType DEF VoiceInit
  <2>3. valid \subseteq Tokens /\ lock \in [Tokens -> Sockets \cup {Free}]
        /\ entry \in Sockets \cup {Free} /\ chatEnded \in BOOLEAN
    BY DEF VoiceInit
  <2>. QED BY <2>1, <2>2, <2>3, VoiceTypeSplit DEF TypeParts
<1>2. \A s \in Sockets : call[s].at = "new"
  BY DEF VoiceInit, CallAt
<1>3. \A s \in Sockets : ~Holder(s) /\ ~Running(s) /\ ~Freeing(s) /\ ~Holding(s)
  BY <1>2 DEF Holder, Holding, Running, Freeing
<1>. QED BY <1>1, <1>2, <1>3
         DEF LockInv, EntryInv, OwnsLock, RenewedInTime, ReleasedInTime, Alone, Registered

(* Type correctness, action by action: what the lock's key, the calls and the rest
   become. *)
KeyOK == lock \in [Tokens -> Sockets \cup {Free}] /\ expires \in [Tokens -> 0 .. LockTTL]
CallsOK == call \in [Sockets -> CallRecord]
RestOK == valid \subseteq Tokens /\ entry \in Sockets \cup {Free} /\ chatEnded \in BOOLEAN

LEMMA TypeThree == VoiceTypeOK <=> KeyOK /\ CallsOK /\ RestOK
BY VoiceTypeSplit DEF TypeParts, KeyOK, CallsOK, RestOK

LEMMA SetType ==
    ASSUME KeyOK, NEW s \in Sockets, SetWithExpiry(TokenOf[s], s) PROVE KeyOK'
BY TimesType, SocketsAssumption DEF KeyOK, SetWithExpiry

LEMMA KeyStep == KeyOK /\ VoiceNext => KeyOK'
<1>. SUFFICES ASSUME KeyOK, VoiceNext PROVE KeyOK'
  OBVIOUS
<1>1. CASE UNCHANGED <<lock, expires>>
  BY <1>1 DEF KeyOK
<1>2. ASSUME NEW s \in Sockets, SetWithExpiry(TokenOf[s], s) PROVE KeyOK'
  BY <1>2, SetType
<1>3. ASSUME NEW s \in Sockets, Renew(s) PROVE KeyOK'
  BY <1>3, TimesType, SocketsAssumption DEF Renew, Extended, KeyOK
<1>4. ASSUME NEW s \in Sockets, ReleaseDeletes(s) PROVE KeyOK'
  BY <1>4, TimesType, SocketsAssumption DEF ReleaseDeletes, KeyOK
<1>5. CASE VoiceTick
  <2>1. \A t \in Tokens : Down(expires[t]) \in 0 .. LockTTL
    BY TimesType DEF Down, KeyOK
  <2>. QED BY <1>5, <2>1 DEF VoiceTick, KeyOK
<1>. QED BY <1>1, <1>2, <1>3, <1>4, <1>5
         DEF VoiceNext, SocketGoes, RequestCall, ClaimToken, CallEnds, Acquire, Refuse,
             AcquireFails, ReleaseReads, Leave, EndSession, Dies

LEMMA CallsStep == CallsOK /\ VoiceNext => CallsOK'
<1>. SUFFICES ASSUME CallsOK, VoiceNext PROVE CallsOK'
  OBVIOUS
<1>1. CASE UNCHANGED call
  BY <1>1 DEF CallsOK
<1>2. ASSUME NEW s \in Sockets, NEW place \in CallPlaces, To(s, place) PROVE CallsOK'
  <2>1. call' = [call EXCEPT ![s] = [call[s] EXCEPT !.at = place]]
    BY <1>2 DEF To
  <2>2. [call[s] EXCEPT !.at = place] \in CallRecord
    BY Placed DEF CallsOK
  <2>. QED BY <2>1, <2>2 DEF CallsOK
<1>3. ASSUME NEW s \in Sockets, NEW place \in CallPlaces, Becomes(s, place) PROVE CallsOK'
  BY <1>3, CallAtType DEF Becomes, CallsOK
<1>4. ASSUME NEW s \in Sockets, Acquire(s) PROVE CallsOK'
  <2>1. \A r \in Sockets : (call[r].crowded \/ Holding(r)) \in BOOLEAN
    OBVIOUS
  <2>2. [call[s] EXCEPT !.at = "live", !.wake = RenewEvery,
                        !.crowded = \E q \in Sockets : Holding(q)] \in CallRecord
    BY Lively, (\E q \in Sockets : Holding(q)) \in BOOLEAN DEF CallsOK
  <2>3. \A r \in Sockets : [call[r] EXCEPT !.crowded = call[r].crowded \/ Holding(r)] \in CallRecord
    BY <2>1, Crowded DEF CallsOK
  <2>. QED BY <1>4, <2>2, <2>3 DEF Acquire, CallsOK
<1>5. ASSUME NEW s \in Sockets, Renew(s) PROVE CallsOK'
  <2>1. call[s].missed \in 0 .. MaxMissed
    BY DEF CallsOK, CallRecord
  <2>2. PICK n \in 0 .. MaxMissed :
            call' = [call EXCEPT ![s] = [call[s] EXCEPT !.wake = RenewEvery, !.missed = n]]
    <3>1. CASE call' = [call EXCEPT ![s].wake = RenewEvery, ![s].missed = 0]
      <4>1. call' = [call EXCEPT ![s] = [call[s] EXCEPT !.wake = RenewEvery, !.missed = 0]]
        BY <3>1
      <4>2. 0 \in 0 .. MaxMissed
        BY TimesType
      <4>. QED BY <4>1, <4>2
    <3>2. CASE call[s].missed < MaxMissed
               /\ call' = [call EXCEPT ![s].wake = RenewEvery, ![s].missed = @ + 1]
      <4>1. call' = [call EXCEPT ![s] = [call[s] EXCEPT !.wake = RenewEvery,
                                                        !.missed = call[s].missed + 1]]
        BY <3>2
      <4>2. call[s].missed + 1 \in 0 .. MaxMissed
        BY <3>2, <2>1, TimesType
      <4>. QED BY <4>1, <4>2
    <3>. QED BY <1>5, <3>1, <3>2 DEF Renew
  <2>3. [call[s] EXCEPT !.wake = RenewEvery, !.missed = n] \in CallRecord
    BY Renewed DEF CallsOK
  <2>. QED BY <2>2, <2>3 DEF CallsOK
<1>6. CASE EndSession
  <2>1. \A s \in Sockets : [call[s] EXCEPT !.at = "closed"] \in CallRecord
    BY Placed DEF CallsOK, CallPlaces
  <2>. QED BY <1>6, <2>1 DEF EndSession, CallsOK
<1>7. CASE Dies
  BY <1>7, CallAtType DEF Dies, CallsOK, CallPlaces
<1>8. CASE VoiceTick
  <2>1. \A s \in Sockets : Running(s) => [call[s] EXCEPT !.wake = @ - 1] \in CallRecord
    BY <1>8, Ticked DEF VoiceTick, CallsOK
  <2>2. \A s \in Sockets : Freeing(s) => [call[s] EXCEPT !.lag = @ + 1] \in CallRecord
    BY <1>8, Ticked DEF VoiceTick, CallsOK
  <2>. QED BY <1>8, <2>1, <2>2 DEF VoiceTick, CallsOK
<1>. QED BY <1>1, <1>2, <1>3, <1>4, <1>5, <1>6, <1>7, <1>8
         DEF VoiceNext, SocketGoes, RequestCall, ClaimToken, CallEnds, Refuse,
             AcquireFails, ReleaseReads, ReleaseDeletes, Leave, CallPlaces

LEMMA RestStep == RestOK /\ VoiceNext => RestOK'
BY DEF RestOK, VoiceNext, SocketGoes, RequestCall, ClaimToken, CallEnds, Acquire, Refuse,
       AcquireFails, Renew, ReleaseReads, ReleaseDeletes, Leave, Drops, KeepsEntry,
       EndSession, Dies, VoiceTick

LEMMA VoiceTypeStep == VoiceTypeOK /\ [VoiceNext]_voiceVars => VoiceTypeOK'
<1>1. VoiceTypeOK /\ UNCHANGED voiceVars => VoiceTypeOK'
  BY DEF VoiceTypeOK, voiceVars
<1>2. VoiceTypeOK /\ VoiceNext => VoiceTypeOK'
  <2>1. (KeyOK /\ CallsOK /\ RestOK)' => VoiceTypeOK'
    BY TypeThree, PTL
  <2>. QED BY <2>1, TypeThree, KeyStep, CallsStep, RestStep
<1>. QED BY <1>1, <1>2

(* The type invariant of the handoff (VoiceHandoff.VoiceTypeOK). *)
THEOREM VoiceTypeCorrect == VoiceSpec => []VoiceTypeOK
<1>1. VoiceInit => VoiceTypeOK
  BY InitInv DEF LockInv
<1>. QED BY <1>1, VoiceTypeStep, PTL DEF VoiceSpec

-----------------------------------------------------------------------------
(* The lock. *)

LEMMA SlackLeast == \A m \in 0 .. MaxMissed : Slack(m) \in Nat /\ Slack(m) >= RenewEvery
<1>. SUFFICES ASSUME NEW m \in 0 .. MaxMissed PROVE Slack(m) \in Nat /\ Slack(m) >= RenewEvery
  OBVIOUS
<1>1. m * RenewEvery \in Nat
  BY TimesType
<1>2. Slack(m) = m * RenewEvery + RenewEvery
  BY TimesType DEF Slack
<1>. QED BY <1>1, <1>2, TimesType

(* No call that runs or releases is about to lose its lock to the clock. *)
LEMMA Outlasts ==
    ASSUME LockInv, NEW s \in Sockets
    PROVE  /\ Running(s) => expires[TokenOf[s]] > MaxLag + call[s].wake
           /\ Freeing(s) => expires[TokenOf[s]] > MaxLag - call[s].lag
<1>. USE TimesType, CallFields DEF LockInv
<1>1. Slack(call[s].missed) \in Nat /\ Slack(call[s].missed) + MaxLag < LockTTL
  BY SlackLeast, SlackBound
<1>2. Running(s) => expires[TokenOf[s]] + Slack(call[s].missed) >= LockTTL + call[s].wake
  BY DEF RenewedInTime
<1>3. Freeing(s) => expires[TokenOf[s]] + call[s].lag > MaxLag
  BY DEF ReleasedInTime
<1>. QED BY <1>1, <1>2, <1>3

(* The lock's part of the invariant, for one call. *)
Safe(s) ==
    /\ Holder(s) => lock[TokenOf[s]] = s
    /\ Running(s) => expires[TokenOf[s]] + Slack(call[s].missed) >= LockTTL + call[s].wake
    /\ Freeing(s) => expires[TokenOf[s]] + call[s].lag > MaxLag

LEMMA LockSafe == LockInv <=> VoiceTypeOK /\ \A s \in Sockets : Safe(s)
BY DEF LockInv, OwnsLock, RenewedInTime, ReleasedInTime, Safe

(* A call whose record, as far as the lock is concerned, and whose key stay is safe;
   so is a call that neither runs nor releases. *)
LEMMA StaysSafe ==
    ASSUME NEW s \in Sockets, Safe(s),
           lock'[TokenOf[s]] = lock[TokenOf[s]], expires'[TokenOf[s]] = expires[TokenOf[s]],
           Running(s)' => Running(s) /\ call'[s].missed = call[s].missed
                                     /\ call'[s].wake = call[s].wake,
           Freeing(s)' => Freeing(s) /\ call'[s].lag = call[s].lag
    PROVE  Safe(s)'
BY DEF Safe, Holder, Slack

LEMMA IdleSafe ==
    ASSUME NEW s \in Sockets, ~Running(s)', ~Freeing(s)' PROVE Safe(s)'
BY DEF Safe, Holder

(* Setting a free key disturbs nobody. *)
LEMMA SetSafe ==
    ASSUME VoiceTypeOK, NEW s \in Sockets, Safe(s), NEW r \in Sockets, s # r,
           SetWithExpiry(TokenOf[r], r), lock[TokenOf[r]] = Free,
           Running(s)' => Running(s) /\ call'[s].missed = call[s].missed
                                     /\ call'[s].wake = call[s].wake,
           Freeing(s)' => Freeing(s) /\ call'[s].lag = call[s].lag
    PROVE  Safe(s)'
<1>1. CASE Running(s)' \/ Freeing(s)'
  <2>1. lock[TokenOf[s]] = s /\ TokenOf[s] # TokenOf[r]
    BY <1>1, SocketsAssumption DEF Safe, Holder
  <2>2. lock'[TokenOf[s]] = lock[TokenOf[s]] /\ expires'[TokenOf[s]] = expires[TokenOf[s]]
    BY <2>1, SocketsAssumption DEF VoiceTypeOK, SetWithExpiry
  <2>. QED BY <2>2, StaysSafe
<1>. QED BY <1>1, IdleSafe

LEMMA CallsAre == VoiceTypeOK => DOMAIN call = Sockets /\ call \in [Sockets -> CallRecord]
BY VoiceTypeSplit DEF TypeParts

LEMMA BecomesIs ==
    ASSUME VoiceTypeOK, NEW s \in Sockets, NEW r \in Sockets, NEW place, Becomes(r, place)
    PROVE  /\ s # r => call'[s] = call[s]
           /\ call'[r].at = place /\ call'[r].lag = 0
BY CallsAre DEF Becomes, CallAt

LEMMA ToIs ==
    ASSUME VoiceTypeOK, NEW s \in Sockets, NEW r \in Sockets, NEW place, To(r, place)
    PROVE  /\ s # r => call'[s] = call[s]
           /\ call'[r].at = place /\ call'[r].lag = call[r].lag
BY CallsAre DEF To, CallRecord

LEMMA LockStep ==
    ASSUME LockInv, VoiceNext, NEW s \in Sockets PROVE Safe(s)'
<1>. USE LockSafe, SocketsAssumption
<1>0. VoiceTypeOK /\ Safe(s)
  OBVIOUS
<1>1. ASSUME UNCHANGED <<lock, expires>>, call'[s] = call[s] PROVE Safe(s)'
  BY <1>0, <1>1 DEF Safe, Holder, Running, Freeing
<1>2. ASSUME NEW t \in Tokens, RequestCall(t) PROVE Safe(s)'
  BY <1>2, <1>1 DEF RequestCall
<1>3. ASSUME NEW r \in Sockets, ClaimToken(r) PROVE Safe(s)'
  <2>1. CASE s = r
    <3>1. call'[s].at = "claimed"
      BY <1>0, <1>3, <2>1, ToIs DEF ClaimToken
    <3>. QED BY <3>1, IdleSafe DEF Running, Freeing
  <2>2. CASE s # r
    BY <1>0, <1>1, <1>3, <2>2, ToIs DEF ClaimToken
  <2>. QED BY <2>1, <2>2
<1>4. ASSUME NEW r \in Sockets, CallEnds(r) PROVE Safe(s)'
  <2>1. CASE s = r
    <3>1. call'[s].at = "releasing" /\ call'[s].lag = 0
      BY <1>0, <1>4, <2>1, BecomesIs DEF CallEnds
    <3>2. expires[TokenOf[s]] > MaxLag
      BY <1>0, <1>4, <2>1, Outlasts, CallFields, TimesType DEF CallEnds
    <3>3. lock[TokenOf[s]] = s
      BY <1>0, <1>4, <2>1 DEF Safe, Holder, CallEnds
    <3>4. lock' = lock /\ expires' = expires /\ expires[TokenOf[s]] \in Nat
      BY <1>0, <1>4, CallFields DEF CallEnds
    <3>. QED BY <3>1, <3>2, <3>3, <3>4 DEF Safe, Holder, Running, Freeing
  <2>2. CASE s # r
    BY <1>0, <1>1, <1>4, <2>2, BecomesIs DEF CallEnds
  <2>. QED BY <2>1, <2>2
<1>5. ASSUME NEW r \in Sockets, Acquire(r) PROVE Safe(s)'
  <2>1. CASE s = r
    <3>1. call'[s].at = "live" /\ call'[s].wake = RenewEvery /\ call'[s].missed = call[s].missed
      BY <1>0, <1>5, <2>1, CallsAre DEF Acquire, CallRecord
    <3>2. lock'[TokenOf[s]] = s /\ expires'[TokenOf[s]] = LockTTL
      BY <1>0, <1>5, <2>1 DEF Acquire, SetWithExpiry, VoiceTypeOK
    <3>3. Slack(call[s].missed) \in Nat /\ Slack(call[s].missed) >= RenewEvery
      BY <1>0, SlackLeast, CallFields
    <3>4. LockTTL + Slack(call[s].missed) >= LockTTL + RenewEvery
      BY <3>3, TimesType
    <3>. QED BY <3>1, <3>2, <3>4 DEF Safe, Holder, Running, Freeing, Slack
  <2>2. CASE s # r
    <3>1. call'[s] = [call[s] EXCEPT !.crowded = call[s].crowded \/ Holding(s)]
      BY <1>5, <2>2 DEF Acquire
    <3>2. /\ call'[s].at = call[s].at /\ call'[s].wake = call[s].wake
          /\ call'[s].missed = call[s].missed /\ call'[s].lag = call[s].lag
      BY <1>0, <3>1, CallsAre DEF CallRecord
    <3>. QED BY <1>0, <1>5, <2>2, <3>2, SetSafe DEF Acquire, Running, Freeing
  <2>. QED BY <2>1, <2>2
<1>6. ASSUME NEW r \in Sockets, Refuse(r) \/ AcquireFails(r) \/ Leave(r) PROVE Safe(s)'
  <2>0. Becomes(r, "gone")
    BY <1>6 DEF Refuse, AcquireFails, Leave
  <2>1. CASE s = r
    <3>1. call'[s].at = "gone"
      BY <1>0, <2>0, <2>1, BecomesIs
    <3>. QED BY <3>1, IdleSafe DEF Running, Freeing
  <2>2. CASE s # r
    <3>1. call'[s] = call[s]
      BY <1>0, <2>0, <2>2, BecomesIs
    <3>2. CASE UNCHANGED <<lock, expires>>
      BY <1>1, <3>1, <3>2
    <3>3. CASE lock[TokenOf[r]] = Free /\ SetWithExpiry(TokenOf[r], r)
      BY <1>0, <2>2, <3>1, <3>3, SetSafe DEF Running, Freeing
    <3>. QED BY <1>6, <3>2, <3>3 DEF Refuse, AcquireFails, Leave
  <2>. QED BY <2>1, <2>2
<1>7. ASSUME NEW r \in Sockets, Renew(r) PROVE Safe(s)'
  <2>0. Running(r) /\ call[r].wake = 0 /\ lock' = lock /\ lock[TokenOf[r]] = r /\ r # Free
    BY <1>0, <1>7 DEF Renew, Safe, Holder
  <2>1. CASE s = r
    <3>0. call'[s].at = call[s].at /\ call'[s].wake = RenewEvery /\ call'[s].lag = call[s].lag
      BY <1>0, <1>7, <2>1, CallsAre DEF Renew, CallRecord
    <3>1. CASE call' = [call EXCEPT ![r].wake = RenewEvery, ![r].missed = 0]
               /\ expires' = [expires EXCEPT ![TokenOf[r]] = Extended(TokenOf[r])]
      <4>1. call'[s].missed = 0
        BY <1>0, <2>1, <3>1, CallsAre DEF CallRecord
      <4>2. expires'[TokenOf[s]] = LockTTL
        BY <1>0, <2>0, <2>1, <3>1 DEF Extended, VoiceTypeOK
      <4>3. LockTTL + Slack(0) >= LockTTL + RenewEvery
        BY SlackStep, TimesType
      <4>. QED BY <2>0, <2>1, <3>0, <4>1, <4>2, <4>3 DEF Safe, Holder, Running, Freeing, Slack
    <3>2. CASE call[r].missed < MaxMissed
               /\ call' = [call EXCEPT ![r].wake = RenewEvery, ![r].missed = @ + 1]
               /\ UNCHANGED expires
      <4>1. call'[s].missed = call[s].missed + 1
        BY <1>0, <2>1, <3>2, CallsAre DEF CallRecord
      <4>2. expires[TokenOf[s]] + Slack(call[s].missed) >= LockTTL + 0
        BY <1>0, <2>0, <2>1 DEF Safe
      <4>3. call[s].missed \in Nat /\ Slack(call[s].missed) \in Nat /\ expires[TokenOf[s]] \in Nat
        BY <1>0, CallFields, SlackType, TimesType
      <4>4. expires[TokenOf[s]] + Slack(call[s].missed + 1) >= LockTTL + RenewEvery
        BY <4>2, <4>3, SlackStep, TimesType
      <4>. QED BY <2>0, <2>1, <3>0, <3>2, <4>1, <4>4 DEF Safe, Holder, Running, Freeing, Slack
    <3>. QED BY <1>7, <3>1, <3>2 DEF Renew
  <2>2. CASE s # r
    <3>1. call'[s] = call[s]
      BY <1>0, <1>7, <2>2, CallsAre DEF Renew
    <3>2. CASE Holder(s)
      <4>1. TokenOf[s] # TokenOf[r]
        BY <1>0, <2>0, <2>2, <3>2 DEF Safe
      <4>2. expires'[TokenOf[s]] = expires[TokenOf[s]]
        BY <1>0, <1>7, <4>1 DEF Renew, VoiceTypeOK
      <4>. QED BY <1>0, <2>0, <3>1, <4>2, StaysSafe DEF Running, Freeing
    <3>3. CASE ~Holder(s)
      BY <3>1, <3>3, IdleSafe DEF Holder, Running, Freeing
    <3>. QED BY <3>2, <3>3
  <2>. QED BY <2>1, <2>2
<1>8. ASSUME NEW r \in Sockets, ReleaseReads(r) PROVE Safe(s)'
  <2>1. CASE s # r
    <3>1. call'[s] = call[s]
      BY <1>0, <1>8, <2>1, ToIs, BecomesIs DEF ReleaseReads
    <3>. QED BY <1>1, <1>8, <3>1 DEF ReleaseReads
  <2>2. CASE s = r /\ To(r, "deleting")
    <3>1. call'[s].at = "deleting" /\ call'[s].lag = call[s].lag
      BY <1>0, <2>2, ToIs
    <3>. QED BY <1>0, <1>8, <2>2, <3>1, StaysSafe DEF ReleaseReads, Running, Freeing
  <2>3. CASE s = r /\ Becomes(r, "leaving")
    <3>1. call'[s].at = "leaving"
      BY <1>0, <2>3, BecomesIs
    <3>. QED BY <3>1, IdleSafe DEF Running, Freeing
  <2>. QED BY <1>8, <2>1, <2>2, <2>3 DEF ReleaseReads
<1>9. ASSUME NEW r \in Sockets, ReleaseDeletes(r) PROVE Safe(s)'
  <2>0. lock[TokenOf[r]] = r /\ Becomes(r, "leaving")
    BY <1>0, <1>9 DEF ReleaseDeletes, Safe, Holder, Freeing
  <2>1. CASE s = r
    <3>1. call'[s].at = "leaving"
      BY <1>0, <2>0, <2>1, BecomesIs
    <3>. QED BY <3>1, IdleSafe DEF Running, Freeing
  <2>2. CASE s # r
    <3>1. call'[s] = call[s]
      BY <1>0, <2>0, <2>2, BecomesIs
    <3>2. CASE Holder(s)
      <4>1. TokenOf[s] # TokenOf[r]
        BY <1>0, <2>0, <2>2, <3>2 DEF Safe
      <4>2. lock'[TokenOf[s]] = lock[TokenOf[s]] /\ expires'[TokenOf[s]] = expires[TokenOf[s]]
        BY <1>0, <1>9, <4>1 DEF ReleaseDeletes, VoiceTypeOK
      <4>. QED BY <1>0, <3>1, <4>2, StaysSafe DEF Running, Freeing
    <3>3. CASE ~Holder(s)
      BY <3>1, <3>3, IdleSafe DEF Holder, Running, Freeing
    <3>. QED BY <3>2, <3>3
  <2>. QED BY <2>1, <2>2
<1>10. CASE EndSession
  <2>1. CASE s = entry /\ call[s].at = "live"
    <3>1. call'[s] = [call[s] EXCEPT !.at = "closed"]
      BY <1>10, <2>1 DEF EndSession
    <3>2. call'[s].at = "closed" /\ call'[s].missed = call[s].missed /\ call'[s].wake = call[s].wake
      BY <1>0, <3>1, CallsAre DEF CallRecord
    <3>. QED BY <1>0, <1>10, <2>1, <3>2, StaysSafe DEF EndSession, Running, Freeing
  <2>2. CASE ~(s = entry /\ call[s].at = "live")
    BY <1>1, <1>10, <2>2 DEF EndSession
  <2>. QED BY <2>1, <2>2
<1>11. CASE Dies
  <2>1. call'[s].at \in {"new", "gone"}
    BY <1>11 DEF Dies, CallAt
  <2>. QED BY <2>1, IdleSafe DEF Running, Freeing
<1>12. CASE VoiceTick
  <2>0. expires'[TokenOf[s]] = Down(expires[TokenOf[s]])
        /\ (expires[TokenOf[s]] # 1 => lock'[TokenOf[s]] = lock[TokenOf[s]])
        /\ expires[TokenOf[s]] \in Nat /\ call[s].wake \in Nat /\ call[s].lag \in Nat
    BY <1>0, <1>12, CallFields, TimesType DEF VoiceTick
  <2>1. CASE Running(s)
    <3>1. call[s].wake > 0 /\ call'[s] = [call[s] EXCEPT !.wake = call[s].wake - 1]
      BY <1>12, <2>1 DEF VoiceTick, Running, Freeing
    <3>2. call'[s].at = call[s].at /\ call'[s].wake = call[s].wake - 1 /\ call'[s].missed = call[s].missed
      BY <1>0, <3>1, CallsAre DEF CallRecord
    <3>3. expires[TokenOf[s]] > 1
      BY <1>0, <2>0, <2>1, <3>1, Outlasts, TimesType
    <3>4. expires[TokenOf[s]] + Slack(call[s].missed) >= LockTTL + call[s].wake
          /\ Slack(call[s].missed) \in Nat
      BY <1>0, <2>1, SlackType, CallFields, TimesType DEF Safe
    <3>5. (expires[TokenOf[s]] - 1) + Slack(call[s].missed) >= LockTTL + (call[s].wake - 1)
      BY <2>0, <3>4, TimesType
    <3>6. expires'[TokenOf[s]] = expires[TokenOf[s]] - 1 /\ lock'[TokenOf[s]] = s
      BY <1>0, <2>0, <2>1, <3>3 DEF Down, Safe, Holder
    <3>. QED BY <2>1, <3>2, <3>5, <3>6 DEF Safe, Holder, Running, Freeing, Slack
  <2>2. CASE Freeing(s)
    <3>1. call[s].lag < MaxLag /\ call'[s] = [call[s] EXCEPT !.lag = call[s].lag + 1]
      BY <1>12, <2>2 DEF VoiceTick, Running, Freeing
    <3>2. call'[s].at = call[s].at /\ call'[s].lag = call[s].lag + 1
      BY <1>0, <3>1, CallsAre DEF CallRecord
    <3>3. expires[TokenOf[s]] > MaxLag - call[s].lag
      BY <1>0, <2>2, Outlasts
    <3>4. expires[TokenOf[s]] > 1 /\ (expires[TokenOf[s]] - 1) + (call[s].lag + 1) > MaxLag
      BY <2>0, <3>1, <3>3, TimesType
    <3>5. expires'[TokenOf[s]] = expires[TokenOf[s]] - 1 /\ lock'[TokenOf[s]] = s
      BY <1>0, <2>0, <2>2, <3>4 DEF Down, Safe, Holder
    <3>. QED BY <2>2, <3>2, <3>4, <3>5 DEF Safe, Holder, Running, Freeing
  <2>3. CASE ~Running(s) /\ ~Freeing(s)
    <3>1. call'[s] = call[s]
      BY <1>12, <2>3 DEF VoiceTick
    <3>. QED BY <2>3, <3>1, IdleSafe DEF Running, Freeing
  <2>. QED BY <2>1, <2>2, <2>3
<1>. QED BY <1>2, <1>3, <1>4, <1>5, <1>6, <1>7, <1>8, <1>9, <1>10, <1>11, <1>12
         DEF VoiceNext, SocketGoes

LEMMA LockInvStep == LockInv /\ [VoiceNext]_voiceVars => LockInv'
<1>1. LockInv /\ UNCHANGED voiceVars => LockInv'
  BY DEF LockInv, VoiceTypeOK, OwnsLock, RenewedInTime, ReleasedInTime, voiceVars, Holder,
         Running, Freeing, Slack
<1>2. LockInv /\ VoiceNext => LockInv'
  <2>. SUFFICES ASSUME LockInv, VoiceNext PROVE LockInv'
    OBVIOUS
  <2>1. VoiceTypeOK'
    BY VoiceTypeStep DEF LockInv
  <2>2. \A s \in Sockets : Safe(s)'
    BY LockStep
  <2>3. (VoiceTypeOK /\ \A s \in Sockets : Safe(s))' => LockInv'
    BY LockSafe, PTL
  <2>. QED BY <2>1, <2>2, <2>3
<1>. QED BY <1>1, <1>2

LEMMA LockInvHolds == VoiceSpec => []LockInv
<1>1. VoiceInit => LockInv
  BY InitInv
<1>. QED BY <1>1, LockInvStep, PTL DEF VoiceSpec

(* One live call per token, and no release deletes another call's lock
   (VoiceHandoff.LockExclusive), for any number of sockets and tokens and for any times
   within LockAssumption. *)
THEOREM LockExclusiveHolds == VoiceSpec => []LockExclusive
<1>1. LockInv => LockExclusive
  BY DEF LockInv, OwnsLock, LockExclusive, Holder, Freeing
<1>. QED BY <1>1, LockInvHolds, PTL

-----------------------------------------------------------------------------
(* The registered socket. *)

(* What every step but Acquire does to a call: it takes up nothing. *)
Settles(s) ==
    /\ Holding(s)' => Holding(s)
    /\ Running(s)' => Running(s) /\ call'[s].crowded = call[s].crowded
    /\ call'[s].at = "live" => call[s].at = "live"

LEMMA SettlesIfSame == ASSUME NEW s \in Sockets, call'[s] = call[s] PROVE Settles(s)
BY DEF Settles, Holding, Running, Freeing

LEMMA SettlesIfPlaced ==
    ASSUME VoiceTypeOK, NEW s \in Sockets, NEW r \in Sockets, NEW place,
           Becomes(r, place) \/ To(r, place),
           place \in {"releasing", "deleting", "leaving"} => Holding(r),
           place \in {"claimed", "releasing", "deleting", "leaving", "gone"}
    PROVE  Settles(s)
<1>1. CASE s = r
  BY <1>1, BecomesIs, ToIs DEF Settles, Holding, Running, Freeing
<1>2. CASE s # r
  BY <1>2, BecomesIs, ToIs, SettlesIfSame
<1>. QED BY <1>1, <1>2

LEMMA OthersSettle ==
    ASSUME VoiceTypeOK, VoiceNext, ~\E r \in Sockets : Acquire(r), NEW s \in Sockets
    PROVE  Settles(s)
<1>1. ASSUME NEW t \in Tokens, RequestCall(t) PROVE Settles(s)
  BY <1>1, SettlesIfSame DEF RequestCall
<1>2. ASSUME NEW r \in Sockets, ClaimToken(r) PROVE Settles(s)
  BY <1>2, SettlesIfPlaced DEF ClaimToken
<1>3. ASSUME NEW r \in Sockets, CallEnds(r) PROVE Settles(s)
  BY <1>3, SettlesIfPlaced DEF CallEnds, Holding
<1>4. ASSUME NEW r \in Sockets, Refuse(r) \/ AcquireFails(r) \/ Leave(r) PROVE Settles(s)
  <2>1. Becomes(r, "gone")
    BY <1>4 DEF Refuse, AcquireFails, Leave
  <2>. QED BY <2>1, SettlesIfPlaced
<1>5. ASSUME NEW r \in Sockets, Renew(r) PROVE Settles(s)
  <2>1. call'[s].at = call[s].at /\ call'[s].crowded = call[s].crowded
    BY <1>5, CallsAre DEF Renew, CallRecord
  <2>. QED BY <2>1 DEF Settles, Holding, Running, Freeing
<1>6. ASSUME NEW r \in Sockets, ReleaseReads(r) PROVE Settles(s)
  <2>1. Holding(r) /\ (To(r, "deleting") \/ Becomes(r, "leaving"))
    BY <1>6 DEF ReleaseReads, Holding, Freeing
  <2>2. CASE To(r, "deleting")
    BY <2>1, <2>2, SettlesIfPlaced
  <2>3. CASE Becomes(r, "leaving")
    BY <2>1, <2>3, SettlesIfPlaced
  <2>. QED BY <2>1, <2>2, <2>3
<1>7. ASSUME NEW r \in Sockets, ReleaseDeletes(r) PROVE Settles(s)
  <2>1. Holding(r) /\ Becomes(r, "leaving")
    BY <1>7 DEF ReleaseDeletes, Holding, Freeing
  <2>. QED BY <2>1, SettlesIfPlaced
<1>8. CASE EndSession
  <2>1. call'[s].crowded = call[s].crowded
        /\ (call'[s].at = call[s].at \/ (call[s].at = "live" /\ call'[s].at = "closed"))
    <3>1. call'[s] = call[s] \/ (call[s].at = "live" /\ call'[s] = [call[s] EXCEPT !.at = "closed"])
      BY <1>8 DEF EndSession
    <3>. QED BY <3>1, CallsAre DEF CallRecord
  <2>. QED BY <2>1 DEF Settles, Holding, Running, Freeing
<1>9. CASE Dies
  <2>1. call'[s].at \in {"new", "gone"}
    BY <1>9 DEF Dies, CallAt
  <2>. QED BY <2>1 DEF Settles, Holding, Running, Freeing
<1>10. CASE VoiceTick
  <2>1. \/ call'[s] = call[s]
        \/ call'[s] = [call[s] EXCEPT !.wake = call[s].wake - 1]
        \/ call'[s] = [call[s] EXCEPT !.lag = call[s].lag + 1]
    BY <1>10 DEF VoiceTick
  <2>2. call[s] \in CallRecord
    BY CallsAre
  <2>3. call'[s].at = call[s].at /\ call'[s].crowded = call[s].crowded
    BY <2>1, <2>2 DEF CallRecord
  <2>. QED BY <2>3 DEF Settles, Holding, Running, Freeing
<1>. QED BY <1>1, <1>2, <1>3, <1>4, <1>5, <1>6, <1>7, <1>8, <1>9, <1>10
         DEF VoiceNext, SocketGoes

LEMMA AloneStep == EntryInv /\ VoiceNext => Alone'
<1>. SUFFICES ASSUME EntryInv, VoiceNext,
                     NEW s \in Sockets, NEW r \in Sockets,
                     Running(s)', ~call'[s].crowded, r # s
              PROVE  ~Holding(r)'
  BY DEF Alone
<1>1. ASSUME NEW q \in Sockets, Acquire(q) PROVE ~Holding(r)'
  <2>1. ASSUME NEW p \in Sockets, p # q
        PROVE  call'[p].at = call[p].at /\ call'[p].crowded = (call[p].crowded \/ Holding(p))
    <3>1. call'[p] = [call[p] EXCEPT !.crowded = call[p].crowded \/ Holding(p)]
      BY <1>1, <2>1 DEF Acquire
    <3>. QED BY <3>1, CallsAre DEF EntryInv, CallRecord
  <2>2. CASE s = q
    <3>1. call'[q].crowded = \E p \in Sockets : Holding(p)
      BY <1>1, CallsAre DEF EntryInv, Acquire, CallRecord
    <3>2. ~Holding(r)
      BY <2>2, <3>1
    <3>. QED BY <2>1, <2>2, <3>2 DEF Holding, Running, Freeing
  <2>3. CASE s # q
    <3>1. Holding(s)
      BY <2>1, <2>3 DEF Holding, Running
    <3>. QED BY <2>1, <2>3, <3>1
  <2>. QED BY <2>2, <2>3
<1>2. CASE ~\E q \in Sockets : Acquire(q)
  BY <1>2, OthersSettle DEF EntryInv, Alone, Settles
<1>. QED BY <1>1, <1>2

LEMMA RegisteredStep == EntryInv /\ VoiceNext => Registered'
<1>. SUFFICES ASSUME EntryInv, VoiceNext, NEW s \in Sockets,
                     call'[s].at = "live", ~call'[s].crowded
              PROVE  entry' = s
  BY DEF Registered
<1>1. ASSUME NEW q \in Sockets, Acquire(q) PROVE entry' = s
  <2>1. CASE s # q
    <3>1. call'[s] = [call[s] EXCEPT !.crowded = call[s].crowded \/ Holding(s)]
      BY <1>1, <2>1 DEF Acquire
    <3>2. call[s].at = "live" /\ ~Holding(s)
      BY <3>1, CallsAre DEF EntryInv, CallRecord
    <3>. QED BY <3>2 DEF Holding, Running
  <2>. QED BY <1>1, <2>1 DEF Acquire
<1>2. CASE ~\E q \in Sockets : Acquire(q)
  <2>1. Running(s) /\ call[s].at = "live" /\ ~call[s].crowded /\ entry = s
    BY <1>2, OthersSettle DEF EntryInv, Registered, Settles, Running
  <2>2. ASSUME NEW q \in Sockets, Leave(q) PROVE FALSE
    <3>1. Holding(q) /\ q # s
      BY <2>1, <2>2 DEF Leave, Holding
    <3>. QED BY <2>1, <3>1 DEF EntryInv, Alone
  <2>3. ~EndSession
    <3>1. EndSession => call'[s] = [call[s] EXCEPT !.at = "closed"]
      BY <2>1 DEF EndSession
    <3>2. [call[s] EXCEPT !.at = "closed"].at = "closed"
      BY CallsAre DEF EntryInv, CallRecord
    <3>. QED BY <3>1, <3>2
  <2>4. ~Dies
    BY <2>1 DEF Dies, CallAt
  <2>5. UNCHANGED entry
    BY <1>2, <2>2, <2>3, <2>4
       DEF VoiceNext, SocketGoes, RequestCall, ClaimToken, CallEnds, Refuse, AcquireFails,
           KeepsEntry, Renew, ReleaseReads, ReleaseDeletes, VoiceTick
  <2>. QED BY <2>1, <2>5
<1>. QED BY <1>1, <1>2

LEMMA EntryInvHolds == VoiceSpec => []EntryInv
<1>1. VoiceInit => EntryInv
  BY InitInv
<1>2. EntryInv /\ UNCHANGED voiceVars => EntryInv'
  BY DEF EntryInv, VoiceTypeOK, Alone, Registered, voiceVars, Holding, Running, Freeing
<1>3. EntryInv /\ VoiceNext => EntryInv'
  BY AloneStep, RegisteredStep, VoiceTypeStep DEF EntryInv
<1>. QED BY <1>1, <1>2, <1>3, PTL DEF VoiceSpec

(* The chat's end closes the session's voice call, unless another call of the session
   overlapped with it (VoiceHandoff.EndReachesVoice). *)
THEOREM EndReachesVoiceHolds == VoiceSpec => EndReachesVoice
<1>1. ASSUME EntryInv, [VoiceNext]_voiceVars, NEW s \in Sockets,
             chatEnded' # chatEnded, call[s].at = "live", ~call[s].crowded
      PROVE  call'[s].at = "closed"
  <2>1. EndSession
    BY <1>1 DEF VoiceNext, voiceVars, SocketGoes, RequestCall, ClaimToken, CallEnds, Acquire,
                Refuse, AcquireFails, Renew, ReleaseReads, ReleaseDeletes, Leave, Dies, VoiceTick
  <2>2. entry = s
    BY <1>1 DEF EntryInv, Registered
  <2>. QED BY <1>1, <2>1, <2>2, CallsAre DEF EndSession, EntryInv, CallRecord
<1>2. EntryInv /\ [VoiceNext]_voiceVars =>
          [\A s \in Sockets :
              chatEnded' # chatEnded /\ call[s].at = "live" /\ ~call[s].crowded
                  => call'[s].at = "closed"]_voiceVars
  BY <1>1
<1>. QED BY <1>2, EntryInvHolds, PTL DEF EndReachesVoice, VoiceSpec
=============================================================================
