------------------------ MODULE WebhookOutboxProofs ------------------------
(***************************************************************************)
(* What holds of the outbox for any number of rows and pods, any limits    *)
(* that satisfy the assumptions, and any clock offsets.                    *)
(***************************************************************************)
EXTENDS WebhookOutbox, FiniteSetTheorems, TLAPS

(* The backoff after n failures is an entry of the schedule. *)
LEMMA BackoffIsNat == ASSUME NEW n \in Nat PROVE BackoffAfter(n) \in Nat
  BY LimitAssumption DEF BackoffAfter, BackoffEntry

(* _webhook_outbox_now never runs behind the slowest clock. *)
LEMMA ClockIsNat ==
  ASSUME TypeOK, NEW p \in Pods PROVE Clock(p) \in Nat /\ now <= Clock(p)
  BY ClockAssumption DEF Clock, TypeOK

LEMMA InitTypeOK == Init => TypeOK
  BY DEF Init, TypeOK, Statuses, NotQueued, Outcomes

LEMMA SubmitTypeOK == TypeOK /\ Submit => TypeOK'
<1>. SUFFICES ASSUME TypeOK, NEW r \in Rows,
                     \/ InlineAcknowledged(r)
                     \/ NoUrlConfigured(r)
                     \/ \E p \in Pods : Enqueue(r, p)
                     \/ EnqueueLost(r)
              PROVE  TypeOK'
  BY DEF Submit
<1>1. CASE InlineAcknowledged(r)
  BY <1>1 DEF InlineAcknowledged, TypeOK, Statuses, NotQueued, pass
<1>2. CASE NoUrlConfigured(r)
  BY <1>2 DEF NoUrlConfigured, TypeOK, Statuses, NotQueued, pass, ghosts
<1>3. CASE \E p \in Pods : Enqueue(r, p)
  BY <1>3, ClockIsNat DEF Enqueue, TypeOK, Statuses, pass
<1>4. CASE EnqueueLost(r)
  BY <1>4 DEF EnqueueLost, TypeOK, Statuses, NotQueued, pass
<1>. QED BY <1>1, <1>2, <1>3, <1>4

LEMMA ClaimPassTypeOK ==
  ASSUME TypeOK, NEW p \in Pods, ClaimPass(p) PROVE TypeOK'
<1>1. PICK S \in OldestDue(p) :
        LET claimed == {r \in S : ~OverAge(r, p)} IN
          /\ status' = [r \in Rows |-> IF r \in S \ claimed THEN "dead" ELSE status[r]]
          /\ attempts' = [r \in Rows |-> IF r \in claimed THEN Bumped(r) ELSE attempts[r]]
          /\ nextAt' = [r \in Rows |-> IF r \in claimed THEN Clock(p) + Lease ELSE nextAt[r]]
          /\ held' = [held EXCEPT ![p] = claimed]
          /\ token' = [token EXCEPT ![p] =
                         [r \in Rows |-> IF r \in claimed THEN Bumped(r) ELSE 0]]
          /\ pc' = [pc EXCEPT ![p] = IF claimed = {} THEN "idle" ELSE "next"]
          /\ rowStart' = [rowStart EXCEPT ![p] = IF claimed = {} THEN 0 ELSE now]
  BY DEF ClaimPass
<1>2. S \subseteq Rows
  BY DEF OldestDue, Due
<1>3. Clock(p) + Lease \in Nat
  BY ClockIsNat, LimitAssumption
<1>4. \A r \in Rows : Bumped(r) \in Nat
  BY DEF Bumped, TypeOK
<1>5. UNCHANGED <<now, enabled, created, ghosts, cur, result>>
  BY DEF ClaimPass
<1>6. status' \in [Rows -> Statuses] /\ attempts' \in [Rows -> Nat] /\ nextAt' \in [Rows -> Nat]
  BY <1>1, <1>3, <1>4 DEF TypeOK, Statuses, Terminal
<1>7. held' \in [Pods -> SUBSET Rows] /\ token' \in [Pods -> [Rows -> Nat]]
  BY <1>1, <1>2, <1>4 DEF TypeOK
<1>8. /\ pc' \in [Pods -> {"idle", "next", "sending", "finalizing"}]
      /\ rowStart' \in [Pods -> Nat]
  BY <1>1 DEF TypeOK
<1>. QED BY <1>5, <1>6, <1>7, <1>8 DEF TypeOK, ghosts

LEMMA NextRowTypeOK ==
  ASSUME TypeOK, NEW p \in Pods, NextRow(p)
  PROVE  /\ pc' \in [Pods -> {"idle", "next", "sending", "finalizing"}]
         /\ held' \in [Pods -> SUBSET Rows]
         /\ token' \in [Pods -> [Rows -> Nat]]
         /\ cur' \in [Pods -> Rows \cup {NoRow}]
         /\ result' \in [Pods -> Outcomes \cup {"none"}]
         /\ rowStart' \in [Pods -> Nat]
  BY DEF NextRow, TypeOK

LEMMA PassStepTypeOK ==
  ASSUME TypeOK, NEW p \in Pods, PassStep(p) \/ AbandonPass(p) PROVE TypeOK'
<1>1. CASE ClaimPass(p)
  BY <1>1, ClaimPassTypeOK
<1>2. CASE BeginDelivery(p)
  <2>1. tries' \in [Rows -> Nat] /\ cur' \in [Pods -> Rows \cup {NoRow}]
    BY <1>2 DEF BeginDelivery, TypeOK
  <2>. QED BY <1>2, <2>1 DEF BeginDelivery, TypeOK, table
<1>3. CASE EndDelivery(p)
  <2>1. received' \in [Rows -> BOOLEAN]
    <3>1. PICK got \in BOOLEAN :
            received' = [received EXCEPT ![cur[p]] = received[cur[p]] \/ got]
      BY <1>3 DEF EndDelivery
    <3>. QED BY <3>1, Zenon DEF TypeOK
  <2>. QED BY <1>3, <2>1 DEF EndDelivery, TypeOK, table
<1>4. CASE FinalizeDelivered(p)
  BY <1>4, NextRowTypeOK DEF FinalizeDelivered, TypeOK, Statuses, Terminal, ghosts
<1>5. CASE FinalizeDead(p)
  BY <1>5, NextRowTypeOK DEF FinalizeDead, TypeOK, Statuses, Terminal, ghosts
<1>6. CASE FinalizeReschedule(p)
  <2>. DEFINE c == cur[p]
  <2>1. CASE c \in Rows
    <3>1. token[p][c] \in Nat
      BY <2>1 DEF TypeOK
    <3>2. Clock(p) + BackoffAfter(token[p][c]) \in Nat
      BY <3>1, BackoffIsNat, ClockIsNat
    <3>3. nextAt' \in [Rows -> Nat]
      BY <1>6, <3>2 DEF FinalizeReschedule, TypeOK
    <3>. QED BY <1>6, <3>3, NextRowTypeOK DEF FinalizeReschedule, TypeOK, ghosts
  <2>2. CASE c \notin Rows
    <3>1. nextAt' = nextAt
      BY <1>6, <2>2 DEF FinalizeReschedule, TypeOK
    <3>. QED BY <1>6, <3>1, NextRowTypeOK DEF FinalizeReschedule, TypeOK, ghosts
  <2>. QED BY <2>1, <2>2
<1>7. CASE FinalizeSkipped(p)
  BY <1>7, NextRowTypeOK DEF FinalizeSkipped, TypeOK, table, ghosts
<1>8. CASE AbandonPass(p)
  BY <1>8 DEF AbandonPass, TypeOK, table, ghosts
<1>. QED BY <1>1, <1>2, <1>3, <1>4, <1>5, <1>6, <1>7, <1>8 DEF PassStep, Finalize

(* Every variable keeps its type. *)
THEOREM TypeCorrect == Spec => []TypeOK
<1>1. TypeOK /\ [Next]_vars => TypeOK'
  <2>. SUFFICES ASSUME TypeOK, [Next]_vars PROVE TypeOK'
    OBVIOUS
  <2>1. CASE Submit
    BY <2>1, SubmitTypeOK
  <2>2. CASE \E p \in Pods : PassStep(p) \/ AbandonPass(p)
    BY <2>2, PassStepTypeOK
  <2>3. CASE Prune
    BY <2>3 DEF Prune, TypeOK, Statuses, pass, ghosts
  <2>4. CASE ToggleEnabled
    BY <2>4 DEF ToggleEnabled, TypeOK, table, pass, ghosts
  <2>5. CASE Tick
    BY <2>5 DEF Tick, TypeOK, table, pass, ghosts
  <2>6. CASE UNCHANGED vars
    BY <2>6 DEF vars, TypeOK, table, pass, ghosts
  <2>. QED BY <2>1, <2>2, <2>3, <2>4, <2>5, <2>6 DEF Next
<1>. QED BY <1>1, InitTypeOK, PTL DEF Spec

-----------------------------------------------------------------------------
(* A pass knows its rows: it holds some exactly while it runs, all of them   *)
(* queued once; its current row is one of them, and a "delivered" it is      *)
(* about to record was received.                                             *)
PassInv ==
    \A p \in Pods :
        /\ pc[p] = "idle" <=> held[p] = {}
        /\ \A r \in held[p] : status[r] \notin NotQueued
        /\ pc[p] \in {"sending", "finalizing"} => cur[p] \in held[p]
        /\ pc[p] = "finalizing" /\ result[p] = "delivered" => received[cur[p]]

(* What the proofs below need to know of ClaimPass(p): the rows S it reads,  *)
(* and those of them it claims.                                              *)
ClaimEffect(p, S, claimed) ==
    /\ claimed \subseteq S /\ S \subseteq Due(p)
    /\ Cardinality(S) <= Batch
    /\ status' = [r \in Rows |-> IF r \in S \ claimed THEN "dead" ELSE status[r]]
    /\ attempts' = [r \in Rows |-> IF r \in claimed THEN attempts[r] + 1 ELSE attempts[r]]
    /\ nextAt' = [r \in Rows |-> IF r \in claimed THEN Clock(p) + Lease ELSE nextAt[r]]
    /\ held' = [held EXCEPT ![p] = claimed]
    /\ token' = [token EXCEPT ![p] =
                   [r \in Rows |-> IF r \in claimed THEN attempts[r] + 1 ELSE 0]]
    /\ pc' = [pc EXCEPT ![p] = IF claimed = {} THEN "idle" ELSE "next"]
    /\ rowStart' = [rowStart EXCEPT ![p] = IF claimed = {} THEN 0 ELSE now]

LEMMA ClaimPassEffect ==
  ASSUME TypeOK, NEW p \in Pods, ClaimPass(p)
  PROVE  \E S, claimed \in SUBSET Rows : ClaimEffect(p, S, claimed)
<1>1. PICK S \in OldestDue(p) :
        LET claimed == {r \in S : ~OverAge(r, p)} IN
          /\ status' = [r \in Rows |-> IF r \in S \ claimed THEN "dead" ELSE status[r]]
          /\ attempts' = [r \in Rows |-> IF r \in claimed THEN Bumped(r) ELSE attempts[r]]
          /\ nextAt' = [r \in Rows |-> IF r \in claimed THEN Clock(p) + Lease ELSE nextAt[r]]
          /\ held' = [held EXCEPT ![p] = claimed]
          /\ token' = [token EXCEPT ![p] =
                         [r \in Rows |-> IF r \in claimed THEN Bumped(r) ELSE 0]]
          /\ pc' = [pc EXCEPT ![p] = IF claimed = {} THEN "idle" ELSE "next"]
          /\ rowStart' = [rowStart EXCEPT ![p] = IF claimed = {} THEN 0 ELSE now]
  BY DEF ClaimPass
<1>2. S \subseteq Due(p) /\ S \subseteq Rows /\ Cardinality(S) <= Batch
  BY DEF OldestDue, Due
<1>. DEFINE claimed == {r \in S : ~OverAge(r, p)}
<1>3. claimed \subseteq S /\ claimed \in SUBSET Rows
  BY <1>2
<1>4. S \in SUBSET Rows
  BY <1>2
<1>5. /\ status' = [r \in Rows |-> IF r \in S \ claimed THEN "dead" ELSE status[r]]
      /\ attempts' = [r \in Rows |-> IF r \in claimed THEN attempts[r] + 1 ELSE attempts[r]]
      /\ nextAt' = [r \in Rows |-> IF r \in claimed THEN Clock(p) + Lease ELSE nextAt[r]]
      /\ held' = [held EXCEPT ![p] = claimed]
      /\ token' = [token EXCEPT ![p] =
                     [r \in Rows |-> IF r \in claimed THEN attempts[r] + 1 ELSE 0]]
      /\ pc' = [pc EXCEPT ![p] = IF claimed = {} THEN "idle" ELSE "next"]
      /\ rowStart' = [rowStart EXCEPT ![p] = IF claimed = {} THEN 0 ELSE now]
  BY <1>1, Zenon DEF Bumped
<1>. HIDE DEF claimed
<1>6. ClaimEffect(p, S, claimed)
  BY <1>2, <1>3, <1>5 DEF ClaimEffect
<1>. QED BY <1>3, <1>4, <1>6

(* In-line sends touch only rows that were never queued. *)
LEMMA SubmitEffect ==
  ASSUME TypeOK, Submit
  PROVE  /\ UNCHANGED pass
         /\ now' = now
         /\ \A r \in Rows : status[r] # "none" =>
              UNCHANGED <<status[r], attempts[r], nextAt[r], received[r]>>
<1>. PICK s \in Rows : \/ InlineAcknowledged(s)
                       \/ NoUrlConfigured(s)
                       \/ \E p \in Pods : Enqueue(s, p)
                       \/ EnqueueLost(s)
  BY DEF Submit
<1>1. status[s] = "none" /\ UNCHANGED pass /\ now' = now
  BY DEF InlineAcknowledged, NoUrlConfigured, Enqueue, EnqueueLost
<1>2. \A r \in Rows \ {s} : UNCHANGED <<status[r], attempts[r], nextAt[r], received[r]>>
  BY DEF InlineAcknowledged, NoUrlConfigured, Enqueue, EnqueueLost, TypeOK, ghosts
<1>. QED BY <1>1, <1>2

LEMMA PassInvInductive == TypeOK /\ PassInv /\ [Next]_vars => PassInv'
<1>. SUFFICES ASSUME TypeOK, PassInv, [Next]_vars PROVE PassInv'
  OBVIOUS
<1>1. ASSUME NEW p \in Pods, ClaimPass(p) PROVE PassInv'
  <2>1. PICK S, claimed \in SUBSET Rows : ClaimEffect(p, S, claimed)
    BY <1>1, ClaimPassEffect
  <2>2. UNCHANGED <<cur, result, received>>
    BY <1>1 DEF ClaimPass, ghosts
  <2>3. \A r \in Rows : status'[r] \in NotQueued => status[r] \in NotQueued
    BY <2>1 DEF ClaimEffect, NotQueued
  <2>4. \A r \in claimed : status[r] = "pending"
    BY <2>1 DEF ClaimEffect, Due
  <2>. QED BY <2>1, <2>2, <2>3, <2>4 DEF ClaimEffect, PassInv, TypeOK, NotQueued
<1>2. ASSUME NEW p \in Pods, BeginDelivery(p) PROVE PassInv'
  BY <1>2 DEF BeginDelivery, PassInv, TypeOK, table
<1>3. ASSUME NEW p \in Pods, EndDelivery(p) PROVE PassInv'
  <2>1. PICK o \in Outcomes, got \in BOOLEAN :
          /\ o = "delivered" => got
          /\ result' = [result EXCEPT ![p] = o]
          /\ received' = [received EXCEPT ![cur[p]] = received[cur[p]] \/ got]
    BY <1>3 DEF EndDelivery
  <2>2. cur[p] \in Rows
    BY <1>3 DEF EndDelivery, PassInv, TypeOK
  <2>3. \A r \in Rows : received[r] => received'[r]
    BY <2>1, Zenon DEF TypeOK
  <2>4. o = "delivered" => received'[cur[p]]
    BY <2>1, <2>2, Zenon DEF TypeOK
  <2>5. /\ pc' = [pc EXCEPT ![p] = "finalizing"]
        /\ UNCHANGED <<held, cur, status>>
    BY <1>3 DEF EndDelivery, table
  <2>. QED BY <1>3, <2>1, <2>3, <2>4, <2>5 DEF EndDelivery, PassInv, TypeOK
<1>4. ASSUME NEW p \in Pods, Finalize(p) PROVE PassInv'
  <2>1. NextRow(p) /\ received' = received
    BY <1>4 DEF Finalize, FinalizeDelivered, FinalizeDead, FinalizeReschedule,
                FinalizeSkipped, ghosts
  <2>2. \A r \in Rows : status'[r] \in NotQueued => status[r] \in NotQueued
    BY <1>4 DEF Finalize, FinalizeDelivered, FinalizeDead, FinalizeReschedule,
                FinalizeSkipped, table, TypeOK, NotQueued
  <2>. QED BY <2>1, <2>2 DEF NextRow, PassInv, TypeOK
<1>5. ASSUME NEW p \in Pods, AbandonPass(p) PROVE PassInv'
  BY <1>5 DEF AbandonPass, PassInv, TypeOK, ghosts, table
<1>6. CASE Submit
  BY <1>6, SubmitEffect DEF PassInv, TypeOK, pass, NotQueued
<1>7. CASE Prune
  BY <1>7 DEF Prune, Prunable, PassInv, TypeOK, pass, ghosts, NotQueued
<1>8. CASE ToggleEnabled \/ Tick \/ UNCHANGED vars
  BY <1>8 DEF ToggleEnabled, Tick, vars, PassInv, table, ghosts, pass
<1>. QED BY <1>1, <1>2, <1>3, <1>4, <1>5, <1>6, <1>7, <1>8 DEF Next, PassStep

LEMMA PassInvHolds == Spec => [](TypeOK /\ PassInv)
<1>1. Init => PassInv
  BY DEF Init, PassInv
<1>. QED BY <1>1, PassInvInductive, TypeCorrect, PTL DEF Spec

-----------------------------------------------------------------------------
(* FENCING *)

LEMMA FencingInductive ==
  TypeOK /\ PassInv /\ FencingTokens /\ [Next]_vars => FencingTokens'
<1>. SUFFICES ASSUME TypeOK, PassInv, FencingTokens, [Next]_vars PROVE FencingTokens'
  OBVIOUS
<1>1. ASSUME NEW p \in Pods, ClaimPass(p) PROVE FencingTokens'
  <2>1. PICK S, claimed \in SUBSET Rows : ClaimEffect(p, S, claimed)
    BY <1>1, ClaimPassEffect
  <2>2. \A r \in claimed : attempts'[r] = attempts[r] + 1 /\ token'[p][r] = attempts[r] + 1
    BY <2>1 DEF ClaimEffect, TypeOK
  <2>3. \A r \in Rows : attempts'[r] \in Nat /\ attempts'[r] >= attempts[r]
    BY <2>1 DEF ClaimEffect, TypeOK
  <2>4. \A q \in Pods \ {p} : held'[q] = held[q] /\ token'[q] = token[q]
    BY <2>1 DEF ClaimEffect, TypeOK
  <2>5. held'[p] = claimed
    BY <2>1 DEF ClaimEffect, TypeOK
  <2>6. ASSUME NEW q \in Pods, NEW r \in Rows, r \in held'[q]
        PROVE  token'[q][r] \in 1..attempts'[r]
    <3>1. CASE q = p
      BY <3>1, <2>2, <2>5, <2>6 DEF TypeOK
    <3>2. CASE q # p
      <4>1. token[q][r] \in 1..attempts[r] /\ token'[q][r] = token[q][r]
        BY <3>2, <2>4, <2>6 DEF FencingTokens
      <4>2. attempts[r] \in Nat /\ attempts'[r] \in Nat /\ attempts'[r] >= attempts[r]
        BY <2>3 DEF TypeOK
      <4>. QED BY <4>1, <4>2
    <3>. QED BY <3>1, <3>2
  <2>7. ASSUME NEW q \in Pods \ {p}, NEW r \in Rows, r \in held'[p], r \in held'[q]
        PROVE  token'[p][r] # token'[q][r]
    BY <2>2, <2>4, <2>5, <2>7 DEF FencingTokens, TypeOK
  <2>8. ASSUME NEW q \in Pods \ {p}, NEW s \in Pods \ {p}, q # s,
               NEW r \in Rows, r \in held'[s], r \in held'[q]
        PROVE  token'[s][r] # token'[q][r]
    BY <2>4, <2>8 DEF FencingTokens
  <2>. QED BY <2>6, <2>7, <2>8 DEF FencingTokens
<1>2. ASSUME NEW p \in Pods, BeginDelivery(p) \/ EndDelivery(p) PROVE FencingTokens'
  BY <1>2 DEF BeginDelivery, EndDelivery, table, FencingTokens
<1>3. ASSUME NEW p \in Pods, Finalize(p) PROVE FencingTokens'
  <2>1. NextRow(p) /\ attempts' = attempts
    BY <1>3 DEF Finalize, FinalizeDelivered, FinalizeDead, FinalizeReschedule,
                FinalizeSkipped, table
  <2>. QED BY <2>1 DEF NextRow, FencingTokens, TypeOK
<1>4. ASSUME NEW p \in Pods, AbandonPass(p) PROVE FencingTokens'
  BY <1>4 DEF AbandonPass, FencingTokens, TypeOK, table
<1>5. CASE Submit
  BY <1>5, SubmitEffect DEF FencingTokens, PassInv, TypeOK, pass, NotQueued
<1>6. CASE Prune \/ ToggleEnabled \/ Tick \/ UNCHANGED vars
  BY <1>6 DEF Prune, ToggleEnabled, Tick, vars, table, pass, FencingTokens
<1>. QED BY <1>1, <1>2, <1>3, <1>4, <1>5, <1>6 DEF Next, PassStep

(* No two passes ever hold the same claim of a row. *)
THEOREM FencingTokensHold == Spec => []FencingTokens
<1>1. Init => FencingTokens
  BY DEF Init, FencingTokens
<1>. QED BY <1>1, FencingInductive, PassInvHolds, PTL DEF Spec

(* A late finalize leaves a newer claim's row alone, however late it is. *)
THEOREM NewerClaimKeptHolds == Spec => NewerClaimKept
<1>1. TypeOK /\ PassInv /\ FencingTokens /\ [Next]_vars =>
        [\A p, q \in Pods : \A r \in Rows :
            /\ p # q
            /\ pc[p] = "finalizing" /\ cur[p] = r /\ pc'[p] # "finalizing"
            /\ LatestClaim(q, r)
            => status'[r] = status[r] /\ nextAt'[r] = nextAt[r]]_vars
  <2>. SUFFICES ASSUME TypeOK, PassInv, FencingTokens, Next,
                       NEW p \in Pods, NEW q \in Pods, NEW r \in Rows, p # q,
                       pc[p] = "finalizing", cur[p] = r, pc'[p] # "finalizing",
                       LatestClaim(q, r)
                PROVE  status'[r] = status[r] /\ nextAt'[r] = nextAt[r]
    OBVIOUS
  <2>1. ~Fence(p, r)
    BY DEF Fence, LatestClaim, FencingTokens, PassInv
  <2>2. CASE Finalize(p)
    BY <2>1, <2>2 DEF Finalize, FinalizeDelivered, FinalizeDead, FinalizeReschedule,
                      FinalizeSkipped, table
  <2>3. CASE AbandonPass(p)
    BY <2>3 DEF AbandonPass, table
  <2>4. ASSUME NEW s \in Pods, s # p, PassStep(s) \/ AbandonPass(s) PROVE FALSE
    <3>1. CASE ClaimPass(s)
      <4>1. PICK S, claimed \in SUBSET Rows : ClaimEffect(s, S, claimed)
        BY <3>1, ClaimPassEffect
      <4>. QED BY <4>1, <2>4 DEF ClaimEffect, TypeOK
    <3>2. CASE BeginDelivery(s) \/ EndDelivery(s) \/ AbandonPass(s)
      BY <3>2, <2>4 DEF BeginDelivery, EndDelivery, AbandonPass, TypeOK
    <3>3. CASE Finalize(s)
      BY <3>3, <2>4 DEF Finalize, FinalizeDelivered, FinalizeDead, FinalizeReschedule,
                        FinalizeSkipped, NextRow, TypeOK
    <3>. QED BY <2>4, <3>1, <3>2, <3>3 DEF PassStep
  <2>5. CASE ClaimPass(p) \/ BeginDelivery(p) \/ EndDelivery(p)
    BY <2>5 DEF ClaimPass, BeginDelivery, EndDelivery
  <2>6. CASE Submit \/ Prune \/ ToggleEnabled \/ Tick
    BY <2>6, SubmitEffect DEF Prune, ToggleEnabled, Tick, pass
  <2>. QED BY <2>2, <2>3, <2>4, <2>5, <2>6 DEF Next, PassStep
<1>. QED BY <1>1, PassInvHolds, FencingTokensHold, PTL DEF Spec, NewerClaimKept

(* Once delivered or dead, a row stays so until it is pruned. *)
THEOREM TerminalIsFinalHolds == Spec => TerminalIsFinal
<1>1. TypeOK /\ [Next]_vars =>
        [\A r \in Rows :
            /\ status[r] \in Terminal => status'[r] \in {status[r], "pruned"}
            /\ status[r] = "pruned" => status'[r] = "pruned"]_vars
  <2>. SUFFICES ASSUME TypeOK, Next, NEW r \in Rows,
                       status[r] \in Terminal \cup {"pruned"}
                PROVE  \/ status'[r] = status[r]
                       \/ status[r] \in Terminal /\ status'[r] = "pruned"
    BY DEF Terminal
  <2>1. ASSUME NEW p \in Pods, ClaimPass(p) PROVE status'[r] = status[r]
    <3>1. PICK S, claimed \in SUBSET Rows : ClaimEffect(p, S, claimed)
      BY <2>1, ClaimPassEffect
    <3>. QED BY <3>1 DEF ClaimEffect, Due, Terminal
  <2>2. ASSUME NEW p \in Pods, Finalize(p) PROVE status'[r] = status[r]
    BY <2>2 DEF Finalize, FinalizeDelivered, FinalizeDead, FinalizeReschedule,
                FinalizeSkipped, Fence, table, Terminal, TypeOK
  <2>3. ASSUME NEW p \in Pods, BeginDelivery(p) \/ EndDelivery(p) \/ AbandonPass(p)
        PROVE  status'[r] = status[r]
    BY <2>3 DEF BeginDelivery, EndDelivery, AbandonPass, table
  <2>4. CASE Submit
    BY <2>4, SubmitEffect DEF Terminal
  <2>5. CASE Prune
    BY <2>5 DEF Prune, Prunable
  <2>6. CASE ToggleEnabled \/ Tick
    BY <2>6 DEF ToggleEnabled, Tick, table
  <2>. QED BY <2>1, <2>2, <2>3, <2>4, <2>5, <2>6 DEF Next, PassStep
<1>. QED BY <1>1, TypeCorrect, PTL DEF Spec, TerminalIsFinal

-----------------------------------------------------------------------------
(* THE CONTRACT *)

(* What the table says of the CRM is true, before and after delivery. *)
OutcomeInv == /\ DeliveredWasReceived
              /\ \A r \in Rows : status[r] = "none" => ~received[r]

LEMMA OutcomeInvInductive == TypeOK /\ PassInv /\ OutcomeInv /\ [Next]_vars => OutcomeInv'
<1>. SUFFICES ASSUME TypeOK, PassInv, OutcomeInv, [Next]_vars PROVE OutcomeInv'
  OBVIOUS
<1>1. ASSUME NEW p \in Pods, ClaimPass(p) PROVE OutcomeInv'
  <2>1. PICK S, claimed \in SUBSET Rows : ClaimEffect(p, S, claimed)
    BY <1>1, ClaimPassEffect
  <2>2. received' = received
    BY <1>1 DEF ClaimPass, ghosts
  <2>. QED BY <2>1, <2>2 DEF ClaimEffect, OutcomeInv, DeliveredWasReceived
<1>2. ASSUME NEW p \in Pods, BeginDelivery(p) \/ AbandonPass(p) PROVE OutcomeInv'
  BY <1>2 DEF BeginDelivery, AbandonPass, table, ghosts, OutcomeInv, DeliveredWasReceived
<1>3. ASSUME NEW p \in Pods, EndDelivery(p) PROVE OutcomeInv'
  <2>1. status' = status
    BY <1>3 DEF EndDelivery, table
  <2>2. PICK got \in BOOLEAN : received' = [received EXCEPT ![cur[p]] = received[cur[p]] \/ got]
    BY <1>3 DEF EndDelivery
  <2>3. \A r \in Rows : received[r] => received'[r]
    BY <2>2, Zenon DEF TypeOK
  <2>4. status[cur[p]] # "none"
    BY <1>3 DEF EndDelivery, PassInv, NotQueued
  <2>5. \A r \in Rows : r # cur[p] => received'[r] = received[r]
    BY <2>2, Zenon DEF TypeOK
  <2>. QED BY <2>1, <2>3, <2>4, <2>5 DEF OutcomeInv, DeliveredWasReceived
<1>4. ASSUME NEW p \in Pods, Finalize(p) PROVE OutcomeInv'
  <2>1. received' = received
    BY <1>4 DEF Finalize, FinalizeDelivered, FinalizeDead, FinalizeReschedule,
                FinalizeSkipped, ghosts
  <2>2. CASE FinalizeDelivered(p)
    <3>1. received[cur[p]]
      BY <2>2 DEF FinalizeDelivered, Succeeded, PassInv
    <3>. QED BY <2>1, <2>2, <3>1 DEF FinalizeDelivered, OutcomeInv, DeliveredWasReceived, TypeOK
  <2>3. CASE FinalizeDead(p) \/ FinalizeReschedule(p) \/ FinalizeSkipped(p)
    BY <2>1, <2>3 DEF FinalizeDead, FinalizeReschedule, FinalizeSkipped, table,
                      OutcomeInv, DeliveredWasReceived, TypeOK
  <2>. QED BY <1>4, <2>2, <2>3 DEF Finalize
<1>5. CASE Submit
  <2>1. PICK r \in Rows : \/ InlineAcknowledged(r)
                          \/ NoUrlConfigured(r)
                          \/ \E p \in Pods : Enqueue(r, p)
                          \/ EnqueueLost(r)
    BY <1>5 DEF Submit
  <2>2. CASE InlineAcknowledged(r)
    BY <2>2 DEF InlineAcknowledged, OutcomeInv, DeliveredWasReceived, TypeOK
  <2>3. CASE NoUrlConfigured(r)
    BY <2>3 DEF NoUrlConfigured, OutcomeInv, DeliveredWasReceived, TypeOK, ghosts
  <2>4. CASE \E p \in Pods : Enqueue(r, p)
    BY <2>4 DEF Enqueue, OutcomeInv, DeliveredWasReceived, TypeOK
  <2>5. CASE EnqueueLost(r)
    BY <2>5 DEF EnqueueLost, OutcomeInv, DeliveredWasReceived, TypeOK
  <2>. QED BY <2>1, <2>2, <2>3, <2>4, <2>5
<1>6. CASE Prune
  BY <1>6 DEF Prune, ghosts, OutcomeInv, DeliveredWasReceived
<1>7. CASE ToggleEnabled \/ Tick \/ UNCHANGED vars
  BY <1>7 DEF ToggleEnabled, Tick, vars, table, ghosts, OutcomeInv, DeliveredWasReceived
<1>. QED BY <1>1, <1>2, <1>3, <1>4, <1>5, <1>6, <1>7 DEF Next, PassStep

LEMMA OutcomeInvHolds == Spec => [](TypeOK /\ PassInv /\ OutcomeInv)
<1>1. Init => OutcomeInv
  BY DEF Init, OutcomeInv, DeliveredWasReceived
<1>. QED BY <1>1, OutcomeInvInductive, PassInvHolds, PTL DEF Spec

(* A row recorded as delivered has been delivered. *)
THEOREM DeliveredWasReceivedHolds == Spec => []DeliveredWasReceived
<1>1. OutcomeInv => DeliveredWasReceived
  BY DEF OutcomeInv
<1>. QED BY <1>1, OutcomeInvHolds, PTL

LEMMA SubmitRefines ==
  ASSUME TypeOK, OutcomeInv, Submit PROVE \E r \in Rows : Contract!Submit(r)
<1>1. PICK r \in Rows : \/ InlineAcknowledged(r)
                        \/ NoUrlConfigured(r)
                        \/ \E p \in Pods : Enqueue(r, p)
                        \/ EnqueueLost(r)
  BY DEF Submit
<1>. SUFFICES \E s \in {"inline", "dropped", "lost", "pending"}, got \in BOOLEAN :
                /\ status[r] = "none"
                /\ s = "inline" => got
                /\ s = "dropped" => ~got
                /\ status' = [status EXCEPT ![r] = s]
                /\ received' = [received EXCEPT ![r] = got]
  BY DEF Contract!Submit
<1>2. CASE InlineAcknowledged(r)
  BY <1>2 DEF InlineAcknowledged
<1>3. CASE NoUrlConfigured(r)
  <2>1. received' = [received EXCEPT ![r] = FALSE]
    BY <1>3, Zenon DEF NoUrlConfigured, ghosts, TypeOK, OutcomeInv
  <2>. QED BY <1>3, <2>1 DEF NoUrlConfigured
<1>4. CASE \E p \in Pods : Enqueue(r, p)
  BY <1>4 DEF Enqueue
<1>5. CASE EnqueueLost(r)
  BY <1>5 DEF EnqueueLost
<1>. QED BY <1>1, <1>2, <1>3, <1>4, <1>5

LEMMA StepRefines ==
  TypeOK /\ PassInv /\ OutcomeInv /\ [Next]_vars => [Contract!Next]_(Contract!vars)
<1>. SUFFICES ASSUME TypeOK, PassInv, OutcomeInv, [Next]_vars
              PROVE  Contract!Next \/ UNCHANGED <<status, received>>
  BY DEF Contract!vars
<1>1. CASE Submit
  BY <1>1, SubmitRefines DEF Contract!Next
<1>2. ASSUME NEW p \in Pods, ClaimPass(p) PROVE Contract!GiveUp
  <2>1. PICK S, claimed \in SUBSET Rows : ClaimEffect(p, S, claimed)
    BY <1>2, ClaimPassEffect
  <2>2. S \ claimed \in SUBSET {r \in Rows : status[r] = "pending"}
    BY <2>1 DEF ClaimEffect, Due
  <2>3. received' = received
    BY <1>2 DEF ClaimPass, ghosts
  <2>. QED BY <2>1, <2>2, <2>3 DEF ClaimEffect, Contract!GiveUp
<1>3. ASSUME NEW p \in Pods, BeginDelivery(p) \/ AbandonPass(p)
      PROVE  UNCHANGED <<status, received>>
  BY <1>3 DEF BeginDelivery, AbandonPass, table, ghosts
<1>4. ASSUME NEW p \in Pods, EndDelivery(p)
      PROVE  \/ cur[p] \in Rows /\ Contract!Receive(cur[p])
             \/ UNCHANGED <<status, received>>
  <2>1. PICK got \in BOOLEAN : received' = [received EXCEPT ![cur[p]] = received[cur[p]] \/ got]
    BY <1>4 DEF EndDelivery
  <2>2. cur[p] \in Rows /\ status[cur[p]] \notin NotQueued /\ status' = status
    BY <1>4 DEF EndDelivery, PassInv, TypeOK, table
  <2>3. CASE got
    <3>1. received' = [received EXCEPT ![cur[p]] = TRUE]
      BY <2>1, <2>3
    <3>2. status[cur[p]] \in {"pending", "delivered", "dead", "pruned"}
      BY <2>2 DEF TypeOK, Statuses, Terminal
    <3>. QED BY <2>2, <3>1, <3>2 DEF Contract!Receive
  <2>4. CASE ~got
    <3>1. received' = received
      BY <2>1, <2>2, <2>4, Zenon DEF TypeOK
    <3>. QED BY <2>2, <3>1
  <2>. QED BY <2>3, <2>4
<1>5. ASSUME NEW p \in Pods, Finalize(p)
      PROVE  \/ \E r \in Rows : Contract!Acknowledge(r)
             \/ Contract!GiveUp
             \/ UNCHANGED <<status, received>>
  <2>1. CASE FinalizeDelivered(p)
    <3>1. cur[p] \in Rows /\ received[cur[p]] /\ status[cur[p]] = "pending"
      BY <2>1 DEF FinalizeDelivered, Succeeded, Fence, PassInv, TypeOK
    <3>2. Contract!Acknowledge(cur[p])
      BY <2>1, <3>1 DEF FinalizeDelivered, Contract!Acknowledge, ghosts
    <3>. QED BY <3>1, <3>2
  <2>2. CASE FinalizeDead(p)
    <3>1. cur[p] \in Rows /\ status[cur[p]] = "pending"
      BY <2>2 DEF FinalizeDead, Fence, PassInv, TypeOK
    <3>2. status' = [r \in Rows |-> IF r \in {cur[p]} THEN "dead" ELSE status[r]]
      BY <2>2, <3>1 DEF FinalizeDead, TypeOK
    <3>3. {cur[p]} \in SUBSET {r \in Rows : status[r] = "pending"} /\ received' = received
      BY <2>2, <3>1 DEF FinalizeDead, ghosts
    <3>. QED BY <3>2, <3>3 DEF Contract!GiveUp
  <2>3. CASE FinalizeReschedule(p) \/ FinalizeSkipped(p)
    BY <2>3 DEF FinalizeReschedule, FinalizeSkipped, table, ghosts
  <2>. QED BY <1>5, <2>1, <2>2, <2>3 DEF Finalize
<1>6. CASE Prune
  <2>1. Prunable \in SUBSET {r \in Rows : status[r] \in {"delivered", "dead"}}
    BY DEF Prunable, Terminal
  <2>. QED BY <1>6, <2>1 DEF Prune, ghosts, Contract!Next, Contract!Forget
<1>7. CASE ToggleEnabled \/ Tick \/ UNCHANGED vars
  BY <1>7 DEF ToggleEnabled, Tick, vars, table, ghosts
<1>. QED BY <1>1, <1>2, <1>3, <1>4, <1>5, <1>6, <1>7 DEF Next, PassStep, Contract!Next

(* The outbox keeps the promise DurableDelivery states. *)
THEOREM OutboxImplementsContract == Spec => ImplementsContract
<1>1. Init => Contract!Init
  BY DEF Init, Contract!Init
<1>. QED BY <1>1, StepRefines, OutcomeInvHolds, PTL
     DEF Spec, ImplementsContract, Contract!Spec

-----------------------------------------------------------------------------
(* THE LEASE *)

(* Why the lease is long enough: the rows a pass still holds, and the time    *)
(* each may take, always fit into what is left of every one of their leases.  *)
(* LeaseExclusive alone is not inductive: it does not say that a lease still  *)
(* runs.                                                                      *)
LeaseCovers(p) ==
    /\ now <= rowStart[p] + RowTime
    /\ \A r \in held[p] :
          /\ status[r] = "pending"
          /\ attempts[r] = token[p][r]
          /\ \A q \in Pods \ {p} : r \notin held[q]
          /\ rowStart[p] + Cardinality(held[p]) * RowTime + Lease + Skew[p]
                <= nextAt[r] + Batch * RowTime

LeaseInv == Timely => \A p \in Pods : pc[p] # "idle" => LeaseCovers(p)

LEMMA HeldCardinality ==
  ASSUME TypeOK, NEW p \in Pods
  PROVE  /\ IsFiniteSet(held[p])
         /\ Cardinality(held[p]) \in Nat
         /\ held[p] # {} => Cardinality(held[p]) >= 1
         /\ \A r \in held[p] : Cardinality(held[p] \ {r}) = Cardinality(held[p]) - 1
<1>1. IsFiniteSet(held[p])
  BY RowsAssumption, FS_Subset DEF TypeOK
<1>2. Cardinality(held[p]) \in Nat
  BY <1>1, FS_CardinalityType
<1>3. held[p] # {} => Cardinality(held[p]) # 0
  BY <1>1, FS_EmptySet
<1>4. \A r \in held[p] : Cardinality(held[p] \ {r}) = Cardinality(held[p]) - 1
  BY <1>1, FS_RemoveElement
<1>. QED BY <1>1, <1>2, <1>3, <1>4

LEMMA OneRowLess ==
  ASSUME NEW n \in Nat, n >= 1
  PROVE  /\ n * RowTime \in Nat
         /\ n * RowTime >= RowTime
         /\ (n - 1) * RowTime = n * RowTime - RowTime
BY LimitAssumption

(* A leased row never looks due to another pod. *)
LEMMA DueNotHeld ==
  ASSUME TypeOK, PassInv, LeaseInv, Timely,
         NEW p \in Pods, NEW q \in Pods, NEW r \in Due(p)
  PROVE  r \notin held[q]
<1>. SUFFICES ASSUME r \in held[q] PROVE FALSE
  OBVIOUS
<1>1. pc[q] # "idle" /\ LeaseCovers(q)
  BY DEF PassInv, LeaseInv
<1>. DEFINE c == Cardinality(held[q]) * RowTime
            b == Batch * RowTime
<1>2. c \in Nat /\ c >= RowTime /\ b \in Nat
  BY HeldCardinality, OneRowLess, LimitAssumption
<1>3. now <= rowStart[q] + RowTime /\ rowStart[q] + c + Lease + Skew[q] <= nextAt[r] + b
  BY <1>1 DEF LeaseCovers
<1>4. nextAt[r] <= now + Skew[p] /\ r \in Rows
  BY DEF Due, Clock
<1>5. b + Skew[p] < Lease + Skew[q]
  BY LeaseAssumption
<1>6. /\ now \in Nat /\ rowStart[q] \in Nat /\ nextAt[r] \in Nat
      /\ Lease \in Nat /\ RowTime \in Nat /\ Skew[p] \in Nat /\ Skew[q] \in Nat
  BY <1>4, LimitAssumption, ClockAssumption DEF TypeOK
<1>. HIDE DEF c, b
<1>. QED BY <1>2, <1>3, <1>4, <1>5, <1>6

(* LeaseCovers(q) only looks at q's own pass and at the rows q holds. *)
LEMMA LeaseCoversFrame ==
  ASSUME NEW q \in Pods, LeaseCovers(q),
         now' = now, rowStart'[q] = rowStart[q], held'[q] = held[q],
         token'[q] = token[q],
         \A r \in held[q] : UNCHANGED <<status[r], attempts[r], nextAt[r]>>,
         \A s \in Pods \ {q} : \A r \in held[q] : r \in held'[s] => r \in held[s]
  PROVE  LeaseCovers(q)'
BY DEF LeaseCovers

LEMMA ClaimPassKeepsLease ==
  ASSUME TypeOK, PassInv, LeaseInv, Timely, NEW p \in Pods, ClaimPass(p),
         NEW q \in Pods, pc'[q] # "idle"
  PROVE  LeaseCovers(q)'
<1>1. PICK S, claimed \in SUBSET Rows : ClaimEffect(p, S, claimed)
  BY ClaimPassEffect
<1>2. \A s \in Pods, r \in S : r \notin held[s]
  BY <1>1, DueNotHeld DEF ClaimEffect
<1>3. now' = now
  BY DEF ClaimPass
<1>4. CASE q # p
  <2>1. pc[q] # "idle" /\ rowStart'[q] = rowStart[q] /\ held'[q] = held[q] /\ token'[q] = token[q]
    BY <1>1, <1>4 DEF ClaimEffect, TypeOK
  <2>2. LeaseCovers(q)
    BY <2>1 DEF LeaseInv
  <2>3. \A r \in held[q] : r \in Rows /\ r \notin S /\ r \notin claimed
    BY <1>1, <1>2 DEF ClaimEffect, TypeOK
  <2>4. \A r \in held[q] : UNCHANGED <<status[r], attempts[r], nextAt[r]>>
    BY <1>1, <2>3 DEF ClaimEffect
  <2>5. \A s \in Pods \ {q} : \A r \in held[q] : r \in held'[s] => r \in held[s]
    BY <1>1, <2>3 DEF ClaimEffect, TypeOK
  <2>. QED BY <1>3, <2>1, <2>2, <2>4, <2>5, LeaseCoversFrame
<1>5. CASE q = p
  <2>1. held'[p] = claimed /\ rowStart'[p] = now /\ claimed \subseteq S
    BY <1>1, <1>5 DEF ClaimEffect, TypeOK
  <2>. DEFINE c == Cardinality(claimed) * RowTime
              b == Batch * RowTime
  <2>2. Cardinality(claimed) \in Nat /\ Cardinality(claimed) <= Batch
    <3>1. IsFiniteSet(S)
      BY RowsAssumption, FS_Subset
    <3>2. Cardinality(claimed) <= Cardinality(S) /\ Cardinality(claimed) \in Nat
          /\ Cardinality(S) \in Nat
      BY <2>1, <3>1, FS_Subset, FS_CardinalityType
    <3>. QED BY <1>1, <3>2, LimitAssumption DEF ClaimEffect
  <2>3. c \in Nat /\ b \in Nat /\ c <= b
    BY <2>2, LimitAssumption
  <2>4. now' <= rowStart'[p] + RowTime
    BY <1>3, <2>1, LimitAssumption DEF TypeOK
  <2>5. ASSUME NEW r \in claimed
        PROVE  /\ status'[r] = "pending"
               /\ attempts'[r] = token'[p][r]
               /\ \A s \in Pods \ {p} : r \notin held'[s]
               /\ rowStart'[p] + c + Lease + Skew[p] <= nextAt'[r] + b
    <3>1. status'[r] = "pending"
      BY <1>1, <2>1 DEF ClaimEffect, Due
    <3>2. attempts'[r] = token'[p][r]
      BY <1>1 DEF ClaimEffect, TypeOK
    <3>3. \A s \in Pods \ {p} : r \notin held'[s]
      BY <1>1, <1>2, <2>1 DEF ClaimEffect, TypeOK
    <3>4. nextAt'[r] = now + Skew[p] + Lease
      BY <1>1 DEF ClaimEffect, Clock
    <3>5. now \in Nat /\ Skew[p] \in Nat /\ Lease \in Nat
      BY ClockAssumption, LimitAssumption DEF TypeOK
    <3>. HIDE DEF c, b
    <3>6. rowStart'[p] + c + Lease + Skew[p] <= nextAt'[r] + b
      BY <2>1, <2>3, <3>4, <3>5
    <3>. QED BY <3>1, <3>2, <3>3, <3>6
  <2>. QED BY <1>5, <2>1, <2>4, <2>5 DEF LeaseCovers
<1>. QED BY <1>4, <1>5

LEMMA FinalizeKeepsLease ==
  ASSUME TypeOK, PassInv, LeaseInv, Timely, NEW p \in Pods, Finalize(p),
         NEW q \in Pods, pc'[q] # "idle"
  PROVE  LeaseCovers(q)'
<1>. DEFINE x == cur[p]
<1>1. NextRow(p) /\ now' = now /\ pc[p] = "finalizing"
  BY DEF Finalize, FinalizeDelivered, FinalizeDead, FinalizeReschedule, FinalizeSkipped
<1>2. x \in held[p] /\ x \in Rows
  BY <1>1 DEF PassInv, TypeOK
<1>3. \A r \in Rows \ {x} : UNCHANGED <<status[r], attempts[r], nextAt[r]>>
  BY DEF Finalize, FinalizeDelivered, FinalizeDead, FinalizeReschedule, FinalizeSkipped,
         table, TypeOK
<1>4. held' = [held EXCEPT ![p] = held[p] \ {x}]
  BY <1>1 DEF NextRow
<1>5. LeaseCovers(p)
  BY <1>1 DEF LeaseInv
<1>6. CASE q # p
  <2>1. pc[q] # "idle" /\ rowStart'[q] = rowStart[q] /\ held'[q] = held[q] /\ token'[q] = token[q]
    BY <1>1, <1>4, <1>6 DEF NextRow, TypeOK
  <2>2. LeaseCovers(q)
    BY <2>1 DEF LeaseInv
  <2>3. x \notin held[q]
    BY <1>2, <1>5, <1>6 DEF LeaseCovers
  <2>4. \A r \in held[q] : UNCHANGED <<status[r], attempts[r], nextAt[r]>>
    BY <1>3, <2>3 DEF TypeOK
  <2>5. \A s \in Pods \ {q} : \A r \in held[q] : r \in held'[s] => r \in held[s]
    BY <1>4 DEF TypeOK
  <2>. QED BY <1>1, <2>1, <2>2, <2>4, <2>5, LeaseCoversFrame
<1>7. CASE q = p
  <2>1. held'[p] = held[p] \ {x} /\ rowStart'[p] = now
    BY <1>1, <1>7 DEF NextRow, TypeOK
  <2>. DEFINE c == Cardinality(held[p]) * RowTime
              d == Cardinality(held[p] \ {x}) * RowTime
              b == Batch * RowTime
  <2>2. c \in Nat /\ b \in Nat /\ d = c - RowTime
    <3>. DEFINE n == Cardinality(held[p])
    <3>1. n \in Nat /\ n >= 1 /\ Cardinality(held[p] \ {x}) = n - 1
      BY <1>2, HeldCardinality
    <3>2. n * RowTime \in Nat /\ (n - 1) * RowTime = n * RowTime - RowTime
      BY <3>1, OneRowLess
    <3>. QED BY <3>1, <3>2, LimitAssumption
  <2>3. now' <= rowStart'[p] + RowTime
    BY <1>1, <2>1, LimitAssumption DEF TypeOK
  <2>4. ASSUME NEW r \in held[p] \ {x}
        PROVE  /\ status'[r] = "pending"
               /\ attempts'[r] = token'[p][r]
               /\ \A s \in Pods \ {p} : r \notin held'[s]
               /\ rowStart'[p] + d + Lease + Skew[p] <= nextAt'[r] + b
    <3>1. status'[r] = status[r] /\ attempts'[r] = attempts[r] /\ nextAt'[r] = nextAt[r]
      BY <1>3 DEF TypeOK
    <3>2. token'[p][r] = token[p][r]
      BY <1>1 DEF NextRow, TypeOK
    <3>3. \A s \in Pods \ {p} : r \notin held'[s]
      BY <1>4, <1>5 DEF LeaseCovers, TypeOK
    <3>4. now <= rowStart[p] + RowTime /\ rowStart[p] + c + Lease + Skew[p] <= nextAt[r] + b
      BY <1>5 DEF LeaseCovers
    <3>5. /\ now \in Nat /\ rowStart[p] \in Nat /\ nextAt[r] \in Nat
          /\ Skew[p] \in Nat /\ Lease \in Nat /\ RowTime \in Nat
      BY ClockAssumption, LimitAssumption DEF TypeOK
    <3>. HIDE DEF c, d, b
    <3>6. rowStart'[p] + d + Lease + Skew[p] <= nextAt'[r] + b
      BY <2>1, <2>2, <3>1, <3>4, <3>5
    <3>. QED BY <1>5, <3>1, <3>2, <3>3, <3>6 DEF LeaseCovers
  <2>. QED BY <1>7, <2>1, <2>3, <2>4 DEF LeaseCovers
<1>. QED BY <1>6, <1>7

LEMMA LeaseInductive == TypeOK /\ PassInv /\ LeaseInv /\ [Next]_vars => LeaseInv'
<1>. SUFFICES ASSUME TypeOK, PassInv, LeaseInv, [Next]_vars, Timely,
                     NEW q \in Pods, pc'[q] # "idle"
              PROVE  LeaseCovers(q)'
  BY DEF LeaseInv
<1>1. CASE \E p \in Pods : ClaimPass(p)
  BY <1>1, ClaimPassKeepsLease
<1>2. CASE \E p \in Pods : Finalize(p)
  BY <1>2, FinalizeKeepsLease
<1>3. ASSUME NEW p \in Pods, BeginDelivery(p) \/ EndDelivery(p) PROVE LeaseCovers(q)'
  <2>1. pc[q] # "idle" /\ UNCHANGED <<now, table, held, token, rowStart>>
    BY <1>3 DEF BeginDelivery, EndDelivery, TypeOK
  <2>2. LeaseCovers(q)
    BY <2>1 DEF LeaseInv
  <2>. QED BY <2>1, <2>2 DEF LeaseCovers, table
<1>4. ASSUME NEW p \in Pods, AbandonPass(p) PROVE LeaseCovers(q)'
  <2>1. q # p /\ pc[q] # "idle" /\ UNCHANGED <<now, table>>
        /\ held'[q] = held[q] /\ token'[q] = token[q] /\ rowStart'[q] = rowStart[q]
    BY <1>4 DEF AbandonPass, TypeOK
  <2>2. LeaseCovers(q)
    BY <2>1 DEF LeaseInv
  <2>3. \A s \in Pods \ {q} : \A r \in held[q] : r \in held'[s] => r \in held[s]
    BY <1>4 DEF AbandonPass, TypeOK
  <2>. QED BY <2>1, <2>2, <2>3, LeaseCoversFrame DEF table
<1>5. CASE Submit
  <2>1. pc[q] # "idle" /\ UNCHANGED pass /\ now' = now
    BY <1>5, SubmitEffect DEF pass
  <2>2. LeaseCovers(q)
    BY <2>1 DEF LeaseInv
  <2>3. \A r \in held[q] : UNCHANGED <<status[r], attempts[r], nextAt[r]>>
    BY <1>5, <2>2, SubmitEffect DEF LeaseCovers, TypeOK
  <2>. QED BY <2>1, <2>2, <2>3, LeaseCoversFrame DEF pass
<1>6. CASE Prune
  <2>1. pc[q] # "idle" /\ UNCHANGED pass /\ now' = now
    BY <1>6 DEF Prune, pass
  <2>2. LeaseCovers(q)
    BY <2>1 DEF LeaseInv
  <2>3. \A r \in held[q] : UNCHANGED <<status[r], attempts[r], nextAt[r]>>
    BY <1>6, <2>2 DEF LeaseCovers, Prune, Prunable, Terminal, TypeOK
  <2>. QED BY <2>1, <2>2, <2>3, LeaseCoversFrame DEF pass
<1>7. CASE Tick
  <2>1. pc[q] # "idle" /\ UNCHANGED <<table, pass>>
    BY <1>7 DEF Tick, pass
  <2>2. LeaseCovers(q)
    BY <2>1 DEF LeaseInv
  <2>3. now' <= rowStart[q] + RowTime
    BY <1>7, <2>1, LimitAssumption DEF Tick, TypeOK
  <2>. QED BY <2>1, <2>2, <2>3 DEF LeaseCovers, table, pass
<1>8. CASE ToggleEnabled \/ UNCHANGED vars
  BY <1>8 DEF ToggleEnabled, vars, table, pass, LeaseInv, LeaseCovers
<1>. QED BY <1>1, <1>2, <1>3, <1>4, <1>5, <1>6, <1>7, <1>8 DEF Next, PassStep

(* A lease longer than a batch at its slowest, clock differences included,    *)
(* keeps every row to one pod at a time, and nothing settled is sent again.   *)
THEOREM LeaseExclusiveHolds == Spec => [](Timely => LeaseExclusive)
<1>1. Init => LeaseInv
  BY DEF Init, LeaseInv
<1>2. PassInv /\ LeaseInv => (Timely => LeaseExclusive)
  BY DEF PassInv, LeaseInv, LeaseCovers, LeaseExclusive
<1>. QED BY <1>1, <1>2, LeaseInductive, PassInvHolds, PTL DEF Spec
=============================================================================
