---------------------------- MODULE WebhookOutbox ----------------------------
(***************************************************************************)
(* The durable retry queue behind the session_closed webhook.              *)
(*                                                                         *)
(* send_bo_webhook posts an event in line; when that fails it inserts a    *)
(* webhook_outbox row. Every pod runs _webhook_outbox_loop: a pass claims  *)
(* a batch of due rows in one short transaction, leasing each by pushing   *)
(* next_attempt_at ahead and stamping it with a bumped attempts count,     *)
(* then delivers and finalizes the claimed rows one by one with no         *)
(* transaction open. The attempts count a pass claimed a row with is its   *)
(* fencing token.                                                          *)
(*                                                                         *)
(* An operator marked "a mutant" is a slip in the definition after it that *)
(* a property below must detect; the specification does not use it.        *)
(***************************************************************************)
EXTENDS Integers, FiniteSets, Sequences

CONSTANTS
    Rows,                \* the session_closed events, one outbox row each at most
    NoRow,               \* "no row in delivery"
    Pods,                \* the processes running the loop
    Skew,                \* Skew[p]: how far p's clock is ahead of the slowest clock
    Batch,               \* _WEBHOOK_OUTBOX_CLAIM_BATCH
    RowTime,             \* _WEBHOOK_OUTBOX_PER_ROW_TIMEOUT_S and the finalizing UPDATE
    Lease,               \* _WEBHOOK_OUTBOX_LEASE_S
    Backoff,             \* _WEBHOOK_OUTBOX_BACKOFF_S
    MaxAge,              \* _WEBHOOK_OUTBOX_MAX_AGE_S
    PermanentThreshold,  \* _WEBHOOK_OUTBOX_PERMANENT_DEAD_THRESHOLD
    Retention,           \* _WEBHOOK_OUTBOX_PRUNE_RETENTION_DAYS
    Horizon,             \* bound on time
    Timely               \* TRUE: no row keeps a pod busy for more than RowTime

ASSUME RowsAssumption == NoRow \notin Rows /\ IsFiniteSet(Rows)
ASSUME ClockAssumption == Skew \in [Pods -> Nat]
ASSUME LimitAssumption ==
    /\ Batch \in Nat \ {0}
    /\ RowTime \in Nat \ {0}
    /\ Lease \in Nat
    /\ MaxAge \in Nat
    /\ PermanentThreshold \in Nat
    /\ Retention \in Nat
    /\ Backoff \in Seq(Nat)
    /\ Len(Backoff) > 0
    /\ Horizon \in Nat
    /\ Timely \in BOOLEAN

(* 10 x 45s < 600s, "comfortably inside" the lease: the margin has to cover
   the difference between two pods' clocks. *)
ASSUME LeaseAssumption ==
    \A p, q \in Pods : Batch * RowTime + Skew[q] < Lease + Skew[p]

VARIABLES
    now,        \* time, as the slowest pod's clock shows it
    enabled,    \* WEBHOOK_OUTBOX_ENABLED
    \* the webhook_outbox table ("none": not sent yet; "inline", "dropped" and
    \* "lost": sent in line, and no row)
    status,
    attempts,
    nextAt,
    created,
    \* ghosts: what the CRM has seen, and the deliveries really begun
    received,
    tries,
    \* one pass of each pod's loop
    pc,
    held,       \* claimed rows the pass has not finished with
    token,      \* token[p][r]: claim["attempts"]
    cur,        \* the row being delivered or finalized
    result,     \* its outcome
    rowStart    \* when the pass turned to its current row

table == <<status, attempts, nextAt, created>>
ghosts == <<received, tries>>
pass == <<pc, held, token, cur, result, rowStart>>
vars == <<now, enabled, table, ghosts, pass>>

NotQueued == {"none", "inline", "dropped", "lost"}
Terminal == {"delivered", "dead"}
Statuses == NotQueued \cup {"pending", "pruned"} \cup Terminal
Outcomes == {"delivered", "permanent", "retryable"}

Clock(p) == now + Skew[p]

BackoffEntry(n) ==
    Backoff[IF n < 1 THEN 1 ELSE IF n > Len(Backoff) THEN Len(Backoff) ELSE n]

BackoffNegated(n) == 0 - BackoffEntry(n)                    \* a mutant
BackoffAfter(n) == BackoffEntry(n)

TypeOK ==
    /\ now \in Nat
    /\ enabled \in BOOLEAN
    /\ status \in [Rows -> Statuses]
    /\ attempts \in [Rows -> Nat]
    /\ nextAt \in [Rows -> Nat]
    /\ created \in [Rows -> Nat]
    /\ received \in [Rows -> BOOLEAN]
    /\ tries \in [Rows -> Nat]
    /\ pc \in [Pods -> {"idle", "next", "sending", "finalizing"}]
    /\ held \in [Pods -> SUBSET Rows]
    /\ token \in [Pods -> [Rows -> Nat]]
    /\ cur \in [Pods -> Rows \cup {NoRow}]
    /\ result \in [Pods -> Outcomes \cup {"none"}]
    /\ rowStart \in [Pods -> Nat]

Init ==
    /\ now = 0
    /\ enabled = TRUE
    /\ status = [r \in Rows |-> "none"]
    /\ attempts = [r \in Rows |-> 0]
    /\ nextAt = [r \in Rows |-> 0]
    /\ created = [r \in Rows |-> 0]
    /\ received = [r \in Rows |-> FALSE]
    /\ tries = [r \in Rows |-> 0]
    /\ pc = [p \in Pods |-> "idle"]
    /\ held = [p \in Pods |-> {}]
    /\ token = [p \in Pods |-> [r \in Rows |-> 0]]
    /\ cur = [p \in Pods |-> NoRow]
    /\ result = [p \in Pods |-> "none"]
    /\ rowStart = [p \in Pods |-> 0]

-----------------------------------------------------------------------------
(* send_bo_webhook with enqueue_on_failure: the in-line attempt. *)

InlineAcknowledged(r) ==
    /\ status[r] = "none"
    /\ status' = [status EXCEPT ![r] = "inline"]
    /\ received' = [received EXCEPT ![r] = TRUE]
    /\ UNCHANGED <<now, enabled, attempts, nextAt, created, tries, pass>>

(* The tenant has no webhook URL: returns before delivering or enqueueing. *)
NoUrlConfigured(r) ==
    /\ status[r] = "none"
    /\ status' = [status EXCEPT ![r] = "dropped"]
    /\ UNCHANGED <<now, enabled, attempts, nextAt, created, ghosts, pass>>

(* The in-line budget is exhausted (an answer lost on the way back leaves the
   event received) and the row is inserted by pod p's process. *)
Enqueue(r, p) ==
    /\ status[r] = "none"
    /\ status' = [status EXCEPT ![r] = "pending"]
    /\ attempts' = [attempts EXCEPT ![r] = 0]
    /\ nextAt' = [nextAt EXCEPT ![r] = Clock(p)]
    /\ created' = [created EXCEPT ![r] = Clock(p)]
    /\ \E got \in BOOLEAN : received' = [received EXCEPT ![r] = got]
    /\ UNCHANGED <<now, enabled, tries, pass>>

(* The insert fails, times out, or the process stops before it: the event is
   not retried. *)
EnqueueLost(r) ==
    /\ status[r] = "none"
    /\ status' = [status EXCEPT ![r] = "lost"]
    /\ \E got \in BOOLEAN : received' = [received EXCEPT ![r] = got]
    /\ UNCHANGED <<now, enabled, attempts, nextAt, created, tries, pass>>

-----------------------------------------------------------------------------
(* One pass of one pod. *)

DueIgnoringLease(p) == {r \in Rows : status[r] = "pending"}   \* a mutant
Due(p) == {r \in Rows : status[r] = "pending" /\ nextAt[r] <= Clock(p)}

NeverOverAge(r, p) == FALSE                                 \* a mutant
OverAge(r, p) == Clock(p) - created[r] >= MaxAge

(* ORDER BY next_attempt_at LIMIT Batch *)
OldestDue(p) ==
    {S \in SUBSET Due(p) :
        /\ Cardinality(S) <= Batch
        /\ \/ S = Due(p)
           \/ Cardinality(S) = Batch
        /\ \A r \in S, s \in Due(p) \ S : nextAt[r] <= nextAt[s]}

(* The attempts count a claim leaves in the row and takes as its token. *)
Bumped(r) == attempts[r] + 1

(* _claim_webhook_outbox_rows: one transaction retires the rows that are too
   old and leases the others. *)
ClaimPass(p) ==
    /\ pc[p] = "idle"
    /\ enabled
    /\ Due(p) # {}
    /\ \E S \in OldestDue(p) :
         LET claimed == {r \in S : ~OverAge(r, p)} IN
           /\ status' = [r \in Rows |-> IF r \in S \ claimed THEN "dead" ELSE status[r]]
           /\ attempts' = [r \in Rows |-> IF r \in claimed THEN Bumped(r) ELSE attempts[r]]
           /\ nextAt' = [r \in Rows |-> IF r \in claimed THEN Clock(p) + Lease ELSE nextAt[r]]
           /\ held' = [held EXCEPT ![p] = claimed]
           /\ token' = [token EXCEPT ![p] =
                          [r \in Rows |-> IF r \in claimed THEN Bumped(r) ELSE 0]]
           /\ pc' = [pc EXCEPT ![p] = IF claimed = {} THEN "idle" ELSE "next"]
           /\ rowStart' = [rowStart EXCEPT ![p] = IF claimed = {} THEN 0 ELSE now]
    /\ UNCHANGED <<now, enabled, created, ghosts, cur, result>>

(* _deliver_webhook_outbox_claim starts on the next claimed row. *)
BeginDelivery(p) ==
    /\ pc[p] = "next"
    /\ \E r \in held[p] :
         /\ cur' = [cur EXCEPT ![p] = r]
         /\ tries' = [tries EXCEPT ![r] =
                        IF @ < PermanentThreshold THEN @ + 1 ELSE @]
    /\ pc' = [pc EXCEPT ![p] = "sending"]
    /\ UNCHANGED <<now, enabled, table, received, held, token, result, rowStart>>

(* It ends: a 2xx; a permanent 4xx; or anything else, an exception and the
   45s timeout included. Only a 2xx tells the pod that the CRM has the event,
   but a request whose answer was lost may have arrived too. *)
EndDelivery(p) ==
    /\ pc[p] = "sending"
    /\ \E o \in Outcomes, got \in BOOLEAN :
         /\ o = "delivered" => got
         /\ result' = [result EXCEPT ![p] = o]
         /\ received' = [received EXCEPT ![cur[p]] = @ \/ got]
    /\ pc' = [pc EXCEPT ![p] = "finalizing"]
    /\ UNCHANGED <<now, enabled, table, tries, held, token, cur, rowStart>>

(* WHERE id = :id AND status = 'pending' AND attempts = :claimed_attempts *)
FenceOnStatus(p, r) == status[r] = "pending"                \* a mutant
Fence(p, r) == status[r] = "pending" /\ attempts[r] = token[p][r]

(* The pass is done with its current row and turns to the next, if any. *)
NextRow(p) ==
    LET rest == held[p] \ {cur[p]} IN
      /\ held' = [held EXCEPT ![p] = rest]
      /\ token' = [token EXCEPT ![p] = [@ EXCEPT ![cur[p]] = 0]]
      /\ pc' = [pc EXCEPT ![p] = IF rest = {} THEN "idle" ELSE "next"]
      /\ cur' = [cur EXCEPT ![p] = NoRow]
      /\ result' = [result EXCEPT ![p] = "none"]
      /\ rowStart' = [rowStart EXCEPT ![p] = IF rest = {} THEN 0 ELSE now]

Succeeded(p) == result[p] = "delivered"

GivesUp(p) == result[p] = "permanent" /\ token[p][cur[p]] >= PermanentThreshold

FinalizeDelivered(p) ==
    /\ pc[p] = "finalizing"
    /\ Succeeded(p)
    /\ Fence(p, cur[p])
    /\ status' = [status EXCEPT ![cur[p]] = "delivered"]
    /\ NextRow(p)
    /\ UNCHANGED <<now, enabled, attempts, nextAt, created, ghosts>>

FinalizeDead(p) ==
    /\ pc[p] = "finalizing"
    /\ GivesUp(p)
    /\ Fence(p, cur[p])
    /\ status' = [status EXCEPT ![cur[p]] = "dead"]
    /\ NextRow(p)
    /\ UNCHANGED <<now, enabled, attempts, nextAt, created, ghosts>>

FinalizeReschedule(p) ==
    /\ pc[p] = "finalizing"
    /\ ~Succeeded(p) /\ ~GivesUp(p)
    /\ Fence(p, cur[p])
    /\ nextAt' = [nextAt EXCEPT ![cur[p]] = Clock(p) + BackoffAfter(token[p][cur[p]])]
    /\ NextRow(p)
    /\ UNCHANGED <<now, enabled, status, attempts, created, ghosts>>

(* The fenced UPDATE matched no row: "skipped". *)
FinalizeSkipped(p) ==
    /\ pc[p] = "finalizing"
    /\ ~Fence(p, cur[p])
    /\ NextRow(p)
    /\ UNCHANGED <<now, enabled, table, ghosts>>

(* The process stops (a rolling deploy cancels the loop), or the finalizing
   UPDATE itself raises, which is outside the per-row try and ends the pass.
   The claims are forgotten; the leases stay in the table. *)
AbandonPass(p) ==
    /\ pc[p] # "idle"
    /\ pc' = [pc EXCEPT ![p] = "idle"]
    /\ held' = [held EXCEPT ![p] = {}]
    /\ token' = [token EXCEPT ![p] = [r \in Rows |-> 0]]
    /\ cur' = [cur EXCEPT ![p] = NoRow]
    /\ result' = [result EXCEPT ![p] = "none"]
    /\ rowStart' = [rowStart EXCEPT ![p] = 0]
    /\ UNCHANGED <<now, enabled, table, ghosts>>

-----------------------------------------------------------------------------
(* prune_webhook_outbox, on the database's clock. *)
PrunableAnyStatus == {r \in Rows :
    status[r] \notin NotQueued /\ created[r] < now - Retention}   \* a mutant
Prunable == {r \in Rows : status[r] \in Terminal /\ created[r] < now - Retention}

Prune ==
    /\ Prunable # {}
    /\ status' = [r \in Rows |-> IF r \in Prunable THEN "pruned" ELSE status[r]]
    /\ UNCHANGED <<now, enabled, attempts, nextAt, created, ghosts, pass>>

(* The kill switch, read before every pass. *)
ToggleEnabled ==
    /\ enabled' = ~enabled
    /\ UNCHANGED <<now, table, ghosts, pass>>

(* With Timely, no pod may still be on a row RowTime after it turned to it. *)
Tick ==
    /\ now < Horizon
    /\ Timely => \A p \in Pods : pc[p] # "idle" => now < rowStart[p] + RowTime
    /\ now' = now + 1
    /\ UNCHANGED <<enabled, table, ghosts, pass>>

Submit == \E r \in Rows :
    \/ InlineAcknowledged(r)
    \/ NoUrlConfigured(r)
    \/ \E p \in Pods : Enqueue(r, p)
    \/ EnqueueLost(r)

Finalize(p) ==
    \/ FinalizeDelivered(p)
    \/ FinalizeDead(p)
    \/ FinalizeReschedule(p)
    \/ FinalizeSkipped(p)

PassStep(p) == ClaimPass(p) \/ BeginDelivery(p) \/ EndDelivery(p) \/ Finalize(p)

Next ==
    \/ Submit
    \/ \E p \in Pods : PassStep(p) \/ AbandonPass(p)
    \/ Prune
    \/ ToggleEnabled
    \/ Tick

Spec == Init /\ [][Next]_vars

(* Every pod's loop keeps running ("never dies") and time passes. Crashes,
   pruning and the kill switch are not owed anything. *)
Fairness == WF_vars(Tick) /\ \A p \in Pods : WF_vars(PassStep(p))

FairSpec == Spec /\ Fairness
-----------------------------------------------------------------------------
(* PROPERTIES *)

(* A settled row is settled for good: no late finalize, re-claim or crash    *)
(* moves a delivered row, or revives or re-labels a dead one; it can only be *)
(* pruned. (_finalize_webhook_outbox_row's fence, the claim's WHERE.)        *)
TerminalIsFinal ==
    [][\A r \in Rows :
          /\ status[r] \in Terminal => status'[r] \in {status[r], "pruned"}
          /\ status[r] = "pruned" => status'[r] = "pruned"]_vars

(* A stale result never clobbers a newer claim (N1), whatever the timing:    *)
(* when pod p finalizes a row whose latest claim is another pod's, neither   *)
(* the row's status nor its schedule moves.                                  *)
LatestClaim(p, r) == r \in held[p] /\ attempts[r] = token[p][r]

NewerClaimKept ==
    [][\A p, q \in Pods : \A r \in Rows :
          /\ p # q
          /\ pc[p] = "finalizing" /\ cur[p] = r /\ pc'[p] # "finalizing"
          /\ LatestClaim(q, r)
          => status'[r] = status[r] /\ nextAt'[r] = nextAt[r]]_vars

(* Every claim of a row carries its own token, no token runs ahead of the    *)
(* row's counter: at most one pod's finalize can ever match the fence.       *)
FencingTokens ==
    \A p, q \in Pods, r \in Rows :
        /\ r \in held[p] => token[p][r] \in 1..attempts[r]
        /\ p # q /\ r \in held[p] \cap held[q] => token[p][r] # token[q][r]

(* A row marked delivered has reached the CRM. *)
DeliveredWasReceived ==
    \A r \in Rows : status[r] \in {"inline", "delivered"} => received[r]

(* While every row takes its pod at most RowTime, the lease keeps two pods   *)
(* from working on the same row (run_webhook_outbox_once, "Multi-pod         *)
(* safety"), and nothing settled is sent again: a held row is still pending  *)
(* under its holder's own claim.                                             *)
LeaseExclusive ==
    \A p \in Pods : \A r \in held[p] :
        /\ status[r] = "pending"
        /\ attempts[r] = token[p][r]
        /\ \A q \in Pods \ {p} : r \notin held[q]

Contract == INSTANCE DurableDelivery WITH Events <- Rows, state <- status

ImplementsContract == Contract!Spec

(* Unless retries stay paused, no queued event stays open forever: it is     *)
(* delivered, given up, or retired by age. (The premise keeps the rows whose *)
(* whole life fits below Horizon.)                                           *)
FitsHorizon(r) ==
    created[r] + MaxAge + Lease + BackoffAfter(Len(Backoff)) <= Horizon

PendingSettles ==
    <>[]enabled =>
        \A r \in Rows : status[r] = "pending" /\ FitsHorizon(r) ~> status[r] \in Terminal

(* "A row is given up as dead on a PERMANENT delivery outcome only once it   *)
(* has accumulated at least this many delivery attempts" (main.py:536).      *)
DeadOnlyAfterThreshold ==
    [][\A p \in Pods : FinalizeDead(p) => tries[cur[p]] >= PermanentThreshold]_vars
=============================================================================
