------------------------------ MODULE Campaign ------------------------------
(* One run of an outbound campaign (campaign/orchestrator.py) under its scheduler
   (campaign/scheduler.py): the polling loop, a task for each call, the retries, the
   do-not-disturb store and the calling hours. Time is relative: retryDue counts down to
   a retry, recent[a] counts the calls dispatched a units of time ago. *)
EXTENDS Integers, FiniteSets

CONSTANTS
    Leads,              \* numbers: the order in which a poll looks at the leads
    PhoneOf,            \* phone_number of each lead
    MaxAttempts,        \* RetryConfig.max_retry_attempts
    RetryInterval,      \* RetryConfig.retry_interval_hours
    CallsPerWindow,     \* RateLimitConfig.calls_per_minute
    Window,             \* its minute
    PollCap,            \* RateLimitConfig.max_concurrent_calls
    Semaphore           \* CampaignOrchestrator(max_concurrent)

ASSUME CampaignAssumption ==
    /\ Leads \subseteq Nat /\ IsFiniteSet(Leads)
    /\ {MaxAttempts, CallsPerWindow, PollCap, Semaphore} \subseteq Nat \ {0}
    /\ {RetryInterval, Window} \subseteq Nat

VARIABLES
    leadStatus, retryCount, retryDue,       \* the Lead
    active, completedLeads, campaignOver,   \* the CampaignRun, COMPLETED
    recent,                                 \* _dispatched_at
    task, disposition,                      \* _handle_call of each lead, its CallResult
    dndStore, open,                         \* DND numbers, calling hours
    dialled, crashed, stuck                 \* calls so far; history of the failures

leadVars == <<leadStatus, retryCount, retryDue>>
runVars == <<active, completedLeads, campaignOver>>
outsideVars == <<dndStore, open>>
historyVars == <<dialled, crashed, stuck>>
campaignVars == <<leadVars, runVars, recent, task, disposition, outsideVars, historyVars>>

Final == {"completed", "failed", "dnd"}
LeadStatuses == Final \cup {"pending", "in_flight", "retry"}
Phones == {PhoneOf[l] : l \in Leads}

(* Dispositions, as _on_call_result tells them apart. *)
Dispositions == {"talked", "retry", "refused"}

(* "none" is a task not created or done. A task past the semaphore holds it. *)
HoldsSemaphore == {"calling", "updating", "marking", "reporting"}
Tasks == HoldsSemaphore \cup {"none", "queued"}

CampaignTypeOK ==
    /\ leadStatus \in [Leads -> LeadStatuses]
    /\ retryCount \in [Leads -> 0..MaxAttempts]
    /\ retryDue \in [Leads -> 0..RetryInterval]
    /\ active \subseteq Leads /\ completedLeads \subseteq Leads
    /\ campaignOver \in BOOLEAN
    /\ recent \in [0..Window -> 0..CallsPerWindow]
    /\ task \in [Leads -> Tasks] /\ disposition \in [Leads -> Dispositions]
    /\ dndStore \subseteq Phones /\ open \in BOOLEAN
    /\ dialled \in [Leads -> Nat]
    /\ crashed \subseteq Leads /\ stuck \subseteq Leads

CampaignInit ==
    /\ leadStatus = [l \in Leads |-> "pending"]
    /\ retryCount = [l \in Leads |-> 0] /\ retryDue = [l \in Leads |-> 0]
    /\ active = {} /\ completedLeads = {} /\ campaignOver = FALSE
    /\ recent = [a \in 0..Window |-> 0]
    /\ task = [l \in Leads |-> "none"] /\ disposition = [l \in Leads |-> "talked"]
    /\ dndStore = {} /\ open = TRUE
    /\ dialled = [l \in Leads |-> 0] /\ crashed = {} /\ stuck = {}

-----------------------------------------------------------------------------
(* The polling loop (run). *)

Remaining == {l \in Leads : leadStatus[l] \notin Final} \ active

NobodyBlocked == {}                                                 \* a mutant
Blocked == {l \in Remaining : PhoneOf[l] \in dndStore}

Recently ==
    LET Upto[a \in 0..Window] == recent[a] + IF a = 0 THEN 0 ELSE Upto[a - 1]
    IN Upto[Window]

Least(i, j) == IF i < j THEN i ELSE j

(* poll: nobody outside the hours, at the cap, or with the rate used up. Otherwise the
   first leads, as many as there is room for, whose retry is due. *)
Budget ==
    IF open /\ Cardinality(active) < PollCap
    THEN Least(CallsPerWindow - Recently, PollCap - Cardinality(active))
    ELSE 0

Eligible == {l \in Remaining : PhoneOf[l] \notin dndStore /\ retryDue[l] = 0}
Picked == {l \in Eligible : Cardinality({k \in Eligible : k < l}) < Budget}

(* An iteration, up to its sleep: blocked leads are settled and counted, the picked
   ones get their tasks, and the run ends when nothing is left. (The task of a call whose
   retry comes due before its events are out is replaced by the new one, and its hold of
   the semaphore is forgotten: the retries are hours apart.) *)
Iterate ==
    /\ ~campaignOver
    /\ leadStatus' = [l \in Leads |->
           IF l \in Blocked THEN "dnd" ELSE IF l \in Picked THEN "in_flight" ELSE leadStatus[l]]
    /\ completedLeads' = completedLeads \cup Blocked
    /\ active' = active \cup Picked
    /\ recent' = [recent EXCEPT ![0] = @ + Cardinality(Picked)]
    /\ task' = [l \in Leads |-> IF l \in Picked THEN "queued" ELSE task[l]]
    /\ campaignOver' = (Remaining' = {} /\ active' = {} /\ \A l \in Leads : task'[l] = "none")
    /\ UNCHANGED <<retryCount, retryDue, disposition, outsideVars, historyVars>>

-----------------------------------------------------------------------------
(* A call's task (_handle_call, _on_call_result). *)

Acquires(l) ==
    /\ task[l] = "queued"
    /\ Cardinality({k \in Leads : task[k] \in HoldsSemaphore}) < Semaphore
    /\ task' = [task EXCEPT ![l] = "calling"]
    /\ dialled' = [dialled EXCEPT ![l] = @ + 1]
    /\ UNCHANGED <<leadVars, runVars, recent, disposition, outsideVars, crashed, stuck>>

AfterOneMore(l) == IF retryCount[l] >= MaxAttempts THEN "failed" ELSE "retry"  \* a mutant

(* schedule_retry: the status it leaves the lead in. *)
AfterRetry(l) == IF retryCount[l] + 1 >= MaxAttempts THEN "failed" ELSE "retry"

SchedulesRetry(l) ==
    /\ retryCount' = [retryCount EXCEPT ![l] = @ + 1]
    /\ leadStatus' = [leadStatus EXCEPT ![l] = AfterRetry(l)]
    /\ retryDue' = [retryDue EXCEPT ![l] = IF AfterRetry(l) = "retry" THEN RetryInterval ELSE 0]

(* dispatch raised: a retry, and if it was the last attempt nobody counts the lead. *)
DispatchCrashes(l) ==
    /\ task[l] = "calling"
    /\ SchedulesRetry(l)
    /\ active' = active \ {l}
    /\ task' = [task EXCEPT ![l] = "none"]
    /\ crashed' = IF AfterRetry(l) = "failed" THEN crashed \cup {l} ELSE crashed
    /\ UNCHANGED <<completedLeads, campaignOver, recent, disposition, outsideVars, dialled, stuck>>

DispatchReturns(l, d) ==
    /\ task[l] = "calling"
    /\ task' = [task EXCEPT ![l] = "updating"]
    /\ disposition' = [disposition EXCEPT ![l] = d]
    /\ UNCHANGED <<leadVars, runVars, recent, outsideVars, historyVars>>

NeverCounts(l) ==                                                   \* a mutant
    /\ active' = active \ {l}
    /\ task' = [task EXCEPT ![l] = "reporting"]
    /\ UNCHANGED completedLeads

(* The lead leaves active, and is counted if it reached a final status. *)
Settles(l) ==
    /\ active' = active \ {l}
    /\ completedLeads' = IF leadStatus'[l] \in Final
                         THEN completedLeads \cup {l} ELSE completedLeads
    /\ task' = [task EXCEPT ![l] = "reporting"]

(* crm.update_lead came back, with an answer or without. *)
LeadUpdated(l) ==
    /\ task[l] = "updating"
    /\ CASE disposition[l] = "refused" ->
              /\ leadStatus' = [leadStatus EXCEPT ![l] = "dnd"]
              /\ task' = [task EXCEPT ![l] = "marking"]
              /\ UNCHANGED <<retryCount, retryDue, active, completedLeads>>
         [] disposition[l] = "retry" -> SchedulesRetry(l) /\ Settles(l)
         [] disposition[l] = "talked" ->
              /\ leadStatus' = [leadStatus EXCEPT ![l] = "completed"]
              /\ Settles(l)
              /\ UNCHANGED <<retryCount, retryDue>>
    /\ UNCHANGED <<campaignOver, recent, disposition, outsideVars, historyVars>>

DndMarked(l) ==
    /\ task[l] = "marking"
    /\ leadStatus' = leadStatus
    /\ Settles(l)
    /\ UNCHANGED <<retryCount, retryDue, campaignOver, recent, disposition, outsideVars, historyVars>>

(* crm.mark_dnd is awaited outside the try: the task dies, its lead stays active. *)
MarkFails(l) ==
    /\ task[l] = "marking"
    /\ task' = [task EXCEPT ![l] = "none"]
    /\ stuck' = stuck \cup {l}
    /\ UNCHANGED <<leadVars, runVars, recent, disposition, outsideVars, dialled, crashed>>

(* The events' subscribers are done: the task ends and gives up the semaphore. *)
Reported(l) ==
    /\ task[l] = "reporting"
    /\ task' = [task EXCEPT ![l] = "none"]
    /\ UNCHANGED <<leadVars, runVars, recent, disposition, outsideVars, historyVars>>

-----------------------------------------------------------------------------
(* The operator's store, the calling hours, and time: _evict_stale forgets a call that
   is older than Window. *)

DndChanges(n) ==
    /\ ~campaignOver
    /\ dndStore' = IF n \in dndStore THEN dndStore \ {n} ELSE dndStore \cup {n}
    /\ UNCHANGED <<leadVars, runVars, recent, task, disposition, open, historyVars>>

HoursChange ==
    /\ ~campaignOver
    /\ open' = ~open
    /\ UNCHANGED <<leadVars, runVars, recent, task, disposition, dndStore, historyVars>>

CampaignTick ==
    /\ ~campaignOver
    /\ recent' = [a \in 0..Window |-> IF a = 0 THEN 0 ELSE recent[a - 1]]
    /\ retryDue' = [l \in Leads |-> IF retryDue[l] > 0 THEN retryDue[l] - 1 ELSE 0]
    /\ UNCHANGED <<leadStatus, retryCount, runVars, task, disposition, outsideVars, historyVars>>

-----------------------------------------------------------------------------
TaskGoes(l) ==
    \/ Acquires(l) \/ DispatchCrashes(l) \/ \E d \in Dispositions : DispatchReturns(l, d)
    \/ LeadUpdated(l) \/ DndMarked(l) \/ MarkFails(l) \/ Reported(l)

CampaignNext ==
    \/ Iterate
    \/ \E l \in Leads : TaskGoes(l)
    \/ \E n \in Phones : DndChanges(n)
    \/ HoursChange \/ CampaignTick

CampaignSpec == CampaignInit /\ [][CampaignNext]_campaignVars

(* The hours open again, time passes, a call comes to an end. The loop polls every
   millisecond, however often the hours close again. *)
CampaignFairness ==
    /\ SF_campaignVars(Iterate)
    /\ WF_campaignVars(CampaignTick) /\ WF_campaignVars(~open /\ HoursChange)
    /\ \A l \in Leads : WF_campaignVars(TaskGoes(l))

-----------------------------------------------------------------------------
(* Properties. *)

(* A lead is dialled MaxAttempts times at most, and never once it is settled. *)
AttemptsBounded ==
    \A l \in Leads :
        /\ dialled[l] <= MaxAttempts
        /\ leadStatus[l] \in Final => task[l] \notin {"queued", "calling", "updating"}

(* orchestrator.py:139-145: stats["completed"] counts every settled lead. It misses one
   whose last attempt crashed, and one whose refusal the CRM did not take. *)
SettledAreCounted ==
    /\ completedLeads = {l \in Leads \ crashed : leadStatus[l] \in Final /\ task[l] # "marking"}
                        \ stuck
    /\ campaignOver => \A l \in Leads : leadStatus[l] \in Final

(* scheduler.py:4: polls hand out no more than CallsPerWindow calls within Window. (What
   then waits for the semaphore is dialled later.) *)
RateKept == Recently <= CallsPerWindow

LeadsAccounted == AttemptsBounded /\ SettledAreCounted /\ RateKept

(* A run that has begun comes to its end, whatever is blocked, refused, retried or closed
   meanwhile, unless the CRM failed to take a refusal. *)
CampaignEnds ==
    (\E l \in Leads : leadStatus[l] # "pending") ~> (campaignOver \/ stuck # {})
=============================================================================
