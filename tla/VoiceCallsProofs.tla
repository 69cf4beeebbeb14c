-------------------------- MODULE VoiceCallsProofs ---------------------------
(* Proofs about LiveBridge, for calls of any number of turns, and about VoiceTurn, for any
   number of turns, sentences and failures; and about the two of them as MCVoiceCalls has
   them. *)
EXTENDS MCVoiceCalls, SequenceTheorems, TLAPS

(* LiveBridge. *)

Holding == {"closing", "webhook", "waiting", "apology"}
Computing == {"analysis", "deliver"}
Committing == {"user", "agent", "state"}

(* Which task a program counter belongs to, and what is known while the caller's
   frames are read. *)
Where ==
    /\ pc # "idle" => \/ drive \in {"loop", "cancel"} /\ task = "running"
                     \/ drive \in {"salvage", "outcome"}
    /\ pc \in Holding \cup Committing => drive # "outcome"
    /\ drive = "connect" => task = "none" /\ agent = "idle" /\ ~emitted
    /\ drive \in {"loop", "cancel"} => task # "none"
    /\ drive = "loop" /\ (pc # "idle" \/ emitted) => sid

(* The agent's state along a commit: the events task only waits for events while the
   agent listens, or with nothing left to compute. *)
Turning ==
    /\ buf # {} => turn <= MaxTurns
    /\ pc \in Committing => buf # {}
    /\ pc \in Holding => buf = {} /\ agent = "ended"
    /\ pc = "state" => agent = IF action = "continue" THEN "listening" ELSE "ended"
    /\ pc = "agent" => agent = "responding"
    /\ pc = "user" => agent \in {"processing", "responding"}
    /\ task = "running" /\ pc = "user" => agent = "processing"
    /\ task = "running" /\ pc = "idle" => agent = "listening" \/ (agent = "ended" /\ emitted)
    /\ emitted /\ drive \notin {"outcome", "hangup", "done"} => agent = "ended"
    /\ agent = "idle" => buf = {}

(* One hold in a call: its future is registered once, and decides what is accepted. *)
HoldInv ==
    /\ accepted = IF fut \in {"success", "failure"} THEN fut ELSE "none"
    /\ agent # "ended" \/ pc \in {"state", "closing", "webhook"} => fut = "none"
    /\ entry => fut # "none"
    /\ pc = "apology" => fut \in {"failure", "cancelled"}

(* The outcome is computed once, and lost only in a cut. *)
OutcomeInv ==
    /\ drive \in {"hangup", "done"} => emitted
    /\ pc \in Computing => emitted
    /\ emitted /\ sid => delivered \/ cut \/ pc \in Computing

(* Until the outcome is computed, what was heard is recorded or still in the buffers,
   and a commit's progress says how much of the buffers is recorded. *)
Spoken(w) == <<turn, w>>
Accounted == \A p \in heard : p \in Recorded \/ \E w \in buf : p = Spoken(w)
BufRecorded == \A w \in buf : Spoken(w) \in Recorded

HeardInv == ~emitted =>
    /\ Accounted
    /\ pc \in {"agent", "state"} \/ agent \in {"responding", "ended"} => BufRecorded
    /\ (pc = "user" \/ agent = "processing") /\ "user" \in buf => Spoken("user") \in Recorded
    /\ drive = "outcome" => heard \subseteq Recorded

BridgeInv == TypeOK /\ Where /\ Turning /\ HoldInv /\ OutcomeInv /\ HeardInv

-----------------------------------------------------------------------------
(* Each part of the invariant is kept by every action. *)
LEMMA WhereKept == BridgeInv /\ [Next]_vars => Where'
<1>. SUFFICES ASSUME BridgeInv, [Next]_vars PROVE Where'
  OBVIOUS
<1>. USE DEF BridgeInv, Where, Turning, TypeOK, Holding, Committing,
            taskVars, turnVars, outcomeVars, holdVars, envVars
<1>1. CASE HangUp
  BY <1>1 DEF HangUp
<1>2. CASE FallsSilent
  BY <1>2 DEF FallsSilent
<1>3. CASE UpstreamDrops
  BY <1>3 DEF UpstreamDrops
<1>4. CASE TurnComplete
  BY <1>4 DEF TurnComplete, Receives, Awaits, Commit, RecordsReply, Returns, NextStep, Terminal
<1>5. ASSUME NEW who \in Speakers, Hears(who) PROVE Where'
  BY <1>5 DEF Hears, Receives, Awaits
<1>6. ASSUME NEW a \in Actions, Signals(a) PROVE Where'
  BY <1>6 DEF Signals, Receives, Awaits
<1>7. ASSUME NEW r \in {"success", "failure"}, PostResult(r) PROVE Where'
  BY <1>7 DEF PostResult, Accepts
<1>8. CASE UserPersisted
  BY <1>8 DEF UserPersisted, Runs, RecordsReply, Returns, NextStep
<1>9. CASE AgentPersisted
  BY <1>9 DEF AgentPersisted, Runs
<1>10. CASE StatePersisted
  <2>1. CASE action = "continue"
    BY <1>10, <2>1 DEF StatePersisted, Runs, Returns, NextStep, Finishes, Emits
  <2>2. CASE action = "end"
    BY <1>10, <2>2 DEF StatePersisted, Runs, Returns, NextStep, Finishes, Emits
  <2>3. CASE action = "transfer"
    BY <1>10, <2>3 DEF StatePersisted, Runs, Returns, NextStep, Finishes, Emits
  <2>. QED BY <2>1, <2>2, <2>3 DEF TypeOK, Actions
<1>11. CASE Analysed
  BY <1>11 DEF Analysed, Runs
<1>12. CASE Delivered
  BY <1>12 DEF Delivered, Runs, Returns, NextStep
<1>13. CASE SessionClosed
  BY <1>13 DEF SessionClosed, Runs
<1>14. CASE Registers
  BY <1>14 DEF Registers, Runs
<1>15. CASE HoldResolved
  BY <1>15 DEF HoldResolved, Runs, TakesResult, Finishes, Emits, Returns, NextStep
<1>16. CASE HoldTimesOut
  BY <1>16 DEF HoldTimesOut, Runs, TimeoutDue
<1>17. CASE ApologyPlayed
  BY <1>17 DEF ApologyPlayed, Runs, Finishes, Emits, Returns, NextStep
<1>18. CASE StreamEnds
  BY <1>18 DEF StreamEnds, Awaits
<1>19. CASE TaskCancelled
  BY <1>19 DEF TaskCancelled, TakesResult, Finishes, Emits, Returns, NextStep
<1>20. CASE Connect
  BY <1>20 DEF Connect
<1>21. CASE ConnectFails
  BY <1>21 DEF ConnectFails
<1>22. CASE LoopEnds
  BY <1>22 DEF LoopEnds
<1>23. CASE CloseSession
  BY <1>23 DEF CloseSession, TaskAwaited, AfterClose
<1>24. CASE Salvage
  BY <1>24 DEF Salvage, Salvageable, Terminal, Commit, RecordsReply, Returns, NextStep
<1>25. CASE EmitOutcome
  BY <1>25 DEF EmitOutcome, Emits, Returns, NextStep
<1>26. CASE HandleHangup
  BY <1>26 DEF HandleHangup
<1>27. CASE WatchdogWakes
  BY <1>27 DEF WatchdogWakes, Hangs
<1>28. CASE StartFrame
  BY <1>28 DEF StartFrame
<1>29. CASE UNCHANGED vars
  BY <1>29 DEF vars
<1>. QED
  BY <1>1, <1>2, <1>3, <1>4, <1>5, <1>6, <1>7, <1>8, <1>9, <1>10, <1>11, <1>12, <1>13, <1>14, <1>15,
     <1>16, <1>17, <1>18, <1>19, <1>20, <1>21, <1>22, <1>23, <1>24, <1>25, <1>26, <1>27, <1>28,
     <1>29
     DEF Next, Environment, Coroutine, Drive

LEMMA TurningKept == BridgeInv /\ [Next]_vars => Turning'
<1>. SUFFICES ASSUME BridgeInv, [Next]_vars PROVE Turning'
  OBVIOUS
<1>. USE DEF BridgeInv, Where, Turning, TypeOK, Holding, Committing, Speakers, Actions,
            taskVars, turnVars, outcomeVars, holdVars, envVars
<1>1. CASE HangUp
  BY <1>1 DEF HangUp
<1>2. CASE FallsSilent
  BY <1>2 DEF FallsSilent
<1>3. CASE UpstreamDrops
  BY <1>3 DEF UpstreamDrops
<1>4. CASE TurnComplete
  BY <1>4 DEF TurnComplete, Receives, Awaits, Commit, RecordsReply, Returns, NextStep, Terminal
<1>5. ASSUME NEW who \in Speakers, Hears(who) PROVE Turning'
  BY <1>5 DEF Hears, Receives, Awaits
<1>6. ASSUME NEW a \in Actions, Signals(a) PROVE Turning'
  BY <1>6 DEF Signals, Receives, Awaits
<1>7. ASSUME NEW r \in {"success", "failure"}, PostResult(r) PROVE Turning'
  BY <1>7 DEF PostResult, Accepts
<1>8. CASE UserPersisted
  BY <1>8 DEF UserPersisted, Runs, RecordsReply, Returns, NextStep
<1>9. CASE AgentPersisted
  BY <1>9 DEF AgentPersisted, Runs
<1>10. CASE StatePersisted
  <2>1. CASE action = "continue"
    BY <1>10, <2>1 DEF StatePersisted, Runs, Returns, NextStep, Finishes, Emits
  <2>2. CASE action = "end"
    BY <1>10, <2>2 DEF StatePersisted, Runs, Returns, NextStep, Finishes, Emits
  <2>3. CASE action = "transfer"
    BY <1>10, <2>3 DEF StatePersisted, Runs, Returns, NextStep, Finishes, Emits
  <2>. QED BY <2>1, <2>2, <2>3 DEF TypeOK, Actions
<1>11. CASE Analysed
  BY <1>11 DEF Analysed, Runs
<1>12. CASE Delivered
  BY <1>12 DEF Delivered, Runs, Returns, NextStep, OutcomeInv, Computing
<1>13. CASE SessionClosed
  BY <1>13 DEF SessionClosed, Runs
<1>14. CASE Registers
  BY <1>14 DEF Registers, Runs
<1>15. CASE HoldResolved
  BY <1>15 DEF HoldResolved, Runs, TakesResult, Finishes, Emits, Returns, NextStep
<1>16. CASE HoldTimesOut
  BY <1>16 DEF HoldTimesOut, Runs, TimeoutDue
<1>17. CASE ApologyPlayed
  BY <1>17 DEF ApologyPlayed, Runs, Finishes, Emits, Returns, NextStep
<1>18. CASE StreamEnds
  BY <1>18 DEF StreamEnds, Awaits
<1>19. CASE TaskCancelled
  BY <1>19 DEF TaskCancelled, TakesResult, Finishes, Emits, Returns, NextStep
<1>20. CASE Connect
  BY <1>20 DEF Connect
<1>21. CASE ConnectFails
  BY <1>21 DEF ConnectFails
<1>22. CASE LoopEnds
  BY <1>22 DEF LoopEnds
<1>23. CASE CloseSession
  BY <1>23 DEF CloseSession, TaskAwaited, AfterClose
<1>24. CASE Salvage
  BY <1>24 DEF Salvage, Salvageable, Terminal, Commit, RecordsReply, Returns, NextStep
<1>25. CASE EmitOutcome
  BY <1>25 DEF EmitOutcome, Emits, Returns, NextStep
<1>26. CASE HandleHangup
  BY <1>26 DEF HandleHangup
<1>27. CASE WatchdogWakes
  BY <1>27 DEF WatchdogWakes, Hangs
<1>28. CASE StartFrame
  BY <1>28 DEF StartFrame
<1>29. CASE UNCHANGED vars
  BY <1>29 DEF vars
<1>. QED
  BY <1>1, <1>2, <1>3, <1>4, <1>5, <1>6, <1>7, <1>8, <1>9, <1>10, <1>11, <1>12, <1>13, <1>14, <1>15,
     <1>16, <1>17, <1>18, <1>19, <1>20, <1>21, <1>22, <1>23, <1>24, <1>25, <1>26, <1>27, <1>28,
     <1>29
     DEF Next, Environment, Coroutine, Drive

LEMMA HoldInvKept == BridgeInv /\ [Next]_vars => HoldInv'
<1>. SUFFICES ASSUME BridgeInv, [Next]_vars PROVE HoldInv'
  OBVIOUS
<1>. USE DEF BridgeInv, Where, Turning, HoldInv, TypeOK, Holding, Committing,
            taskVars, turnVars, outcomeVars, holdVars, envVars
<1>1. CASE HangUp
  BY <1>1 DEF HangUp
<1>2. CASE FallsSilent
  BY <1>2 DEF FallsSilent
<1>3. CASE UpstreamDrops
  BY <1>3 DEF UpstreamDrops
<1>4. CASE TurnComplete
  BY <1>4 DEF TurnComplete, Receives, Awaits, Commit, RecordsReply, Returns, NextStep, Terminal
<1>5. ASSUME NEW who \in Speakers, Hears(who) PROVE HoldInv'
  BY <1>5 DEF Hears, Receives, Awaits
<1>6. ASSUME NEW a \in Actions, Signals(a) PROVE HoldInv'
  BY <1>6 DEF Signals, Receives, Awaits
<1>7. ASSUME NEW r \in {"success", "failure"}, PostResult(r) PROVE HoldInv'
  BY <1>7 DEF PostResult, Accepts
<1>8. CASE UserPersisted
  BY <1>8 DEF UserPersisted, Runs, RecordsReply, Returns, NextStep
<1>9. CASE AgentPersisted
  BY <1>9 DEF AgentPersisted, Runs
<1>10. CASE StatePersisted
  <2>1. CASE action = "continue"
    BY <1>10, <2>1 DEF StatePersisted, Runs, Returns, NextStep, Finishes, Emits
  <2>2. CASE action = "end"
    BY <1>10, <2>2 DEF StatePersisted, Runs, Returns, NextStep, Finishes, Emits
  <2>3. CASE action = "transfer"
    BY <1>10, <2>3 DEF StatePersisted, Runs, Returns, NextStep, Finishes, Emits
  <2>. QED BY <2>1, <2>2, <2>3 DEF TypeOK, Actions
<1>11. CASE Analysed
  BY <1>11 DEF Analysed, Runs
<1>12. CASE Delivered
  BY <1>12 DEF Delivered, Runs, Returns, NextStep
<1>13. CASE SessionClosed
  BY <1>13 DEF SessionClosed, Runs
<1>14. CASE Registers
  BY <1>14 DEF Registers, Runs
<1>15. CASE HoldResolved
  BY <1>15 DEF HoldResolved, Runs, TakesResult, Finishes, Emits, Returns, NextStep
<1>16. CASE HoldTimesOut
  BY <1>16 DEF HoldTimesOut, Runs, TimeoutDue
<1>17. CASE ApologyPlayed
  BY <1>17 DEF ApologyPlayed, Runs, Finishes, Emits, Returns, NextStep
<1>18. CASE StreamEnds
  BY <1>18 DEF StreamEnds, Awaits
<1>19. CASE TaskCancelled
  BY <1>19 DEF TaskCancelled, TakesResult, Finishes, Emits, Returns, NextStep
<1>20. CASE Connect
  BY <1>20 DEF Connect
<1>21. CASE ConnectFails
  BY <1>21 DEF ConnectFails
<1>22. CASE LoopEnds
  BY <1>22 DEF LoopEnds
<1>23. CASE CloseSession
  BY <1>23 DEF CloseSession, TaskAwaited, AfterClose
<1>24. CASE Salvage
  BY <1>24 DEF Salvage, Salvageable, Terminal, Commit, RecordsReply, Returns, NextStep
<1>25. CASE EmitOutcome
  BY <1>25 DEF EmitOutcome, Emits, Returns, NextStep
<1>26. CASE HandleHangup
  BY <1>26 DEF HandleHangup
<1>27. CASE WatchdogWakes
  BY <1>27 DEF WatchdogWakes, Hangs
<1>28. CASE StartFrame
  BY <1>28 DEF StartFrame
<1>29. CASE UNCHANGED vars
  BY <1>29 DEF vars
<1>. QED
  BY <1>1, <1>2, <1>3, <1>4, <1>5, <1>6, <1>7, <1>8, <1>9, <1>10, <1>11, <1>12, <1>13, <1>14, <1>15,
     <1>16, <1>17, <1>18, <1>19, <1>20, <1>21, <1>22, <1>23, <1>24, <1>25, <1>26, <1>27, <1>28,
     <1>29
     DEF Next, Environment, Coroutine, Drive

LEMMA OutcomeInvKept == BridgeInv /\ [Next]_vars => OutcomeInv'
<1>. SUFFICES ASSUME BridgeInv, [Next]_vars PROVE OutcomeInv'
  OBVIOUS
<1>. USE DEF BridgeInv, Where, Turning, OutcomeInv, TypeOK, Holding, Committing, Computing,
            taskVars, turnVars, outcomeVars, holdVars, envVars
<1>1. CASE HangUp
  BY <1>1 DEF HangUp
<1>2. CASE FallsSilent
  BY <1>2 DEF FallsSilent
<1>3. CASE UpstreamDrops
  BY <1>3 DEF UpstreamDrops
<1>4. CASE TurnComplete
  BY <1>4 DEF TurnComplete, Receives, Awaits, Commit, RecordsReply, Returns, NextStep, Terminal
<1>5. ASSUME NEW who \in Speakers, Hears(who) PROVE OutcomeInv'
  BY <1>5 DEF Hears, Receives, Awaits
<1>6. ASSUME NEW a \in Actions, Signals(a) PROVE OutcomeInv'
  BY <1>6 DEF Signals, Receives, Awaits
<1>7. ASSUME NEW r \in {"success", "failure"}, PostResult(r) PROVE OutcomeInv'
  BY <1>7 DEF PostResult, Accepts
<1>8. CASE UserPersisted
  BY <1>8 DEF UserPersisted, Runs, RecordsReply, Returns, NextStep
<1>9. CASE AgentPersisted
  BY <1>9 DEF AgentPersisted, Runs
<1>10. CASE StatePersisted
  <2>1. CASE action = "continue"
    BY <1>10, <2>1 DEF StatePersisted, Runs, Returns, NextStep, Finishes, Emits
  <2>2. CASE action = "end"
    BY <1>10, <2>2 DEF StatePersisted, Runs, Returns, NextStep, Finishes, Emits
  <2>3. CASE action = "transfer"
    BY <1>10, <2>3 DEF StatePersisted, Runs, Returns, NextStep, Finishes, Emits
  <2>. QED BY <2>1, <2>2, <2>3 DEF TypeOK, Actions
<1>11. CASE Analysed
  BY <1>11 DEF Analysed, Runs
<1>12. CASE Delivered
  BY <1>12 DEF Delivered, Runs, Returns, NextStep
<1>13. CASE SessionClosed
  BY <1>13 DEF SessionClosed, Runs
<1>14. CASE Registers
  BY <1>14 DEF Registers, Runs
<1>15. CASE HoldResolved
  BY <1>15 DEF HoldResolved, Runs, TakesResult, Finishes, Emits, Returns, NextStep
<1>16. CASE HoldTimesOut
  BY <1>16 DEF HoldTimesOut, Runs, TimeoutDue
<1>17. CASE ApologyPlayed
  BY <1>17 DEF ApologyPlayed, Runs, Finishes, Emits, Returns, NextStep
<1>18. CASE StreamEnds
  BY <1>18 DEF StreamEnds, Awaits
<1>19. CASE TaskCancelled
  BY <1>19 DEF TaskCancelled, TakesResult, Finishes, Emits, Returns, NextStep
<1>20. CASE Connect
  BY <1>20 DEF Connect
<1>21. CASE ConnectFails
  BY <1>21 DEF ConnectFails
<1>22. CASE LoopEnds
  BY <1>22 DEF LoopEnds
<1>23. CASE CloseSession
  BY <1>23 DEF CloseSession, TaskAwaited, AfterClose
<1>24. CASE Salvage
  BY <1>24 DEF Salvage, Salvageable, Terminal, Commit, RecordsReply, Returns, NextStep
<1>25. CASE EmitOutcome
  BY <1>25 DEF EmitOutcome, Emits, Returns, NextStep
<1>26. CASE HandleHangup
  BY <1>26 DEF HandleHangup
<1>27. CASE WatchdogWakes
  BY <1>27 DEF WatchdogWakes, Hangs
<1>28. CASE StartFrame
  BY <1>28 DEF StartFrame
<1>29. CASE UNCHANGED vars
  BY <1>29 DEF vars
<1>. QED
  BY <1>1, <1>2, <1>3, <1>4, <1>5, <1>6, <1>7, <1>8, <1>9, <1>10, <1>11, <1>12, <1>13, <1>14, <1>15,
     <1>16, <1>17, <1>18, <1>19, <1>20, <1>21, <1>22, <1>23, <1>24, <1>25, <1>26, <1>27, <1>28,
     <1>29
     DEF Next, Environment, Coroutine, Drive

(* The type invariant, a kind of variable at a time. *)
PlacesOK ==
    /\ drive \in {"connect", "loop", "cancel", "salvage", "outcome", "hangup", "done"}
    /\ task \in {"none", "running", "done"}
    /\ session \in {"none", "open", "closing", "dropped"}
    /\ agent \in {"idle", "listening", "processing", "responding", "ended"}
    /\ pc \in {"idle", "user", "agent", "state", "closing", "webhook", "waiting", "apology",
               "analysis", "deliver"}
    /\ fut \in {"none", "pending", "success", "failure", "cancelled"}
    /\ accepted \in {"none", "success", "failure"}
    /\ caller \in {"on", "gone"} /\ action \in Actions
    /\ task = "running" => drive \in {"loop", "cancel"}
    /\ cancelling => task = "running"

FlagsOK ==
    /\ cancelling \in BOOLEAN /\ watching \in BOOLEAN /\ stopped \in BOOLEAN
    /\ sid \in BOOLEAN /\ emitted \in BOOLEAN /\ delivered \in BOOLEAN
    /\ entry \in BOOLEAN /\ quiet \in BOOLEAN /\ cut \in BOOLEAN

TextOK ==
    /\ turn \in 1 .. MaxTurns + 1 /\ buf \subseteq Speakers
    /\ turns \in Seq(Said) /\ heard \subseteq Said

LEMMA TypeSplit == TypeOK <=> PlacesOK /\ FlagsOK /\ TextOK
BY DEF TypeOK, PlacesOK, FlagsOK, TextOK

LEMMA TypeSplitPrimed == TypeOK' <=> PlacesOK' /\ FlagsOK' /\ TextOK'
BY TypeSplit, PTL

LEMMA PlacesOKKept == BridgeInv /\ [Next]_vars => PlacesOK'
<1>. SUFFICES ASSUME BridgeInv, [Next]_vars PROVE PlacesOK'
  OBVIOUS
<1>. PlacesOK
  BY TypeSplit DEF BridgeInv
<1>. USE DEF BridgeInv, Where, Turning, PlacesOK, Committing, Actions,
            taskVars, turnVars, outcomeVars, holdVars, envVars
<1>1. CASE HangUp
  BY <1>1 DEF HangUp
<1>2. CASE FallsSilent
  BY <1>2 DEF FallsSilent
<1>3. CASE UpstreamDrops
  BY <1>3 DEF UpstreamDrops
<1>4. CASE TurnComplete
  BY <1>4 DEF TurnComplete, Receives, Awaits, Commit, RecordsReply, Returns, NextStep, Terminal
<1>5. ASSUME NEW who \in Speakers, Hears(who) PROVE PlacesOK'
  BY <1>5 DEF Hears, Receives, Awaits
<1>6. ASSUME NEW a \in Actions, Signals(a) PROVE PlacesOK'
  BY <1>6 DEF Signals, Receives, Awaits
<1>7. ASSUME NEW r \in {"success", "failure"}, PostResult(r) PROVE PlacesOK'
  BY <1>7 DEF PostResult, Accepts
<1>8. CASE UserPersisted
  BY <1>8 DEF UserPersisted, Runs, RecordsReply, Returns, NextStep
<1>9. CASE AgentPersisted
  BY <1>9 DEF AgentPersisted, Runs
<1>10. CASE StatePersisted
  <2>1. CASE action = "continue"
    BY <1>10, <2>1 DEF StatePersisted, Runs, Returns, NextStep, Finishes, Emits
  <2>2. CASE action = "end"
    BY <1>10, <2>2 DEF StatePersisted, Runs, Returns, NextStep, Finishes, Emits
  <2>3. CASE action = "transfer"
    BY <1>10, <2>3 DEF StatePersisted, Runs, Returns, NextStep, Finishes, Emits
  <2>. QED BY <2>1, <2>2, <2>3 DEF TypeOK, Actions
<1>11. CASE Analysed
  BY <1>11 DEF Analysed, Runs
<1>12. CASE Delivered
  BY <1>12 DEF Delivered, Runs, Returns, NextStep
<1>13. CASE SessionClosed
  BY <1>13 DEF SessionClosed, Runs
<1>14. CASE Registers
  BY <1>14 DEF Registers, Runs
<1>15. CASE HoldResolved
  BY <1>15 DEF HoldResolved, Runs, TakesResult, Finishes, Emits, Returns, NextStep
<1>16. CASE HoldTimesOut
  BY <1>16 DEF HoldTimesOut, Runs, TimeoutDue
<1>17. CASE ApologyPlayed
  BY <1>17 DEF ApologyPlayed, Runs, Finishes, Emits, Returns, NextStep
<1>18. CASE StreamEnds
  BY <1>18 DEF StreamEnds, Awaits
<1>19. CASE TaskCancelled
  BY <1>19 DEF TaskCancelled, TakesResult, Finishes, Emits, Returns, NextStep
<1>20. CASE Connect
  BY <1>20 DEF Connect
<1>21. CASE ConnectFails
  BY <1>21 DEF ConnectFails
<1>22. CASE LoopEnds
  <2>1. cancelling' => task' = "running"
    BY <1>22, Zenon DEF LoopEnds
  <2>. QED BY <1>22, <2>1 DEF LoopEnds
<1>23. CASE CloseSession
  BY <1>23 DEF CloseSession, TaskAwaited, AfterClose
<1>24. CASE Salvage
  BY <1>24 DEF Salvage, Salvageable, Terminal, Commit, RecordsReply, Returns, NextStep
<1>25. CASE EmitOutcome
  BY <1>25 DEF EmitOutcome, Emits, Returns, NextStep
<1>26. CASE HandleHangup
  BY <1>26 DEF HandleHangup
<1>27. CASE WatchdogWakes
  BY <1>27 DEF WatchdogWakes, Hangs
<1>28. CASE StartFrame
  BY <1>28 DEF StartFrame
<1>29. CASE UNCHANGED vars
  BY <1>29 DEF vars
<1>. QED
  BY <1>1, <1>2, <1>3, <1>4, <1>5, <1>6, <1>7, <1>8, <1>9, <1>10, <1>11, <1>12, <1>13, <1>14, <1>15,
     <1>16, <1>17, <1>18, <1>19, <1>20, <1>21, <1>22, <1>23, <1>24, <1>25, <1>26, <1>27, <1>28,
     <1>29
     DEF Next, Environment, Coroutine, Drive

LEMMA FlagsOKKept == BridgeInv /\ [Next]_vars => FlagsOK'
<1>. SUFFICES ASSUME BridgeInv, [Next]_vars PROVE FlagsOK'
  OBVIOUS
<1>. FlagsOK
  BY TypeSplit DEF BridgeInv
<1>. USE DEF BridgeInv, FlagsOK, TypeOK,
            taskVars, turnVars, outcomeVars, holdVars, envVars
<1>1. CASE HangUp
  BY <1>1 DEF HangUp
<1>2. CASE FallsSilent
  BY <1>2 DEF FallsSilent
<1>3. CASE UpstreamDrops
  BY <1>3 DEF UpstreamDrops
<1>4. CASE TurnComplete
  BY <1>4 DEF TurnComplete, Receives, Awaits, Commit, RecordsReply, Returns, NextStep, Terminal
<1>5. ASSUME NEW who \in Speakers, Hears(who) PROVE FlagsOK'
  BY <1>5 DEF Hears, Receives, Awaits
<1>6. ASSUME NEW a \in Actions, Signals(a) PROVE FlagsOK'
  BY <1>6 DEF Signals, Receives, Awaits
<1>7. ASSUME NEW r \in {"success", "failure"}, PostResult(r) PROVE FlagsOK'
  BY <1>7 DEF PostResult, Accepts
<1>8. CASE UserPersisted
  BY <1>8 DEF UserPersisted, Runs, RecordsReply, Returns, NextStep
<1>9. CASE AgentPersisted
  BY <1>9 DEF AgentPersisted, Runs
<1>10. CASE StatePersisted
  <2>1. CASE action = "continue"
    BY <1>10, <2>1 DEF StatePersisted, Runs, Returns, NextStep, Finishes, Emits
  <2>2. CASE action = "end"
    BY <1>10, <2>2 DEF StatePersisted, Runs, Returns, NextStep, Finishes, Emits
  <2>3. CASE action = "transfer"
    BY <1>10, <2>3 DEF StatePersisted, Runs, Returns, NextStep, Finishes, Emits
  <2>. QED BY <2>1, <2>2, <2>3 DEF TypeOK, Actions
<1>11. CASE Analysed
  BY <1>11 DEF Analysed, Runs
<1>12. CASE Delivered
  BY <1>12 DEF Delivered, Runs, Returns, NextStep
<1>13. CASE SessionClosed
  BY <1>13 DEF SessionClosed, Runs
<1>14. CASE Registers
  BY <1>14 DEF Registers, Runs
<1>15. CASE HoldResolved
  BY <1>15 DEF HoldResolved, Runs, TakesResult, Finishes, Emits, Returns, NextStep
<1>16. CASE HoldTimesOut
  BY <1>16 DEF HoldTimesOut, Runs, TimeoutDue
<1>17. CASE ApologyPlayed
  BY <1>17 DEF ApologyPlayed, Runs, Finishes, Emits, Returns, NextStep
<1>18. CASE StreamEnds
  BY <1>18 DEF StreamEnds, Awaits
<1>19. CASE TaskCancelled
  BY <1>19 DEF TaskCancelled, TakesResult, Finishes, Emits, Returns, NextStep
<1>20. CASE Connect
  BY <1>20 DEF Connect
<1>21. CASE ConnectFails
  BY <1>21 DEF ConnectFails
<1>22. CASE LoopEnds
  BY <1>22 DEF LoopEnds
<1>23. CASE CloseSession
  BY <1>23 DEF CloseSession, TaskAwaited, AfterClose
<1>24. CASE Salvage
  BY <1>24 DEF Salvage, Salvageable, Terminal, Commit, RecordsReply, Returns, NextStep
<1>25. CASE EmitOutcome
  BY <1>25 DEF EmitOutcome, Emits, Returns, NextStep
<1>26. CASE HandleHangup
  BY <1>26 DEF HandleHangup
<1>27. CASE WatchdogWakes
  BY <1>27 DEF WatchdogWakes, Hangs
<1>28. CASE StartFrame
  BY <1>28 DEF StartFrame
<1>29. CASE UNCHANGED vars
  BY <1>29 DEF vars
<1>. QED
  BY <1>1, <1>2, <1>3, <1>4, <1>5, <1>6, <1>7, <1>8, <1>9, <1>10, <1>11, <1>12, <1>13, <1>14, <1>15,
     <1>16, <1>17, <1>18, <1>19, <1>20, <1>21, <1>22, <1>23, <1>24, <1>25, <1>26, <1>27, <1>28,
     <1>29
     DEF Next, Environment, Coroutine, Drive

(* Recording one more utterance. *)
LEMMA SaidType == ASSUME NEW t \in 1 .. MaxTurns, NEW w \in Speakers PROVE <<t, w>> \in Said
BY DEF Said

LEMMA RecordedAppend ==
    ASSUME TypeOK, NEW e \in Said, turns' = Append(turns, e)
    PROVE  Recorded' = Recorded \cup {e}
<1>. turns \in Seq(Said)
  BY DEF TypeOK
<1>1. /\ DOMAIN turns' = 1 .. Len(turns) + 1
      /\ \A i \in 1 .. Len(turns) : turns'[i] = turns[i]
      /\ turns'[Len(turns) + 1] = e
  OBVIOUS
<1>2. DOMAIN turns = 1 .. Len(turns) /\ Len(turns) \in Nat
  OBVIOUS
<1>3. DOMAIN turns' = DOMAIN turns \cup {Len(turns) + 1}
  BY <1>1, <1>2
<1>. QED BY <1>1, <1>2, <1>3 DEF Recorded

LEMMA RecordedSame == UNCHANGED turns => Recorded' = Recorded
BY DEF Recorded

(* What the buffers hold can be recorded. *)
LEMMA BufSaid ==
    ASSUME TypeOK, Turning, NEW w \in buf
    PROVE  Spoken(w) \in Said
<1>1. turn \in 1 .. MaxTurns /\ w \in Speakers
  BY TurnsAssumption DEF TypeOK, Turning
<1>. QED BY <1>1, SaidType DEF Spoken

LEMMA TextFrame == TextOK /\ UNCHANGED <<turn, buf, turns, heard>> => TextOK'
BY DEF TextOK

LEMMA ReplyText ==
    ASSUME TypeOK, Turning, buf # {}, NEW st, RecordsReply(turns, st)
    PROVE  turns' \in Seq(Said)
<1>1. "agent" \in buf => <<turn, "agent">> \in Said
  BY BufSaid DEF Spoken
<1>. QED BY <1>1 DEF RecordsReply, TypeOK

LEMMA CommitText ==
    ASSUME TypeOK, Turning, buf # {}, Commit, UNCHANGED heard
    PROVE  TextOK'
<1>1. CASE "user" \in buf
  <2>1. <<turn, "user">> \in Said
    BY <1>1, BufSaid DEF Spoken
  <2>2. turns' = Append(turns, <<turn, "user">>) /\ UNCHANGED <<turn, buf>>
    BY <1>1 DEF Commit
  <2>3. turns' \in Seq(Said)
    BY <2>1, <2>2 DEF TypeOK
  <2>. QED BY <2>2, <2>3 DEF TextOK, TypeOK
<1>2. CASE "user" \notin buf
  <2>1. turns' \in Seq(Said) /\ UNCHANGED <<turn, buf>>
    BY <1>2, ReplyText DEF Commit
  <2>. QED BY <2>1 DEF TextOK, TypeOK
<1>. QED BY <1>1, <1>2

LEMMA TextKept == BridgeInv /\ [Next]_vars => TextOK'
<1>. SUFFICES ASSUME BridgeInv, [Next]_vars PROVE TextOK'
  OBVIOUS
<1>. TypeOK /\ TextOK /\ Turning
  BY TypeSplit DEF BridgeInv
<1>1. CASE TurnComplete
  <2>1. CASE buf = {}
    BY <1>1, <2>1, TurnsAssumption DEF TurnComplete, Receives, TextOK
  <2>2. CASE buf # {}
    BY <1>1, <2>2, CommitText DEF TurnComplete
  <2>. QED BY <2>1, <2>2
<1>2. ASSUME NEW who \in Speakers, Hears(who) PROVE TextOK'
  <2>1. turn \in 1 .. MaxTurns
    BY <1>2, TurnsAssumption DEF Hears, TextOK
  <2>2. <<turn, who>> \in Said
    BY <2>1, SaidType
  <2>. QED BY <1>2, <2>2 DEF Hears, TextOK
<1>3. CASE UserPersisted
  <2>1. buf # {}
    BY <1>3 DEF UserPersisted, Turning, Committing
  <2>. QED BY <1>3, <2>1, ReplyText DEF UserPersisted, TextOK
<1>4. CASE StatePersisted
  <2>1. turn <= MaxTurns
    BY <1>4 DEF StatePersisted, Turning, Committing
  <2>. QED BY <1>4, <2>1, TurnsAssumption DEF StatePersisted, TextOK
<1>5. CASE Salvage
  <2>1. CASE Salvageable
    BY <1>5, <2>1, CommitText DEF Salvage, Salvageable
  <2>2. CASE ~Salvageable
    BY <1>5, <2>2, TextFrame DEF Salvage
  <2>. QED BY <2>1, <2>2
<1>6. CASE \/ HangUp \/ FallsSilent \/ UpstreamDrops \/ AgentPersisted \/ Analysed \/ Delivered
           \/ SessionClosed \/ Registers \/ HoldResolved \/ HoldTimesOut \/ ApologyPlayed \/ StreamEnds
           \/ TaskCancelled \/ Connect \/ ConnectFails \/ LoopEnds \/ CloseSession \/ EmitOutcome
           \/ HandleHangup \/ WatchdogWakes \/ StartFrame
           \/ \E a \in Actions : Signals(a)
           \/ \E r \in {"success", "failure"} : PostResult(r)
  BY <1>6, TextFrame DEF HangUp, FallsSilent, UpstreamDrops, AgentPersisted, Analysed, Delivered,
     SessionClosed, Registers, HoldResolved, HoldTimesOut, ApologyPlayed, StreamEnds, TaskCancelled,
     Connect, ConnectFails, LoopEnds, CloseSession, EmitOutcome, HandleHangup, WatchdogWakes,
     StartFrame, Signals, PostResult, turnVars
<1>7. CASE UNCHANGED vars
  BY <1>7, TextFrame DEF vars
<1>. QED
  BY <1>1, <1>2, <1>3, <1>4, <1>5, <1>6, <1>7 DEF Next, Environment, Coroutine, Drive

LEMMA TypeKept == BridgeInv /\ [Next]_vars => TypeOK'
BY PlacesOKKept, FlagsOKKept, TextKept, TypeSplitPrimed

(* A step that hears, records and drops nothing. *)
LEMMA HeardFrame ==
    ASSUME HeardInv, UNCHANGED <<agent, turn, buf, turns, heard>>, emitted => emitted',
           pc' \in Committing => pc' = pc,
           drive' = "outcome" => drive = "outcome"
    PROVE  HeardInv'
BY RecordedSame DEF HeardInv, Accounted, BufRecorded, Spoken, Committing

(* From the reply on: the agent's part is recorded, or the agent's state refuses it and
   the commit is given up. *)
LEMMA ReplyEffect ==
    ASSUME TypeOK, Turning, buf # {}, NEW st, RecordsReply(turns, st)
    PROVE  /\ Recorded \subseteq Recorded'
           /\ st # "processing" => pc' = "idle" /\ agent' = st
           /\ st = "processing" =>
                 /\ pc' = "agent" /\ agent' = "responding" /\ drive' = drive
                 /\ "agent" \in buf => Spoken("agent") \in Recorded'
<1>1. CASE turns' = turns /\ ~(st = "processing" /\ "agent" \in buf)
  BY <1>1, RecordedSame DEF RecordsReply, Returns
<1>2. CASE st = "processing" /\ "agent" \in buf
  <2>1. Spoken("agent") \in Said /\ turns' = Append(turns, Spoken("agent"))
    BY <1>2, BufSaid DEF RecordsReply, Spoken
  <2>2. Recorded' = Recorded \cup {Spoken("agent")}
    BY <2>1, RecordedAppend
  <2>. QED BY <1>2, <2>2 DEF RecordsReply
<1>. QED BY <1>1, <1>2 DEF RecordsReply

LEMMA CommitEffect ==
    ASSUME TypeOK, Turning, buf # {}, Commit
    PROVE  /\ Recorded \subseteq Recorded' /\ UNCHANGED <<turn, buf>>
           /\ "user" \in buf =>
                 /\ pc' = "user" /\ drive' = drive /\ Spoken("user") \in Recorded'
                 /\ agent' = IF agent = "listening" THEN "processing" ELSE agent
           /\ "user" \notin buf => RecordsReply(turns, IF agent = "listening" THEN "processing" ELSE agent)
<1>1. CASE "user" \in buf
  <2>1. Spoken("user") \in Said /\ turns' = Append(turns, Spoken("user"))
    BY <1>1, BufSaid DEF Commit, Spoken
  <2>2. Recorded' = Recorded \cup {Spoken("user")}
    BY <2>1, RecordedAppend
  <2>. QED BY <1>1, <2>2 DEF Commit
<1>2. CASE "user" \notin buf
  BY <1>2, ReplyEffect DEF Commit
<1>. QED BY <1>1, <1>2

(* A commit that starts, in the events task or in the teardown. *)
LEMMA CommitHeard ==
    ASSUME TypeOK, Turning, HeardInv, buf # {}, Commit, UNCHANGED <<heard, emitted>>,
           agent \notin {"idle", "ended"}, drive # "outcome"
    PROVE  HeardInv'
<1>. SUFFICES ASSUME ~emitted PROVE HeardInv'
  BY DEF HeardInv
<1>1. agent \in {"listening", "processing", "responding"} /\ buf \subseteq {"user", "agent"}
  BY DEF TypeOK, Speakers
<1>2. Accounted'
  BY CommitEffect DEF HeardInv, Accounted, Spoken
<1>3. CASE "user" \in buf
  BY <1>1, <1>2, <1>3, CommitEffect DEF HeardInv, BufRecorded, Spoken
<1>4. CASE "user" \notin buf /\ agent # "responding"
  <2>1. RecordsReply(turns, "processing")
    BY <1>1, <1>4, CommitEffect
  <2>2. pc' = "agent" /\ agent' = "responding" /\ drive' = drive /\ Spoken("agent") \in Recorded'
    BY <1>1, <1>4, <2>1, ReplyEffect
  <2>3. buf' = {"agent"} /\ turn' = turn
    BY <1>1, <1>4, CommitEffect
  <2>. QED BY <1>2, <2>2, <2>3 DEF HeardInv, BufRecorded, Spoken
<1>5. CASE "user" \notin buf /\ agent = "responding"
  <2>1. RecordsReply(turns, "responding")
    BY <1>5, CommitEffect
  <2>2. pc' = "idle" /\ agent' = "responding"
    BY <2>1, ReplyEffect
  <2>3. BufRecorded /\ heard \subseteq Recorded
    BY <1>5 DEF HeardInv, Accounted, BufRecorded
  <2>4. BufRecorded' /\ (heard \subseteq Recorded)'
    BY <2>3, CommitEffect DEF BufRecorded, Spoken
  <2>. QED BY <1>2, <2>2, <2>4 DEF HeardInv
<1>. QED BY <1>1, <1>3, <1>4, <1>5

LEMMA UserPersistedHeard == BridgeInv /\ UserPersisted => HeardInv'
<1>. SUFFICES ASSUME BridgeInv, UserPersisted, ~emitted PROVE HeardInv'
  BY DEF UserPersisted, HeardInv, outcomeVars
<1>1. /\ TypeOK /\ Turning /\ HeardInv /\ buf # {} /\ buf \subseteq {"user", "agent"}
      /\ pc = "user" /\ agent \in {"processing", "responding"} /\ drive # "outcome"
      /\ RecordsReply(turns, agent) /\ UNCHANGED <<heard, turn, buf>>
  BY DEF BridgeInv, Turning, TypeOK, Speakers, Committing, Where, UserPersisted
<1>2. Recorded \subseteq Recorded' /\ Accounted'
  BY <1>1, ReplyEffect DEF HeardInv, Accounted, Spoken
<1>3. CASE agent = "processing"
  BY <1>1, <1>2, <1>3, ReplyEffect DEF HeardInv, BufRecorded, Spoken
<1>4. CASE agent = "responding"
  BY <1>1, <1>2, <1>4, ReplyEffect DEF HeardInv, Accounted, BufRecorded, Spoken
<1>. QED BY <1>1, <1>3, <1>4

LEMMA HeardKept == BridgeInv /\ [Next]_vars => HeardInv'
<1>. SUFFICES ASSUME BridgeInv, [Next]_vars PROVE HeardInv'
  OBVIOUS
<1>. USE DEF BridgeInv
<1>1. CASE TurnComplete
  <2>1. CASE buf = {}
    BY <1>1, <2>1, RecordedSame DEF TurnComplete, Receives, Awaits, HeardInv, Accounted,
       BufRecorded,
       Spoken, outcomeVars, Committing
  <2>2. CASE buf # {}
    <3>1. Commit /\ UNCHANGED <<heard, emitted>> /\ drive # "outcome" /\ ~Terminal
      BY <1>1, <2>2 DEF TurnComplete, Receives, Awaits, TypeOK, outcomeVars
    <3>. QED BY <2>2, <3>1, CommitHeard DEF Turning, Terminal
  <2>. QED BY <2>1, <2>2
<1>2. ASSUME NEW who \in Speakers, Hears(who) PROVE HeardInv'
  <2>1. /\ ~emitted => agent = "listening" /\ pc = "idle" /\ drive # "outcome"
        /\ Recorded' = Recorded /\ UNCHANGED <<pc, agent, turn, drive, emitted>>
        /\ heard' = heard \cup {Spoken(who)} /\ buf' = buf \cup {who}
    BY <1>2, RecordedSame DEF Hears, Receives, Awaits, Turning, TypeOK, outcomeVars, Spoken
  <2>. QED BY <2>1 DEF HeardInv, Accounted, BufRecorded, Spoken
<1>3. ASSUME NEW a \in Actions, Signals(a) PROVE HeardInv'
  BY <1>3, HeardFrame DEF Signals, outcomeVars
<1>4. CASE UserPersisted
  BY <1>4, UserPersistedHeard
<1>5. CASE AgentPersisted
  BY <1>5, RecordedSame DEF AgentPersisted, HeardInv, Accounted, BufRecorded, Spoken, outcomeVars,
     Where, Committing
<1>6. CASE StatePersisted
  <2>1. heard \subseteq Recorded \/ emitted
    BY <1>6 DEF StatePersisted, HeardInv, Accounted, BufRecorded
  <2>2. /\ emitted => emitted'
        /\ Recorded' = Recorded /\ buf' = {} /\ heard' = heard
    <3>1. CASE action = "continue"
      BY <1>6, <3>1, RecordedSame DEF StatePersisted
    <3>2. CASE action = "end"
      BY <1>6, <3>2, RecordedSame DEF StatePersisted, Finishes, Emits
    <3>3. CASE action = "transfer"
      BY <1>6, <3>3, RecordedSame DEF StatePersisted
    <3>. QED BY <3>1, <3>2, <3>3 DEF TypeOK, Actions
  <2>. QED BY <2>1, <2>2 DEF HeardInv, Accounted, BufRecorded
<1>7. CASE Connect \/ ConnectFails
  BY <1>7, RecordedSame DEF Connect, ConnectFails, HeardInv, Accounted, BufRecorded, Spoken,
     outcomeVars, Where, Turning, Committing
<1>8. CASE Salvage
  <2>1. CASE Salvageable
    BY <1>8, <2>1, CommitHeard DEF Salvage, Salvageable, Terminal, Turning, outcomeVars
  <2>2. CASE ~Salvageable
    BY <1>8, <2>2, RecordedSame DEF Salvage, Salvageable, Terminal, HeardInv, Accounted,
       BufRecorded,
       Spoken, outcomeVars
  <2>. QED BY <2>1, <2>2
<1>9. CASE HandleHangup
  BY <1>9 DEF HandleHangup, OutcomeInv, outcomeVars, HeardInv
<1>10. CASE HangUp \/ FallsSilent \/ UpstreamDrops \/ SessionClosed \/ Registers \/ HoldTimesOut
           \/ StreamEnds \/ Analysed \/ LoopEnds \/ StartFrame \/ WatchdogWakes
           \/ \E r \in {"success", "failure"} : PostResult(r)
  BY <1>10, HeardFrame DEF HangUp, FallsSilent, UpstreamDrops, SessionClosed, Registers,
     HoldTimesOut,
     StreamEnds, Analysed, LoopEnds, StartFrame, WatchdogWakes, PostResult, turnVars, outcomeVars,
     Committing
<1>11. CASE HoldResolved \/ ApologyPlayed \/ EmitOutcome \/ Delivered \/ TaskCancelled
  <2>1. UNCHANGED <<agent, turn, buf, turns, heard>> /\ (emitted => emitted')
    BY <1>11 DEF HoldResolved, ApologyPlayed, EmitOutcome, Delivered, TaskCancelled, TakesResult,
       Finishes, Emits, turnVars, outcomeVars
  <2>2. (pc' \in Committing => pc' = pc) /\ (drive' = "outcome" => drive = "outcome" \/ emitted')
    BY <1>11 DEF HoldResolved, ApologyPlayed, EmitOutcome, Delivered, TaskCancelled, TakesResult,
       Finishes, Emits, Returns, NextStep, Committing, Where, OutcomeInv, Computing, TypeOK
  <2>. QED BY <2>1, <2>2, HeardFrame DEF HeardInv
<1>12. CASE CloseSession
  BY <1>12, HeardFrame DEF CloseSession, AfterClose, turnVars, outcomeVars, Committing
<1>13. CASE UNCHANGED vars
  BY <1>13, HeardFrame DEF vars, Committing
<1>. QED
  BY <1>1, <1>2, <1>3, <1>4, <1>5, <1>6, <1>7, <1>8, <1>9, <1>10, <1>11, <1>12, <1>13
     DEF Next, Environment, Coroutine, Drive

-----------------------------------------------------------------------------
(* The inductive invariant. *)

LEMMA BridgeInvInit == Init => BridgeInv
<1>. SUFFICES ASSUME Init PROVE BridgeInv
  OBVIOUS
<1>1. TypeOK
  <2>1. <<>> \in Seq(Said) /\ 1 \in 1 .. MaxTurns + 1
    BY TurnsAssumption
  <2>2. PlacesOK /\ FlagsOK /\ TextOK
    BY <2>1 DEF Init, PlacesOK, FlagsOK, TextOK, Actions
  <2>. QED BY <2>2, TypeSplit
<1>2. Where /\ Turning /\ HoldInv /\ OutcomeInv
  BY DEF Init, Where, Turning, HoldInv, OutcomeInv, Holding, Committing, Computing
<1>3. HeardInv
  BY DEF Init, HeardInv, Accounted, BufRecorded
<1>. QED BY <1>1, <1>2, <1>3 DEF BridgeInv

(* The inductive invariant holds in every reachable state of a call. *)
THEOREM BridgeInvariant == Spec => []BridgeInv
<1>1. BridgeInv /\ [Next]_vars => BridgeInv'
  BY TypeKept, WhereKept, TurningKept, HoldInvKept, OutcomeInvKept, HeardKept DEF BridgeInv
<1>. QED BY BridgeInvInit, <1>1, PTL DEF Spec

(* Type correctness. *)
THEOREM TypeCorrect == Spec => []TypeOK
<1>1. BridgeInv => TypeOK
  BY DEF BridgeInv
<1>. QED BY <1>1, BridgeInvariant, PTL

(* A call torn down with a known SID has its outcome delivered, unless the teardown cut
   the events task while it computed it: api/live_bridge_base.py, _drive. *)
THEOREM OutcomeUnlessCutHolds == Spec => []OutcomeUnlessCut
<1>1. BridgeInv => OutcomeUnlessCut
  BY DEF BridgeInv, Where, OutcomeInv, OutcomeUnlessCut, Computing, TypeOK
<1>. QED BY <1>1, BridgeInvariant, PTL

(* No caller is told that nobody is available after the coordination service's "success"
   was accepted: api/telephony_live_bridge.py, _on_transfer_hold. *)
THEOREM NoApologyAfterSuccessHolds == Spec => []NoApologyAfterSuccess
<1>1. BridgeInv => NoApologyAfterSuccess
  BY DEF BridgeInv, HoldInv, NoApologyAfterSuccess
<1>. QED BY <1>1, BridgeInvariant, PTL

(* When the outcome's analysis starts, everything that was heard is in the transcript. *)
THEOREM WholeCallAnalysedHolds == Spec => WholeCallAnalysed
<1>1. BridgeInv /\ [Next]_vars => [~emitted /\ emitted' => heard \subseteq Recorded]_vars
  <2>. SUFFICES ASSUME BridgeInv, [Next]_vars, ~emitted, emitted' PROVE heard \subseteq Recorded
    OBVIOUS
  <2>1. \/ StatePersisted \/ drive = "outcome"
        \/ pc \in Holding
    <3>1. \/ StatePersisted \/ HoldResolved \/ ApologyPlayed \/ EmitOutcome \/ TaskCancelled
      BY DEF Next, Environment, Coroutine, Drive, vars, HangUp, FallsSilent, UpstreamDrops,
         TurnComplete, Hears,
         Signals, PostResult, UserPersisted, AgentPersisted, Analysed, Delivered, SessionClosed,
         Registers, HoldTimesOut, StreamEnds, Connect, ConnectFails, LoopEnds, CloseSession,
         Salvage,
         HandleHangup, WatchdogWakes, StartFrame, outcomeVars
    <3>. QED BY <3>1 DEF HoldResolved, ApologyPlayed, EmitOutcome, TaskCancelled, Holding
  <2>2. CASE StatePersisted
    BY <2>2 DEF StatePersisted, BridgeInv, HeardInv, Accounted, BufRecorded
  <2>3. CASE drive = "outcome"
    BY <2>3 DEF BridgeInv, HeardInv
  <2>4. CASE pc \in Holding
    BY <2>4 DEF BridgeInv, Turning, HeardInv, Accounted
  <2>. QED BY <2>1, <2>2, <2>3, <2>4
<1>. QED BY <1>1, BridgeInvariant, PTL DEF Spec, WholeCallAnalysed

(* Only its own end or the caller ends a hold: not the watchdog, not a caller's frame. *)
THEOREM HoldKeptHolds == Spec => HoldKept
<1>1. BridgeInv /\ [Next]_vars
        => [OnHold /\ ~stopped /\ stopped' => caller = "gone" \/ pc' # pc]_vars
  <2>. SUFFICES ASSUME BridgeInv, [Next]_vars, OnHold, ~stopped, stopped', pc' = pc
                PROVE  caller = "gone"
    OBVIOUS
  <2>1. \/ StreamEnds \/ LoopEnds \/ WatchdogWakes \/ StatePersisted \/ HoldResolved \/ ApologyPlayed
        \/ TaskCancelled
    BY DEF Next, Environment, Coroutine, Drive, vars, HangUp, FallsSilent, UpstreamDrops,
       TurnComplete, Hears,
       Signals, PostResult, UserPersisted, AgentPersisted, Analysed, Delivered, SessionClosed,
       Registers, HoldTimesOut, Connect, ConnectFails, CloseSession, Salvage, EmitOutcome,
       HandleHangup, StartFrame
  <2>2. ~StreamEnds /\ ~WatchdogWakes /\ ~StatePersisted /\ ~ApologyPlayed
    BY DEF OnHold, StreamEnds, Awaits, WatchdogWakes, Hangs, StatePersisted, ApologyPlayed
  <2>3. ~HoldResolved /\ ~TaskCancelled
    BY DEF OnHold, HoldResolved, TaskCancelled, TakesResult, Finishes, Emits, Returns
  <2>. QED BY <2>1, <2>2, <2>3 DEF LoopEnds, OnHold
<1>. QED BY <1>1, BridgeInvariant, PTL DEF Spec, HoldKept

-----------------------------------------------------------------------------
(* VoiceTurn. *)

(* The worker is over when there is nothing to say, works at something, and not once
   speech failed too often. *)
Generates == llm \in {"stt", "first", "streaming"}
WorkerFits ==
    /\ worker = "over" => speech = <<>> /\ llm \notin {"first", "streaming"}
    /\ worker \in {"synthesizing", "sending"} => speech # <<>> /\ failures < MaxFailures
    /\ failures = MaxFailures => cancelled \/ EngineOver

(* The engine runs for a turn that awaits it, or after the call. *)
Quiet == turnAt # "engine" /\ run # "over" => EngineOver
OverIsOver == run = "over" => machine = "ended" /\ turnAt = "none" /\ ~consumer

(* The agent's state machine agrees with where the turn is. *)
MachineFits ==
    /\ turnAt \in {"none", "created", "starting"} => machine \in {"listening", "ended"}
    /\ turnAt \in {"engine", "result"} => machine = "processing"
    /\ turnAt = "responding" => machine = "responding" /\ (result.ends => ~result.cancelled)
BatchFits ==
    /\ BatchInFlight => run = "dispatching"
    /\ turnAt \in {"created", "starting"} => ~batch

(* An agent that has ended takes no more turns: the call is closing. *)
EndedCloses ==
    machine = "ended" => run \in {"wrapping", "closing", "over"} \/ halted \/ tail = "done"

(* As long as no turn of the stream met the batch path, the stream is open under its
   turns, and a turn that is on its way finds the agent listening. *)
OnePath ==
    ~bothPaths =>
        /\ TaskInFlight => streaming
        /\ turnAt \in {"created", "starting"} => run = "listening" /\ machine = "listening"

PathsInv ==
    Quiet /\ OverIsOver /\ MachineFits /\ BatchFits /\ EndedCloses /\ OnePath
        /\ TurnsCollideOnFallback

(* What was spoken and what is to be are one reply, in order. *)
Follows(m, n) == m # Safe /\ (m < n \/ n = Safe)
SpeechOrdered == \A i, j \in 1..Len(speech) : i < j => Follows(speech[i], speech[j])
SpokenFirst == \A i \in 1..Len(spoken), j \in 1..Len(speech) : Follows(spoken[i], speech[j])
Within(s) == \A i \in 1..Len(s) : s[i] <= said /\ (s[i] = Safe => tripped)
SaidSoFar ==
    /\ Len(spoken) + Len(speech) <= MaxSentences
    /\ Generates => Within(spoken) /\ Within(speech) /\ Len(spoken) + Len(speech) <= said

ReplyInv == InOrder /\ SpeechOrdered /\ SpokenFirst /\ SaidSoFar

VoiceInv == TurnTypeOK /\ WorkerFits /\ PathsInv /\ ReplyInv
-----------------------------------------------------------------------------
(* The type invariant, a flag, a place and a value at a time. *)
FlagTypes ==
    /\ streaming \in BOOLEAN
    /\ consumer \in BOOLEAN
    /\ halted \in BOOLEAN
    /\ busy \in BOOLEAN
    /\ armed \in BOOLEAN
    /\ hadTurn \in BOOLEAN
    /\ playing \in BOOLEAN
    /\ browserGone \in BOOLEAN
    /\ batch \in BOOLEAN
    /\ cancelled \in BOOLEAN
    /\ retried \in BOOLEAN
    /\ tripped \in BOOLEAN
    /\ collided \in BOOLEAN
    /\ bothPaths \in BOOLEAN
PlaceTypes ==
    /\ run \in {"listening", "dispatching", "wrapping", "closing", "over"}
    /\ tail \in {"none", "cancelled", "done", "closing"}
    /\ turnAt \in {"none", "created", "starting", "engine", "result", "responding"}
    /\ machine \in {"listening", "processing", "responding", "ended"}
    /\ cap \in {"running", "grace", "forced"}
    /\ llm \in {"stt", "unheard", "first", "streaming", "done", "raised"}
    /\ worker \in {"idle", "synthesizing", "sending", "over"}
CountTypes ==
    /\ said \in 0 .. MaxSentences /\ failures \in 0 .. MaxFailures
    /\ utterances \in 0 .. MaxUtterances
ReplyTypes ==
    /\ speech \in Seq(0 .. MaxSentences) /\ spoken \in Seq(0 .. MaxSentences)
    /\ Len(spoken) <= MaxSentences
ResultTypes == result \in [DOMAIN NoResult -> BOOLEAN]

LEMMA TypesApart ==
    TurnTypeOK <=> FlagTypes /\ PlaceTypes /\ CountTypes /\ ReplyTypes /\ ResultTypes
BY DEF TurnTypeOK, FlagTypes, PlaceTypes, CountTypes, ReplyTypes, ResultTypes

LEMMA FieldsTyped ==
    ASSUME NEW S, NEW a \in S, NEW b \in S, NEW c \in S, NEW d \in S, NEW e \in S
    PROVE  [cancelled |-> a, raised |-> b, heard |-> c, parsed |-> d, ends |-> e]
               \in [DOMAIN NoResult -> S]
<1>1. DOMAIN NoResult = {"cancelled", "raised", "heard", "parsed", "ends"}
  BY DEF NoResult
<1>. QED BY <1>1

LEMMA ResultsAre ==
    \A a, b, c, d, e \in BOOLEAN :
        [cancelled |-> a, raised |-> b, heard |-> c, parsed |-> d, ends |-> e]
            \in [DOMAIN NoResult -> BOOLEAN]
BY FieldsTyped

LEMMA NoResultTyped == NoResult \in [DOMAIN NoResult -> BOOLEAN]
<1>1. FALSE \in BOOLEAN OBVIOUS
<1>. QED BY <1>1, ResultsAre DEF NoResult

LEMMA NothingSaid ==
    <<>> \in Seq(0 .. MaxSentences) /\ Len(<<>>) = 0 /\ 0 <= MaxSentences
BY EmptySeq, TurnConstants

LEMMA OfSpeech ==
    ASSUME TurnTypeOK
    PROVE  /\ \A i \in 1..Len(speech) : speech[i] \in 0 .. MaxSentences
           /\ \A i \in 1..Len(spoken) : spoken[i] \in 0 .. MaxSentences
           /\ speech # <<>> =>
                /\ Head(speech) \in 0 .. MaxSentences
                /\ Tail(speech) \in Seq(0 .. MaxSentences)
<1>1. speech \in Seq(0 .. MaxSentences) /\ spoken \in Seq(0 .. MaxSentences)
  BY DEF TurnTypeOK
<1>. QED BY <1>1, ElementOfSeq, HeadTailProperties

(* Steps of the reply: it is left alone, silenced, begun afresh, extended by the model,
   shortened by the worker, sent. *)
LEMMA ReplyStays ==
    ASSUME ReplyInv, UNCHANGED <<speech, spoken>>, Generates' => Generates /\ UNCHANGED <<said, tripped>>
    PROVE  ReplyInv'
<1>. USE DEF ReplyInv
<1>1. InOrder' /\ SpeechOrdered' /\ SpokenFirst'
  BY DEF InOrder, SpeechOrdered, SpokenFirst
<1>2. SaidSoFar'
  BY DEF SaidSoFar, Within
<1>. QED BY <1>1, <1>2

LEMMA ReplySilenced ==
    ASSUME TurnTypeOK, ReplyInv, speech' = <<>>, spoken' = spoken \/ spoken' = <<>>, ~Generates'
    PROVE  ReplyInv'
<1>. USE TurnConstants DEF ReplyInv, TurnTypeOK
<1>1. InOrder' BY DEF InOrder
<1>2. SpeechOrdered' /\ SpokenFirst'
  BY DEF SpeechOrdered, SpokenFirst
<1>3. SaidSoFar'
  BY DEF SaidSoFar
<1>. QED BY <1>1, <1>2, <1>3

LEMMA ReplyAfresh ==
    ASSUME speech' = <<>>, spoken' = <<>>, said' = 0
    PROVE  ReplyInv'
<1>. USE TurnConstants DEF ReplyInv
<1>1. InOrder' BY DEF InOrder
<1>2. SpeechOrdered' /\ SpokenFirst'
  BY DEF SpeechOrdered, SpokenFirst
<1>3. SaidSoFar'
  BY DEF SaidSoFar, Within
<1>. QED BY <1>1, <1>2, <1>3

LEMMA ReplyDrops ==
    ASSUME TurnTypeOK, ReplyInv, speech # <<>>, speech' = Tail(speech),
           UNCHANGED <<llm, said, tripped, spoken>>
    PROVE  ReplyInv'
<1>. USE TurnConstants DEF ReplyInv, TurnTypeOK
<1>1. /\ Len(speech') = Len(speech) - 1
      /\ \A i \in 1..Len(speech') : i + 1 \in 1..Len(speech) /\ speech'[i] = speech[i + 1]
  OBVIOUS
<1>2. InOrder' BY DEF InOrder
<1>3. SpeechOrdered'
  BY <1>1 DEF SpeechOrdered
<1>4. SpokenFirst' BY <1>1 DEF SpokenFirst
<1>5. SaidSoFar'
  <2>1. Generates' => Within(speech)
    BY DEF SaidSoFar, Generates
  <2>2. Generates' => Within(speech)'
    BY <1>1, <2>1 DEF Within
  <2>3. Generates' => Within(spoken)'
    BY DEF SaidSoFar, Generates, Within
  <2>4. /\ Len(spoken') + Len(speech') <= MaxSentences
        /\ Generates' => Len(spoken') + Len(speech') <= said'
    BY <1>1 DEF SaidSoFar, Generates
  <2>. QED BY <2>2, <2>3, <2>4 DEF SaidSoFar
<1>. QED BY <1>2, <1>3, <1>4, <1>5

LEMMA ReplySends ==
    ASSUME TurnTypeOK, ReplyInv, speech # <<>>, speech' = Tail(speech),
           spoken' = Append(spoken, Head(speech)), UNCHANGED <<llm, said, tripped>>
    PROVE  ReplyInv' /\ Len(spoken') <= MaxSentences
<1>. USE TurnConstants DEF ReplyInv, TurnTypeOK
<1>1. /\ Len(speech') = Len(speech) - 1
      /\ \A i \in 1..Len(speech') : i + 1 \in 1..Len(speech) /\ speech'[i] = speech[i + 1]
  OBVIOUS
<1>2. /\ Len(spoken') = Len(spoken) + 1 /\ DOMAIN spoken' = 1..Len(spoken')
      /\ \A i \in 1..Len(spoken) : spoken'[i] = spoken[i]
      /\ spoken'[Len(spoken')] = speech[1] /\ 1 \in 1..Len(speech)
  OBVIOUS
<1>. HIDE DEF TurnTypeOK
<1>3. Len(spoken) \in Nat /\ Len(speech) \in Nat
  BY DEF TurnTypeOK
<1>4. InOrder'
  BY <1>2, <1>3 DEF InOrder, SpokenFirst, Follows, TurnTypeOK
<1>5. SpeechOrdered'
  BY <1>1, <1>3 DEF SpeechOrdered
<1>6. SpokenFirst'
  BY <1>1, <1>2, <1>3 DEF SpokenFirst, SpeechOrdered
<1>7. SaidSoFar'
  <2>1. Generates' => Within(speech) /\ Within(spoken)
    BY DEF SaidSoFar, Generates
  <2>2. Generates' => Within(speech)'
    BY <1>1, <2>1 DEF Within
  <2>3. Generates' => Within(spoken)'
    BY <1>2, <1>3, <2>1 DEF Within
  <2>4. /\ Len(spoken') + Len(speech') <= MaxSentences
        /\ Generates' => Len(spoken') + Len(speech') <= said'
    BY <1>1, <1>2, <1>3 DEF SaidSoFar, Generates
  <2>. QED BY <2>2, <2>3, <2>4 DEF SaidSoFar
<1>8. Len(spoken') <= MaxSentences
  BY <1>1, <1>2, <1>3 DEF SaidSoFar
<1>. QED BY <1>4, <1>5, <1>6, <1>7, <1>8

LEMMA ReplyGrows ==
    ASSUME TurnTypeOK, ReplyInv, Generates, said < MaxSentences, EmitSentence(said + 1),
           UNCHANGED spoken
    PROVE  ReplyInv' /\ speech' \in Seq(0 .. MaxSentences)
<1>. USE TurnConstants
<1>0. /\ Len(spoken) \in Nat /\ Len(speech) \in Nat /\ said \in Nat
      /\ speech \in Seq(0 .. MaxSentences) /\ spoken \in Seq(0 .. MaxSentences)
      /\ InOrder /\ SpeechOrdered /\ SpokenFirst /\ Within(spoken) /\ Within(speech)
      /\ Len(spoken) + Len(speech) <= said
      /\ said' = said + 1
  BY DEF ReplyInv, SaidSoFar, TurnTypeOK, EmitSentence
<1>1. CASE UNCHANGED <<speech, tripped>>
  <2>1. InOrder' /\ SpeechOrdered' /\ SpokenFirst'
    BY <1>0, <1>1 DEF InOrder, SpeechOrdered, SpokenFirst
  <2>2. Within(spoken)' /\ Within(speech)'
    BY <1>0, <1>1 DEF Within
  <2>3. SaidSoFar'
    BY <1>0, <1>1, <2>2 DEF SaidSoFar
  <2>. QED BY <1>0, <1>1, <2>1, <2>3 DEF ReplyInv
<1>2. ASSUME ~tripped, NEW n \in {said + 1, Safe}, speech' = Append(speech, n),
             n = Safe => tripped', tripped => tripped'
      PROVE  ReplyInv' /\ speech' \in Seq(0 .. MaxSentences)
  <2>1. n \in 0 .. MaxSentences
    BY <1>0 DEF Safe
  <2>2. /\ Len(speech') = Len(speech) + 1 /\ speech' \in Seq(0 .. MaxSentences)
        /\ \A i \in 1..Len(speech) : speech'[i] = speech[i]
        /\ speech'[Len(speech')] = n
    BY <1>0, <1>2, <2>1
  <2>3. InOrder' BY <1>0 DEF InOrder
  <2>4. /\ \A i \in 1..Len(speech) : Follows(speech[i], n)
        /\ \A i \in 1..Len(spoken) : Follows(spoken[i], n)
    <3>1. \A i \in 1..Len(speech) : speech[i] <= said /\ speech[i] # Safe
      BY <1>0, <1>2 DEF Within
    <3>2. \A i \in 1..Len(spoken) : spoken[i] <= said /\ spoken[i] # Safe
      BY <1>0, <1>2 DEF Within
    <3>3. \A m \in 0 .. MaxSentences : m <= said /\ m # Safe => Follows(m, n)
      BY <1>0, <1>2 DEF Follows
    <3>. QED BY <3>1, <3>2, <3>3, OfSpeech
  <2>. DEFINE k == Len(speech)
              q == Len(spoken)
              longer == speech'
  <2>a. /\ k \in Nat /\ q \in Nat /\ Len(longer) = k + 1
        /\ \A i \in 1..k : longer[i] = speech[i]
        /\ longer[k + 1] = n
        /\ \A i \in 1..k : Follows(speech[i], n)
        /\ \A i \in 1..q : Follows(spoken[i], n)
        /\ \A i, j \in 1..k : i < j => Follows(speech[i], speech[j])
        /\ \A i \in 1..q, j \in 1..k : Follows(spoken[i], speech[j])
    BY <1>0, <2>2, <2>4 DEF SpeechOrdered, SpokenFirst
  <2>b. /\ SpeechOrdered' <=> \A i, j \in 1..Len(longer) : i < j => Follows(longer[i], longer[j])
        /\ SpokenFirst' <=> \A i \in 1..q, j \in 1..Len(longer) : Follows(spoken[i], longer[j])
    BY <1>0 DEF SpeechOrdered, SpokenFirst, Follows
  <2>. HIDE DEF k, q, longer
  <2>5. SpeechOrdered'
    <3>1. ASSUME NEW i \in 1..(k + 1), NEW j \in 1..(k + 1), i < j
          PROVE  Follows(longer[i], longer[j])
      <4>1. i \in 1..k /\ (j \in 1..k \/ j = k + 1)
        BY <2>a, <3>1
      <4>. QED BY <2>a, <3>1, <4>1
    <3>. QED BY <2>a, <2>b, <3>1
  <2>6. SpokenFirst'
    <3>1. ASSUME NEW i \in 1..q, NEW j \in 1..(k + 1)
          PROVE  Follows(spoken[i], longer[j])
      <4>1. j \in 1..k \/ j = k + 1
        BY <2>a
      <4>. QED BY <2>a, <4>1
    <3>. QED BY <2>a, <2>b, <3>1
  <2>7. Within(spoken)'
    <3>1. \A i \in 1..Len(spoken) : spoken[i] \in 0 .. MaxSentences
      BY OfSpeech
    <3>. QED BY <1>0, <1>2, <3>1 DEF Within
  <2>8. Within(speech)'
    <3>1. \A i \in 1..Len(speech) : speech[i] \in 0 .. MaxSentences
      BY OfSpeech
    <3>. QED BY <1>0, <1>2, <2>2, <3>1 DEF Within, Safe
  <2>9. SaidSoFar'
    BY <1>0, <2>2, <2>7, <2>8 DEF SaidSoFar, TurnTypeOK
  <2>. QED BY <2>2, <2>3, <2>5, <2>6, <2>9 DEF ReplyInv
<1>3. CASE ~tripped /\ speech' = Append(speech, said + 1) /\ UNCHANGED tripped
  <2>1. said + 1 # Safe
    BY <1>0 DEF Safe
  <2>. QED BY <1>2, <1>3, <2>1
<1>4. CASE ~tripped /\ speech' = Append(speech, Safe) /\ tripped' = TRUE
  BY <1>2, <1>4
<1>. QED BY <1>1, <1>3, <1>4 DEF EmitSentence

LEMMA MaybeGrows ==
    ASSUME TurnTypeOK, ReplyInv, Generates, MaybeEmit, UNCHANGED spoken
    PROVE  ReplyInv' /\ speech' \in Seq(0 .. MaxSentences)
<1>1. CASE UNCHANGED <<said, speech, tripped>>
  <2>1. ReplyInv' BY <1>1, ReplyStays
  <2>. QED BY <1>1, <2>1 DEF TurnTypeOK
<1>. QED BY <1>1, ReplyGrows DEF MaybeEmit

LEMMA FlagsTyped == TurnTypeOK /\ [TurnNext]_voiceTurnVars => FlagTypes'
<1>. SUFFICES ASSUME TurnTypeOK, [TurnNext]_voiceTurnVars PROVE FlagTypes'
  OBVIOUS
<1>. USE TurnConstants
     DEF bridgeVars, sessionVars, agentVars, engineVars, turnGhosts, TurnTypeOK, FlagTypes
<1>1. CASE Transcribes
  BY <1>1 DEF Transcribes, OnlyEngine
<1>2. CASE LlmSpeaks
  BY <1>2 DEF LlmSpeaks, OnlyEngine, MaybeEmit, EmitSentence
<1>3. CASE NoFirstToken
  BY <1>3 DEF NoFirstToken, OnlyEngine
<1>4. CASE LlmEnds
  BY <1>4 DEF LlmEnds, OnlyEngine, MaybeEmit, EmitSentence
<1>5. CASE WorkerTakes
  BY <1>5 DEF WorkerTakes, OnlyEngine, Taken
<1>6. CASE WorkerSynthesized
  BY <1>6 DEF WorkerSynthesized, OnlyEngine, SendsUnlessCancelled, Taken
<1>7. CASE WorkerFails
  BY <1>7 DEF WorkerFails, OnlyEngine, Taken
<1>8. CASE WorkerSent
  BY <1>8 DEF WorkerSent, Taken
<1>9. CASE WorkerEnds
  BY <1>9 DEF WorkerEnds, OnlyEngine
<1>10. CASE CapExpires
  BY <1>10 DEF CapExpires
<1>11. CASE GraceExpires
  BY <1>11 DEF GraceExpires, CutsShort
<1>12. CASE EngineReturns
  BY <1>12 DEF EngineReturns, Finished
<1>13. CASE Abandons
  BY <1>13 DEF Abandons, HandsBack
<1>14. CASE Retries
  BY <1>14 DEF Retries, Unusable, EngineStarts
<1>15. CASE FinishesTurn
  BY <1>15 DEF FinishesTurn, Ends, Unusable
<1>16. CASE Delivers
  BY <1>16 DEF Delivers, HandsBack
<1>17. CASE EndpointArrives
  BY <1>17 DEF EndpointArrives, MayDispatch
<1>18. CASE BargesIn
  BY <1>18 DEF BargesIn
<1>19. CASE StreamReopens
  BY <1>19 DEF StreamReopens
<1>20. CASE StreamGone
  BY <1>20 DEF StreamGone, GivesUpStream
<1>21. CASE SendFails
  BY <1>21 DEF SendFails, GivesUpStream
<1>22. CASE BatchUtterance
  BY <1>22 DEF BatchUtterance, EngineStarts, TearsDown
<1>23. CASE VoiceLoopEnds
  BY <1>23 DEF VoiceLoopEnds, TearsDown
<1>24. CASE HeartbeatFails
  BY <1>24 DEF HeartbeatFails
<1>25. CASE BrowserLeaves
  BY <1>25 DEF BrowserLeaves
<1>26. CASE PlaybackEnds
  BY <1>26 DEF PlaybackEnds
<1>27. CASE TaskStarts
  BY <1>27 DEF TaskStarts
<1>28. CASE HandsToAgent
  BY <1>28 DEF HandsToAgent, EngineStarts
<1>29. CASE TailGoes
  BY <1>29 DEF TailGoes, Frees
<1>30. CASE BatchWraps
  BY <1>30 DEF BatchWraps
<1>31. CASE BatchCloses
  BY <1>31 DEF BatchCloses, TearsDown
<1>32. CASE UNCHANGED voiceTurnVars
  BY <1>32 DEF voiceTurnVars
<1>. QED BY <1>1, <1>2, <1>3, <1>4, <1>5, <1>6, <1>7, <1>8, <1>9, <1>10, <1>11, <1>12, <1>13,
           <1>14, <1>15, <1>16, <1>17, <1>18, <1>19, <1>20, <1>21, <1>22, <1>23, <1>24, <1>25,
           <1>26, <1>27, <1>28, <1>29, <1>30, <1>31, <1>32
         DEF TurnNext, WorkerGoes, AgentGoes, BridgeGoes

LEMMA PlacesTyped == TurnTypeOK /\ [TurnNext]_voiceTurnVars => PlaceTypes'
<1>. SUFFICES ASSUME TurnTypeOK, [TurnNext]_voiceTurnVars PROVE PlaceTypes'
  OBVIOUS
<1>. USE TurnConstants
     DEF bridgeVars, sessionVars, agentVars, engineVars, turnGhosts, TurnTypeOK, PlaceTypes
<1>1. CASE Transcribes
  BY <1>1 DEF Transcribes, OnlyEngine
<1>2. CASE LlmSpeaks
  BY <1>2 DEF LlmSpeaks, OnlyEngine, MaybeEmit, EmitSentence
<1>3. CASE NoFirstToken
  BY <1>3 DEF NoFirstToken, OnlyEngine
<1>4. CASE LlmEnds
  BY <1>4 DEF LlmEnds, OnlyEngine, MaybeEmit, EmitSentence
<1>5. CASE WorkerTakes
  BY <1>5 DEF WorkerTakes, OnlyEngine, Taken
<1>6. CASE WorkerSynthesized
  BY <1>6 DEF WorkerSynthesized, OnlyEngine, SendsUnlessCancelled, Taken
<1>7. CASE WorkerFails
  BY <1>7 DEF WorkerFails, OnlyEngine, Taken
<1>8. CASE WorkerSent
  BY <1>8 DEF WorkerSent, Taken
<1>9. CASE WorkerEnds
  BY <1>9 DEF WorkerEnds, OnlyEngine
<1>10. CASE CapExpires
  BY <1>10 DEF CapExpires
<1>11. CASE GraceExpires
  BY <1>11 DEF GraceExpires, CutsShort
<1>12. CASE EngineReturns
  BY <1>12 DEF EngineReturns, Finished
<1>13. CASE Abandons
  BY <1>13 DEF Abandons, HandsBack
<1>14. CASE Retries
  BY <1>14 DEF Retries, Unusable, EngineStarts
<1>15. CASE FinishesTurn
  BY <1>15 DEF FinishesTurn, Ends, Unusable
<1>16. CASE Delivers
  BY <1>16 DEF Delivers, HandsBack
<1>17. CASE EndpointArrives
  BY <1>17 DEF EndpointArrives, MayDispatch
<1>18. CASE BargesIn
  BY <1>18 DEF BargesIn
<1>19. CASE StreamReopens
  BY <1>19 DEF StreamReopens
<1>20. CASE StreamGone
  BY <1>20 DEF StreamGone, GivesUpStream
<1>21. CASE SendFails
  BY <1>21 DEF SendFails, GivesUpStream
<1>22. CASE BatchUtterance
  BY <1>22 DEF BatchUtterance, EngineStarts, TearsDown
<1>23. CASE VoiceLoopEnds
  BY <1>23 DEF VoiceLoopEnds, TearsDown
<1>24. CASE HeartbeatFails
  BY <1>24 DEF HeartbeatFails
<1>25. CASE BrowserLeaves
  BY <1>25 DEF BrowserLeaves
<1>26. CASE PlaybackEnds
  BY <1>26 DEF PlaybackEnds
<1>27. CASE TaskStarts
  BY <1>27 DEF TaskStarts
<1>28. CASE HandsToAgent
  BY <1>28 DEF HandsToAgent, EngineStarts
<1>29. CASE TailGoes
  BY <1>29 DEF TailGoes, Frees
<1>30. CASE BatchWraps
  BY <1>30 DEF BatchWraps
<1>31. CASE BatchCloses
  BY <1>31 DEF BatchCloses, TearsDown
<1>32. CASE UNCHANGED voiceTurnVars
  BY <1>32 DEF voiceTurnVars
<1>. QED BY <1>1, <1>2, <1>3, <1>4, <1>5, <1>6, <1>7, <1>8, <1>9, <1>10, <1>11, <1>12, <1>13,
           <1>14, <1>15, <1>16, <1>17, <1>18, <1>19, <1>20, <1>21, <1>22, <1>23, <1>24, <1>25,
           <1>26, <1>27, <1>28, <1>29, <1>30, <1>31, <1>32
         DEF TurnNext, WorkerGoes, AgentGoes, BridgeGoes

LEMMA CountsTyped == TurnTypeOK /\ WorkerFits /\ [TurnNext]_voiceTurnVars => CountTypes'
<1>. SUFFICES ASSUME TurnTypeOK /\ WorkerFits, [TurnNext]_voiceTurnVars PROVE CountTypes'
  OBVIOUS
<1>. USE TurnConstants
     DEF bridgeVars, sessionVars, agentVars, engineVars, turnGhosts, TurnTypeOK, CountTypes,
        WorkerFits
<1>1. CASE Transcribes
  BY <1>1 DEF Transcribes, OnlyEngine
<1>2. CASE LlmSpeaks
  BY <1>2 DEF LlmSpeaks, OnlyEngine, MaybeEmit, EmitSentence
<1>3. CASE NoFirstToken
  BY <1>3 DEF NoFirstToken, OnlyEngine
<1>4. CASE LlmEnds
  BY <1>4 DEF LlmEnds, OnlyEngine, MaybeEmit, EmitSentence
<1>5. CASE WorkerTakes
  BY <1>5 DEF WorkerTakes, OnlyEngine, Taken
<1>6. CASE WorkerSynthesized
  BY <1>6 DEF WorkerSynthesized, OnlyEngine, SendsUnlessCancelled, Taken
<1>7. CASE WorkerFails
  BY <1>7 DEF WorkerFails, OnlyEngine, Taken
<1>8. CASE WorkerSent
  BY <1>8 DEF WorkerSent, Taken
<1>9. CASE WorkerEnds
  BY <1>9 DEF WorkerEnds, OnlyEngine
<1>10. CASE CapExpires
  BY <1>10 DEF CapExpires
<1>11. CASE GraceExpires
  BY <1>11 DEF GraceExpires, CutsShort
<1>12. CASE EngineReturns
  BY <1>12 DEF EngineReturns, Finished
<1>13. CASE Abandons
  BY <1>13 DEF Abandons, HandsBack
<1>14. CASE Retries
  BY <1>14 DEF Retries, Unusable, EngineStarts
<1>15. CASE FinishesTurn
  BY <1>15 DEF FinishesTurn, Ends, Unusable
<1>16. CASE Delivers
  BY <1>16 DEF Delivers, HandsBack
<1>17. CASE EndpointArrives
  BY <1>17 DEF EndpointArrives, MayDispatch
<1>18. CASE BargesIn
  BY <1>18 DEF BargesIn
<1>19. CASE StreamReopens
  BY <1>19 DEF StreamReopens
<1>20. CASE StreamGone
  BY <1>20 DEF StreamGone, GivesUpStream
<1>21. CASE SendFails
  BY <1>21 DEF SendFails, GivesUpStream
<1>22. CASE BatchUtterance
  BY <1>22 DEF BatchUtterance, EngineStarts, TearsDown
<1>23. CASE VoiceLoopEnds
  BY <1>23 DEF VoiceLoopEnds, TearsDown
<1>24. CASE HeartbeatFails
  BY <1>24 DEF HeartbeatFails
<1>25. CASE BrowserLeaves
  BY <1>25 DEF BrowserLeaves
<1>26. CASE PlaybackEnds
  BY <1>26 DEF PlaybackEnds
<1>27. CASE TaskStarts
  BY <1>27 DEF TaskStarts
<1>28. CASE HandsToAgent
  BY <1>28 DEF HandsToAgent, EngineStarts
<1>29. CASE TailGoes
  BY <1>29 DEF TailGoes, Frees
<1>30. CASE BatchWraps
  BY <1>30 DEF BatchWraps
<1>31. CASE BatchCloses
  BY <1>31 DEF BatchCloses, TearsDown
<1>32. CASE UNCHANGED voiceTurnVars
  BY <1>32 DEF voiceTurnVars
<1>. QED BY <1>1, <1>2, <1>3, <1>4, <1>5, <1>6, <1>7, <1>8, <1>9, <1>10, <1>11, <1>12, <1>13,
           <1>14, <1>15, <1>16, <1>17, <1>18, <1>19, <1>20, <1>21, <1>22, <1>23, <1>24, <1>25,
           <1>26, <1>27, <1>28, <1>29, <1>30, <1>31, <1>32
         DEF TurnNext, WorkerGoes, AgentGoes, BridgeGoes

LEMMA ReplyTyped == VoiceInv /\ [TurnNext]_voiceTurnVars => ReplyTypes'
<1>. SUFFICES ASSUME VoiceInv, [TurnNext]_voiceTurnVars PROVE ReplyTypes'
  OBVIOUS
<1>. USE TurnConstants
     DEF engineVars, VoiceInv, TurnTypeOK, ReplyTypes
<1>1. CASE Transcribes
  BY <1>1 DEF Transcribes, OnlyEngine
<1>2. CASE LlmSpeaks
  <2>1. Generates /\ UNCHANGED spoken /\ (MaybeEmit \/ UNCHANGED speech)
    BY <1>2 DEF LlmSpeaks, Generates
  <2>. QED BY <2>1, MaybeGrows DEF TurnTypeOK
<1>3. CASE NoFirstToken
  BY <1>3 DEF NoFirstToken, OnlyEngine
<1>4. CASE LlmEnds
  <2>1. Generates /\ UNCHANGED spoken /\ (MaybeEmit \/ UNCHANGED speech)
    BY <1>4 DEF LlmEnds, Generates
  <2>. QED BY <2>1, MaybeGrows DEF TurnTypeOK
<1>5. CASE WorkerTakes
  <2>1. speech # <<>> /\ (speech' = speech \/ speech' = Tail(speech))
    BY <1>5 DEF WorkerTakes, Taken, WorkerFits
  <2>2. speech' \in Seq(0 .. MaxSentences)
    BY <2>1, OfSpeech
  <2>. QED BY <1>5, <2>2 DEF WorkerTakes
<1>6. CASE WorkerSynthesized
  <2>1. speech # <<>> /\ (speech' = speech \/ speech' = Tail(speech))
    BY <1>6 DEF WorkerSynthesized, SendsUnlessCancelled, Taken, WorkerFits
  <2>2. speech' \in Seq(0 .. MaxSentences)
    BY <2>1, OfSpeech
  <2>. QED BY <1>6, <2>2 DEF WorkerSynthesized
<1>7. CASE WorkerFails
  <2>1. speech # <<>> /\ (speech' = speech \/ speech' = Tail(speech))
    BY <1>7 DEF WorkerFails, Taken, WorkerFits
  <2>2. speech' \in Seq(0 .. MaxSentences)
    BY <2>1, OfSpeech
  <2>. QED BY <1>7, <2>2 DEF WorkerFails
<1>8. CASE WorkerSent
  <2>1. speech # <<>> /\ (speech' = speech \/ speech' = Tail(speech))
    BY <1>8 DEF WorkerSent, Taken, WorkerFits
  <2>2. speech' \in Seq(0 .. MaxSentences)
    BY <2>1, OfSpeech
  <2>3. Head(speech) \in 0 .. MaxSentences
    BY <2>1, OfSpeech
  <2>4. spoken' \in Seq(0 .. MaxSentences)
    BY <1>8, <2>3 DEF WorkerSent
  <2>5. Len(spoken') <= MaxSentences
    <3>1. spoken' = Append(spoken, Head(speech)) /\ speech' = Tail(speech) /\ UNCHANGED <<llm, said, tripped>>
      BY <1>8 DEF WorkerSent, Taken
    <3>. QED BY <2>1, <3>1, ReplySends DEF VoiceInv
  <2>. QED BY <2>2, <2>4, <2>5
<1>9. CASE WorkerEnds
  BY <1>9 DEF WorkerEnds, OnlyEngine
<1>10. CASE CapExpires
  BY <1>10 DEF CapExpires
<1>11. CASE GraceExpires
  <2>1. UNCHANGED spoken /\ (speech' = speech \/ speech' = <<>>)
    BY <1>11 DEF GraceExpires, CutsShort
  <2>. QED BY <2>1, NothingSaid DEF TurnTypeOK, ReplyTypes
<1>12. CASE EngineReturns
  BY <1>12 DEF EngineReturns, Finished
<1>13. CASE Abandons
  <2>1. UNCHANGED speech /\ (spoken' = spoken \/ spoken' = <<>>)
    BY <1>13 DEF Abandons, HandsBack
  <2>. QED BY <2>1, NothingSaid DEF TurnTypeOK, ReplyTypes
<1>14. CASE Retries
  <2>1. UNCHANGED <<speech, spoken>> \/ (speech' = <<>> /\ spoken' = <<>>)
    BY <1>14 DEF Retries, EngineStarts
  <2>. QED BY <2>1, NothingSaid DEF TurnTypeOK, ReplyTypes
<1>15. CASE FinishesTurn
  BY <1>15 DEF FinishesTurn, Ends, Unusable
<1>16. CASE Delivers
  <2>1. UNCHANGED speech /\ (spoken' = spoken \/ spoken' = <<>>)
    BY <1>16 DEF Delivers, HandsBack
  <2>. QED BY <2>1, NothingSaid DEF TurnTypeOK, ReplyTypes
<1>17. CASE EndpointArrives
  BY <1>17 DEF EndpointArrives, MayDispatch
<1>18. CASE BargesIn
  BY <1>18 DEF BargesIn
<1>19. CASE StreamReopens
  BY <1>19 DEF StreamReopens
<1>20. CASE StreamGone
  BY <1>20 DEF StreamGone, GivesUpStream
<1>21. CASE SendFails
  BY <1>21 DEF SendFails, GivesUpStream
<1>22. CASE BatchUtterance
  <2>1. UNCHANGED <<speech, spoken>> \/ (speech' = <<>> /\ spoken' = <<>>)
    BY <1>22 DEF BatchUtterance, EngineStarts
  <2>. QED BY <2>1, NothingSaid DEF TurnTypeOK, ReplyTypes
<1>23. CASE VoiceLoopEnds
  BY <1>23 DEF VoiceLoopEnds, TearsDown
<1>24. CASE HeartbeatFails
  BY <1>24 DEF HeartbeatFails
<1>25. CASE BrowserLeaves
  BY <1>25 DEF BrowserLeaves
<1>26. CASE PlaybackEnds
  BY <1>26 DEF PlaybackEnds
<1>27. CASE TaskStarts
  BY <1>27 DEF TaskStarts
<1>28. CASE HandsToAgent
  <2>1. UNCHANGED <<speech, spoken>> \/ (speech' = <<>> /\ spoken' = <<>>)
    BY <1>28 DEF HandsToAgent, EngineStarts
  <2>. QED BY <2>1, NothingSaid DEF TurnTypeOK, ReplyTypes
<1>29. CASE TailGoes
  BY <1>29 DEF TailGoes, Frees
<1>30. CASE BatchWraps
  BY <1>30 DEF BatchWraps
<1>31. CASE BatchCloses
  BY <1>31 DEF BatchCloses, TearsDown
<1>32. CASE UNCHANGED voiceTurnVars
  BY <1>32 DEF voiceTurnVars
<1>. QED BY <1>1, <1>2, <1>3, <1>4, <1>5, <1>6, <1>7, <1>8, <1>9, <1>10, <1>11, <1>12, <1>13,
           <1>14, <1>15, <1>16, <1>17, <1>18, <1>19, <1>20, <1>21, <1>22, <1>23, <1>24, <1>25,
           <1>26, <1>27, <1>28, <1>29, <1>30, <1>31, <1>32
         DEF TurnNext, WorkerGoes, AgentGoes, BridgeGoes

LEMMA ResultTyped == TurnTypeOK /\ [TurnNext]_voiceTurnVars => ResultTypes'
<1>. SUFFICES ASSUME TurnTypeOK, [TurnNext]_voiceTurnVars PROVE ResultTypes'
  OBVIOUS
<1>. USE TurnConstants
     DEF agentVars, TurnTypeOK, ResultTypes, NoResult
<1>1. CASE Transcribes
  BY <1>1 DEF Transcribes, OnlyEngine
<1>2. CASE LlmSpeaks
  BY <1>2 DEF LlmSpeaks, OnlyEngine, MaybeEmit, EmitSentence
<1>3. CASE NoFirstToken
  BY <1>3 DEF NoFirstToken, OnlyEngine
<1>4. CASE LlmEnds
  BY <1>4 DEF LlmEnds, OnlyEngine, MaybeEmit, EmitSentence
<1>5. CASE WorkerTakes
  BY <1>5 DEF WorkerTakes, OnlyEngine, Taken
<1>6. CASE WorkerSynthesized
  BY <1>6 DEF WorkerSynthesized, OnlyEngine, SendsUnlessCancelled, Taken
<1>7. CASE WorkerFails
  BY <1>7 DEF WorkerFails, OnlyEngine, Taken
<1>8. CASE WorkerSent
  BY <1>8 DEF WorkerSent, Taken
<1>9. CASE WorkerEnds
  BY <1>9 DEF WorkerEnds, OnlyEngine
<1>10. CASE CapExpires
  BY <1>10 DEF CapExpires
<1>11. CASE GraceExpires
  BY <1>11 DEF GraceExpires, CutsShort
<1>12. CASE EngineReturns
  <2>1. PICK parsed, ends \in BOOLEAN :
          result' = [cancelled |-> cancelled \/ cap = "forced",
                     raised |-> llm = "raised" /\ cap # "forced",
                     heard |-> llm # "unheard", parsed |-> parsed, ends |-> ends]
    BY <1>12 DEF EngineReturns
  <2>2. /\ (cancelled \/ cap = "forced") \in BOOLEAN
        /\ (llm = "raised" /\ cap # "forced") \in BOOLEAN
        /\ (llm # "unheard") \in BOOLEAN
    OBVIOUS
  <2>3. result' \in [DOMAIN NoResult -> BOOLEAN]
    BY <2>1, <2>2, ResultsAre
  <2>. QED BY <2>3 DEF ResultTypes
<1>13. CASE Abandons
  <2>1. result' = NoResult
    BY <1>13 DEF Abandons, HandsBack
  <2>. QED BY <2>1, NoResultTyped
<1>14. CASE Retries
  <2>1. result' = NoResult
    BY <1>14 DEF Retries, HandsBack
  <2>. QED BY <2>1, NoResultTyped
<1>15. CASE FinishesTurn
  BY <1>15 DEF FinishesTurn, Ends, Unusable
<1>16. CASE Delivers
  <2>1. result' = NoResult
    BY <1>16 DEF Delivers, HandsBack
  <2>. QED BY <2>1, NoResultTyped
<1>17. CASE EndpointArrives
  BY <1>17 DEF EndpointArrives, MayDispatch
<1>18. CASE BargesIn
  BY <1>18 DEF BargesIn
<1>19. CASE StreamReopens
  BY <1>19 DEF StreamReopens
<1>20. CASE StreamGone
  BY <1>20 DEF StreamGone, GivesUpStream
<1>21. CASE SendFails
  BY <1>21 DEF SendFails, GivesUpStream
<1>22. CASE BatchUtterance
  BY <1>22 DEF BatchUtterance, EngineStarts, TearsDown
<1>23. CASE VoiceLoopEnds
  BY <1>23 DEF VoiceLoopEnds, TearsDown
<1>24. CASE HeartbeatFails
  BY <1>24 DEF HeartbeatFails
<1>25. CASE BrowserLeaves
  BY <1>25 DEF BrowserLeaves
<1>26. CASE PlaybackEnds
  BY <1>26 DEF PlaybackEnds
<1>27. CASE TaskStarts
  BY <1>27 DEF TaskStarts
<1>28. CASE HandsToAgent
  BY <1>28 DEF HandsToAgent, EngineStarts
<1>29. CASE TailGoes
  BY <1>29 DEF TailGoes, Frees
<1>30. CASE BatchWraps
  BY <1>30 DEF BatchWraps
<1>31. CASE BatchCloses
  BY <1>31 DEF BatchCloses, TearsDown
<1>32. CASE UNCHANGED voiceTurnVars
  BY <1>32 DEF voiceTurnVars
<1>. QED BY <1>1, <1>2, <1>3, <1>4, <1>5, <1>6, <1>7, <1>8, <1>9, <1>10, <1>11, <1>12, <1>13,
           <1>14, <1>15, <1>16, <1>17, <1>18, <1>19, <1>20, <1>21, <1>22, <1>23, <1>24, <1>25,
           <1>26, <1>27, <1>28, <1>29, <1>30, <1>31, <1>32
         DEF TurnNext, WorkerGoes, AgentGoes, BridgeGoes

LEMMA WorkerFitsStep == VoiceInv /\ [TurnNext]_voiceTurnVars => WorkerFits'
<1>. SUFFICES ASSUME VoiceInv, [TurnNext]_voiceTurnVars PROVE WorkerFits'
  OBVIOUS
<1>. USE TurnConstants
     DEF bridgeVars, sessionVars, agentVars, engineVars, turnGhosts, VoiceInv, TurnTypeOK,
        WorkerFits, EngineOver, PathsInv, Quiet, OverIsOver, BatchFits
<1>1. CASE Transcribes
  BY <1>1 DEF Transcribes, OnlyEngine
<1>2. CASE LlmSpeaks
  BY <1>2 DEF LlmSpeaks, OnlyEngine, MaybeEmit, EmitSentence
<1>3. CASE NoFirstToken
  BY <1>3 DEF NoFirstToken, OnlyEngine
<1>4. CASE LlmEnds
  BY <1>4 DEF LlmEnds, OnlyEngine, MaybeEmit, EmitSentence
<1>5. CASE WorkerTakes
  BY <1>5 DEF WorkerTakes, OnlyEngine, Taken
<1>6. CASE WorkerSynthesized
  BY <1>6 DEF WorkerSynthesized, OnlyEngine, SendsUnlessCancelled, Taken
<1>7. CASE WorkerFails
  <2>1. failures' = failures + 1 /\ failures < MaxFailures /\ worker' = "idle" /\ worker = "synthesizing"
    BY <1>7 DEF WorkerFails
  <2>2. failures' >= MaxFailures => cancelled'
    BY <1>7 DEF WorkerFails
  <2>. QED BY <2>1, <2>2
<1>8. CASE WorkerSent
  BY <1>8 DEF WorkerSent, Taken
<1>9. CASE WorkerEnds
  BY <1>9 DEF WorkerEnds, OnlyEngine
<1>10. CASE CapExpires
  BY <1>10 DEF CapExpires
<1>11. CASE GraceExpires
  BY <1>11 DEF GraceExpires, CutsShort
<1>12. CASE EngineReturns
  BY <1>12 DEF EngineReturns, Finished
<1>13. CASE Abandons
  BY <1>13 DEF Abandons, HandsBack
<1>14. CASE Retries
  BY <1>14 DEF Retries, Unusable, EngineStarts
<1>15. CASE FinishesTurn
  BY <1>15 DEF FinishesTurn, Ends, Unusable
<1>16. CASE Delivers
  BY <1>16 DEF Delivers, HandsBack
<1>17. CASE EndpointArrives
  BY <1>17 DEF EndpointArrives, MayDispatch
<1>18. CASE BargesIn
  BY <1>18 DEF BargesIn
<1>19. CASE StreamReopens
  BY <1>19 DEF StreamReopens
<1>20. CASE StreamGone
  BY <1>20 DEF StreamGone, GivesUpStream
<1>21. CASE SendFails
  BY <1>21 DEF SendFails, GivesUpStream
<1>22. CASE BatchUtterance
  BY <1>22 DEF BatchUtterance, EngineStarts, TearsDown
<1>23. CASE VoiceLoopEnds
  BY <1>23 DEF VoiceLoopEnds, TearsDown
<1>24. CASE HeartbeatFails
  BY <1>24 DEF HeartbeatFails
<1>25. CASE BrowserLeaves
  BY <1>25 DEF BrowserLeaves
<1>26. CASE PlaybackEnds
  BY <1>26 DEF PlaybackEnds
<1>27. CASE TaskStarts
  BY <1>27 DEF TaskStarts
<1>28. CASE HandsToAgent
  BY <1>28 DEF HandsToAgent, EngineStarts
<1>29. CASE TailGoes
  BY <1>29 DEF TailGoes, Frees
<1>30. CASE BatchWraps
  BY <1>30 DEF BatchWraps
<1>31. CASE BatchCloses
  BY <1>31 DEF BatchCloses, TearsDown
<1>32. CASE UNCHANGED voiceTurnVars
  BY <1>32 DEF voiceTurnVars
<1>. QED BY <1>1, <1>2, <1>3, <1>4, <1>5, <1>6, <1>7, <1>8, <1>9, <1>10, <1>11, <1>12, <1>13,
           <1>14, <1>15, <1>16, <1>17, <1>18, <1>19, <1>20, <1>21, <1>22, <1>23, <1>24, <1>25,
           <1>26, <1>27, <1>28, <1>29, <1>30, <1>31, <1>32
         DEF TurnNext, WorkerGoes, AgentGoes, BridgeGoes

LEMMA PathsStep == VoiceInv /\ [TurnNext]_voiceTurnVars => PathsInv'
<1>. SUFFICES ASSUME VoiceInv, [TurnNext]_voiceTurnVars PROVE PathsInv'
  OBVIOUS
<1>. USE TurnConstants
     DEF bridgeVars, sessionVars, agentVars, engineVars, turnGhosts, VoiceInv, TurnTypeOK,
        WorkerFits, PathsInv, EngineOver, Quiet, OverIsOver, MachineFits,
         BatchFits, EndedCloses, OnePath, TurnsCollideOnFallback, TaskInFlight, BatchInFlight
<1>1. CASE Transcribes
  BY <1>1 DEF Transcribes, OnlyEngine
<1>2. CASE LlmSpeaks
  BY <1>2 DEF LlmSpeaks, OnlyEngine, MaybeEmit, EmitSentence
<1>3. CASE NoFirstToken
  BY <1>3 DEF NoFirstToken, OnlyEngine
<1>4. CASE LlmEnds
  BY <1>4 DEF LlmEnds, OnlyEngine, MaybeEmit, EmitSentence
<1>5. CASE WorkerTakes
  BY <1>5 DEF WorkerTakes, OnlyEngine, Taken
<1>6. CASE WorkerSynthesized
  BY <1>6 DEF WorkerSynthesized, OnlyEngine, SendsUnlessCancelled, Taken
<1>7. CASE WorkerFails
  BY <1>7 DEF WorkerFails, OnlyEngine, Taken
<1>8. CASE WorkerSent
  BY <1>8 DEF WorkerSent, Taken
<1>9. CASE WorkerEnds
  BY <1>9 DEF WorkerEnds, OnlyEngine
<1>10. CASE CapExpires
  BY <1>10 DEF CapExpires
<1>11. CASE GraceExpires
  BY <1>11 DEF GraceExpires, CutsShort
<1>12. CASE EngineReturns
  BY <1>12 DEF EngineReturns, Finished
<1>13. CASE Abandons
  BY <1>13 DEF Abandons, HandsBack
<1>14. CASE Retries
  BY <1>14 DEF Retries, Unusable, EngineStarts
<1>15. CASE FinishesTurn
  BY <1>15 DEF FinishesTurn, Ends, Unusable
<1>16. CASE Delivers
  BY <1>16 DEF Delivers, HandsBack
<1>17. CASE EndpointArrives
  BY <1>17 DEF EndpointArrives, MayDispatch
<1>18. CASE BargesIn
  BY <1>18 DEF BargesIn
<1>19. CASE StreamReopens
  BY <1>19 DEF StreamReopens
<1>20. CASE StreamGone
  BY <1>20 DEF StreamGone, GivesUpStream
<1>21. CASE SendFails
  BY <1>21 DEF SendFails, GivesUpStream
<1>22. CASE BatchUtterance
  BY <1>22 DEF BatchUtterance, EngineStarts, TearsDown
<1>23. CASE VoiceLoopEnds
  BY <1>23 DEF VoiceLoopEnds, TearsDown
<1>24. CASE HeartbeatFails
  BY <1>24 DEF HeartbeatFails
<1>25. CASE BrowserLeaves
  BY <1>25 DEF BrowserLeaves
<1>26. CASE PlaybackEnds
  BY <1>26 DEF PlaybackEnds
<1>27. CASE TaskStarts
  BY <1>27 DEF TaskStarts
<1>28. CASE HandsToAgent
  BY <1>28 DEF HandsToAgent, EngineStarts
<1>29. CASE TailGoes
  BY <1>29 DEF TailGoes, Frees
<1>30. CASE BatchWraps
  BY <1>30 DEF BatchWraps
<1>31. CASE BatchCloses
  BY <1>31 DEF BatchCloses, TearsDown
<1>32. CASE UNCHANGED voiceTurnVars
  BY <1>32 DEF voiceTurnVars
<1>. QED BY <1>1, <1>2, <1>3, <1>4, <1>5, <1>6, <1>7, <1>8, <1>9, <1>10, <1>11, <1>12, <1>13,
           <1>14, <1>15, <1>16, <1>17, <1>18, <1>19, <1>20, <1>21, <1>22, <1>23, <1>24, <1>25,
           <1>26, <1>27, <1>28, <1>29, <1>30, <1>31, <1>32
         DEF TurnNext, WorkerGoes, AgentGoes, BridgeGoes

LEMMA ReplyStep == VoiceInv /\ [TurnNext]_voiceTurnVars => ReplyInv'
<1>. SUFFICES ASSUME VoiceInv, [TurnNext]_voiceTurnVars PROVE ReplyInv'
  OBVIOUS
<1>. USE TurnConstants
     DEF bridgeVars, sessionVars, agentVars, engineVars, turnGhosts, VoiceInv
<1>1. CASE Transcribes
  <2>1. UNCHANGED <<speech, spoken>> /\ (Generates' => Generates /\ UNCHANGED <<said, tripped>>)
    BY <1>1 DEF Transcribes, OnlyEngine, Generates
  <2>. QED BY <2>1, ReplyStays
<1>2. CASE LlmSpeaks
  <2>1. Generates /\ UNCHANGED spoken /\ (MaybeEmit \/ UNCHANGED <<said, speech, tripped>>)
    BY <1>2 DEF LlmSpeaks, Generates
  <2>. QED BY <2>1, ReplyStays, MaybeGrows
<1>3. CASE NoFirstToken
  <2>1. UNCHANGED <<speech, spoken>> /\ (Generates' => Generates /\ UNCHANGED <<said, tripped>>)
    BY <1>3 DEF NoFirstToken, Generates
  <2>. QED BY <2>1, ReplyStays
<1>4. CASE LlmEnds
  <2>1. Generates /\ UNCHANGED spoken /\ (MaybeEmit \/ UNCHANGED <<said, speech, tripped>>)
    BY <1>4 DEF LlmEnds, Generates
  <2>. QED BY <2>1, ReplyStays, MaybeGrows
<1>5. CASE WorkerTakes
  <2>1. CASE cancelled
    <3>1. speech # <<>> /\ speech' = Tail(speech) /\ UNCHANGED <<llm, said, tripped, spoken>>
      BY <1>5, <2>1 DEF WorkerTakes, Taken, WorkerFits
    <3>. QED BY <3>1, ReplyDrops
  <2>2. CASE ~cancelled
    <3>1. UNCHANGED <<speech, spoken>> /\ (Generates' => Generates /\ UNCHANGED <<said, tripped>>)
      BY <1>5, <2>2 DEF WorkerTakes, Generates
    <3>. QED BY <3>1, ReplyStays
  <2>. QED BY <2>1, <2>2
<1>6. CASE WorkerSynthesized
  <2>1. CASE cancelled
    <3>1. speech # <<>> /\ speech' = Tail(speech) /\ UNCHANGED <<llm, said, tripped, spoken>>
      BY <1>6, <2>1 DEF WorkerSynthesized, SendsUnlessCancelled, Taken, WorkerFits
    <3>. QED BY <3>1, ReplyDrops
  <2>2. CASE ~cancelled
    <3>1. UNCHANGED <<speech, spoken>> /\ (Generates' => Generates /\ UNCHANGED <<said, tripped>>)
      BY <1>6, <2>2 DEF WorkerSynthesized, SendsUnlessCancelled, Generates
    <3>. QED BY <3>1, ReplyStays
  <2>. QED BY <2>1, <2>2
<1>7. CASE WorkerFails
  <2>1. speech # <<>> /\ speech' = Tail(speech) /\ UNCHANGED <<llm, said, tripped, spoken>>
    BY <1>7 DEF WorkerFails, Taken, WorkerFits
  <2>. QED BY <2>1, ReplyDrops
<1>8. CASE WorkerSent
  <2>1. /\ speech # <<>> /\ speech' = Tail(speech) /\ UNCHANGED <<llm, said, tripped>>
        /\ spoken' = Append(spoken, Head(speech))
    BY <1>8 DEF WorkerSent, Taken, WorkerFits
  <2>. QED BY <2>1, ReplySends
<1>9. CASE WorkerEnds
  <2>1. UNCHANGED <<speech, spoken>> /\ (Generates' => Generates /\ UNCHANGED <<said, tripped>>)
    BY <1>9 DEF WorkerEnds, Generates
  <2>. QED BY <2>1, ReplyStays
<1>10. CASE CapExpires
  <2>1. UNCHANGED <<speech, spoken>> /\ (Generates' => Generates /\ UNCHANGED <<said, tripped>>)
    BY <1>10 DEF CapExpires, Generates
  <2>. QED BY <2>1, ReplyStays
<1>11. CASE GraceExpires
  <2>1. CASE Generates
    <3>1. UNCHANGED <<speech, spoken, said, tripped>>
      BY <1>11, <2>1 DEF GraceExpires, CutsShort, Generates
    <3>. QED BY <2>1, <3>1, ReplyStays
  <2>2. CASE ~Generates
    <3>1. speech' = <<>> /\ UNCHANGED <<llm, spoken>>
      BY <1>11, <2>2 DEF GraceExpires, CutsShort, Generates
    <3>. QED BY <2>2, <3>1, ReplySilenced DEF Generates
  <2>. QED BY <2>1, <2>2
<1>12. CASE EngineReturns
  <2>1. UNCHANGED <<speech, spoken>> /\ (Generates' => Generates /\ UNCHANGED <<said, tripped>>)
    BY <1>12 DEF EngineReturns, Generates
  <2>. QED BY <2>1, ReplyStays
<1>13. CASE Abandons
  <2>1. EngineOver
    BY <1>13 DEF Abandons, PathsInv, Quiet, OverIsOver
  <2>2. speech' = <<>> /\ ~Generates'
    BY <1>13, <2>1 DEF Abandons, EngineOver, Generates, WorkerFits
  <2>3. spoken' = spoken \/ spoken' = <<>>
    BY <1>13 DEF Abandons, HandsBack
  <2>. QED BY <2>2, <2>3, ReplySilenced
<1>14. CASE Retries
  BY <1>14, ReplyAfresh DEF Retries, EngineStarts
<1>15. CASE FinishesTurn
  <2>1. UNCHANGED <<speech, spoken>> /\ (Generates' => Generates /\ UNCHANGED <<said, tripped>>)
    BY <1>15 DEF FinishesTurn, Generates
  <2>. QED BY <2>1, ReplyStays
<1>16. CASE Delivers
  <2>1. EngineOver
    BY <1>16 DEF Delivers, PathsInv, Quiet, OverIsOver
  <2>2. speech' = <<>> /\ ~Generates'
    BY <1>16, <2>1 DEF Delivers, EngineOver, Generates, WorkerFits
  <2>3. spoken' = spoken \/ spoken' = <<>>
    BY <1>16 DEF Delivers, HandsBack
  <2>. QED BY <2>2, <2>3, ReplySilenced
<1>17. CASE EndpointArrives
  <2>1. UNCHANGED <<speech, spoken>> /\ (Generates' => Generates /\ UNCHANGED <<said, tripped>>)
    BY <1>17 DEF EndpointArrives, Generates
  <2>. QED BY <2>1, ReplyStays
<1>18. CASE BargesIn
  <2>1. UNCHANGED <<speech, spoken>> /\ (Generates' => Generates /\ UNCHANGED <<said, tripped>>)
    BY <1>18 DEF BargesIn, Generates
  <2>. QED BY <2>1, ReplyStays
<1>19. CASE StreamReopens
  <2>1. UNCHANGED <<speech, spoken>> /\ (Generates' => Generates /\ UNCHANGED <<said, tripped>>)
    BY <1>19 DEF StreamReopens, Generates
  <2>. QED BY <2>1, ReplyStays
<1>20. CASE StreamGone
  <2>1. UNCHANGED <<speech, spoken>> /\ (Generates' => Generates /\ UNCHANGED <<said, tripped>>)
    BY <1>20 DEF StreamGone, Generates
  <2>. QED BY <2>1, ReplyStays
<1>21. CASE SendFails
  <2>1. UNCHANGED <<speech, spoken>> /\ (Generates' => Generates /\ UNCHANGED <<said, tripped>>)
    BY <1>21 DEF SendFails, Generates
  <2>. QED BY <2>1, ReplyStays
<1>22. CASE BatchUtterance
  <2>1. CASE machine = "listening"
    BY <1>22, <2>1, ReplyAfresh DEF BatchUtterance, EngineStarts
  <2>2. CASE machine # "listening"
    <3>1. UNCHANGED <<speech, spoken>> /\ (Generates' => Generates /\ UNCHANGED <<said, tripped>>)
      BY <1>22, <2>2 DEF BatchUtterance, Generates
    <3>. QED BY <3>1, ReplyStays
  <2>. QED BY <2>1, <2>2
<1>23. CASE VoiceLoopEnds
  <2>1. UNCHANGED <<speech, spoken>> /\ (Generates' => Generates /\ UNCHANGED <<said, tripped>>)
    BY <1>23 DEF VoiceLoopEnds, Generates
  <2>. QED BY <2>1, ReplyStays
<1>24. CASE HeartbeatFails
  <2>1. UNCHANGED <<speech, spoken>> /\ (Generates' => Generates /\ UNCHANGED <<said, tripped>>)
    BY <1>24 DEF HeartbeatFails, Generates
  <2>. QED BY <2>1, ReplyStays
<1>25. CASE BrowserLeaves
  <2>1. UNCHANGED <<speech, spoken>> /\ (Generates' => Generates /\ UNCHANGED <<said, tripped>>)
    BY <1>25 DEF BrowserLeaves, Generates
  <2>. QED BY <2>1, ReplyStays
<1>26. CASE PlaybackEnds
  <2>1. UNCHANGED <<speech, spoken>> /\ (Generates' => Generates /\ UNCHANGED <<said, tripped>>)
    BY <1>26 DEF PlaybackEnds, Generates
  <2>. QED BY <2>1, ReplyStays
<1>27. CASE TaskStarts
  <2>1. UNCHANGED <<speech, spoken>> /\ (Generates' => Generates /\ UNCHANGED <<said, tripped>>)
    BY <1>27 DEF TaskStarts, Generates
  <2>. QED BY <2>1, ReplyStays
<1>28. CASE HandsToAgent
  <2>1. CASE machine = "listening"
    BY <1>28, <2>1, ReplyAfresh DEF HandsToAgent, EngineStarts
  <2>2. CASE machine # "listening"
    <3>1. UNCHANGED <<speech, spoken>> /\ (Generates' => Generates /\ UNCHANGED <<said, tripped>>)
      BY <1>28, <2>2 DEF HandsToAgent, Generates
    <3>. QED BY <3>1, ReplyStays
  <2>. QED BY <2>1, <2>2
<1>29. CASE TailGoes
  <2>1. UNCHANGED <<speech, spoken>> /\ (Generates' => Generates /\ UNCHANGED <<said, tripped>>)
    BY <1>29 DEF TailGoes, Generates
  <2>. QED BY <2>1, ReplyStays
<1>30. CASE BatchWraps
  <2>1. UNCHANGED <<speech, spoken>> /\ (Generates' => Generates /\ UNCHANGED <<said, tripped>>)
    BY <1>30 DEF BatchWraps, Generates
  <2>. QED BY <2>1, ReplyStays
<1>31. CASE BatchCloses
  <2>1. UNCHANGED <<speech, spoken>> /\ (Generates' => Generates /\ UNCHANGED <<said, tripped>>)
    BY <1>31 DEF BatchCloses, Generates
  <2>. QED BY <2>1, ReplyStays
<1>32. CASE UNCHANGED voiceTurnVars
  <2>1. UNCHANGED <<speech, spoken>> /\ (Generates' => Generates /\ UNCHANGED <<said, tripped>>)
    BY <1>32 DEF voiceTurnVars, engineVars, Generates
  <2>. QED BY <2>1, ReplyStays
<1>. QED BY <1>1, <1>2, <1>3, <1>4, <1>5, <1>6, <1>7, <1>8, <1>9, <1>10, <1>11, <1>12, <1>13,
           <1>14, <1>15, <1>16, <1>17, <1>18, <1>19, <1>20, <1>21, <1>22, <1>23, <1>24, <1>25,
           <1>26, <1>27, <1>28, <1>29, <1>30, <1>31, <1>32
         DEF TurnNext, WorkerGoes, AgentGoes, BridgeGoes

LEMMA VoiceInvStep == VoiceInv /\ [TurnNext]_voiceTurnVars => VoiceInv'
<1>. SUFFICES ASSUME VoiceInv, [TurnNext]_voiceTurnVars PROVE VoiceInv'
  OBVIOUS
<1>1. TurnTypeOK /\ WorkerFits
  BY DEF VoiceInv
<1>2. /\ FlagTypes' /\ PlaceTypes' /\ CountTypes'
      /\ ReplyTypes' /\ ResultTypes'
  BY <1>1, FlagsTyped, PlacesTyped, CountsTyped, ReplyTyped, ResultTyped
<1>3. TurnTypeOK'
  BY <1>2, TypesApart, PTL
<1>4. WorkerFits' /\ PathsInv' /\ ReplyInv'
  BY WorkerFitsStep, PathsStep, ReplyStep
<1>. QED BY <1>3, <1>4 DEF VoiceInv

LEMMA VoiceInvInit == TurnInit => VoiceInv
<1>. SUFFICES ASSUME TurnInit PROVE VoiceInv
  OBVIOUS
<1>. USE TurnConstants DEF TurnInit
<1>1. FlagTypes /\ PlaceTypes
  BY DEF FlagTypes, PlaceTypes
<1>2. CountTypes /\ ReplyTypes /\ ResultTypes
  BY NothingSaid, NoResultTyped DEF CountTypes, ReplyTypes, ResultTypes
<1>3. TurnTypeOK
  BY <1>1, <1>2, TypesApart
<1>4. WorkerFits
  BY DEF WorkerFits
<1>5. PathsInv
  BY DEF PathsInv, Quiet, OverIsOver, MachineFits, BatchFits, EndedCloses, OnePath,
         TurnsCollideOnFallback, EngineOver, TaskInFlight, BatchInFlight
<1>6. InOrder
  BY DEF InOrder
<1>7. SpeechOrdered /\ SpokenFirst
  BY DEF SpeechOrdered, SpokenFirst
<1>8. SaidSoFar
  BY DEF SaidSoFar, Generates
<1>. QED BY <1>3, <1>4, <1>5, <1>6, <1>7, <1>8 DEF VoiceInv, ReplyInv

LEMMA VoiceInvHolds == TurnSpec => []VoiceInv
BY VoiceInvInit, VoiceInvStep, PTL DEF TurnSpec

(* Types, among them that no more sentences are spoken than the reply has. *)
THEOREM VoiceTurnTypeCorrect == TurnSpec => []TurnTypeOK
<1>1. VoiceInv => TurnTypeOK
  BY DEF VoiceInv
<1>. QED BY <1>1, VoiceInvHolds, PTL

(* The bridge speaks one turn at a time (browser_bridge.py, voicebot.py, engine.py): turns
   collide only after the stream was given up under one, a reply is sent in order, none of
   it twice, and a listening agent has no engine at work. *)
THEOREM SpokenInOrderHolds == TurnSpec => []SpokenInOrder
<1>1. VoiceInv => SpokenInOrder
  BY DEF VoiceInv, PathsInv, ReplyInv, Quiet, OverIsOver, SpokenInOrder, ListeningIsSilent
<1>. QED BY <1>1, VoiceInvHolds, PTL

-----------------------------------------------------------------------------
(* The two, side by side. *)

LEMMA EachOfTheCalls == VoiceCallsSpec => Spec /\ TurnSpec
<1>1. VoiceCallsInit => Init /\ TurnInit
  BY DEF VoiceCallsInit
<1>2. [VoiceCallsNext]_callsVars => [Next]_vars /\ [TurnNext]_voiceTurnVars
  BY DEF VoiceCallsNext, callsVars
<1>. QED BY <1>1, <1>2, PTL DEF VoiceCallsSpec, Spec, TurnSpec

(* The types of a call, over either pipeline. *)
THEOREM CallsTypesCorrect == VoiceCallsSpec => []TypesOK
<1>1. TypeOK /\ TurnTypeOK => TypesOK
  BY DEF TypesOK
<1>. QED BY <1>1, EachOfTheCalls, TypeCorrect, VoiceTurnTypeCorrect, PTL
=============================================================================
