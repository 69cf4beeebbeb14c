-------------------------- MODULE ChatHandoverProofs --------------------------
(* Proofs about ChatHandover, for any sockets, agents, declines, jobs and messages. *)
EXTENDS ChatHandover, TLAPS

(* The type invariant, a group of variables at a time. *)
ScalarsOK ==
    /\ mode \in Modes /\ ended \in BOOLEAN /\ registered \in BOOLEAN
    /\ pushTo \in Conns \cup {NoConn} /\ guard \in Conns \cup {NoConn}
    /\ newest \in Conns \cup {NoConn}
    /\ connects \in Nat /\ replies \in Nat /\ restarts \in Nat

QueuesOK ==
    /\ customerQ \in Seq(Frames)
    /\ agentQ \in Seq(Texts \cup {"bye"})
    /\ relayed \in Seq(Texts)

ConnsOK ==
    /\ pushQ \in [Conns -> Nat]
    /\ pc \in [Conns -> Places]
    /\ seen \in [Conns -> Modes]
    /\ joined \in [Conns -> BOOLEAN]
    /\ via \in [Conns -> {"connect", "turn", "push"}]

CrmOK ==
    /\ claim \in [Agents -> {"none", "checked", "committed", "claimed", "refused"}]
    /\ decline \in [Declines -> {"none", "checked", "committed", "declined", "refused"}]
    /\ agent \in [Agents -> {"off", "on", "ending"}]
    /\ job \in [Jobs -> {"pending", "checked", "notifying", "pushing", "done"}]

FatesOK ==
    /\ inbox \in [Conns -> Seq(Texts \cup {End, "gone"})]
    /\ sent \in SUBSET (Texts \cup {End})
    /\ answered \in SUBSET Texts /\ refused \in SUBSET Texts /\ unread \in SUBSET Texts

LEMMA TypeSplit == TypeOK <=> ScalarsOK /\ QueuesOK /\ ConnsOK /\ CrmOK /\ FatesOK
BY DEF TypeOK, ScalarsOK, QueuesOK, ConnsOK, CrmOK, FatesOK

LEMMA TypeSplitPrimed == TypeOK' <=> ScalarsOK' /\ QueuesOK' /\ ConnsOK' /\ CrmOK' /\ FatesOK'
BY TypeSplit, PTL

-----------------------------------------------------------------------------
(* Sequences, and the two things that are done with an inbox. *)

LEMMA SeqSteps ==
    ASSUME NEW S, NEW s \in Seq(S)
    PROVE  /\ \A e \in S : Append(s, e) \in Seq(S)
           /\ s # <<>> => Tail(s) \in Seq(S) /\ Head(s) \in S
OBVIOUS

LEMMA ForwardsType ==
    ASSUME QueuesOK, NEW c \in Conns, Forwards(c)
    PROVE  agentQ' \in Seq(Texts \cup {"bye"}) /\ relayed' \in Seq(Texts)
<1>1. CASE First(c) \in Texts
  <2>1. agentQ' = Append(agentQ, First(c)) /\ relayed' = Append(relayed, First(c))
    BY <1>1 DEF Forwards, Relays
  <2>2. First(c) \in Texts \cup {"bye"}
    BY <1>1
  <2>. QED BY <1>1, <2>1, <2>2, SeqSteps DEF QueuesOK
<1>2. CASE First(c) \notin Texts
  BY <1>2 DEF QueuesOK, Forwards
<1>. QED BY <1>1, <1>2

LEMMA ReadsType ==
    ASSUME FatesOK, NEW c \in Conns, Arrived(c), Reads(c)
    PROVE  inbox' \in [Conns -> Seq(Texts \cup {End, "gone"})]
<1>1. Tail(inbox[c]) \in Seq(Texts \cup {End, "gone"})
  BY SeqSteps DEF FatesOK, Arrived
<1>. QED BY <1>1 DEF FatesOK, Reads

LEMMA ScalarsOKKept == TypeOK /\ [Next]_vars => ScalarsOK'
<1>. SUFFICES ASSUME TypeOK, [Next]_vars PROVE ScalarsOK'
  OBVIOUS
<1>. ScalarsOK /\ QueuesOK /\ ConnsOK /\ CrmOK /\ FatesOK
  BY TypeSplit
<1>. USE NamesAssumption DEF ScalarsOK, Modes, Handover, row, queues, push, conns, crm, fates,
   counts
<1>1. ASSUME NEW c \in Conns, Connect(c) PROVE ScalarsOK'
  BY <1>1 DEF Connect, Goes
<1>2. ASSUME NEW c \in Conns, Disconnect(c) PROVE ScalarsOK'
  BY <1>2 DEF Disconnect
<1>3. ASSUME NEW c \in Conns, Refetch(c) PROVE ScalarsOK'
  BY <1>3 DEF Refetch
<1>4. ASSUME NEW c \in Conns, Enter(c) PROVE ScalarsOK'
  BY <1>4 DEF Enter, Goes, EntersHuman, EntersBotLoop
<1>5. ASSUME NEW c \in Conns, BotFrame(c) PROVE ScalarsOK'
  BY <1>5 DEF BotFrame, HandlesFrame, Reads, Goes, First
<1>6. ASSUME NEW c \in Conns, BotGone(c) PROVE ScalarsOK'
  BY <1>6 DEF BotGone, Leaves, Goes, PopOwn
<1>7. ASSUME NEW c \in Conns, BotIdle(c) PROVE ScalarsOK'
  BY <1>7 DEF BotIdle, Goes
<1>8. ASSUME NEW c \in Conns, BotPush(c) PROVE ScalarsOK'
  BY <1>8 DEF BotPush, Delivers, EntersHuman, Goes
<1>9. ASSUME NEW c \in Conns, BotPushAndFrame(c) PROVE ScalarsOK'
  BY <1>9 DEF BotPushAndFrame, Delivers, AfterPush, HandlesFrame, Reads, EntersHuman, Goes,
     Forwards, Relays, First, AnsweredAfterHandOff
<1>10. ASSUME NEW c \in Conns, TurnReplies(c) PROVE ScalarsOK'
  BY <1>10 DEF TurnReplies, Goes, ReleaseGuard
<1>11. ASSUME NEW c \in Conns, TurnResolves(c) PROVE ScalarsOK'
  BY <1>11 DEF TurnResolves, Goes
<1>12. ASSUME NEW c \in Conns, TurnUndelivered(c) PROVE ScalarsOK'
  BY <1>12 DEF TurnUndelivered, Leaves, Goes, PopOwn, ReleaseGuard
<1>13. ASSUME NEW c \in Conns, TurnEscalates(c) PROVE ScalarsOK'
  BY <1>13 DEF TurnEscalates, Goes, Writes
<1>14. ASSUME NEW c \in Conns, EscalationTaken(c) PROVE ScalarsOK'
  BY <1>14 DEF EscalationTaken, EntersHuman, Goes
<1>15. ASSUME NEW c \in Conns, EscalationFails(c) PROVE ScalarsOK'
  BY <1>15 DEF EscalationFails, Writes, Goes, ReleaseGuard
<1>16. ASSUME NEW c \in Conns, BotEnds(c) PROVE ScalarsOK'
  BY <1>16 DEF BotEnds, CloseSession, Goes
<1>17. ASSUME NEW c \in Conns, BotReportsClose(c) PROVE ScalarsOK'
  BY <1>17 DEF BotReportsClose, Leaves, Goes, PopOwn, ReleaseGuard
<1>18. ASSUME NEW c \in Conns, HumanShows(c) PROVE ScalarsOK'
  BY <1>18 DEF HumanShows, Takes, JoinedBy
<1>19. ASSUME NEW c \in Conns, HumanDeclined(c) PROVE ScalarsOK'
  BY <1>19 DEF HumanDeclined, Takes, Goes, Arrived, First, Reads
<1>20. ASSUME NEW c \in Conns, HumanEnded(c) PROVE ScalarsOK'
  BY <1>20 DEF HumanEnded, LeavesOnEnd, Takes, Leaves, Goes, PopOwn, ReleaseGuard
<1>21. ASSUME NEW c \in Conns, HumanFrame(c) PROVE ScalarsOK'
  BY <1>21 DEF HumanFrame, Arrived, First, Takes, JoinedBy, Reads, Forwards, Relays, Goes
<1>22. ASSUME NEW c \in Conns, HumanGone(c) PROVE ScalarsOK'
  BY <1>22 DEF HumanGone, Takes, Leaves, Goes, PopOwn, ReleaseGuard
<1>23. ASSUME NEW c \in Conns, HumanEnds(c) PROVE ScalarsOK'
  BY <1>23 DEF HumanEnds, CloseSession, Goes
<1>24. ASSUME NEW c \in Conns, HumanReportsClose(c) PROVE ScalarsOK'
  BY <1>24 DEF HumanReportsClose, Leaves, Goes, PopOwn, ReleaseGuard
<1>25. ASSUME NEW c \in Conns, HumanExpires(c) PROVE ScalarsOK'
  BY <1>25 DEF HumanExpires, Goes
<1>26. ASSUME NEW c \in Conns, Reverts(c) PROVE ScalarsOK'
  BY <1>26 DEF Reverts, Writes, Goes, EntersBotLoop, ReleaseGuard
<1>27. ASSUME NEW c \in Conns, NEW x \in Texts \cup {End}, Send(c, x) PROVE ScalarsOK'
  BY <1>27 DEF Send
<1>28. ASSUME NEW a \in Agents, ClaimCheck(a) PROVE ScalarsOK'
  BY <1>28 DEF ClaimCheck
<1>29. ASSUME NEW a \in Agents, ClaimCommit(a) PROVE ScalarsOK'
  BY <1>29 DEF ClaimCommit, Writes
<1>30. ASSUME NEW a \in Agents, ClaimTell(a) PROVE ScalarsOK'
  BY <1>30 DEF ClaimTell, Tells
<1>31. ASSUME NEW a \in Agents, AgentConnects(a) PROVE ScalarsOK'
  BY <1>31 DEF AgentConnects
<1>32. ASSUME NEW a \in Agents, AgentHears(a) PROVE ScalarsOK'
  BY <1>32 DEF AgentHears
<1>33. ASSUME NEW a \in Agents, AgentReplies(a) PROVE ScalarsOK'
  BY <1>33 DEF AgentReplies
<1>34. ASSUME NEW a \in Agents, AgentEndsSession(a) PROVE ScalarsOK'
  BY <1>34 DEF AgentEndsSession, EndTold
<1>35. ASSUME NEW a \in Agents, AgentClosesSession(a) PROVE ScalarsOK'
  BY <1>35 DEF AgentClosesSession, CloseSession
<1>36. ASSUME NEW a \in Agents, AgentDrops(a) PROVE ScalarsOK'
  BY <1>36 DEF AgentDrops
<1>37. ASSUME NEW d \in Declines, DeclineCheck(d) PROVE ScalarsOK'
  BY <1>37 DEF DeclineCheck
<1>38. ASSUME NEW d \in Declines, DeclineCommit(d) PROVE ScalarsOK'
  BY <1>38 DEF DeclineCommit, Writes
<1>39. ASSUME NEW d \in Declines, DeclineTell(d) PROVE ScalarsOK'
  BY <1>39 DEF DeclineTell, Tells
<1>40. ASSUME NEW j \in Jobs, JobChecks(j) PROVE ScalarsOK'
  BY <1>40 DEF JobChecks
<1>41. ASSUME NEW j \in Jobs, JobEscalates(j) PROVE ScalarsOK'
  BY <1>41 DEF JobEscalates, Writes
<1>42. ASSUME NEW j \in Jobs, JobNotified(j) PROVE ScalarsOK'
  BY <1>42 DEF JobNotified, Writes
<1>43. ASSUME NEW j \in Jobs, JobPushes(j) PROVE ScalarsOK'
  BY <1>43 DEF JobPushes
<1>44. CASE Restart
  <2>1. UNCHANGED <<mode, ended, connects, replies>> /\ restarts' = restarts + 1
    BY <1>44 DEF Restart
  <2>2. registered' = FALSE /\ pushTo' = NoConn /\ guard' = NoConn /\ newest' = NoConn
    BY <1>44 DEF Restart
  <2>3. registered' \in BOOLEAN /\ pushTo' \in Conns \cup {NoConn}
    BY <2>2
  <2>4. guard' \in Conns \cup {NoConn} /\ newest' \in Conns \cup {NoConn}
    BY <2>2
  <2>5. mode' \in Modes /\ ended' \in BOOLEAN /\ connects' \in Nat /\ replies' \in Nat
    BY <2>1
  <2>6. restarts' \in Nat
    BY <2>1
  <2>. QED BY <2>3, <2>4, <2>5, <2>6
<1>45. CASE UNCHANGED vars
  BY <1>45 DEF vars
<1>. QED
  BY <1>1, <1>2, <1>3, <1>4, <1>5, <1>6, <1>7, <1>8, <1>9, <1>10, <1>11, <1>12, <1>13, <1>14,
     <1>15, <1>16, <1>17, <1>18, <1>19, <1>20, <1>21, <1>22, <1>23, <1>24, <1>25, <1>26, <1>27,
     <1>28,
     <1>29, <1>30, <1>31, <1>32, <1>33, <1>34, <1>35, <1>36, <1>37, <1>38, <1>39, <1>40, <1>41,
     <1>42,
     <1>43, <1>44, <1>45
     DEF Next, Customer, BotLoop, HumanLoop, Claim, Decline, Agent, Job

LEMMA QueuesOKKept == TypeOK /\ [Next]_vars => QueuesOK'
<1>. SUFFICES ASSUME TypeOK, [Next]_vars PROVE QueuesOK'
  OBVIOUS
<1>. ScalarsOK /\ QueuesOK /\ ConnsOK /\ CrmOK /\ FatesOK
  BY TypeSplit
<1>. USE NamesAssumption DEF QueuesOK, Frames, row, queues, push, conns, crm, fates, counts
<1>1. ASSUME NEW c \in Conns, Connect(c) PROVE QueuesOK'
  BY <1>1 DEF Connect, Goes
<1>2. ASSUME NEW c \in Conns, Disconnect(c) PROVE QueuesOK'
  BY <1>2 DEF Disconnect
<1>3. ASSUME NEW c \in Conns, Refetch(c) PROVE QueuesOK'
  BY <1>3 DEF Refetch
<1>4. ASSUME NEW c \in Conns, Enter(c) PROVE QueuesOK'
  BY <1>4 DEF Enter, Goes, EntersHuman, EntersBotLoop
<1>5. ASSUME NEW c \in Conns, BotFrame(c) PROVE QueuesOK'
  BY <1>5 DEF BotFrame, HandlesFrame, Reads, Goes, First
<1>6. ASSUME NEW c \in Conns, BotGone(c) PROVE QueuesOK'
  BY <1>6 DEF BotGone, Leaves, Goes, PopOwn
<1>7. ASSUME NEW c \in Conns, BotIdle(c) PROVE QueuesOK'
  BY <1>7 DEF BotIdle, Goes
<1>8. ASSUME NEW c \in Conns, BotPush(c) PROVE QueuesOK'
  BY <1>8 DEF BotPush, Delivers, EntersHuman, Goes
<1>9. ASSUME NEW c \in Conns, BotPushAndFrame(c) PROVE QueuesOK'
  BY <1>9, ForwardsType DEF BotPushAndFrame, AfterPush, HandlesFrame, EntersHuman
<1>10. ASSUME NEW c \in Conns, TurnReplies(c) PROVE QueuesOK'
  BY <1>10 DEF TurnReplies, Goes, ReleaseGuard
<1>11. ASSUME NEW c \in Conns, TurnResolves(c) PROVE QueuesOK'
  BY <1>11 DEF TurnResolves, Goes
<1>12. ASSUME NEW c \in Conns, TurnUndelivered(c) PROVE QueuesOK'
  BY <1>12 DEF TurnUndelivered, Leaves, Goes, PopOwn, ReleaseGuard
<1>13. ASSUME NEW c \in Conns, TurnEscalates(c) PROVE QueuesOK'
  BY <1>13 DEF TurnEscalates, Goes, Writes
<1>14. ASSUME NEW c \in Conns, EscalationTaken(c) PROVE QueuesOK'
  BY <1>14 DEF EscalationTaken, EntersHuman, Goes
<1>15. ASSUME NEW c \in Conns, EscalationFails(c) PROVE QueuesOK'
  BY <1>15 DEF EscalationFails, Writes, Goes, ReleaseGuard
<1>16. ASSUME NEW c \in Conns, BotEnds(c) PROVE QueuesOK'
  BY <1>16 DEF BotEnds, CloseSession, Goes
<1>17. ASSUME NEW c \in Conns, BotReportsClose(c) PROVE QueuesOK'
  BY <1>17 DEF BotReportsClose, Leaves, Goes, PopOwn, ReleaseGuard
<1>18. ASSUME NEW c \in Conns, HumanShows(c) PROVE QueuesOK'
  BY <1>18 DEF HumanShows, Takes, JoinedBy
<1>19. ASSUME NEW c \in Conns, HumanDeclined(c) PROVE QueuesOK'
  BY <1>19 DEF HumanDeclined, Takes, Goes, Arrived, First, Reads
<1>20. ASSUME NEW c \in Conns, HumanEnded(c) PROVE QueuesOK'
  BY <1>20 DEF HumanEnded, LeavesOnEnd, Takes, Leaves, Goes, PopOwn, ReleaseGuard
<1>21. ASSUME NEW c \in Conns, HumanFrame(c) PROVE QueuesOK'
  <2>1. customerQ' \in Seq(Frames)
    BY <1>21, SeqSteps DEF HumanFrame, Takes
  <2>. QED BY <1>21, <2>1, ForwardsType DEF HumanFrame
<1>22. ASSUME NEW c \in Conns, HumanGone(c) PROVE QueuesOK'
  <2>1. customerQ' \in Seq(Frames)
    BY <1>22, SeqSteps DEF HumanGone, Takes
  <2>2. agentQ' \in Seq(Texts \cup {"bye"})
    BY <1>22, SeqSteps DEF HumanGone
  <2>. QED BY <1>22, <2>1, <2>2 DEF HumanGone
<1>23. ASSUME NEW c \in Conns, HumanEnds(c) PROVE QueuesOK'
  BY <1>23 DEF HumanEnds, CloseSession, Goes
<1>24. ASSUME NEW c \in Conns, HumanReportsClose(c) PROVE QueuesOK'
  BY <1>24 DEF HumanReportsClose, Leaves, Goes, PopOwn, ReleaseGuard
<1>25. ASSUME NEW c \in Conns, HumanExpires(c) PROVE QueuesOK'
  BY <1>25 DEF HumanExpires, Goes
<1>26. ASSUME NEW c \in Conns, Reverts(c) PROVE QueuesOK'
  BY <1>26 DEF Reverts, Writes, Goes, EntersBotLoop, ReleaseGuard
<1>27. ASSUME NEW c \in Conns, NEW x \in Texts \cup {End}, Send(c, x) PROVE QueuesOK'
  BY <1>27 DEF Send
<1>28. ASSUME NEW a \in Agents, ClaimCheck(a) PROVE QueuesOK'
  BY <1>28 DEF ClaimCheck
<1>29. ASSUME NEW a \in Agents, ClaimCommit(a) PROVE QueuesOK'
  BY <1>29 DEF ClaimCommit, Writes
<1>30. ASSUME NEW a \in Agents, ClaimTell(a) PROVE QueuesOK'
  BY <1>30 DEF ClaimTell, Tells
<1>31. ASSUME NEW a \in Agents, AgentConnects(a) PROVE QueuesOK'
  BY <1>31 DEF AgentConnects
<1>32. ASSUME NEW a \in Agents, AgentHears(a) PROVE QueuesOK'
  BY <1>32 DEF AgentHears
<1>33. ASSUME NEW a \in Agents, AgentReplies(a) PROVE QueuesOK'
  BY <1>33 DEF AgentReplies
<1>34. ASSUME NEW a \in Agents, AgentEndsSession(a) PROVE QueuesOK'
  BY <1>34 DEF AgentEndsSession, EndTold
<1>35. ASSUME NEW a \in Agents, AgentClosesSession(a) PROVE QueuesOK'
  BY <1>35 DEF AgentClosesSession, CloseSession
<1>36. ASSUME NEW a \in Agents, AgentDrops(a) PROVE QueuesOK'
  BY <1>36 DEF AgentDrops
<1>37. ASSUME NEW d \in Declines, DeclineCheck(d) PROVE QueuesOK'
  BY <1>37 DEF DeclineCheck
<1>38. ASSUME NEW d \in Declines, DeclineCommit(d) PROVE QueuesOK'
  BY <1>38 DEF DeclineCommit, Writes
<1>39. ASSUME NEW d \in Declines, DeclineTell(d) PROVE QueuesOK'
  BY <1>39 DEF DeclineTell, Tells
<1>40. ASSUME NEW j \in Jobs, JobChecks(j) PROVE QueuesOK'
  BY <1>40 DEF JobChecks
<1>41. ASSUME NEW j \in Jobs, JobEscalates(j) PROVE QueuesOK'
  BY <1>41 DEF JobEscalates, Writes
<1>42. ASSUME NEW j \in Jobs, JobNotified(j) PROVE QueuesOK'
  BY <1>42 DEF JobNotified, Writes
<1>43. ASSUME NEW j \in Jobs, JobPushes(j) PROVE QueuesOK'
  BY <1>43 DEF JobPushes
<1>44. CASE Restart
  BY <1>44 DEF Restart
<1>45. CASE UNCHANGED vars
  BY <1>45 DEF vars
<1>. QED
  BY <1>1, <1>2, <1>3, <1>4, <1>5, <1>6, <1>7, <1>8, <1>9, <1>10, <1>11, <1>12, <1>13, <1>14,
     <1>15, <1>16, <1>17, <1>18, <1>19, <1>20, <1>21, <1>22, <1>23, <1>24, <1>25, <1>26, <1>27,
     <1>28,
     <1>29, <1>30, <1>31, <1>32, <1>33, <1>34, <1>35, <1>36, <1>37, <1>38, <1>39, <1>40, <1>41,
     <1>42,
     <1>43, <1>44, <1>45
     DEF Next, Customer, BotLoop, HumanLoop, Claim, Decline, Agent, Job

LEMMA ConnsOKKept == TypeOK /\ [Next]_vars => ConnsOK'
<1>. SUFFICES ASSUME TypeOK, [Next]_vars PROVE ConnsOK'
  OBVIOUS
<1>. ScalarsOK /\ QueuesOK /\ ConnsOK /\ CrmOK /\ FatesOK
  BY TypeSplit
<1>. USE NamesAssumption DEF ConnsOK, ScalarsOK, Places, Modes, Handover, row, queues, push,
   conns, crm, fates, counts
<1>1. ASSUME NEW c \in Conns, Connect(c) PROVE ConnsOK'
  BY <1>1 DEF Connect, Goes
<1>2. ASSUME NEW c \in Conns, Disconnect(c) PROVE ConnsOK'
  BY <1>2 DEF Disconnect
<1>3. ASSUME NEW c \in Conns, Refetch(c) PROVE ConnsOK'
  BY <1>3 DEF Refetch
<1>4. ASSUME NEW c \in Conns, Enter(c) PROVE ConnsOK'
  <2>1. pushQ' \in [Conns -> Nat]
    BY <1>4 DEF Enter, EntersBotLoop
  <2>2. pc' \in [Conns -> Places]
    BY <1>4 DEF Enter, EntersHuman, Goes
  <2>3. seen' \in [Conns -> Modes]
    BY <1>4 DEF Enter
  <2>4. joined' \in [Conns -> BOOLEAN] /\ via' \in [Conns -> {"connect", "turn", "push"}]
    BY <1>4 DEF Enter, EntersHuman
  <2>. QED BY <2>1, <2>2, <2>3, <2>4
<1>5. ASSUME NEW c \in Conns, BotFrame(c) PROVE ConnsOK'
  BY <1>5 DEF BotFrame, HandlesFrame, Reads, Goes, First
<1>6. ASSUME NEW c \in Conns, BotGone(c) PROVE ConnsOK'
  BY <1>6 DEF BotGone, Leaves, Goes, PopOwn
<1>7. ASSUME NEW c \in Conns, BotIdle(c) PROVE ConnsOK'
  BY <1>7 DEF BotIdle, Goes
<1>8. ASSUME NEW c \in Conns, BotPush(c) PROVE ConnsOK'
  <2>1. pushQ' \in [Conns -> Nat]
    BY <1>8 DEF BotPush, Delivers
  <2>2. pc' \in [Conns -> Places]
    BY <1>8 DEF BotPush, EntersHuman, Goes
  <2>3. joined' \in [Conns -> BOOLEAN] /\ via' \in [Conns -> {"connect", "turn", "push"}]
    BY <1>8 DEF BotPush, EntersHuman
  <2>. QED BY <1>8, <2>1, <2>2, <2>3 DEF BotPush
<1>9. ASSUME NEW c \in Conns, BotPushAndFrame(c) PROVE ConnsOK'
  <2>1. pushQ' \in [Conns -> Nat]
    BY <1>9 DEF BotPushAndFrame, Delivers
  <2>2. pc' \in [Conns -> Places]
    BY <1>9 DEF BotPushAndFrame, AfterPush, HandlesFrame, EntersHuman, Goes
  <2>3. joined' \in [Conns -> BOOLEAN] /\ via' \in [Conns -> {"connect", "turn", "push"}]
    BY <1>9 DEF BotPushAndFrame, AfterPush, HandlesFrame, EntersHuman
  <2>. QED BY <1>9, <2>1, <2>2, <2>3 DEF BotPushAndFrame, AfterPush, HandlesFrame
<1>10. ASSUME NEW c \in Conns, TurnReplies(c) PROVE ConnsOK'
  BY <1>10 DEF TurnReplies, Goes, ReleaseGuard
<1>11. ASSUME NEW c \in Conns, TurnResolves(c) PROVE ConnsOK'
  BY <1>11 DEF TurnResolves, Goes
<1>12. ASSUME NEW c \in Conns, TurnUndelivered(c) PROVE ConnsOK'
  BY <1>12 DEF TurnUndelivered, Leaves, Goes, PopOwn, ReleaseGuard
<1>13. ASSUME NEW c \in Conns, TurnEscalates(c) PROVE ConnsOK'
  BY <1>13 DEF TurnEscalates, Goes, Writes
<1>14. ASSUME NEW c \in Conns, EscalationTaken(c) PROVE ConnsOK'
  BY <1>14 DEF EscalationTaken, EntersHuman, Goes
<1>15. ASSUME NEW c \in Conns, EscalationFails(c) PROVE ConnsOK'
  BY <1>15 DEF EscalationFails, Writes, Goes, ReleaseGuard
<1>16. ASSUME NEW c \in Conns, BotEnds(c) PROVE ConnsOK'
  BY <1>16 DEF BotEnds, CloseSession, Goes
<1>17. ASSUME NEW c \in Conns, BotReportsClose(c) PROVE ConnsOK'
  BY <1>17 DEF BotReportsClose, Leaves, Goes, PopOwn, ReleaseGuard
<1>18. ASSUME NEW c \in Conns, HumanShows(c) PROVE ConnsOK'
  BY <1>18 DEF HumanShows, Takes, JoinedBy
<1>19. ASSUME NEW c \in Conns, HumanDeclined(c) PROVE ConnsOK'
  BY <1>19 DEF HumanDeclined, Takes, Goes, Arrived, First, Reads
<1>20. ASSUME NEW c \in Conns, HumanEnded(c) PROVE ConnsOK'
  BY <1>20 DEF HumanEnded, LeavesOnEnd, Takes, Leaves, Goes, PopOwn, ReleaseGuard
<1>21. ASSUME NEW c \in Conns, HumanFrame(c) PROVE ConnsOK'
  BY <1>21 DEF HumanFrame, Arrived, First, Takes, JoinedBy, Reads, Forwards, Relays, Goes
<1>22. ASSUME NEW c \in Conns, HumanGone(c) PROVE ConnsOK'
  BY <1>22 DEF HumanGone, Takes, Leaves, Goes, PopOwn, ReleaseGuard
<1>23. ASSUME NEW c \in Conns, HumanEnds(c) PROVE ConnsOK'
  BY <1>23 DEF HumanEnds, CloseSession, Goes
<1>24. ASSUME NEW c \in Conns, HumanReportsClose(c) PROVE ConnsOK'
  BY <1>24 DEF HumanReportsClose, Leaves, Goes, PopOwn, ReleaseGuard
<1>25. ASSUME NEW c \in Conns, HumanExpires(c) PROVE ConnsOK'
  BY <1>25 DEF HumanExpires, Goes
<1>26. ASSUME NEW c \in Conns, Reverts(c) PROVE ConnsOK'
  BY <1>26 DEF Reverts, Writes, Goes, EntersBotLoop, ReleaseGuard
<1>27. ASSUME NEW c \in Conns, NEW x \in Texts \cup {End}, Send(c, x) PROVE ConnsOK'
  BY <1>27 DEF Send
<1>28. ASSUME NEW a \in Agents, ClaimCheck(a) PROVE ConnsOK'
  BY <1>28 DEF ClaimCheck
<1>29. ASSUME NEW a \in Agents, ClaimCommit(a) PROVE ConnsOK'
  BY <1>29 DEF ClaimCommit, Writes
<1>30. ASSUME NEW a \in Agents, ClaimTell(a) PROVE ConnsOK'
  BY <1>30 DEF ClaimTell, Tells
<1>31. ASSUME NEW a \in Agents, AgentConnects(a) PROVE ConnsOK'
  BY <1>31 DEF AgentConnects
<1>32. ASSUME NEW a \in Agents, AgentHears(a) PROVE ConnsOK'
  BY <1>32 DEF AgentHears
<1>33. ASSUME NEW a \in Agents, AgentReplies(a) PROVE ConnsOK'
  BY <1>33 DEF AgentReplies
<1>34. ASSUME NEW a \in Agents, AgentEndsSession(a) PROVE ConnsOK'
  BY <1>34 DEF AgentEndsSession, EndTold
<1>35. ASSUME NEW a \in Agents, AgentClosesSession(a) PROVE ConnsOK'
  BY <1>35 DEF AgentClosesSession, CloseSession
<1>36. ASSUME NEW a \in Agents, AgentDrops(a) PROVE ConnsOK'
  BY <1>36 DEF AgentDrops
<1>37. ASSUME NEW d \in Declines, DeclineCheck(d) PROVE ConnsOK'
  BY <1>37 DEF DeclineCheck
<1>38. ASSUME NEW d \in Declines, DeclineCommit(d) PROVE ConnsOK'
  BY <1>38 DEF DeclineCommit, Writes
<1>39. ASSUME NEW d \in Declines, DeclineTell(d) PROVE ConnsOK'
  BY <1>39 DEF DeclineTell, Tells
<1>40. ASSUME NEW j \in Jobs, JobChecks(j) PROVE ConnsOK'
  BY <1>40 DEF JobChecks
<1>41. ASSUME NEW j \in Jobs, JobEscalates(j) PROVE ConnsOK'
  BY <1>41 DEF JobEscalates, Writes
<1>42. ASSUME NEW j \in Jobs, JobNotified(j) PROVE ConnsOK'
  BY <1>42 DEF JobNotified, Writes
<1>43. ASSUME NEW j \in Jobs, JobPushes(j) PROVE ConnsOK'
  BY <1>43 DEF JobPushes
<1>44. CASE Restart
  BY <1>44 DEF Restart
<1>45. CASE UNCHANGED vars
  BY <1>45 DEF vars
<1>. QED
  BY <1>1, <1>2, <1>3, <1>4, <1>5, <1>6, <1>7, <1>8, <1>9, <1>10, <1>11, <1>12, <1>13, <1>14,
     <1>15, <1>16, <1>17, <1>18, <1>19, <1>20, <1>21, <1>22, <1>23, <1>24, <1>25, <1>26, <1>27,
     <1>28,
     <1>29, <1>30, <1>31, <1>32, <1>33, <1>34, <1>35, <1>36, <1>37, <1>38, <1>39, <1>40, <1>41,
     <1>42,
     <1>43, <1>44, <1>45
     DEF Next, Customer, BotLoop, HumanLoop, Claim, Decline, Agent, Job

LEMMA CrmOKKept == TypeOK /\ [Next]_vars => CrmOK'
<1>. SUFFICES ASSUME TypeOK, [Next]_vars PROVE CrmOK'
  OBVIOUS
<1>. ScalarsOK /\ QueuesOK /\ ConnsOK /\ CrmOK /\ FatesOK
  BY TypeSplit
<1>. USE NamesAssumption DEF CrmOK, row, queues, push, conns, crm, fates, counts
<1>1. ASSUME NEW c \in Conns, Connect(c) PROVE CrmOK'
  BY <1>1 DEF Connect, Goes
<1>2. ASSUME NEW c \in Conns, Disconnect(c) PROVE CrmOK'
  BY <1>2 DEF Disconnect
<1>3. ASSUME NEW c \in Conns, Refetch(c) PROVE CrmOK'
  BY <1>3 DEF Refetch
<1>4. ASSUME NEW c \in Conns, Enter(c) PROVE CrmOK'
  BY <1>4 DEF Enter, Goes, EntersHuman, EntersBotLoop
<1>5. ASSUME NEW c \in Conns, BotFrame(c) PROVE CrmOK'
  BY <1>5 DEF BotFrame, HandlesFrame, Reads, Goes, First
<1>6. ASSUME NEW c \in Conns, BotGone(c) PROVE CrmOK'
  BY <1>6 DEF BotGone, Leaves, Goes, PopOwn
<1>7. ASSUME NEW c \in Conns, BotIdle(c) PROVE CrmOK'
  BY <1>7 DEF BotIdle, Goes
<1>8. ASSUME NEW c \in Conns, BotPush(c) PROVE CrmOK'
  BY <1>8 DEF BotPush, Delivers, EntersHuman, Goes
<1>9. ASSUME NEW c \in Conns, BotPushAndFrame(c) PROVE CrmOK'
  BY <1>9 DEF BotPushAndFrame, Delivers, AfterPush, HandlesFrame, Reads, EntersHuman, Goes,
     Forwards, Relays, First, AnsweredAfterHandOff
<1>10. ASSUME NEW c \in Conns, TurnReplies(c) PROVE CrmOK'
  BY <1>10 DEF TurnReplies, Goes, ReleaseGuard
<1>11. ASSUME NEW c \in Conns, TurnResolves(c) PROVE CrmOK'
  BY <1>11 DEF TurnResolves, Goes
<1>12. ASSUME NEW c \in Conns, TurnUndelivered(c) PROVE CrmOK'
  BY <1>12 DEF TurnUndelivered, Leaves, Goes, PopOwn, ReleaseGuard
<1>13. ASSUME NEW c \in Conns, TurnEscalates(c) PROVE CrmOK'
  BY <1>13 DEF TurnEscalates, Goes, Writes
<1>14. ASSUME NEW c \in Conns, EscalationTaken(c) PROVE CrmOK'
  BY <1>14 DEF EscalationTaken, EntersHuman, Goes
<1>15. ASSUME NEW c \in Conns, EscalationFails(c) PROVE CrmOK'
  BY <1>15 DEF EscalationFails, Writes, Goes, ReleaseGuard
<1>16. ASSUME NEW c \in Conns, BotEnds(c) PROVE CrmOK'
  BY <1>16 DEF BotEnds, CloseSession, Goes
<1>17. ASSUME NEW c \in Conns, BotReportsClose(c) PROVE CrmOK'
  BY <1>17 DEF BotReportsClose, Leaves, Goes, PopOwn, ReleaseGuard
<1>18. ASSUME NEW c \in Conns, HumanShows(c) PROVE CrmOK'
  BY <1>18 DEF HumanShows, Takes, JoinedBy
<1>19. ASSUME NEW c \in Conns, HumanDeclined(c) PROVE CrmOK'
  BY <1>19 DEF HumanDeclined, Takes, Goes, Arrived, First, Reads
<1>20. ASSUME NEW c \in Conns, HumanEnded(c) PROVE CrmOK'
  BY <1>20 DEF HumanEnded, LeavesOnEnd, Takes, Leaves, Goes, PopOwn, ReleaseGuard
<1>21. ASSUME NEW c \in Conns, HumanFrame(c) PROVE CrmOK'
  BY <1>21 DEF HumanFrame, Arrived, First, Takes, JoinedBy, Reads, Forwards, Relays, Goes
<1>22. ASSUME NEW c \in Conns, HumanGone(c) PROVE CrmOK'
  BY <1>22 DEF HumanGone, Takes, Leaves, Goes, PopOwn, ReleaseGuard
<1>23. ASSUME NEW c \in Conns, HumanEnds(c) PROVE CrmOK'
  BY <1>23 DEF HumanEnds, CloseSession, Goes
<1>24. ASSUME NEW c \in Conns, HumanReportsClose(c) PROVE CrmOK'
  BY <1>24 DEF HumanReportsClose, Leaves, Goes, PopOwn, ReleaseGuard
<1>25. ASSUME NEW c \in Conns, HumanExpires(c) PROVE CrmOK'
  BY <1>25 DEF HumanExpires, Goes
<1>26. ASSUME NEW c \in Conns, Reverts(c) PROVE CrmOK'
  BY <1>26 DEF Reverts, Writes, Goes, EntersBotLoop, ReleaseGuard
<1>27. ASSUME NEW c \in Conns, NEW x \in Texts \cup {End}, Send(c, x) PROVE CrmOK'
  BY <1>27 DEF Send
<1>28. ASSUME NEW a \in Agents, ClaimCheck(a) PROVE CrmOK'
  BY <1>28 DEF ClaimCheck
<1>29. ASSUME NEW a \in Agents, ClaimCommit(a) PROVE CrmOK'
  BY <1>29 DEF ClaimCommit, Writes
<1>30. ASSUME NEW a \in Agents, ClaimTell(a) PROVE CrmOK'
  BY <1>30 DEF ClaimTell, Tells
<1>31. ASSUME NEW a \in Agents, AgentConnects(a) PROVE CrmOK'
  BY <1>31 DEF AgentConnects
<1>32. ASSUME NEW a \in Agents, AgentHears(a) PROVE CrmOK'
  BY <1>32 DEF AgentHears
<1>33. ASSUME NEW a \in Agents, AgentReplies(a) PROVE CrmOK'
  BY <1>33 DEF AgentReplies
<1>34. ASSUME NEW a \in Agents, AgentEndsSession(a) PROVE CrmOK'
  BY <1>34 DEF AgentEndsSession, EndTold
<1>35. ASSUME NEW a \in Agents, AgentClosesSession(a) PROVE CrmOK'
  BY <1>35 DEF AgentClosesSession, CloseSession
<1>36. ASSUME NEW a \in Agents, AgentDrops(a) PROVE CrmOK'
  BY <1>36 DEF AgentDrops
<1>37. ASSUME NEW d \in Declines, DeclineCheck(d) PROVE CrmOK'
  BY <1>37 DEF DeclineCheck
<1>38. ASSUME NEW d \in Declines, DeclineCommit(d) PROVE CrmOK'
  BY <1>38 DEF DeclineCommit, Writes
<1>39. ASSUME NEW d \in Declines, DeclineTell(d) PROVE CrmOK'
  BY <1>39 DEF DeclineTell, Tells
<1>40. ASSUME NEW j \in Jobs, JobChecks(j) PROVE CrmOK'
  BY <1>40 DEF JobChecks
<1>41. ASSUME NEW j \in Jobs, JobEscalates(j) PROVE CrmOK'
  BY <1>41 DEF JobEscalates, Writes
<1>42. ASSUME NEW j \in Jobs, JobNotified(j) PROVE CrmOK'
  BY <1>42 DEF JobNotified, Writes
<1>43. ASSUME NEW j \in Jobs, JobPushes(j) PROVE CrmOK'
  BY <1>43 DEF JobPushes
<1>44. CASE Restart
  BY <1>44 DEF Restart
<1>45. CASE UNCHANGED vars
  BY <1>45 DEF vars
<1>. QED
  BY <1>1, <1>2, <1>3, <1>4, <1>5, <1>6, <1>7, <1>8, <1>9, <1>10, <1>11, <1>12, <1>13, <1>14,
     <1>15, <1>16, <1>17, <1>18, <1>19, <1>20, <1>21, <1>22, <1>23, <1>24, <1>25, <1>26, <1>27,
     <1>28,
     <1>29, <1>30, <1>31, <1>32, <1>33, <1>34, <1>35, <1>36, <1>37, <1>38, <1>39, <1>40, <1>41,
     <1>42,
     <1>43, <1>44, <1>45
     DEF Next, Customer, BotLoop, HumanLoop, Claim, Decline, Agent, Job

LEMMA FatesOKKept == TypeOK /\ [Next]_vars => FatesOK'
<1>. SUFFICES ASSUME TypeOK, [Next]_vars PROVE FatesOK'
  OBVIOUS
<1>. ScalarsOK /\ QueuesOK /\ ConnsOK /\ CrmOK /\ FatesOK
  BY TypeSplit
<1>. USE NamesAssumption DEF FatesOK, row, queues, push, conns, crm, fates, counts
<1>1. ASSUME NEW c \in Conns, Connect(c) PROVE FatesOK'
  BY <1>1 DEF Connect, Goes
<1>2. ASSUME NEW c \in Conns, Disconnect(c) PROVE FatesOK'
  BY <1>2 DEF Disconnect
<1>3. ASSUME NEW c \in Conns, Refetch(c) PROVE FatesOK'
  BY <1>3 DEF Refetch
<1>4. ASSUME NEW c \in Conns, Enter(c) PROVE FatesOK'
  BY <1>4 DEF Enter, Goes, EntersHuman, EntersBotLoop
<1>5. ASSUME NEW c \in Conns, BotFrame(c) PROVE FatesOK'
  <2>1. inbox' \in [Conns -> Seq(Texts \cup {End, "gone"})]
    BY <1>5, ReadsType DEF BotFrame, HandlesFrame
  <2>. QED BY <1>5, <2>1 DEF BotFrame, HandlesFrame
<1>6. ASSUME NEW c \in Conns, BotGone(c) PROVE FatesOK'
  BY <1>6 DEF BotGone, Leaves, Goes, PopOwn
<1>7. ASSUME NEW c \in Conns, BotIdle(c) PROVE FatesOK'
  BY <1>7 DEF BotIdle, Goes
<1>8. ASSUME NEW c \in Conns, BotPush(c) PROVE FatesOK'
  BY <1>8 DEF BotPush, Delivers, EntersHuman, Goes
<1>9. ASSUME NEW c \in Conns, BotPushAndFrame(c) PROVE FatesOK'
  <2>1. inbox' \in [Conns -> Seq(Texts \cup {End, "gone"})]
    BY <1>9, ReadsType DEF BotPushAndFrame, AfterPush, HandlesFrame
  <2>. QED BY <1>9, <2>1 DEF BotPushAndFrame, AfterPush, HandlesFrame, AnsweredAfterHandOff
<1>10. ASSUME NEW c \in Conns, TurnReplies(c) PROVE FatesOK'
  BY <1>10 DEF TurnReplies, Goes, ReleaseGuard
<1>11. ASSUME NEW c \in Conns, TurnResolves(c) PROVE FatesOK'
  BY <1>11 DEF TurnResolves, Goes
<1>12. ASSUME NEW c \in Conns, TurnUndelivered(c) PROVE FatesOK'
  BY <1>12 DEF TurnUndelivered, Leaves, Goes, PopOwn, ReleaseGuard
<1>13. ASSUME NEW c \in Conns, TurnEscalates(c) PROVE FatesOK'
  BY <1>13 DEF TurnEscalates, Goes, Writes
<1>14. ASSUME NEW c \in Conns, EscalationTaken(c) PROVE FatesOK'
  BY <1>14 DEF EscalationTaken, EntersHuman, Goes
<1>15. ASSUME NEW c \in Conns, EscalationFails(c) PROVE FatesOK'
  BY <1>15 DEF EscalationFails, Writes, Goes, ReleaseGuard
<1>16. ASSUME NEW c \in Conns, BotEnds(c) PROVE FatesOK'
  BY <1>16 DEF BotEnds, CloseSession, Goes
<1>17. ASSUME NEW c \in Conns, BotReportsClose(c) PROVE FatesOK'
  BY <1>17 DEF BotReportsClose, Leaves, Goes, PopOwn, ReleaseGuard
<1>18. ASSUME NEW c \in Conns, HumanShows(c) PROVE FatesOK'
  BY <1>18 DEF HumanShows, Takes, JoinedBy
<1>19. ASSUME NEW c \in Conns, HumanDeclined(c) PROVE FatesOK'
  <2>1. inbox' \in [Conns -> Seq(Texts \cup {End, "gone"})]
    BY <1>19, ReadsType DEF HumanDeclined
  <2>. QED BY <1>19, <2>1 DEF HumanDeclined
<1>20. ASSUME NEW c \in Conns, HumanEnded(c) PROVE FatesOK'
  BY <1>20 DEF HumanEnded, LeavesOnEnd, Takes, Leaves, Goes, PopOwn, ReleaseGuard
<1>21. ASSUME NEW c \in Conns, HumanFrame(c) PROVE FatesOK'
  <2>1. inbox' \in [Conns -> Seq(Texts \cup {End, "gone"})]
    BY <1>21, ReadsType DEF HumanFrame
  <2>. QED BY <1>21, <2>1 DEF HumanFrame
<1>22. ASSUME NEW c \in Conns, HumanGone(c) PROVE FatesOK'
  BY <1>22 DEF HumanGone, Takes, Leaves, Goes, PopOwn, ReleaseGuard
<1>23. ASSUME NEW c \in Conns, HumanEnds(c) PROVE FatesOK'
  BY <1>23 DEF HumanEnds, CloseSession, Goes
<1>24. ASSUME NEW c \in Conns, HumanReportsClose(c) PROVE FatesOK'
  BY <1>24 DEF HumanReportsClose, Leaves, Goes, PopOwn, ReleaseGuard
<1>25. ASSUME NEW c \in Conns, HumanExpires(c) PROVE FatesOK'
  BY <1>25 DEF HumanExpires, Goes
<1>26. ASSUME NEW c \in Conns, Reverts(c) PROVE FatesOK'
  BY <1>26 DEF Reverts, Writes, Goes, EntersBotLoop, ReleaseGuard
<1>27. ASSUME NEW c \in Conns, NEW x \in Texts \cup {End}, Send(c, x) PROVE FatesOK'
  BY <1>27 DEF Send
<1>28. ASSUME NEW a \in Agents, ClaimCheck(a) PROVE FatesOK'
  BY <1>28 DEF ClaimCheck
<1>29. ASSUME NEW a \in Agents, ClaimCommit(a) PROVE FatesOK'
  BY <1>29 DEF ClaimCommit, Writes
<1>30. ASSUME NEW a \in Agents, ClaimTell(a) PROVE FatesOK'
  BY <1>30 DEF ClaimTell, Tells
<1>31. ASSUME NEW a \in Agents, AgentConnects(a) PROVE FatesOK'
  BY <1>31 DEF AgentConnects
<1>32. ASSUME NEW a \in Agents, AgentHears(a) PROVE FatesOK'
  BY <1>32 DEF AgentHears
<1>33. ASSUME NEW a \in Agents, AgentReplies(a) PROVE FatesOK'
  BY <1>33 DEF AgentReplies
<1>34. ASSUME NEW a \in Agents, AgentEndsSession(a) PROVE FatesOK'
  BY <1>34 DEF AgentEndsSession, EndTold
<1>35. ASSUME NEW a \in Agents, AgentClosesSession(a) PROVE FatesOK'
  BY <1>35 DEF AgentClosesSession, CloseSession
<1>36. ASSUME NEW a \in Agents, AgentDrops(a) PROVE FatesOK'
  BY <1>36 DEF AgentDrops
<1>37. ASSUME NEW d \in Declines, DeclineCheck(d) PROVE FatesOK'
  BY <1>37 DEF DeclineCheck
<1>38. ASSUME NEW d \in Declines, DeclineCommit(d) PROVE FatesOK'
  BY <1>38 DEF DeclineCommit, Writes
<1>39. ASSUME NEW d \in Declines, DeclineTell(d) PROVE FatesOK'
  BY <1>39 DEF DeclineTell, Tells
<1>40. ASSUME NEW j \in Jobs, JobChecks(j) PROVE FatesOK'
  BY <1>40 DEF JobChecks
<1>41. ASSUME NEW j \in Jobs, JobEscalates(j) PROVE FatesOK'
  BY <1>41 DEF JobEscalates, Writes
<1>42. ASSUME NEW j \in Jobs, JobNotified(j) PROVE FatesOK'
  BY <1>42 DEF JobNotified, Writes
<1>43. ASSUME NEW j \in Jobs, JobPushes(j) PROVE FatesOK'
  BY <1>43 DEF JobPushes
<1>44. CASE Restart
  <2>1. inbox' \in [Conns -> Seq(Texts \cup {End, "gone"})]
    BY <1>44 DEF Restart
  <2>2. UNCHANGED <<sent, answered, refused>>
    BY <1>44 DEF Restart
  <2>. DEFINE Dropped == UNION {Elems(inbox[c]) : c \in Conns}
  <2>3. unread' = unread \cup (Dropped \cap Texts)
    BY <1>44 DEF Restart
  <2>. HIDE DEF Dropped
  <2>5. unread' \subseteq Texts
    BY <2>3
  <2>. QED BY <2>1, <2>2, <2>5
<1>45. CASE UNCHANGED vars
  BY <1>45 DEF vars
<1>. QED
  BY <1>1, <1>2, <1>3, <1>4, <1>5, <1>6, <1>7, <1>8, <1>9, <1>10, <1>11, <1>12, <1>13, <1>14,
     <1>15, <1>16, <1>17, <1>18, <1>19, <1>20, <1>21, <1>22, <1>23, <1>24, <1>25, <1>26, <1>27,
     <1>28,
     <1>29, <1>30, <1>31, <1>32, <1>33, <1>34, <1>35, <1>36, <1>37, <1>38, <1>39, <1>40, <1>41,
     <1>42,
     <1>43, <1>44, <1>45
     DEF Next, Customer, BotLoop, HumanLoop, Claim, Decline, Agent, Job

-----------------------------------------------------------------------------
(* One addressee: the inductive invariant. A message that waits on a socket waits
   there once, and nobody was given it. *)

Waits(c, t) == t \in Texts /\ t \in Elems(inbox[c])

NoRepeat(s) == \A i, k \in DOMAIN s : s[i] \in Texts /\ s[i] = s[k] => i = k

WaitingIsFresh ==
    \A c \in Conns, t \in Texts : Waits(c, t) => t \in sent /\ t \notin answered /\ t \notin Elems(relayed)
WaitsOnce ==
    /\ \A c \in Conns : NoRepeat(inbox[c])
    /\ \A c, d \in Conns, t \in Texts : Waits(c, t) /\ Waits(d, t) => c = d
GivenWasSent == answered \cup Elems(relayed) \subseteq sent
GivenOnce == Elems(relayed) \cap answered = {} /\ NoRepeat(relayed)
Placed ==
    \A t \in Texts : t \in sent =>
        \/ \E c \in Conns : Waits(c, t)
        \/ t \in answered \/ t \in Elems(relayed) \/ t \in refused \/ t \in unread

AddresseeInv ==
    TypeOK /\ WaitingIsFresh /\ WaitsOnce /\ GivenWasSent /\ GivenOnce /\ Placed

messages == <<inbox, fates>>

LEMMA AppendRange ==
    ASSUME NEW S, NEW s \in Seq(S), NEW e \in S
    PROVE  /\ Elems(Append(s, e)) = Elems(s) \cup {e}
           /\ NoRepeat(s) /\ (e \in Texts => e \notin Elems(s)) => NoRepeat(Append(s, e))
<1>1. /\ DOMAIN s = 1 .. Len(s) /\ Len(s) \in Nat
      /\ DOMAIN Append(s, e) = 1 .. Len(s) + 1
      /\ \A i \in 1 .. Len(s) : Append(s, e)[i] = s[i]
      /\ Append(s, e)[Len(s) + 1] = e
  OBVIOUS
<1>2. 1 .. Len(s) + 1 = (1 .. Len(s)) \cup {Len(s) + 1}
  BY <1>1
<1>3. Elems(Append(s, e)) = Elems(s) \cup {e}
  BY <1>1, <1>2 DEF Elems
<1>4. ASSUME NoRepeat(s), e \in Texts => e \notin Elems(s) PROVE NoRepeat(Append(s, e))
  BY <1>1, <1>2, <1>4 DEF NoRepeat, Elems
<1>. QED BY <1>3, <1>4

LEMMA TailRange ==
    ASSUME NEW S, NEW s \in Seq(S), s # <<>>
    PROVE  /\ Elems(s) = Elems(Tail(s)) \cup {Head(s)}
           /\ NoRepeat(s) => /\ NoRepeat(Tail(s))
                             /\ Head(s) \in Texts => Head(s) \notin Elems(Tail(s))
<1>1. /\ DOMAIN s = 1 .. Len(s) /\ Len(s) \in Nat \ {0} /\ Head(s) = s[1]
      /\ DOMAIN Tail(s) = 1 .. Len(s) - 1
      /\ \A i \in 1 .. Len(s) - 1 : Tail(s)[i] = s[i + 1] /\ i + 1 \in 1 .. Len(s) /\ i + 1 # 1
  OBVIOUS
<1>2. \A k \in 1 .. Len(s) : k = 1 \/ (k - 1 \in 1 .. Len(s) - 1 /\ Tail(s)[k - 1] = s[k])
  BY <1>1
<1>3. Elems(s) = Elems(Tail(s)) \cup {Head(s)}
  <2>1. ASSUME NEW e, e \in Elems(s) PROVE e \in Elems(Tail(s)) \/ e = Head(s)
    <3>1. PICK k \in 1 .. Len(s) : e = s[k]
      BY <1>1, <2>1 DEF Elems
    <3>. QED BY <1>1, <1>2, <3>1 DEF Elems
  <2>2. ASSUME NEW e, e \in Elems(Tail(s)) PROVE e \in Elems(s)
    <3>1. PICK k \in 1 .. Len(s) - 1 : e = Tail(s)[k]
      BY <1>1, <2>2 DEF Elems
    <3>. QED BY <1>1, <3>1 DEF Elems
  <2>3. Head(s) \in Elems(s)
    BY <1>1 DEF Elems
  <2>. QED BY <2>1, <2>2, <2>3
<1>4. ASSUME NoRepeat(s) PROVE NoRepeat(Tail(s)) /\ (Head(s) \in Texts => Head(s) \notin Elems(Tail(s)))
  BY <1>1, <1>4 DEF NoRepeat, Elems
<1>. QED BY <1>3, <1>4

(* The effects a step can have on the messages. *)
Arrives(c, x) ==
    /\ x \in Texts => x \notin sent
    /\ inbox' = [inbox EXCEPT ![c] = Append(@, x)]
    /\ x \in Texts => sent' = sent \cup {x}
    /\ x \notin Texts => sent' \cap Texts = sent \cap Texts /\ sent \subseteq sent'
    /\ UNCHANGED <<answered, refused, relayed, unread>>

GoesTo(t) ==
    \/ answered' = answered \cup {t} /\ UNCHANGED <<refused, relayed, unread>>
    \/ refused' = refused \cup {t} /\ UNCHANGED <<answered, relayed, unread>>
    \/ relayed' = Append(relayed, t) /\ UNCHANGED <<answered, refused, unread>>
    \/ unread' = unread \cup {t} /\ UNCHANGED <<answered, refused, relayed>>

Handles(c) ==
    /\ Arrived(c) /\ Reads(c) /\ UNCHANGED sent
    /\ First(c) \in Texts => GoesTo(First(c))
    /\ First(c) \notin Texts => UNCHANGED <<answered, refused, relayed, unread>>

Empties(c) ==
    /\ inbox' = [inbox EXCEPT ![c] = <<>>]
    /\ unread' = unread \cup (Elems(inbox[c]) \cap Texts)
    /\ UNCHANGED <<sent, answered, refused, relayed>>

MessageParts == WaitingIsFresh /\ WaitsOnce /\ GivenWasSent /\ GivenOnce /\ Placed

LEMMA SameMessages ==
    ASSUME AddresseeInv, UNCHANGED messages
    PROVE  MessageParts'
BY DEF AddresseeInv, MessageParts, messages, fates, WaitingIsFresh, WaitsOnce, GivenWasSent,
   GivenOnce, Placed,
   Waits, Elems, NoRepeat

LEMMA ArrivesKeeps ==
    ASSUME AddresseeInv, NEW c \in Conns, NEW x \in Texts \cup {End, "gone"}, Arrives(c, x)
    PROVE  MessageParts'
<1>. inbox \in [Conns -> Seq(Texts \cup {End, "gone"})] /\ relayed \in Seq(Texts)
  BY TypeSplit DEF AddresseeInv, FatesOK, QueuesOK
<1>. WaitingIsFresh /\ WaitsOnce /\ GivenWasSent /\ GivenOnce /\ Placed
  BY DEF AddresseeInv
<1>1. /\ inbox'[c] = Append(inbox[c], x) /\ Elems(inbox'[c]) = Elems(inbox[c]) \cup {x}
      /\ \A d \in Conns \ {c} : inbox'[d] = inbox[d]
  BY AppendRange DEF Arrives
<1>2. x \in Texts => \A d \in Conns : ~Waits(d, x)
  BY DEF Arrives, WaitingIsFresh
<1>3. \A d \in Conns, t \in Texts : Waits(d, t)' <=> Waits(d, t) \/ (d = c /\ t = x)
  BY <1>1 DEF Waits
<1>4. \A t \in Texts : t \in sent' <=> t \in sent \/ t = x
  BY DEF Arrives
<1>5. (Elems(relayed))' = Elems(relayed) /\ UNCHANGED <<answered, refused, unread,
relayed>> /\ sent \subseteq sent'
  BY DEF Arrives, Elems
<1>6. WaitingIsFresh'
  BY <1>3, <1>4, <1>5 DEF WaitingIsFresh, GivenWasSent, Arrives
<1>7. WaitsOnce'
  <2>1. NoRepeat(inbox'[c])
    BY <1>1, <1>2, AppendRange DEF WaitsOnce, Waits
  <2>2. \A d \in Conns : NoRepeat(inbox'[d])
    BY <1>1, <2>1 DEF WaitsOnce
  <2>3. \A d, e \in Conns, t \in Texts : Waits(d, t)' /\ Waits(e, t)' => d = e
    BY <1>2, <1>3 DEF WaitsOnce
  <2>. QED BY <2>2, <2>3 DEF WaitsOnce, NoRepeat
<1>8. GivenWasSent' /\ GivenOnce'
  BY <1>5 DEF GivenWasSent, GivenOnce, NoRepeat
<1>9. Placed'
  BY <1>3, <1>4, <1>5 DEF Placed
<1>. QED BY <1>6, <1>7, <1>8, <1>9 DEF MessageParts

LEMMA HandlesKeeps ==
    ASSUME AddresseeInv, NEW c \in Conns, Handles(c)
    PROVE  MessageParts'
<1>. DEFINE f == First(c)
<1>. inbox \in [Conns -> Seq(Texts \cup {End, "gone"})] /\ relayed \in Seq(Texts)
  BY TypeSplit DEF AddresseeInv, FatesOK, QueuesOK
<1>. WaitingIsFresh /\ WaitsOnce /\ GivenWasSent /\ GivenOnce /\ Placed
  BY DEF AddresseeInv
<1>1. /\ inbox'[c] = Tail(inbox[c]) /\ Elems(inbox[c]) = Elems(inbox'[c]) \cup {f}
      /\ \A d \in Conns \ {c} : inbox'[d] = inbox[d]
      /\ f \in Texts => f \notin Elems(inbox'[c])
      /\ NoRepeat(inbox'[c])
  BY TailRange DEF Handles, Arrived, Reads, First, WaitsOnce
<1>2. f \in Texts => Waits(c, f) /\ f \in sent /\ f \notin answered /\ f \notin Elems(relayed)
  BY <1>1 DEF Waits, WaitingIsFresh
<1>3. \A d \in Conns, t \in Texts : Waits(d, t)' <=> Waits(d, t) /\ t # f
  <2>. SUFFICES ASSUME NEW d \in Conns, NEW t \in Texts PROVE Waits(d, t)' <=> Waits(d, t) /\ t # f
    OBVIOUS
  <2>1. CASE d = c
    BY <1>1, <2>1 DEF Waits
  <2>2. CASE d # c
    BY <1>1, <1>2, <2>2 DEF Waits, WaitsOnce
  <2>. QED BY <2>1, <2>2
<1>4. /\ UNCHANGED sent
      /\ \A t \in Texts : t \in answered' => t \in answered \/ t = f
      /\ \A t \in Texts : t \in Elems(relayed)' => t \in Elems(relayed) \/ t = f
      /\ \A t \in Texts : t \in answered' /\ t \in Elems(relayed)' => t \in answered /\ t \in Elems(relayed)
      /\ answered \subseteq answered' /\ refused \subseteq refused' /\ unread \subseteq unread'
      /\ Elems(relayed) \subseteq Elems(relayed)'
      /\ f \in Texts => f \in answered' \/ f \in Elems(relayed)' \/ f \in refused' \/ f \in unread'
      /\ Elems(relayed)' \subseteq Texts /\ NoRepeat(relayed')
  <2>1. CASE UNCHANGED relayed
    <3>1. Elems(relayed)' = Elems(relayed) /\ Elems(relayed) \subseteq Texts /\ NoRepeat(relayed')
      BY <2>1 DEF Elems, GivenOnce
    <3>. QED BY <1>2, <2>1, <3>1 DEF Handles, GoesTo
  <2>2. CASE f \in Texts /\ relayed' = Append(relayed, f) /\ UNCHANGED <<answered, refused, unread>>
    <3>1. /\ Elems(Append(relayed, f)) = Elems(relayed) \cup {f}
          /\ NoRepeat(Append(relayed, f))
      BY <1>2, <2>2, AppendRange DEF GivenOnce
    <3>3. Elems(relayed)' = Elems(relayed) \cup {f} /\ NoRepeat(relayed')
      BY <2>2, <3>1
    <3>2. Elems(relayed) \subseteq Texts
      BY DEF Elems
    <3>. QED BY <1>2, <2>2, <3>3, <3>2 DEF Handles
  <2>. QED BY <2>1, <2>2 DEF Handles, GoesTo
<1>5. answered' \subseteq Texts /\ answered \subseteq Texts
  <2>1. answered \subseteq Texts
    BY TypeSplit DEF AddresseeInv, FatesOK
  <2>. QED BY <2>1 DEF Handles, GoesTo
<1>6. WaitingIsFresh'
  BY <1>3, <1>4 DEF WaitingIsFresh
<1>7. WaitsOnce'
  <2>1. \A d \in Conns : NoRepeat(inbox'[d])
    BY <1>1 DEF WaitsOnce
  <2>2. \A d, e \in Conns, t \in Texts : Waits(d, t)' /\ Waits(e, t)' => d = e
    BY <1>3 DEF WaitsOnce
  <2>. QED BY <2>1, <2>2 DEF WaitsOnce, NoRepeat
<1>8. GivenWasSent'
  BY <1>2, <1>4, <1>5 DEF GivenWasSent
<1>9. GivenOnce'
  BY <1>4, <1>5 DEF GivenOnce, NoRepeat
<1>10. Placed'
  <2>. SUFFICES ASSUME NEW t \in Texts, t \in sent
                PROVE  \/ \E d \in Conns : Waits(d, t)'
                       \/ t \in answered' \/ t \in Elems(relayed)' \/ t \in refused' \/ t \in unread'
    BY <1>4 DEF Placed
  <2>. QED BY <1>3, <1>4 DEF Placed
<1>. QED BY <1>6, <1>7, <1>8, <1>9, <1>10 DEF MessageParts

LEMMA EmptiesKeeps ==
    ASSUME AddresseeInv, NEW c \in Conns, Empties(c)
    PROVE  MessageParts'
<1>. inbox \in [Conns -> Seq(Texts \cup {End, "gone"})]
  BY TypeSplit DEF AddresseeInv, FatesOK
<1>. WaitingIsFresh /\ WaitsOnce /\ GivenWasSent /\ GivenOnce /\ Placed
  BY DEF AddresseeInv
<1>1. /\ inbox'[c] = <<>> /\ Elems(inbox'[c]) = {} /\ NoRepeat(inbox'[c])
      /\ \A d \in Conns \ {c} : inbox'[d] = inbox[d]
  BY DEF Empties, Elems, NoRepeat
<1>2. \A d \in Conns, t \in Texts : Waits(d, t)' <=> Waits(d, t) /\ d # c
  BY <1>1 DEF Waits
<1>3. (Elems(relayed))' = Elems(relayed) /\ UNCHANGED <<sent, answered, refused, relayed>>
  BY DEF Empties, Elems
<1>4. WaitingIsFresh' /\ GivenWasSent' /\ GivenOnce'
  BY <1>2, <1>3 DEF WaitingIsFresh, GivenWasSent, GivenOnce, NoRepeat
<1>5. WaitsOnce'
  <2>1. \A d \in Conns : NoRepeat(inbox'[d])
    BY <1>1 DEF WaitsOnce
  <2>2. \A d, e \in Conns, t \in Texts : Waits(d, t)' /\ Waits(e, t)' => d = e
    BY <1>2 DEF WaitsOnce
  <2>. QED BY <2>1, <2>2 DEF WaitsOnce, NoRepeat
<1>6. \A t \in Texts : Waits(c, t) => t \in unread'
  BY DEF Empties, Waits
<1>7. Placed'
  <2>. SUFFICES ASSUME NEW t \in Texts, t \in sent
                PROVE  \/ \E d \in Conns : Waits(d, t)'
                       \/ t \in answered \/ t \in Elems(relayed) \/ t \in refused \/ t \in unread'
    BY <1>3 DEF Placed
  <2>1. unread \subseteq unread'
    BY DEF Empties
  <2>. QED BY <1>2, <1>6, <2>1 DEF Placed
<1>. QED BY <1>4, <1>5, <1>7 DEF MessageParts

LEMMA RestartKeeps ==
    ASSUME AddresseeInv, Restart
    PROVE  MessageParts'
<1>. WaitingIsFresh /\ WaitsOnce /\ GivenWasSent /\ GivenOnce /\ Placed
  BY DEF AddresseeInv
<1>1. \A d \in Conns : inbox'[d] = <<>> /\ Elems(inbox'[d]) = {} /\ NoRepeat(inbox'[d])
  BY DEF Restart, Elems, NoRepeat
<1>2. \A d \in Conns, t \in Texts : ~Waits(d, t)'
  BY <1>1 DEF Waits
<1>3. (Elems(relayed))' = Elems(relayed) /\ UNCHANGED <<sent, answered, refused, relayed>>
  BY DEF Restart, Elems
<1>4. WaitingIsFresh' /\ GivenWasSent' /\ GivenOnce'
  BY <1>2, <1>3 DEF WaitingIsFresh, GivenWasSent, GivenOnce, NoRepeat
<1>5. WaitsOnce'
  BY <1>1, <1>2 DEF WaitsOnce, NoRepeat
<1>. DEFINE Dropped == UNION {Elems(inbox[c]) : c \in Conns}
<1>6. unread' = unread \cup (Dropped \cap Texts)
  BY DEF Restart, Elems
<1>7. ASSUME NEW d \in Conns, NEW t \in Texts, Waits(d, t) PROVE t \in unread'
  <2>1. t \in Dropped
    BY <1>7, Zenon DEF Waits
  <2>. HIDE DEF Dropped
  <2>. QED BY <1>6, <2>1
<1>. HIDE DEF Dropped
<1>8. Placed'
  <2>. SUFFICES ASSUME NEW t \in Texts, t \in sent
                PROVE  t \in answered \/ t \in Elems(relayed) \/ t \in refused \/ t \in unread'
    BY <1>3 DEF Placed
  <2>. QED BY <1>6, <1>7 DEF Placed
<1>. QED BY <1>4, <1>5, <1>8 DEF MessageParts

(* Which effect each handler has. *)

LEMMA LeavesEmpties ==
    ASSUME NEW c \in Conns, Leaves(c), UNCHANGED <<sent, answered, refused, relayed>>
    PROVE  Empties(c)
BY DEF Leaves, Empties

LEMMA ForwardsHandles ==
    ASSUME NEW c \in Conns, Arrived(c), Reads(c), Forwards(c), UNCHANGED <<sent, answered,
    refused, unread>>
    PROVE  Handles(c)
BY DEF Forwards, Relays, Handles, GoesTo

LEMMA HandlesFrameHandles ==
    ASSUME NEW c \in Conns, Arrived(c), HandlesFrame(c)
    PROVE  Handles(c)
BY NamesAssumption DEF HandlesFrame, Handles, GoesTo

LEMMA MessagesKept == AddresseeInv /\ [Next]_vars => MessageParts'
<1>. SUFFICES ASSUME AddresseeInv, [Next]_vars PROVE MessageParts'
  OBVIOUS
<1>1. ASSUME NEW c \in Conns, NEW x \in Texts \cup {End}, Send(c, x) PROVE MessageParts'
  <2>1. Arrives(c, x)
    BY <1>1, NamesAssumption DEF Send, Arrives
  <2>. QED BY <2>1, ArrivesKeeps
<1>2. ASSUME NEW c \in Conns, Disconnect(c) PROVE MessageParts'
  <2>1. Arrives(c, "gone")
    BY <1>2, NamesAssumption DEF Disconnect, Arrives, fates
  <2>. QED BY <2>1, ArrivesKeeps
<1>3. ASSUME NEW c \in Conns, BotFrame(c) PROVE MessageParts'
  BY <1>3, HandlesFrameHandles, HandlesKeeps DEF BotFrame
<1>4. ASSUME NEW c \in Conns, BotPushAndFrame(c) PROVE MessageParts'
  <2>1. Handles(c)
    BY <1>4, HandlesFrameHandles, ForwardsHandles DEF BotPushAndFrame, AfterPush,
       AnsweredAfterHandOff
  <2>. QED BY <2>1, HandlesKeeps
<1>5. ASSUME NEW c \in Conns, HumanFrame(c) PROVE MessageParts'
  <2>1. Handles(c)
    BY <1>5, ForwardsHandles DEF HumanFrame
  <2>. QED BY <2>1, HandlesKeeps
<1>6. ASSUME NEW c \in Conns, HumanDeclined(c) PROVE MessageParts'
  <2>1. CASE UNCHANGED <<inbox, unread>>
    BY <1>6, <2>1, SameMessages DEF HumanDeclined, messages, fates
  <2>2. CASE Arrived(c) /\ Reads(c) /\ unread' = unread \cup ({First(c)} \cap Texts)
    <3>1. Handles(c)
      BY <1>6, <2>2 DEF HumanDeclined, Handles, GoesTo
    <3>. QED BY <3>1, HandlesKeeps
  <2>. QED BY <1>6, <2>1, <2>2 DEF HumanDeclined
<1>7. ASSUME NEW c \in Conns, \/ BotGone(c) \/ TurnUndelivered(c) \/ BotReportsClose(c) \/ HumanEnded(c)
                              \/ HumanGone(c) \/ HumanReportsClose(c)
      PROVE MessageParts'
  <2>1. Leaves(c) /\ UNCHANGED <<sent, answered, refused, relayed>>
    BY <1>7 DEF BotGone, TurnUndelivered, BotReportsClose, HumanEnded, LeavesOnEnd, HumanGone,
        HumanReportsClose
  <2>. QED BY <2>1, LeavesEmpties, EmptiesKeeps
<1>8. ASSUME NEW c \in Conns, \/ Connect(c) \/ Refetch(c) \/ Enter(c) \/ BotIdle(c) \/ BotPush(c)
                              \/ TurnReplies(c) \/ TurnResolves(c) \/ TurnEscalates(c)
                              \/ EscalationTaken(c) \/ EscalationFails(c) \/ BotEnds(c)
      PROVE MessageParts'
  <2>1. UNCHANGED messages
    BY <1>8 DEF Connect, Refetch, Enter, BotIdle, BotPush, TurnReplies, TurnResolves, TurnEscalates,
       EscalationTaken, EscalationFails, BotEnds, messages
  <2>. QED BY <2>1, SameMessages
<1>9. ASSUME NEW c \in Conns, HumanShows(c) \/ HumanEnds(c) \/ HumanExpires(c) \/ Reverts(c)
      PROVE MessageParts'
  <2>1. UNCHANGED messages
    BY <1>9 DEF HumanShows, HumanEnds, HumanExpires, Reverts, messages
  <2>. QED BY <2>1, SameMessages
<1>10. ASSUME NEW a \in Agents, Claim(a) \/ Agent(a) PROVE MessageParts'
  <2>1. UNCHANGED messages
    BY <1>10 DEF Claim, Agent, ClaimCheck, ClaimCommit, ClaimTell, AgentConnects, AgentHears,
       AgentReplies,
       AgentEndsSession, AgentClosesSession, AgentDrops, messages, conns
  <2>. QED BY <2>1, SameMessages
<1>11. ASSUME NEW d \in Declines, Decline(d) PROVE MessageParts'
  <2>1. UNCHANGED messages
    BY <1>11 DEF Decline, DeclineCheck, DeclineCommit, DeclineTell, messages, conns
  <2>. QED BY <2>1, SameMessages
<1>12. ASSUME NEW j \in Jobs, Job(j) PROVE MessageParts'
  <2>1. UNCHANGED messages
    BY <1>12 DEF Job, JobChecks, JobEscalates, JobNotified, JobPushes, messages, conns
  <2>. QED BY <2>1, SameMessages
<1>13. CASE Restart
  BY <1>13, RestartKeeps
<1>14. CASE UNCHANGED vars
  BY <1>14, SameMessages DEF vars, messages, conns
<1>. QED
  BY <1>1, <1>2, <1>3, <1>4, <1>5, <1>6, <1>7, <1>8, <1>9, <1>10, <1>11, <1>12, <1>13, <1>14
     DEF Next, Customer, BotLoop, HumanLoop

-----------------------------------------------------------------------------
(* The theorems. *)

LEMMA TypeInit == Init => TypeOK
<1>. SUFFICES ASSUME Init PROVE TypeOK
  OBVIOUS
<1>1. ScalarsOK /\ QueuesOK
  <2>1. mode \in Modes /\ ended \in BOOLEAN /\ registered \in BOOLEAN
    BY DEF Init, Modes
  <2>2. {pushTo, guard, newest} \subseteq Conns \cup {NoConn}
    BY DEF Init
  <2>3. connects \in Nat /\ replies \in Nat /\ restarts \in Nat
    BY DEF Init
  <2>4. customerQ \in Seq(Frames) /\ agentQ \in Seq(Texts \cup {"bye"}) /\ relayed \in Seq(Texts)
    BY DEF Init
  <2>. QED BY <2>1, <2>2, <2>3, <2>4 DEF ScalarsOK, QueuesOK
<1>2. ConnsOK /\ CrmOK
  BY DEF Init, ConnsOK, CrmOK, Modes, Places
<1>3. FatesOK
  BY DEF Init, FatesOK
<1>. QED BY <1>1, <1>2, <1>3, TypeSplit

LEMMA TypeKept == TypeOK /\ [Next]_vars => TypeOK'
BY ScalarsOKKept, QueuesOKKept, ConnsOKKept, CrmOKKept, FatesOKKept, TypeSplitPrimed

(* Type correctness of a session's state. *)
THEOREM TypeCorrect == Spec => []TypeOK
BY TypeInit, TypeKept, PTL DEF Spec

(* Every message has one fate: the inductive invariant. *)
THEOREM AddresseeInvariant == Spec => []AddresseeInv
<1>1. Init => AddresseeInv
  BY TypeInit DEF Init, AddresseeInv, WaitingIsFresh, WaitsOnce, GivenWasSent, GivenOnce, Placed,
     Waits, Elems,
     NoRepeat
<1>2. AddresseeInv /\ [Next]_vars => AddresseeInv'
  BY TypeKept, MessagesKept DEF AddresseeInv, MessageParts
<1>. QED BY <1>1, <1>2, PTL DEF Spec

(* No message is answered by the bot and given to an agent, none is given twice, and none
   is lost but by a socket that closed or a frame read with a decline: api/chat.py,
   chat_websocket and _run_human_mode. *)
THEOREM OneAddresseeHolds == Spec => []OneAddressee
<1>1. AddresseeInv => OneAddressee
  <2>. SUFFICES ASSUME AddresseeInv PROVE OneAddressee
    OBVIOUS
  <2>1. Elems(relayed) \cap answered = {}
    BY DEF AddresseeInv, GivenOnce
  <2>2. \A i, j \in DOMAIN relayed : relayed[i] = relayed[j] => i = j
    <3>1. \A i \in DOMAIN relayed : relayed[i] \in Texts
      BY DEF AddresseeInv, TypeOK
    <3>. QED BY <3>1 DEF AddresseeInv, GivenOnce, NoRepeat
  <2>3. ASSUME NEW t, t \in sent \cap Texts
        PROVE  t \in (UNION {Elems(inbox[c]) : c \in Conns}) \cup answered \cup Elems(relayed)
                        \cup refused \cup unread
    BY <2>3 DEF AddresseeInv, Placed, Waits
  <2>. QED BY <2>1, <2>2, <2>3, Zenon DEF OneAddressee
<1>. QED BY <1>1, AddresseeInvariant, PTL

(* Background jobs reach the connection that entered the bot loop last, whatever older
   connections clean up meanwhile: api/chat.py, chat_websocket's finally. *)
THEOREM PushReachesNewestHolds == Spec => []PushReachesNewest
<1>1. Init => PushReachesNewest
  BY DEF Init, PushReachesNewest
<1>2. PushReachesNewest /\ [Next]_vars => PushReachesNewest'
  <2>. SUFFICES ASSUME PushReachesNewest, [Next]_vars PROVE PushReachesNewest'
    OBVIOUS
  <2>1. CASE UNCHANGED <<pushTo, newest>>
    BY <2>1 DEF PushReachesNewest
  <2>2. ASSUME NEW c \in Conns, Leaves(c) PROVE PushReachesNewest'
    BY <2>2 DEF Leaves, PopOwn, PushReachesNewest
  <2>3. ASSUME NEW c \in Conns, EntersBotLoop(c) PROVE PushReachesNewest'
    BY <2>3 DEF EntersBotLoop, PushReachesNewest
  <2>4. CASE Restart
    BY <2>4 DEF Restart, PushReachesNewest
  <2>5. ASSUME NEW c \in Conns, BotLoop(c)
        PROVE  UNCHANGED <<pushTo, newest>> \/ Leaves(c) \/ EntersBotLoop(c)
    BY <2>5 DEF BotLoop, Refetch, Enter, BotFrame, BotGone, BotIdle, BotPush, BotPushAndFrame,
       AfterPush, HandlesFrame, Delivers, TurnReplies, TurnResolves, TurnUndelivered, TurnEscalates,
       EscalationTaken, EscalationFails, BotEnds, BotReportsClose, push
  <2>6. ASSUME NEW c \in Conns, HumanLoop(c)
        PROVE  UNCHANGED <<pushTo, newest>> \/ Leaves(c) \/ EntersBotLoop(c)
    BY <2>6 DEF HumanLoop, HumanShows, HumanDeclined, HumanEnded, HumanFrame, HumanGone, HumanEnds,
       LeavesOnEnd, HumanReportsClose, HumanExpires, Reverts, push
  <2>7. ASSUME NEW a \in Agents, Claim(a) \/ Agent(a) PROVE UNCHANGED <<pushTo, newest>>
    BY <2>7 DEF Claim, Agent, ClaimCheck, ClaimCommit, ClaimTell, AgentConnects, AgentHears,
       AgentReplies,
       AgentEndsSession, AgentClosesSession, AgentDrops, push
  <2>8. ASSUME NEW d \in Declines, Decline(d) PROVE UNCHANGED <<pushTo, newest>>
    BY <2>8 DEF Decline, DeclineCheck, DeclineCommit, DeclineTell, push
  <2>9. ASSUME NEW j \in Jobs, Job(j) PROVE UNCHANGED <<pushTo, newest>>
    BY <2>9 DEF Job, JobChecks, JobEscalates, JobNotified, JobPushes, push
  <2>10. CASE Customer
    BY <2>10, <2>1 DEF Customer, Connect, Disconnect, Send, push
  <2>11. CASE UNCHANGED vars
    BY <2>11, <2>1 DEF vars, push
  <2>. QED
    BY <2>1, <2>2, <2>3, <2>4, <2>5, <2>6, <2>7, <2>8, <2>9, <2>10, <2>11 DEF Next
<1>. QED BY <1>1, <1>2, PTL DEF Spec
=============================================================================
