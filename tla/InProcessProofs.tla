--------------------------- MODULE InProcessProofs ---------------------------
(* Proofs about TenantConfig, for any updates and visits and any number of faults, and
   about Campaign, for any leads and phone numbers, attempts, intervals and limits; and what
   a process keeps in its memory, ChatHandover with both of them, as MCInProcess has it. *)
EXTENDS MCInProcess, ChatHandoverProofs, FiniteSetTheorems, WellFoundedInduction

(* TenantConfig. *)

(* Who is at a lock that no eviction has dropped is at the lock of the table. *)
AtTableLock ==
    \A v \in AwaitsTools \ crossed : visit[v].lock = locks /\ locks # Nobody

LockInv == AtTableLock /\ OneLoad

(* No version runs ahead of the database. *)
NoneAhead ==
    /\ context <= settings
    /\ \A u \in Updates : update[u].at = "reading" => update[u].rows <= settings

(* If the tables are behind, some update has yet to read the rows, or holds them. *)
Catching(u) ==
    \/ update[u].at = "committed"
    \/ update[u].at = "reading" /\ update[u].rows = settings
BehindIsCaughtUp == context < settings => setback \/ \E u \in Updates : Catching(u)

ContextInv == NoneAhead /\ BehindIsCaughtUp

ConfigInv == ConfigTypeOK /\ LockInv /\ ContextInv /\ CachedCurrent

-----------------------------------------------------------------------------
(* Types. *)

UpdateRecord == [at : UpdatesAt, kind : Kinds, rows : Versions]
VisitRecord == [at : VisitsAt, of : Versions, tools : Versions, lock : Visits \cup {Nobody}]

LEMMA MovedUpdate ==
    ASSUME NEW r \in UpdateRecord, NEW place \in UpdatesAt, NEW n \in Versions
    PROVE  /\ [r EXCEPT !.at = place] \in UpdateRecord
           /\ [r EXCEPT !.at = place, !.rows = n] \in UpdateRecord
BY DEF UpdateRecord

LEMMA MovedVisit ==
    ASSUME NEW r \in VisitRecord, NEW place \in VisitsAt, NEW n \in Versions,
           NEW l \in Visits \cup {Nobody}
    PROVE  /\ [r EXCEPT !.at = place] \in VisitRecord
           /\ [r EXCEPT !.at = place, !.of = n] \in VisitRecord
           /\ [r EXCEPT !.at = place, !.tools = n] \in VisitRecord
           /\ [r EXCEPT !.at = place, !.lock = l] \in VisitRecord
BY DEF VisitRecord

LEMMA MoveUpdate ==
    ASSUME NEW u \in Updates, NEW place \in UpdatesAt,
           update \in [Updates -> UpdateRecord]
    PROVE  [update EXCEPT ![u].at = place] \in [Updates -> UpdateRecord]
<1>. DEFINE r == [update[u] EXCEPT !.at = place]
<1>1. r \in UpdateRecord
  BY MovedUpdate, 0 \in Versions DEF Versions
<1>. HIDE DEF r
<1>2. [update EXCEPT ![u] = r] \in [Updates -> UpdateRecord]
  BY <1>1
<1>. QED BY <1>2 DEF r

LEMMA MoveVisit ==
    ASSUME NEW v \in Visits, NEW place \in VisitsAt,
           visit \in [Visits -> VisitRecord]
    PROVE  [visit EXCEPT ![v].at = place] \in [Visits -> VisitRecord]
<1>. DEFINE r == [visit[v] EXCEPT !.at = place]
<1>1. r \in VisitRecord
  BY MovedVisit, 0 \in Versions, Nobody \in Visits \cup {Nobody} DEF Versions
<1>. HIDE DEF r
<1>2. [visit EXCEPT ![v] = r] \in [Visits -> VisitRecord]
  BY <1>1
<1>. QED BY <1>2 DEF r

LEMMA ConfigPlaces ==
    /\ "committed" \in UpdatesAt /\ "reading" \in UpdatesAt /\ "done" \in UpdatesAt
    /\ "failed" \in UpdatesAt /\ "swapped" \in UpdatesAt
    /\ "resolved" \in VisitsAt /\ "waiting" \in VisitsAt /\ "loading" \in VisitsAt
    /\ "loaded" \in VisitsAt /\ "serving" \in VisitsAt /\ "gone" \in VisitsAt
BY DEF UpdatesAt, VisitsAt, Unfinished, Loading

LEMMA ConfigInitType == ConfigInit => ConfigTypeOK
<1>. SUFFICES ASSUME ConfigInit PROVE ConfigTypeOK
  OBVIOUS
<1>0. [at : {"idle"}, kind : Kinds, rows : {0}] \subseteq UpdateRecord
  BY DEF UpdateRecord, Versions, UpdatesAt
<1>1. update \in [Updates -> UpdateRecord]
  BY <1>0 DEF ConfigInit
<1>2. visit \in [Visits -> VisitRecord]
  BY DEF ConfigInit, VisitRecord, Versions, VisitsAt
<1>3. configFaults \in 0..MaxConfigFaults
  BY ConfigAssumption DEF ConfigInit
<1>4. /\ settings \in Versions /\ tools \in Versions /\ context \in Versions
      /\ client \in Versions \cup {None} /\ locks \in Visits \cup {Nobody}
      /\ items \in [of : Versions, tools : Versions] \cup {NoItems}
      /\ refilled \subseteq {"client", "items"} /\ crossed \subseteq Visits
      /\ setback \in BOOLEAN
  BY DEF ConfigInit, Versions
<1>. QED BY <1>1, <1>2, <1>3, <1>4 DEF ConfigTypeOK, UpdateRecord, VisitRecord

LEMMA EvictTypes ==
    ASSUME EvictAll, crossed \subseteq Visits
    PROVE  /\ client' = None /\ items' = NoItems /\ locks' = Nobody
           /\ refilled' = {} /\ crossed' \subseteq Visits
BY DEF EvictAll, AwaitsTools

LEMMA UpdateStepType ==
    ASSUME ConfigTypeOK, NEW u \in Updates, UpdateGoes(u)
    PROVE  ConfigTypeOK'
<1>0. update \in [Updates -> UpdateRecord] /\ update[u] \in UpdateRecord
  BY DEF ConfigTypeOK, UpdateRecord
<1>1. CASE CommitSettings(u)
  <2>1. update' \in [Updates -> UpdateRecord]
    BY <1>0, <1>1, MoveUpdate, ConfigPlaces DEF CommitSettings
  <2>. QED BY <1>1, <2>1 DEF CommitSettings, evictedVars, ConfigTypeOK, UpdateRecord, Versions
<1>2. CASE ReloadReads(u)
  <2>1. update' \in [Updates -> UpdateRecord]
    BY <1>0, <1>2, MovedUpdate, ConfigPlaces DEF ReloadReads, ConfigTypeOK
  <2>. QED BY <1>2, <2>1 DEF ReloadReads, evictedVars, ConfigTypeOK, UpdateRecord
<1>3. CASE ReloadSwaps(u)
  <2>1. update' \in [Updates -> UpdateRecord]
    BY <1>0, <1>3, MoveUpdate, ConfigPlaces DEF ReloadSwaps
  <2>2. context' \in Versions /\ setback' \in BOOLEAN
    BY <1>0, <1>3 DEF ReloadSwaps, UpdateRecord, ConfigTypeOK, Versions
  <2>. QED BY <1>3, <2>1, <2>2 DEF ReloadSwaps, evictedVars, ConfigTypeOK, UpdateRecord
<1>4. CASE ReloadFails(u)
  <2>1. update' \in [Updates -> UpdateRecord]
    BY <1>0, <1>4, MoveUpdate, ConfigPlaces DEF ReloadFails
  <2>. QED BY <1>4, <2>1, ConfigAssumption
       DEF ReloadFails, evictedVars, ConfigTypeOK, UpdateRecord
<1>5. CASE CommitTools(u)
  <2>1. update' \in [Updates -> UpdateRecord]
    BY <1>0, <1>5, MoveUpdate, ConfigPlaces DEF CommitTools
  <2>. QED BY <1>5, <2>1 DEF CommitTools, evictedVars, ConfigTypeOK, UpdateRecord, Versions
<1>6. CASE ApplyLive(u)
  <2>1. update' \in [Updates -> UpdateRecord]
    BY <1>0, <1>6, MoveUpdate, ConfigPlaces DEF ApplyLive
  <2>. QED BY <1>6, <2>1, EvictTypes DEF ApplyLive, ConfigTypeOK, UpdateRecord
<1>7. CASE ReloadEvicts(u)
  <2>1. update' \in [Updates -> UpdateRecord]
    BY <1>0, <1>7, MoveUpdate, ConfigPlaces DEF ReloadEvicts
  <2>. QED BY <1>7, <2>1, EvictTypes DEF ReloadEvicts, ConfigTypeOK, UpdateRecord
<1>8. CASE EvictionFails(u)
  <2>1. update' \in [Updates -> UpdateRecord]
    BY <1>0, <1>8, MoveUpdate, ConfigPlaces DEF EvictionFails
  <2>. QED BY <1>8, <2>1, ConfigAssumption
       DEF EvictionFails, evictedVars, ConfigTypeOK, UpdateRecord
<1>. QED BY <1>1, <1>2, <1>3, <1>4, <1>5, <1>6, <1>7, <1>8 DEF UpdateGoes

LEMMA MarkedType ==
    ASSUME ConfigTypeOK, NEW v \in Visits, NEW cache \in {"client", "items"}
    PROVE  Marked(cache, v) \subseteq {"client", "items"}
BY DEF Marked, ConfigTypeOK

LEMMA ServeType ==
    ASSUME ConfigTypeOK, NEW v \in Visits, items # NoItems
    PROVE  Serve(v, items) \in [Visits -> VisitRecord]
<1>1. visit \in [Visits -> VisitRecord] /\ visit[v] \in VisitRecord /\ items.tools \in Versions
  BY DEF ConfigTypeOK, VisitRecord
<1>. QED BY <1>1, MovedVisit, ConfigPlaces DEF Serve

LEMMA VisitStepType ==
    ASSUME ConfigTypeOK, NEW v \in Visits, VisitGoes(v)
    PROVE  ConfigTypeOK'
<1>0. visit \in [Visits -> VisitRecord] /\ visit[v] \in VisitRecord
  BY DEF ConfigTypeOK, VisitRecord
<1>1. CASE Resolves(v)
  <2>1. visit' \in [Visits -> VisitRecord]
    BY <1>0, <1>1, MovedVisit, ConfigPlaces DEF Resolves, ConfigTypeOK
  <2>. QED BY <1>1, <2>1 DEF Resolves, evictedVars, ConfigTypeOK, VisitRecord
<1>2. CASE UsesClient(v)
  <2>1. client' \in Versions /\ refilled' \subseteq {"client", "items"}
    BY <1>0, <1>2, MarkedType DEF UsesClient, VisitRecord
  <2>. QED BY <1>2, <2>1 DEF UsesClient, ConfigTypeOK
<1>3. CASE HasTools(v)
  <2>1. visit' \in [Visits -> VisitRecord]
    BY <1>3, ServeType DEF HasTools
  <2>. QED BY <1>3, <2>1 DEF HasTools, evictedVars, ConfigTypeOK, VisitRecord
<1>4. CASE TakesLock(v)
  <2>. DEFINE l == IF locks = Nobody THEN v ELSE locks
              place == IF LockFree(l) THEN "loading" ELSE "waiting"
              r == [visit[v] EXCEPT !.at = place, !.lock = l]
  <2>1. l \in Visits \cup {Nobody} /\ place \in VisitsAt
    BY ConfigPlaces DEF ConfigTypeOK
  <2>2. visit' = [visit EXCEPT ![v] = r] /\ locks' = l
    BY <1>0, <1>4 DEF TakesLock
  <2>. HIDE DEF l, place
  <2>3. r \in VisitRecord
    BY <1>0, <2>1, MovedVisit, 0 \in Versions DEF Versions
  <2>. HIDE DEF r
  <2>4. visit' \in [Visits -> VisitRecord]
    BY <1>0, <2>2, <2>3
  <2>. QED BY <1>4, <2>1, <2>2, <2>4 DEF TakesLock, ConfigTypeOK, VisitRecord
<1>5. CASE GetsLock(v)
  <2>1. visit' \in [Visits -> VisitRecord]
    <3>1. CASE items # NoItems
      BY <1>5, <3>1, ServeType DEF GetsLock
    <3>2. CASE items = NoItems
      BY <1>0, <1>5, <3>2, MoveVisit, ConfigPlaces DEF GetsLock
    <3>. QED BY <3>1, <3>2
  <2>. QED BY <1>5, <2>1 DEF GetsLock, evictedVars, ConfigTypeOK, VisitRecord
<1>6. CASE LoadReads(v)
  <2>1. visit' \in [Visits -> VisitRecord]
    <3>. DEFINE r == [visit[v] EXCEPT !.at = "loaded", !.tools = tools]
    <3>1. r \in VisitRecord
      BY <1>0, MovedVisit, ConfigPlaces DEF ConfigTypeOK
    <3>2. visit' = [visit EXCEPT ![v] = r]
      BY <1>0, <1>6 DEF LoadReads
    <3>. HIDE DEF r
    <3>. QED BY <1>0, <3>1, <3>2
  <2>. QED BY <1>6, <2>1 DEF LoadReads, evictedVars, ConfigTypeOK, VisitRecord
<1>7. CASE LoadStores(v)
  <2>1. visit' \in [Visits -> VisitRecord]
    BY <1>0, <1>7, MoveVisit, ConfigPlaces DEF LoadStores
  <2>2. items' \in [of : Versions, tools : Versions] /\ refilled' \subseteq {"client", "items"}
    BY <1>0, <1>7, MarkedType DEF LoadStores, VisitRecord
  <2>. QED BY <1>7, <2>1, <2>2 DEF LoadStores, ConfigTypeOK, VisitRecord
<1>8. CASE LoadFails(v)
  <2>1. visit' \in [Visits -> VisitRecord]
    BY <1>0, <1>8, MoveVisit, ConfigPlaces DEF LoadFails
  <2>. QED BY <1>8, <2>1, ConfigAssumption
       DEF LoadFails, evictedVars, ConfigTypeOK, VisitRecord
<1>9. CASE Departs(v)
  <2>1. visit' \in [Visits -> VisitRecord]
    BY <1>0, <1>9, MoveVisit, ConfigPlaces DEF Departs
  <2>. QED BY <1>9, <2>1 DEF Departs, evictedVars, ConfigTypeOK, VisitRecord
<1>. QED BY <1>1, <1>2, <1>3, <1>4, <1>5, <1>6, <1>7, <1>8, <1>9 DEF VisitGoes

LEMMA StutterType == ConfigTypeOK /\ UNCHANGED configVars => ConfigTypeOK'
BY DEF ConfigTypeOK, configVars, evictedVars

LEMMA TypeStep == ConfigTypeOK /\ [ConfigNext]_configVars => ConfigTypeOK'
BY UpdateStepType, VisitStepType, StutterType DEF ConfigNext

-----------------------------------------------------------------------------
(* The lock. *)

IsLoading(v) == visit[v].at \in Loading
IsAwaiting(v) == visit[v].at \in Loading \cup {"waiting"}

(* A step after which no visit is at a lock, or loads, that was not before. *)
NoneJoins ==
    /\ locks' = locks /\ crossed' = crossed
    /\ \A v \in Visits :
          /\ IsAwaiting(v)' => IsAwaiting(v) /\ visit'[v].lock = visit[v].lock
          /\ IsLoading(v)' => IsLoading(v)

LEMMA LockKept == ASSUME LockInv, NoneJoins PROVE LockInv'
BY DEF LockInv, NoneJoins, AtTableLock, OneLoad, IsAwaiting, IsLoading, AwaitsTools

LEMMA LockDropped ==
    ASSUME EvictAll, UNCHANGED visit PROVE LockInv'
BY DEF LockInv, EvictAll, AtTableLock, OneLoad, AwaitsTools, Loading

LEMMA LockTaken ==
    ASSUME ConfigTypeOK, LockInv, NEW v \in Visits, TakesLock(v)
    PROVE  LockInv'
<1>. DEFINE l == IF locks = Nobody THEN v ELSE locks
            place == IF LockFree(l) THEN "loading" ELSE "waiting"
<1>1. /\ visit'[v].at = place /\ visit'[v].lock = l
      /\ \A w \in Visits \ {v} : visit'[w] = visit[w]
      /\ locks' = l /\ crossed' = crossed
  BY DEF TakesLock, ConfigTypeOK
<1>2. l # Nobody
  BY ConfigAssumption
<1>3. \A w \in AwaitsTools \ crossed : visit[w].lock = l
  BY DEF LockInv, AtTableLock
<1>4. place = "loading" => \A w \in Visits \ crossed : ~IsLoading(w)
  BY <1>3 DEF LockFree, AwaitsTools, IsLoading
<1>5. place \in {"loading", "waiting"}
  OBVIOUS
<1>. HIDE DEF l, place
<1>6. AtTableLock'
  BY <1>1, <1>2, <1>3 DEF AtTableLock, AwaitsTools
<1>7. OneLoad'
  BY <1>1, <1>4, <1>5 DEF LockInv, OneLoad, IsLoading, Loading
<1>. QED BY <1>6, <1>7 DEF LockInv

LEMMA LockPassed ==
    ASSUME ConfigTypeOK, LockInv, NEW v \in Visits, GetsLock(v)
    PROVE  LockInv'
<1>1. CASE items # NoItems
  <2>1. /\ visit'[v].at = "serving" /\ \A w \in Visits \ {v} : visit'[w] = visit[w]
        /\ UNCHANGED <<locks, crossed>>
    BY <1>1 DEF GetsLock, Serve, ConfigTypeOK, evictedVars
  <2>. QED BY <2>1, LockKept DEF NoneJoins, IsAwaiting, IsLoading, Loading
<1>2. CASE items = NoItems
  <2>1. /\ visit'[v].at = "loading" /\ visit'[v].lock = visit[v].lock
        /\ \A w \in Visits \ {v} : visit'[w] = visit[w]
        /\ UNCHANGED <<locks, crossed>>
    BY <1>2 DEF GetsLock, ConfigTypeOK, evictedVars
  <2>2. visit[v].at = "waiting" /\ LockFree(visit[v].lock)
    BY DEF GetsLock
  <2>3. AtTableLock'
    BY <2>1, <2>2 DEF LockInv, AtTableLock, AwaitsTools
  <2>4. v \notin crossed => \A w \in Visits \ crossed : ~IsLoading(w)
    BY <2>2 DEF LockInv, AtTableLock, AwaitsTools, LockFree, IsLoading
  <2>5. OneLoad'
    BY <2>1, <2>4 DEF LockInv, OneLoad, IsLoading
  <2>. QED BY <2>3, <2>5 DEF LockInv
<1>. QED BY <1>1, <1>2

LEMMA LockStep ==
    ASSUME ConfigTypeOK, LockInv, [ConfigNext]_configVars
    PROVE  LockInv'
<1>1. ASSUME NEW u \in Updates, UpdateGoes(u) PROVE LockInv'
  <2>1. CASE ReloadEvicts(u)
    BY <2>1, LockDropped DEF ReloadEvicts
  <2>2. CASE ApplyLive(u)
    BY <2>2, LockDropped DEF ApplyLive
  <2>3. CASE \/ CommitSettings(u) \/ ReloadReads(u) \/ ReloadSwaps(u) \/ ReloadFails(u)
              \/ EvictionFails(u) \/ CommitTools(u)
    <3>1. UNCHANGED <<visit, locks, crossed>>
      BY <2>3 DEF CommitSettings, ReloadReads, ReloadSwaps, ReloadFails, EvictionFails,
                  CommitTools, evictedVars
    <3>. QED BY <3>1, LockKept DEF NoneJoins, IsAwaiting, IsLoading
  <2>. QED BY <1>1, <2>1, <2>2, <2>3 DEF UpdateGoes
<1>2. ASSUME NEW v \in Visits, VisitGoes(v) PROVE LockInv'
  <2>1. CASE TakesLock(v)
    BY <2>1, LockTaken
  <2>2. CASE GetsLock(v)
    BY <2>2, LockPassed
  <2>3. CASE UsesClient(v)
    BY <2>3, LockKept DEF UsesClient, NoneJoins, IsAwaiting, IsLoading
  <2>4. CASE Resolves(v) \/ HasTools(v) \/ LoadStores(v) \/ LoadFails(v) \/ Departs(v)
    <3>1. /\ visit'[v].at \in {"resolved", "serving", "gone"}
          /\ \A w \in Visits \ {v} : visit'[w] = visit[w]
          /\ UNCHANGED <<locks, crossed>>
      BY <2>4 DEF Resolves, HasTools, Serve, LoadStores, LoadFails, Departs, evictedVars,
                  ConfigTypeOK
    <3>. QED BY <3>1, LockKept DEF NoneJoins, IsAwaiting, IsLoading, Loading
  <2>5. CASE LoadReads(v)
    <3>1. /\ visit[v].at = "loading" /\ visit'[v].lock = visit[v].lock
          /\ \A w \in Visits \ {v} : visit'[w] = visit[w]
          /\ UNCHANGED <<locks, crossed>>
      BY <2>5 DEF LoadReads, evictedVars, ConfigTypeOK
    <3>. QED BY <3>1, LockKept DEF NoneJoins, IsAwaiting, IsLoading, Loading
  <2>. QED BY <1>2, <2>1, <2>2, <2>3, <2>4, <2>5 DEF VisitGoes
<1>3. CASE UNCHANGED configVars
  BY <1>3, LockKept DEF configVars, evictedVars, NoneJoins, IsAwaiting, IsLoading
<1>. QED BY <1>1, <1>2, <1>3 DEF ConfigNext

-----------------------------------------------------------------------------
(* The context, and what is cached. *)

LEMMA ContextKept ==
    ASSUME ContextInv, UNCHANGED <<settings, context, update, setback>>
    PROVE  ContextInv'
BY DEF ContextInv, NoneAhead, BehindIsCaughtUp, Catching

LEMMA ContextStep ==
    ASSUME ConfigTypeOK, ContextInv, [ConfigNext]_configVars
    PROVE  ContextInv'
<1>0. /\ settings \in Nat /\ context \in Nat /\ setback \in BOOLEAN
      /\ \A u \in Updates : update[u].rows \in Nat
  BY DEF ConfigTypeOK, Versions
<1>1. ASSUME NEW u \in Updates, UpdateGoes(u) PROVE ContextInv'
  <2>0. \A w \in Updates \ {u} : update'[w] = update[w]
    BY <1>1 DEF UpdateGoes, CommitSettings, ReloadReads, ReloadSwaps, ReloadEvicts, ReloadFails,
                EvictionFails, CommitTools, ApplyLive, ConfigTypeOK
  <2>1. CASE CommitSettings(u)
    <3>1. update'[u].at = "committed" /\ settings' = settings + 1 /\ context' = context
      BY <2>1 DEF CommitSettings, ConfigTypeOK
    <3>2. NoneAhead'
      BY <1>0, <2>0, <3>1 DEF ContextInv, NoneAhead
    <3>3. BehindIsCaughtUp'
      BY <3>1 DEF BehindIsCaughtUp, Catching
    <3>. QED BY <3>2, <3>3 DEF ContextInv
  <2>2. CASE ReloadReads(u)
    <3>1. /\ update'[u].at = "reading" /\ update'[u].rows = settings
          /\ UNCHANGED <<settings, context, setback>>
      BY <2>2 DEF ReloadReads, ConfigTypeOK
    <3>2. NoneAhead'
      BY <1>0, <2>0, <3>1 DEF ContextInv, NoneAhead
    <3>3. BehindIsCaughtUp'
      BY <3>1 DEF BehindIsCaughtUp, Catching
    <3>. QED BY <3>2, <3>3 DEF ContextInv
  <2>3. CASE ReloadSwaps(u)
    <3>1. /\ update[u].at = "reading" /\ update'[u].at = "swapped"
          /\ context' = update[u].rows /\ settings' = settings
          /\ setback' = (update[u].rows < context \/ (setback /\ update[u].rows < settings))
      BY <2>3 DEF ReloadSwaps, ConfigTypeOK
    <3>2. NoneAhead'
      BY <1>0, <2>0, <3>1 DEF ContextInv, NoneAhead
    <3>3. ASSUME context' < settings', ~setback' PROVE \E w \in Updates : Catching(w)'
      <4>1. update[u].rows < settings
        BY <3>1, <3>3
      <4>2. ~setback /\ ~(update[u].rows < context)
        BY <3>1, <3>3, <4>1, Zenon
      <4>3. context < settings /\ update[u].rows # settings
        BY <1>0, <4>1, <4>2
      <4>4. PICK w \in Updates : Catching(w)
        BY <4>2, <4>3 DEF ContextInv, BehindIsCaughtUp
      <4>5. w # u
        BY <3>1, <4>3, <4>4 DEF Catching
      <4>. QED BY <2>0, <3>1, <4>4, <4>5 DEF Catching
    <3>. QED BY <3>2, <3>3 DEF ContextInv, BehindIsCaughtUp
  <2>4. CASE ReloadFails(u)
    <3>1. update'[u].at = "failed" /\ setback' /\ UNCHANGED <<settings, context>>
      BY <2>4 DEF ReloadFails, ConfigTypeOK
    <3>2. NoneAhead'
      BY <2>0, <3>1 DEF ContextInv, NoneAhead
    <3>. QED BY <3>1, <3>2 DEF ContextInv, BehindIsCaughtUp
  <2>5. CASE CommitTools(u) \/ ApplyLive(u) \/ ReloadEvicts(u) \/ EvictionFails(u)
    <3>1. /\ update[u].at \in {"idle", "swapped"} /\ update'[u].at \in {"done", "failed"}
          /\ UNCHANGED <<settings, context, setback>>
      BY <2>5 DEF CommitTools, ApplyLive, ReloadEvicts, EvictionFails, ConfigTypeOK
    <3>2. NoneAhead'
      BY <2>0, <3>1 DEF ContextInv, NoneAhead
    <3>3. \A w \in Updates : Catching(w) => Catching(w)'
      BY <2>0, <3>1 DEF Catching
    <3>4. BehindIsCaughtUp'
      BY <3>1, <3>3 DEF ContextInv, BehindIsCaughtUp
    <3>. QED BY <3>2, <3>4 DEF ContextInv
  <2>. QED BY <1>1, <2>1, <2>2, <2>3, <2>4, <2>5 DEF UpdateGoes
<1>2. ASSUME NEW v \in Visits, VisitGoes(v) PROVE ContextInv'
  BY <1>2, ContextKept DEF VisitGoes, Resolves, UsesClient, HasTools, TakesLock, GetsLock,
                           LoadReads, LoadStores, LoadFails, Departs
<1>3. CASE UNCHANGED configVars
  BY <1>3, ContextKept DEF configVars
<1>. QED BY <1>1, <1>2, <1>3 DEF ConfigNext

LEMMA CachesKept ==
    ASSUME CachedCurrent, UNCHANGED <<context, client, items, refilled>>, Evicting => Evicting'
    PROVE  CachedCurrent'
BY DEF CachedCurrent

LEMMA CachesEmptied == ASSUME EvictAll PROVE CachedCurrent'
BY DEF EvictAll, CachedCurrent

LEMMA CachedStep ==
    ASSUME ConfigTypeOK, CachedCurrent, [ConfigNext]_configVars
    PROVE  CachedCurrent'
<1>1. ASSUME NEW u \in Updates, UpdateGoes(u) PROVE CachedCurrent'
  <2>1. CASE ReloadEvicts(u) \/ ApplyLive(u)
    BY <2>1, CachesEmptied DEF ReloadEvicts, ApplyLive
  <2>2. CASE ReloadSwaps(u)
    BY <2>2 DEF ReloadSwaps, ConfigTypeOK, CachedCurrent, Evicting
  <2>3. CASE EvictionFails(u)
    BY <2>3 DEF EvictionFails, CachedCurrent
  <2>4. CASE CommitSettings(u) \/ ReloadReads(u) \/ ReloadFails(u) \/ CommitTools(u)
    <3>1. update[u].at # "swapped" /\ \A w \in Updates \ {u} : update'[w] = update[w]
      BY <2>4 DEF CommitSettings, ReloadReads, ReloadFails, CommitTools, Unfinished, ConfigTypeOK
    <3>2. Evicting => Evicting'
      BY <3>1 DEF Evicting
    <3>. QED BY <2>4, <3>2, CachesKept
         DEF CommitSettings, ReloadReads, ReloadFails, CommitTools, evictedVars
  <2>. QED BY <1>1, <2>1, <2>2, <2>3, <2>4 DEF UpdateGoes
<1>2. ASSUME NEW v \in Visits, VisitGoes(v) PROVE CachedCurrent'
  <2>0. Evicting => Evicting'
    BY <1>2 DEF VisitGoes, Resolves, UsesClient, HasTools, TakesLock, GetsLock, LoadReads,
                LoadStores, LoadFails, Departs, Evicting
  <2>1. CASE UsesClient(v)
    BY <2>0, <2>1 DEF UsesClient, Marked, CachedCurrent
  <2>2. CASE LoadStores(v)
    BY <2>0, <2>2 DEF LoadStores, Marked, CachedCurrent
  <2>3. CASE ~UsesClient(v) /\ ~LoadStores(v)
    BY <1>2, <2>0, <2>3, CachesKept
       DEF VisitGoes, Resolves, HasTools, TakesLock, GetsLock, LoadReads, LoadFails, Departs,
           evictedVars
  <2>. QED BY <2>1, <2>2, <2>3
<1>3. CASE UNCHANGED configVars
  BY <1>3, CachesKept DEF configVars, evictedVars, Evicting
<1>. QED BY <1>1, <1>2, <1>3 DEF ConfigNext

-----------------------------------------------------------------------------
LEMMA InvInit == ConfigInit => ConfigInv
<1>. SUFFICES ASSUME ConfigInit PROVE ConfigInv
  OBVIOUS
<1>1. ConfigTypeOK
  BY ConfigInitType
<1>2. \A v \in Visits : visit[v].at = "away"
  BY DEF ConfigInit
<1>3. LockInv
  BY <1>2 DEF LockInv, AtTableLock, OneLoad, AwaitsTools, Loading
<1>4. \A u \in Updates : update[u].at = "idle"
  BY DEF ConfigInit
<1>5. ContextInv
  BY <1>4 DEF ConfigInit, ContextInv, NoneAhead, BehindIsCaughtUp
<1>6. CachedCurrent
  BY DEF ConfigInit, CachedCurrent
<1>. QED BY <1>1, <1>3, <1>5, <1>6 DEF ConfigInv

LEMMA InvStep == ConfigInv /\ [ConfigNext]_configVars => ConfigInv'
BY TypeStep, LockStep, ContextStep, CachedStep DEF ConfigInv

LEMMA InvHolds == ConfigSpec => []ConfigInv
BY InvInit, InvStep, PTL DEF ConfigSpec

(* The state is what the code can hold: every version is one that was committed, every
   request is somewhere in its handler. *)
THEOREM ConfigTypeCorrect == ConfigSpec => []ConfigTypeOK
<1>1. ConfigInv => ConfigTypeOK
  BY DEF ConfigInv
<1>. QED BY <1>1, InvHolds, PTL

(* However many requests arrive for a tenant without cached tools, one of them loads the
   tools and the others await it, until an eviction drops the lock they are at. *)
THEOREM OneLoadHolds == ConfigSpec => []OneLoad
<1>1. ConfigInv => OneLoad
  BY DEF ConfigInv, LockInv
<1>. QED BY <1>1, InvHolds, PTL

(* When the updates of a tenant are through, it resolves to the settings of the last one,
   unless a reload raised or was overtaken; and whatever is cached was built from what it
   resolves to, unless by a visit that had resolved it before, or its eviction never came. *)
THEOREM UpdateTakesHoldHolds == ConfigSpec => []UpdateTakesHold
<1>1. ConfigInv => UpdateTakesHold
  <2>. SUFFICES ASSUME ConfigInv PROVE UpdateTakesHold
    OBVIOUS
  <2>1. ASSUME Quiet PROVE context = settings \/ setback
    <3>1. \A u \in Updates : ~Catching(u)
      BY <2>1 DEF Quiet, Catching, Unfinished
    <3>2. context <= settings /\ context \in Nat /\ settings \in Nat
      BY DEF ConfigInv, ContextInv, NoneAhead, ConfigTypeOK, Versions
    <3>. QED BY <3>1, <3>2 DEF ConfigInv, ContextInv, BehindIsCaughtUp
  <2>. QED BY <2>1 DEF ConfigInv, UpdateTakesHold, ContextCurrent
<1>. QED BY <1>1, InvHolds, PTL

-----------------------------------------------------------------------------
(* Campaign: where each lead is. *)

(* What the proof needs of the types. *)
LeadTypes ==
    /\ leadStatus \in [Leads -> LeadStatuses]
    /\ retryCount \in [Leads -> Nat] /\ dialled \in [Leads -> Nat]
    /\ task \in [Leads -> Tasks] /\ disposition \in [Leads -> Dispositions]
    /\ active \subseteq Leads /\ completedLeads \subseteq Leads
    /\ crashed \subseteq Leads /\ stuck \subseteq Leads
    /\ campaignOver \in BOOLEAN

(* Where a lead can be. Every attempt but the one in progress has been counted. *)
Awaits(l) ==
    /\ leadStatus[l] \in {"pending", "retry"} /\ task[l] \in {"none", "reporting"}
    /\ l \notin active \cup stuck \cup crashed
    /\ dialled[l] = retryCount[l] /\ retryCount[l] < MaxAttempts
Queues(l) ==
    /\ leadStatus[l] = "in_flight" /\ task[l] = "queued"
    /\ l \in active /\ l \notin stuck \cup crashed
    /\ dialled[l] = retryCount[l] /\ retryCount[l] < MaxAttempts
Talks(l) ==
    /\ leadStatus[l] = "in_flight" /\ task[l] \in {"calling", "updating"}
    /\ l \in active /\ l \notin stuck \cup crashed
    /\ dialled[l] = retryCount[l] + 1 /\ retryCount[l] < MaxAttempts
Refuses(l) ==
    /\ leadStatus[l] = "dnd" /\ task[l] = "marking"
    /\ l \in active /\ l \notin stuck \cup crashed
    /\ dialled[l] <= MaxAttempts
Sticks(l) ==
    /\ leadStatus[l] = "dnd" /\ task[l] = "none"
    /\ l \in active \cap stuck /\ l \notin crashed
    /\ dialled[l] <= MaxAttempts
Settled(l) ==
    /\ leadStatus[l] \in Final /\ task[l] \in {"none", "reporting"}
    /\ l \notin active \cup stuck
    /\ dialled[l] <= MaxAttempts

LeadPlaced(l) ==
    /\ Awaits(l) \/ Queues(l) \/ Talks(l) \/ Refuses(l) \/ Sticks(l) \/ Settled(l)
    /\ l \in completedLeads <=> Settled(l) /\ l \notin crashed

(* A run that is over has settled everybody and left no task. *)
OverIsSettled == campaignOver => \A l \in Leads : Settled(l) /\ task[l] = "none"

CampaignInv == LeadTypes /\ (\A l \in Leads : LeadPlaced(l)) /\ OverIsSettled

-----------------------------------------------------------------------------
LEMMA CampaignInvInit == CampaignInit => CampaignInv
<1>. SUFFICES ASSUME CampaignInit PROVE CampaignInv
  OBVIOUS
<1>. USE DEF CampaignInit
<1>1. LeadTypes
  BY DEF LeadTypes, LeadStatuses, Tasks, Dispositions
<1>2. ASSUME NEW l \in Leads PROVE Awaits(l) /\ ~Settled(l) /\ l \notin completedLeads
  BY CampaignAssumption DEF Awaits, Settled, Final
<1>. QED BY <1>1, <1>2 DEF CampaignInv, LeadPlaced, OverIsSettled

LEMMA LeadsTyped == CampaignInv /\ [CampaignNext]_campaignVars => LeadTypes'
<1>. SUFFICES ASSUME CampaignInv, [CampaignNext]_campaignVars PROVE LeadTypes'
  OBVIOUS
<1>. USE CampaignAssumption DEF CampaignInv, LeadTypes, LeadStatuses, Final, Tasks,
   HoldsSemaphore, Dispositions,
         leadVars, runVars, outsideVars, historyVars
<1>1. CASE Iterate
  BY <1>1 DEF Iterate, Blocked, Picked, Eligible, Remaining
<1>2. ASSUME NEW l \in Leads, Acquires(l) PROVE LeadTypes'
  BY <1>2 DEF Acquires
<1>3. ASSUME NEW l \in Leads, DispatchCrashes(l) PROVE LeadTypes'
  BY <1>3 DEF DispatchCrashes, SchedulesRetry, AfterRetry
<1>4. ASSUME NEW l \in Leads, \E d \in Dispositions : DispatchReturns(l, d) PROVE LeadTypes'
  BY <1>4 DEF DispatchReturns
<1>5. ASSUME NEW l \in Leads, LeadUpdated(l) PROVE LeadTypes'
  <2>1. CASE disposition[l] = "refused"
    BY <1>5, <2>1 DEF LeadUpdated
  <2>2. CASE disposition[l] = "retry"
    BY <1>5, <2>2 DEF LeadUpdated, SchedulesRetry, AfterRetry, Settles
  <2>3. CASE disposition[l] = "talked"
    BY <1>5, <2>3 DEF LeadUpdated, Settles
  <2>. QED BY <2>1, <2>2, <2>3
<1>6. ASSUME NEW l \in Leads, DndMarked(l) PROVE LeadTypes'
  BY <1>6 DEF DndMarked, Settles
<1>7. ASSUME NEW l \in Leads, MarkFails(l) PROVE LeadTypes'
  BY <1>7 DEF MarkFails
<1>8. ASSUME NEW l \in Leads, Reported(l) PROVE LeadTypes'
  BY <1>8 DEF Reported
<1>9. ASSUME NEW n \in Phones, DndChanges(n) PROVE LeadTypes'
  BY <1>9 DEF DndChanges
<1>10. CASE HoursChange
  BY <1>10 DEF HoursChange
<1>11. CASE CampaignTick
  BY <1>11 DEF CampaignTick
<1>12. CASE UNCHANGED campaignVars
  BY <1>12 DEF campaignVars
<1>. QED BY <1>1, <1>2, <1>3, <1>4, <1>5, <1>6, <1>7, <1>8, <1>9, <1>10, <1>11, <1>12
         DEF CampaignNext, TaskGoes

LEMMA LeadsPlaced == CampaignInv /\ [CampaignNext]_campaignVars => (\A k \in Leads : LeadPlaced(k))'
<1>. SUFFICES ASSUME CampaignInv, [CampaignNext]_campaignVars, NEW k \in Leads PROVE LeadPlaced(k)'
  OBVIOUS
<1>. USE CampaignAssumption DEF CampaignInv, LeadTypes, LeadStatuses, Final, Tasks,
   HoldsSemaphore, Dispositions, LeadPlaced, Awaits, Queues, Talks, Refuses, Sticks, Settled,
         leadVars, runVars, outsideVars, historyVars
<1>1. CASE Iterate
  BY <1>1 DEF Iterate, Blocked, Picked, Eligible, Remaining
<1>2. ASSUME NEW l \in Leads, Acquires(l) PROVE LeadPlaced(k)'
  <2>1. CASE k = l
    <3>1. Queues(l) /\ Talks(l)'
      BY <1>2, <2>1 DEF Acquires
    <3>. QED BY <1>2, <2>1, <3>1 DEF Acquires
  <2>2. CASE k # l
    BY <1>2, <2>2 DEF Acquires
  <2>. QED BY <2>1, <2>2
<1>3. ASSUME NEW l \in Leads, DispatchCrashes(l) PROVE LeadPlaced(k)'
  BY <1>3 DEF DispatchCrashes, SchedulesRetry, AfterRetry
<1>4. ASSUME NEW l \in Leads, \E d \in Dispositions : DispatchReturns(l, d) PROVE LeadPlaced(k)'
  BY <1>4 DEF DispatchReturns
<1>5. ASSUME NEW l \in Leads, LeadUpdated(l) PROVE LeadPlaced(k)'
  <2>1. CASE disposition[l] = "refused"
    BY <1>5, <2>1 DEF LeadUpdated
  <2>2. CASE disposition[l] = "retry"
    BY <1>5, <2>2 DEF LeadUpdated, SchedulesRetry, AfterRetry, Settles
  <2>3. CASE disposition[l] = "talked"
    BY <1>5, <2>3 DEF LeadUpdated, Settles
  <2>. QED BY <2>1, <2>2, <2>3
<1>6. ASSUME NEW l \in Leads, DndMarked(l) PROVE LeadPlaced(k)'
  BY <1>6 DEF DndMarked, Settles
<1>7. ASSUME NEW l \in Leads, MarkFails(l) PROVE LeadPlaced(k)'
  BY <1>7 DEF MarkFails
<1>8. ASSUME NEW l \in Leads, Reported(l) PROVE LeadPlaced(k)'
  BY <1>8 DEF Reported
<1>9. ASSUME NEW n \in Phones, DndChanges(n) PROVE LeadPlaced(k)'
  BY <1>9 DEF DndChanges
<1>10. CASE HoursChange
  BY <1>10 DEF HoursChange
<1>11. CASE CampaignTick
  BY <1>11 DEF CampaignTick
<1>12. CASE UNCHANGED campaignVars
  BY <1>12 DEF campaignVars
<1>. QED BY <1>1, <1>2, <1>3, <1>4, <1>5, <1>6, <1>7, <1>8, <1>9, <1>10, <1>11, <1>12
         DEF CampaignNext, TaskGoes

LEMMA OverStays == CampaignInv /\ [CampaignNext]_campaignVars => OverIsSettled'
<1>. SUFFICES ASSUME CampaignInv, [CampaignNext]_campaignVars PROVE OverIsSettled'
  OBVIOUS
<1>. USE CampaignAssumption DEF CampaignInv, LeadTypes, LeadStatuses, Final, Tasks,
   HoldsSemaphore, Dispositions, OverIsSettled, LeadPlaced, Awaits, Queues, Talks, Refuses,
   Sticks, Settled,
         leadVars, runVars, outsideVars, historyVars
<1>1. CASE Iterate
  <2>. SUFFICES ASSUME campaignOver', NEW l \in Leads PROVE Settled(l)' /\ task'[l] = "none"
    OBVIOUS
  <2>1. Remaining' = {} /\ active' = {} /\ task'[l] = "none"
    BY <1>1 DEF Iterate
  <2>2. leadStatus'[l] \in Final
    BY <2>1 DEF Remaining
  <2>3. LeadPlaced(l)'
    BY <1>1, LeadsPlaced DEF CampaignNext
  <2>. QED BY <2>1, <2>2, <2>3
<1>2. ASSUME NEW l \in Leads, Acquires(l) PROVE OverIsSettled'
  BY <1>2 DEF Acquires
<1>3. ASSUME NEW l \in Leads, DispatchCrashes(l) PROVE OverIsSettled'
  BY <1>3 DEF DispatchCrashes, SchedulesRetry, AfterRetry
<1>4. ASSUME NEW l \in Leads, \E d \in Dispositions : DispatchReturns(l, d) PROVE OverIsSettled'
  BY <1>4 DEF DispatchReturns
<1>5. ASSUME NEW l \in Leads, LeadUpdated(l) PROVE OverIsSettled'
  <2>1. CASE disposition[l] = "refused"
    BY <1>5, <2>1 DEF LeadUpdated
  <2>2. CASE disposition[l] = "retry"
    BY <1>5, <2>2 DEF LeadUpdated, SchedulesRetry, AfterRetry, Settles
  <2>3. CASE disposition[l] = "talked"
    BY <1>5, <2>3 DEF LeadUpdated, Settles
  <2>. QED BY <2>1, <2>2, <2>3
<1>6. ASSUME NEW l \in Leads, DndMarked(l) PROVE OverIsSettled'
  BY <1>6 DEF DndMarked, Settles
<1>7. ASSUME NEW l \in Leads, MarkFails(l) PROVE OverIsSettled'
  BY <1>7 DEF MarkFails
<1>8. ASSUME NEW l \in Leads, Reported(l) PROVE OverIsSettled'
  BY <1>8 DEF Reported
<1>9. ASSUME NEW n \in Phones, DndChanges(n) PROVE OverIsSettled'
  BY <1>9 DEF DndChanges
<1>10. CASE HoursChange
  BY <1>10 DEF HoursChange
<1>11. CASE CampaignTick
  BY <1>11 DEF CampaignTick
<1>12. CASE UNCHANGED campaignVars
  BY <1>12 DEF campaignVars
<1>. QED BY <1>1, <1>2, <1>3, <1>4, <1>5, <1>6, <1>7, <1>8, <1>9, <1>10, <1>11, <1>12
         DEF CampaignNext, TaskGoes

LEMMA CampaignInvHolds == CampaignSpec => []CampaignInv
<1>1. CampaignInv /\ [CampaignNext]_campaignVars => CampaignInv'
  BY LeadsTyped, LeadsPlaced, OverStays DEF CampaignInv
<1>. QED BY <1>1, CampaignInvInit, PTL DEF CampaignSpec

LEMMA InvAccounts == CampaignInv => AttemptsBounded /\ SettledAreCounted
<1>. USE DEF CampaignInv, LeadPlaced, OverIsSettled, Awaits, Queues, Talks, Refuses, Sticks,
   Settled,
            LeadTypes, Final
<1>1. CampaignInv => AttemptsBounded
  BY CampaignAssumption DEF AttemptsBounded
<1>2. CampaignInv => SettledAreCounted
  BY DEF SettledAreCounted
<1>. QED BY <1>1, <1>2

-----------------------------------------------------------------------------
(* Campaign: the rate. *)

(* A set of ages that holds 0 and with every age the next one holds them all. *)
LEMMA EveryAge ==
    ASSUME NEW T, 0 \in T,
           \A a \in 0..Window : a > 0 /\ a - 1 \in T => a \in T
    PROVE  0..Window \subseteq T
<1>. SUFFICES ASSUME ~(0..Window \subseteq T) PROVE FALSE
  OBVIOUS
<1>. DEFINE Missing == (0..Window) \ T
            Less == OpToRel(<, Nat)
<1>1. Missing \subseteq Nat /\ Missing # {}
  OBVIOUS
<1>2. IsWellFoundedOn(Less, Nat)
  BY NatLessThanWellFounded
<1>. HIDE DEF Less
<1>3. PICK m \in Missing : \A n \in Missing : <<n, m>> \notin Less
  BY <1>1, <1>2, WFMin
<1>4. \A n, k \in Nat : n < k => <<n, k>> \in Less
  BY DEF Less, OpToRel
<1>5. m \in 0..Window /\ m \notin T /\ m # 0
  BY <1>3
<1>6. m - 1 \in Nat /\ m - 1 < m /\ m - 1 \in 0..Window
  BY <1>5, CampaignAssumption
<1>7. <<m - 1, m>> \in Less
  BY <1>1, <1>4, <1>6
<1>8. m - 1 \notin Missing
  BY <1>3, <1>7
<1>. QED BY <1>5, <1>6, <1>8

(* The running sums of the window. *)
IsSum(f, u) ==
    /\ u \in [0..Window -> Nat]
    /\ \A a \in 0..Window : u[a] = f[a] + IF a = 0 THEN 0 ELSE u[a - 1]

LEMMA SumExists ==
    ASSUME NEW f \in [0..Window -> Nat]
    PROVE  \E u : IsSum(f, u)
<1>. USE CampaignAssumption
<1>. DEFINE Partial(n, u) == /\ u \in [0..Window -> Nat]
                             /\ \A a \in 0..n : u[a] = f[a] + IF a = 0 THEN 0 ELSE u[a - 1]
            Reached == {n \in 0..Window : \E u : Partial(n, u)}
<1>1. 0 \in Reached
  <2>1. Partial(0, [a \in 0..Window |-> f[0]])
    OBVIOUS
  <2>. QED BY <2>1
<1>2. ASSUME NEW n \in 0..Window, n > 0, n - 1 \in Reached PROVE n \in Reached
  <2>1. PICK u : Partial(n - 1, u)
    BY <1>2
  <2>. DEFINE v == [u EXCEPT ![n] = f[n] + u[n - 1]]
  <2>2. n - 1 \in 0..Window /\ f[n] + u[n - 1] \in Nat
    <3>1. n - 1 \in 0..Window
      BY <1>2
    <3>2. u \in [0..Window -> Nat]
      BY <2>1
    <3>3. f[n] \in Nat
      BY <1>2
    <3>4. u[n - 1] \in Nat
      BY <3>1, <3>2
    <3>. QED BY <3>1, <3>3, <3>4
  <2>3. v \in [0..Window -> Nat]
    BY <2>1, <2>2
  <2>4. ASSUME NEW a \in 0..n PROVE v[a] = f[a] + IF a = 0 THEN 0 ELSE v[a - 1]
    <3>1. CASE a = n
      BY <1>2, <2>1, <2>2, <3>1
    <3>2. CASE a # n
      BY <1>2, <2>1, <2>2, <3>2
    <3>. QED BY <3>1, <3>2
  <2>5. Partial(n, v)
    BY <2>3, <2>4
  <2>. QED BY <2>5
<1>. HIDE DEF Partial
<1>3. 0..Window \subseteq Reached
  <2>. HIDE DEF Reached
  <2>. QED BY <1>1, <1>2, EveryAge
<1>4. PICK u : Partial(Window, u)
  BY <1>3
<1>. QED BY <1>4 DEF Partial, IsSum

LEMMA SumUnique ==
    ASSUME NEW f \in [0..Window -> Nat], NEW u, NEW v, IsSum(f, u), IsSum(f, v)
    PROVE  u = v
<1>. USE CampaignAssumption DEF IsSum
<1>. DEFINE Agree == {a \in 0..Window : u[a] = v[a]}
<1>1. 0 \in Agree
  OBVIOUS
<1>2. ASSUME NEW a \in 0..Window, a > 0, a - 1 \in Agree PROVE a \in Agree
  BY <1>2
<1>3. 0..Window \subseteq Agree
  <2>. HIDE DEF Agree
  <2>. QED BY <1>1, <1>2, EveryAge
<1>. QED BY <1>3

(* Recently is the last of the sums. *)
Sums(f) == CHOOSE u : u = [a \in 0..Window |-> f[a] + IF a = 0 THEN 0 ELSE u[a - 1]]

LEMMA SumsAre ==
    ASSUME NEW f \in [0..Window -> Nat]
    PROVE  IsSum(f, Sums(f))
<1>. DEFINE P(u) == u = [a \in 0..Window |-> f[a] + IF a = 0 THEN 0 ELSE u[a - 1]]
<1>1. PICK w : IsSum(f, w)
  BY SumExists
<1>2. P(w)
  BY <1>1 DEF IsSum
<1>3. P(CHOOSE u : P(u))
  <2>. HIDE DEF P
  <2>. QED BY <1>2, Zenon
<1>4. Sums(f) = CHOOSE u : P(u)
  BY DEF Sums
<1>5. P(Sums(f))
  BY <1>3, <1>4
<1>. DEFINE s == Sums(f)
<1>6. s = [a \in 0..Window |-> f[a] + IF a = 0 THEN 0 ELSE s[a - 1]]
  BY <1>5
<1>. HIDE DEF s
<1>. USE CampaignAssumption
<1>7. \A a \in 0..Window : s[a] = f[a] + IF a = 0 THEN 0 ELSE s[a - 1]
  BY <1>6
<1>8. 0..Window \subseteq {a \in 0..Window : s[a] \in Nat}
  <2>1. 0 \in {a \in 0..Window : s[a] \in Nat}
    BY <1>7
  <2>2. ASSUME NEW a \in 0..Window, a > 0, a - 1 \in {b \in 0..Window : s[b] \in Nat}
        PROVE  a \in {b \in 0..Window : s[b] \in Nat}
    BY <1>7, <2>2
  <2>. QED BY <2>1, <2>2, EveryAge
<1>9. s \in [0..Window -> Nat]
  BY <1>6, <1>8
<1>. QED BY <1>7, <1>9 DEF IsSum, s

Summed == recent \in [0..Window -> Nat] => Recently = Sums(recent)[Window]

LEMMA RecentlyIsSum == Summed
BY DEF Summed, Recently, Sums

(* A poll adds what it picked to every sum; a tick moves the sums one age up. *)
LEMMA SumsOfPoll ==
    ASSUME NEW f \in [0..Window -> Nat], NEW p \in Nat
    PROVE  /\ [f EXCEPT ![0] = @ + p] \in [0..Window -> Nat]
           /\ Sums([f EXCEPT ![0] = @ + p])[Window] = Sums(f)[Window] + p
<1>. USE CampaignAssumption
<1>. DEFINE g == [f EXCEPT ![0] = @ + p]
            more == [a \in 0..Window |-> Sums(f)[a] + p]
<1>1. g \in [0..Window -> Nat]
  OBVIOUS
<1>2. IsSum(f, Sums(f)) /\ IsSum(g, Sums(g))
  BY <1>1, SumsAre
<1>3. IsSum(g, more)
  <2>1. more \in [0..Window -> Nat]
    BY <1>2 DEF IsSum
  <2>2. ASSUME NEW a \in 0..Window PROVE more[a] = g[a] + IF a = 0 THEN 0 ELSE more[a - 1]
    <3>1. CASE a = 0
      BY <1>2, <3>1 DEF IsSum
    <3>2. CASE a # 0
      <4>1. a - 1 \in 0..Window
        BY <3>2
      <4>2. Sums(f)[a] = f[a] + Sums(f)[a - 1] /\ Sums(f)[a - 1] \in Nat /\ f[a] \in Nat
        BY <1>2, <3>2, <4>1 DEF IsSum
      <4>. QED BY <3>2, <4>1, <4>2
    <3>. QED BY <3>1, <3>2
  <2>. QED BY <2>1, <2>2 DEF IsSum
<1>4. Sums(g) = more
  BY <1>1, <1>2, <1>3, SumUnique
<1>. QED BY <1>1, <1>4

LEMMA SumsOfTick ==
    ASSUME NEW f \in [0..Window -> Nat]
    PROVE  LET g == [a \in 0..Window |-> IF a = 0 THEN 0 ELSE f[a - 1]]
           IN  g \in [0..Window -> Nat] /\ Sums(g)[Window] <= Sums(f)[Window]
<1>. USE CampaignAssumption
<1>. DEFINE g == [a \in 0..Window |-> IF a = 0 THEN 0 ELSE f[a - 1]]
            moved == [a \in 0..Window |-> IF a = 0 THEN 0 ELSE Sums(f)[a - 1]]
<1>1. \A a \in 0..Window : a # 0 => a - 1 \in 0..Window
  OBVIOUS
<1>2. g \in [0..Window -> Nat]
  BY <1>1
<1>3. IsSum(f, Sums(f)) /\ IsSum(g, Sums(g))
  BY <1>2, SumsAre
<1>4. IsSum(g, moved)
  <2>1. moved \in [0..Window -> Nat]
    BY <1>1, <1>3 DEF IsSum
  <2>2. ASSUME NEW a \in 0..Window PROVE moved[a] = g[a] + IF a = 0 THEN 0 ELSE moved[a - 1]
    <3>1. CASE a = 0
      BY <3>1
    <3>2. CASE a # 0
      <4>1. a - 1 \in 0..Window
        BY <3>2
      <4>2. /\ Sums(f)[a - 1] = f[a - 1] + IF a - 1 = 0 THEN 0 ELSE Sums(f)[(a - 1) - 1]
            /\ moved[a] = Sums(f)[a - 1] /\ g[a] = f[a - 1]
            /\ moved[a - 1] = IF a - 1 = 0 THEN 0 ELSE Sums(f)[(a - 1) - 1]
        BY <1>3, <3>2, <4>1 DEF IsSum
      <4>. QED BY <3>2, <4>2
    <3>. QED BY <3>1, <3>2
  <2>. QED BY <2>1, <2>2 DEF IsSum
<1>5. Sums(g) = moved
  BY <1>2, <1>3, <1>4, SumUnique
<1>6. moved[Window] <= Sums(f)[Window]
  <2>1. CASE Window = 0
    BY <1>3, <2>1 DEF IsSum
  <2>2. CASE Window # 0
    <3>1. Window - 1 \in 0..Window /\ Window \in 0..Window
      BY <2>2
    <3>2. Sums(f)[Window] = f[Window] + Sums(f)[Window - 1]
          /\ Sums(f)[Window - 1] \in Nat /\ f[Window] \in Nat
      BY <1>3, <2>2, <3>1 DEF IsSum
    <3>. QED BY <2>2, <3>1, <3>2
  <2>. QED BY <2>1, <2>2
<1>. QED BY <1>2, <1>5, <1>6

LEMMA SumsBound ==
    ASSUME NEW f \in [0..Window -> Nat], NEW a \in 0..Window
    PROVE  f[a] <= Sums(f)[Window] /\ Sums(f)[Window] \in Nat
<1>. USE CampaignAssumption
<1>1. IsSum(f, Sums(f))
  BY SumsAre
<1>. DEFINE s == Sums(f)
<1>2. /\ s \in [0..Window -> Nat]
      /\ \A b \in 0..Window : b # 0 => b - 1 \in 0..Window /\ s[b] = f[b] + s[b - 1]
      /\ s[0] = f[0]
  BY <1>1 DEF IsSum
<1>. HIDE DEF s
<1>. DEFINE Above == {b \in 0..Window : b >= a => f[a] <= s[b]}
<1>3. 0 \in Above
  BY <1>2
<1>4. ASSUME NEW b \in 0..Window, b > 0, b - 1 \in Above PROVE b \in Above
  <2>1. b - 1 \in 0..Window /\ s[b] = f[b] + s[b - 1]
    BY <1>2, <1>4
  <2>2. s[b] \in Nat /\ s[b - 1] \in Nat /\ f[b] \in Nat /\ f[a] \in Nat
    BY <1>2, <2>1
  <2>3. CASE b - 1 >= a
    BY <1>4, <2>1, <2>2, <2>3
  <2>4. CASE b - 1 < a
    <3>1. b >= a => b = a
      BY <2>4
    <3>. QED BY <2>1, <2>2, <3>1
  <2>. QED BY <2>1, <2>3, <2>4
<1>5. 0..Window \subseteq Above
  <2>. HIDE DEF Above
  <2>. QED BY <1>3, <1>4, EveryAge
<1>6. f[a] <= s[Window] /\ s[Window] \in Nat
  BY <1>2, <1>5
<1>. QED BY <1>6 DEF s

(* A poll picks no more than its budget: a lead that is picked has fewer than that many
   before it, and no two have the same number before them. *)
LEMMA PickedFits ==
    ASSUME Budget \in Nat
    PROVE  /\ IsFiniteSet(Picked) /\ Cardinality(Picked) \in Nat
           /\ Cardinality(Picked) <= Budget
<1>. DEFINE Before(l) == {k \in Eligible : k < l}
            T == 0..(Budget - 1)
            f == [l \in Picked |-> Cardinality(Before(l))]
<1>1. Eligible \subseteq Leads /\ Picked \subseteq Eligible /\ IsFiniteSet(Leads) /\ Leads \subseteq Nat
  BY CampaignAssumption DEF Eligible, Picked, Remaining
<1>2. IsFiniteSet(Eligible) /\ IsFiniteSet(Picked)
  BY <1>1, FS_Subset
<1>3. ASSUME NEW l PROVE IsFiniteSet(Before(l)) /\ Cardinality(Before(l)) \in Nat
  <2>1. Before(l) \subseteq Eligible
    OBVIOUS
  <2>2. IsFiniteSet(Before(l))
    BY <1>2, <2>1, FS_Subset
  <2>. QED BY <2>2, FS_CardinalityType
<1>4. \A l \in Picked : Cardinality(Before(l)) \in T
  <2>. SUFFICES ASSUME NEW l \in Picked PROVE Cardinality(Before(l)) \in T
    OBVIOUS
  <2>1. Cardinality(Before(l)) < Budget
    BY DEF Picked
  <2>. QED BY <1>3, <2>1
<1>5. ASSUME NEW k \in Picked, NEW l \in Picked, k < l
      PROVE  Cardinality(Before(k)) # Cardinality(Before(l))
  <2>1. Before(k) \subseteq Before(l) /\ k \in Before(l) /\ k \notin Before(k)
    <3>1. k \in Nat /\ l \in Nat /\ k \in Eligible /\ \A x \in Eligible : x \in Nat
      BY <1>1
    <3>2. \A x \in Nat : x < k => x < l
      BY <1>5, <3>1
    <3>3. ~(k < k)
      BY <3>1
    <3>. QED BY <1>5, <3>1, <3>2, <3>3
  <2>2. Cardinality(Before(k)) = Cardinality(Before(l)) => Before(k) = Before(l)
    <3>. HIDE DEF Before
    <3>. QED BY <1>3, <2>1, FS_Subset
  <2>. QED BY <2>1, <2>2
<1>. HIDE DEF Before
<1>6. \A k, l \in Picked : Cardinality(Before(k)) = Cardinality(Before(l)) => k = l
  <2>. SUFFICES ASSUME NEW k \in Picked, NEW l \in Picked, k # l
                PROVE  Cardinality(Before(k)) # Cardinality(Before(l))
    OBVIOUS
  <2>1. k \in Nat /\ l \in Nat
    BY <1>1
  <2>2. k < l \/ l < k
    BY <2>1
  <2>. QED BY <1>5, <2>2
<1>7. f \in Injection(Picked, T)
  BY <1>4, <1>6 DEF Injection, IsInjective
<1>8. IsFiniteSet(T) /\ Cardinality(T) = Budget
  BY FS_Interval
<1>. HIDE DEF f, T
<1>9. Cardinality(Picked) <= Cardinality(T)
  BY <1>7, <1>8, FS_Injection
<1>. QED BY <1>2, <1>8, <1>9, FS_CardinalityType

-----------------------------------------------------------------------------
CountersTyped ==
    /\ recent \in [0..Window -> Nat]
    /\ retryCount \in [Leads -> 0..MaxAttempts] /\ retryDue \in [Leads -> 0..RetryInterval]
    /\ dndStore \subseteq Phones /\ open \in BOOLEAN

LEMMA BudgetFits ==
    ASSUME CampaignInv, recent \in [0..Window -> Nat], RateKept
    PROVE  Budget \in Nat /\ (Recently + Budget <= CallsPerWindow)
<1>1. IsFiniteSet(Leads) /\ active \subseteq Leads /\ CallsPerWindow \in Nat /\ PollCap \in Nat
      /\ Window \in 0..Window
  BY CampaignAssumption DEF CampaignInv, LeadTypes
<1>2. Cardinality(active) \in Nat
  BY <1>1, FS_Subset, FS_CardinalityType
<1>3. Recently \in Nat
  BY <1>1, RecentlyIsSum, SumsBound DEF Summed
<1>. QED BY <1>1, <1>2, <1>3 DEF Budget, Least, RateKept

LEMMA RateKeptInit == CampaignInit => CountersTyped /\ RateKept
<1>. SUFFICES ASSUME CampaignInit PROVE CountersTyped /\ RateKept
  OBVIOUS
<1>. USE CampaignAssumption DEF CampaignInit
<1>1. CountersTyped
  BY DEF CountersTyped
<1>2. IsSum(recent, [a \in 0..Window |-> 0])
  BY DEF IsSum
<1>3. Sums(recent) = [a \in 0..Window |-> 0]
  BY <1>1, <1>2, SumsAre, SumUnique DEF CountersTyped
<1>4. Recently = 0
  BY <1>1, <1>3, RecentlyIsSum DEF CountersTyped, Summed
<1>. QED BY <1>1, <1>4 DEF RateKept

LEMMA RateKeptStep ==
    CampaignInv /\ CountersTyped /\ RateKept /\ [CampaignNext]_campaignVars
        => recent' \in [0..Window -> Nat] /\ RateKept'
<1>. SUFFICES ASSUME CampaignInv, CountersTyped, RateKept, [CampaignNext]_campaignVars
              PROVE  recent' \in [0..Window -> Nat] /\ RateKept'
  OBVIOUS
<1>0. recent \in [0..Window -> Nat] /\ CallsPerWindow \in Nat /\ Window \in 0..Window
  BY CampaignAssumption DEF CountersTyped
<1>1. Recently = Sums(recent)[Window] /\ Recently \in Nat
  BY <1>0, RecentlyIsSum, SumsBound DEF Summed
<1>2. recent' \in [0..Window -> Nat] => Recently' = Sums(recent')[Window]
  <2>1. Summed'
    BY RecentlyIsSum, PTL
  <2>. QED BY <2>1 DEF Summed
<1>3. CASE Iterate
  <2>1. Budget \in Nat /\ Recently + Budget <= CallsPerWindow
    BY <1>0, BudgetFits
  <2>2. Cardinality(Picked) \in Nat /\ Cardinality(Picked) <= Budget
    BY <2>1, PickedFits
  <2>3. recent' = [recent EXCEPT ![0] = @ + Cardinality(Picked)]
    BY <1>3 DEF Iterate
  <2>4. recent' \in [0..Window -> Nat] /\ Sums(recent')[Window] = Sums(recent)[Window] + Cardinality(Picked)
    BY <1>0, <2>2, <2>3, SumsOfPoll
  <2>5. Recently' = Recently + Cardinality(Picked)
    BY <1>1, <1>2, <2>4
  <2>6. Recently' <= CallsPerWindow
    BY <1>0, <1>1, <2>1, <2>2, <2>5
  <2>. QED BY <2>4, <2>6 DEF RateKept
<1>4. CASE CampaignTick
  <2>1. recent' = [a \in 0..Window |-> IF a = 0 THEN 0 ELSE recent[a - 1]]
    BY <1>4 DEF CampaignTick
  <2>2. recent' \in [0..Window -> Nat] /\ Sums(recent')[Window] <= Sums(recent)[Window]
    BY <1>0, <2>1, SumsOfTick
  <2>3. Sums(recent')[Window] \in Nat
    BY <1>0, <2>2, SumsBound
  <2>4. Recently' <= CallsPerWindow
    BY <1>0, <1>1, <1>2, <2>2, <2>3 DEF RateKept
  <2>. QED BY <2>2, <2>4 DEF RateKept
<1>5. CASE UNCHANGED recent
  <2>1. Recently' = Recently
    BY <1>0, <1>1, <1>2, <1>5
  <2>. QED BY <1>0, <1>5, <2>1 DEF RateKept
<1>6. Iterate \/ CampaignTick \/ UNCHANGED recent
  BY DEF CampaignNext, TaskGoes, Acquires, DispatchCrashes, DispatchReturns, LeadUpdated, DndMarked,
         MarkFails, Reported, DndChanges, HoursChange, campaignVars
<1>. QED BY <1>3, <1>4, <1>5, <1>6

LEMMA CountersStep ==
    CampaignInv /\ CountersTyped /\ RateKept /\ [CampaignNext]_campaignVars => CountersTyped'
<1>. SUFFICES ASSUME CampaignInv, CountersTyped, RateKept, [CampaignNext]_campaignVars
              PROVE  CountersTyped'
  OBVIOUS
<1>0. recent' \in [0..Window -> Nat]
  BY RateKeptStep
<1>. USE CampaignAssumption
<1>a. /\ MaxAttempts \in Nat /\ RetryInterval \in Nat
      /\ \A l \in Leads : task[l] \in {"calling", "updating"} => retryCount[l] < MaxAttempts
  BY DEF CampaignInv, LeadPlaced, Awaits, Queues, Talks, Refuses, Sticks, Settled
<1>. USE DEF CountersTyped, leadVars, runVars, outsideVars, historyVars
<1>1. CASE UNCHANGED <<leadVars, outsideVars>>
  BY <1>0, <1>1
<1>2. CASE UNCHANGED <<retryCount, retryDue, outsideVars>>
  BY <1>0, <1>2
<1>3. ASSUME NEW l \in Leads, task[l] \in {"calling", "updating"}, SchedulesRetry(l),
             UNCHANGED outsideVars
      PROVE  CountersTyped'
  BY <1>0, <1>a, <1>3 DEF SchedulesRetry
<1>4. ASSUME NEW l \in Leads, DispatchCrashes(l) PROVE CountersTyped'
  BY <1>3, <1>4 DEF DispatchCrashes
<1>5. ASSUME NEW l \in Leads, LeadUpdated(l) PROVE CountersTyped'
  <2>1. CASE disposition[l] = "retry"
    BY <1>3, <1>5, <2>1 DEF LeadUpdated
  <2>2. CASE disposition[l] = "refused"
    BY <1>2, <1>5, <2>2 DEF LeadUpdated
  <2>3. CASE disposition[l] = "talked"
    BY <1>2, <1>5, <2>3 DEF LeadUpdated
  <2>. QED BY <2>1, <2>2, <2>3 DEF CampaignInv, LeadTypes, Dispositions
<1>6. ASSUME NEW n \in Phones, DndChanges(n) PROVE CountersTyped'
  BY <1>0, <1>6 DEF DndChanges
<1>7. CASE HoursChange
  BY <1>0, <1>7 DEF HoursChange
<1>8. CASE CampaignTick
  BY <1>0, <1>8, <1>a DEF CampaignTick
<1>9. CASE Iterate
  BY <1>2, <1>9 DEF Iterate
<1>10. ASSUME NEW l \in Leads,
              Acquires(l) \/ (\E d \in Dispositions : DispatchReturns(l, d)) \/ DndMarked(l)
                  \/ MarkFails(l) \/ Reported(l)
       PROVE  CountersTyped'
  BY <1>2, <1>10 DEF Acquires, DispatchReturns, DndMarked, MarkFails, Reported
<1>11. CASE UNCHANGED campaignVars
  BY <1>1, <1>11 DEF campaignVars
<1>. QED BY <1>4, <1>5, <1>6, <1>7, <1>8, <1>9, <1>10, <1>11 DEF CampaignNext, TaskGoes

LEMMA RateInvHolds == CampaignSpec => [](CampaignInv /\ CountersTyped /\ RateKept)
<1>1. CampaignInv /\ CountersTyped /\ RateKept /\ [CampaignNext]_campaignVars
        => (CountersTyped /\ RateKept)'
  BY RateKeptStep, CountersStep
<1>2. CampaignSpec => [][CampaignNext]_campaignVars /\ CountersTyped /\ RateKept
  BY RateKeptInit DEF CampaignSpec
<1>. QED BY <1>1, <1>2, CampaignInvHolds, PTL DEF CampaignSpec

(* The scheduler's rate limit (scheduler.py): however the polls, the clock and the calls
   interleave, no more than CallsPerWindow calls are dispatched within Window units. *)
THEOREM RateKeptHolds == CampaignSpec => []RateKept
BY RateInvHolds, PTL

LEMMA CampaignTyped == CampaignInv /\ CountersTyped /\ RateKept => CampaignTypeOK
<1>. SUFFICES ASSUME CampaignInv, CountersTyped, RateKept PROVE CampaignTypeOK
  OBVIOUS
<1>1. CallsPerWindow \in Nat /\ Window \in 0..Window
  BY CampaignAssumption
<1>2. \A a \in 0..Window : recent[a] \in 0..CallsPerWindow
  <2>. SUFFICES ASSUME NEW a \in 0..Window PROVE recent[a] \in 0..CallsPerWindow
    OBVIOUS
  <2>1. recent[a] \in Nat /\ recent[a] <= Recently /\ Recently \in Nat
    BY RecentlyIsSum, SumsBound DEF Summed, CountersTyped
  <2>. QED BY <1>1, <2>1 DEF RateKept
<1>3. recent \in [0..Window -> 0..CallsPerWindow]
  BY <1>2 DEF CountersTyped
<1>. QED BY <1>3 DEF CampaignTypeOK, CampaignInv, LeadTypes, CountersTyped

(* Every lead is accounted for: it is dialled MaxAttempts times at most and never once it
   is settled, the counted leads are the settled ones but for the two kinds the code
   misses, a run is over only when all are settled (orchestrator.py), and the rate is
   kept. *)
THEOREM LeadsAccountedHolds == CampaignSpec => []LeadsAccounted
<1>1. CampaignInv /\ RateKept => LeadsAccounted
  BY InvAccounts DEF LeadsAccounted
<1>. QED BY <1>1, RateInvHolds, PTL

(* Types, the rate limit of each age of the window among them. *)
THEOREM CampaignTypeCorrect == CampaignSpec => []CampaignTypeOK
BY CampaignTyped, RateInvHolds, PTL

-----------------------------------------------------------------------------
(* The three, side by side. *)

LEMMA EachOfTheProcess == ProcessSpec => Spec /\ ConfigSpec /\ CampaignSpec
<1>1. ProcessInit => Init /\ ConfigInit /\ CampaignInit
  BY DEF ProcessInit
<1>2. [ProcessNext]_processVars
        => [Next]_vars /\ [ConfigNext]_configVars /\ [CampaignNext]_campaignVars
  BY DEF ProcessNext, processVars
<1>. QED BY <1>1, <1>2, PTL DEF ProcessSpec, Spec, ConfigSpec, CampaignSpec

(* The types of what a process keeps: the chats, a tenant's settings, a campaign. *)
THEOREM ProcessTypesCorrect == ProcessSpec => []ProcessTypesOK
<1>1. TypeOK /\ ConfigTypeOK /\ CampaignTypeOK => ProcessTypesOK
  BY DEF ProcessTypesOK
<1>. QED BY <1>1, EachOfTheProcess, TypeCorrect, ConfigTypeCorrect, CampaignTypeCorrect, PTL
=============================================================================
