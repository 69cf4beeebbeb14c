---------------------------- MODULE TenantConfig ----------------------------
(* One tenant's settings in one process, from the admin's commit to the clients that
   its calls and chats use: the tables of DbTenantResolver, the caches of
   TenantRuntimeRegistry, and the asynchronous cache of the tenant's CRM tools.
   Settings and tools are counted: version n is the one the n-th commit left. *)
EXTENDS Integers

CONSTANTS
    Updates,            \* requests that change the tenant, its tools or the platform
    Visits,             \* requests and sockets that resolve the tenant
    MaxConfigFaults,    \* bound: reloads and loads that raise
    Nobody              \* no lock in the table

ASSUME ConfigAssumption == MaxConfigFaults \in Nat /\ Nobody \notin Visits

VARIABLES
    settings, tools,    \* the committed rows: the tenant's; chat_tools, crms, crm_tools
    context,            \* DbTenantResolver: the version it resolves the tenant to
    client,             \* TenantProviders._cache, the synchronous sub-registries
    items, locks,       \* _AsyncPerTenantRegistry: the tools; whose lock is in the table
    update, visit,      \* the requests
    refilled,           \* history: caches an old context filled, or an eviction spared
    crossed,            \* history: loads an eviction crossed
    setback, configFaults

evictedVars == <<client, items, locks>>
configVars == <<settings, tools, context, evictedVars, update, visit,
                refilled, crossed, setback, configFaults>>

Versions == Nat
None == 0 - 1
NoItems == [of |-> None, tools |-> None]

(* An update of the tenant reloads the resolver: "reading" has the rows, "swapped" has
   changed the tables and awaits the end of its database session. *)
Unfinished == {"committed", "reading"}
Kinds == {"settings", "tools", "platform"}
UpdatesAt == Unfinished \cup {"idle", "swapped", "done", "failed"}

(* A visit asks for the tools once, while it builds its agent: "loading" runs the
   factory, "loaded" has read the tools' rows. *)
Loading == {"loading", "loaded"}
VisitsAt == Loading \cup {"away", "resolved", "waiting", "serving", "gone"}

ConfigTypeOK ==
    /\ settings \in Versions /\ tools \in Versions /\ context \in Versions
    /\ client \in Versions \cup {None}
    /\ items \in [of : Versions, tools : Versions] \cup {NoItems}
    /\ locks \in Visits \cup {Nobody}
    /\ update \in [Updates -> [at : UpdatesAt, kind : Kinds, rows : Versions]]
    /\ visit \in [Visits -> [at : VisitsAt, of : Versions, tools : Versions,
                             lock : Visits \cup {Nobody}]]
    /\ refilled \subseteq {"client", "items"} /\ crossed \subseteq Visits
    /\ setback \in BOOLEAN
    /\ configFaults \in 0..MaxConfigFaults

ConfigInit ==
    /\ settings = 0 /\ tools = 0 /\ context = 0
    /\ client = None /\ items = NoItems /\ locks = Nobody
    /\ update \in [Updates -> [at : {"idle"}, kind : Kinds, rows : {0}]]
    /\ visit = [v \in Visits |-> [at |-> "away", of |-> 0, tools |-> 0, lock |-> Nobody]]
    /\ refilled = {} /\ crossed = {} /\ setback = FALSE /\ configFaults = 0

-----------------------------------------------------------------------------
(* Updates. *)

AwaitsTools == {v \in Visits : visit[v].at \in Loading \cup {"waiting"}}

EvictsClients ==                                                    \* a mutant
    /\ client' = None
    /\ UNCHANGED <<items, locks>>
    /\ refilled' = {}
    /\ crossed' = crossed \cup AwaitsTools

(* evict_all: every cache is emptied, and the locks are dropped with whoever holds or
   awaits them. *)
EvictAll ==
    /\ client' = None /\ items' = NoItems /\ locks' = Nobody
    /\ refilled' = {}
    /\ crossed' = crossed \cup AwaitsTools

(* register_tenant, update_tenant and the rotations commit the rows. *)
CommitSettings(u) ==
    /\ update[u].at = "idle" /\ update[u].kind = "settings"
    /\ settings' = settings + 1
    /\ update' = [update EXCEPT ![u].at = "committed"]
    /\ UNCHANGED <<tools, context, evictedVars, visit, refilled, crossed, setback, configFaults>>

(* reload: the rows are read, with an await after each of its queries. *)
ReloadReads(u) ==
    /\ update[u].at = "committed"
    /\ update' = [update EXCEPT ![u].at = "reading", ![u].rows = settings]
    /\ UNCHANGED <<settings, tools, context, evictedVars, visit, refilled, crossed, setback,
                   configFaults>>

(* The tables are swapped. A reload that another one overtook takes them back to what it
   has read. *)
ReloadSwaps(u) ==
    /\ update[u].at = "reading"
    /\ context' = update[u].rows
    /\ setback' = (update[u].rows < context \/ (setback /\ update[u].rows < settings))
    /\ update' = [update EXCEPT ![u].at = "swapped"]
    /\ UNCHANGED <<settings, tools, evictedVars, visit, refilled, crossed, configFaults>>

(* The session is closed, and on_reload is called. *)
ReloadEvicts(u) ==
    /\ update[u].at = "swapped"
    /\ EvictAll
    /\ update' = [update EXCEPT ![u].at = "done"]
    /\ UNCHANGED <<settings, tools, context, visit, setback, configFaults>>

(* The database, or any tenant's row that does not validate, makes reload raise. *)
ReloadFails(u) ==
    /\ update[u].at \in Unfinished
    /\ configFaults < MaxConfigFaults
    /\ configFaults' = configFaults + 1
    /\ setback' = TRUE
    /\ update' = [update EXCEPT ![u].at = "failed"]
    /\ UNCHANGED <<settings, tools, context, evictedVars, visit, refilled, crossed>>

(* The end of the session raises: the tables are new, the caches are not emptied. *)
EvictionFails(u) ==
    /\ update[u].at = "swapped"
    /\ configFaults < MaxConfigFaults
    /\ configFaults' = configFaults + 1
    /\ refilled' = {"client", "items"}
    /\ update' = [update EXCEPT ![u].at = "failed"]
    /\ UNCHANGED <<settings, tools, context, evictedVars, visit, crossed, setback>>

(* register_tools, delete_tool, seed_tools_from_catalog and update_crm evict nothing. *)
CommitTools(u) ==
    /\ update[u].at = "idle" /\ update[u].kind = "tools"
    /\ tools' = tools + 1
    /\ update' = [update EXCEPT ![u].at = "done"]
    /\ UNCHANGED <<settings, context, evictedVars, visit, refilled, crossed, setback,
                   configFaults>>

(* _apply_live: the platform's defaults changed, the tenants' contexts did not. *)
ApplyLive(u) ==
    /\ update[u].at = "idle" /\ update[u].kind = "platform"
    /\ EvictAll
    /\ update' = [update EXCEPT ![u].at = "done"]
    /\ UNCHANGED <<settings, tools, context, visit, setback, configFaults>>

-----------------------------------------------------------------------------
(* Visits. A socket keeps the context it resolved for as long as it is open. *)

Resolves(v) ==
    /\ visit[v].at = "away"
    /\ visit' = [visit EXCEPT ![v].at = "resolved", ![v].of = context]
    /\ UNCHANGED <<settings, tools, context, evictedVars, update, refilled, crossed, setback,
                   configFaults>>

Marked(cache, v) ==
    IF visit[v].of # context THEN refilled \cup {cache} ELSE refilled

(* _get_or_build, and get of _PerTenantRegistry: a client that is not there is built from
   the visit's context. *)
UsesClient(v) ==
    /\ visit[v].at \in {"resolved", "serving"}
    /\ client = None
    /\ client' = visit[v].of
    /\ refilled' = Marked("client", v)
    /\ UNCHANGED <<settings, tools, context, items, locks, update, visit, crossed, setback,
                   configFaults>>

Serve(v, its) == [visit EXCEPT ![v].at = "serving", ![v].tools = its.tools]

HasTools(v) ==
    /\ visit[v].at = "resolved"
    /\ items # NoItems
    /\ visit' = Serve(v, items)
    /\ UNCHANGED <<settings, tools, context, evictedVars, update, refilled, crossed, setback,
                   configFaults>>

AlwaysFree(l) == l = l                                              \* a mutant
LockFree(l) == \A w \in Visits : visit[w].at \in Loading => visit[w].lock # l

(* locks.setdefault: the lock in the table, or a new one, which is the visit's. A lock
   that is free is taken at once. *)
TakesLock(v) ==
    /\ visit[v].at = "resolved"
    /\ items = NoItems
    /\ LET l == IF locks = Nobody THEN v ELSE locks IN
           /\ locks' = l
           /\ visit' = [visit EXCEPT ![v].at = IF LockFree(l) THEN "loading" ELSE "waiting",
                                     ![v].lock = l]
    /\ UNCHANGED <<settings, tools, context, client, items, update, refilled, crossed,
                   setback, configFaults>>

(* The lock is free: the tools are there by then, or this visit loads them. *)
GetsLock(v) ==
    /\ visit[v].at = "waiting"
    /\ LockFree(visit[v].lock)
    /\ visit' = IF items # NoItems THEN Serve(v, items)
                ELSE [visit EXCEPT ![v].at = "loading"]
    /\ UNCHANGED <<settings, tools, context, evictedVars, update, refilled, crossed, setback,
                   configFaults>>

(* resolve_crm_tools has the rows of chat_tools, or of the CRM's catalog. *)
LoadReads(v) ==
    /\ visit[v].at = "loading"
    /\ visit' = [visit EXCEPT ![v].at = "loaded", ![v].tools = tools]
    /\ UNCHANGED <<settings, tools, context, evictedVars, update, refilled, crossed, setback,
                   configFaults>>

(* The loaded tools are kept, whatever was evicted in the meantime. *)
LoadStores(v) ==
    /\ visit[v].at = "loaded"
    /\ items' = [of |-> visit[v].of, tools |-> visit[v].tools]
    /\ visit' = [visit EXCEPT ![v].at = "serving"]
    /\ refilled' = Marked("items", v)
    /\ UNCHANGED <<settings, tools, context, client, locks, update, crossed, setback,
                   configFaults>>

LoadFails(v) ==
    /\ visit[v].at \in Loading
    /\ configFaults < MaxConfigFaults
    /\ configFaults' = configFaults + 1
    /\ visit' = [visit EXCEPT ![v].at = "gone"]
    /\ UNCHANGED <<settings, tools, context, evictedVars, update, refilled, crossed, setback>>

Departs(v) ==
    /\ visit[v].at \in {"resolved", "serving"}
    /\ visit' = [visit EXCEPT ![v].at = "gone"]
    /\ UNCHANGED <<settings, tools, context, evictedVars, update, refilled, crossed, setback,
                   configFaults>>

-----------------------------------------------------------------------------
UpdateGoes(u) ==
    \/ CommitSettings(u) \/ ReloadReads(u) \/ ReloadSwaps(u) \/ ReloadEvicts(u)
    \/ ReloadFails(u) \/ EvictionFails(u)
    \/ CommitTools(u) \/ ApplyLive(u)

VisitGoes(v) ==
    \/ Resolves(v) \/ UsesClient(v) \/ HasTools(v) \/ TakesLock(v) \/ GetsLock(v)
    \/ LoadReads(v) \/ LoadStores(v) \/ LoadFails(v) \/ Departs(v)

ConfigNext == (\E u \in Updates : UpdateGoes(u)) \/ (\E v \in Visits : VisitGoes(v))

ConfigSpec == ConfigInit /\ [][ConfigNext]_configVars

-----------------------------------------------------------------------------
(* Properties. *)

Quiet == \A u \in Updates : update[u].at \notin Unfinished
Evicting == \E u \in Updates : update[u].at = "swapped"

(* Once no update is under way, the tenant resolves to its latest settings, unless a
   reload raised, or one was overtaken by a later one, and none has made up for it. *)
ContextCurrent == Quiet => context = settings \/ setback

(* What is cached was built from the context that is resolved now, but for the moment
   between the tables' change and the eviction: the only ways round that are a visit that
   had resolved the tenant before it, and an eviction that never came. *)
CachedCurrent ==
    \/ Evicting
    \/ /\ client \in {None, context} \/ "client" \in refilled
       /\ items = NoItems \/ items.of = context \/ "items" \in refilled

UpdateTakesHold == ContextCurrent /\ CachedCurrent

(* However many visits find no tools, they await one load of them, unless an eviction
   dropped the lock under them (registry.py:339-342, the "thundering herd"). *)
OneLoad ==
    \A v, w \in Visits \ crossed :
        visit[v].at \in Loading /\ visit[w].at \in Loading => v = w

(* tenants.py:944-948: an update takes effect at once, and "no stale cached client (e.g. a
   cached TTS adapter for the old provider) survives the edit". *)
NoStaleClient == Quiet /\ ~Evicting /\ context = settings => client \in {None, context}
=============================================================================
