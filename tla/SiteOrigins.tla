------------------------------ MODULE SiteOrigins ------------------------------
(***************************************************************************)
(* The origin addresses of CDN providers, per site: background jobs of      *)
(* SiteOriginService, manual refreshes of the admin API, the two tables     *)
(* they write, the lists in the manager's memory that the gateway reads,    *)
(* and what is left of them after a restart or the deletion of a site.      *)
(*                                                                         *)
(* Jobs and refreshes go through the same steps, each a database statement, *)
(* a fetch or a critical section of its own; every statement may fail.      *)
(* Time is counted in seconds, the resolution of the tables.                *)
(***************************************************************************)
EXTENDS Integers, FiniteSets, FiniteSetsExt

CONSTANTS
    Sites,          \* identifiers of sites
    Providers,      \* names of providers
    Unsupported,    \* names for which no client exists
    Refreshers,     \* POST cdn/origin/refresh requests in flight
    Lists,          \* CIDR lists a provider may return
    Malformed,      \* lists with an entry that cannot be parsed
    None,           \* nothing read, fetched or stored
    MaxConcurrency, \* SITE_CDN_ORIGIN_SYNC_MAX_CONCURRENCY
    Interval,       \* refresh interval
    BackoffBase,
    BackoffMax,
    JitterPermille,
    MaxStaleness,   \* age at which the gateway ignores a list
    MaxTime,        \* bound on the clock
    MaxEdits,       \* bound on edits of sites
    MaxTicks,       \* bound on ticks that queue jobs
    MaxErrors,      \* bound on failing database statements
    MaxRefreshes,   \* bound on manual refreshes
    MaxStops        \* bound on process stops

ASSUME OriginsAssumption ==
    /\ Unsupported \subseteq Providers
    /\ Malformed \subseteq Lists
    /\ None \notin Lists
    /\ (Sites \X Providers) \cap Refreshers = {}
    /\ None \notin (Sites \X Providers) \cup Refreshers
    /\ MaxConcurrency \in Nat \ {0}
    /\ {Interval, BackoffBase, BackoffMax} \subseteq Nat \ {0}
    /\ JitterPermille \in 0..900
    /\ MaxStaleness \in Nat \ {0}
    /\ {MaxTime, MaxEdits, MaxTicks, MaxErrors, MaxRefreshes, MaxStops} \subseteq Nat

(* A job is named by what it fetches; there is at most one per site and provider. *)
Keys == Sites \X Providers

Threads == Keys \cup Refreshers

VARIABLES
    now,            \* the clock
    site,           \* table sites: the configured providers, None when there is no such site
    rows,           \* table site_cdn_origin_snapshots
    status,         \* table site_cdn_origin_status
    memory,         \* Manager.siteCDNProviderSnapshots
    phase,          \* "down", "warming" while warmCache runs, "up"
    warm,           \* warmCache: sites left, keys left of the current one, the row just read
    sem,            \* slots taken of the semaphore of tick
    local,          \* local state of every job and refresh
    request,        \* a refresh: its start, its providers left, the failures it has read
    failed,         \* history: failed attempts
    used            \* how much of each bound is used

vars == <<now, site, rows, status, memory, phase, warm, sem, local, request, failed, used>>

(* "at" is the time the attempt began, which is stored as the time of success;   *)
(* "real" (history) is the time at which the provider answered.                  *)
Fetched == [list : Lists, at : Nat, real : Nat]

Row == [key : Keys, data : Fetched]

Status == [attempt : Nat, success : Nat \cup {None}, failures : Nat]

PCs == {"idle", "queued", "next", "attempt", "fetch", "save", "success", "publish", "fail"}

Idle == [pc |-> "idle", key |-> None, prev |-> 0, at |-> 0, data |-> None]

NoRequest == [site |-> None, at |-> 0, todo |-> {}, prev |-> [p \in Providers |-> 0]]

NoWarm == [sites |-> {}, todo |-> {}, key |-> None, data |-> None]

Init ==
    /\ now = 0
    /\ site \in [Sites -> SUBSET Providers]
    /\ rows = {}
    /\ status = [k \in Keys |-> None]
    /\ memory = [k \in Keys |-> None]
    /\ phase = "down"
    /\ warm = NoWarm
    /\ sem = 0
    /\ local = [t \in Threads |-> Idle]
    /\ request = [r \in Refreshers |-> NoRequest]
    /\ failed = [k \in Keys |-> 0]
    /\ used = [edits |-> 0, ticks |-> 0, errors |-> 0, refreshes |-> 0, stops |-> 0]

tables == <<site, rows, status>>

(* What ListSites and GetSiteConfig give: the enabled providers of every site. *)
Configured == {k \in Keys : site[k[1]] # None /\ k[2] \in site[k[1]]}

(* consecutive_failures as a job or a refresh reads it. *)
Failures(k) == IF status[k] = None THEN 0 ELSE status[k].failures

(* buildOriginProvider has a client. *)
Supported(p) == p \notin Unsupported

Goto(t, pc) == local' = [local EXCEPT ![t].pc = pc]

(* A statement of the database returns an error. *)
DBError ==
    /\ used.errors < MaxErrors
    /\ used' = [used EXCEPT !.errors = @ + 1]

-----------------------------------------------------------------------------
(***************************************************************************)
(* Environment: time, site configurations, the process                      *)
(***************************************************************************)
Pass ==
    /\ now < MaxTime
    /\ now' = now + 1
    /\ UNCHANGED <<tables, memory, phase, warm, sem, local, request, failed, used>>

(* UpdateSiteConfig with another provider list. *)
EditSite(s, providers) ==
    /\ phase # "down"
    /\ site[s] # None
    /\ site[s] # providers
    /\ used.edits < MaxEdits
    /\ used' = [used EXCEPT !.edits = @ + 1]
    /\ site' = [site EXCEPT ![s] = providers]
    /\ UNCHANGED <<now, rows, status, memory, phase, warm, sem, local, request, failed>>

(* DeleteSite: one transaction over the tables; the manager's memory is kept. *)
DeleteSite(s) ==
    /\ phase # "down"
    /\ site[s] # None
    /\ site' = [site EXCEPT ![s] = None]
    /\ rows' = {row \in rows : row.key[1] # s}
    /\ status' = [k \in Keys |-> IF k[1] = s THEN None ELSE status[k]]
    /\ UNCHANGED <<now, memory, phase, warm, sem, local, request, failed, used>>

(* The process ends; the tables stay. *)
Stop ==
    /\ phase # "down"
    /\ used.stops < MaxStops
    /\ used' = [used EXCEPT !.stops = @ + 1]
    /\ phase' = "down"
    /\ memory' = [k \in Keys |-> None]
    /\ warm' = NoWarm
    /\ sem' = 0
    /\ local' = [t \in Threads |-> Idle]
    /\ request' = [r \in Refreshers |-> NoRequest]
    /\ UNCHANGED <<now, tables, failed>>

(* SiteOriginService.run begins with warmCache, beside the listeners: ListSites,  *)
(* whose error leaves nothing to warm.                                            *)
Start ==
    /\ phase = "down"
    /\ phase' = "warming"
    /\ \/ warm' = [NoWarm EXCEPT !.sites = {s \in Sites : site[s] # None}] /\ UNCHANGED used
       \/ warm' = NoWarm /\ DBError
    /\ UNCHANGED <<now, tables, memory, sem, local, request, failed>>

-----------------------------------------------------------------------------
(***************************************************************************)
(* warmCache                                                                *)
(***************************************************************************)

(* GetSiteConfig of the next site, when the one before is done; a site that is gone *)
(* by now or cannot be read is skipped.                                            *)
WarmSite(s) ==
    /\ warm.todo = {}
    /\ warm.key = None
    /\ s \in warm.sites
    /\ \/ /\ warm' = [warm EXCEPT !.sites = @ \ {s},
                                  !.todo = {k \in Configured : k[1] = s}]
          /\ UNCHANGED used
       \/ warm' = [warm EXCEPT !.sites = @ \ {s}] /\ DBError
    /\ UNCHANGED <<now, tables, memory, phase, sem, local, request, failed>>

Latest(k) ==
    {row \in rows : row.key = k /\ \A other \in rows : other.key = k => other.data.at <= row.data.at}

(* GetLatestSiteCDNOriginSnapshot; a key is skipped without a row and after an      *)
(* error.                                                                          *)
WarmRead(k) ==
    /\ warm.key = None
    /\ k \in warm.todo
    /\ \/ /\ \/ Latest(k) = {} /\ UNCHANGED used
             \/ DBError
          /\ warm' = [warm EXCEPT !.todo = @ \ {k}]
       \/ \E row \in Latest(k) :
             /\ warm' = [warm EXCEPT !.todo = @ \ {k}, !.key = k, !.data = row.data]
             /\ UNCHANGED used
    /\ UNCHANGED <<now, tables, memory, phase, sem, local, request, failed>>

(* UpdateSiteCDNProviderSnapshot: a list that cannot be parsed changes nothing. *)
Update(k, data) ==
    memory' = IF data.list \in Malformed THEN memory ELSE [memory EXCEPT ![k] = data]

(* Mutant: the list counts as fetched when it is read from the table. *)
WarmPublishStampsNow ==
    /\ warm.key # None
    /\ Update(warm.key, [warm.data EXCEPT !.at = now])
    /\ warm' = [warm EXCEPT !.key = None, !.data = None]
    /\ UNCHANGED <<now, tables, phase, sem, local, request, failed, used>>

WarmPublish ==
    /\ warm.key # None
    /\ Update(warm.key, warm.data)
    /\ warm' = [warm EXCEPT !.key = None, !.data = None]
    /\ UNCHANGED <<now, tables, phase, sem, local, request, failed, used>>

(* The ticker starts when the cache is warm. *)
WarmDone ==
    /\ phase = "warming"
    /\ warm = NoWarm
    /\ phase' = "up"
    /\ UNCHANGED <<now, tables, memory, warm, sem, local, request, failed, used>>

-----------------------------------------------------------------------------
(***************************************************************************)
(* tick and isDue                                                           *)
(***************************************************************************)

(* jitterDuration, never below one second. *)
Jittered(d) ==
    LET offset == (d * JitterPermille) \div 1000 IN
    {Max({1, x}) : x \in (d - offset)..(d + offset)}

(* Doubled with every failure after the first, up to the maximum. *)
Backoff(failures) ==
    IF failures = 1 THEN BackoffBase
    ELSE Min({BackoffBase * 2^(failures - 1), BackoffMax})

(* Mutant: the backoff replaces the refresh interval. *)
NextDelaysBackoffOnly(failures) ==
    IF failures = 0 THEN Jittered(Interval) ELSE Jittered(Backoff(failures))

(* nextDelay: the shorter one of refresh interval and backoff. *)
NextDelays(failures) ==
    IF failures = 0 THEN Jittered(Interval)
    ELSE {Min({d[1], d[2]}) : d \in Jittered(Interval) \X Jittered(Backoff(failures))}

Due(k, delay) == status[k] # None => now - status[k].attempt >= delay

(* tick lists the sites, reads configuration and status of each, and queues what   *)
(* is due; a site that cannot be read is left out.  The jitter is drawn for each   *)
(* job.                                                                            *)
Tick ==
    /\ phase = "up"
    /\ used.ticks < MaxTicks
    /\ used' = [used EXCEPT !.ticks = @ + 1]
    /\ \A k \in Keys : local[k].pc = "idle"
    /\ \E jobs \in SUBSET Configured :
          /\ jobs # {}
          /\ \A k \in {c \in Configured : \E j \in jobs : j[1] = c[1]} :
                IF k \in jobs THEN \E delay \in NextDelays(Failures(k)) : Due(k, delay)
                ELSE \E delay \in NextDelays(Failures(k)) : ~Due(k, delay)
          /\ local' = [t \in Threads |->
                IF t \in jobs
                THEN [Idle EXCEPT !.pc = "queued", !.key = t, !.prev = Failures(t), !.at = now]
                ELSE local[t]]
    /\ UNCHANGED <<now, tables, memory, phase, warm, sem, request, failed>>

(* Mutant: the goroutine starts without waiting for a slot. *)
AcquireUnbounded(k) ==
    /\ local[k].pc = "queued"
    /\ sem' = sem + 1
    /\ Goto(k, "attempt")
    /\ UNCHANGED <<now, tables, memory, phase, warm, request, failed, used>>

(* sem <- struct{}{}, then the goroutine of the job. *)
Acquire(k) ==
    /\ local[k].pc = "queued"
    /\ sem < MaxConcurrency
    /\ sem' = sem + 1
    /\ Goto(k, "attempt")
    /\ UNCHANGED <<now, tables, memory, phase, warm, request, failed, used>>

-----------------------------------------------------------------------------
(***************************************************************************)
(* siteCDNOriginRefresh                                                     *)
(***************************************************************************)

(* The site, its configuration and its status are read, in one step here; the      *)
(* providers are those of the body, or the configured ones.                        *)
Refresh(r, s, named) ==
    LET providers == IF named = {} THEN site[s] ELSE named IN
    /\ phase # "down"
    /\ local[r].pc = "idle"
    /\ used.refreshes < MaxRefreshes
    /\ site[s] # None
    /\ providers # {}
    /\ used' = [used EXCEPT !.refreshes = @ + 1]
    /\ request' = [request EXCEPT ![r] =
                     [site |-> s, at |-> now, todo |-> providers,
                      prev |-> [p \in Providers |-> Failures(<<s, p>>)]]]
    /\ Goto(r, "next")
    /\ UNCHANGED <<now, tables, memory, phase, warm, sem, failed>>

(* The loop over the providers: one without a client is skipped. *)
RefreshNext(r, p) ==
    /\ local[r].pc = "next"
    /\ p \in request[r].todo
    /\ request' = [request EXCEPT ![r].todo = @ \ {p}]
    /\ local' = IF ~Supported(p) THEN local
                ELSE [local EXCEPT ![r] = [Idle EXCEPT
                        !.pc = "attempt", !.key = <<request[r].site, p>>,
                        !.prev = request[r].prev[p], !.at = request[r].at]]
    /\ UNCHANGED <<now, tables, memory, phase, warm, sem, failed, used>>

(* SaveAudit and the response. *)
RefreshEnd(r) ==
    /\ local[r].pc = "next"
    /\ request[r].todo = {}
    /\ request' = [request EXCEPT ![r] = NoRequest]
    /\ local' = [local EXCEPT ![r] = Idle]
    /\ UNCHANGED <<now, tables, memory, phase, warm, sem, failed, used>>

-----------------------------------------------------------------------------
(***************************************************************************)
(* The steps of runJob and of the loop of a refresh                         *)
(***************************************************************************)

(* The end of one attempt: a job gives its slot back, a refresh goes on. *)
Done(t) ==
    IF t \in Keys
    THEN local' = [local EXCEPT ![t] = Idle] /\ sem' = sem - 1
    ELSE local' = [local EXCEPT ![t] = [Idle EXCEPT !.pc = "next"]] /\ UNCHANGED sem

(* UpsertSiteCDNOriginStatus: a missing time of success keeps the stored one.     *)
(* Its error is ignored by every caller.                                          *)
Upsert(k, at, success, failures) ==
    LET old  == IF status[k] = None THEN None ELSE status[k].success
        next == [attempt |-> at, success |-> IF success = None THEN old ELSE success,
                 failures |-> failures]
    IN  \/ status' = [status EXCEPT ![k] = next] /\ UNCHANGED used
        \/ UNCHANGED status /\ DBError

(* Mutant: the attempt is counted as a failure in advance. *)
AttemptCounted(t) ==
    /\ local[t].pc = "attempt"
    /\ Upsert(local[t].key, local[t].at, None, local[t].prev + 1)
    /\ Goto(t, IF Supported(local[t].key[2]) THEN "fetch" ELSE "fail")
    /\ UNCHANGED <<now, site, rows, memory, phase, warm, sem, request, failed>>

(* The attempt is recorded with the failures read before. *)
Attempt(t) ==
    /\ local[t].pc = "attempt"
    /\ Upsert(local[t].key, local[t].at, None, local[t].prev)
    /\ Goto(t, IF Supported(local[t].key[2]) THEN "fetch" ELSE "fail")
    /\ UNCHANGED <<now, site, rows, memory, phase, warm, sem, request, failed>>

(* FetchCIDRs: a list, or an error or timeout. *)
Fetch(t, list) ==
    /\ local[t].pc = "fetch"
    /\ local' = [local EXCEPT ![t].pc = IF list = None THEN "fail" ELSE "save",
                              ![t].data = IF list = None THEN None
                                          ELSE [list |-> list, at |-> local[t].at, real |-> now]]
    /\ UNCHANGED <<now, tables, memory, phase, warm, sem, request, failed, used>>

(* Mutant: an error of the database is ignored here too. *)
SaveIgnoresError(t) ==
    /\ local[t].pc = "save"
    /\ \/ rows' = rows \cup {[key |-> local[t].key, data |-> local[t].data]} /\ UNCHANGED used
       \/ UNCHANGED rows /\ DBError
    /\ Goto(t, "success")
    /\ UNCHANGED <<now, site, status, memory, phase, warm, sem, request, failed>>

(* SaveSiteCDNOriginSnapshot; an error counts as a failure. *)
Save(t) ==
    /\ local[t].pc = "save"
    /\ \/ /\ rows' = rows \cup {[key |-> local[t].key, data |-> local[t].data]}
          /\ Goto(t, "success")
          /\ UNCHANGED used
       \/ /\ UNCHANGED rows
          /\ Goto(t, "fail")
          /\ DBError
    /\ UNCHANGED <<now, site, status, memory, phase, warm, sem, request, failed>>

(* The success is recorded. *)
Success(t) ==
    /\ local[t].pc = "success"
    /\ Upsert(local[t].key, local[t].at, local[t].at, 0)
    /\ Goto(t, "publish")
    /\ UNCHANGED <<now, site, rows, memory, phase, warm, sem, request, failed>>

(* UpdateSiteCDNProviderSnapshot; its error is ignored. *)
Publish(t) ==
    /\ local[t].pc = "publish"
    /\ Update(local[t].key, local[t].data)
    /\ Done(t)
    /\ UNCHANGED <<now, tables, phase, warm, request, failed, used>>

(* Mutant: the slot of a failed job is not given back. *)
FailKeepsSlot(t) ==
    /\ local[t].pc = "fail"
    /\ Upsert(local[t].key, local[t].at, None, local[t].prev + 1)
    /\ failed' = [failed EXCEPT ![local[t].key] = @ + 1]
    /\ local' = [local EXCEPT ![t] = IF t \in Keys THEN Idle ELSE [Idle EXCEPT !.pc = "next"]]
    /\ UNCHANGED <<now, site, rows, memory, phase, warm, sem, request>>

(* The failure is recorded. *)
Fail(t) ==
    /\ local[t].pc = "fail"
    /\ Upsert(local[t].key, local[t].at, None, local[t].prev + 1)
    /\ failed' = [failed EXCEPT ![local[t].key] = @ + 1]
    /\ Done(t)
    /\ UNCHANGED <<now, site, rows, memory, phase, warm, request>>

-----------------------------------------------------------------------------
FetchStep(t) ==
    \/ Attempt(t)
    \/ \E list \in Lists \cup {None} : Fetch(t, list)
    \/ Save(t)
    \/ Success(t)
    \/ Publish(t)
    \/ Fail(t)

WarmStep ==
    \/ \E s \in Sites : WarmSite(s)
    \/ \E k \in Keys : WarmRead(k)
    \/ WarmPublish
    \/ WarmDone

Next ==
    \/ Pass
    \/ \E s \in Sites, providers \in SUBSET Providers : EditSite(s, providers)
    \/ \E s \in Sites : DeleteSite(s)
    \/ Stop
    \/ Start
    \/ WarmStep
    \/ Tick
    \/ \E k \in Keys : Acquire(k)
    \/ \E r \in Refreshers, s \in Sites, named \in SUBSET Providers : Refresh(r, s, named)
    \/ \E r \in Refreshers, p \in Providers : RefreshNext(r, p)
    \/ \E r \in Refreshers : RefreshEnd(r)
    \/ \E t \in Threads : FetchStep(t)

Spec == Init /\ [][Next]_vars

(* Goroutines inside a job or a refresh run on, a fetch ends at its timeout of 30   *)
(* seconds, and tick's loop goes on when there is a slot.                          *)
Fairness ==
    /\ \A t \in Threads : WF_vars(FetchStep(t))
    /\ \A k \in Keys : WF_vars(Acquire(k))

FairSpec == Spec /\ Fairness

-----------------------------------------------------------------------------
(***************************************************************************)
(* Properties                                                               *)
(***************************************************************************)

(* Every variable holds a value of its type. *)
TypeOK ==
    /\ now \in Nat
    /\ site \in [Sites -> (SUBSET Providers) \cup {None}]
    /\ rows \in SUBSET Row
    /\ status \in [Keys -> Status \cup {None}]
    /\ memory \in [Keys -> Fetched \cup {None}]
    /\ phase \in {"down", "warming", "up"}
    /\ warm \in [sites : SUBSET Sites, todo : SUBSET Keys, key : Keys \cup {None}, data : Fetched \cup {None}]
    /\ sem \in 0..MaxConcurrency
    /\ local \in [Threads -> [pc : PCs, key : Keys \cup {None}, prev : Nat, at : Nat,
                              data : Fetched \cup {None}]]
    /\ request \in [Refreshers -> [site : Sites \cup {None}, at : Nat, todo : SUBSET Providers,
                                   prev : [Providers -> Nat]]]
    /\ failed \in [Keys -> Nat]
    /\ used \in [edits : Nat, ticks : Nat, errors : Nat, refreshes : Nat, stops : Nat]

Exists(k) == site[k[1]] # None

HasRow(k, data) == [key |-> k, data |-> data] \in rows

(* What the gateway uses and what the status reports is also in the table a restart *)
(* reads: as long as the site exists, the list in memory and the time of the last   *)
(* success belong to a saved row, whatever statements fail and however jobs,         *)
(* refreshes and the warming of the cache interleave.                               *)
SuccessIsBacked ==
    \A k \in Keys : Exists(k) =>
        /\ memory[k] # None => HasRow(k, memory[k])
        /\ status[k] # None /\ status[k].success # None =>
              \E row \in rows : row.key = k /\ row.data.at = status[k].success

(* IsIPAllowedBySiteProviders uses a list of the memory. *)
InUse(k) == memory[k] # None /\ now - memory[k].at <= MaxStaleness

(* The gateway admits by a list only while the provider's answer itself is not      *)
(* older than the permitted staleness, also when an old list overwrites a newer one *)
(* or comes back from the table after a restart.                                    *)
FreshWhenUsed == \A k \in Keys : InUse(k) => now - memory[k].real <= MaxStaleness

(* consecutive_failures never exceeds the attempts that failed, although a job and   *)
(* a refresh write back counts that they read before the other's result.             *)
FailuresAreReal == \A k \in Keys : Failures(k) <= failed[k]

(* isDue: a failing provider is retried no later than a healthy one is refreshed: a  *)
(* tick that queues jobs for a site leaves out no provider of it whose last attempt  *)
(* is a full, jittered refresh interval ago.                                         *)
RetriedInTime ==
    [][\A j \in Keys, k \in Configured :
         /\ j[1] = k[1]
         /\ local[j].pc = "idle" /\ local'[j].pc = "queued"
         /\ status[k] = None \/ now - status[k].attempt >= Max(Jittered(Interval))
         => local'[k].pc = "queued"]_vars

(* Every queued job is run and ends, although there are more jobs than slots and     *)
(* some of them fail: tick, which waits for all of them, is never stuck.             *)
JobsEnd == \A k \in Keys : local[k].pc = "queued" ~> local[k].pc = "idle"

=============================================================================
