--------------------------- MODULE SiteOriginsProofs ---------------------------
(***************************************************************************)
(* The safety properties of the site origins, for all sets of sites,         *)
(* providers, refreshes and lists, all intervals and all bounds.             *)
(***************************************************************************)
EXTENDS SiteOrigins, FiniteSetTheorems, TLAPS

Working == {"attempt", "fetch", "save", "success", "publish", "fail"}

Fetching == {"save", "success", "publish"}

Saved == {"success", "publish"}

(* No list comes from the future, nor is it older than its time stamp says.     *)
Timely(data) == data.at <= data.real /\ data.real <= now

(* A list that is held in memory may still be published: it is in the table     *)
(* unless its site is gone, and a site that is gone does not come back.         *)
Backed(k, data) == Exists(k) => HasRow(k, data)

(* Jobs that hold a slot. *)
Busy == {k \in Keys : local[k].pc \in Working}

ThreadInv ==
    \A t \in Threads :
        /\ t \in Keys => local[t].pc # "next" /\ (local[t].pc # "idle" => local[t].key = t)
        /\ t \in Refreshers => local[t].pc # "queued"
        /\ local[t].pc \in Working => local[t].key \in Keys
        /\ local[t].at <= now
        /\ local[t].pc \in Fetching =>
              local[t].data \in Fetched /\ local[t].data.at = local[t].at /\ Timely(local[t].data)

SavedInv ==
    \A t \in Threads : local[t].pc \in Saved => Backed(local[t].key, local[t].data)

(* A count that was read before has not been exceeded by what really failed.    *)
CountInv ==
    /\ \A t \in Threads : local[t].pc \in Working \cup {"queued"} =>
          local[t].prev <= failed[local[t].key]
    /\ \A r \in Refreshers : local[r].pc # "idle" =>
          /\ request[r].site \in Sites
          /\ request[r].at <= now
          /\ \A p \in Providers : request[r].prev[p] <= failed[<<request[r].site, p>>]

MemoryInv == \A k \in Keys : memory[k] # None => Timely(memory[k])

RowsInv == \A row \in rows : Timely(row.data)

WarmInv ==
    warm.key # None =>
        warm.data \in Fetched /\ Timely(warm.data) /\ Backed(warm.key, warm.data)

SlotInv == IsFiniteSet(Busy) /\ sem = Cardinality(Busy)

IInv ==
    /\ TypeOK
    /\ ThreadInv
    /\ SavedInv
    /\ CountInv
    /\ MemoryInv
    /\ RowsInv
    /\ WarmInv
    /\ SlotInv
    /\ SuccessIsBacked
    /\ FailuresAreReal

-----------------------------------------------------------------------------
(***************************************************************************)
(* Types                                                                    *)
(***************************************************************************)
Local == [pc : PCs, key : Keys \cup {None}, prev : Nat, at : Nat, data : Fetched \cup {None}]

Requested == [site : Sites \cup {None}, at : Nat, todo : SUBSET Providers,
              prev : [Providers -> Nat]]

Warming == [sites : SUBSET Sites, todo : SUBSET Keys, key : Keys \cup {None}, data : Fetched \cup {None}]

(* A job is not a refresh. *)
LEMMA ThreadsApart == Keys \cap Refreshers = {} /\ None \notin Keys
BY OriginsAssumption DEF Keys

(* The parts of a key. *)
LEMMA KeyParts ==
    ASSUME NEW k \in Keys
    PROVE  k[1] \in Sites /\ k[2] \in Providers /\ k = <<k[1], k[2]>>
BY DEF Keys

LEMMA IdleType == Idle \in Local
BY DEF Idle, Local, PCs

LEMMA NoRequestType == NoRequest \in Requested
BY DEF NoRequest, Requested

LEMMA NoWarmType == NoWarm \in Warming
BY DEF NoWarm, Warming

LEMMA FailuresType ==
    ASSUME TypeOK, NEW k \in Keys
    PROVE  Failures(k) \in Nat
BY DEF TypeOK, Failures, Status

(* What a thread works on, between its own steps. *)
LEMMA WorkingThread ==
    ASSUME TypeOK, ThreadInv, NEW t \in Threads, local[t].pc \in Working
    PROVE  /\ local[t] \in Local
           /\ local[t].key \in Keys
           /\ local[t].prev \in Nat /\ local[t].at \in Nat
           /\ local[t].pc \in Fetching => local[t].data \in Fetched
BY DEF TypeOK, ThreadInv, Local

LEMMA TypeInit == Init => TypeOK
<1> SUFFICES ASSUME Init PROVE TypeOK
    OBVIOUS
<1>1. /\ \A t \in Threads : local[t] \in Local
      /\ \A r \in Refreshers : request[r] \in Requested
      /\ warm \in Warming
    BY IdleType, NoRequestType, NoWarmType DEF Init
<1> QED
    BY <1>1, OriginsAssumption DEF Init, TypeOK, OriginsAssumption, Local, Requested, Warming

(* The steps that update a status row. *)
LEMMA UpsertType ==
    ASSUME TypeOK, NEW k \in Keys, NEW at \in Nat, NEW success \in Nat \cup {None},
           NEW failures \in Nat, Upsert(k, at, success, failures)
    PROVE  /\ status' \in [Keys -> Status \cup {None}]
           /\ used' \in [edits : Nat, ticks : Nat, errors : Nat, refreshes : Nat, stops : Nat]
<1>1. ASSUME status' = [status EXCEPT ![k] =
                 [attempt |-> at,
                  success |-> IF success = None
                              THEN (IF status[k] = None THEN None ELSE status[k].success)
                              ELSE success,
                  failures |-> failures]]
      PROVE  status' \in [Keys -> Status \cup {None}]
    BY <1>1 DEF TypeOK, Status
<1>2. ASSUME DBError
      PROVE  used' \in [edits : Nat, ticks : Nat, errors : Nat, refreshes : Nat, stops : Nat]
    BY <1>2 DEF TypeOK, DBError
<1> QED
    BY <1>1, <1>2 DEF Upsert, TypeOK

(* The end of an attempt. *)
LEMMA DoneType ==
    ASSUME TypeOK, NEW t \in Threads, Done(t)
    PROVE  local' \in [Threads -> Local]
<1>1. local \in [Threads -> Local]
    BY DEF TypeOK, Local
<1>2. [Idle EXCEPT !.pc = "next"] \in Local
    BY DEF Idle, Local, PCs
<1> QED
    BY <1>1, <1>2, IdleType DEF Done

LEMMA GotoType ==
    ASSUME TypeOK, NEW t \in Threads, NEW pc \in PCs, Goto(t, pc)
    PROVE  local' \in [Threads -> Local]
<1>1. local \in [Threads -> Local]
    BY DEF TypeOK, Local
<1>2. [local[t] EXCEPT !.pc = pc] \in Local
    BY <1>1 DEF Local
<1> QED
    BY <1>1, <1>2 DEF Goto

LEMMA UpdateType ==
    ASSUME TypeOK, NEW k \in Keys, NEW data \in Fetched, Update(k, data)
    PROVE  memory' \in [Keys -> Fetched \cup {None}]
BY DEF TypeOK, Update

-----------------------------------------------------------------------------
(***************************************************************************)
(* The slots of tick                                                        *)
(***************************************************************************)
SlotsKept == SlotInv' /\ sem' \in 0..MaxConcurrency

LEMMA SlotsUnchanged ==
    ASSUME IInv, sem' = sem, Busy' = Busy
    PROVE  SlotsKept
BY DEF IInv, SlotInv, SlotsKept, TypeOK

(* A step that leaves the jobs alone. *)
LEMMA SlotsOfOthers ==
    ASSUME IInv, sem' = sem, \A k \in Keys : local'[k] = local[k]
    PROVE  SlotsKept
<1>1. Busy' = Busy
    BY DEF Busy
<1> QED
    BY <1>1, SlotsUnchanged

(* A step of a job or a refresh inside its attempt. *)
LEMMA SlotsGoto ==
    ASSUME IInv, NEW t \in Threads, local[t].pc \in Working,
           local'[t].pc \in Working, \A k \in Keys \ {t} : local'[k] = local[k], sem' = sem
    PROVE  SlotsKept
<1>1. \A k \in Keys : local'[k].pc \in Working <=> local[k].pc \in Working
    OBVIOUS
<1>2. Busy' = Busy
    BY <1>1 DEF Busy
<1> QED
    BY <1>2, SlotsUnchanged

LEMMA SlotsDone ==
    ASSUME IInv, NEW t \in Threads, local[t].pc \in Working, Done(t)
    PROVE  SlotsKept
<1>1. CASE t \notin Keys
  <2>1. sem' = sem /\ \A k \in Keys : local'[k] = local[k]
      BY <1>1 DEF Done, IInv, TypeOK, Threads
  <2> QED
      BY <2>1, SlotsOfOthers
<1>2. CASE t \in Keys
  <2>1. local' = [local EXCEPT ![t] = Idle] /\ sem' = sem - 1
      BY <1>2 DEF Done
  <2>2. \A k \in Keys : local'[k].pc \in Working <=> local[k].pc \in Working /\ k # t
      BY <2>1 DEF IInv, TypeOK, Threads, Idle, Working
  <2>3. Busy' = Busy \ {t} /\ t \in Busy
      BY <1>2, <2>2 DEF Busy
  <2>4. IsFiniteSet(Busy') /\ Cardinality(Busy') = Cardinality(Busy) - 1
      BY <2>3, FS_RemoveElement DEF IInv, SlotInv
  <2>5. Cardinality(Busy') \in Nat
      BY <2>4, FS_CardinalityType
  <2>6. sem \in 0..MaxConcurrency /\ sem = Cardinality(Busy)
      BY DEF IInv, SlotInv, TypeOK
  <2>7. sem' \in 0..MaxConcurrency
      BY <2>1, <2>4, <2>5, <2>6, OriginsAssumption DEF OriginsAssumption
  <2> QED
      BY <2>1, <2>4, <2>6, <2>7 DEF SlotsKept, SlotInv
<1> QED
    BY <1>1, <1>2

LEMMA SlotsAcquire ==
    ASSUME IInv, NEW k \in Keys, Acquire(k)
    PROVE  SlotsKept
<1>1. local' = [local EXCEPT ![k].pc = "attempt"] /\ sem' = sem + 1 /\ sem < MaxConcurrency
    BY DEF Acquire, Goto
<1>2. \A j \in Keys : local'[j].pc \in Working <=> local[j].pc \in Working \/ j = k
    BY <1>1 DEF IInv, TypeOK, Threads, Working
<1>3. Busy' = Busy \cup {k} /\ k \notin Busy
    BY <1>2 DEF Busy, Acquire, Working
<1>4. IsFiniteSet(Busy') /\ Cardinality(Busy') = Cardinality(Busy) + 1
    BY <1>3, FS_AddElement DEF IInv, SlotInv
<1>5. sem \in 0..MaxConcurrency /\ sem = Cardinality(Busy)
    BY DEF IInv, SlotInv, TypeOK
<1>6. sem' \in 0..MaxConcurrency
    BY <1>1, <1>5, OriginsAssumption DEF OriginsAssumption
<1> QED
    BY <1>1, <1>4, <1>5, <1>6 DEF SlotsKept, SlotInv

LEMMA SlotsStop ==
    ASSUME IInv, Stop
    PROVE  SlotsKept
<1>1. Busy' = {}
    BY DEF Stop, Busy, Idle, Working, Threads
<1>2. IsFiniteSet(Busy') /\ Cardinality(Busy') = 0
    BY <1>1, FS_EmptySet
<1> QED
    BY <1>2, OriginsAssumption DEF Stop, SlotsKept, SlotInv, OriginsAssumption

(* Queuing a job takes no slot. *)
LEMMA SlotsTick ==
    ASSUME IInv, Tick
    PROVE  SlotsKept
<1>1. \A k \in Keys : local[k].pc = "idle"
    BY DEF Tick
<1>2. PICK jobs \in SUBSET Configured :
          /\ jobs # {}
          /\ \A k \in {c \in Configured : \E j \in jobs : j[1] = c[1]} :
                IF k \in jobs THEN \E delay \in NextDelays(Failures(k)) : Due(k, delay)
                ELSE \E delay \in NextDelays(Failures(k)) : ~Due(k, delay)
          /\ local' = [t \in Threads |->
                IF t \in jobs
                THEN [Idle EXCEPT !.pc = "queued", !.key = t, !.prev = Failures(t), !.at = now]
                ELSE local[t]]
    BY DEF Tick
<1>3. \A k \in Keys : local'[k].pc \in {"idle", "queued"}
    BY <1>1, <1>2 DEF Threads, Idle
<1>4. Busy' = Busy
    BY <1>1, <1>3 DEF Busy, Working
<1> QED
    BY <1>4, SlotsUnchanged DEF Tick

LEMMA SlotsFetchStep ==
    ASSUME IInv, NEW t \in Threads, FetchStep(t)
    PROVE  SlotsKept
<1> USE DEF IInv
<1>1. local[t] \in Local
    BY DEF TypeOK, Local
<1>2. ASSUME NEW pc \in Working, local[t].pc \in Working, Goto(t, pc), sem' = sem
      PROVE  SlotsKept
  <2>1. local'[t].pc = pc /\ \A k \in Keys \ {t} : local'[k] = local[k]
      BY <1>1, <1>2 DEF Goto, Local, TypeOK, Threads
  <2> QED
      BY <1>2, <2>1, SlotsGoto
<1>3. CASE Attempt(t)
    BY <1>2, <1>3 DEF Attempt, Working
<1>4. ASSUME NEW list \in Lists \cup {None}, Fetch(t, list) PROVE SlotsKept
  <2>1. local'[t].pc \in Working /\ \A k \in Keys \ {t} : local'[k] = local[k]
      BY <1>1, <1>4 DEF Fetch, Local, TypeOK, Threads, Working
  <2> QED
      BY <1>4, <2>1, SlotsGoto DEF Fetch, Working
<1>5. CASE Save(t)
    BY <1>2, <1>5 DEF Save, Working
<1>6. CASE Success(t)
    BY <1>2, <1>6 DEF Success, Working
<1>7. CASE Publish(t)
    BY <1>7, SlotsDone DEF Publish, Working
<1>8. CASE Fail(t)
    BY <1>8, SlotsDone DEF Fail, Working
<1> QED
    BY <1>3, <1>4, <1>5, <1>6, <1>7, <1>8 DEF FetchStep

LEMMA SlotStep ==
    ASSUME IInv, [Next]_vars
    PROVE  SlotsKept
<1>1. CASE vars' = vars
    BY <1>1, SlotsOfOthers DEF vars
<1>2. CASE Pass
    BY <1>2, SlotsOfOthers DEF Pass
<1>3. ASSUME NEW s \in Sites, NEW providers \in SUBSET Providers, EditSite(s, providers)
      PROVE  SlotsKept
    BY <1>3, SlotsOfOthers DEF EditSite
<1>4. ASSUME NEW s \in Sites, DeleteSite(s) PROVE SlotsKept
    BY <1>4, SlotsOfOthers DEF DeleteSite
<1>5. CASE Stop
    BY <1>5, SlotsStop
<1>6. CASE Start
    BY <1>6, SlotsOfOthers DEF Start
<1>7. CASE WarmStep
    BY <1>7, SlotsOfOthers DEF WarmStep, WarmSite, WarmRead, WarmPublish, WarmDone
<1>8. CASE Tick
    BY <1>8, SlotsTick
<1>9. ASSUME NEW k \in Keys, Acquire(k) PROVE SlotsKept
    BY <1>9, SlotsAcquire
<1>10. ASSUME NEW r \in Refreshers, sem' = sem,
              \A t \in Threads : t # r => local'[t] = local[t]
       PROVE  SlotsKept
    BY <1>10, ThreadsApart, SlotsOfOthers DEF Threads
<1>11. ASSUME NEW r \in Refreshers, NEW s \in Sites, NEW named \in SUBSET Providers,
              Refresh(r, s, named)
       PROVE  SlotsKept
    BY <1>10, <1>11 DEF Refresh, Goto, IInv, TypeOK
<1>12. ASSUME NEW r \in Refreshers, NEW p \in Providers, RefreshNext(r, p) PROVE SlotsKept
    BY <1>10, <1>12 DEF RefreshNext, IInv, TypeOK
<1>13. ASSUME NEW r \in Refreshers, RefreshEnd(r) PROVE SlotsKept
    BY <1>10, <1>13 DEF RefreshEnd, IInv, TypeOK
<1>14. ASSUME NEW t \in Threads, FetchStep(t) PROVE SlotsKept
    BY <1>14, SlotsFetchStep
<1> QED
    BY <1>1, <1>2, <1>3, <1>4, <1>5, <1>6, <1>7, <1>8, <1>9, <1>11, <1>12, <1>13, <1>14 DEF Next

-----------------------------------------------------------------------------
(***************************************************************************)
(* Types are kept                                                           *)
(***************************************************************************)
Used == [edits : Nat, ticks : Nat, errors : Nat, refreshes : Nat, stops : Nat]

(* The types of all but the semaphore. *)
Typed ==
    /\ now \in Nat
    /\ site \in [Sites -> (SUBSET Providers) \cup {None}]
    /\ rows \in SUBSET Row
    /\ status \in [Keys -> Status \cup {None}]
    /\ memory \in [Keys -> Fetched \cup {None}]
    /\ phase \in {"down", "warming", "up"}
    /\ warm \in Warming
    /\ local \in [Threads -> Local]
    /\ request \in [Refreshers -> Requested]
    /\ failed \in [Keys -> Nat]
    /\ used \in Used

LEMMA TypeIs == TypeOK <=> Typed /\ sem \in 0..MaxConcurrency
BY DEF TypeOK, Typed, Warming, Local, Requested, Used

LEMMA TypedEnvironment ==
    ASSUME Typed
    PROVE  /\ Pass => Typed'
           /\ \A s \in Sites, providers \in SUBSET Providers : EditSite(s, providers) => Typed'
           /\ \A s \in Sites : DeleteSite(s) => Typed'
           /\ Stop => Typed'
           /\ Start => Typed'
<1> USE DEF tables
<1>1. ASSUME Pass PROVE Typed'
    BY <1>1 DEF Pass, Typed
<1>2. ASSUME NEW s \in Sites, NEW providers \in SUBSET Providers, EditSite(s, providers)
      PROVE  Typed'
    BY <1>2 DEF EditSite, Typed, Used
<1>3. ASSUME NEW s \in Sites, DeleteSite(s) PROVE Typed'
    BY <1>3 DEF DeleteSite, Typed
<1>4. ASSUME Stop PROVE Typed'
  <2>1. /\ local' \in [Threads -> Local]
        /\ request' \in [Refreshers -> Requested]
        /\ warm' \in Warming
      BY <1>4, IdleType, NoRequestType, NoWarmType DEF Stop
  <2> QED
      BY <1>4, <2>1 DEF Stop, Typed, Used
<1>5. ASSUME Start PROVE Typed'
  <2>1. warm' \in Warming
      BY <1>5 DEF Start, NoWarm, Warming
  <2>2. used' \in Used
      BY <1>5 DEF Start, Typed, Used, DBError
  <2> QED
      BY <1>5, <2>1, <2>2 DEF Start, Typed
<1> QED
    BY <1>1, <1>2, <1>3, <1>4, <1>5

LEMMA TypedWarming ==
    ASSUME IInv, Typed, WarmStep
    PROVE  Typed'
<1> USE DEF tables
<1>1. ASSUME NEW k \in Keys, WarmRead(k) PROVE Typed'
  <2>1. \A row \in Latest(k) : row.data \in Fetched
      BY DEF Latest, Typed, Row
  <2>2. warm' \in Warming
    <3>1. CASE warm' = [warm EXCEPT !.todo = @ \ {k}]
        BY <3>1 DEF Warming, Typed
    <3>2. ASSUME NEW row \in Latest(k),
                 warm' = [warm EXCEPT !.todo = @ \ {k}, !.key = k, !.data = row.data]
          PROVE  warm' \in Warming
        BY <2>1, <3>2 DEF Warming, Typed
    <3> QED
        BY <1>1, <3>1, <3>2 DEF WarmRead
  <2>3. UNCHANGED used \/ DBError
      BY <1>1 DEF WarmRead
  <2>4. used' \in Used
      BY <2>3 DEF Typed, Used, DBError
  <2> QED
      BY <1>1, <2>2, <2>4 DEF WarmRead, Typed
<1>2. CASE WarmPublish
  <2>1. memory' \in [Keys -> Fetched \cup {None}]
      BY <1>2, UpdateType DEF WarmPublish, IInv, WarmInv, Typed, Warming
  <2>2. warm' \in Warming
      BY <1>2 DEF WarmPublish, Typed, Warming
  <2> QED
      BY <1>2, <2>1, <2>2 DEF WarmPublish, Typed
<1>3. CASE WarmDone
    BY <1>3 DEF WarmDone, Typed
<1>4. ASSUME NEW s \in Sites, WarmSite(s) PROVE Typed'
  <2>1. {k \in Configured : k[1] = s} \in SUBSET Keys
      BY DEF Configured
  <2>2. warm' \in Warming
      BY <1>4, <2>1 DEF WarmSite, Warming, Typed
  <2>3. used' \in Used
      BY <1>4 DEF WarmSite, Typed, Used, DBError
  <2> QED
      BY <1>4, <2>2, <2>3 DEF WarmSite, Typed
<1> QED
    BY <1>1, <1>2, <1>3, <1>4 DEF WarmStep

LEMMA TypedJobs ==
    ASSUME IInv, Typed
    PROVE  /\ Tick => Typed'
           /\ \A k \in Keys : Acquire(k) => Typed'
<1> USE DEF tables
<1>1. ASSUME Tick PROVE Typed'
  <2>1. PICK jobs \in SUBSET Configured :
          /\ jobs # {}
          /\ \A k \in {c \in Configured : \E j \in jobs : j[1] = c[1]} :
                IF k \in jobs THEN \E delay \in NextDelays(Failures(k)) : Due(k, delay)
                ELSE \E delay \in NextDelays(Failures(k)) : ~Due(k, delay)
          /\ local' = [t \in Threads |->
                IF t \in jobs
                THEN [Idle EXCEPT !.pc = "queued", !.key = t, !.prev = Failures(t), !.at = now]
                ELSE local[t]]
      BY <1>1 DEF Tick
  <2>2. ASSUME NEW k \in jobs
        PROVE  [Idle EXCEPT !.pc = "queued", !.key = k, !.prev = Failures(k), !.at = now]
                  \in Local
      BY FailuresType DEF Idle, Local, PCs, Configured, IInv, Typed
  <2>3. \A t \in Threads : local[t] \in Local
      BY DEF Typed
  <2>4. local' \in [Threads -> Local]
      BY <2>1, <2>2, <2>3
  <2>5. used' = [used EXCEPT !.ticks = @ + 1]
      BY <1>1 DEF Tick
  <2>6. used' \in Used
      BY <2>5 DEF Typed, Used
  <2> QED
      BY <1>1, <2>4, <2>6 DEF Tick, Typed
<1>2. ASSUME NEW k \in Keys, Acquire(k) PROVE Typed'
  <2>1. local' \in [Threads -> Local]
      BY <1>2, GotoType DEF Acquire, IInv, PCs, Threads
  <2> QED
      BY <1>2, <2>1 DEF Acquire, Typed
<1> QED
    BY <1>1, <1>2

LEMMA TypedRefresh ==
    ASSUME IInv, Typed, NEW r \in Refreshers
    PROVE  /\ \A s \in Sites, named \in SUBSET Providers : Refresh(r, s, named) => Typed'
           /\ \A p \in Providers : RefreshNext(r, p) => Typed'
           /\ RefreshEnd(r) => Typed'
<1> USE DEF tables
<1>1. ASSUME NEW s \in Sites, NEW named \in SUBSET Providers, Refresh(r, s, named)
      PROVE  Typed'
  <2>1. local' \in [Threads -> Local]
      BY <1>1, GotoType DEF Refresh, IInv, PCs, Threads
  <2>2. PICK providers : providers = IF named = {} THEN site[s] ELSE named
      OBVIOUS
  <2>3. providers \in SUBSET Providers
      BY <1>1, <2>2 DEF Refresh, Typed
  <2>4. [p \in Providers |-> Failures(<<s, p>>)] \in [Providers -> Nat]
      BY FailuresType DEF IInv, Keys
  <2>5. request' = [request EXCEPT ![r] =
                      [site |-> s, at |-> now, todo |-> providers,
                       prev |-> [p \in Providers |-> Failures(<<s, p>>)]]]
      BY <1>1, <2>2 DEF Refresh
  <2>6. request' \in [Refreshers -> Requested]
      BY <2>3, <2>4, <2>5 DEF Typed, Requested
  <2>7. used' \in Used
      BY <1>1 DEF Refresh, Typed, Used
  <2> QED
      BY <1>1, <2>1, <2>6, <2>7 DEF Refresh, Typed
<1>2. ASSUME NEW p \in Providers, RefreshNext(r, p) PROVE Typed'
  <2>1. request' \in [Refreshers -> Requested]
    <3>1. request' = [request EXCEPT ![r].todo = @ \ {p}]
        BY <1>2 DEF RefreshNext
    <3>2. request[r] \in Requested
        BY DEF Typed
    <3>3. [request[r] EXCEPT !.todo = @ \ {p}] \in Requested
        BY <3>2 DEF Requested
    <3> QED
        BY <3>1, <3>3 DEF Typed
  <2>2. request[r].site \in Sites /\ request[r] \in Requested
      BY <1>2 DEF RefreshNext, IInv, CountInv, Typed
  <2>5. /\ <<request[r].site, p>> \in Keys
        /\ request[r].prev[p] \in Nat /\ request[r].at \in Nat
      BY <2>2 DEF Keys, Requested
  <2>3. [Idle EXCEPT !.pc = "attempt", !.key = <<request[r].site, p>>,
                     !.prev = request[r].prev[p], !.at = request[r].at] \in Local
      BY <2>5 DEF Idle, Local, PCs
  <2>4. local' \in [Threads -> Local]
      BY <1>2, <2>3 DEF RefreshNext, Typed
  <2> QED
      BY <1>2, <2>1, <2>4 DEF RefreshNext, Typed
<1>3. ASSUME RefreshEnd(r) PROVE Typed'
  <2>1. request' \in [Refreshers -> Requested] /\ local' \in [Threads -> Local]
      BY <1>3, IdleType, NoRequestType DEF RefreshEnd, Typed
  <2> QED
      BY <1>3, <2>1 DEF RefreshEnd, Typed
<1> QED
    BY <1>1, <1>2, <1>3

LEMMA TypedFetch ==
    ASSUME IInv, Typed, NEW t \in Threads, FetchStep(t)
    PROVE  Typed'
<1> USE DEF tables
<1>1. local[t].pc \in Working
    BY DEF FetchStep, Attempt, Fetch, Save, Success, Publish, Fail, Working
<1>2. /\ local[t] \in Local
      /\ local[t].key \in Keys
      /\ local[t].prev \in Nat /\ local[t].at \in Nat
      /\ local[t].pc \in Fetching => local[t].data \in Fetched
    BY <1>1, WorkingThread DEF IInv
<1>3. TypeOK
    BY DEF IInv
<1>4. ASSUME NEW at \in Nat, NEW success \in Nat \cup {None}, NEW failures \in Nat,
             Upsert(local[t].key, at, success, failures)
      PROVE  status' \in [Keys -> Status \cup {None}] /\ used' \in Used
    BY <1>2, <1>3, <1>4, UpsertType DEF Used
<1>5. CASE Attempt(t)
  <2>1. local' \in [Threads -> Local]
      BY <1>3, <1>5, GotoType DEF Attempt, PCs
  <2>2. status' \in [Keys -> Status \cup {None}] /\ used' \in Used
      BY <1>2, <1>4, <1>5 DEF Attempt
  <2> QED
      BY <1>5, <2>1, <2>2 DEF Attempt, Typed
<1>6. ASSUME NEW list \in Lists \cup {None}, Fetch(t, list) PROVE Typed'
  <2>1. list # None => [list |-> list, at |-> local[t].at, real |-> now] \in Fetched
      BY <1>2 DEF Fetched, Typed
  <2>2. PICK data \in Fetched \cup {None} :
           data = IF list = None THEN None
                  ELSE [list |-> list, at |-> local[t].at, real |-> now]
      BY <2>1
  <2>3. PICK pc \in PCs : pc = IF list = None THEN "fail" ELSE "save"
      BY DEF PCs
  <2>4. local' = [local EXCEPT ![t].pc = pc, ![t].data = data]
      BY <1>6, <2>2, <2>3 DEF Fetch
  <2>5. PICK started : started = [local EXCEPT ![t].pc = pc]
      OBVIOUS
  <2>6. started \in [Threads -> Local]
      BY <1>2, <2>5 DEF Typed, Local
  <2>7. local' = [started EXCEPT ![t].data = data]
      BY <2>4, <2>5, <2>6 DEF Typed
  <2>8. [started[t] EXCEPT !.data = data] \in Local
      BY <2>6 DEF Local
  <2>9. local' \in [Threads -> Local]
      BY <2>6, <2>7, <2>8
  <2> QED
      BY <1>6, <2>9 DEF Fetch, Typed
<1>7. CASE Save(t)
  <2>1. local' \in [Threads -> Local]
      BY <1>3, <1>7, GotoType DEF Save, PCs
  <2>2. [key |-> local[t].key, data |-> local[t].data] \in Row
      BY <1>2, <1>7 DEF Save, Fetching, Row
  <2>3. rows' \in SUBSET Row
      BY <1>7, <2>2 DEF Save, Typed
  <2>4. used' \in Used
      BY <1>7 DEF Save, Typed, Used, DBError
  <2> QED
      BY <1>7, <2>1, <2>3, <2>4 DEF Save, Typed
<1>8. CASE Success(t)
  <2>1. local' \in [Threads -> Local]
      BY <1>3, <1>8, GotoType DEF Success, PCs
  <2>2. status' \in [Keys -> Status \cup {None}] /\ used' \in Used
      BY <1>2, <1>4, <1>8 DEF Success
  <2> QED
      BY <1>8, <2>1, <2>2 DEF Success, Typed
<1>9. CASE Publish(t)
  <2>1. local' \in [Threads -> Local]
      BY <1>3, <1>9, DoneType DEF Publish
  <2>2. memory' \in [Keys -> Fetched \cup {None}]
      BY <1>2, <1>3, <1>9, UpdateType DEF Publish, Fetching
  <2> QED
      BY <1>9, <2>1, <2>2 DEF Publish, Typed
<1>10. CASE Fail(t)
  <2>1. local' \in [Threads -> Local]
      BY <1>3, <1>10, DoneType DEF Fail
  <2>2. status' \in [Keys -> Status \cup {None}] /\ used' \in Used
    <3>1. local[t].prev + 1 \in Nat
        BY <1>2
    <3> QED
        BY <1>2, <1>4, <1>10, <3>1 DEF Fail
  <2>3. failed' \in [Keys -> Nat]
      BY <1>2, <1>10 DEF Fail, Typed
  <2> QED
      BY <1>10, <2>1, <2>2, <2>3 DEF Fail, Typed
<1> QED
    BY <1>5, <1>6, <1>7, <1>8, <1>9, <1>10 DEF FetchStep

LEMMA TypeStep ==
    ASSUME IInv, [Next]_vars
    PROVE  TypeOK'
<1>1. Typed
    BY TypeIs DEF IInv
<1>2. ASSUME vars' = vars PROVE Typed'
    BY <1>1, <1>2 DEF vars, Typed
<1>3. ASSUME Next PROVE Typed'
  <2>1. \/ Pass \/ Stop \/ Start
        \/ \E s \in Sites, providers \in SUBSET Providers : EditSite(s, providers)
        \/ \E s \in Sites : DeleteSite(s)
        => Typed'
      BY <1>1, TypedEnvironment
  <2>2. Tick \/ (\E k \in Keys : Acquire(k)) => Typed'
      BY <1>1, TypedJobs
  <2>3. WarmStep => Typed'
      BY <1>1, TypedWarming
  <2>4. \/ \E r \in Refreshers, s \in Sites, named \in SUBSET Providers : Refresh(r, s, named)
        \/ \E r \in Refreshers, p \in Providers : RefreshNext(r, p)
        \/ \E r \in Refreshers : RefreshEnd(r)
        => Typed'
      BY <1>1, TypedRefresh
  <2>5. (\E t \in Threads : FetchStep(t)) => Typed'
      BY <1>1, TypedFetch
  <2> QED
      BY <1>3, <2>1, <2>2, <2>3, <2>4, <2>5 DEF Next
<1>4. Typed'
    BY <1>2, <1>3
<1>5. (sem \in 0..MaxConcurrency)'
    BY SlotStep DEF SlotsKept
<1>6. TypeOK' <=> Typed' /\ (sem \in 0..MaxConcurrency)'
    BY DEF TypeOK, Typed, Warming, Local, Requested, Used
<1> QED
    BY <1>4, <1>5, <1>6

-----------------------------------------------------------------------------
(***************************************************************************)
(* What no step takes back                                                  *)
(***************************************************************************)

(* Time and failures grow; a site that is gone stays gone, and as long as a     *)
(* site is there its rows stay.                                                *)
Later ==
    /\ now <= now'
    /\ \A k \in Keys : failed[k] <= failed'[k]
    /\ \A k \in Keys : Exists(k)' => Exists(k)
    /\ \A k \in Keys : Exists(k)' => \A data : HasRow(k, data) => HasRow(k, data)'

LEMMA LaterUnchanged ==
    ASSUME Typed, now <= now', failed' = failed, site' = site, rows \subseteq rows'
    PROVE  Later
BY DEF Later, Exists, HasRow, Typed

LEMMA LaterStep ==
    ASSUME IInv, [Next]_vars
    PROVE  Later
<1> USE DEF tables
<1>1. Typed /\ now <= now
    BY TypeIs DEF IInv, Typed
<1>2. CASE vars' = vars
    BY <1>1, <1>2, LaterUnchanged DEF vars
<1>3. CASE Pass
    BY <1>1, <1>3, LaterUnchanged DEF Pass, Typed
<1>4. ASSUME NEW s \in Sites, NEW providers \in SUBSET Providers, EditSite(s, providers)
      PROVE  Later
  <2>1. site' = [site EXCEPT ![s] = providers] /\ site[s] # None
      BY <1>4 DEF EditSite
  <2>2. \A k \in Keys : Exists(k)' => Exists(k)
      BY <1>1, <2>1, KeyParts DEF Exists, Typed
  <2> QED
      BY <1>1, <1>4, <2>2 DEF EditSite, Later, HasRow, Typed
<1>5. ASSUME NEW s \in Sites, DeleteSite(s) PROVE Later
  <2>1. site' = [site EXCEPT ![s] = None] /\ rows' = {row \in rows : row.key[1] # s}
      BY <1>5 DEF DeleteSite
  <2>2. \A k \in Keys : Exists(k)' => Exists(k) /\ k[1] # s
      BY <1>1, <2>1, KeyParts DEF Exists, Typed
  <2>3. \A k \in Keys : Exists(k)' => \A data : HasRow(k, data) => HasRow(k, data)'
      BY <2>1, <2>2 DEF HasRow
  <2> QED
      BY <1>1, <1>5, <2>2, <2>3 DEF DeleteSite, Later, Typed
<1>6. ASSUME now' = now, failed' = failed, site' = site, rows' = rows PROVE Later
    BY <1>1, <1>6, LaterUnchanged
<1>7. CASE Stop \/ Start
    BY <1>6, <1>7 DEF Stop, Start
<1>8. CASE WarmStep
    BY <1>6, <1>8 DEF WarmStep, WarmSite, WarmRead, WarmPublish, WarmDone
<1>9. CASE Tick
    BY <1>6, <1>9 DEF Tick
<1>10. ASSUME NEW k \in Keys, Acquire(k) PROVE Later
    BY <1>6, <1>10 DEF Acquire
<1>11. ASSUME NEW r \in Refreshers, NEW s \in Sites, NEW named \in SUBSET Providers,
              Refresh(r, s, named)
       PROVE  Later
    BY <1>6, <1>11 DEF Refresh
<1>12. ASSUME NEW r \in Refreshers, NEW p \in Providers, RefreshNext(r, p) PROVE Later
    BY <1>6, <1>12 DEF RefreshNext
<1>13. ASSUME NEW r \in Refreshers, RefreshEnd(r) PROVE Later
    BY <1>6, <1>13 DEF RefreshEnd
<1>14. ASSUME NEW t \in Threads, FetchStep(t) PROVE Later
  <2>1. CASE Attempt(t) \/ Success(t) \/ Publish(t)
      BY <1>6, <2>1 DEF Attempt, Success, Publish
  <2>2. ASSUME NEW list \in Lists \cup {None}, Fetch(t, list) PROVE Later
      BY <1>6, <2>2 DEF Fetch
  <2>3. CASE Save(t)
      BY <1>1, <2>3, LaterUnchanged DEF Save
  <2>4. CASE Fail(t)
    <3>1. local[t].key \in Keys
        BY <2>4, WorkingThread DEF IInv, Fail, Working
    <3>2. \A k \in Keys : failed[k] <= failed'[k]
        BY <1>1, <2>4, <3>1 DEF Fail, Typed
    <3> QED
        BY <1>1, <2>4, <3>2 DEF Fail, Later, Exists, HasRow
  <2> QED
      BY <1>14, <2>1, <2>2, <2>3, <2>4 DEF FetchStep
<1> QED
    BY <1>2, <1>3, <1>4, <1>5, <1>7, <1>8, <1>9, <1>10, <1>11, <1>12, <1>13, <1>14 DEF Next

-----------------------------------------------------------------------------
(***************************************************************************)
(* Jobs and refreshes                                                       *)
(***************************************************************************)

(* All that the invariant says of one thread. *)
Fine(t) ==
    /\ t \in Keys => local[t].pc # "next" /\ (local[t].pc # "idle" => local[t].key = t)
    /\ t \in Refreshers => local[t].pc # "queued"
    /\ local[t].pc \in Working => local[t].key \in Keys
    /\ local[t].at <= now
    /\ local[t].pc \in Fetching =>
          local[t].data \in Fetched /\ local[t].data.at = local[t].at /\ Timely(local[t].data)
    /\ local[t].pc \in Saved => Backed(local[t].key, local[t].data)
    /\ local[t].pc \in Working \cup {"queued"} => local[t].prev <= failed[local[t].key]

RequestFine(r) ==
    local[r].pc # "idle" =>
        /\ request[r].site \in Sites
        /\ request[r].at <= now
        /\ \A p \in Providers : request[r].prev[p] <= failed[<<request[r].site, p>>]

LEMMA AllFine ==
    ThreadInv /\ SavedInv /\ CountInv
    <=> (\A t \in Threads : Fine(t)) /\ (\A r \in Refreshers : RequestFine(r))
BY DEF ThreadInv, SavedInv, CountInv, Fine, RequestFine

(* A thread that does not move. *)
LEMMA FineSame ==
    ASSUME IInv, Typed', Later, NEW t \in Threads, local'[t] = local[t]
    PROVE  Fine(t)'
<1>1. Fine(t) /\ Typed
    BY AllFine, TypeIs DEF IInv
<1>2. now \in Nat /\ now' \in Nat /\ now <= now' /\ local[t].at \in Nat
    BY <1>1 DEF Typed, Later, Local
<1>3. local[t].pc \in Fetching => local[t].data.real \in Nat
    BY <1>1 DEF Fine, Fetched
<1>4. local[t].pc \in Working \cup {"queued"} =>
          local[t].key \in Keys /\ local[t].prev \in Nat
    BY <1>1, ThreadsApart DEF Fine, Typed, Local, Threads
<1>5. \A k \in Keys : failed[k] <= failed'[k] /\ failed[k] \in Nat /\ failed'[k] \in Nat
    BY <1>1 DEF Typed, Later
<1>6. local[t].pc \in Working \cup {"queued"} => local[t].prev <= failed'[local[t].key]
    BY <1>1, <1>4, <1>5 DEF Fine
<1>7. local[t].pc \in Fetching => Timely(local[t].data)'
    BY <1>1, <1>2, <1>3 DEF Fine, Timely
<1>8. local[t].pc \in Saved => local[t].key \in Keys
    BY <1>1 DEF Fine, Saved, Working
<1>9. local[t].pc \in Saved => Backed(local[t].key, local[t].data)'
    BY <1>1, <1>8 DEF Fine, Backed, Later
<1>10. local'[t].at <= now'
    BY <1>1, <1>2 DEF Fine
<1> QED
    BY <1>1, <1>6, <1>7, <1>9, <1>10 DEF Fine, Timely, Backed, Exists, HasRow

(* A thread between attempts. *)
LEMMA FineIdle ==
    ASSUME Typed', NEW t \in Threads,
           local'[t] = Idle \/ (t \in Refreshers /\ local'[t] = [Idle EXCEPT !.pc = "next"])
    PROVE  Fine(t)'
<1>1. now' \in Nat
    BY DEF Typed
<1>2. /\ local'[t].pc = "idle" \/ (t \in Refreshers /\ local'[t].pc = "next")
      /\ local'[t].at = 0
    BY DEF Idle
<1> QED
    BY <1>1, <1>2, ThreadsApart DEF Fine, Working, Fetching, Saved

(* A thread that goes on inside its attempt. *)
LEMMA FineGoto ==
    ASSUME IInv, Typed', Later, NEW t \in Threads, NEW pc \in Working,
           local[t].pc \in Working, Goto(t, pc),
           pc \in Fetching => local[t].pc \in Fetching,
           pc \in Saved => Backed(local[t].key, local[t].data)'
    PROVE  Fine(t)'
<1>1. Fine(t) /\ Typed
    BY AllFine, TypeIs DEF IInv
<1>2. /\ local'[t].pc = pc /\ local'[t].key = local[t].key /\ local'[t].at = local[t].at
      /\ local'[t].prev = local[t].prev /\ local'[t].data = local[t].data
    BY <1>1 DEF Goto, Typed, Local
<1>3. now \in Nat /\ now' \in Nat /\ now <= now' /\ local[t].at \in Nat
    BY <1>1 DEF Typed, Later, Local
<1>4. local[t].key \in Keys /\ local[t].prev \in Nat
    BY <1>1 DEF Fine, Typed, Local
<1>5. local[t].prev <= failed'[local[t].key]
    BY <1>1, <1>4 DEF Fine, Typed, Later
<1>6. pc \in Fetching => local[t].data.real \in Nat
    BY <1>1 DEF Fine, Fetched
<1>7. pc \in Fetching => Timely(local[t].data)'
    BY <1>1, <1>2, <1>3, <1>6 DEF Fine, Timely
<1>8. pc # "next" /\ pc # "queued" /\ local[t].pc # "idle"
    BY DEF Working
<1>9. local'[t].at <= now'
    BY <1>1, <1>2, <1>3 DEF Fine
<1> QED
    BY <1>1, <1>2, <1>4, <1>5, <1>7, <1>8, <1>9 DEF Fine, Timely, Backed, Exists, HasRow

(* One step of an attempt. *)
LEMMA FineFetchStep ==
    ASSUME IInv, Typed', Later, NEW t \in Threads, FetchStep(t)
    PROVE  Fine(t)'
<1>1. Fine(t) /\ Typed /\ local[t] \in Local
    BY AllFine, TypeIs DEF IInv, Typed
<1>2. CASE Attempt(t)
    BY <1>2, FineGoto DEF Attempt, Working, Fetching, Saved
<1>3. ASSUME NEW list \in Lists \cup {None}, Fetch(t, list) PROVE Fine(t)'
  <2>1. now' = now /\ failed' = failed /\ local[t].pc = "fetch"
      BY <1>3 DEF Fetch
  <2>2. /\ local'[t].pc = IF list = None THEN "fail" ELSE "save"
        /\ local'[t].data = IF list = None THEN None
                            ELSE [list |-> list, at |-> local[t].at, real |-> now]
        /\ local'[t].key = local[t].key /\ local'[t].prev = local[t].prev
        /\ local'[t].at = local[t].at
      BY <1>1, <1>3 DEF Fetch, Typed, Local
  <2>3. now \in Nat /\ local[t].at \in Nat /\ local[t].at <= now
      BY <1>1 DEF Typed, Local, Fine
  <2>4. CASE list = None
      BY <1>1, <2>1, <2>2, <2>3, <2>4 DEF Fine, Working, Fetching, Saved
  <2>5. CASE list # None
    <3>1. local'[t].pc = "save"
        BY <2>2, <2>5
    <3>2. local'[t].data = [list |-> list, at |-> local[t].at, real |-> now]
        BY <2>2, <2>5
    <3>3. /\ local'[t].data \in Fetched /\ local'[t].data.at = local'[t].at
          /\ local'[t].data.at <= local'[t].data.real /\ local'[t].data.real <= now'
        BY <2>1, <2>2, <2>3, <2>5, <3>2 DEF Fetched
    <3>4. (t \in Keys => local'[t].key = t) /\ local'[t].key \in Keys
        BY <1>1, <2>1, <2>2 DEF Fine, Working
    <3>5. local'[t].prev <= failed'[local'[t].key] /\ local'[t].at <= now'
        BY <1>1, <2>1, <2>2, <2>3 DEF Fine, Working
    <3> QED
        BY <3>1, <3>3, <3>4, <3>5 DEF Fine, Timely, Working, Fetching, Saved
  <2> QED
      BY <2>4, <2>5
<1>4. CASE Save(t)
  <2>1. PICK pc \in {"success", "fail"} :
           /\ Goto(t, pc)
           /\ pc = "success" =>
                 rows' = rows \cup {[key |-> local[t].key, data |-> local[t].data]}
      BY <1>4 DEF Save
  <2>2. local'[t].key = local[t].key /\ local'[t].data = local[t].data
      BY <1>1, <2>1 DEF Goto, Typed, Local
  <2>3. pc = "success" => HasRow(local[t].key, local[t].data)'
      BY <2>1, <2>2 DEF HasRow
  <2>4. local[t].pc = "save"
      BY <1>4 DEF Save
  <2> QED
      BY <2>1, <2>3, <2>4, FineGoto DEF Working, Fetching, Saved, Backed
<1>5. CASE Success(t)
  <2>1. Goto(t, "publish") /\ local[t].pc = "success" /\ site' = site /\ rows' = rows
      BY <1>5 DEF Success
  <2>2. local'[t].key = local[t].key /\ local'[t].data = local[t].data
      BY <1>1, <2>1 DEF Goto, Typed, Local
  <2>3. Backed(local[t].key, local[t].data)'
      BY <1>1, <2>1, <2>2 DEF Fine, Saved, Backed, Exists, HasRow
  <2> QED
      BY <2>1, <2>3, FineGoto DEF Working, Fetching
<1>6. CASE Publish(t) \/ Fail(t)
  <2>1. Done(t)
      BY <1>6 DEF Publish, Fail
  <2>2. local'[t] = Idle \/ (t \in Refreshers /\ local'[t] = [Idle EXCEPT !.pc = "next"])
      BY <1>1, <2>1 DEF Done, Typed, Threads
  <2> QED
      BY <2>2, FineIdle
<1> QED
    BY <1>2, <1>3, <1>4, <1>5, <1>6 DEF FetchStep

(* tick queues a job with the count it has just read. *)
LEMMA FineTick ==
    ASSUME IInv, Typed', Later, Tick, NEW t \in Threads
    PROVE  Fine(t)'
<1>1. PICK jobs \in SUBSET Configured :
          /\ jobs # {}
          /\ \A k \in {c \in Configured : \E j \in jobs : j[1] = c[1]} :
                IF k \in jobs THEN \E delay \in NextDelays(Failures(k)) : Due(k, delay)
                ELSE \E delay \in NextDelays(Failures(k)) : ~Due(k, delay)
          /\ local' = [u \in Threads |->
                IF u \in jobs
                THEN [Idle EXCEPT !.pc = "queued", !.key = u, !.prev = Failures(u), !.at = now]
                ELSE local[u]]
    BY DEF Tick
<1>2. CASE t \notin jobs
    BY <1>1, <1>2, FineSame
<1>3. CASE t \in jobs
  <2>1. t \in Keys
      BY <1>3 DEF Configured
  <2>2. local'[t] = [Idle EXCEPT !.pc = "queued", !.key = t, !.prev = Failures(t), !.at = now]
      BY <1>1, <1>3
  <2>3. /\ local'[t].pc = "queued" /\ local'[t].key = t /\ local'[t].prev = Failures(t)
        /\ local'[t].at = now
      BY <2>2 DEF Idle
  <2>4. now' = now /\ failed' = failed /\ now \in Nat
      BY TypeIs DEF Tick, IInv, Typed
  <2>5. Failures(t) <= failed[t]
      BY <2>1 DEF IInv, FailuresAreReal
  <2>6. t \notin Refreshers
      BY <2>1, ThreadsApart
  <2>7. local'[t].at <= now'
      BY <2>3, <2>4
  <2> QED
      BY <2>1, <2>3, <2>4, <2>5, <2>6, <2>7 DEF Fine, Working, Fetching, Saved
<1> QED
    BY <1>2, <1>3

LEMMA FineAcquire ==
    ASSUME IInv, Typed', Later, NEW k \in Keys, Acquire(k)
    PROVE  Fine(k)'
<1>1. Fine(k) /\ Typed
    BY AllFine, TypeIs DEF IInv, Threads
<1>2. /\ local'[k].pc = "attempt" /\ local'[k].key = local[k].key
      /\ local'[k].at = local[k].at /\ local'[k].prev = local[k].prev
    BY <1>1 DEF Acquire, Goto, Typed, Local, Threads
<1>3. local[k].pc = "queued" /\ now' = now /\ failed' = failed
    BY DEF Acquire
<1>4. local[k].key = k /\ k \notin Refreshers
    BY <1>1, <1>3, ThreadsApart DEF Fine
<1> QED
    BY <1>1, <1>2, <1>3, <1>4 DEF Fine, Working, Fetching, Saved

LEMMA FineRefresh ==
    ASSUME IInv, Typed', Later, NEW r \in Refreshers
    PROVE  /\ \A s \in Sites, named \in SUBSET Providers :
                 Refresh(r, s, named) => Fine(r)' /\ RequestFine(r)'
           /\ \A p \in Providers : RefreshNext(r, p) => Fine(r)' /\ RequestFine(r)'
           /\ RefreshEnd(r) => Fine(r)' /\ RequestFine(r)'
<1>1. r \in Threads /\ r \notin Keys
    BY ThreadsApart DEF Threads
<1>2. Fine(r) /\ RequestFine(r) /\ Typed /\ now \in Nat
    BY <1>1, AllFine, TypeIs DEF IInv, Typed
<1>3. ASSUME NEW s \in Sites, NEW named \in SUBSET Providers, Refresh(r, s, named)
      PROVE  Fine(r)' /\ RequestFine(r)'
  <2>1. local[r].pc = "idle" /\ now' = now /\ failed' = failed
      BY <1>3 DEF Refresh
  <2>2. local'[r].pc = "next" /\ local'[r].at = local[r].at
      BY <1>1, <1>2, <1>3 DEF Refresh, Goto, Typed, Local
  <2>3. /\ request'[r].site = s /\ request'[r].at = now
        /\ request'[r].prev = [p \in Providers |-> Failures(<<s, p>>)]
      BY <1>2, <1>3 DEF Refresh, Typed
  <2>4. \A p \in Providers : request'[r].prev[p] <= failed[<<s, p>>]
      BY <2>3 DEF IInv, FailuresAreReal, Keys
  <2>5. Fine(r)'
      BY <1>1, <1>2, <2>1, <2>2 DEF Fine, Working, Fetching, Saved
  <2> QED
      BY <1>2, <2>1, <2>3, <2>4, <2>5 DEF RequestFine
<1>4. ASSUME NEW p \in Providers, RefreshNext(r, p) PROVE Fine(r)' /\ RequestFine(r)'
  <2>1. local[r].pc = "next" /\ now' = now /\ failed' = failed
      BY <1>4 DEF RefreshNext
  <2>2. /\ request'[r].site = request[r].site /\ request'[r].at = request[r].at
        /\ request'[r].prev = request[r].prev
      BY <1>2, <1>4 DEF RefreshNext, Typed, Requested
  <2>3. /\ request[r].site \in Sites /\ request[r].at <= now
        /\ \A q \in Providers : request[r].prev[q] <= failed[<<request[r].site, q>>]
      BY <1>2, <2>1 DEF RequestFine
  <2>4. RequestFine(r)'
      BY <2>1, <2>2, <2>3 DEF RequestFine
  <2>5. CASE ~Supported(p)
      BY <1>1, <1>4, <2>4, <2>5, FineSame DEF RefreshNext
  <2>6. CASE Supported(p)
    <3>1. local'[r] = [Idle EXCEPT !.pc = "attempt", !.key = <<request[r].site, p>>,
                                   !.prev = request[r].prev[p], !.at = request[r].at]
        BY <1>1, <1>2, <1>4, <2>6 DEF RefreshNext, Typed
    <3>2. /\ local'[r].pc = "attempt" /\ local'[r].key = <<request[r].site, p>>
          /\ local'[r].prev = request[r].prev[p] /\ local'[r].at = request[r].at
        BY <3>1 DEF Idle
    <3>3. <<request[r].site, p>> \in Keys
        BY <2>3 DEF Keys
    <3>4. Fine(r)'
        BY <1>1, <2>1, <2>3, <3>2, <3>3 DEF Fine, Working, Fetching, Saved
    <3> QED
        BY <2>4, <3>4
  <2> QED
      BY <2>5, <2>6
<1>5. ASSUME RefreshEnd(r) PROVE Fine(r)' /\ RequestFine(r)'
  <2>1. local'[r] = Idle
      BY <1>1, <1>2, <1>5 DEF RefreshEnd, Typed
  <2> QED
      BY <1>1, <2>1, FineIdle DEF RequestFine, Idle
<1> QED
    BY <1>3, <1>4, <1>5

(* A refresh that does not move, or is inside an attempt. *)
LEMMA RequestFineSame ==
    ASSUME IInv, Typed', Later, NEW r \in Refreshers,
           request'[r] = request[r], local'[r].pc # "idle" => local[r].pc # "idle"
    PROVE  RequestFine(r)'
<1>1. RequestFine(r) /\ Typed
    BY AllFine, TypeIs DEF IInv
<1>2. now \in Nat /\ now' \in Nat /\ now <= now' /\ request[r].at \in Nat
    BY <1>1 DEF Typed, Later, Requested
<1>3. \A k \in Keys : failed[k] <= failed'[k] /\ failed[k] \in Nat /\ failed'[k] \in Nat
    BY <1>1 DEF Typed, Later
<1>4. ASSUME local[r].pc # "idle", NEW p \in Providers
      PROVE  request[r].prev[p] <= failed'[<<request[r].site, p>>]
  <2>1. <<request[r].site, p>> \in Keys
      BY <1>1, <1>4 DEF RequestFine, Keys
  <2>2. request[r].prev[p] \in Nat
      BY <1>1 DEF Typed, Requested
  <2>3. request[r].prev[p] <= failed[<<request[r].site, p>>]
      BY <1>1, <1>4 DEF RequestFine
  <2> QED
      BY <1>3, <2>1, <2>2, <2>3
<1>5. local[r].pc # "idle" => request[r].at <= now'
    BY <1>1, <1>2 DEF RequestFine
<1> QED
    BY <1>1, <1>4, <1>5 DEF RequestFine

LEMMA ThreadStep ==
    ASSUME IInv, [Next]_vars, Typed', Later
    PROVE  ThreadInv' /\ SavedInv' /\ CountInv'
<1> DEFINE Kept == (\A t \in Threads : Fine(t)') /\ (\A r \in Refreshers : RequestFine(r)')
<1> SUFFICES Kept
    BY DEF ThreadInv, SavedInv, CountInv, Fine, RequestFine
<1>1. ASSUME local' = local, request' = request PROVE Kept
    BY <1>1, FineSame, RequestFineSame
<1>2. ASSUME NEW t \in Threads, request' = request, Fine(t)',
             \A u \in Threads : u # t => local'[u] = local[u],
             t \in Refreshers /\ local'[t].pc # "idle" => local[t].pc # "idle"
      PROVE  Kept
  <2>1. \A u \in Threads : Fine(u)'
      BY <1>2, FineSame
  <2>2. \A r \in Refreshers : RequestFine(r)'
      BY <1>2, RequestFineSame DEF Threads
  <2> QED
      BY <2>1, <2>2
<1>3. ASSUME NEW r \in Refreshers, Fine(r)', RequestFine(r)',
             \A u \in Threads : u # r => local'[u] = local[u],
             \A q \in Refreshers : q # r => request'[q] = request[q]
      PROVE  Kept
  <2>1. \A u \in Threads : Fine(u)'
      BY <1>3, FineSame
  <2>2. \A q \in Refreshers : RequestFine(q)'
      BY <1>3, RequestFineSame DEF Threads
  <2> QED
      BY <2>1, <2>2
<1> HIDE DEF Kept
<1>4. Typed
    BY TypeIs DEF IInv
<1>5. CASE vars' = vars
    BY <1>1, <1>5 DEF vars
<1>6. CASE Pass \/ Start
    BY <1>1, <1>6 DEF Pass, Start
<1>7. ASSUME NEW s \in Sites, NEW providers \in SUBSET Providers, EditSite(s, providers)
      PROVE  Kept
    BY <1>1, <1>7 DEF EditSite
<1>8. ASSUME NEW s \in Sites, DeleteSite(s) PROVE Kept
    BY <1>1, <1>8 DEF DeleteSite
<1>9. CASE Stop
  <2>1. \A t \in Threads : local'[t] = Idle
      BY <1>9 DEF Stop
  <2>2. \A r \in Refreshers : local'[r].pc = "idle"
      BY <2>1 DEF Threads, Idle
  <2> QED
      BY <2>1, <2>2, FineIdle DEF Kept, RequestFine
<1>10. CASE WarmStep
    BY <1>1, <1>10 DEF WarmStep, WarmSite, WarmRead, WarmPublish, WarmDone
<1>11. CASE Tick
  <2>1. \A t \in Threads : Fine(t)'
      BY <1>11, FineTick
  <2>2. PICK jobs \in SUBSET Configured :
          /\ jobs # {}
          /\ \A k \in {c \in Configured : \E j \in jobs : j[1] = c[1]} :
                IF k \in jobs THEN \E delay \in NextDelays(Failures(k)) : Due(k, delay)
                ELSE \E delay \in NextDelays(Failures(k)) : ~Due(k, delay)
          /\ local' = [t \in Threads |->
                IF t \in jobs
                THEN [Idle EXCEPT !.pc = "queued", !.key = t, !.prev = Failures(t), !.at = now]
                ELSE local[t]]
      BY <1>11 DEF Tick
  <2>3. jobs \subseteq Keys
      BY DEF Configured
  <2>4. \A r \in Refreshers : local'[r] = local[r]
      BY <2>2, <2>3, ThreadsApart DEF Threads
  <2> QED
      BY <1>11, <2>1, <2>4, RequestFineSame DEF Kept, Tick
<1>12. ASSUME NEW k \in Keys, Acquire(k) PROVE Kept
  <2>1. k \in Threads /\ k \notin Refreshers
      BY ThreadsApart DEF Threads
  <2>2. \A u \in Threads : u # k => local'[u] = local[u]
      BY <1>4, <1>12 DEF Acquire, Goto, Typed
  <2> QED
      BY <1>2, <1>12, <2>1, <2>2, FineAcquire DEF Acquire
<1>13. ASSUME NEW r \in Refreshers, NEW s \in Sites, NEW named \in SUBSET Providers,
              Refresh(r, s, named)
       PROVE  Kept
  <2>1. Fine(r)' /\ RequestFine(r)'
      BY <1>13, FineRefresh
  <2>2. /\ \A u \in Threads : u # r => local'[u] = local[u]
        /\ \A q \in Refreshers : q # r => request'[q] = request[q]
      BY <1>4, <1>13 DEF Refresh, Goto, Typed
  <2> QED
      BY <1>3, <2>1, <2>2
<1>14. ASSUME NEW r \in Refreshers, NEW p \in Providers, RefreshNext(r, p) PROVE Kept
  <2>1. Fine(r)' /\ RequestFine(r)'
      BY <1>14, FineRefresh
  <2>2. /\ \A u \in Threads : u # r => local'[u] = local[u]
        /\ \A q \in Refreshers : q # r => request'[q] = request[q]
      BY <1>4, <1>14 DEF RefreshNext, Typed
  <2> QED
      BY <1>3, <2>1, <2>2
<1>15. ASSUME NEW r \in Refreshers, RefreshEnd(r) PROVE Kept
  <2>1. Fine(r)' /\ RequestFine(r)'
      BY <1>15, FineRefresh
  <2>2. /\ \A u \in Threads : u # r => local'[u] = local[u]
        /\ \A q \in Refreshers : q # r => request'[q] = request[q]
      BY <1>4, <1>15 DEF RefreshEnd, Typed
  <2> QED
      BY <1>3, <2>1, <2>2
<1>16. ASSUME NEW t \in Threads, FetchStep(t) PROVE Kept
  <2>1. Fine(t)' /\ request' = request /\ local[t].pc # "idle"
      BY <1>16, FineFetchStep
      DEF FetchStep, Attempt, Fetch, Save, Success, Publish, Fail
  <2>2. CASE Attempt(t) \/ Save(t) \/ Success(t)
    <3>1. \A u \in Threads : u # t => local'[u] = local[u]
        BY <1>4, <2>2 DEF Attempt, Save, Success, Goto, Typed
    <3> QED
        BY <1>2, <2>1, <3>1
  <2>3. ASSUME NEW list \in Lists \cup {None}, Fetch(t, list) PROVE Kept
    <3>1. \A u \in Threads : u # t => local'[u] = local[u]
        BY <1>4, <2>3 DEF Fetch, Typed
    <3> QED
        BY <1>2, <2>1, <3>1
  <2>4. CASE Publish(t) \/ Fail(t)
    <3>1. Done(t)
        BY <2>4 DEF Publish, Fail
    <3>2. \A u \in Threads : u # t => local'[u] = local[u]
        BY <1>4, <3>1 DEF Done, Typed
    <3> QED
        BY <1>2, <2>1, <3>2
  <2> QED
      BY <1>16, <2>2, <2>3, <2>4 DEF FetchStep
<1> QED
    BY <1>5, <1>6, <1>7, <1>8, <1>9, <1>10, <1>11, <1>12, <1>13, <1>14, <1>15, <1>16 DEF Next

-----------------------------------------------------------------------------
(***************************************************************************)
(* Lists: in the table, on their way into memory, in memory                 *)
(***************************************************************************)

(* The threads that save or publish a list hold a good one. *)
LEMMA Holding ==
    ASSUME IInv, NEW t \in Threads, local[t].pc \in Fetching
    PROVE  /\ local[t].key \in Keys /\ local[t].data \in Fetched /\ Timely(local[t].data)
           /\ local[t].data.at = local[t].at
           /\ local[t].pc \in Saved => Backed(local[t].key, local[t].data)
BY DEF IInv, ThreadInv, SavedInv, Fetching, Working

LEMMA TimelyLater ==
    ASSUME Typed, Typed', Later, NEW data \in Fetched, Timely(data)
    PROVE  data.at <= data.real /\ data.real <= now'
BY DEF Timely, Fetched, Later, Typed

(* What reaches memory comes from a thread or from the warming of the cache. *)
LEMMA MemoryFrom ==
    ASSUME IInv, [Next]_vars, NEW k \in Keys, memory'[k] # None
    PROVE  \/ memory'[k] = memory[k]
           \/ /\ memory'[k] \in Fetched /\ Timely(memory'[k]) /\ Backed(k, memory'[k])
              /\ site' = site /\ rows' = rows
<1>1. Typed
    BY TypeIs DEF IInv
<1>2. ASSUME NEW j \in Keys, NEW data \in Fetched, Update(j, data),
             Timely(data), Backed(j, data), site' = site, rows' = rows
      PROVE  \/ memory'[k] = memory[k]
             \/ /\ memory'[k] \in Fetched /\ Timely(memory'[k]) /\ Backed(k, memory'[k])
                /\ site' = site /\ rows' = rows
    BY <1>1, <1>2 DEF Update, Typed
<1>3. CASE WarmPublish
  <2>1. warm.key \in Keys /\ warm.data \in Fetched
      BY <1>1, <1>3 DEF WarmPublish, IInv, WarmInv, Typed, Warming
  <2> QED
      BY <1>2, <1>3, <2>1 DEF WarmPublish, IInv, WarmInv, tables
<1>4. ASSUME NEW t \in Threads, Publish(t)
      PROVE  \/ memory'[k] = memory[k]
             \/ /\ memory'[k] \in Fetched /\ Timely(memory'[k]) /\ Backed(k, memory'[k])
                /\ site' = site /\ rows' = rows
  <2>1. /\ local[t].key \in Keys /\ local[t].data \in Fetched /\ Timely(local[t].data)
        /\ Backed(local[t].key, local[t].data)
      BY <1>4, Holding DEF Publish, Fetching, Saved
  <2> QED
      BY <1>2, <1>4, <2>1 DEF Publish, tables
<1>5. CASE Stop
    BY <1>5 DEF Stop
<1>6. CASE memory' = memory
    BY <1>6
<1>7. (\E t \in Threads : FetchStep(t)) =>
          memory' = memory \/ \E t \in Threads : Publish(t)
    BY DEF FetchStep, Attempt, Fetch, Save, Success, Fail
<1>8. WarmStep => memory' = memory \/ WarmPublish
    BY DEF WarmStep, WarmSite, WarmRead, WarmDone
<1>9. \/ Pass \/ Start \/ Tick
      \/ \E s \in Sites, providers \in SUBSET Providers : EditSite(s, providers)
      \/ \E s \in Sites : DeleteSite(s)
      \/ \E j \in Keys : Acquire(j)
      \/ vars' = vars
      => memory' = memory
    BY DEF Pass, Start, Tick, EditSite, DeleteSite, Acquire, vars
<1>10. \/ \E r \in Refreshers, s \in Sites, named \in SUBSET Providers : Refresh(r, s, named)
       \/ \E r \in Refreshers, p \in Providers : RefreshNext(r, p)
       \/ \E r \in Refreshers : RefreshEnd(r)
       => memory' = memory
    BY DEF Refresh, RefreshNext, RefreshEnd
<1> QED
    BY <1>3, <1>4, <1>5, <1>6, <1>7, <1>8, <1>9, <1>10 DEF Next

LEMMA MemoryStep ==
    ASSUME IInv, [Next]_vars, Typed', Later
    PROVE  /\ MemoryInv'
           /\ \A k \in Keys : Exists(k)' /\ memory'[k] # None => HasRow(k, memory[k])'
<1>1. Typed
    BY TypeIs DEF IInv
<1>2. ASSUME NEW k \in Keys, memory'[k] # None
      PROVE  /\ Timely(memory[k])'
             /\ Exists(k)' => HasRow(k, memory[k])'
  <2>1. CASE memory'[k] = memory[k]
    <3>1. memory[k] \in Fetched /\ Timely(memory[k])
        BY <1>1, <1>2, <2>1 DEF IInv, MemoryInv, Typed
    <3>2. memory[k].at <= memory[k].real /\ memory[k].real <= now'
        BY <1>1, <3>1, TimelyLater
    <3>3. Exists(k)' => HasRow(k, memory[k])
        BY <1>2, <2>1 DEF IInv, SuccessIsBacked, Later
    <3>4. ASSUME Exists(k)' PROVE HasRow(k, memory[k])'
        BY <2>1, <3>3, <3>4 DEF Later, HasRow
    <3> QED
        BY <2>1, <3>2, <3>4 DEF Timely
  <2>2. CASE /\ memory'[k] \in Fetched /\ Timely(memory'[k]) /\ Backed(k, memory'[k])
             /\ site' = site /\ rows' = rows
    <3>1. Timely(memory[k])'
        BY <1>1, <2>2 DEF Timely, Later, Typed, Fetched
    <3> QED
        BY <2>2, <3>1 DEF Backed, Exists, HasRow
  <2> QED
      BY <1>2, <2>1, <2>2, MemoryFrom
<1> QED
    BY <1>2 DEF MemoryInv

LEMMA RowsStep ==
    ASSUME IInv, [Next]_vars, Typed', Later
    PROVE  RowsInv'
<1>1. Typed
    BY TypeIs DEF IInv
<1>2. ASSUME NEW row \in rows' PROVE Timely(row.data)'
  <2>1. CASE row \in rows
    <3>1. row.data \in Fetched /\ Timely(row.data)
        BY <1>1, <2>1 DEF Typed, Row, IInv, RowsInv
    <3> QED
        BY <1>1, <3>1, TimelyLater DEF Timely
  <2>2. ASSUME NEW t \in Threads, Save(t), row \notin rows PROVE Timely(row.data)'
    <3>1. row.data = local[t].data
        BY <1>2, <2>2 DEF Save
    <3>2. local[t].data \in Fetched /\ Timely(local[t].data)
        BY <2>2, Holding DEF Save, Fetching
    <3> QED
        BY <1>1, <3>1, <3>2, TimelyLater DEF Timely
  <2>3. (\E t \in Threads : FetchStep(t)) =>
            rows' = rows \/ \E t \in Threads : Save(t)
      BY DEF FetchStep, Attempt, Fetch, Success, Publish, Fail, tables
  <2>4. /\ Pass \/ Start \/ Stop \/ Tick \/ vars' = vars => rows' = rows
        /\ WarmStep => rows' = rows
        /\ (\E j \in Keys : Acquire(j)) => rows' = rows
        /\ (\E s \in Sites, providers \in SUBSET Providers : EditSite(s, providers))
              => rows' = rows
        /\ (\E s \in Sites : DeleteSite(s)) => rows' \subseteq rows
    <3>1. Pass \/ Start \/ Stop \/ Tick \/ vars' = vars => rows' = rows
        BY DEF Pass, Start, Stop, Tick, vars, tables
    <3>2. WarmStep => rows' = rows
        BY DEF WarmStep, WarmSite, WarmRead, WarmPublish, WarmDone, tables
    <3>3. \A j \in Keys : Acquire(j) => rows' = rows
        BY DEF Acquire, tables
    <3>4. \A s \in Sites, providers \in SUBSET Providers :
              EditSite(s, providers) => rows' = rows
        BY DEF EditSite
    <3>5. \A s \in Sites : DeleteSite(s) => rows' \subseteq rows
        BY DEF DeleteSite
    <3> QED
        BY <3>1, <3>2, <3>3, <3>4, <3>5
  <2>5. \/ \E r \in Refreshers, s \in Sites, named \in SUBSET Providers : Refresh(r, s, named)
        \/ \E r \in Refreshers, p \in Providers : RefreshNext(r, p)
        \/ \E r \in Refreshers : RefreshEnd(r)
        => rows' = rows
      BY DEF Refresh, RefreshNext, RefreshEnd, tables
  <2> QED
      BY <1>2, <2>1, <2>2, <2>3, <2>4, <2>5 DEF Next
<1> QED
    BY <1>2 DEF RowsInv

(* warmCache holds a row it has read, until its site is deleted. *)
LEMMA WarmStepKeeps ==
    ASSUME IInv, [Next]_vars, Typed', Later
    PROVE  WarmInv'
<1>1. Typed
    BY TypeIs DEF IInv
<1>2. CASE warm' = warm
  <2> SUFFICES ASSUME warm.key # None
               PROVE  /\ warm.data \in Fetched
                      /\ warm.data.at <= warm.data.real /\ warm.data.real <= now'
                      /\ Exists(warm.key)' => HasRow(warm.key, warm.data)'
      BY <1>2 DEF WarmInv, Timely, Backed, Exists, HasRow
  <2>1. /\ warm.data \in Fetched /\ Timely(warm.data) /\ Backed(warm.key, warm.data)
        /\ warm.key \in Keys
      BY <1>1 DEF IInv, WarmInv, Typed, Warming
  <2>2. warm.data.at <= warm.data.real /\ warm.data.real <= now'
      BY <1>1, <2>1, TimelyLater
  <2>3. PICK k \in Keys, data \in Fetched : k = warm.key /\ data = warm.data
      BY <2>1
  <2>4. Exists(k)' => HasRow(k, data)'
      BY <2>1, <2>3 DEF Backed, Later
  <2> QED
      BY <1>2, <2>1, <2>2, <2>3, <2>4 DEF Exists, HasRow
<1>3. CASE warm'.key = None
    BY <1>3 DEF WarmInv
<1>4. ASSUME NEW k \in Keys, NEW row \in Latest(k),
             warm' = [warm EXCEPT !.todo = @ \ {k}, !.key = k, !.data = row.data],
             now' = now, rows' = rows
      PROVE  WarmInv'
  <2>1. row \in rows /\ row.key = k /\ row \in Row
      BY <1>1 DEF Latest, Typed
  <2>2. row = [key |-> k, data |-> row.data] /\ row.data \in Fetched
      BY <2>1 DEF Row
  <2>3. Timely(row.data)
      BY <2>1 DEF IInv, RowsInv
  <2>4. warm'.key = k /\ warm'.data = row.data
      BY <1>1, <1>4 DEF Typed, Warming
  <2> QED
      BY <1>4, <2>1, <2>2, <2>3, <2>4 DEF WarmInv, Timely, Backed, HasRow
<1>5. ASSUME NEW k \in Keys, WarmRead(k) PROVE WarmInv'
  <2>1. warm.key = None /\ now' = now /\ rows' = rows
      BY <1>5 DEF WarmRead, tables
  <2>2. CASE warm' = [warm EXCEPT !.todo = @ \ {k}]
      BY <1>1, <1>3, <2>1, <2>2 DEF Typed, Warming
  <2> QED
      BY <1>4, <1>5, <2>1, <2>2 DEF WarmRead
<1>6. CASE WarmPublish
  <2>1. warm'.key = None
      BY <1>1, <1>6 DEF WarmPublish, Typed, Warming
  <2> QED
      BY <1>3, <2>1
<1>7. CASE WarmDone
    BY <1>2, <1>7 DEF WarmDone
<1>8. CASE Start \/ Stop
  <2>1. warm'.key = None
      BY <1>8 DEF Start, Stop, NoWarm
  <2> QED
      BY <1>3, <2>1
<1>9. (\E t \in Threads : FetchStep(t)) => warm' = warm
    BY DEF FetchStep, Attempt, Fetch, Save, Success, Publish, Fail
<1>10. \/ Pass \/ Tick
       \/ \E s \in Sites, providers \in SUBSET Providers : EditSite(s, providers)
       \/ \E s \in Sites : DeleteSite(s)
       \/ \E j \in Keys : Acquire(j)
       \/ vars' = vars
       => warm' = warm
    BY DEF Pass, Tick, EditSite, DeleteSite, Acquire, vars
<1>11. \/ \E r \in Refreshers, s \in Sites, named \in SUBSET Providers : Refresh(r, s, named)
       \/ \E r \in Refreshers, p \in Providers : RefreshNext(r, p)
       \/ \E r \in Refreshers : RefreshEnd(r)
       => warm' = warm
    BY DEF Refresh, RefreshNext, RefreshEnd
<1>12. ASSUME NEW s \in Sites, WarmSite(s) PROVE WarmInv'
  <2>1. warm'.key = None
      BY <1>1, <1>12 DEF WarmSite, Typed, Warming
  <2> QED
      BY <1>3, <2>1
<1> QED
    BY <1>2, <1>5, <1>6, <1>7, <1>8, <1>9, <1>10, <1>11, <1>12 DEF Next, WarmStep

-----------------------------------------------------------------------------
(***************************************************************************)
(* The status table                                                         *)
(***************************************************************************)

(* The two statements about the status of one key. *)
Honest(k) ==
    /\ Failures(k) <= failed[k]
    /\ Exists(k) /\ status[k] # None /\ status[k].success # None =>
          \E row \in rows : row.key = k /\ row.data.at = status[k].success

LEMMA HonestNow ==
    ASSUME IInv, NEW k \in Keys
    PROVE  Honest(k)
BY DEF IInv, Honest, SuccessIsBacked, FailuresAreReal

(* A time of success that is kept stays backed. *)
LEMMA SuccessKept ==
    ASSUME IInv, Typed', Later, NEW k \in Keys,
           Exists(k)', status[k] # None, status[k].success # None
    PROVE  \E row \in rows' : row.key = k /\ row.data.at = status[k].success
<1>1. Exists(k)
    BY DEF Later
<1>2. PICK row \in rows : row.key = k /\ row.data.at = status[k].success
    BY <1>1, HonestNow DEF Honest
<1>3. row = [key |-> k, data |-> row.data]
    BY <1>2, TypeIs DEF IInv, Typed, Row
<1>4. HasRow(k, row.data)'
    BY <1>2, <1>3 DEF Later, HasRow
<1> QED
    BY <1>2, <1>3, <1>4 DEF HasRow

LEMMA HonestSame ==
    ASSUME IInv, Typed', Later, NEW k \in Keys,
           status'[k] = status[k] \/ status'[k] = None
    PROVE  Honest(k)'
<1>1. Typed /\ Failures(k) \in Nat /\ Failures(k) <= failed[k]
    BY TypeIs, FailuresType, HonestNow DEF IInv, Honest
<1>2. /\ failed[k] <= failed'[k] /\ failed[k] \in Nat /\ failed'[k] \in Nat
    BY <1>1 DEF Later, Typed
<1>3. CASE status'[k] = None
    BY <1>2, <1>3 DEF Honest, Failures
<1>4. CASE status'[k] = status[k]
  <2>1. Failures(k)' = Failures(k)
      BY <1>4 DEF Failures
  <2>2. Failures(k)' <= failed'[k]
      BY <1>1, <1>2, <2>1
  <2>3. Exists(k)' /\ status[k] # None /\ status[k].success # None =>
            \E row \in rows' : row.key = k /\ row.data.at = status[k].success
      BY SuccessKept
  <2> QED
      BY <1>4, <2>2, <2>3 DEF Honest
<1> QED
    BY <1>3, <1>4

LEMMA HonestUpsert ==
    ASSUME IInv, Typed', Later, NEW j \in Keys, NEW at \in Nat,
           NEW success \in Nat \cup {None}, NEW failures \in Nat,
           Upsert(j, at, success, failures), failures <= failed'[j],
           success # None /\ Exists(j)' =>
              \E row \in rows' : row.key = j /\ row.data.at = success,
           NEW k \in Keys
    PROVE  Honest(k)'
<1>1. CASE status' = status
    BY <1>1, HonestSame
<1>2. ASSUME status' # status PROVE Honest(k)'
  <2>1. PICK old : old = IF status[j] = None THEN None ELSE status[j].success
      OBVIOUS
  <2>2. PICK next : next = [attempt |-> at,
                            success |-> IF success = None THEN old ELSE success,
                            failures |-> failures]
      OBVIOUS
  <2>3. status' = [status EXCEPT ![j] = next]
      BY <1>2, <2>1, <2>2 DEF Upsert
  <2>4. CASE k # j
      BY <2>3, <2>4, HonestSame, TypeIs DEF IInv, Typed
  <2>5. CASE k = j
    <3>1. status'[k] = next
        BY <2>3, <2>5, TypeIs DEF IInv, Typed
    <3>2. next.failures = failures /\ next.success = IF success = None THEN old ELSE success
        BY <2>2
    <3>3. failed'[k] \in Nat
        BY DEF Typed
    <3>4. Failures(k)' <= failed'[k]
        BY <2>5, <3>1, <3>2, <3>3 DEF Failures
    <3>5. ASSUME Exists(k)', next.success # None
          PROVE  \E row \in rows' : row.key = k /\ row.data.at = next.success
      <4>1. CASE success # None
          BY <2>5, <3>2, <3>5, <4>1
      <4>2. CASE success = None
          BY <2>1, <2>5, <3>2, <3>5, <4>2, SuccessKept
      <4> QED
          BY <4>1, <4>2
    <3> QED
        BY <3>1, <3>4, <3>5 DEF Honest
  <2> QED
      BY <2>4, <2>5
<1> QED
    BY <1>1, <1>2

LEMMA HonestFetchStep ==
    ASSUME IInv, Typed', Later, NEW t \in Threads, FetchStep(t),
           NEW k \in Keys
    PROVE  Honest(k)'
<1>1. Typed /\ TypeOK
    BY TypeIs DEF IInv
<1>2. local[t].pc \in Working
    BY DEF FetchStep, Attempt, Fetch, Save, Success, Publish, Fail, Working
<1>3. /\ local[t].key \in Keys /\ local[t].prev \in Nat /\ local[t].at \in Nat
      /\ local[t].prev <= failed[local[t].key]
    BY <1>2, WorkingThread DEF IInv, CountInv
<1>4. failed[local[t].key] <= failed'[local[t].key]
      /\ failed[local[t].key] \in Nat /\ failed'[local[t].key] \in Nat
    BY <1>1, <1>3 DEF Later, Typed
<1>5. CASE Attempt(t)
  <2>1. local[t].prev <= failed'[local[t].key]
      BY <1>3, <1>4
  <2>2. Upsert(local[t].key, local[t].at, None, local[t].prev)
      BY <1>5 DEF Attempt
  <2> QED
      BY <1>3, <2>1, <2>2, HonestUpsert
<1>6. ASSUME NEW list \in Lists \cup {None}, Fetch(t, list) PROVE Honest(k)'
    BY <1>6, HonestSame DEF Fetch, tables
<1>7. CASE Save(t)
    BY <1>7, HonestSame DEF Save
<1>8. CASE Success(t)
  <2>1. local[t].pc = "success" /\ site' = site /\ rows' = rows
      BY <1>8 DEF Success
  <2>2. local[t].data.at = local[t].at /\ Backed(local[t].key, local[t].data)
      BY <2>1, Holding DEF Fetching, Saved
  <2>3. ASSUME Exists(local[t].key)
        PROVE  \E row \in rows : row.key = local[t].key /\ row.data.at = local[t].at
      BY <2>2, <2>3 DEF Backed, HasRow
  <2>4. PICK j \in Keys : j = local[t].key
      BY <1>3
  <2>5. Exists(j)' => \E row \in rows' : row.key = j /\ row.data.at = local[t].at
      BY <2>1, <2>3, <2>4 DEF Exists
  <2>6. Upsert(j, local[t].at, local[t].at, 0)
      BY <1>8, <2>4 DEF Success
  <2>7. 0 <= failed'[j]
      BY <1>4, <2>4
  <2> QED
      BY <1>3, <2>5, <2>6, <2>7, HonestUpsert
<1>9. CASE Publish(t)
    BY <1>9, HonestSame DEF Publish, tables
<1>10. CASE Fail(t)
  <2>1. failed' = [failed EXCEPT ![local[t].key] = @ + 1]
      BY <1>10 DEF Fail
  <2>2. local[t].prev + 1 <= failed'[local[t].key] /\ local[t].prev + 1 \in Nat
      BY <1>1, <1>3, <1>4, <2>1 DEF Typed
  <2>3. Upsert(local[t].key, local[t].at, None, local[t].prev + 1)
      BY <1>10 DEF Fail
  <2> QED
      BY <1>3, <2>2, <2>3, HonestUpsert
<1> QED
    BY <1>5, <1>6, <1>7, <1>8, <1>9, <1>10 DEF FetchStep

LEMMA StatusStep ==
    ASSUME IInv, [Next]_vars, Typed', Later, NEW k \in Keys
    PROVE  Honest(k)'
<1> USE DEF tables
<1>1. CASE status' = status
    BY <1>1, HonestSame
<1>2. ASSUME NEW s \in Sites, DeleteSite(s) PROVE Honest(k)'
    BY <1>2, HonestSame DEF DeleteSite
<1>3. ASSUME NEW t \in Threads, FetchStep(t) PROVE Honest(k)'
    BY <1>3, HonestFetchStep
<1>4. Pass \/ Start \/ Stop \/ Tick \/ vars' = vars => status' = status
    BY DEF Pass, Start, Stop, Tick, vars
<1>5. WarmStep => status' = status
    BY DEF WarmStep, WarmSite, WarmRead, WarmPublish, WarmDone
<1>6. \A j \in Keys : Acquire(j) => status' = status
    BY DEF Acquire
<1>7. \A s \in Sites, providers \in SUBSET Providers :
          EditSite(s, providers) => status' = status
    BY DEF EditSite
<1>8. \A r \in Refreshers :
          /\ \A s \in Sites, named \in SUBSET Providers :
                Refresh(r, s, named) => status' = status
          /\ \A p \in Providers : RefreshNext(r, p) => status' = status
          /\ RefreshEnd(r) => status' = status
    BY DEF Refresh, RefreshNext, RefreshEnd
<1> QED
    BY <1>1, <1>2, <1>3, <1>4, <1>5, <1>6, <1>7, <1>8 DEF Next

-----------------------------------------------------------------------------
(***************************************************************************)
(* Theorems                                                                 *)
(***************************************************************************)
LEMMA IInvInit == Init => IInv
<1> SUFFICES ASSUME Init PROVE IInv
    OBVIOUS
<1>1. TypeOK
    BY TypeInit
<1>2. \A t \in Threads : local[t].pc = "idle" /\ local[t].at = 0
    BY DEF Init, Idle
<1>3. ThreadInv /\ SavedInv /\ CountInv
    BY <1>2, ThreadsApart
    DEF ThreadInv, SavedInv, CountInv, Working, Fetching, Saved, Threads, Init
<1>4. MemoryInv /\ RowsInv /\ WarmInv /\ SuccessIsBacked /\ FailuresAreReal
    BY DEF Init, MemoryInv, RowsInv, WarmInv, NoWarm, SuccessIsBacked, FailuresAreReal, Failures
<1>5. Busy = {}
    BY <1>2 DEF Busy, Working, Threads
<1>6. SlotInv
    BY <1>5, FS_EmptySet DEF SlotInv, Init
<1> QED
    BY <1>1, <1>3, <1>4, <1>6 DEF IInv

LEMMA IInvStep == IInv /\ [Next]_vars => IInv'
<1> SUFFICES ASSUME IInv, [Next]_vars PROVE IInv'
    OBVIOUS
<1>1. TypeOK'
    BY TypeStep
<1>2. Typed'
    BY <1>1 DEF TypeOK, Typed, Warming, Local, Requested, Used
<1>3. Later
    BY LaterStep
<1>4. SlotInv'
    BY SlotStep DEF SlotsKept
<1>5. ThreadInv' /\ SavedInv' /\ CountInv'
    BY <1>2, <1>3, ThreadStep
<1>6. /\ MemoryInv'
      /\ \A k \in Keys : Exists(k)' /\ memory'[k] # None => HasRow(k, memory[k])'
    BY <1>2, <1>3, MemoryStep
<1>7. RowsInv' /\ WarmInv'
    BY <1>2, <1>3, RowsStep, WarmStepKeeps
<1>8. \A k \in Keys : Honest(k)'
    BY <1>2, <1>3, StatusStep
<1>9. FailuresAreReal'
    BY <1>8 DEF Honest, FailuresAreReal
<1>10. SuccessIsBacked'
    BY <1>6, <1>8 DEF Honest, SuccessIsBacked
<1> QED
    BY <1>1, <1>4, <1>5, <1>6, <1>7, <1>9, <1>10 DEF IInv

(* The inductive invariant: every list on its way into memory is timely and     *)
(* saved, every count read ahead is covered by failed attempts, and the slots    *)
(* taken are the jobs that run.                                                 *)
THEOREM OriginsInvariance == Spec => []IInv
BY IInvInit, IInvStep, PTL DEF Spec

(* Types, and never more jobs in flight than slots (MaxConcurrency).             *)
THEOREM OriginsTypeCorrect == Spec => []TypeOK
BY OriginsInvariance, PTL DEF IInv

(* As long as a site exists, what the gateway uses and what the status reports    *)
(* is in the table a restart reads (runJob, siteCDNOriginRefresh, warmCache).     *)
THEOREM SuccessBacked == Spec => []SuccessIsBacked
BY OriginsInvariance, PTL DEF IInv

(* consecutive_failures counts attempts that failed, however a job and a refresh  *)
(* write back what they read before.                                             *)
THEOREM FailuresCounted == Spec => []FailuresAreReal
BY OriginsInvariance, PTL DEF IInv

(* IsIPAllowedBySiteProviders admits only by answers of providers that are not   *)
(* older than the permitted staleness.                                           *)
THEOREM FreshLists == Spec => []FreshWhenUsed
<1>1. IInv => FreshWhenUsed
  <2> SUFFICES ASSUME IInv, NEW k \in Keys, InUse(k)
               PROVE  now - memory[k].real <= MaxStaleness
      BY DEF FreshWhenUsed
  <2>1. memory[k] \in Fetched /\ Timely(memory[k]) /\ now \in Nat
      BY TypeIs DEF InUse, IInv, MemoryInv, Typed
  <2>2. memory[k].at \in Nat /\ memory[k].real \in Nat /\ MaxStaleness \in Nat
      BY <2>1, OriginsAssumption DEF Fetched, OriginsAssumption
  <2> QED
      BY <2>1, <2>2 DEF InUse, Timely
<1> QED
    BY <1>1, OriginsInvariance, PTL

-----------------------------------------------------------------------------
(***************************************************************************)
(* The schedule                                                             *)
(***************************************************************************)

(* The operators of the community modules, on two numbers. *)
LEMMA MaxOfTwo ==
    ASSUME NEW x \in Int
    PROVE  Max({1, x}) \in Int /\ x <= Max({1, x}) /\ 1 <= Max({1, x})
           /\ Max({1, x}) \in {1, x}
<1>1. \E m \in {1, x} : \A y \in {1, x} : m >= y
  <2>1. CASE x >= 1
      BY <2>1
  <2>2. CASE 1 >= x
      BY <2>2
  <2> QED
      BY <2>1, <2>2
<1>2. Max({1, x}) \in {1, x} /\ \A y \in {1, x} : Max({1, x}) >= y
    BY <1>1 DEF Max
<1> QED
    BY <1>2

LEMMA MinOfTwo ==
    ASSUME NEW x \in Int, NEW y \in Int
    PROVE  Min({x, y}) \in Int /\ Min({x, y}) <= x
<1>1. \E m \in {x, y} : \A z \in {x, y} : m <= z
  <2>1. CASE x <= y
      BY <2>1
  <2>2. CASE y <= x
      BY <2>2
  <2> QED
      BY <2>1, <2>2
<1>2. Min({x, y}) \in {x, y} /\ \A z \in {x, y} : Min({x, y}) <= z
    BY <1>1 DEF Min
<1> QED
    BY <1>2

(* A jittered delay is a number, and has a largest value. *)
LEMMA JitteredInt ==
    ASSUME NEW d
    PROVE  Jittered(d) \subseteq Int
<1> DEFINE offset == (d * JitterPermille) \div 1000
<1>1. Jittered(d) = {Max({1, x}) : x \in (d - offset)..(d + offset)}
    BY DEF Jittered
<1> HIDE DEF offset
<1>2. \A x \in (d - offset)..(d + offset) : Max({1, x}) \in Int
    BY MaxOfTwo
<1> QED
    BY <1>1, <1>2

LEMMA JitteredMax ==
    ASSUME NEW d \in Nat
    PROVE  \A x \in Jittered(d) : x <= Max(Jittered(d))
<1>1. PICK offset : offset = (d * JitterPermille) \div 1000
    OBVIOUS
<1>2. offset \in Nat
  <2>1. JitterPermille \in Nat
      BY OriginsAssumption DEF OriginsAssumption
  <2>2. d * JitterPermille \in Nat
      BY <2>1
  <2> QED
      BY <1>1, <2>2
<1>3. Jittered(d) = {Max({1, x}) : x \in (d - offset)..(d + offset)}
    BY <1>1 DEF Jittered
<1>4. PICK top : top = Max({1, d + offset})
    OBVIOUS
<1>5. d + offset \in (d - offset)..(d + offset)
    BY <1>2
<1>6. top \in Jittered(d)
    BY <1>3, <1>4, <1>5
<1>7. ASSUME NEW y \in Jittered(d) PROVE top >= y
  <2>1. PICK x \in (d - offset)..(d + offset) : y = Max({1, x})
      BY <1>3
  <2>2. x \in Int /\ d + offset \in Int /\ x <= d + offset
      BY <1>2
  <2> QED
      BY <1>4, <2>1, <2>2, MaxOfTwo
<1>8. Max(Jittered(d)) \in Jittered(d) /\ \A y \in Jittered(d) : Max(Jittered(d)) >= y
    BY <1>6, <1>7 DEF Max
<1> QED
    BY <1>8, JitteredInt

(* No delay is longer than a jittered refresh interval. *)
LEMMA DelaysBounded ==
    ASSUME NEW f \in Nat, NEW delay \in NextDelays(f)
    PROVE  delay \in Int /\ delay <= Max(Jittered(Interval)) /\ Max(Jittered(Interval)) \in Int
<1>1. Interval \in Nat
    BY OriginsAssumption DEF OriginsAssumption
<1>2. \A x \in Jittered(Interval) : x <= Max(Jittered(Interval))
    BY <1>1, JitteredMax
<1>3. \E x \in Jittered(Interval) : delay \in Int /\ delay <= x
  <2>1. CASE f = 0
      BY <2>1, JitteredInt DEF NextDelays
  <2>2. CASE f # 0
    <3>1. PICK d \in Jittered(Interval) \X Jittered(Backoff(f)) : delay = Min({d[1], d[2]})
        BY <2>2 DEF NextDelays
    <3>2. d[1] \in Jittered(Interval) /\ d[2] \in Jittered(Backoff(f))
        OBVIOUS
    <3>3. d[1] \in Int /\ d[2] \in Int
        BY <3>2, JitteredInt
    <3> QED
        BY <3>1, <3>2, <3>3, MinOfTwo
  <2> QED
      BY <2>1, <2>2
<1>4. Max(Jittered(Interval)) \in Jittered(Interval)
    BY <1>1, <1>3, JitteredMax, JitteredInt DEF Max
<1> QED
    BY <1>2, <1>3, <1>4, JitteredInt

(* The queue of a job is entered by tick only. *)
LEMMA QueuedByTick ==
    ASSUME IInv, [Next]_vars, ~Tick, NEW k \in Keys, local[k].pc = "idle"
    PROVE  local'[k].pc # "queued"
<1>1. Typed /\ k \in Threads /\ k \notin Refreshers
    BY TypeIs, ThreadsApart DEF IInv, Threads
<1>2. ASSUME NEW t \in Threads, t # k, NEW pc, Goto(t, pc) PROVE local'[k] = local[k]
    BY <1>1, <1>2 DEF Goto, Typed
<1>3. local' = local => local'[k].pc # "queued"
    OBVIOUS
<1>4. Pass \/ Start \/ vars' = vars => local' = local
    BY DEF Pass, Start, vars
<1>5. Stop => local'[k].pc # "queued"
    BY <1>1 DEF Stop, Idle
<1>6. /\ WarmStep => local' = local
      /\ \A s \in Sites, providers \in SUBSET Providers : EditSite(s, providers) => local' = local
      /\ \A s \in Sites : DeleteSite(s) => local' = local
    BY DEF WarmStep, WarmSite, WarmRead, WarmPublish, WarmDone, EditSite, DeleteSite
<1>7. ASSUME NEW j \in Keys, Acquire(j) PROVE local'[k].pc # "queued"
    BY <1>1, <1>2, <1>7 DEF Acquire, Threads
<1>8. ASSUME NEW r \in Refreshers
      PROVE  /\ \A s \in Sites, named \in SUBSET Providers :
                   Refresh(r, s, named) => local'[k] = local[k]
             /\ \A p \in Providers : RefreshNext(r, p) => local'[k] = local[k]
             /\ RefreshEnd(r) => local'[k] = local[k]
  <2>1. r \in Threads /\ r # k
      BY <1>1 DEF Threads
  <2> QED
      BY <1>1, <1>2, <2>1 DEF Refresh, RefreshNext, RefreshEnd, Typed
<1>9. ASSUME NEW t \in Threads, FetchStep(t) PROVE local'[k].pc # "queued"
  <2>1. t # k
      BY <1>9 DEF FetchStep, Attempt, Fetch, Save, Success, Publish, Fail
  <2>2. CASE Attempt(t) \/ Save(t) \/ Success(t)
      BY <1>2, <2>1, <2>2 DEF Attempt, Save, Success
  <2>3. ASSUME NEW list \in Lists \cup {None}, Fetch(t, list) PROVE local'[k] = local[k]
      BY <1>1, <2>1, <2>3 DEF Fetch, Typed
  <2>4. CASE Publish(t) \/ Fail(t)
    <3>1. Done(t)
        BY <2>4 DEF Publish, Fail
    <3> QED
        BY <1>1, <2>1, <3>1 DEF Done, Typed
  <2> QED
      BY <1>9, <2>2, <2>3, <2>4 DEF FetchStep
<1> QED
    BY <1>3, <1>4, <1>5, <1>6, <1>7, <1>8, <1>9 DEF Next

(* isDue: a tick that queues a job of a site leaves out none of its providers     *)
(* whose last attempt is a jittered refresh interval ago, whatever the backoff.    *)
THEOREM RetriesInTime == Spec => RetriedInTime
<1> DEFINE InTime ==
       \A j \in Keys, k \in Configured :
         /\ j[1] = k[1]
         /\ local[j].pc = "idle" /\ local'[j].pc = "queued"
         /\ status[k] = None \/ now - status[k].attempt >= Max(Jittered(Interval))
         => local'[k].pc = "queued"
<1>1. ASSUME IInv, [Next]_vars PROVE InTime
  <2> SUFFICES ASSUME NEW j \in Keys, NEW k \in Configured, j[1] = k[1],
                      local[j].pc = "idle", local'[j].pc = "queued",
                      status[k] = None \/ now - status[k].attempt >= Max(Jittered(Interval))
               PROVE  local'[k].pc = "queued"
      OBVIOUS
  <2>1. Tick
      BY <1>1, QueuedByTick
  <2>2. PICK jobs \in SUBSET Configured :
          /\ jobs # {}
          /\ \A c \in {c \in Configured : \E i \in jobs : i[1] = c[1]} :
                IF c \in jobs THEN \E delay \in NextDelays(Failures(c)) : Due(c, delay)
                ELSE \E delay \in NextDelays(Failures(c)) : ~Due(c, delay)
          /\ local' = [t \in Threads |->
                IF t \in jobs
                THEN [Idle EXCEPT !.pc = "queued", !.key = t, !.prev = Failures(t), !.at = now]
                ELSE local[t]]
      BY <2>1 DEF Tick
  <2>3. k \in Keys /\ k \in Threads /\ j \in Threads
      BY DEF Configured, Threads
  <2>4. j \in jobs
      BY <2>2, <2>3
  <2>5. CASE k \in jobs
      BY <2>2, <2>3, <2>5 DEF Idle
  <2>6. CASE k \notin jobs
    <3>1. PICK delay \in NextDelays(Failures(k)) : ~Due(k, delay)
        BY <2>2, <2>4, <2>6
    <3>2. Failures(k) \in Nat
        BY <1>1, <2>3, FailuresType DEF IInv
    <3>3. /\ delay \in Int /\ delay <= Max(Jittered(Interval))
          /\ Max(Jittered(Interval)) \in Int
        BY <3>1, <3>2, DelaysBounded
    <3>4. status[k] # None /\ ~(now - status[k].attempt >= delay)
        BY <3>1 DEF Due
    <3>5. now \in Nat /\ status[k].attempt \in Nat
        BY <1>1, <2>3, <3>4 DEF IInv, TypeOK, Status
    <3>6. now - status[k].attempt \in Int
        BY <3>5
    <3> QED
        BY <3>3, <3>4, <3>6
  <2> QED
      BY <2>5, <2>6
<1> QED
    BY <1>1, OriginsInvariance, PTL DEF Spec, RetriedInTime

=============================================================================
