----------------------------- MODULE ConfigManager -----------------------------
(***************************************************************************)
(* The configuration manager and everyone who changes the live snapshot:   *)
(* the admin handlers (config, rollbackConfig, cdnConfig, reload), the file *)
(* watcher, the global CDN synchronisation, and the start of the process.   *)
(*                                                                         *)
(* Manager.Apply is not one atomic step: it copies the provider lists under *)
(* the mutex, compiles outside it, and stores the result with an atomic     *)
(* pointer.  Each caller is a thread whose program counter says which of    *)
(* these points it has reached; steps of different threads interleave.      *)
(***************************************************************************)
EXTENDS ConfigSnapshot, Integers, Sequences

CONSTANTS
    Handlers,       \* admin requests in flight
    Watcher,        \* the goroutine of config.Watcher
    Docs,           \* documents sent by PUT or written to the file
    SyncPayloads,   \* bodies of PUT /api/v1/cdn/config
    FetchResults,   \* lists a provider's API may return
    Unparsable,     \* a configuration file json.Unmarshal refuses
    None,           \* no document
    MaxEdits,       \* bound on edits of the file
    MaxVersions     \* bound on saved versions

ASSUME ManagerAssumption ==
    /\ Docs \subseteq Config
    /\ SyncPayloads \subseteq SUBSET Providers
    /\ FetchResults \subseteq SUBSET CIDRs
    /\ NoSnapshot \notin Snapshot
    /\ Unparsable \notin Config
    /\ None \notin Config
    /\ MaxEdits \in Nat
    /\ MaxVersions \in Nat
    /\ Watcher \notin Handlers
    /\ Providers \cap (Handlers \cup {Watcher}) = {}

VARIABLES
    data,           \* Manager.data
    cdnStatuses,    \* Manager.cdnStatuses, guarded by Manager.mu
    dynamicCIDRs,   \* Manager.dynamicCIDRs, guarded by Manager.mu
    file,           \* content of the configuration file
    mtime,          \* its modification time
    lastMod,        \* Watcher.lastMod
    versions,       \* table config_versions
    audits,         \* audit records of configuration changes: the versions they name
    phase,          \* how far main.run has come
    thread,         \* local state of every thread
    loaded,         \* history: the file content last applied at start or by the watcher
    startMod        \* history: the modification time the watcher started from

vars == <<data, cdnStatuses, dynamicCIDRs, file, mtime, lastMod, versions, audits,
          phase, thread, loaded, startMod>>

Threads == Handlers \cup Providers \cup {Watcher}

Ops == {"none", "put", "rollback", "cdn", "reload", "watch", "sync"}

PCs == {"idle", "fetch", "read", "load", "copy", "store", "save", "audit"}

Local == [pc : PCs, op : Ops, cfg : Config \cup {None}, dynamic : SUBSET CIDRs,
          statuses : Statuses, mod : Nat, version : Nat]

Idle == [pc |-> "idle", op |-> "none", cfg |-> None, dynamic |-> {},
         statuses |-> NoStatuses, mod |-> 0, version |-> 0]

Become(t, local) == thread' = [thread EXCEPT ![t] = local]

Goto(t, pc) == thread' = [thread EXCEPT ![t].pc = pc]

(* Thread t holds document cfg and enters Apply. *)
CallApply(t, op, cfg) ==
    Become(t, [Idle EXCEPT !.pc = "copy", !.op = op, !.cfg = cfg, !.mod = thread[t].mod])

history == <<loaded, startMod>>
disk    == <<file, mtime, versions, audits>>
manager == <<data, cdnStatuses, dynamicCIDRs>>

-----------------------------------------------------------------------------
Init ==
    /\ data = NoSnapshot
    /\ cdnStatuses = NoStatuses
    /\ dynamicCIDRs = {}
    /\ file \in Docs
    /\ mtime = 0
    /\ lastMod = 0
    /\ versions = <<>>
    /\ audits = {}
    /\ phase = "down"
    /\ thread = [t \in Threads |-> Idle]
    /\ loaded = None
    /\ startMod = 0

(***************************************************************************)
(* Start and end of the process.  NewManager and main.run load the file,    *)
(* apply the environment twice and store the first snapshot before any      *)
(* other goroutine exists; the CDN syncer is started next; the watcher       *)
(* takes its first modification time later, once the database is open.       *)
(***************************************************************************)
Boot ==
    /\ phase = "down"
    /\ file # Unparsable
    /\ LET cfg == ApplyEnvOverrides(Prepare(ApplyEnvOverrides(file))) IN
           /\ Applies(ApplyEnvOverrides(file), {}, NoStatuses)
           /\ Applies(cfg, {}, NoStatuses)
           /\ data' = Build(Prepare(cfg), {}, NoStatuses)
    /\ loaded' = file
    /\ phase' = "loaded"
    /\ UNCHANGED <<cdnStatuses, dynamicCIDRs, disk, lastMod, thread, startMod>>

(* NewWatcher and the listeners. *)
StartWatcher ==
    /\ phase = "loaded"
    /\ phase' = "running"
    /\ lastMod' = mtime
    /\ startMod' = mtime
    /\ UNCHANGED <<manager, disk, thread, loaded>>

(* The process stops at any point; what is in memory is lost. *)
Stop ==
    /\ phase # "down"
    /\ phase' = "down"
    /\ data' = NoSnapshot
    /\ cdnStatuses' = NoStatuses
    /\ dynamicCIDRs' = {}
    /\ lastMod' = 0
    /\ thread' = [t \in Threads |-> Idle]
    /\ loaded' = None
    /\ startMod' = 0
    /\ UNCHANGED disk

(* An operator saves the configuration file. *)
EditFile(content) ==
    /\ mtime < MaxEdits
    /\ content # file
    /\ file' = content
    /\ mtime' = mtime + 1
    /\ UNCHANGED <<manager, lastMod, versions, audits, phase, thread, history>>

-----------------------------------------------------------------------------
(***************************************************************************)
(* Manager.Apply                                                            *)
(***************************************************************************)

(* The critical section: both lists are copied under one lock. *)
ApplyCopy(t) ==
    /\ thread[t].pc = "copy"
    /\ thread' = [thread EXCEPT ![t].pc = "store",
                                ![t].dynamic = dynamicCIDRs,
                                ![t].statuses = cdnStatuses]
    /\ UNCHANGED <<manager, disk, lastMod, phase, history>>

(* Mutant: the watcher takes the modification time after the reload. *)
AfterStoreStatsLate(t) ==
    /\ IF thread[t].op \in {"put", "rollback"}
       THEN Goto(t, "save")
       ELSE Become(t, Idle)
    /\ IF thread[t].op = "watch"
       THEN lastMod' = mtime /\ loaded' = thread[t].cfg
       ELSE UNCHANGED <<lastMod, loaded>>

(* What the caller does when Apply has stored the snapshot: PUT and rollback   *)
(* go on to save a version, the watcher remembers the time it had read.        *)
AfterStore(t) ==
    /\ IF thread[t].op \in {"put", "rollback"}
       THEN Goto(t, "save")
       ELSE Become(t, Idle)
    /\ IF thread[t].op = "watch"
       THEN lastMod' = thread[t].mod /\ loaded' = thread[t].cfg
       ELSE UNCHANGED <<lastMod, loaded>>

(* Mutant: the version is saved although Apply returned an error. *)
ApplyStoreIgnoresError(t) ==
    /\ thread[t].pc = "store"
    /\ LET local == thread[t] IN
       IF Applies(local.cfg, local.dynamic, local.statuses)
       THEN data' = Build(Prepare(local.cfg), local.dynamic, local.statuses)
       ELSE UNCHANGED data
    /\ AfterStore(t)
    /\ UNCHANGED <<cdnStatuses, dynamicCIDRs, disk, phase, startMod>>

(* Mutant: the whitelist is read from the manager again, outside the lock. *)
ApplyStoreRereads(t) ==
    /\ thread[t].pc = "store"
    /\ LET local == thread[t] IN
       IF Applies(local.cfg, dynamicCIDRs, local.statuses)
       THEN /\ data' = Build(Prepare(local.cfg), dynamicCIDRs, local.statuses)
            /\ AfterStore(t)
       ELSE /\ Become(t, Idle)
            /\ UNCHANGED <<data, lastMod, loaded>>
    /\ UNCHANGED <<cdnStatuses, dynamicCIDRs, disk, phase, startMod>>

(* buildSnapshot and data.Store; an error returns to the caller, which          *)
(* answers 400 or logs it and gives up.                                         *)
ApplyStore(t) ==
    /\ thread[t].pc = "store"
    /\ LET local == thread[t] IN
       IF Applies(local.cfg, local.dynamic, local.statuses)
       THEN /\ data' = Build(Prepare(local.cfg), local.dynamic, local.statuses)
            /\ AfterStore(t)
       ELSE /\ Become(t, Idle)
            /\ UNCHANGED <<data, lastMod, loaded>>
    /\ UNCHANGED <<cdnStatuses, dynamicCIDRs, disk, phase, startMod>>

-----------------------------------------------------------------------------
(***************************************************************************)
(* Admin handlers                                                           *)
(***************************************************************************)
Accepting(h) == phase = "running" /\ thread[h].pc = "idle"

(* PUT /api/v1/config *)
PutConfig(h, doc) ==
    /\ Accepting(h)
    /\ Validates(doc)
    /\ CallApply(h, "put", doc)
    /\ UNCHANGED <<manager, disk, lastMod, phase, history>>

(* POST /api/v1/config/rollback *)
RollbackConfig(h, i) ==
    /\ Accepting(h)
    /\ Validates(versions[i])
    /\ CallApply(h, "rollback", versions[i])
    /\ UNCHANGED <<manager, disk, lastMod, phase, history>>

(* PUT /api/v1/cdn/config: the current document with another cdnSync.  It is   *)
(* neither validated nor saved as a version.                                   *)
CdnConfig(h, payload) ==
    /\ Accepting(h)
    /\ CallApply(h, "cdn", [data.cfg EXCEPT !.sync = payload])
    /\ UNCHANGED <<manager, disk, lastMod, phase, history>>

(* POST /api/v1/reload: the file as it is, without the environment. *)
Reload(h) ==
    /\ Accepting(h)
    /\ file # Unparsable
    /\ CallApply(h, "reload", file)
    /\ UNCHANGED <<manager, disk, lastMod, phase, history>>

(* SaveVersion: the document as it was sent; 500 when the database fails. *)
SaveVersion(h) ==
    /\ thread[h].pc = "save"
    /\ \/ /\ Len(versions) < MaxVersions
          /\ versions' = Append(versions, thread[h].cfg)
          /\ thread' = [thread EXCEPT ![h].pc = "audit",
                                      ![h].version = Len(versions) + 1]
       \/ /\ Become(h, Idle)
          /\ UNCHANGED versions
    /\ UNCHANGED <<manager, file, mtime, audits, lastMod, phase, history>>

(* SaveAudit names the version; its error is ignored. *)
SaveAudit(h) ==
    /\ thread[h].pc = "audit"
    /\ audits' \in {audits, audits \cup {thread[h].version}}
    /\ Become(h, Idle)
    /\ UNCHANGED <<manager, file, mtime, versions, lastMod, phase, history>>

-----------------------------------------------------------------------------
(***************************************************************************)
(* Watcher.tick                                                             *)
(***************************************************************************)

(* Mutant: a change within one unit of time is not noticed. *)
TickStatCoarse ==
    /\ phase = "running"
    /\ thread[Watcher].pc = "idle"
    /\ mtime > lastMod + 1
    /\ Become(Watcher, [Idle EXCEPT !.pc = "load", !.op = "watch", !.mod = mtime])
    /\ UNCHANGED <<manager, disk, lastMod, phase, history>>

(* os.Stat; an unchanged modification time ends the tick. *)
TickStat ==
    /\ phase = "running"
    /\ thread[Watcher].pc = "idle"
    /\ mtime > lastMod
    /\ Become(Watcher, [Idle EXCEPT !.pc = "load", !.op = "watch", !.mod = mtime])
    /\ UNCHANGED <<manager, disk, lastMod, phase, history>>

(* Mutant: the error of loadConfig is dropped. *)
TickLoadUnchecked ==
    /\ thread[Watcher].pc = "load"
    /\ CallApply(Watcher, "watch", file)
    /\ UNCHANGED <<manager, disk, lastMod, phase, history>>

(* loadConfig; on an error lastMod is kept, so that the next tick tries again. *)
TickLoad ==
    /\ thread[Watcher].pc = "load"
    /\ IF file = Unparsable
       THEN Become(Watcher, Idle)
       ELSE CallApply(Watcher, "watch", file)
    /\ UNCHANGED <<manager, disk, lastMod, phase, history>>

-----------------------------------------------------------------------------
(***************************************************************************)
(* syncer.Service                                                           *)
(***************************************************************************)

(* trySync starts one goroutine per provider of the current document and waits *)
(* for all of them, so rounds do not overlap.                                  *)
TrySync ==
    /\ phase # "down"
    /\ data.cfg.sync # {}
    /\ \A p \in Providers : thread[p].pc = "idle"
    /\ thread' = [t \in Threads |->
                    IF t \in data.cfg.sync
                    THEN [Idle EXCEPT !.pc = "fetch", !.op = "sync"]
                    ELSE thread[t]]
    /\ UNCHANGED <<manager, disk, lastMod, phase, history>>

(* The critical section of UpdateProviderStatus; a failed fetch passes an       *)
(* empty list.                                                                 *)
UpdateProviderStatus(p, cidrs) ==
    /\ thread[p].pc = "fetch"
    /\ cdnStatuses' = [cdnStatuses EXCEPT ![p] = cidrs]
    /\ dynamicCIDRs' = AllDynamic(cdnStatuses')
    /\ Goto(p, "read")
    /\ UNCHANGED <<data, disk, lastMod, phase, history>>

(* Mutant: the snapshot is not rebuilt. *)
ReapplyCurrentSkipped(p) ==
    /\ thread[p].pc = "read"
    /\ Become(p, Idle)
    /\ UNCHANGED <<manager, disk, lastMod, phase, history>>

(* Its last line: Apply(CurrentConfig()). *)
ReapplyCurrent(p) ==
    /\ thread[p].pc = "read"
    /\ CallApply(p, "sync", data.cfg)
    /\ UNCHANGED <<manager, disk, lastMod, phase, history>>

-----------------------------------------------------------------------------
AdminStep(h) ==
    \/ \E doc \in Docs : PutConfig(h, doc)
    \/ \E i \in DOMAIN versions : RollbackConfig(h, i)
    \/ \E payload \in SyncPayloads : CdnConfig(h, payload)
    \/ Reload(h)
    \/ SaveVersion(h)
    \/ SaveAudit(h)

SyncStep(p) ==
    \/ \E cidrs \in FetchResults \cup {{}} : UpdateProviderStatus(p, cidrs)
    \/ ReapplyCurrent(p)

ApplyStep(t) == ApplyCopy(t) \/ ApplyStore(t)

Next ==
    \/ Boot
    \/ StartWatcher
    \/ Stop
    \/ \E content \in Docs \cup {Unparsable} : EditFile(content)
    \/ \E h \in Handlers : AdminStep(h)
    \/ TickStat
    \/ TickLoad
    \/ TrySync
    \/ \E p \in Providers : SyncStep(p)
    \/ \E t \in Threads : ApplyStep(t)

Spec == Init /\ [][Next]_vars

(* The watcher's ticker and the syncer's ticker keep firing, a fetch ends at     *)
(* its timeout at the latest, and a goroutine that has entered Apply runs on.    *)
(* Requests, edits and process stops are never forced.                          *)
Fairness ==
    /\ WF_vars(TickStat)
    /\ WF_vars(TickLoad)
    /\ WF_vars(TrySync)
    /\ \A p \in Providers : WF_vars(SyncStep(p))
    /\ \A t \in Threads : WF_vars(ApplyStep(t))

FairSpec == Spec /\ Fairness

-----------------------------------------------------------------------------
(***************************************************************************)
(* Properties                                                               *)
(***************************************************************************)

(* Every variable holds a value of its type. *)
TypeOK ==
    /\ data \in Snapshot \cup {NoSnapshot}
    /\ cdnStatuses \in Statuses
    /\ dynamicCIDRs \in SUBSET CIDRs
    /\ file \in Docs \cup {Unparsable}
    /\ mtime \in Nat
    /\ lastMod \in Nat
    /\ versions \in Seq(Config)
    /\ audits \in SUBSET Nat
    /\ phase \in {"down", "loaded", "running"}
    /\ thread \in [Threads -> Local]
    /\ loaded \in Config \cup {None}
    /\ startMod \in Nat

(* Manager.Apply replaces the snapshot atomically by one compiled from a single  *)
(* document and the provider lists of a single instant, whatever requests,       *)
(* synchronisations, reloads, failures and restarts interleave.                  *)
Swap == INSTANCE ConfigSwap WITH live <- data
SwapSpec == Swap!Spec

(* The history rollback works from: a saved version passes Validate and Apply, so *)
(* that a rollback to it can only be refused because of a provider list, and an   *)
(* audit record names a version that is in the table, also when the process stops *)
(* between Apply, SaveVersion and SaveAudit.                                      *)
HistoryIsSound ==
    /\ \A i \in DOMAIN versions :
          Validates(versions[i]) /\ Applies(versions[i], {}, NoStatuses)
    /\ audits \subseteq DOMAIN versions

(* Watcher.tick never marks an edit since its start as seen without having applied it: once the *)
(* watcher rests at the file's modification time, the content it applied last is *)
(* the content of the file, even if the file changed between Stat and the read.  *)
NoEditMissed ==
    /\ phase = "running"
    /\ thread[Watcher].pc = "idle"
    /\ lastMod = mtime
    /\ mtime > startMod
    => loaded = file

(* UpdateProviderStatus updates the provider's list and rebuilds the snapshot;   *)
(* the document in force is not its business: a step in which a synchronisation  *)
(* stores a snapshot keeps the live document.                                    *)
SyncKeepsConfig ==
    [][\A p \in Providers :
         /\ thread[p].pc = "store"
         /\ thread'[p].pc = "idle"
         /\ data' # NoSnapshot
         => data'.cfg = data.cfg]_vars

(* A hot reload happens: the watcher catches up with the file again and again,   *)
(* unless the file cannot be applied or the process is not running.              *)
EditReachesLive ==
    []<>(\/ phase # "running"
         \/ lastMod = mtime
         \/ file = Unparsable
         \/ ~Applies(file, dynamicCIDRs, cdnStatuses))

(* A snapshot left with outdated provider lists by a racing Apply is repaired by *)
(* a later synchronisation round, unless synchronisation is switched off or the  *)
(* fetched list cannot be compiled.                                              *)
StaleListHeals ==
    []<>(\/ data = NoSnapshot
         \/ data.cdn = cdnStatuses
         \/ data.cfg.sync = {}
         \/ ~Applies(data.cfg, dynamicCIDRs, cdnStatuses))

-----------------------------------------------------------------------------
(***************************************************************************)
(* The inductive invariant behind the safety properties                     *)
(***************************************************************************)

(* There is a snapshot, and a thread at work, only while the process is up. *)
UpInv ==
    /\ phase = "down" <=> data = NoSnapshot
    /\ \A t \in Threads : thread[t].pc # "idle" => phase # "down"

(* A thread inside Apply holds a document; past the critical section it holds   *)
(* two lists of the same instant.                                               *)
ApplyInv ==
    /\ dynamicCIDRs = AllDynamic(cdnStatuses)
    /\ \A t \in Threads :
          /\ thread[t].pc \in {"copy", "store", "save"} => thread[t].cfg \in Config
          /\ thread[t].pc = "store" => thread[t].dynamic = AllDynamic(thread[t].statuses)

(* The document of PUT or rollback passed Validate, and Apply when it is saved. *)
HistoryInv ==
    /\ HistoryIsSound
    /\ \A t \in Threads :
          /\ thread[t].op \in {"put", "rollback"} => Validates(thread[t].cfg)
          /\ thread[t].pc = "save" =>
                /\ thread[t].op \in {"put", "rollback"}
                /\ Applies(thread[t].cfg, {}, NoStatuses)
          /\ thread[t].pc = "audit" => thread[t].version \in DOMAIN versions

(* The watcher never remembers a time later than the file's, and what it holds  *)
(* for the file's own time is the file's content.                               *)
WatchInv ==
    /\ startMod <= mtime
    /\ lastMod <= mtime
    /\ \A t \in Threads :
          /\ thread[t].pc = "load" => thread[t].op = "watch"
          /\ thread[t].op = "watch" => t = Watcher /\ thread[t].mod <= mtime
          /\ /\ thread[t].op = "watch"
             /\ thread[t].pc # "load"
             /\ thread[t].mod = mtime
             => thread[t].cfg = file
    /\ phase = "running" /\ lastMod = mtime /\ mtime > startMod => loaded = file

IInv == TypeOK /\ UpInv /\ ApplyInv /\ HistoryInv /\ WatchInv

=============================================================================
