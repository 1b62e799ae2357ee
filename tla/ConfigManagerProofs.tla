-------------------------- MODULE ConfigManagerProofs --------------------------
(***************************************************************************)
(* Proofs about ConfigManager, for every number of handlers, providers,     *)
(* documents, edits and versions.                                           *)
(***************************************************************************)
EXTENDS ConfigManager, TLAPS

-----------------------------------------------------------------------------
(* Documents and snapshots *)

(* Migrating and overriding a document gives a document. *)
LEMMA ConfigType ==
    ASSUME NEW cfg \in Config
    PROVE  /\ Prepare(cfg) \in Config
           /\ ApplyEnvOverrides(cfg) \in Config
    BY ConstantsAssumption DEF Config, Prepare, ApplyEnvOverrides, Routings

(* No provider list at all is a valid state of the lists. *)
LEMMA NoStatusesType ==
    NoStatuses \in Statuses /\ AllDynamic(NoStatuses) = {}
    BY DEF NoStatuses, Statuses, AllDynamic

(* The flat list consists of CIDR texts. *)
LEMMA DynamicType ==
    ASSUME NEW statuses \in Statuses
    PROVE  AllDynamic(statuses) \in SUBSET CIDRs
    BY DEF Statuses, AllDynamic

(* buildSnapshot returns a snapshot of the document it was given. *)
LEMMA BuildType ==
    ASSUME NEW cfg \in Config, NEW dynamic \in SUBSET CIDRs, NEW statuses \in Statuses
    PROVE  /\ Build(cfg, dynamic, statuses) \in Snapshot
           /\ Build(cfg, dynamic, statuses).cfg = cfg
           /\ Build(cfg, dynamic, statuses) # NoSnapshot
<1>1. cfg.allowed \cup dynamic \in SUBSET CIDRs
    BY DEF Config
<1>2. [p \in Providers |-> statuses[p] \ {Blank}] \in Statuses
    BY DEF Statuses
<1>3. Build(cfg, dynamic, statuses) \in Snapshot
    BY <1>1, <1>2 DEF Build, Snapshot
<1>4. QED
    BY <1>3, ManagerAssumption DEF Build

(* A document Apply accepted with some lists is accepted without any. *)
LEMMA AppliesWithoutLists ==
    ASSUME NEW cfg, NEW dynamic, NEW statuses, Applies(cfg, dynamic, statuses)
    PROVE  Applies(cfg, {}, NoStatuses)
    BY NoStatusesType DEF Applies, Builds

(* The state a thread returns to. *)
LEMMA IdleType == Idle \in Local
    BY NoStatusesType DEF Idle, Local, PCs, Ops

(* Entering Apply with a document keeps the thread's state well formed. *)
LEMMA CallApplyType ==
    ASSUME thread \in [Threads -> Local], NEW t \in Threads,
           NEW op \in Ops, NEW cfg \in Config, CallApply(t, op, cfg)
    PROVE  /\ thread' \in [Threads -> Local]
           /\ thread' = [thread EXCEPT ![t] = thread'[t]]
           /\ thread'[t].pc = "copy"
           /\ thread'[t].op = op
           /\ thread'[t].cfg = cfg
           /\ thread'[t].mod = thread[t].mod
<1>1. thread[t].mod \in Nat
    BY DEF Local
<1>2. [Idle EXCEPT !.pc = "copy", !.op = op, !.cfg = cfg, !.mod = thread[t].mod] \in Local
    BY <1>1, IdleType DEF Local, PCs, Idle
<1>3. QED
    BY <1>2 DEF CallApply, Become, Idle

-----------------------------------------------------------------------------
(* Type correctness *)

(* What Apply's last step does to the types: the stored snapshot is one, and a  *)
(* refused document changes nothing.                                            *)
LEMMA StoreType ==
    ASSUME TypeOK, UpInv, ApplyInv, NEW t \in Threads, ApplyStore(t)
    PROVE  TypeOK'
<1> DEFINE local == thread[t]
<1>1. local \in Local /\ local.cfg \in Config
    BY DEF TypeOK, ApplyInv, ApplyStore
<1>2. Build(Prepare(local.cfg), local.dynamic, local.statuses) \in Snapshot
    BY <1>1, ConfigType, BuildType DEF Local
<1>3. data' \in Snapshot \cup {NoSnapshot}
    BY <1>2 DEF ApplyStore, TypeOK
<1>4. thread' \in [Threads -> Local]
  <2>1. [local EXCEPT !.pc = "save"] \in Local
    BY <1>1 DEF Local, PCs
  <2>2. \/ thread' = [thread EXCEPT ![t] = Idle]
        \/ thread' = [thread EXCEPT ![t] = [local EXCEPT !.pc = "save"]]
    BY DEF ApplyStore, AfterStore, Become, Goto
  <2>3. QED
    BY <2>1, <2>2, IdleType DEF TypeOK
<1>5. lastMod' \in Nat /\ loaded' \in Config \cup {None}
    BY <1>1 DEF ApplyStore, AfterStore, TypeOK, Local
<1>6. QED
    BY <1>3, <1>4, <1>5 DEF ApplyStore, TypeOK, disk

(* Every step keeps every variable in its type. *)
LEMMA TypePreserved ==
    ASSUME TypeOK, UpInv, ApplyInv, [Next]_vars
    PROVE  TypeOK'
<1> USE DEF disk, manager, history
<1>1. CASE Boot
  <2>1. file \in Config
    BY <1>1, ManagerAssumption DEF Boot, TypeOK
  <2>2. Prepare(ApplyEnvOverrides(Prepare(ApplyEnvOverrides(file)))) \in Config
    BY <2>1, ConfigType
  <2>3. data' \in Snapshot
    BY <1>1, <2>2, BuildType, NoStatusesType DEF Boot
  <2>4. QED
    BY <1>1, <2>1, <2>3 DEF Boot, TypeOK
<1>2. CASE StartWatcher
    BY <1>2 DEF StartWatcher, TypeOK
<1>3. CASE Stop
    BY <1>3, IdleType, NoStatusesType DEF Stop, TypeOK
<1>4. ASSUME NEW content \in Docs \cup {Unparsable}, EditFile(content)
      PROVE  TypeOK'
    BY <1>4 DEF EditFile, TypeOK
<1>5. ASSUME NEW h \in Handlers, AdminStep(h)
      PROVE  TypeOK'
  <2> h \in Threads
    BY DEF Threads
  <2>1. ASSUME NEW doc \in Docs, PutConfig(h, doc)
        PROVE  TypeOK'
    BY <2>1, CallApplyType, ManagerAssumption DEF PutConfig, TypeOK, Ops
  <2>2. ASSUME NEW i \in DOMAIN versions, RollbackConfig(h, i)
        PROVE  TypeOK'
    BY <2>2, CallApplyType DEF RollbackConfig, TypeOK, Ops
  <2>3. ASSUME NEW payload \in SyncPayloads, CdnConfig(h, payload)
        PROVE  TypeOK'
    <3>1. data.cfg \in Config
      BY <2>3 DEF CdnConfig, Accepting, UpInv, TypeOK, Snapshot
    <3>2. [data.cfg EXCEPT !.sync = payload] \in Config
      BY <3>1, ManagerAssumption DEF Config
    <3>3. QED
      BY <2>3, <3>2, CallApplyType DEF CdnConfig, TypeOK, Ops
  <2>4. CASE Reload(h)
    BY <2>4, CallApplyType, ManagerAssumption DEF Reload, TypeOK, Ops
  <2>5. CASE SaveVersion(h)
    <3>1. thread[h] \in Local /\ thread[h].cfg \in Config /\ Len(versions) \in Nat
      BY <2>5 DEF TypeOK, ApplyInv, SaveVersion
    <3>2. thread' \in [Threads -> Local]
      <4> DEFINE next == [thread[h] EXCEPT !.pc = "audit", !.version = Len(versions) + 1]
      <4>1. next \in Local
        <5>1. Len(versions) + 1 \in Nat /\ "audit" \in PCs
          BY <3>1 DEF PCs
        <5>2. QED
          BY <3>1, <5>1 DEF Local
      <4>2. thread' = [thread EXCEPT ![h] = Idle] \/ thread' = [thread EXCEPT ![h] = next]
        BY <2>5 DEF SaveVersion, Become
      <4>3. QED
        BY <4>1, <4>2, IdleType DEF TypeOK
    <3>3. versions' \in Seq(Config)
      BY <2>5, <3>1 DEF SaveVersion, TypeOK
    <3>4. QED
      BY <2>5, <3>2, <3>3 DEF SaveVersion, TypeOK
  <2>6. CASE SaveAudit(h)
    <3>1. thread[h].version \in Nat
      BY DEF TypeOK, Local
    <3>2. QED
      BY <2>6, <3>1, IdleType DEF SaveAudit, Become, TypeOK
  <2>7. QED
    BY <1>5, <2>1, <2>2, <2>3, <2>4, <2>5, <2>6 DEF AdminStep
<1>6. CASE TickStat
  <2>1. [Idle EXCEPT !.pc = "load", !.op = "watch", !.mod = mtime] \in Local
    BY IdleType DEF TypeOK, Local, PCs, Ops, Idle
  <2>2. QED
    BY <1>6, <2>1 DEF TickStat, Become, TypeOK
<1>7. CASE TickLoad
  <2>1. CASE file = Unparsable
    BY <1>7, <2>1, IdleType DEF TickLoad, Become, TypeOK
  <2>2. CASE file # Unparsable
    BY <1>7, <2>2, CallApplyType, ManagerAssumption DEF TickLoad, TypeOK, Ops, Threads
  <2>3. QED
    BY <2>1, <2>2
<1>8. CASE TrySync
  <2>1. [Idle EXCEPT !.pc = "fetch", !.op = "sync"] \in Local
    BY IdleType DEF Local, PCs, Ops, Idle
  <2>2. QED
    BY <1>8, <2>1 DEF TrySync, TypeOK
<1>9. ASSUME NEW p \in Providers, SyncStep(p)
      PROVE  TypeOK'
  <2> p \in Threads
    BY DEF Threads
  <2>1. ASSUME NEW cidrs \in FetchResults \cup {{}}, UpdateProviderStatus(p, cidrs)
        PROVE  TypeOK'
    <3>1. cidrs \in SUBSET CIDRs
      BY ManagerAssumption
    <3>2. cdnStatuses' \in Statuses
      BY <2>1, <3>1 DEF UpdateProviderStatus, TypeOK, Statuses
    <3>3. dynamicCIDRs' \in SUBSET CIDRs
      BY <2>1, <3>2, DynamicType DEF UpdateProviderStatus
    <3>4. thread' \in [Threads -> Local]
      BY <2>1 DEF UpdateProviderStatus, Goto, TypeOK, Local, PCs
    <3>5. QED
      BY <2>1, <3>2, <3>3, <3>4 DEF UpdateProviderStatus, TypeOK
  <2>2. CASE ReapplyCurrent(p)
    <3>1. data.cfg \in Config
      BY <2>2 DEF ReapplyCurrent, UpInv, TypeOK, Snapshot
    <3>2. QED
      BY <2>2, <3>1, CallApplyType DEF ReapplyCurrent, TypeOK, Ops
  <2>3. QED
    BY <1>9, <2>1, <2>2 DEF SyncStep
<1>10. ASSUME NEW t \in Threads, ApplyStep(t)
       PROVE  TypeOK'
  <2>1. CASE ApplyCopy(t)
    <3> DEFINE next == [thread[t] EXCEPT !.pc = "store", !.dynamic = dynamicCIDRs,
                                         !.statuses = cdnStatuses]
    <3>1. next \in Local
      BY DEF TypeOK, Local, PCs
    <3>2. thread' = [thread EXCEPT ![t] = next]
      BY <2>1 DEF ApplyCopy
    <3>3. QED
      BY <2>1, <3>1, <3>2 DEF ApplyCopy, TypeOK
  <2>2. QED
    BY <1>10, <2>1, StoreType DEF ApplyStep
<1>11. CASE UNCHANGED vars
    BY <1>11 DEF vars, TypeOK
<1>12. QED
    BY <1>1, <1>2, <1>3, <1>4, <1>5, <1>6, <1>7, <1>8, <1>9, <1>10, <1>11 DEF Next

-----------------------------------------------------------------------------
(* The process is up while threads run *)

(* A snapshot exists exactly while the process is up, and only then do threads  *)
(* run: ReapplyCurrent and CdnConfig always find a document.                    *)
LEMMA UpPreserved ==
    ASSUME TypeOK, UpInv, ApplyInv, [Next]_vars
    PROVE  UpInv'
<1> USE DEF disk, manager, history
<1>1. CASE Boot
  <2>1. file \in Config
    BY <1>1, ManagerAssumption DEF Boot, TypeOK
  <2>2. data' # NoSnapshot
    BY <1>1, <2>1, ConfigType, BuildType, NoStatusesType DEF Boot
  <2>3. QED
    BY <1>1, <2>2 DEF Boot, UpInv
<1>2. CASE StartWatcher
    BY <1>2 DEF StartWatcher, UpInv
<1>3. CASE Stop
    BY <1>3 DEF Stop, UpInv, Idle
<1>4. ASSUME NEW content \in Docs \cup {Unparsable}, EditFile(content)
      PROVE  UpInv'
    BY <1>4 DEF EditFile, UpInv
<1>5. ASSUME NEW h \in Handlers, AdminStep(h)
      PROVE  UpInv'
  <2>1. thread[h].pc # "idle" \/ phase # "down"
    BY <1>5 DEF AdminStep, PutConfig, RollbackConfig, CdnConfig, Reload, SaveVersion,
                SaveAudit, Accepting
  <2>2. phase # "down"
    BY <2>1 DEF UpInv, Threads
  <2>3. UNCHANGED <<data, phase>>
    BY <1>5 DEF AdminStep, PutConfig, RollbackConfig, CdnConfig, Reload, SaveVersion, SaveAudit
  <2>4. QED
    BY <2>2, <2>3 DEF UpInv
<1>6. CASE TickStat
    BY <1>6 DEF TickStat, UpInv
<1>7. CASE TickLoad
    BY <1>7 DEF TickLoad, UpInv, Threads
<1>8. CASE TrySync
    BY <1>8 DEF TrySync, UpInv
<1>9. ASSUME NEW p \in Providers, SyncStep(p)
      PROVE  UpInv'
  <2>1. phase # "down"
    BY <1>9 DEF SyncStep, UpdateProviderStatus, ReapplyCurrent, UpInv, Threads
  <2>2. UNCHANGED <<data, phase>>
    BY <1>9 DEF SyncStep, UpdateProviderStatus, ReapplyCurrent
  <2>3. QED
    BY <2>1, <2>2 DEF UpInv
<1>10. ASSUME NEW t \in Threads, ApplyStep(t)
       PROVE  UpInv'
  <2>1. phase # "down" /\ phase' = phase
    BY <1>10 DEF ApplyStep, ApplyCopy, ApplyStore, UpInv
  <2>2. data' # NoSnapshot
    <3>1. CASE ApplyCopy(t)
      BY <2>1, <3>1 DEF ApplyCopy, UpInv
    <3>2. CASE ApplyStore(t)
      <4>1. thread[t] \in Local /\ thread[t].cfg \in Config
        BY <3>2 DEF TypeOK, ApplyInv, ApplyStore
      <4>2. Build(Prepare(thread[t].cfg), thread[t].dynamic, thread[t].statuses) # NoSnapshot
        BY <4>1, ConfigType, BuildType DEF Local
      <4>3. QED
        BY <2>1, <3>2, <4>2 DEF ApplyStore, UpInv
    <3>3. QED
      BY <1>10, <3>1, <3>2 DEF ApplyStep
  <2>3. QED
    BY <2>1, <2>2 DEF UpInv
<1>11. CASE UNCHANGED vars
    BY <1>11 DEF vars, UpInv
<1>12. QED
    BY <1>1, <1>2, <1>3, <1>4, <1>5, <1>6, <1>7, <1>8, <1>9, <1>10, <1>11 DEF Next

-----------------------------------------------------------------------------
(* Threads inside Apply *)

(* Both copies a thread takes are of the same instant, and it never enters Apply *)
(* without a document.                                                          *)
LEMMA ApplyPreserved ==
    ASSUME TypeOK, UpInv, ApplyInv, [Next]_vars
    PROVE  ApplyInv'
<1> USE DEF disk, manager, history
<1>0. dynamicCIDRs' = AllDynamic(cdnStatuses')
  <2>1. CASE UNCHANGED <<dynamicCIDRs, cdnStatuses>>
    BY <2>1 DEF ApplyInv
  <2>2. CASE Stop
    BY <2>2, NoStatusesType DEF Stop
  <2>3. ASSUME NEW p, NEW cidrs, UpdateProviderStatus(p, cidrs)
        PROVE  dynamicCIDRs' = AllDynamic(cdnStatuses')
    BY <2>3 DEF UpdateProviderStatus
  <2>4. QED
    BY <2>1, <2>2, <2>3 DEF Next, vars, Boot, StartWatcher, EditFile, AdminStep, PutConfig,
       RollbackConfig, CdnConfig, Reload, SaveVersion, SaveAudit, TickStat, TickLoad, TrySync,
       SyncStep, ReapplyCurrent, ApplyStep, ApplyCopy, ApplyStore
<1> SUFFICES ASSUME NEW u \in Threads
             PROVE  /\ thread'[u].pc \in {"copy", "store", "save"} => thread'[u].cfg \in Config
                    /\ thread'[u].pc = "store" =>
                          thread'[u].dynamic = AllDynamic(thread'[u].statuses)
    BY <1>0 DEF ApplyInv, AllDynamic
<1> DEFINE Kept == thread'[u] = thread[u]
           Calls(cfg) == thread'[u].pc = "copy" /\ thread'[u].cfg = cfg /\ cfg \in Config
           Rests == thread'[u].pc \notin {"copy", "store", "save"}
<1>a. ASSUME Kept \/ Rests \/ (\E cfg : Calls(cfg))
      PROVE  /\ thread'[u].pc \in {"copy", "store", "save"} => thread'[u].cfg \in Config
             /\ thread'[u].pc = "store" => thread'[u].dynamic = AllDynamic(thread'[u].statuses)
    BY <1>a DEF ApplyInv
<1>1. CASE UNCHANGED thread
    BY <1>1, <1>a
<1>2. CASE Stop
    BY <1>2, <1>a DEF Stop, Idle
<1>3. ASSUME NEW h \in Handlers, AdminStep(h)
      PROVE  \/ Kept \/ Rests \/ \E cfg : Calls(cfg)
  <2> h \in Threads
    BY DEF Threads
  <2>1. ASSUME NEW doc \in Docs, PutConfig(h, doc)
        PROVE  Kept \/ Calls(doc)
    BY <2>1, CallApplyType, ManagerAssumption DEF PutConfig, TypeOK, Ops
  <2>2. ASSUME NEW i \in DOMAIN versions, RollbackConfig(h, i)
        PROVE  Kept \/ Calls(versions[i])
    BY <2>2, CallApplyType DEF RollbackConfig, TypeOK, Ops
  <2>3. ASSUME NEW payload \in SyncPayloads, CdnConfig(h, payload)
        PROVE  Kept \/ Calls([data.cfg EXCEPT !.sync = payload])
    <3>1. data.cfg \in Config
      BY <2>3 DEF CdnConfig, Accepting, UpInv, TypeOK, Snapshot
    <3>2. [data.cfg EXCEPT !.sync = payload] \in Config
      BY <3>1, ManagerAssumption DEF Config
    <3>3. QED
      BY <2>3, <3>2, CallApplyType DEF CdnConfig, TypeOK, Ops
  <2>4. CASE Reload(h)
    BY <2>4, CallApplyType, ManagerAssumption DEF Reload, TypeOK, Ops
  <2>5. CASE SaveVersion(h)
    BY <2>5 DEF SaveVersion, Become, Idle, TypeOK, Local
  <2>6. CASE SaveAudit(h)
    BY <2>6 DEF SaveAudit, Become, Idle, TypeOK
  <2>7. QED
    BY <1>3, <2>1, <2>2, <2>3, <2>4, <2>5, <2>6 DEF AdminStep
<1>4. CASE TickStat
    BY <1>4, <1>a DEF TickStat, Become, Idle, TypeOK, Threads
<1>5. CASE TickLoad
  <2>1. CASE file = Unparsable
    BY <1>5, <2>1, <1>a DEF TickLoad, Become, Idle, TypeOK, Threads
  <2>2. CASE file # Unparsable
    BY <1>5, <2>2, <1>a, CallApplyType, ManagerAssumption DEF TickLoad, TypeOK, Ops, Threads
  <2>3. QED
    BY <2>1, <2>2
<1>6. CASE TrySync
    BY <1>6, <1>a DEF TrySync, Idle
<1>7. ASSUME NEW p \in Providers, SyncStep(p)
      PROVE  \/ Kept \/ Rests \/ \E cfg : Calls(cfg)
  <2> p \in Threads
    BY DEF Threads
  <2>1. ASSUME NEW cidrs, UpdateProviderStatus(p, cidrs)
        PROVE  Kept \/ Rests
    BY <2>1 DEF UpdateProviderStatus, Goto, TypeOK, Local
  <2>2. CASE ReapplyCurrent(p)
    <3>1. data.cfg \in Config
      BY <2>2 DEF ReapplyCurrent, UpInv, TypeOK, Snapshot
    <3>2. QED
      BY <2>2, <3>1, CallApplyType DEF ReapplyCurrent, TypeOK, Ops
  <2>3. QED
    BY <1>7, <2>1, <2>2 DEF SyncStep
<1>8. ASSUME NEW t \in Threads, ApplyCopy(t)
      PROVE  /\ thread'[u].pc \in {"copy", "store", "save"} => thread'[u].cfg \in Config
             /\ thread'[u].pc = "store" => thread'[u].dynamic = AllDynamic(thread'[u].statuses)
  <2>1. CASE u # t
    BY <1>8, <2>1, <1>a DEF ApplyCopy, TypeOK
  <2>2. CASE u = t
    <3>1. /\ thread'[u].cfg = thread[u].cfg
          /\ thread'[u].dynamic = dynamicCIDRs
          /\ thread'[u].statuses = cdnStatuses
      BY <1>8, <2>2 DEF ApplyCopy, TypeOK, Local
    <3>2. QED
      BY <1>8, <2>2, <3>1 DEF ApplyCopy, ApplyInv
  <2>3. QED
    BY <2>1, <2>2
<1>9. ASSUME NEW t \in Threads, ApplyStore(t)
      PROVE  /\ thread'[u].pc \in {"copy", "store", "save"} => thread'[u].cfg \in Config
             /\ thread'[u].pc = "store" => thread'[u].dynamic = AllDynamic(thread'[u].statuses)
  <2>1. CASE u # t
    BY <1>9, <2>1, <1>a DEF ApplyStore, AfterStore, Become, Goto, TypeOK
  <2>2. CASE u = t
    <3>1. thread'[u] = Idle \/ thread'[u] = [thread[u] EXCEPT !.pc = "save"]
      BY <1>9, <2>2 DEF ApplyStore, AfterStore, Become, Goto, TypeOK
    <3>2. thread[u].cfg \in Config /\ thread[u] \in Local
      BY <1>9, <2>2 DEF ApplyStore, ApplyInv, TypeOK
    <3>3. QED
      BY <3>1, <3>2 DEF Idle, Local
  <2>3. QED
    BY <2>1, <2>2
<1>10. QED
    BY <1>1, <1>2, <1>3, <1>4, <1>5, <1>6, <1>7, <1>8, <1>9, <1>a
       DEF Next, vars, Boot, StartWatcher, EditFile, ApplyStep

-----------------------------------------------------------------------------
(* The version history *)

(* What HistoryInv says of one thread, for the table as it is after the step. *)
HistoryOf(u) ==
    /\ thread'[u].op \in {"put", "rollback"} => Validates(thread'[u].cfg)
    /\ thread'[u].pc = "save" =>
          /\ thread'[u].op \in {"put", "rollback"}
          /\ Applies(thread'[u].cfg, {}, NoStatuses)
    /\ thread'[u].pc = "audit" => thread'[u].version \in DOMAIN versions'

(* An admin request validates before it applies, applies before it saves and     *)
(* saves before it writes the audit record.                                      *)
LEMMA AdminHistory ==
    ASSUME TypeOK, UpInv, ApplyInv, HistoryInv, NEW h \in Handlers, AdminStep(h)
    PROVE  HistoryIsSound' /\ \A u \in Threads : HistoryOf(u)
<1> USE DEF disk, manager, history
<1> h \in Threads
    BY DEF Threads
<1>1. ASSUME NEW op \in Ops, NEW cfg \in Config, CallApply(h, op, cfg),
             op \in {"put", "rollback"} => Validates(cfg), UNCHANGED <<versions, audits>>
      PROVE  HistoryIsSound' /\ \A u \in Threads : HistoryOf(u)
  <2>1. HistoryIsSound'
    BY <1>1 DEF HistoryInv, HistoryIsSound
  <2>2. ASSUME NEW u \in Threads PROVE HistoryOf(u)
    <3>1. thread' = [thread EXCEPT ![h] = thread'[h]] /\ thread'[h].pc = "copy"
          /\ thread'[h].op = op /\ thread'[h].cfg = cfg
      BY <1>1, CallApplyType DEF TypeOK
    <3>2. CASE u = h
      BY <1>1, <3>1, <3>2 DEF HistoryOf
    <3>3. CASE u # h
      BY <1>1, <3>1, <3>3 DEF HistoryOf, HistoryInv, TypeOK
    <3>4. QED
      BY <3>2, <3>3
  <2>3. QED
    BY <2>1, <2>2
<1>2. ASSUME NEW doc \in Docs, PutConfig(h, doc)
      PROVE  HistoryIsSound' /\ \A u \in Threads : HistoryOf(u)
    BY <1>1, <1>2, ManagerAssumption DEF PutConfig, Ops
<1>3. ASSUME NEW i \in DOMAIN versions, RollbackConfig(h, i)
      PROVE  HistoryIsSound' /\ \A u \in Threads : HistoryOf(u)
    BY <1>1, <1>3 DEF RollbackConfig, Ops, TypeOK
<1>4. ASSUME NEW payload \in SyncPayloads, CdnConfig(h, payload)
      PROVE  HistoryIsSound' /\ \A u \in Threads : HistoryOf(u)
  <2>1. data.cfg \in Config
    BY <1>4 DEF CdnConfig, Accepting, UpInv, TypeOK, Snapshot
  <2>2. [data.cfg EXCEPT !.sync = payload] \in Config
    BY <2>1, ManagerAssumption DEF Config
  <2>3. QED
    BY <1>1, <1>4, <2>2 DEF CdnConfig, Ops
<1>5. CASE Reload(h)
    BY <1>1, <1>5, ManagerAssumption DEF Reload, Ops, TypeOK
<1>6. CASE SaveVersion(h)
  <2> DEFINE cfg == thread[h].cfg
  <2>1. /\ cfg \in Config
        /\ Validates(cfg)
        /\ Applies(cfg, {}, NoStatuses)
    BY <1>6 DEF SaveVersion, ApplyInv, HistoryInv
  <2>2. CASE Become(h, Idle) /\ UNCHANGED <<versions, audits>>
    BY <2>2 DEF Become, Idle, HistoryOf, HistoryInv, HistoryIsSound, TypeOK
  <2>3. CASE /\ versions' = Append(versions, cfg)
             /\ thread' = [thread EXCEPT ![h].pc = "audit", ![h].version = Len(versions) + 1]
             /\ UNCHANGED audits
    <3>1. /\ DOMAIN versions' = 1 .. Len(versions) + 1
          /\ DOMAIN versions = 1 .. Len(versions)
          /\ Len(versions) \in Nat
          /\ versions'[Len(versions) + 1] = cfg
          /\ \A i \in DOMAIN versions : versions'[i] = versions[i]
      BY <2>1, <2>3 DEF TypeOK
    <3>2. \A i \in DOMAIN versions' : i \in DOMAIN versions \/ i = Len(versions) + 1
      BY <3>1
    <3>3. DOMAIN versions \subseteq DOMAIN versions' /\ Len(versions) + 1 \in DOMAIN versions'
      BY <3>1
    <3>4. HistoryIsSound'
      BY <2>1, <2>3, <3>1, <3>2, <3>3 DEF HistoryInv, HistoryIsSound
    <3>5. ASSUME NEW u \in Threads PROVE HistoryOf(u)
      <4>1. CASE u = h
        <5>1. /\ thread'[u].pc = "audit"
              /\ thread'[u].op = thread[u].op
              /\ thread'[u].cfg = thread[u].cfg
              /\ thread'[u].version = Len(versions) + 1
          BY <2>3, <4>1 DEF TypeOK, Local
        <5>2. QED
          BY <2>1, <3>3, <4>1, <5>1 DEF HistoryOf
      <4>2. CASE u # h
        BY <2>3, <3>3, <4>2 DEF HistoryOf, HistoryInv, TypeOK
      <4>3. QED
        BY <4>1, <4>2
    <3>6. QED
      BY <3>4, <3>5
  <2>4. QED
    BY <1>6, <2>2, <2>3 DEF SaveVersion
<1>7. CASE SaveAudit(h)
  <2>1. thread[h].version \in DOMAIN versions
    BY <1>7 DEF SaveAudit, HistoryInv
  <2>2. HistoryIsSound'
    BY <1>7, <2>1 DEF SaveAudit, HistoryInv, HistoryIsSound
  <2>3. QED
    BY <1>7, <2>2 DEF SaveAudit, Become, Idle, HistoryOf, HistoryInv, TypeOK
<1>8. QED
    BY <1>2, <1>3, <1>4, <1>5, <1>6, <1>7 DEF AdminStep

(* The other threads leave the tables alone and start no save. *)
LEMMA HistoryPreserved ==
    ASSUME TypeOK, UpInv, ApplyInv, HistoryInv, [Next]_vars
    PROVE  HistoryInv'
<1> USE DEF disk, manager, history
<1>1. ASSUME HistoryIsSound', \A u \in Threads : HistoryOf(u)
      PROVE  HistoryInv'
    BY <1>1 DEF HistoryInv, HistoryOf
<1>2. ASSUME UNCHANGED <<versions, audits>>
      PROVE  HistoryIsSound'
    BY <1>2 DEF HistoryInv, HistoryIsSound
<1>3. ASSUME UNCHANGED <<versions, thread>>, NEW u \in Threads
      PROVE  HistoryOf(u)
    BY <1>3 DEF HistoryInv, HistoryOf
<1>4. CASE Boot \/ StartWatcher \/ UNCHANGED vars
    BY <1>1, <1>2, <1>3, <1>4 DEF Boot, StartWatcher, vars
<1>5. CASE Stop
    BY <1>1, <1>2, <1>5 DEF Stop, Idle, HistoryOf
<1>6. ASSUME NEW content, EditFile(content)
      PROVE  HistoryInv'
    BY <1>1, <1>2, <1>3, <1>6 DEF EditFile
<1>7. ASSUME NEW h \in Handlers, AdminStep(h)
      PROVE  HistoryInv'
    BY <1>1, <1>7, AdminHistory
<1>8. ASSUME NEW t \in Threads, NEW op \in Ops, NEW cfg \in Config, CallApply(t, op, cfg),
             op \notin {"put", "rollback"}, UNCHANGED <<versions, audits>>
      PROVE  HistoryInv'
  <2>1. ASSUME NEW u \in Threads PROVE HistoryOf(u)
    <3>1. thread' = [thread EXCEPT ![t] = thread'[t]] /\ thread'[t].pc = "copy"
          /\ thread'[t].op = op
      BY <1>8, CallApplyType DEF TypeOK
    <3>2. QED
      BY <1>8, <3>1 DEF HistoryOf, HistoryInv, TypeOK
  <2>2. QED
    BY <1>1, <1>2, <1>8, <2>1
<1>9. CASE TickStat
    BY <1>1, <1>2, <1>9 DEF TickStat, Become, Idle, HistoryOf, HistoryInv, TypeOK
<1>10. CASE TickLoad
  <2>1. CASE file = Unparsable
    BY <1>1, <1>2, <1>10, <2>1 DEF TickLoad, Become, Idle, HistoryOf, HistoryInv, TypeOK
  <2>2. CASE file # Unparsable
    BY <1>8, <1>10, <2>2, ManagerAssumption DEF TickLoad, Threads, Ops, TypeOK
  <2>3. QED
    BY <2>1, <2>2
<1>11. CASE TrySync
    BY <1>1, <1>2, <1>11 DEF TrySync, Idle, HistoryOf, HistoryInv
<1>12. ASSUME NEW p \in Providers, SyncStep(p)
       PROVE  HistoryInv'
  <2> p \in Threads
    BY DEF Threads
  <2>1. ASSUME NEW cidrs, UpdateProviderStatus(p, cidrs)
        PROVE  HistoryInv'
    BY <1>1, <1>2, <2>1 DEF UpdateProviderStatus, Goto, HistoryOf, HistoryInv, TypeOK, Local
  <2>2. CASE ReapplyCurrent(p)
    <3>1. data.cfg \in Config
      BY <2>2 DEF ReapplyCurrent, UpInv, TypeOK, Snapshot
    <3>2. QED
      BY <1>8, <2>2, <3>1 DEF ReapplyCurrent, Ops
  <2>3. QED
    BY <1>12, <2>1, <2>2 DEF SyncStep
<1>13. ASSUME NEW t \in Threads, ApplyCopy(t)
       PROVE  HistoryInv'
  <2>1. ASSUME NEW u \in Threads PROVE HistoryOf(u)
    <3>1. CASE u = t
      <4>1. thread'[u].pc = "store" /\ thread'[u].op = thread[u].op
            /\ thread'[u].cfg = thread[u].cfg
        BY <1>13, <3>1 DEF ApplyCopy, TypeOK, Local
      <4>2. QED
        BY <4>1 DEF HistoryOf, HistoryInv
    <3>2. CASE u # t
      BY <1>13, <3>2 DEF ApplyCopy, HistoryOf, HistoryInv, TypeOK
    <3>3. QED
      BY <3>1, <3>2
  <2>2. QED
    BY <1>1, <1>2, <1>13, <2>1 DEF ApplyCopy
<1>14. ASSUME NEW t \in Threads, ApplyStore(t)
       PROVE  HistoryInv'
  <2>1. ASSUME NEW u \in Threads PROVE HistoryOf(u)
    <3>1. CASE u = t
      <4>1. \/ thread'[u] = Idle
            \/ /\ thread'[u] = [thread[u] EXCEPT !.pc = "save"]
               /\ thread[u].op \in {"put", "rollback"}
               /\ Applies(thread[u].cfg, thread[u].dynamic, thread[u].statuses)
        BY <1>14, <3>1 DEF ApplyStore, AfterStore, Become, Goto, TypeOK
      <4>2. CASE thread'[u] = Idle
        BY <4>2 DEF Idle, HistoryOf
      <4>3. CASE thread'[u] # Idle
        <5>1. /\ thread'[u].pc = "save"
              /\ thread'[u].op = thread[u].op
              /\ thread'[u].cfg = thread[u].cfg
          BY <4>1, <4>3 DEF TypeOK, Local
        <5>2. Applies(thread[u].cfg, {}, NoStatuses)
          BY <4>1, <4>3, AppliesWithoutLists
        <5>3. QED
          BY <4>1, <4>3, <5>1, <5>2 DEF HistoryOf, HistoryInv
      <4>4. QED
        BY <4>2, <4>3
    <3>2. CASE u # t
      BY <1>14, <3>2 DEF ApplyStore, AfterStore, Become, Goto, HistoryOf, HistoryInv, TypeOK
    <3>3. QED
      BY <3>1, <3>2
  <2>2. QED
    BY <1>1, <1>2, <1>14, <2>1 DEF ApplyStore
<1>15. QED
    BY <1>4, <1>5, <1>6, <1>7, <1>9, <1>10, <1>11, <1>12, <1>13, <1>14 DEF Next, ApplyStep

-----------------------------------------------------------------------------
(* The watcher *)

(* What WatchInv says of one thread, for the file as it is after the step. *)
WatchOf(u) ==
    /\ thread'[u].pc = "load" => thread'[u].op = "watch"
    /\ thread'[u].op = "watch" => u = Watcher /\ thread'[u].mod <= mtime'
    /\ /\ thread'[u].op = "watch"
       /\ thread'[u].pc # "load"
       /\ thread'[u].mod = mtime'
       => thread'[u].cfg = file'

(* The modification time is taken before the content, so the content belongs to  *)
(* that time or a later one; an edit in between leaves lastMod behind mtime.      *)
LEMMA WatchPreserved ==
    ASSUME TypeOK, UpInv, ApplyInv, WatchInv, [Next]_vars
    PROVE  WatchInv'
<1> USE DEF disk, manager, history
<1> DEFINE Marks == /\ startMod' <= mtime'
                    /\ lastMod' <= mtime'
                    /\ phase' = "running" /\ lastMod' = mtime' /\ mtime' > startMod'
                         => loaded' = file'
<1>1. ASSUME Marks, \A u \in Threads : WatchOf(u)
      PROVE  WatchInv'
    BY <1>1 DEF WatchInv, WatchOf
<1>2. ASSUME UNCHANGED <<mtime, lastMod, startMod, phase, file, loaded>>
      PROVE  Marks
    BY <1>2 DEF WatchInv
<1>3. ASSUME NEW u \in Threads, thread'[u] = thread[u], UNCHANGED <<mtime, file>>
      PROVE  WatchOf(u)
    BY <1>3 DEF WatchInv, WatchOf
<1>4. ASSUME NEW u \in Threads, thread'[u].op # "watch", thread'[u].pc # "load"
      PROVE  WatchOf(u)
    BY <1>4 DEF WatchOf
<1>5. CASE Boot
    BY <1>1, <1>3, <1>5 DEF Boot, WatchInv
<1>6. CASE StartWatcher
    BY <1>1, <1>3, <1>6 DEF StartWatcher, WatchInv, TypeOK
<1>7. CASE Stop
    BY <1>1, <1>4, <1>7 DEF Stop, Idle, WatchInv, TypeOK
<1>8. ASSUME NEW content, EditFile(content)
      PROVE  WatchInv'
  <2>1. Marks
    BY <1>8 DEF EditFile, WatchInv, TypeOK
  <2>2. ASSUME NEW u \in Threads PROVE WatchOf(u)
    <3>1. thread[u].mod \in Nat /\ mtime \in Nat
      BY DEF TypeOK, Local
    <3>2. QED
      BY <1>8, <3>1 DEF EditFile, WatchInv, WatchOf
  <2>3. QED
    BY <1>1, <2>1, <2>2
<1>9. ASSUME NEW t \in Threads, NEW op \in Ops, NEW cfg \in Config, CallApply(t, op, cfg),
             op # "watch", UNCHANGED <<mtime, lastMod, startMod, phase, file, loaded>>
      PROVE  WatchInv'
  <2>1. /\ thread' = [thread EXCEPT ![t] = thread'[t]]
        /\ thread'[t].op = op
        /\ thread'[t].pc = "copy"
    BY <1>9, CallApplyType DEF TypeOK
  <2>2. ASSUME NEW u \in Threads PROVE WatchOf(u)
    BY <1>3, <1>4, <1>9, <2>1 DEF TypeOK
  <2>3. QED
    BY <1>1, <1>2, <1>9, <2>2
<1>10. ASSUME NEW h \in Handlers, AdminStep(h)
       PROVE  WatchInv'
  <2> h \in Threads
    BY DEF Threads
  <2>1. ASSUME NEW doc \in Docs, PutConfig(h, doc)
        PROVE  WatchInv'
    BY <1>9, <2>1, ManagerAssumption DEF PutConfig, Ops
  <2>2. ASSUME NEW i \in DOMAIN versions, RollbackConfig(h, i)
        PROVE  WatchInv'
    BY <1>9, <2>2 DEF RollbackConfig, Ops, TypeOK
  <2>3. ASSUME NEW payload \in SyncPayloads, CdnConfig(h, payload)
        PROVE  WatchInv'
    <3>1. data.cfg \in Config
      BY <2>3 DEF CdnConfig, Accepting, UpInv, TypeOK, Snapshot
    <3>2. [data.cfg EXCEPT !.sync = payload] \in Config
      BY <3>1, ManagerAssumption DEF Config
    <3>3. QED
      BY <1>9, <2>3, <3>2 DEF CdnConfig, Ops
  <2>4. CASE Reload(h)
    BY <1>9, <2>4, ManagerAssumption DEF Reload, Ops, TypeOK
  <2>5. CASE SaveVersion(h) \/ SaveAudit(h)
    <3>1. h # Watcher
      BY ManagerAssumption
    <3>2. thread[h].op # "watch"
      BY <3>1 DEF WatchInv
    <3>3. thread'[h].op # "watch" /\ thread'[h].pc # "load" /\ \A u \in Threads : u # h => thread'[u] = thread[u]
      BY <2>5, <3>2 DEF SaveVersion, SaveAudit, Become, Idle, TypeOK, Local
    <3>4. \A u \in Threads : WatchOf(u)
      BY <1>3, <1>4, <2>5, <3>3 DEF SaveVersion, SaveAudit
    <3>5. QED
      BY <1>1, <1>2, <2>5, <3>4 DEF SaveVersion, SaveAudit
  <2>6. QED
    BY <1>10, <2>1, <2>2, <2>3, <2>4, <2>5 DEF AdminStep
<1>11. CASE TickStat
  <2>1. ASSUME NEW u \in Threads PROVE WatchOf(u)
    <3>1. CASE u = Watcher
      <4>1. thread'[u].pc = "load" /\ thread'[u].op = "watch" /\ thread'[u].mod = mtime
        BY <1>11, <3>1 DEF TickStat, Become, Idle, TypeOK
      <4>2. QED
        BY <1>11, <3>1, <4>1 DEF TickStat, WatchOf, TypeOK
    <3>2. CASE u # Watcher
      BY <1>3, <1>11, <3>2 DEF TickStat, Become, TypeOK
    <3>3. QED
      BY <3>1, <3>2
  <2>2. QED
    BY <1>1, <1>2, <1>11, <2>1 DEF TickStat
<1>12. CASE TickLoad
  <2> Watcher \in Threads
    BY DEF Threads
  <2>1. CASE file = Unparsable
    <3>1. \A u \in Threads : thread'[u] = Idle \/ thread'[u] = thread[u]
      BY <1>12, <2>1 DEF TickLoad, Become, TypeOK
    <3>2. QED
      BY <1>1, <1>2, <1>3, <1>4, <1>12, <3>1 DEF TickLoad, Idle
  <2>2. CASE file # Unparsable
    <3>1. file \in Config
      BY <2>2, ManagerAssumption DEF TypeOK
    <3>2. /\ thread' = [thread EXCEPT ![Watcher] = thread'[Watcher]]
          /\ thread'[Watcher].pc = "copy"
          /\ thread'[Watcher].cfg = file
          /\ thread'[Watcher].mod = thread[Watcher].mod
      BY <1>12, <2>2, <3>1, CallApplyType DEF TickLoad, TypeOK, Ops
    <3>3. ASSUME NEW u \in Threads PROVE WatchOf(u)
      <4>1. CASE u = Watcher
        <5>1. thread[Watcher].mod <= mtime
          BY <1>12 DEF TickLoad, WatchInv, TypeOK, Local
        <5>2. QED
          BY <1>12, <3>2, <4>1, <5>1 DEF TickLoad, WatchOf
      <4>2. CASE u # Watcher
        BY <1>3, <1>12, <3>2, <4>2 DEF TickLoad, TypeOK
      <4>3. QED
        BY <4>1, <4>2
    <3>4. QED
      BY <1>1, <1>2, <1>12, <3>3 DEF TickLoad
  <2>3. QED
    BY <2>1, <2>2
<1>13. CASE TrySync
    BY <1>1, <1>2, <1>3, <1>4, <1>13 DEF TrySync, Idle
<1>14. ASSUME NEW p \in Providers, SyncStep(p)
       PROVE  WatchInv'
  <2> p \in Threads
    BY DEF Threads
  <2>1. ASSUME NEW cidrs, UpdateProviderStatus(p, cidrs)
        PROVE  WatchInv'
    <3>1. thread[p].op # "watch"
      BY ManagerAssumption DEF WatchInv
    <3>2. thread'[p].op # "watch" /\ thread'[p].pc # "load" /\ \A u \in Threads : u # p => thread'[u] = thread[u]
      BY <2>1, <3>1 DEF UpdateProviderStatus, Goto, TypeOK, Local
    <3>3. QED
      BY <1>1, <1>2, <1>3, <1>4, <2>1, <3>2 DEF UpdateProviderStatus
  <2>2. CASE ReapplyCurrent(p)
    <3>1. data.cfg \in Config
      BY <2>2 DEF ReapplyCurrent, UpInv, TypeOK, Snapshot
    <3>2. QED
      BY <1>9, <2>2, <3>1 DEF ReapplyCurrent, Ops
  <2>3. QED
    BY <1>14, <2>1, <2>2 DEF SyncStep
<1>15. ASSUME NEW t \in Threads, ApplyCopy(t)
       PROVE  WatchInv'
  <2>1. ASSUME NEW u \in Threads PROVE WatchOf(u)
    <3>1. CASE u = t
      <4>1. /\ thread'[u].pc = "store"
            /\ thread'[u].op = thread[u].op
            /\ thread'[u].cfg = thread[u].cfg
            /\ thread'[u].mod = thread[u].mod
        BY <1>15, <3>1 DEF ApplyCopy, TypeOK, Local
      <4>2. QED
        BY <1>15, <3>1, <4>1 DEF ApplyCopy, WatchOf, WatchInv
    <3>2. CASE u # t
      BY <1>3, <1>15, <3>2 DEF ApplyCopy, TypeOK
    <3>3. QED
      BY <3>1, <3>2
  <2>2. QED
    BY <1>1, <1>2, <1>15, <2>1 DEF ApplyCopy
<1>16. ASSUME NEW t \in Threads, ApplyStore(t)
       PROVE  WatchInv'
  <2>1. ASSUME NEW u \in Threads PROVE WatchOf(u)
    <3>1. CASE u = t
      <4>1. thread'[u] = Idle \/ (thread'[u].op # "watch" /\ thread'[u].pc = "save")
        BY <1>16, <3>1 DEF ApplyStore, AfterStore, Become, Goto, TypeOK, Local
      <4>2. QED
        BY <1>4, <4>1 DEF Idle
    <3>2. CASE u # t
      BY <1>3, <1>16, <3>2 DEF ApplyStore, AfterStore, Become, Goto, TypeOK
    <3>3. QED
      BY <3>1, <3>2
  <2>2. CASE UNCHANGED <<lastMod, loaded>>
    BY <1>1, <1>2, <1>16, <2>1, <2>2 DEF ApplyStore
  <2>3. CASE ~UNCHANGED <<lastMod, loaded>>
    <3>1. thread[t].op = "watch" /\ lastMod' = thread[t].mod /\ loaded' = thread[t].cfg
      BY <1>16, <2>3 DEF ApplyStore, AfterStore
    <3>2. Marks
      BY <1>16, <3>1 DEF ApplyStore, WatchInv, TypeOK, Local
    <3>3. QED
      BY <1>1, <2>1, <3>2
  <2>4. QED
    BY <2>2, <2>3
<1>17. CASE UNCHANGED vars
    BY <1>1, <1>2, <1>3, <1>17 DEF vars
<1>18. QED
    BY <1>5, <1>6, <1>7, <1>8, <1>10, <1>11, <1>12, <1>13, <1>14, <1>15, <1>16, <1>17
       DEF Next, ApplyStep

-----------------------------------------------------------------------------
(* Theorems *)

(* The inductive invariant holds in every reachable state of the manager. *)
THEOREM Invariance == Spec => []IInv
<1>1. Init => IInv
  <2> SUFFICES ASSUME Init PROVE IInv
    OBVIOUS
  <2>1. TypeOK
    BY IdleType, NoStatusesType DEF Init, TypeOK
  <2>2. UpInv /\ ApplyInv
    BY NoStatusesType DEF Init, UpInv, ApplyInv, Idle
  <2>3. HistoryInv /\ WatchInv
    BY DEF Init, HistoryInv, HistoryIsSound, WatchInv, Idle
  <2>4. QED
    BY <2>1, <2>2, <2>3 DEF IInv
<1>2. IInv /\ [Next]_vars => IInv'
    BY TypePreserved, UpPreserved, ApplyPreserved, HistoryPreserved, WatchPreserved DEF IInv
<1>3. QED
    BY <1>1, <1>2, PTL DEF Spec

(* Every variable of the manager keeps its type, for any number of handlers and  *)
(* providers.                                                                    *)
THEOREM TypeCorrect == Spec => []TypeOK
<1>1. IInv => TypeOK
    BY DEF IInv
<1>2. QED
    BY <1>1, Invariance, PTL

(* A version that can be listed can be rolled back to: it passed Validate and     *)
(* Apply, and audit records only name saved versions.                             *)
THEOREM HistorySound == Spec => []HistoryIsSound
<1>1. IInv => HistoryIsSound
    BY DEF IInv, HistoryInv
<1>2. QED
    BY <1>1, Invariance, PTL

(* The watcher never marks an edit as seen that it has not applied. *)
THEOREM WatcherSound == Spec => []NoEditMissed
<1>1. IInv => NoEditMissed
    BY DEF IInv, WatchInv, NoEditMissed
<1>2. QED
    BY <1>1, Invariance, PTL

(* A snapshot built from lists of one instant is a compiled snapshot. *)
LEMMA BuildIsCompiled ==
    ASSUME NEW cfg \in Config, NEW statuses \in Statuses,
           Applies(cfg, AllDynamic(statuses), statuses)
    PROVE  Swap!Compiled(Build(Prepare(cfg), AllDynamic(statuses), statuses))
<1> DEFINE prepared == Prepare(cfg)
           s == Build(prepared, AllDynamic(statuses), statuses)
<1>1. prepared \in Config /\ prepared.routing = "lb"
    BY ConfigType DEF Applies, HasConflict, Prepare, Config, Routings
<1>2. Builds(prepared, AllDynamic(statuses), statuses)
    BY DEF Applies
<1>3. \A p \in Providers : Blank \notin statuses[p]
    BY <1>2 DEF Builds, AllDynamic
<1>4. s.cdn = statuses
    BY <1>3 DEF Build, Statuses
<1>5. s \in Snapshot /\ s.cfg = prepared
    BY <1>1, BuildType, DynamicType
<1>6. QED
  <2>1. Swap!Snapshot = Snapshot
    BY DEF Swap!Snapshot, Snapshot, Swap!Config, Config, Swap!Routings, Routings,
           Swap!Statuses, Statuses
  <2>2. Swap!AllDynamic(s.cdn) = AllDynamic(s.cdn)
    BY DEF Swap!AllDynamic, AllDynamic
  <2>3. Swap!Builds(s.cfg, AllDynamic(s.cdn), s.cdn)
    BY <1>2, <1>4, <1>5, <2>2 DEF Swap!Builds, Builds
  <2>4. Swap!Build(s.cfg, AllDynamic(s.cdn), s.cdn) = s
    BY <1>4, <1>5 DEF Swap!Build, Build
  <2>5. QED
    BY <1>1, <1>5, <2>1, <2>2, <2>3, <2>4 DEF Swap!Compiled

(* The manager implements the atomic swap its readers rely on: the start stores   *)
(* a first snapshot, each later Apply replaces it as a whole by one compiled from *)
(* one document and the lists of one instant, and no other step touches it.       *)
THEOREM ManagerSwapsAtomically == Spec => SwapSpec
<1>1. Init => Swap!Init
    BY DEF Init, Swap!Init
<1>2. ASSUME IInv, [Next]_vars
      PROVE  [Swap!Next]_data
  <2>1. CASE Boot
    <3>1. file \in Config
      BY <1>2, <2>1, ManagerAssumption DEF Boot, IInv, TypeOK
    <3> DEFINE cfg == ApplyEnvOverrides(Prepare(ApplyEnvOverrides(file)))
    <3>2. cfg \in Config /\ Prepare(cfg) \in Config /\ Prepare(cfg).env
      <4>1. Prepare(ApplyEnvOverrides(file)) \in Config
        BY <3>1, ConfigType
      <4>2. cfg \in Config /\ Prepare(cfg) \in Config
        BY <4>1, ConfigType
      <4>3. cfg.env
        BY <4>1 DEF ApplyEnvOverrides, Config
      <4>4. QED
        BY <4>2, <4>3 DEF Prepare, Config
    <3>3. Swap!Compiled(data') /\ data'.cfg = Prepare(cfg)
      BY <2>1, <3>2, BuildIsCompiled, BuildType, NoStatusesType DEF Boot
    <3>4. data'.cdn = NoStatuses
      BY <2>1 DEF Boot, Build, NoStatuses
    <3>5. data = NoSnapshot
      BY <1>2, <2>1 DEF Boot, IInv, UpInv
    <3>6. QED
      BY <3>2, <3>3, <3>4, <3>5 DEF Swap!Next, Swap!Start, Swap!NoStatuses, NoStatuses
  <2>2. CASE Stop
    BY <2>2 DEF Stop, Swap!Next, Swap!Stop
  <2>3. ASSUME NEW t \in Threads, ApplyStore(t)
        PROVE  [Swap!Next]_data
    <3> DEFINE local == thread[t]
    <3>1. CASE UNCHANGED data
      BY <3>1
    <3>2. CASE ~UNCHANGED data
      <4>1. /\ Applies(local.cfg, local.dynamic, local.statuses)
            /\ data' = Build(Prepare(local.cfg), local.dynamic, local.statuses)
        BY <2>3, <3>2 DEF ApplyStore
      <4>2. /\ local.cfg \in Config
            /\ local.statuses \in Statuses
            /\ local.dynamic = AllDynamic(local.statuses)
        BY <1>2, <2>3 DEF ApplyStore, IInv, ApplyInv, TypeOK, Local
      <4>3. Swap!Compiled(data')
        BY <4>1, <4>2, BuildIsCompiled
      <4>4. data # NoSnapshot
        BY <1>2, <2>3 DEF ApplyStore, IInv, UpInv
      <4>5. QED
        BY <4>3, <4>4 DEF Swap!Next, Swap!Swap
    <3>3. QED
      BY <3>1, <3>2
  <2>4. QED
    BY <1>2, <2>1, <2>2, <2>3 DEF Next, vars, manager, StartWatcher, EditFile, AdminStep,
       PutConfig, RollbackConfig, CdnConfig, Reload, SaveVersion, SaveAudit, TickStat, TickLoad,
       TrySync, SyncStep, UpdateProviderStatus, ReapplyCurrent, ApplyStep, ApplyCopy
<1>3. QED
    BY <1>1, <1>2, Invariance, PTL DEF Spec, SwapSpec, Swap!Spec

=============================================================================
