--------------------------- MODULE LogPipelineProofs ---------------------------
(***************************************************************************)
(* The safety properties of the log pipeline, for every number of requests,  *)
(* every number of calls of Close and every capacity of the channel.         *)
(***************************************************************************)
EXTENDS LogPipeline, FiniteSetTheorems, TLAPS

(* The requests at a point of Emit are finitely many. *)
LEMMA AtFinite ==
    ASSUME NEW CONSTANT pc
    PROVE  IsFiniteSet(At(pc)) /\ Cardinality(At(pc)) \in Nat
<1>1. IsFiniteSet(Emitters)
    BY PipelineAssumption
<1>2. At(pc) \subseteq Emitters
    BY DEF At
<1> QED
    BY <1>1, <1>2, FS_Subset, FS_CardinalityType

(* One request that goes from one point of Emit to another changes the number of *)
(* requests at these two points by one, and no other number.                     *)
LEMMA Moves ==
    ASSUME NEW CONSTANT e \in Emitters, NEW CONSTANT from, NEW CONSTANT to, from # to,
           emitter[e].pc = from,
           emitter'[e].pc = to,
           \A d \in Emitters \ {e} : emitter'[d].pc = emitter[d].pc
    PROVE  /\ Cardinality(At(from)') = Cardinality(At(from)) - 1
           /\ Cardinality(At(to)') = Cardinality(At(to)) + 1
           /\ \A pc : pc \notin {from, to} => At(pc)' = At(pc)
<1>1. At(from)' = At(from) \ {e} /\ e \in At(from)
    BY DEF At
<1>2. At(to)' = At(to) \cup {e} /\ e \notin At(to)
    BY DEF At
<1>3. \A pc : pc \notin {from, to} => At(pc)' = At(pc)
    BY DEF At
<1>4. Cardinality(At(from)') = Cardinality(At(from)) - 1
    BY <1>1, AtFinite, FS_RemoveElement
<1>5. Cardinality(At(to)') = Cardinality(At(to)) + 1
    BY <1>2, AtFinite, FS_AddElement
<1> QED
    BY <1>3, <1>4, <1>5

(* A step that leaves the requests alone leaves their numbers alone. *)
LEMMA Stays ==
    ASSUME UNCHANGED emitter
    PROVE  \A pc : At(pc)' = At(pc)
BY DEF At

-----------------------------------------------------------------------------
(* The counters are natural numbers, and adding to one of them keeps the others. *)
LEMMA CounterType ==
    ASSUME NEW s \in Stats
    PROVE  s.total \in Nat /\ s.blocked \in Nat /\ s.proxied \in Nat /\ s.dropped \in Nat
BY DEF Stats

(* A counter that is incremented leaves a record of counters. *)
LEMMA CounterAdd ==
    ASSUME NEW s \in Stats
    PROVE  /\ [s EXCEPT !.total = @ + 1] \in Stats
           /\ [s EXCEPT !.blocked = @ + 1] \in Stats
           /\ [s EXCEPT !.proxied = @ + 1] \in Stats
           /\ [s EXCEPT !.dropped = @ + 1] \in Stats
<1>1. s.total + 1 \in Nat /\ s.blocked + 1 \in Nat /\ s.proxied + 1 \in Nat /\ s.dropped + 1 \in Nat
    BY CounterType
<1> QED
    BY <1>1 DEF Stats

-----------------------------------------------------------------------------
(* Types are preserved; the channel never holds more than its capacity. *)
LEMMA TypePreserved == TypeOK /\ [Next]_vars => TypeOK'
<1> SUFFICES ASSUME TypeOK, [Next]_vars PROVE TypeOK'
    OBVIOUS
<1> USE PipelineAssumption
<1>1. CASE UNCHANGED vars
    BY <1>1 DEF TypeOK, vars
<1>2. ASSUME NEW e \in Emitters, NEW type \in EventTypes, EmitCheck(e, type)
      PROVE  TypeOK'
    BY <1>2 DEF TypeOK, EmitCheck
<1>3. ASSUME NEW e \in Emitters, EmitCount(e)
      PROVE  TypeOK'
    <2>1. stats' \in Stats
        BY <1>3, CounterAdd DEF TypeOK, EmitCount
    <2> QED
        BY <1>3, <2>1 DEF TypeOK, EmitCount
<1>4. ASSUME NEW e \in Emitters, EmitTotal(e)
      PROVE  TypeOK'
    <2>1. stats' \in Stats
        BY <1>4, CounterAdd DEF TypeOK, EmitTotal
    <2> QED
        BY <1>4, <2>1 DEF TypeOK, EmitTotal
<1>5. ASSUME NEW e \in Emitters, EmitSend(e)
      PROVE  TypeOK'
    <2>1. stats' \in Stats
        BY <1>5, CounterAdd DEF TypeOK, EmitSend
    <2>2. ch' \in Seq(EventTypes) /\ Len(ch') <= Buffer
        <3>1. ch \in Seq(EventTypes) /\ Len(ch) <= Buffer /\ emitter[e].event \in EventTypes
            BY DEF TypeOK
        <3>2. \/ ch' = ch
              \/ Len(ch) < Buffer /\ ch' = Append(ch, emitter[e].event)
            BY <1>5 DEF EmitSend
        <3> QED
            BY <3>1, <3>2
    <2>3. emitter' \in [Emitters -> [pc : {"idle", "count", "total", "send"},
                                     event : EventTypes]]
        BY <1>5 DEF TypeOK, EmitSend
    <2>4. panicked' \in Nat
        BY <1>5 DEF TypeOK, EmitSend
    <2> QED
        BY <1>5, <2>1, <2>2, <2>3, <2>4 DEF TypeOK, EmitSend
<1>6. ASSUME NEW c \in Closers, CloseSwap(c)
      PROVE  TypeOK'
    BY <1>6 DEF TypeOK, CloseSwap
<1>7. ASSUME NEW c \in Closers, CloseChannel(c)
      PROVE  TypeOK'
    BY <1>7 DEF TypeOK, CloseChannel
<1>8. CASE Worker
    <2>1. ch' \in Seq(EventTypes) /\ Len(ch') <= Buffer
        BY <1>8 DEF TypeOK, Worker
    <2> QED
        BY <1>8, <2>1 DEF TypeOK, Worker
<1>9. CASE Snapshot
    BY <1>9 DEF TypeOK, Snapshot, SnapshotLoad, Stats, ReaderPCs
<1>10. CASE SnapshotReturn
    BY <1>10 DEF TypeOK, SnapshotReturn, NoStats, Stats, ReaderPCs
<1>11. CASE Exit
    BY <1>11 DEF TypeOK, Exit
<1> QED
    BY <1>1, <1>2, <1>3, <1>4, <1>5, <1>6, <1>7, <1>8, <1>9, <1>10, <1>11
    DEF Next, EmitStep

(* At most one call of Close gets past the swap, and the channel is closed only *)
(* by that call.                                                                *)
LEMMA ClosePreserved == TypeOK /\ CloseInv /\ [Next]_vars => CloseInv'
<1> SUFFICES ASSUME TypeOK, CloseInv, [Next]_vars PROVE CloseInv'
    OBVIOUS
<1>1. CASE UNCHANGED <<closed, chClosed, closer>>
    BY <1>1 DEF CloseInv, ClosedOnce
<1>2. ASSUME NEW c \in Closers, CloseSwap(c)
      PROVE  CloseInv'
    BY <1>2 DEF TypeOK, CloseInv, ClosedOnce, CloseSwap
<1>3. ASSUME NEW c \in Closers, CloseChannel(c)
      PROVE  CloseInv'
    BY <1>3 DEF TypeOK, CloseInv, ClosedOnce, CloseChannel
<1> QED
    BY <1>1, <1>2, <1>3
    DEF Next, vars, EmitStep, EmitCheck, EmitCount, EmitTotal, EmitSend, Worker,
        Snapshot, SnapshotLoad, SnapshotReturn, Exit

-----------------------------------------------------------------------------
(* Each step moves an event from one account to another. *)
LEMMA ConservationPreserved == TypeOK /\ Conservation /\ [Next]_vars => Conservation'
<1> SUFFICES ASSUME TypeOK, Conservation, [Next]_vars PROVE Conservation'
    OBVIOUS
<1>1. CASE UNCHANGED <<emitter, stats, ch, written, panicked>>
    BY <1>1, Stays DEF Conservation
<1>2. ASSUME NEW e \in Emitters, NEW type \in EventTypes, EmitCheck(e, type)
      PROVE  Conservation'
    <2>1. At("send")' = At("send")
        BY <1>2 DEF TypeOK, EmitCheck, At
    <2> QED
        BY <1>2, <2>1 DEF Conservation, EmitCheck
<1>3. ASSUME NEW e \in Emitters, EmitCount(e)
      PROVE  Conservation'
    <2>1. At("send")' = At("send")
        BY <1>3 DEF TypeOK, EmitCount, At
    <2>2. stats'.total = stats.total /\ stats'.dropped = stats.dropped
        BY <1>3 DEF TypeOK, EmitCount, Stats
    <2> QED
        BY <1>3, <2>1, <2>2 DEF Conservation, EmitCount
<1>4. ASSUME NEW e \in Emitters, EmitTotal(e)
      PROVE  Conservation'
    <2>1. Cardinality(At("send")') = Cardinality(At("send")) + 1
        BY <1>4, Moves DEF TypeOK, EmitTotal
    <2>2. stats'.total = stats.total + 1 /\ stats'.dropped = stats.dropped
        BY <1>4 DEF TypeOK, EmitTotal, Stats
    <2> QED
        BY <1>4, <2>1, <2>2, AtFinite DEF TypeOK, Stats, Conservation, EmitTotal
<1>5. ASSUME NEW e \in Emitters, EmitSend(e)
      PROVE  Conservation'
    <2>1. Cardinality(At("send")') = Cardinality(At("send")) - 1
        BY <1>5, Moves DEF TypeOK, EmitSend
    <2>2. \/ UNCHANGED <<ch, stats>> /\ panicked' = panicked + 1
          \/ UNCHANGED <<stats, panicked>> /\ Len(ch') = Len(ch) + 1
          \/ /\ UNCHANGED <<ch, panicked>>
             /\ stats'.total = stats.total
             /\ stats'.dropped = stats.dropped + 1
        BY <1>5 DEF TypeOK, EmitSend, Stats
    <2>3. Cardinality(At("send")) \in Nat /\ Len(ch) \in Nat
        BY AtFinite DEF TypeOK
    <2>4. UNCHANGED written
        BY <1>5 DEF EmitSend
    <2> QED
        <3>1. stats.total \in Nat /\ stats.dropped \in Nat /\ written \in Nat /\ panicked \in Nat
            BY CounterType DEF TypeOK
        <3>2. stats.total = written + Len(ch) + stats.dropped + panicked + Cardinality(At("send"))
            BY DEF Conservation
        <3>3. CASE UNCHANGED <<ch, stats>> /\ panicked' = panicked + 1
            BY <2>1, <2>3, <2>4, <3>1, <3>2, <3>3 DEF Conservation
        <3>4. CASE UNCHANGED <<stats, panicked>> /\ Len(ch') = Len(ch) + 1
            BY <2>1, <2>3, <2>4, <3>1, <3>2, <3>4 DEF Conservation
        <3>5. CASE /\ UNCHANGED <<ch, panicked>>
                   /\ stats'.total = stats.total
                   /\ stats'.dropped = stats.dropped + 1
            BY <2>1, <2>3, <2>4, <3>1, <3>2, <3>5 DEF Conservation
        <3> QED
            BY <2>2, <3>3, <3>4, <3>5
<1>6. CASE Worker
    <2>1. Len(ch') = Len(ch) - 1 /\ Len(ch) \in Nat
        BY <1>6 DEF TypeOK, Worker
    <2>2. At("send")' = At("send")
        BY <1>6, Stays DEF Worker
    <2> QED
        BY <1>6, <2>1, <2>2, AtFinite DEF TypeOK, Stats, Conservation, Worker
<1> QED
    BY <1>1, <1>2, <1>3, <1>4, <1>5, <1>6
    DEF Next, vars, EmitStep, CloseSwap, CloseChannel, Snapshot, SnapshotLoad,
        SnapshotReturn, Exit

-----------------------------------------------------------------------------
(* The reader's part of CountInv. *)
ReaderInv ==
    /\ reader.pc \in {"blocked", "proxied", "dropped", "done"} => reader.got.total <= stats.total
    /\ reader.pc \in {"proxied", "dropped", "done"} =>
          /\ reader.got.blocked <= stats.blocked
          /\ reader.got.total <= reader.got.blocked + stats.proxied
    /\ StatsAddUp

(* Counters only grow, so what has been read stays below them. *)
LEMMA CountersGrow ==
    ASSUME TypeOK, TypeOK', ReaderInv, UNCHANGED reader,
           stats.total <= stats'.total,
           stats.blocked <= stats'.blocked,
           stats.proxied <= stats'.proxied
    PROVE  ReaderInv'
<1>1. stats \in Stats /\ stats' \in Stats /\ reader.got \in Stats
    BY DEF TypeOK
<1>2. /\ stats.total \in Nat /\ stats.blocked \in Nat /\ stats.proxied \in Nat
      /\ stats'.total \in Nat /\ stats'.blocked \in Nat /\ stats'.proxied \in Nat
      /\ reader.got.total \in Nat /\ reader.got.blocked \in Nat /\ reader.got.proxied \in Nat
    BY <1>1, CounterType
<1> QED
    BY <1>2 DEF ReaderInv, StatsAddUp

(* The total is read when it is at most the sum of the types, and the types are  *)
(* read later.                                                                   *)
LEMMA CountPreserved == TypeOK /\ TypeOK' /\ CountInv /\ [Next]_vars => CountInv'
<1> SUFFICES ASSUME TypeOK, TypeOK', CountInv, [Next]_vars PROVE CountInv'
    OBVIOUS
<1> DEFINE InBetween == Counted = stats.total + Cardinality(At("total"))
<1>0. InBetween /\ ReaderInv
    BY DEF CountInv, ReaderInv
<1>a. SUFFICES InBetween' /\ ReaderInv'
    BY DEF CountInv, ReaderInv
<1>b. Cardinality(At("total")) \in Nat
    BY AtFinite
<1>c. /\ stats.total \in Nat /\ stats.blocked \in Nat /\ stats.proxied \in Nat
      /\ reader.got.total \in Nat /\ reader.got.blocked \in Nat /\ reader.got.proxied \in Nat
    BY CounterType DEF TypeOK
<1>1. CASE UNCHANGED <<emitter, stats, reader>>
    BY <1>0, <1>1, Stays DEF Counted, ReaderInv, StatsAddUp
<1>2. ASSUME NEW e \in Emitters, NEW type \in EventTypes, EmitCheck(e, type)
      PROVE  InBetween' /\ ReaderInv'
    <2>1. At("total")' = At("total")
        BY <1>2 DEF TypeOK, EmitCheck, At
    <2> QED
        BY <1>0, <1>2, <2>1 DEF Counted, EmitCheck, ReaderInv, StatsAddUp
<1>3. ASSUME NEW e \in Emitters, EmitCount(e)
      PROVE  InBetween' /\ ReaderInv'
    <2>1. Cardinality(At("total")') = Cardinality(At("total")) + 1
        BY <1>3, Moves DEF TypeOK, EmitCount
    <2>2. /\ stats'.total = stats.total
          /\ stats'.blocked + stats'.proxied = stats.blocked + stats.proxied + 1
          /\ stats.blocked <= stats'.blocked
          /\ stats.proxied <= stats'.proxied
        <3>1. stats \in Stats
            BY DEF TypeOK
        <3>2. stats.total \in Nat /\ stats.blocked \in Nat /\ stats.proxied \in Nat
            BY <3>1, CounterType
        <3>3. \/ stats' = [stats EXCEPT !.blocked = @ + 1]
              \/ stats' = [stats EXCEPT !.proxied = @ + 1]
            BY <1>3 DEF EmitCount
        <3> QED
            BY <3>1, <3>2, <3>3 DEF Stats
    <2>3. ReaderInv'
        BY <1>0, <1>3, <2>2, CountersGrow DEF EmitCount, TypeOK, Stats
    <2> QED
        BY <1>0, <1>b, <1>c, <2>1, <2>2, <2>3 DEF Counted
<1>4. ASSUME NEW e \in Emitters, EmitTotal(e)
      PROVE  InBetween' /\ ReaderInv'
    <2>1. Cardinality(At("total")') = Cardinality(At("total")) - 1
        BY <1>4, Moves DEF TypeOK, EmitTotal
    <2>2. /\ stats'.total = stats.total + 1
          /\ stats'.blocked = stats.blocked
          /\ stats'.proxied = stats.proxied
        BY <1>4 DEF TypeOK, EmitTotal, Stats
    <2>3. ReaderInv'
        BY <1>0, <1>4, <2>2, CountersGrow DEF EmitTotal, TypeOK, Stats
    <2> QED
        BY <1>0, <1>b, <1>c, <2>1, <2>2, <2>3 DEF Counted
<1>5. ASSUME NEW e \in Emitters, EmitSend(e)
      PROVE  InBetween' /\ ReaderInv'
    <2>1. At("total")' = At("total")
        BY <1>5 DEF TypeOK, EmitSend, At
    <2>2. /\ stats'.total = stats.total
          /\ stats'.blocked = stats.blocked
          /\ stats'.proxied = stats.proxied
        BY <1>5 DEF TypeOK, EmitSend, Stats
    <2>3. ReaderInv'
        BY <1>0, <1>5, <2>2, CountersGrow DEF EmitSend, TypeOK, Stats
    <2> QED
        BY <1>0, <2>1, <2>2, <2>3 DEF Counted
<1>6. CASE Snapshot
    <2>1. UNCHANGED <<emitter, stats>>
        BY <1>6 DEF Snapshot, SnapshotLoad
    <2>2. InBetween'
        BY <1>0, <2>1, Stays DEF Counted
    <2>3. stats.total <= stats.blocked + stats.proxied
        BY <1>0, <1>b, <1>c DEF Counted
    <2>4. ReaderInv'
        <3>0. reader.got \in Stats
            BY DEF TypeOK
        <3>1. CASE SnapshotLoad("total", "blocked")
            BY <1>0, <1>c, <2>1, <3>0, <3>1 DEF SnapshotLoad, ReaderInv, StatsAddUp, Stats
        <3>2. CASE SnapshotLoad("blocked", "proxied")
            BY <1>0, <1>c, <2>1, <2>3, <3>0, <3>2 DEF SnapshotLoad, ReaderInv, StatsAddUp, Stats
        <3>3. CASE SnapshotLoad("proxied", "dropped")
            BY <1>0, <1>c, <2>1, <3>0, <3>3 DEF SnapshotLoad, ReaderInv, StatsAddUp, Stats
        <3>4. CASE SnapshotLoad("dropped", "done")
            BY <1>0, <1>c, <2>1, <3>0, <3>4 DEF SnapshotLoad, ReaderInv, StatsAddUp, Stats
        <3> QED
            BY <1>6, <3>1, <3>2, <3>3, <3>4 DEF Snapshot
    <2> QED
        BY <2>2, <2>4
<1>7. CASE SnapshotReturn
    <2>1. InBetween'
        BY <1>0, <1>7, Stays DEF SnapshotReturn, Counted
    <2> QED
        BY <1>7, <2>1 DEF SnapshotReturn, ReaderInv, StatsAddUp
<1> QED
    BY <1>1, <1>2, <1>3, <1>4, <1>5, <1>6, <1>7
    DEF Next, vars, EmitStep, CloseSwap, CloseChannel, Worker, Exit

-----------------------------------------------------------------------------
(* The initial state satisfies the invariant. *)
LEMMA InitInv == Init => IInv
<1> SUFFICES ASSUME Init PROVE IInv
    OBVIOUS
<1>1. TypeOK
    <2>1. NoStats \in Stats
        BY DEF NoStats, Stats
    <2>2. ch \in Seq(EventTypes) /\ Len(ch) <= Buffer
        BY PipelineAssumption DEF Init
    <2> QED
        BY <2>1, <2>2 DEF Init, TypeOK, EventTypes, ReaderPCs
<1>2. At("send") = {} /\ At("total") = {}
    BY DEF Init, At
<1>3. Cardinality({}) = 0
    BY FS_EmptySet
<1>4. Conservation
    <2>1. ch = <<>> /\ written = 0 /\ panicked = 0 /\ stats.total = 0 /\ stats.dropped = 0
        BY DEF Init, NoStats
    <2>2. Len(ch) = 0
        BY <2>1
    <2>3. Cardinality(At("send")) = 0
        BY <1>2, <1>3
    <2> QED
        BY <2>1, <2>2, <2>3 DEF Conservation
<1>5. CountInv
    BY <1>2, <1>3 DEF Init, CountInv, Counted, StatsAddUp, NoStats
<1>6. CloseInv
    BY DEF Init, CloseInv, ClosedOnce
<1> QED
    BY <1>1, <1>4, <1>5, <1>6 DEF IInv

(* The inductive invariant holds in every reachable state of the pipeline. *)
THEOREM PipelineInvariance == Spec => []IInv
<1>1. Init => IInv
    BY InitInv
<1>2. IInv /\ [Next]_vars => IInv'
    BY TypePreserved, ClosePreserved, ConservationPreserved, CountPreserved DEF IInv
<1> QED
    BY <1>1, <1>2, PTL DEF Spec

(* Every variable of the pipeline keeps its type and the channel its bound. *)
THEOREM PipelineTypeCorrect == Spec => []TypeOK
<1>1. IInv => TypeOK
    BY DEF IInv
<1> QED
    BY <1>1, PipelineInvariance, PTL

(* Emit and the worker lose no event uncounted. *)
THEOREM EventsConserved == Spec => []Conservation
<1>1. IInv => Conservation
    BY DEF IInv
<1> QED
    BY <1>1, PipelineInvariance, PTL

(* The statistics that Snapshot reports without a lock add up. *)
THEOREM StatsSound == Spec => []StatsAddUp
<1>1. IInv => StatsAddUp
    BY DEF IInv, CountInv
<1> QED
    BY <1>1, PipelineInvariance, PTL

(* However many calls of Close race, the channel is closed once. *)
THEOREM CloseIsIdempotent == Spec => []ClosedOnce
<1>1. IInv => ClosedOnce
    BY DEF IInv, CloseInv
<1> QED
    BY <1>1, PipelineInvariance, PTL

=============================================================================
