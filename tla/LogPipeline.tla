------------------------------ MODULE LogPipeline ------------------------------
(***************************************************************************)
(* The asynchronous log pipeline (internal/logging/pipeline.go): gateway    *)
(* requests emit events without locks into a bounded channel, one worker    *)
(* writes them, the admin API reads the counters, and main closes the       *)
(* pipeline when the server's shutdown has ended or timed out.              *)
(*                                                                         *)
(* Every atomic load, add and channel operation is a step of its own.       *)
(***************************************************************************)
EXTENDS Integers, Sequences, FiniteSets

CONSTANTS
    Emitters,       \* gateway requests, each in ServeHTTP
    Closers,        \* goroutines that call Close
    Buffer,         \* capacity of the channel
    MaxEvents       \* bound on the events that are counted

ASSUME PipelineAssumption ==
    /\ IsFiniteSet(Emitters)
    /\ Buffer \in Nat \ {0}
    /\ MaxEvents \in Nat

(* The event types the gateway emits. *)
EventTypes == {"blocked", "proxy"}

VARIABLES
    ch,             \* buffered events of Pipeline.ch
    chClosed,       \* close(p.ch) has been called
    closed,         \* Pipeline.closed
    stats,          \* the four atomic counters
    emitter,        \* local state of every request
    closer,         \* program counter of every call of Close
    reader,         \* a request for the statistics: pc and what it has read
    written,        \* history: events the worker has written
    panicked,       \* history: sends that met a closed channel
    up              \* the process has not exited

vars == <<ch, chClosed, closed, stats, emitter, closer, reader, written, panicked, up>>

Stats == [total : Nat, blocked : Nat, proxied : Nat, dropped : Nat]

NoStats == [total |-> 0, blocked |-> 0, proxied |-> 0, dropped |-> 0]

ReaderPCs == {"total", "blocked", "proxied", "dropped", "done"}

Init ==
    /\ ch = <<>>
    /\ chClosed = FALSE
    /\ closed = FALSE
    /\ stats = NoStats
    /\ emitter = [e \in Emitters |-> [pc |-> "idle", event |-> "proxy"]]
    /\ closer = [c \in Closers |-> "idle"]
    /\ reader = [pc |-> "total", got |-> NoStats]
    /\ written = 0
    /\ panicked = 0
    /\ up = TRUE

-----------------------------------------------------------------------------
(***************************************************************************)
(* Emit                                                                     *)
(***************************************************************************)

(* The counters counted so far, as a bound for model checking. *)
Counted == stats.blocked + stats.proxied

(* closed.Load: a closed pipeline ignores the event. *)
EmitCheck(e, type) ==
    /\ up
    /\ emitter[e].pc = "idle"
    /\ ~closed
    /\ emitter' = [emitter EXCEPT ![e] = [pc |-> "count", event |-> type]]
    /\ UNCHANGED <<ch, chClosed, closed, stats, closer, reader, written, panicked, up>>

(* blocked.Add or proxied.Add. *)
EmitCount(e) ==
    /\ up
    /\ emitter[e].pc = "count"
    /\ Counted < MaxEvents
    /\ stats' = IF emitter[e].event = "blocked"
                THEN [stats EXCEPT !.blocked = @ + 1]
                ELSE [stats EXCEPT !.proxied = @ + 1]
    /\ emitter' = [emitter EXCEPT ![e].pc = "total"]
    /\ UNCHANGED <<ch, chClosed, closed, closer, reader, written, panicked, up>>

(* total.Add. *)
EmitTotal(e) ==
    /\ up
    /\ emitter[e].pc = "total"
    /\ stats' = [stats EXCEPT !.total = @ + 1]
    /\ emitter' = [emitter EXCEPT ![e].pc = "send"]
    /\ UNCHANGED <<ch, chClosed, closed, closer, reader, written, panicked, up>>

(* Mutant: a plain send, which waits for room. *)
EmitSendBlocking(e) ==
    /\ up
    /\ emitter[e].pc = "send"
    /\ chClosed \/ Len(ch) < Buffer
    /\ IF chClosed
       THEN panicked' = panicked + 1 /\ UNCHANGED ch
       ELSE ch' = Append(ch, emitter[e].event) /\ UNCHANGED panicked
    /\ emitter' = [emitter EXCEPT ![e].pc = "idle"]
    /\ UNCHANGED <<chClosed, closed, stats, closer, reader, written, up>>

(* Mutant: an event that finds the channel full disappears uncounted. *)
EmitSendForgets(e) ==
    /\ up
    /\ emitter[e].pc = "send"
    /\ \/ /\ chClosed
          /\ panicked' = panicked + 1
          /\ UNCHANGED ch
       \/ /\ ~chClosed
          /\ ch' = IF Len(ch) < Buffer THEN Append(ch, emitter[e].event) ELSE ch
          /\ UNCHANGED panicked
    /\ emitter' = [emitter EXCEPT ![e].pc = "idle"]
    /\ UNCHANGED <<chClosed, closed, stats, closer, reader, written, up>>

(* Mutant: one event more than the channel holds. *)
EmitSendOverfills(e) ==
    /\ up
    /\ emitter[e].pc = "send"
    /\ ~chClosed
    /\ \/ /\ Len(ch) <= Buffer
          /\ ch' = Append(ch, emitter[e].event)
          /\ UNCHANGED stats
       \/ /\ Len(ch) > Buffer
          /\ stats' = [stats EXCEPT !.dropped = @ + 1]
          /\ UNCHANGED ch
    /\ emitter' = [emitter EXCEPT ![e].pc = "idle"]
    /\ UNCHANGED <<chClosed, closed, closer, reader, written, panicked, up>>

(* The select: send, or drop when the channel is full.  On a closed channel the *)
(* send case is ready and panics; net/http recovers the request's goroutine.    *)
EmitSend(e) ==
    /\ up
    /\ emitter[e].pc = "send"
    /\ \/ /\ chClosed
          /\ panicked' = panicked + 1
          /\ UNCHANGED <<ch, stats>>
       \/ /\ ~chClosed
          /\ Len(ch) < Buffer
          /\ ch' = Append(ch, emitter[e].event)
          /\ UNCHANGED <<stats, panicked>>
       \/ /\ ~chClosed
          /\ Len(ch) >= Buffer
          /\ stats' = [stats EXCEPT !.dropped = @ + 1]
          /\ UNCHANGED <<ch, panicked>>
    /\ emitter' = [emitter EXCEPT ![e].pc = "idle"]
    /\ UNCHANGED <<chClosed, closed, closer, reader, written, up>>

-----------------------------------------------------------------------------
(***************************************************************************)
(* Close, the worker, Snapshot and the end of main                          *)
(***************************************************************************)

(* Mutant: closed is only loaded here, not swapped. *)
CloseSwapLoads(c) ==
    /\ up
    /\ closer[c] = "idle"
    /\ closer' = [closer EXCEPT ![c] = IF closed THEN "done" ELSE "close"]
    /\ UNCHANGED <<ch, chClosed, closed, stats, emitter, reader, written, panicked, up>>

(* CompareAndSwap(false, true): a second call returns. *)
CloseSwap(c) ==
    /\ up
    /\ closer[c] = "idle"
    /\ closed' = TRUE
    /\ closer' = [closer EXCEPT ![c] = IF closed THEN "done" ELSE "close"]
    /\ UNCHANGED <<ch, chClosed, stats, emitter, reader, written, panicked, up>>

(* close(p.ch). *)
CloseChannel(c) ==
    /\ up
    /\ closer[c] = "close"
    /\ chClosed' = TRUE
    /\ closer' = [closer EXCEPT ![c] = "done"]
    /\ UNCHANGED <<ch, closed, stats, emitter, reader, written, panicked, up>>

(* Mutant: the worker stops as soon as the channel is closed. *)
WorkerStopsEarly ==
    /\ up
    /\ ~chClosed
    /\ ch # <<>>
    /\ ch' = Tail(ch)
    /\ written' = written + 1
    /\ UNCHANGED <<chClosed, closed, stats, emitter, closer, reader, panicked, up>>

(* The worker ranges over the channel: what is buffered is received also after  *)
(* close.                                                                       *)
Worker ==
    /\ up
    /\ ch # <<>>
    /\ ch' = Tail(ch)
    /\ written' = written + 1
    /\ UNCHANGED <<chClosed, closed, stats, emitter, closer, reader, panicked, up>>

(* Snapshot loads the counters one after the other, Total first. *)
SnapshotLoad(pc, next) ==
    /\ up
    /\ reader.pc = pc
    /\ reader' = [pc |-> next, got |-> [reader.got EXCEPT ![pc] = stats[pc]]]
    /\ UNCHANGED <<ch, chClosed, closed, stats, emitter, closer, written, panicked, up>>

(* Mutant: the total is loaded last. *)
SnapshotTotalLast ==
    \/ SnapshotLoad("total", "blocked")
    \/ SnapshotLoad("blocked", "proxied")
    \/ SnapshotLoad("proxied", "dropped")
    \/ /\ up
       /\ reader.pc = "dropped"
       /\ reader' = [pc |-> "done", got |-> [reader.got EXCEPT !.dropped = stats.dropped,
                                                              !.total = stats.total]]
       /\ UNCHANGED <<ch, chClosed, closed, stats, emitter, closer, written, panicked, up>>

Snapshot ==
    \/ SnapshotLoad("total", "blocked")
    \/ SnapshotLoad("blocked", "proxied")
    \/ SnapshotLoad("proxied", "dropped")
    \/ SnapshotLoad("dropped", "done")

(* The response is sent and the next request for statistics begins. *)
SnapshotReturn ==
    /\ up
    /\ reader.pc = "done"
    /\ reader' = [pc |-> "total", got |-> NoStats]
    /\ UNCHANGED <<ch, chClosed, closed, stats, emitter, closer, written, panicked, up>>

(* run returns after its deferred Close, and the process exits. *)
Exit ==
    /\ up
    /\ \E c \in Closers : closer[c] = "done"
    /\ chClosed
    /\ up' = FALSE
    /\ UNCHANGED <<ch, chClosed, closed, stats, emitter, closer, reader, written, panicked>>

-----------------------------------------------------------------------------
EmitStep(e) == EmitCount(e) \/ EmitTotal(e) \/ EmitSend(e)

Next ==
    \/ \E e \in Emitters : EmitStep(e) \/ \E type \in EventTypes : EmitCheck(e, type)
    \/ \E c \in Closers : CloseSwap(c) \/ CloseChannel(c)
    \/ Worker
    \/ Snapshot
    \/ SnapshotReturn
    \/ Exit

Spec == Init /\ [][Next]_vars

(* A request inside Emit runs on.  Nothing is assumed of the worker, which may   *)
(* be stuck in a write to a blocked console.                                     *)
FairSpec == Spec /\ \A e \in Emitters : WF_vars(EmitStep(e))

-----------------------------------------------------------------------------
(***************************************************************************)
(* Properties                                                               *)
(***************************************************************************)

(* Every variable holds a value of its type. *)
TypeOK ==
    /\ ch \in Seq(EventTypes)
    /\ Len(ch) <= Buffer
    /\ chClosed \in BOOLEAN
    /\ closed \in BOOLEAN
    /\ stats \in Stats
    /\ emitter \in [Emitters -> [pc : {"idle", "count", "total", "send"},
                                 event : EventTypes]]
    /\ closer \in [Closers -> {"idle", "close", "done"}]
    /\ reader \in [pc : ReaderPCs, got : Stats]
    /\ written \in Nat
    /\ panicked \in Nat
    /\ up \in BOOLEAN

At(pc) == {e \in Emitters : emitter[e].pc = pc}

(* No event is unaccounted for: each one counted in Total has been written, is   *)
(* buffered, was dropped and counted as such, met a closed channel, or is about   *)
(* to be sent.                                                                   *)
Conservation ==
    stats.total = written + Len(ch) + stats.dropped + panicked + Cardinality(At("send"))

(* What GET logs/stats reports adds up: Emit counts the type before the total,   *)
(* and Snapshot loads them in the opposite order, so the reported total never     *)
(* exceeds the reported types, however emitters and the reader interleave.        *)
StatsAddUp ==
    reader.pc \in {"dropped", "done"} => reader.got.total <= reader.got.blocked + reader.got.proxied

(* "A repeated Close is safely ignored" (pipeline.go): the channel is closed at  *)
(* most once, also by calls that race; closing it twice would panic.             *)
ClosedOnce ==
    \A c \in Closers : closer[c] = "close" =>
        ~chClosed /\ \A d \in Closers : closer[d] = "close" => d = c

(* Emit never waits for the worker: a request that has reached the select leaves  *)
(* it although the channel is full and nobody receives.                          *)
EmitNeverBlocks ==
    \A e \in Emitters : emitter[e].pc = "send" ~> (emitter[e].pc = "idle" \/ ~up)

(* After Close a worker that keeps running writes everything that was accepted,  *)
(* unless the process exits before.                                              *)
DrainsAfterClose == WF_vars(Worker) => (chClosed ~> (ch = <<>> \/ ~up))

(* "When the queue is full the event is dropped and dropped is incremented" is    *)
(* all that Emit's comment lists: it does not panic.                              *)
EmitNeverPanics == panicked = 0

-----------------------------------------------------------------------------
(* The closed channel is preceded by the flag, and the flag by a winning call. *)
CloseInv ==
    /\ ClosedOnce
    /\ chClosed => closed
    /\ \A c \in Closers : closer[c] = "close" => closed

(* The counter of the type is ahead of the total by the requests in between, and *)
(* what the reader holds is not ahead of the counters.                           *)
CountInv ==
    /\ Counted = stats.total + Cardinality(At("total"))
    /\ reader.pc \in {"blocked", "proxied", "dropped", "done"} => reader.got.total <= stats.total
    /\ reader.pc \in {"proxied", "dropped", "done"} =>
          /\ reader.got.blocked <= stats.blocked
          /\ reader.got.total <= reader.got.blocked + stats.proxied
    /\ StatsAddUp

IInv == TypeOK /\ Conservation /\ CloseInv /\ CountInv

=============================================================================
