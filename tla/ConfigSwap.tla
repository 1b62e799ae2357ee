------------------------------ MODULE ConfigSwap ------------------------------
(***************************************************************************)
(* What the configuration manager promises its readers.  Before the start  *)
(* there is no snapshot.  The first one holds the environment's values and  *)
(* no provider list.  From then on a step replaces the whole snapshot by    *)
(* what buildSnapshot makes of one prepared document and of the provider    *)
(* lists of one instant, or leaves it alone when a document is refused:      *)
(* a reader never sees a document mixed with lists it was not compiled with. *)
(***************************************************************************)
EXTENDS ConfigSnapshot

VARIABLE live

(* Snapshots buildSnapshot can have returned for a prepared document. *)
Compiled(s) ==
    /\ s \in Snapshot
    /\ s.cfg.routing = "lb"
    /\ Builds(s.cfg, AllDynamic(s.cdn), s.cdn)
    /\ s = Build(s.cfg, AllDynamic(s.cdn), s.cdn)

Init == live = NoSnapshot

Start ==
    /\ live = NoSnapshot
    /\ Compiled(live')
    /\ live'.cfg.env
    /\ live'.cdn = NoStatuses

Swap ==
    /\ live # NoSnapshot
    /\ Compiled(live')

(* The process ends and its memory with it. *)
Stop == live' = NoSnapshot

Next == Start \/ Swap \/ Stop

Spec == Init /\ [][Next]_live

=============================================================================
