-------------------------------- MODULE LBAdmin --------------------------------
(***************************************************************************)
(* The admin handlers for traffic pools and routes (internal/admin/lb.go).   *)
(* CurrentConfig returns a copy of the document whose slices share their     *)
(* arrays with the live snapshot; the handlers edit that copy, validate it,  *)
(* apply it and save a version.                                             *)
(*                                                                         *)
(* Go slices are modelled as such: a slice is an array of the heap and a     *)
(* length; append writes into spare capacity when there is some.             *)
(***************************************************************************)
EXTENDS Routing

CONSTANTS
    Handlers,       \* admin requests in flight
    PoolIds,        \* identifiers of pools
    Fold,           \* strings.EqualFold: ids with the same image differ only in case
    PoolBodies,     \* node lists sent for a pool
    RouteBodies,    \* [pool, fallback] sent for a domain
    FirstPools,     \* the pools of the document the process starts with
    FirstRoutes,    \* its routes
    MaxArrays,      \* bound on the arrays allocated
    MaxVersions     \* bound on saved versions

VARIABLES
    heap,           \* the arrays, by number; an array is a sequence of its capacity
    live,           \* loadBalancer section of Manager.data.cfg: slices and default
    compiled,       \* the pools and routes compiled from it, which the gateway uses
    versions,       \* table config_versions
    local           \* local state of every handler

vars == <<heap, live, compiled, versions, local>>

Slice(arr, len) == [arr |-> arr, len |-> len]

(* What a slice, and what a document, shows. *)
Items(slice) == SubSeq(heap[slice.arr], 1, slice.len)

Value(doc) == [pools |-> Items(doc.pools), routes |-> Items(doc.routes), default |-> doc.default]

Idle == [pc |-> "idle"]

Init ==
    /\ heap = <<FirstPools, FirstRoutes>>
    /\ live = [pools |-> Slice(1, Len(FirstPools)), routes |-> Slice(2, Len(FirstRoutes)),
               default |-> None]
    /\ compiled = Value(live)
    /\ versions = <<>>
    /\ local = [h \in Handlers |-> Idle]

-----------------------------------------------------------------------------
(* findPoolIndex ignores case; findRouteIndex compares normalised domains. *)
findPoolIndex(items, id) == SelectInSeq(items, LAMBDA pool : Fold[pool.id] = Fold[id])

findRouteIndex(items, domain) == SelectInSeq(items, LAMBDA route : route.domain = domain)

(* removeRoutesByPoolID compares the identifier as it is. *)
removeRoutesByPoolID(items, id) ==
    SelectSeq(items, LAMBDA route : route.pool # id /\ route.fallback # id)

(* A new array; its number is the next one. *)
Alloc(items) == heap' = Append(heap, items)

(* append(s, item): in place when the array has room, else a copy of twice the    *)
(* capacity.  "spare" stands for the unused places of that copy.                  *)
AppendItem(h, field, item) ==
    LET doc   == local[h].doc
        slice == doc[field]
        spare == [i \in 1..(slice.len - 1) |-> item]
    IN  IF slice.len < Len(heap[slice.arr])
        THEN /\ heap' = [heap EXCEPT ![slice.arr][slice.len + 1] = item]
             /\ local' = [local EXCEPT ![h].pc = "validate", ![h].doc[field].len = @ + 1]
        ELSE /\ Len(heap) < MaxArrays
             /\ Alloc(Append(Items(slice), item) \o spare)
             /\ local' = [local EXCEPT ![h].pc = "validate",
                                       ![h].doc[field] = Slice(Len(heap) + 1, slice.len + 1)]

(* append(s[:i], s[i+1:]...): the rest is moved down inside the array. *)
Shift(array, i, len) ==
    [k \in DOMAIN array |-> IF k \in i..(len - 1) THEN array[k + 1] ELSE array[k]]

-----------------------------------------------------------------------------
(***************************************************************************)
(* Handlers: CurrentConfig and the search come first, the request body is    *)
(* decoded, then the copy is edited.                                        *)
(***************************************************************************)
Read(h, op, key) ==
    LET index == CASE op \in {"poolPut", "poolDelete"} -> findPoolIndex(Items(live.pools), key)
                   [] op \in {"routePut", "routeDelete"} -> findRouteIndex(Items(live.routes), key)
                   [] op = "poolPost" -> 0
    IN  /\ local[h].pc = "idle"
        /\ op \in {"poolPut", "poolDelete", "routeDelete"} => index # 0
        /\ local' = [local EXCEPT ![h] =
                       [pc |-> op, doc |-> live, key |-> key, index |-> index]]
        /\ UNCHANGED <<heap, live, compiled, versions>>

Edited(h, doc) == local' = [local EXCEPT ![h].pc = "validate", ![h].doc = doc]

(* POST lb/pools *)
PoolPost(h, nodes) ==
    /\ local[h].pc = "poolPost"
    /\ AppendItem(h, "pools", [id |-> local[h].key, nodes |-> nodes])
    /\ UNCHANGED <<live, compiled, versions>>

(* PUT lb/pools/{id}: written into the array. *)
PoolPut(h, nodes) ==
    /\ local[h].pc = "poolPut"
    /\ heap' = [heap EXCEPT ![local[h].doc.pools.arr][local[h].index] =
                  [id |-> local[h].key, nodes |-> nodes]]
    /\ Edited(h, local[h].doc)
    /\ UNCHANGED <<live, compiled, versions>>

(* DELETE lb/pools/{id}: the pools are shifted, the routes filtered into a new    *)
(* array, the default cleared.                                                    *)
PoolDelete(h) ==
    LET doc  == local[h].doc
        rest == removeRoutesByPoolID(Items(doc.routes), local[h].key)
    IN  /\ local[h].pc = "poolDelete"
        /\ Len(heap) < MaxArrays
        /\ heap' = Append([heap EXCEPT ![doc.pools.arr] = Shift(@, local[h].index, doc.pools.len)],
                          rest)
        /\ Edited(h, [pools   |-> Slice(doc.pools.arr, doc.pools.len - 1),
                      routes  |-> Slice(Len(heap) + 1, Len(rest)),
                      default |-> IF doc.default # None /\ Fold[doc.default] = Fold[local[h].key]
                                  THEN None ELSE doc.default])
        /\ UNCHANGED <<live, compiled, versions>>

(* PUT lb/routes/{domain} *)
RoutePut(h, body) ==
    LET route == [domain |-> local[h].key, pool |-> body.pool, fallback |-> body.fallback,
                  force |-> FALSE]
    IN  /\ local[h].pc = "routePut"
        /\ IF local[h].index # 0
           THEN /\ heap' = [heap EXCEPT ![local[h].doc.routes.arr][local[h].index] = route]
                /\ Edited(h, local[h].doc)
           ELSE AppendItem(h, "routes", route)
        /\ UNCHANGED <<live, compiled, versions>>

(* DELETE lb/routes/{domain} *)
RouteDelete(h) ==
    LET slice == local[h].doc.routes IN
    /\ local[h].pc = "routeDelete"
    /\ heap' = [heap EXCEPT ![slice.arr] = Shift(@, local[h].index, slice.len)]
    /\ Edited(h, [local[h].doc EXCEPT !.routes.len = @ - 1])
    /\ UNCHANGED <<live, compiled, versions>>

-----------------------------------------------------------------------------
(***************************************************************************)
(* applyLBConfig                                                            *)
(***************************************************************************)

(* Manager.Validate; issues are answered with 400. *)
Validate(h) ==
    /\ local[h].pc = "validate"
    /\ local' = IF ValidLB(Value(local[h].doc))
                THEN [local EXCEPT ![h].pc = "apply"]
                ELSE [local EXCEPT ![h] = Idle]
    /\ UNCHANGED <<heap, live, compiled, versions>>

(* Manager.Apply: the snapshot keeps the slices of the document. *)
Apply(h) ==
    /\ local[h].pc = "apply"
    /\ live' = local[h].doc
    /\ compiled' = Value(local[h].doc)
    /\ local' = [local EXCEPT ![h].pc = "save"]
    /\ UNCHANGED <<heap, versions>>

(* SaveVersion marshals the document as it is by now. *)
SaveVersion(h) ==
    /\ local[h].pc = "save"
    /\ \/ Len(versions) < MaxVersions /\ versions' = Append(versions, Value(local[h].doc))
       \/ UNCHANGED versions
    /\ local' = [local EXCEPT ![h] = Idle]
    /\ UNCHANGED <<heap, live, compiled>>

(* UpdateProviderStatus: Apply(CurrentConfig()), without Validate. *)
Reapply ==
    /\ compiled' = Value(live)
    /\ UNCHANGED <<heap, live, versions, local>>

-----------------------------------------------------------------------------
Step(h) ==
    \/ \E id \in PoolIds, op \in {"poolPost", "poolPut", "poolDelete"} : Read(h, op, id)
    \/ \E domain \in Domains, op \in {"routePut", "routeDelete"} : Read(h, op, domain)
    \/ \E nodes \in PoolBodies : PoolPost(h, nodes) \/ PoolPut(h, nodes)
    \/ PoolDelete(h)
    \/ \E body \in RouteBodies : RoutePut(h, body)
    \/ RouteDelete(h)
    \/ Validate(h)
    \/ Apply(h)
    \/ SaveVersion(h)

Next == Reapply \/ \E h \in Handlers : Step(h)

Spec == Init /\ [][Next]_vars

-----------------------------------------------------------------------------
(***************************************************************************)
(* Properties                                                               *)
(***************************************************************************)

(* "compiles the configuration into a read-only snapshot" (manager.go): as long   *)
(* as no other snapshot is stored, the document of the live one does not change.   *)
SnapshotIsReadOnly == [][live' = live => Value(live)' = Value(live)]_vars

=============================================================================
