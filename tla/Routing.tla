-------------------------------- MODULE Routing --------------------------------
(***************************************************************************)
(* Routes and traffic pools (internal/config/manager_lb.go and the routing  *)
(* part of manager.go): how a document is prepared (migration of the legacy *)
(* routing section, conflict check), how pools are compiled into weighted   *)
(* rings, and which pool or upstream answers for a host.                    *)
(*                                                                         *)
(* Host names are normalised.  A wildcard "*.suffix" is a value of its own; *)
(* Matches gives the hosts with that suffix.                                *)
(***************************************************************************)
EXTENDS Integers, Sequences, SequencesExt

CONSTANTS
    Hosts,          \* host names
    Wildcards,      \* wildcard domains
    Matches,        \* the hosts a wildcard covers
    Token,          \* sanitizePoolToken: what is left of a domain in a pool id
    Upstreams,      \* upstream addresses
    None,           \* an empty pool id or upstream
    MaxNodeWeight   \* lbMaxNodeWeight

ASSUME RoutingAssumption ==
    /\ Hosts \cap Wildcards = {}
    /\ Matches \in [Wildcards -> SUBSET Hosts]
    /\ DOMAIN Token = Hosts \cup Wildcards
    /\ None \notin Upstreams \cup Hosts \cup Wildcards
    /\ None \notin ({Token[d] : d \in DOMAIN Token} \cup {"default"}) \X Nat
    /\ MaxNodeWeight \in Nat \ {0}

Domains == Hosts \cup Wildcards

(* A document has "legacy" (routing) and "lb" (loadBalancer):                    *)
(*   legacy : [domains : Seq([domain, upstream, force]), default]                *)
(*   lb     : [pools : Seq([id, nodes]), routes : Seq([domain, pool, fallback,   *)
(*             force]), default]                                                 *)
(* and a node is [upstream, weight, enabled].                                    *)
NoLegacy == [domains |-> <<>>, default |-> None]
NoLB     == [pools |-> <<>>, routes |-> <<>>, default |-> None]

hasLoadBalancerBinding(lb) == lb.default # None \/ lb.pools # <<>> \/ lb.routes # <<>>

hasLegacyRouting(legacy) == legacy.default # None \/ legacy.domains # <<>>

-----------------------------------------------------------------------------
(***************************************************************************)
(* Pools                                                                    *)
(***************************************************************************)
normalizeNodeWeight(weight) ==
    IF weight <= 0 THEN 1 ELSE Min({weight, MaxNodeWeight})

EnabledNodes(pool) == {i \in DOMAIN pool.nodes : pool.nodes[i].enabled}

(* compileLoadBalancerPool: the index of every enabled node, as often as its     *)
(* weight says.                                                                  *)
Ring(pool) ==
    LET places(i) == IF i \in EnabledNodes(pool)
                     THEN normalizeNodeWeight(pool.nodes[i].weight) ELSE 0
    IN  FlattenSeq([i \in DOMAIN pool.nodes |-> [k \in 1..places(i) |-> i]])

(* lbPools: of two pools with the same id the later one is kept. *)
PoolIndex(lb, id) == SelectLastInSeq(lb.pools, LAMBDA pool : pool.id = id)

(* pickTargetFromPool finds a node exactly when the ring is not empty. *)
Usable(lb, id) ==
    /\ id # None
    /\ PoolIndex(lb, id) # 0
    /\ Ring(lb.pools[PoolIndex(lb, id)]) # <<>>

(* Mutant: the last place of the ring is never reached. *)
PickTargetSkipsLast(lb, id, next) ==
    LET pool == lb.pools[PoolIndex(lb, id)]
        ring == Ring(pool)
    IN  pool.nodes[ring[(next % Max({1, Len(ring) - 1})) + 1]].upstream

(* The upstream picked when the pool's counter has become "next". *)
PickTarget(lb, id, next) ==
    LET pool == lb.pools[PoolIndex(lb, id)]
        ring == Ring(pool)
    IN  pool.nodes[ring[(next % Len(ring)) + 1]].upstream

(* resolvePoolTarget: the primary pool, then the fallback. *)
ResolvePool(lb, route) ==
    IF Usable(lb, route.pool) THEN route.pool
    ELSE IF Usable(lb, route.fallback) THEN route.fallback
    ELSE None

-----------------------------------------------------------------------------
(***************************************************************************)
(* Routes                                                                   *)
(***************************************************************************)

(* Mutant: a wildcard rule is not taken into account for the hosts it covers. *)
hasRuleIgnoringWildcards(lb, domain) ==
    \E i \in DOMAIN lb.routes : lb.routes[i].domain = domain

(* A load-balancer rule takes the domain over. *)
hasLoadBalancerRuleForDomain(lb, domain) ==
    \E i \in DOMAIN lb.routes :
        \/ lb.routes[i].domain = domain
        \/ /\ domain \in Hosts
           /\ lb.routes[i].domain \in Wildcards
           /\ domain \in Matches[lb.routes[i].domain]

NoRoute == [pool |-> None, target |-> None, force |-> FALSE]

(* The legacy tables of the snapshot: rules taken over by the load balancer are  *)
(* left out; the last exact rule, the first wildcard, the default.               *)
LegacyRoute(doc, host) ==
    LET rules == doc.legacy.domains
        kept(rule) == ~hasLoadBalancerRuleForDomain(doc.lb, rule.domain)
        exact == SelectLastInSeq(rules, LAMBDA rule : kept(rule) /\ rule.domain = host)
        wild  == SelectInSeq(rules, LAMBDA rule : kept(rule) /\ rule.domain \in Wildcards
                                                  /\ host \in Matches[rule.domain])
        hit(i) == [pool |-> None, target |-> rules[i].upstream, force |-> rules[i].force]
    IN  IF exact # 0 THEN hit(exact)
        ELSE IF wild # 0 THEN hit(wild)
        ELSE IF doc.legacy.default # None /\ doc.lb.default = None
             THEN [NoRoute EXCEPT !.target = doc.legacy.default]
        ELSE NoRoute

(* lbExactRoutes: of two rules for one domain the later one is kept. *)
ExactRoute(lb, host) == SelectLastInSeq(lb.routes, LAMBDA route : route.domain = host)

(* The first rule for a wildcard that covers the host and finds a node. *)
WildcardRoute(lb, host) ==
    SelectInSeq(lb.routes, LAMBDA route : /\ route.domain \in Wildcards
                                          /\ host \in Matches[route.domain]
                                          /\ ResolvePool(lb, route) # None)

(* ResolveRoute, up to the choice of a node inside the pool: the exact rule, the *)
(* wildcards, the default pool (resolveLoadBalancerRoute), the legacy tables.    *)
ResolveRoute(doc, host) ==
    LET lb     == doc.lb
        exact  == ExactRoute(lb, host)
        wild   == WildcardRoute(lb, host)
        hit(i) == [pool |-> ResolvePool(lb, lb.routes[i]), target |-> None,
                   force |-> lb.routes[i].force]
    IN  IF exact # 0 /\ ResolvePool(lb, lb.routes[exact]) # None THEN hit(exact)
        ELSE IF wild # 0 THEN hit(wild)
        ELSE IF Usable(lb, lb.default) THEN [NoRoute EXCEPT !.pool = lb.default]
        ELSE LegacyRoute(doc, host)

-----------------------------------------------------------------------------
(***************************************************************************)
(* Preparation: prepareRoutingAndLoadBalancer                               *)
(***************************************************************************)

(* checkRoutingLoadBalancerConflict *)
HasConflict(doc) ==
    /\ hasLegacyRouting(doc.legacy)
    /\ hasLoadBalancerBinding(doc.lb)
    /\ \/ \E i \in DOMAIN doc.legacy.domains :
             hasLoadBalancerRuleForDomain(doc.lb, doc.legacy.domains[i].domain)
       \/ doc.legacy.default # None /\ doc.lb.default # None

(* Mutant: the id is not checked against the ids in use. *)
buildMigratedPoolIDUnchecked(token, used) == <<token, 1>>

(* The token, with the first number that makes it new. *)
buildMigratedPoolID(token, used) ==
    <<token, CHOOSE n \in 1..(Cardinality(used) + 1) :
                 /\ <<token, n>> \notin used
                 /\ \A m \in 1..(n - 1) : <<token, m>> \in used>>

SingleNodePool(id, upstream) ==
    [id |-> id, nodes |-> <<[upstream |-> upstream, weight |-> 1, enabled |-> TRUE]>>]

UsedIDs(lb) == {lb.pools[i].id : i \in DOMAIN lb.pools}

(* A pool and a route for a legacy rule; rules without an upstream are skipped. *)
MigrateRule(lb, rule) ==
    LET id == buildMigratedPoolID(Token[rule.domain], UsedIDs(lb)) IN
    IF rule.upstream = None THEN lb
    ELSE [lb EXCEPT !.pools  = Append(@, SingleNodePool(id, rule.upstream)),
                    !.routes = Append(@, [domain |-> rule.domain, pool |-> id,
                                          fallback |-> None, force |-> rule.force])]

MigrateDefault(lb, upstream) ==
    LET id == buildMigratedPoolID("default", UsedIDs(lb)) IN
    IF upstream = None THEN lb
    ELSE [lb EXCEPT !.pools = Append(@, SingleNodePool(id, upstream)), !.default = id]

(* The legacy rules in their order, then the default. *)
migrateRoutingToLoadBalancer(legacy) ==
    LET rules == legacy.domains
        routed[n \in 0..Len(rules)] ==
            IF n = 0 THEN NoLB ELSE MigrateRule(routed[n - 1], rules[n])
    IN  MigrateDefault(routed[Len(rules)], legacy.default)

Prepare(doc) ==
    IF hasLoadBalancerBinding(doc.lb) \/ ~hasLegacyRouting(doc.legacy)
    THEN doc
    ELSE [doc EXCEPT !.lb = migrateRoutingToLoadBalancer(doc.legacy), !.legacy = NoLegacy]

(* buildSnapshot and compileLoadBalancerPool refuse an enabled node, and a       *)
(* legacy rule, without an upstream.                                             *)
Compiles(doc) ==
    /\ \A i \in DOMAIN doc.lb.pools : \A j \in EnabledNodes(doc.lb.pools[i]) :
          doc.lb.pools[i].nodes[j].upstream # None
    /\ \A i \in DOMAIN doc.legacy.domains : doc.legacy.domains[i].upstream # None

(* What does not compile does not go live. *)
Compiled(doc) ==
    LET Node == [upstream : Upstreams \cup {None}, weight : Int, enabled : BOOLEAN]
        Rule == [domain : Domains, upstream : Upstreams, force : BOOLEAN]
    IN  /\ doc.lb.pools \in Seq([id : UsedIDs(doc.lb), nodes : Seq(Node)])
        /\ Compiles(doc)
        /\ doc.legacy.domains \in Seq(Rule)

-----------------------------------------------------------------------------
(***************************************************************************)
(* validateLoadBalancerConfig: ids are unique and references resolve.       *)
(***************************************************************************)
ValidPool(pool) ==
    \A i \in DOMAIN pool.nodes : pool.nodes[i].weight > 0 /\ pool.nodes[i].upstream # None

ValidLB(lb) ==
    LET ids == {lb.pools[i].id : i \in DOMAIN lb.pools} IN
    /\ \A i, j \in DOMAIN lb.pools : lb.pools[i].id = lb.pools[j].id => i = j
    /\ \A i \in DOMAIN lb.pools : ValidPool(lb.pools[i])
    /\ lb.default \in ids \cup {None}
    /\ \A i \in DOMAIN lb.routes :
          /\ lb.routes[i].pool \in ids
          /\ lb.routes[i].fallback \in ids \cup {None}

=============================================================================
