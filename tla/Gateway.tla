-------------------------------- MODULE Gateway --------------------------------
(***************************************************************************)
(* gateway.Handler.ServeHTTP: each request reads the site store and the     *)
(* live snapshot several times, while documents are swapped and sites are   *)
(* edited; every read is a step of its own, and those of the site store may *)
(* fail, which the handler takes for a host without a site.                 *)
(*                                                                         *)
(* ResolveRoute is one step: it loads the snapshot and advances the counter *)
(* of the pool it picks from.  A swap in between would only let it advance  *)
(* the counter of a snapshot that nobody reads any more.                    *)
(***************************************************************************)
EXTENDS Routing

CONSTANTS
    Requests,       \* requests in flight
    Addresses,      \* IP addresses
    Documents,      \* documents the manager may swap in, prepared and compiled
    SitePolicies,   \* security sections of site configurations
    OriginLists,    \* sets of addresses the provider lists of a site may contain
    Inputs,         \* requests: [host, peer, xff, real, tls]
    NoSite,         \* no site configuration for this host
    Malformed,      \* an entry of a site's list that is no CIDR and contains no address
    MaxPicks,       \* bound on picks from a pool
    MaxChanges,     \* bound on swaps and site edits
    MaxErrors       \* bound on failing reads of the site store

PoolIds(doc) == UsedIDs(doc.lb)

ASSUME GatewayAssumption ==
    /\ MaxPicks \in Nat
    /\ MaxChanges \in Nat
    /\ MaxErrors \in Nat
    /\ {} \in OriginLists /\ OriginLists \subseteq SUBSET Addresses
    /\ Malformed \notin Addresses
    /\ NoSite \notin SitePolicies
    /\ \A policy \in SitePolicies : policy.trusted \cup policy.allowed \subseteq Addresses \cup {Malformed}
    /\ \A doc \in Documents : doc.allowed \subseteq Addresses /\ doc.trusted \subseteq Addresses
    /\ \A doc \in Documents : Compiled(doc)
    /\ \A input \in Inputs :
          input.host \in Hosts /\ input.peer \in Addresses /\ input.xff \in Seq(Addresses)

VARIABLES
    live,           \* the document of the live snapshot
    picks,          \* upstreams picked from each pool of the live snapshot, in order;
                    \* its length is compiledPool.Counter
    forwarded,      \* history: the picks of these that a request was forwarded to
    site,           \* site configuration and current CDN origin addresses of each host
    changes,        \* swaps and edits so far
    errors,         \* reads of the site store that failed so far
    req,            \* local state of every request
    seen            \* history: documents and site policies in force since a request began

vars == <<live, picks, forwarded, site, changes, errors, req, seen>>

NoPicks(doc) == [id \in PoolIds(doc) |-> <<>>]

(* A site policy is [trusted, allowed, cdn : BOOLEAN]; cdn means that providers  *)
(* are listed and the protection is not disabled.  A site's lists are stored     *)
(* unchecked: a Malformed entry counts as an entry and contains nobody.          *)
(* origins: the addresses that the fresh lists of these providers contain.        *)
Unknown == [policy |-> NoSite, origins |-> {}]

Sites ==
    {value \in [policy : SitePolicies, origins : OriginLists] : ~value.policy.cdn => value.origins = {}}
        \cup {Unknown}

Idle == [pc |-> "idle"]

Init ==
    /\ live \in Documents
    /\ picks = NoPicks(live)
    /\ forwarded = NoPicks(live)
    /\ site = [h \in Hosts |-> Unknown]
    /\ changes = 0
    /\ errors = 0
    /\ req = [r \in Requests |-> Idle]
    /\ seen = [r \in Requests |-> {}]

-----------------------------------------------------------------------------
(* What has been in force since a request began grows with every step. *)
See ==
    seen' = [r \in Requests |->
               IF req'[r] = Idle THEN {}
               ELSE seen[r] \cup {[doc |-> live', site |-> site'[req'[r].input.host]]}]

(* Manager.Apply stores another snapshot: its counters start at zero. *)
SwapDocument(doc) ==
    /\ changes < MaxChanges
    /\ doc # live
    /\ live' = doc
    /\ picks' = NoPicks(doc)
    /\ forwarded' = NoPicks(doc)
    /\ changes' = changes + 1
    /\ UNCHANGED <<site, errors, req>>
    /\ See

(* The site of a host is created, edited or deleted, or its origin addresses     *)
(* are refreshed or expire.                                                      *)
ChangeSite(host, value) ==
    /\ changes < MaxChanges
    /\ site[host] # value
    /\ site' = [site EXCEPT ![host] = value]
    /\ changes' = changes + 1
    /\ UNCHANGED <<live, picks, forwarded, errors, req>>
    /\ See

-----------------------------------------------------------------------------
(***************************************************************************)
(* ServeHTTP                                                                *)
(***************************************************************************)

(* Mutant: the forwarded addresses are believed whoever sends them. *)
parseClientIPAnyPeer(input, trusted) ==
    LET i == SelectLastInSeq(input.xff, LAMBDA a : a \notin trusted) IN
    IF i # 0 THEN input.xff[i] ELSE input.peer

(* parseClientIP: the peer, unless it is a trusted proxy; then the right-most    *)
(* address of X-Forwarded-For that is not a trusted proxy, or the left-most;      *)
(* X-Real-IP when there is no X-Forwarded-For.                                   *)
parseClientIP(input, trusted) ==
    LET i == SelectLastInSeq(input.xff, LAMBDA a : a \notin trusted) IN
    IF input.peer \notin trusted THEN input.peer
    ELSE IF i # 0 THEN input.xff[i]
    ELSE IF input.xff # <<>> THEN input.xff[1]
    ELSE IF input.real # None THEN input.real
    ELSE input.peer

Step(r, pc, local) ==
    /\ req[r].pc = pc
    /\ req' = [req EXCEPT ![r] = local]
    /\ UNCHANGED <<live, site, changes>>
    /\ See

(* A query of the site store returns an error. *)
ReadFails ==
    /\ errors < MaxErrors
    /\ errors' = errors + 1

(* GetSiteIDByHostname; after an error the id is empty although there is a site. *)
ReadSiteID(r, input) ==
    /\ \E known \in {site[input.host].policy # NoSite, FALSE} :
          /\ Step(r, "idle", [pc |-> "policy", input |-> input, known |-> known])
          /\ IF known = (site[input.host].policy # NoSite) THEN UNCHANGED errors ELSE ReadFails
    /\ UNCHANGED <<picks, forwarded>>

(* GetSiteConfigByHostname, another query.  When it fails, or when the stored     *)
(* document does not parse, the handler goes on as for a host without a site;     *)
(* "failed" (history) tells the two apart.                                       *)
ReadPolicy(r) ==
    /\ req[r].pc = "policy"
    /\ LET stored == site[req[r].input.host].policy IN
       \E policy \in {stored, NoSite} :
          /\ Step(r, "policy", [pc |-> "client", input |-> req[r].input, known |-> req[r].known,
                                policy |-> policy, failed |-> policy # stored])
          /\ IF policy = stored THEN UNCHANGED errors ELSE ReadFails
    /\ UNCHANGED <<picks, forwarded>>

(* CurrentConfig, for the trusted proxies; the site's list wins if it has entries, *)
(* well formed or not.                                                           *)
TrustedProxies(policy, doc) ==
    IF policy # NoSite /\ policy.trusted # {} THEN policy.trusted ELSE doc.trusted

ReadClient(r) ==
    /\ req[r].pc = "client"
    /\ LET trusted == TrustedProxies(req[r].policy, live) IN
       Step(r, "client", [pc |-> "check", input |-> req[r].input, known |-> req[r].known,
                          policy |-> req[r].policy, failed |-> req[r].failed,
                          client |-> parseClientIP(req[r].input, trusted)])
    /\ UNCHANGED <<picks, forwarded, errors>>

(* The whitelist of the site, or the global one; without entries it admits       *)
(* everyone, with nothing but Malformed ones nobody.                             *)
Admits(policy, origins, doc, client) ==
    IF policy = NoSite
    THEN doc.allowed = {} \/ client \in doc.allowed
    ELSE \/ ~policy.cdn /\ policy.allowed = {}
         \/ policy.cdn /\ client \in origins
         \/ client \in policy.allowed

(* The addresses of the CDN count only when the site's id was found. *)
CheckClient(r) ==
    /\ req[r].pc = "check"
    /\ LET origins  == IF req[r].known THEN site[req[r].input.host].origins ELSE {}
           admitted == Admits(req[r].policy, origins, live, req[r].client)
       IN  Step(r, "check", [pc |-> IF admitted THEN "authorize" ELSE "refuse",
                             input |-> req[r].input, failed |-> req[r].failed,
                             client |-> req[r].client])
    /\ UNCHANGED <<picks, forwarded, errors>>

(* ResolveRoute with its side effect on the counter. *)
Advance(route) ==
    picks' = IF route.pool = None THEN picks
             ELSE [picks EXCEPT ![route.pool] =
                     Append(@, PickTarget(live.lb, route.pool, Len(@) + 1))]

CanPick(route) == route.pool # None => Len(picks[route.pool]) < MaxPicks

(* Mutant: the answer of IsHostAuthorized is not used. *)
AuthorizeAlways(r) ==
    /\ req[r].pc \in {"authorize", "refuse"}
    /\ LET route == ResolveRoute(live, req[r].input.host) IN
       /\ CanPick(route)
       /\ Advance(route)
       /\ Step(r, req[r].pc, [req[r] EXCEPT
                 !.pc = IF req[r].pc = "refuse" THEN "blocked" ELSE "resolve"])
    /\ UNCHANGED <<forwarded, errors>>

(* IsHostAuthorized, called for refused clients too, is ResolveRoute with its    *)
(* result dropped.                                                               *)
Authorize(r) ==
    /\ req[r].pc \in {"authorize", "refuse"}
    /\ LET route == ResolveRoute(live, req[r].input.host) IN
       /\ CanPick(route)
       /\ Advance(route)
       /\ Step(r, req[r].pc, [req[r] EXCEPT
                 !.pc = IF req[r].pc = "refuse" \/ route = NoRoute THEN "blocked" ELSE "resolve"])
    /\ UNCHANGED <<forwarded, errors>>

(* ResolveRoute, and what follows from it: 502, a redirect to HTTPS, or the      *)
(* proxy.                                                                        *)
Resolve(r) ==
    /\ req[r].pc = "resolve"
    /\ LET route  == ResolveRoute(live, req[r].input.host)
           target == IF route.pool = None THEN route.target ELSE Last(picks'[route.pool])
           pc     == IF route = NoRoute THEN "badgateway"
                     ELSE IF route.force /\ ~req[r].input.tls THEN "redirected"
                     ELSE "forwarded"
       IN  /\ CanPick(route)
           /\ Advance(route)
           /\ forwarded' = IF pc = "forwarded" /\ route.pool # None
                           THEN [forwarded EXCEPT ![route.pool] = Append(@, target)]
                           ELSE forwarded
           /\ UNCHANGED errors
           /\ Step(r, "resolve", [pc |-> pc, input |-> req[r].input, failed |-> req[r].failed,
                                  client |-> req[r].client, target |-> target])

(* The response has been sent and the log event emitted. *)
Finish(r) ==
    /\ req[r].pc \in {"blocked", "badgateway", "redirected", "forwarded"}
    /\ Step(r, req[r].pc, Idle)
    /\ UNCHANGED <<picks, forwarded, errors>>

-----------------------------------------------------------------------------
Serve(r) ==
    \/ \E input \in Inputs : ReadSiteID(r, input)
    \/ ReadPolicy(r)
    \/ ReadClient(r)
    \/ CheckClient(r)
    \/ Authorize(r)
    \/ Resolve(r)
    \/ Finish(r)

Next ==
    \/ \E doc \in Documents : SwapDocument(doc)
    \/ \E host \in Hosts, value \in Sites : ChangeSite(host, value)
    \/ \E r \in Requests : Serve(r)

Spec == Init /\ [][Next]_vars

-----------------------------------------------------------------------------
(***************************************************************************)
(* Properties                                                               *)
(***************************************************************************)

(* The upstreams a document may forward a host to. *)
Targets(doc, host) ==
    LET route == ResolveRoute(doc, host)
        pool  == doc.lb.pools[PoolIndex(doc.lb, route.pool)]
    IN  IF route.pool = None THEN {route.target} \ {None}
        ELSE {pool.nodes[i].upstream : i \in EnabledNodes(pool)}

(* The address follows from the headers as far as trusted proxies vouch for them. *)
Vouched(input, client, trusted) ==
    \/ client = input.peer
    \/ /\ input.peer \in trusted
       /\ \/ input.xff = <<>> /\ client = input.real
          \/ \E i \in DOMAIN input.xff :
                /\ input.xff[i] = client
                /\ \A j \in DOMAIN input.xff : j > i => input.xff[j] \in trusted

(* The policies a request may go by: those of its host since it began, or none at  *)
(* all after its read of the policy failed.                                       *)
Policies(q, since) == IF q.failed THEN {NoSite} ELSE {s.site.policy : s \in since}

(* A forwarded request goes by one site policy, in force at some moment since it   *)
(* began: by its trusted proxies the client address is vouched for, and by its     *)
(* whitelist the same address is admitted, whatever was swapped and edited         *)
(* meanwhile.  The global whitelist and the global proxies decide about a host     *)
(* with a site only if the read of the site's configuration failed.  The upstream  *)
(* is an enabled one of the host in a document in force since then.               *)
ForwardingIsJustified ==
    \A r \in Requests : req[r].pc = "forwarded" =>
        /\ \E policy \in Policies(req[r], seen[r]) :
              /\ \E s \in seen[r] :
                    Vouched(req[r].input, req[r].client, TrustedProxies(policy, s.doc))
              /\ \E s \in seen[r] :
                    Admits(policy, s.site.origins, s.doc, req[r].client)
        /\ \E s \in seen[r] : req[r].target \in Targets(s.doc, req[r].input.host)

(* A host that was authorized is answered with 502 "route not found" only when    *)
(* the document was swapped while the request was on its way.                     *)
BadGatewayMeansSwap ==
    \A r \in Requests : req[r].pc = "badgateway" =>
        \E s, t \in seen[r] : s.doc # t.doc

(* The places of a turn that the weights give to an upstream: one <<node, k>> for  *)
(* each unit k of the weight of each enabled node with that address.              *)
Share(pool, upstream) ==
    {place \in EnabledNodes(pool) \X (1..MaxNodeWeight) :
        /\ pool.nodes[place[1]].upstream = upstream
        /\ place[2] <= normalizeNodeWeight(pool.nodes[place[1]].weight)}

(* Of any consecutive picks as many as the ring is long, wherever they begin, each *)
(* upstream has its share.                                                        *)
Weighted(log) ==
    \A id \in DOMAIN log :
        LET pool == live.lb.pools[PoolIndex(live.lb, id)]
            size == Len(Ring(pool))
        IN  \A m \in 0..(Len(log[id]) - size), upstream \in Upstreams :
               Cardinality({j \in (m + 1)..(m + size) : log[id][j] = upstream})
                  = Cardinality(Share(pool, upstream))

(* The lock-free picks of a pool follow the weights in every turn, whatever calls  *)
(* of ResolveRoute they come from and whenever the turn begins.                    *)
PicksAreWeighted == Weighted(picks)

(* The requests forwarded to a pool follow the weights: "verifies that a pool     *)
(* returns upstream nodes by weighted round-robin" (manager_test.go).             *)
TrafficIsWeighted == Weighted(forwarded)

=============================================================================
