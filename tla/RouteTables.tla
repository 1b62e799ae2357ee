------------------------------ MODULE RouteTables ------------------------------
(***************************************************************************)
(* What Manager.Apply does with the routing and the certificates of one      *)
(* document: it prepares it (migrating legacy rules, refusing conflicts and   *)
(* certificates that do not load) and stores the result, which the            *)
(* synchronisation and the admin handlers read back and apply again.         *)
(***************************************************************************)
EXTENDS Certificates

CONSTANTS
    Ids,            \* pool ids a document may use
    Documents,      \* documents that may be sent
    NoDocument      \* nothing applied yet

Document ==
    [legacy : [domains : Seq([domain : Domains, upstream : Upstreams \cup {None},
                              force : BOOLEAN]),
               default : Upstreams \cup {None}],
     lb : [pools : Seq([id : Ids,
                        nodes : Seq([upstream : Upstreams \cup {None}, weight : Int,
                                     enabled : BOOLEAN])]),
           routes : Seq([domain : Domains, pool : Ids \cup {None}, fallback : Ids \cup {None},
                         force : BOOLEAN]),
           default : Ids \cup {None}],
     certificates    : Seq([domain : Domains \cup {None}, cert : Certs]),
     sslCertificates : Seq([domains : SUBSET Domains, cert : Certs \cup {None}])]

ASSUME RouteTablesAssumption == Documents \subseteq Document /\ NoDocument \notin Documents

VARIABLES
    sent,           \* the document last accepted, as it was sent
    live            \* the document of the snapshot

vars == <<sent, live>>

Init == sent = NoDocument /\ live = NoDocument

(* Apply of a document from a file or a request. *)
Apply(doc) ==
    /\ sent = NoDocument
    /\ ~HasConflict(doc)
    /\ Compiles(Prepare(doc))
    /\ Loadable(doc)
    /\ sent' = doc
    /\ live' = Prepare(doc)

(* Apply(CurrentConfig()), as UpdateProviderStatus does. *)
Reapply ==
    /\ live # NoDocument
    /\ ~HasConflict(live)
    /\ Compiles(Prepare(live))
    /\ Loadable(live)
    /\ live' = Prepare(live)
    /\ UNCHANGED sent

Next == Reapply \/ \E doc \in Documents : Apply(doc)

Spec == Init /\ [][Next]_vars

-----------------------------------------------------------------------------
(***************************************************************************)
(* Properties                                                               *)
(***************************************************************************)

(* The upstreams that may answer for a host, and whether HTTPS is forced. *)
Outcome(doc, host) ==
    LET route == ResolveRoute(doc, host)
        pool  == doc.lb.pools[PoolIndex(doc.lb, route.pool)]
    IN  [force   |-> route.force,
         targets |-> IF route.pool = None THEN {route.target}
                     ELSE {pool.nodes[i].upstream : i \in EnabledNodes(pool)}]

(* The document with the legacy rules that have no upstream naming no domain. *)
Complete(doc) ==
    LET rules == doc.legacy.domains IN
    [doc EXCEPT !.legacy.domains =
        [i \in DOMAIN rules |->
           IF rules[i].upstream = None THEN [rules[i] EXCEPT !.domain = None] ELSE rules[i]]]

(* migrateRoutingToLoadBalancer changes the tables and not the routing: every host *)
(* is answered as the legacy tables would answer it, also when two domains yield   *)
(* the same pool id, when a domain is listed twice and when wildcards overlap.      *)
MigrationPreservesRouting ==
    live # NoDocument /\ ~hasLoadBalancerBinding(sent.lb) =>
        \A host \in Hosts : Outcome(live, host) = Outcome(Complete(sent), host)

(* What is stored can be applied and saved again: a migrated document is valid,    *)
(* has no conflict and is not changed by another preparation.                      *)
PreparationIsStable ==
    live # NoDocument =>
        /\ ~HasConflict(live)
        /\ Prepare(live) = live
        /\ ~hasLoadBalancerBinding(sent.lb) => ValidLB(live.lb)

(* In a mixed document that is accepted, and that has no default pool, a legacy    *)
(* rule for an exact domain is the one that answers for it: whatever the tables     *)
(* would leave out or shadow is refused by the conflict check before.              *)
NoRuleIsHidden ==
    live # NoDocument /\ hasLoadBalancerBinding(sent.lb) /\ sent.lb.default = None =>
        \A i \in DOMAIN sent.legacy.domains :
            LET rule == sent.legacy.domains[i] IN
            /\ rule.domain \in Hosts
            /\ \A j \in DOMAIN sent.legacy.domains :
                  sent.legacy.domains[j].domain = rule.domain => j <= i
            => ResolveRoute(live, rule.domain).target = rule.upstream

(* The certificates that name a domain: managed ones prevail over legacy ones.      *)
Naming(doc, domain) ==
    LET Of(items) == {items[i].cert : i \in {j \in DOMAIN items : domain \in items[j].domains}}
    IN  IF Of(Managed(doc)) # {} THEN Of(Managed(doc)) ELSE Of(Legacy(doc))

(* A handshake gets a certificate that names its host, else one that names the      *)
(* wildcard of its host, and the default only if there is neither, in whatever       *)
(* order entries override each other; managed certificates prevail, but never a      *)
(* wildcard over an exact name.  With a legacy certificate no handshake fails          *)
(* (loadCertificates, GetCertificate).                                             *)
CertificateFits ==
    live # NoDocument =>
        \A host \in Hosts :
            LET cert == GetCertificate(live, host) IN
            /\ Naming(live, host) # {} => cert \in Naming(live, host)
            /\ Naming(live, host) = {} /\ Naming(live, WildcardOf[host]) # {} =>
                  cert \in Naming(live, WildcardOf[host])
            /\ live.certificates # <<>> => cert # None

=============================================================================
