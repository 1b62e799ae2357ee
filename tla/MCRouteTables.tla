----------------------------- MODULE MCRouteTables -----------------------------
(***************************************************************************)
(* All documents with up to three legacy rules, and all mixed documents with *)
(* up to two legacy rules and two routes, over two hosts, a wildcard that     *)
(* covers one of them and a wildcard that covers both; without routing, all    *)
(* documents with up to two legacy and two managed certificates.             *)
(***************************************************************************)
EXTENDS RouteTables, TLC

CONSTANTS h1, h2, w1, w2, u1, u2, p1, p2, c1, c2, c3, broken

MatchesSome == [w \in {w1, w2} |-> IF w = w1 THEN {h1} ELSE {h1, h2}]

SharedToken == [d \in {h1, h2, w1, w2} |-> IF d \in {h1, w1} THEN "x" ELSE "y"]

Upto(n, S) == UNION {[1..k -> S] : k \in 0..n}

Rules == [domain : Domains, upstream : Upstreams \cup {None}, force : {FALSE}]

ForcedRules == [domain : Domains, upstream : {u1}, force : {TRUE}]

Legacies(n, S) == [domains : Upto(n, S), default : {None, u2}]

Pool(id, enabled) ==
    [id |-> id, nodes |-> <<[upstream |-> u2, weight |-> 1, enabled |-> enabled]>>]

Routes == [domain : Domains, pool : {p1, p2}, fallback : {None}, force : {FALSE}]

LB == [pools : {<<Pool(p1, TRUE), Pool(p2, FALSE)>>}, routes : Upto(2, Routes),
       default : {None, p1}]

FirstLabel == [h \in {h1, h2} |-> IF h = h1 THEN w1 ELSE w2]

LegacyCertificates ==
    Upto(2, [domain : {h1, w1}, cert : {c1, c2}])
    \cup {<<[domain |-> d, cert |-> c]>> : d \in {h1, None}, c \in {c1, broken}}

ManagedCertificates ==
    Upto(2, [domains : SUBSET {h1, h2, w1}, cert : {c2, c3, None}])
    \cup {<<[domains |-> {h1}, cert |-> broken]>>}

RoutingDocuments ==
    [legacy : Legacies(3, Rules), lb : {NoLB}]
    \cup [legacy : Legacies(2, Rules \cup ForcedRules), lb : {NoLB}]
    \cup [legacy : Legacies(2, [domain : {h1, h2, w1}, upstream : {u1}, force : {FALSE}]), lb : LB]

(* Mixed documents that are refused: a rule, or an enabled node, without upstream. *)
Incomplete ==
    [legacy : Legacies(1, [domain : {h1, w1}, upstream : {None, u1}, force : {FALSE}]),
     lb : [pools : {<<[id |-> p1, nodes |-> <<[upstream |-> None, weight |-> 1, enabled |-> e]>>]>> :
                       e \in BOOLEAN},
           routes : Upto(1, [domain : {h1, h2}, pool : {p1}, fallback : {None}, force : {FALSE}]),
           default : {None}]]

AllDocuments ==
    {doc @@ NoCertificates : doc \in RoutingDocuments \cup Incomplete}
    \cup [legacy : {NoLegacy}, lb : {NoLB},
          certificates : LegacyCertificates, sslCertificates : ManagedCertificates]

=============================================================================
