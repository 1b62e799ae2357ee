------------------------------- MODULE MCGateway -------------------------------
(***************************************************************************)
(* The gateway with two hosts, one of them routed by a pool with weights 2   *)
(* and 1, documents that differ in routes, whitelist and trusted proxies,    *)
(* and a site whose lists cannot be parsed.                                  *)
(***************************************************************************)
EXTENDS Gateway, TLC

CONSTANTS r1, r2, h1, h2, w1, u1, u2, u3, p1, p2, proxy, alice, mallory

MatchesAll == [w \in {w1} |-> {h1, h2}]

OneToken == [d \in {h1, h2, w1} |-> "x"]

Node(upstream, weight, enabled) ==
    [upstream |-> upstream, weight |-> weight, enabled |-> enabled]

Route(domain, pool, fallback, force) ==
    [domain |-> domain, pool |-> pool, fallback |-> fallback, force |-> force]

WeightedPool == [id |-> p1, nodes |-> <<Node(u1, 2, TRUE), Node(u2, 1, TRUE)>>]

(* One route, a whitelist and a trusted proxy; h2 is not routed. *)
Guarded ==
    [legacy |-> NoLegacy, trusted |-> {proxy}, allowed |-> {alice},
     lb |-> [pools |-> <<WeightedPool>>, routes |-> <<Route(h1, p1, None, FALSE)>>,
             default |-> None]]

(* The pool of h1 is empty and its fallback answers; a legacy rule forces HTTPS;   *)
(* no whitelist.                                                                *)
Fallback ==
    [legacy |-> [domains |-> <<[domain |-> h2, upstream |-> u3, force |-> TRUE]>>,
                 default |-> None],
     trusted |-> {}, allowed |-> {},
     lb |-> [pools |-> <<[id |-> p1, nodes |-> <<Node(u1, 1, FALSE)>>],
                         [id |-> p2, nodes |-> <<Node(u2, 1, TRUE), Node(u3, 1, TRUE)>>]>>,
             routes |-> <<Route(h1, p1, p2, FALSE)>>, default |-> None]]

AllDocuments == {Guarded, Fallback}

(* Two nodes of the same weight. *)
Even ==
    [legacy |-> NoLegacy, trusted |-> {}, allowed |-> {},
     lb |-> [pools |-> <<[id |-> p1, nodes |-> <<Node(u1, 1, TRUE), Node(u2, 1, TRUE)>>]>>,
             routes |-> <<Route(h1, p1, None, FALSE)>>, default |-> None]]

OneDocument == {Even}

(* A proxy of its own, one listed address, and the addresses of its CDN. *)
Mixed == [trusted |-> {proxy}, allowed |-> {mallory}, cdn |-> TRUE]

(* Nothing in its lists parses: it trusts and admits nobody. *)
Typo == [trusted |-> {Malformed}, allowed |-> {Malformed}, cdn |-> FALSE]

TwoPolicies == {Mixed, Typo}

From(host, peer, xff, real) ==
    [host |-> host, peer |-> peer, xff |-> xff, real |-> real, tls |-> FALSE]

(* The peer is a trusted proxy by some documents and policies and a stranger by     *)
(* others, who may write any header.                                              *)
AllInputs == {From(h1, proxy, <<alice, mallory>>, None), From(h2, proxy, <<>>, alice)}

RequestSymmetry == Permutations(Requests)

(* MCGateway.cfg identifies states that differ only in the history "forwarded",    *)
(* which only TrafficIsWeighted reads, or in what is kept of a request that has     *)
(* been refused or redirected: it can only finish, and no property speaks of it.    *)
View ==
    <<live, picks, site, changes, errors,
      [r \in Requests |-> IF req[r].pc \in {"blocked", "redirected"} THEN None ELSE <<req[r], seen[r]>>]>>

OneInput == {From(h1, alice, <<>>, None)}

=============================================================================
