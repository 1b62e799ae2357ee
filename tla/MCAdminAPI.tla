------------------------------ MODULE MCAdminAPI ------------------------------
(***************************************************************************)
(* One site and one that may be created, two providers, two keys, one client, *)
(* two requests in flight, and the workloads below.                           *)
(***************************************************************************)
EXTENDS AdminAPI, TLC

CONSTANTS s1, s2, aliyun, tencent, a, b, k1, k2, r1, r2, c1, admin, unknown,
          text, token1, token2, captcha1

Secret(provider, secret) == [p \in {provider} |-> secret]

MCProfiles == {[f \in {"name", "ip"} |-> a]}

MCEdits == {[f \in {"name"} |-> b]}

MCDocuments ==
    {[text |-> text, secrets |-> Secret(aliyun, a)],
     [text |-> Blank, secrets |-> Secret(aliyun, Blank)],
     [text |-> text, secrets |-> Secret(aliyun, Foreign) @@ Secret(tencent, b)]}

Named == [user |-> admin, password |-> a, token |-> token1]

Nameless == [user |-> Blank, password |-> a, token |-> token2]

MCAuthDocs == {Named, Nameless}

MCCredentials == [user : {admin}, password : {a, b}]

(* Three changes of sites: within two seconds, or around a restart with another  *)
(* key; changes of sites and a login around a change of the credentials; four     *)
(* logins over three ticks of the guard; a limit that is reached, and a restart.  *)
MCWorkloads ==
    {[docs |-> {Named}, logins |-> FALSE, limit |-> 3, clock |-> 1,
      requests |-> 3, changes |-> 3, swaps |-> 0, stops |-> 0],
     [docs |-> {Named}, logins |-> FALSE, limit |-> 3, clock |-> 0,
      requests |-> 3, changes |-> 3, swaps |-> 0, stops |-> 1],
     [docs |-> {Named}, logins |-> TRUE, limit |-> 3, clock |-> 0,
      requests |-> 3, changes |-> 2, swaps |-> 1, stops |-> 0],
     [docs |-> {Named}, logins |-> TRUE, limit |-> 3, clock |-> 2,
      requests |-> 4, changes |-> 0, swaps |-> 0, stops |-> 0],
     [docs |-> {Named}, logins |-> TRUE, limit |-> 1, clock |-> 2,
      requests |-> 3, changes |-> 0, swaps |-> 0, stops |-> 1]}

(* Requests and keys are interchangeable.                                     *)
Symmetry == Permutations(Requests) \cup Permutations(Keys)
=============================================================================
