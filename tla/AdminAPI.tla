-------------------------------- MODULE AdminAPI --------------------------------
(***************************************************************************)
(* The admin API's way to the site store: the limiter, the check of the      *)
(* token, and the site handlers, which write in the name of the operator that *)
(* the check found.  AdminAuth and SiteStore share the clock and the process;  *)
(* a request in a slot of the one runs the handler in the same slot of the     *)
(* other.                                                                    *)
(***************************************************************************)
EXTENDS SiteStore

CONSTANTS
    Clients, AuthDocs, Credentials, Captchas, Limits, Window, GuardTTL, MaxSwaps,
    Tokens,         \* what a request may present
    Headers,        \* values of X-Operator, or "unknown" without one
    Workloads       \* bounds of a behaviour: the first credentials, the limit of the
                    \* limiter, the last second,
                    \* how many requests are admitted and how many change the store,
                    \* how often the credentials change and the process stops, and
                    \* whether there are logins

VARIABLES
    auth, limit, limiter, guard, captchas, http, served, swaps, stops,
    admitted, refused, failed, issued, guesses, sessions, presented,
    workload        \* the bounds of this behaviour

A == INSTANCE AdminAuth WITH
        Slots <- Requests, MaxClock <- MaxTime, MaxServed <- MaxArrivals,
        MaxStops <- MaxRestarts

ASSUME APIAssumption ==
    /\ A!AuthConstants
    /\ {d.user : d \in AuthDocs} \subseteq Operators \cup {Blank}
    /\ Headers \subseteq Operators \ {Blank}
    /\ \A w \in Workloads : w.limit \in Limits

apiVars == <<vars, auth, limit, limiter, guard, captchas, http, served, swaps, stops,
             admitted, refused, failed, issued, guesses, sessions, presented, workload>>

storeVars == <<key, tables, req, arrived, history, typed, errors, restarts>>

frontVars == <<auth, limit, limiter, guard, captchas, http, served, swaps, stops,
               admitted, refused, failed, issued, guesses, sessions, presented>>

APIInit ==
    /\ Init
    /\ A!AuthInit
    /\ workload \in Workloads
    /\ limit = workload.limit
    /\ auth \in workload.docs

(* A step before or beside the handlers of the sites; a slot is free when the       *)
(* handler in it has answered.                                                 *)
Front ==
    /\ \/ \E r \in Requests, c \in Clients :
             served < workload.requests /\ req[r].pc = "idle" /\ A!Admit(r, c)
       \/ \E c \in Clients : workload.logins /\ A!Refuse(c)
       \/ \E r \in Requests : workload.logins /\ A!Login(r)
       \/ \E r \in Requests, t \in Tokens : A!Authorize(r, t)
       \/ \E r \in Requests : A!Pass(r)
       \/ \E d \in AuthDocs : swaps < workload.swaps /\ A!SwapAuth(d)
    /\ UNCHANGED <<storeVars, workload>>

(* As OperatorOf, but asks the configuration again.                             *)
OperatorOfLater(r, header) == IF auth.user # Blank THEN auth.user ELSE header

(* operatorFromRequest: who the token belongs to; without a name, who the request  *)
(* says it is.                                                                 *)
OperatorOf(r, header) == IF http[r].operator # Blank THEN http[r].operator ELSE header

Handle(r) ==
    /\ arrived < workload.changes
    /\ A!Pass(r)
    /\ \E header \in Headers : Begin(r, OperatorOf(r, header))
    /\ UNCHANGED workload

Stop ==
    /\ restarts < workload.stops
    /\ \E k \in Keys \cup {None} : Restart(k)
    /\ A!RestartAuth(limit)
    /\ UNCHANGED workload

APINext ==
    \/ now < workload.clock /\ Tick /\ A!AuthTick /\ UNCHANGED workload
    \/ Stop
    \/ Front
    \/ \E r \in Requests :
          \/ Handle(r)
          \/ Continue(r) /\ UNCHANGED <<frontVars, workload>>

APISpec == APIInit /\ [][APINext]_apiVars

-----------------------------------------------------------------------------
(***************************************************************************)
(* Properties                                                               *)
(***************************************************************************)

(* Versions and audit rows carry the name of someone whose token was presented, as   *)
(* it stood beside that token in one configuration, however the configuration         *)
(* changes meanwhile; X-Operator counts only where no name is configured              *)
(* (withAuth, operatorFromRequest).                                                *)
OperatorsAreCallers ==
    \A row \in minted \cup audits :
        \E d \in AuthDocs :
            /\ d.token \in presented
            /\ row.operator \in IF d.user # Blank THEN {d.user} ELSE Headers

(* The properties of the front, of the composition (AdminAuth states them).          *)
AuthTypeOK == A!AuthTypeOK

(* At most twice the limit in a window (AdminAuth.RateBounded, rateLimiter.Allow).    *)
RateBounded == A!RateBounded

(* A refusal has used up the limit (AdminAuth.RefusalIsEarned, rateLimiter.Allow).     *)
RefusalIsEarned == A!RefusalIsEarned

(* A guess after a failure costs a captcha (AdminAuth.GuessesCostCaptchas,            *)
(* loginGuard).                                                                    *)
GuessesCostCaptchas == A!GuessesCostCaptchas

(* A session is of one configuration (AdminAuth.SessionsAreGenuine, login).           *)
SessionsAreGenuine == A!SessionsAreGenuine
=============================================================================
