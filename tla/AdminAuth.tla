------------------------------- MODULE AdminAuth -------------------------------
(***************************************************************************)
(* The front of the admin API: the fixed-window limiter, the login with its  *)
(* captcha, and the check of the token that guards every other handler.      *)
(*                                                                         *)
(* The limiter, the guard and the captchas are maps behind mutexes: one step *)
(* per call.  Each call reads the clock just before it takes its mutex; that *)
(* pause is left out.  The credentials in force are those of the live         *)
(* snapshot of the configuration, which may be replaced at any time.          *)
(***************************************************************************)
EXTENDS Integers, FiniteSets

CONSTANTS
    Clients,        \* results of clientKey
    AuthDocs,       \* control_plane.auth of documents: user, password and token
    Credentials,    \* what a login may present: user and password
    Tokens,         \* what a request may present
    Captchas,       \* identifiers of captchas
    Limits,         \* values of ADMIN_RATE_LIMIT_PER_MIN
    Window,         \* a minute in the code
    GuardTTL,       \* 30 minutes in the code
    Slots,          \* requests in flight
    Blank,          \* an empty user, password or token
    None,           \* no entry, nothing
    MaxClock,       \* bound on the clock
    MaxServed,      \* bound on the requests that the limiter admits
    MaxSwaps,       \* bound on changes of the credentials in force
    MaxStops        \* bound on restarts

AuthConstants ==
    /\ AuthDocs \subseteq [user : {d.user : d \in AuthDocs}, password : {d.password : d \in AuthDocs},
                           token : {d.token : d \in AuthDocs}]
    /\ Limits \subseteq Nat \ {0}
    /\ None \notin Captchas \cup Clients
    /\ None \notin Nat
    /\ None \notin [count : Nat, reset : Nat]
    /\ {Window, GuardTTL, MaxClock, MaxServed, MaxSwaps, MaxStops} \subseteq Nat

VARIABLES
    now,            \* the clock
    auth,           \* the credentials in force
    limit,          \* rateLimiter.limit
    limiter,        \* rateLimiter.entries: None, or count and reset
    guard,          \* loginGuard.entries: None, or the time of the last failure
    captchas,       \* captchas that wait for their answer
    http,           \* local state of the requests
    served,         \* requests admitted so far
    swaps, stops,   \* changes of the credentials, restarts
    admitted,       \* history: requests admitted by this process, each with its client,
                    \* its time and the end of the window that it was counted in
    refused,        \* history: client and time of requests refused by this process
    failed,         \* history: time of a client's last failed login since its last success
    issued,         \* history: captchas ever generated
    guesses,        \* history: comparisons of a password
    sessions,       \* history: answers to successful logins
    presented       \* history: tokens accepted

memory == <<limiter, guard, captchas>>

history == <<admitted, refused, failed, issued, guesses, sessions, presented>>

authVars == <<now, auth, limit, memory, http, served, swaps, stops, history>>

Free ==
    [pc |-> "free", client |-> None, doc |-> None, sent |-> None, captcha |-> None,
     checked |-> 0, demand |-> None, operator |-> None, seen |-> {}]

NoEntries == [c \in Clients |-> None]

AuthInit ==
    /\ now = 0
    /\ auth \in AuthDocs
    /\ limit \in Limits
    /\ limiter = NoEntries
    /\ guard = NoEntries
    /\ captchas = {}
    /\ http = [r \in Slots |-> Free]
    /\ served = 0
    /\ swaps = 0
    /\ stops = 0
    /\ admitted = {}
    /\ refused = {}
    /\ failed = NoEntries
    /\ issued = {}
    /\ guesses = {}
    /\ sessions = {}
    /\ presented = {}

Become(r, l) == http' = [http EXCEPT ![r] = l]

-----------------------------------------------------------------------------
(***************************************************************************)
(* Environment                                                              *)
(***************************************************************************)
AuthTick ==
    /\ now < MaxClock
    /\ now' = now + 1
    /\ UNCHANGED <<auth, limit, memory, http, served, swaps, stops, history>>

(* The manager stores another snapshot.                                       *)
SwapAuth(d) ==
    /\ swaps < MaxSwaps
    /\ d # auth
    /\ swaps' = swaps + 1
    /\ auth' = d
    /\ http' = [r \in Slots |-> IF http[r].pc = "free" THEN http[r]
                                ELSE [http[r] EXCEPT !.seen = @ \cup {d}]]
    /\ UNCHANGED <<now, limit, memory, served, stops, history>>

(* The process stops and starts again: what is in memory is lost, and the limit  *)
(* is read again.                                                             *)
RestartAuth(n) ==
    /\ stops < MaxStops
    /\ stops' = stops + 1
    /\ limit' = n
    /\ limiter' = NoEntries
    /\ guard' = NoEntries
    /\ captchas' = {}
    /\ http' = [r \in Slots |-> Free]
    /\ admitted' = {}
    /\ refused' = {}
    /\ failed' = NoEntries
    /\ UNCHANGED <<now, auth, served, swaps, issued, guesses, sessions, presented>>

-----------------------------------------------------------------------------
(***************************************************************************)
(* withRateLimit                                                            *)
(***************************************************************************)

(* As Entry, but the count is raised in a copy of what the map holds.             *)
EntryByValue(c) == [count |-> 0, reset |-> now + Window]

(* Allow begins with a new entry when there is none, or its time has passed.    *)
Entry(c) ==
    IF limiter[c] = None \/ (limiter[c] # None /\ now > limiter[c].reset)
    THEN [count |-> 0, reset |-> now + Window]
    ELSE limiter[c]

(* As Admit, but the count is not compared with the limit.                      *)
AdmitUnchecked(r, c) ==
    /\ served < MaxServed
    /\ http[r].pc = "free"
    /\ served' = served + 1
    /\ limiter' = [limiter EXCEPT ![c] = [Entry(c) EXCEPT !.count = @ + 1]]
    /\ admitted' = admitted \cup {[id |-> served + 1, client |-> c, at |-> now,
                                   reset |-> Entry(c).reset]}
    /\ Become(r, [Free EXCEPT !.pc = "admitted", !.client = c, !.seen = {auth}])
    /\ UNCHANGED <<now, auth, limit, guard, captchas, swaps, stops,
                   refused, failed, issued, guesses, sessions, presented>>

(* The request passes the limiter and reaches the mux.                          *)
Admit(r, c) ==
    /\ served < MaxServed
    /\ http[r].pc = "free"
    /\ Entry(c).count < limit
    /\ served' = served + 1
    /\ limiter' = [limiter EXCEPT ![c] = [Entry(c) EXCEPT !.count = @ + 1]]
    /\ admitted' = admitted \cup {[id |-> served + 1, client |-> c, at |-> now,
                                   reset |-> Entry(c).reset]}
    /\ Become(r, [Free EXCEPT !.pc = "admitted", !.client = c, !.seen = {auth}])
    /\ UNCHANGED <<now, auth, limit, guard, captchas, swaps, stops,
                   refused, failed, issued, guesses, sessions, presented>>

(* As Refuse, but a refusal begins a window of its own.                         *)
RefuseProlongs(c) ==
    /\ Entry(c).count >= limit
    /\ limiter' = [limiter EXCEPT ![c] = [Entry(c) EXCEPT !.reset = now + Window]]
    /\ refused' = refused \cup {<<c, now>>}
    /\ UNCHANGED <<now, auth, limit, guard, captchas, http, served, swaps, stops,
                   admitted, failed, issued, guesses, sessions, presented>>

(* 429; the entry that Allow made stays.                                        *)
Refuse(c) ==
    /\ Entry(c).count >= limit
    /\ limiter' = [limiter EXCEPT ![c] = Entry(c)]
    /\ refused' = refused \cup {<<c, now>>}
    /\ UNCHANGED <<now, auth, limit, guard, captchas, http, served, swaps, stops,
                   admitted, failed, issued, guesses, sessions, presented>>

-----------------------------------------------------------------------------
(***************************************************************************)
(* login                                                                    *)
(***************************************************************************)

(* GET /captcha                                                               *)
CaptchaImage(r) ==
    /\ http[r].pc = "admitted"
    /\ \E id \in Captchas \ issued :
          /\ captchas' = captchas \cup {id}
          /\ issued' = issued \cup {id}
    /\ Become(r, Free)
    /\ UNCHANGED <<now, auth, limit, limiter, guard, served, swaps, stops,
                   admitted, refused, failed, guesses, sessions, presented>>

Expired(c) == guard[c] # None /\ now - guard[c] > GuardTTL

(* loginGuard.RequireCaptcha drops an entry that is too old.                    *)
Looked(c) == IF Expired(c) THEN [guard EXCEPT ![c] = None] ELSE guard

Required(c) == Looked(c)[c] # None

(* GET /login/require-captcha                                                  *)
LoginCaptchaRequirement(r) ==
    /\ http[r].pc = "admitted"
    /\ guard' = Looked(http[r].client)
    /\ Become(r, Free)
    /\ UNCHANGED <<now, auth, limit, limiter, captchas, served, swaps, stops, history>>

(* POST /login reads the credentials in force once.                             *)
LoginRead(r, sent) ==
    /\ http[r].pc = "admitted"
    /\ Become(r, IF auth.user = Blank \/ auth.password = Blank THEN Free
                 ELSE [http[r] EXCEPT !.pc = "guard", !.doc = auth, !.sent = sent])
    /\ UNCHANGED <<now, auth, limit, memory, served, swaps, stops, history>>

RequireCaptcha(r) ==
    /\ http[r].pc = "guard"
    /\ LET c == http[r].client IN
       /\ guard' = Looked(c)
       /\ Become(r, [http[r] EXCEPT !.pc = IF Required(c) THEN "captcha" ELSE "compare",
                                    !.checked = now, !.demand = failed[c]])
    /\ UNCHANGED <<now, auth, limit, limiter, captchas, served, swaps, stops, history>>

(* The answer that the store still holds under the identifier.                  *)
Solves(id, right) == right /\ id \in captchas

(* As VerifyCaptcha, but a captcha stays in the store after its answer.          *)
VerifyCaptchaKeeps(r, id, right) ==
    /\ http[r].pc = "captcha"
    /\ Become(r, IF Solves(id, right) THEN [http[r] EXCEPT !.pc = "compare", !.captcha = id]
                 ELSE [http[r] EXCEPT !.pc = "failed"])
    /\ UNCHANGED <<now, auth, limit, memory, served, swaps, stops, history>>

(* Verify clears the captcha, right or wrong.                                   *)
VerifyCaptcha(r, id, right) ==
    /\ http[r].pc = "captcha"
    /\ captchas' = captchas \ {id}
    /\ Become(r, IF Solves(id, right) THEN [http[r] EXCEPT !.pc = "compare", !.captcha = id]
                 ELSE [http[r] EXCEPT !.pc = "failed"])
    /\ UNCHANGED <<now, auth, limit, limiter, guard, served, swaps, stops, history>>

(* 400: no captcha was sent.                                                   *)
CaptchaMissing(r) ==
    /\ http[r].pc = "captcha"
    /\ Become(r, Free)
    /\ UNCHANGED <<now, auth, limit, memory, served, swaps, stops, history>>

Compare(r) ==
    /\ http[r].pc = "compare"
    /\ LET l == http[r] IN
       /\ Become(r, [l EXCEPT !.pc = IF l.sent = [user |-> l.doc.user, password |-> l.doc.password]
                                     THEN "passed" ELSE "failed"])
       /\ guesses' = guesses \cup {[id |-> Cardinality(guesses) + 1, client |-> l.client,
                                    captcha |-> l.captcha, checked |-> l.checked,
                                    demand |-> l.demand]}
    /\ UNCHANGED <<now, auth, limit, memory, served, swaps, stops,
                   admitted, refused, failed, issued, sessions, presented>>

OnFailure(r) ==
    /\ http[r].pc = "failed"
    /\ LET c == http[r].client IN
       /\ guard' = [guard EXCEPT ![c] = now]
       /\ failed' = [failed EXCEPT ![c] = now]
    /\ Become(r, Free)
    /\ UNCHANGED <<now, auth, limit, limiter, captchas, served, swaps, stops,
                   admitted, refused, issued, guesses, sessions, presented>>

(* As AnswerDoc, but asks the configuration again.                              *)
AnswerDocLater(r) == auth

(* What the answer to a login is made of.                                       *)
AnswerDoc(r) == http[r].doc

OnSuccess(r) ==
    /\ http[r].pc = "passed"
    /\ LET l == http[r] IN
       /\ guard' = [guard EXCEPT ![l.client] = None]
       /\ failed' = [failed EXCEPT ![l.client] = None]
       /\ sessions' = sessions \cup {[token |-> AnswerDoc(r).token, operator |-> AnswerDoc(r).user,
                                      sent |-> l.sent, seen |-> l.seen]}
    /\ Become(r, Free)
    /\ UNCHANGED <<now, auth, limit, limiter, captchas, served, swaps, stops,
                   admitted, refused, issued, guesses, presented>>

-----------------------------------------------------------------------------
(***************************************************************************)
(* withAuth                                                                 *)
(***************************************************************************)

(* The token and the user are those of one read.                                *)
Authorize(r, token) ==
    /\ http[r].pc = "admitted"
    /\ IF auth.token # Blank /\ token = auth.token
       THEN /\ Become(r, [http[r] EXCEPT !.pc = "authorized", !.operator = auth.user])
            /\ presented' = presented \cup {token}
       ELSE /\ Become(r, Free)
            /\ UNCHANGED presented
    /\ UNCHANGED <<now, auth, limit, memory, served, swaps, stops,
                   admitted, refused, failed, issued, guesses, sessions>>

(* The handler behind withAuth takes over, or only reads and answers.             *)
Pass(r) ==
    /\ http[r].pc = "authorized"
    /\ Become(r, Free)
    /\ UNCHANGED <<now, auth, limit, memory, served, swaps, stops, history>>

Login(r) ==
    \/ CaptchaImage(r)
    \/ LoginCaptchaRequirement(r)
    \/ \E sent \in Credentials : LoginRead(r, sent)
    \/ RequireCaptcha(r)
    \/ \E id \in Captchas, right \in BOOLEAN : VerifyCaptcha(r, id, right)
    \/ CaptchaMissing(r)
    \/ Compare(r)
    \/ OnFailure(r)
    \/ OnSuccess(r)

AuthNext ==
    \/ AuthTick
    \/ \E d \in AuthDocs : SwapAuth(d)
    \/ \E n \in Limits : RestartAuth(n)
    \/ \E c \in Clients : Refuse(c)
    \/ \E r \in Slots :
          \/ \E c \in Clients : Admit(r, c)
          \/ Login(r)
          \/ \E token \in Tokens : Authorize(r, token)
          \/ Pass(r)

AuthSpec == AuthInit /\ [][AuthNext]_authVars

-----------------------------------------------------------------------------
(***************************************************************************)
(* Properties                                                               *)
(***************************************************************************)
Times == 0..MaxClock

SlotState ==
    [pc : {"free", "admitted", "guard", "captcha", "compare", "failed", "passed", "authorized"},
     client : Clients \cup {None}, doc : AuthDocs \cup {None}, sent : Credentials \cup {None},
     captcha : Captchas \cup {None}, checked : Times, demand : Times \cup {None},
     operator : {d.user : d \in AuthDocs} \cup {None}, seen : SUBSET AuthDocs]

(* The maps of the process, the local states and the history are well formed; no   *)
(* count exceeds the limit.                                                     *)
AuthTypeOK ==
    /\ now \in Times
    /\ auth \in AuthDocs
    /\ limit \in Limits
    /\ limiter \in [Clients -> {None} \cup
                       [count : 1..limit, reset : Window..(MaxClock + Window)]]
    /\ {guard, failed} \subseteq [Clients -> Times \cup {None}]
    /\ captchas \subseteq issued
    /\ issued \subseteq Captchas
    /\ http \in [Slots -> SlotState]
    /\ admitted \subseteq [id : 1..served, client : Clients, at : Times, reset : Nat]
    /\ refused \subseteq Clients \X Times
    /\ served \in 0..MaxServed

AdmittedIn(c, from, to) ==
    Cardinality({e \in admitted : e.client = c /\ from <= e.at /\ e.at <= to})

(* Two windows may meet at a reset, but never three: in no interval as long as the  *)
(* window does one process admit more than twice the limit (rateLimiter.Allow).     *)
RateBounded ==
    \A c \in Clients, t \in Times : AdmittedIn(c, t, t + Window) <= 2 * limit

(* Nobody is refused who has not used up the limit within the last window: a refused *)
(* request does not prolong the refusal (rateLimiter.Allow).                        *)
RefusalIsEarned ==
    \A e \in refused : AdmittedIn(e[1], e[2] - Window, e[2]) >= limit

(* After a failed login every further comparison of a password costs the client a    *)
(* captcha of its own, until a login succeeds or GuardTTL has passed since the last  *)
(* failure (loginGuard, captchaService.Verify).  Requests that looked at the guard   *)
(* before the failure was recorded are not concerned.                              *)
GuessesCostCaptchas ==
    \A g \in guesses :
        IF g.captcha = None
        THEN g.demand = None \/ g.checked - g.demand > GuardTTL
        ELSE \A h \in guesses : h.captcha = g.captcha => h = g

(* The token and the operator of an answer belong to the credentials that were      *)
(* compared, and to a configuration that was in force during the login (login reads  *)
(* CurrentConfig once).                                                            *)
SessionsAreGenuine ==
    \A s \in sessions :
        \E d \in s.seen :
            /\ s.token = d.token
            /\ s.operator = d.user
            /\ s.sent = [user |-> d.user, password |-> d.password]
=============================================================================
