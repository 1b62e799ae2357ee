---------------------------- MODULE AdminAuthProofs ----------------------------
(***************************************************************************)
(* The front of the admin API, for all clients, credentials, captchas, limits *)
(* and windows: what the limiter admits and refuses, what a guess costs, and   *)
(* whose session and token a request has.                                     *)
(***************************************************************************)
EXTENDS AdminAuth, FiniteSetTheorems, TLAPS

-----------------------------------------------------------------------------
(***************************************************************************)
(* The inductive invariant                                                  *)
(***************************************************************************)

(* The requests of client c that were counted in its window that ends at n.    *)
CountedIn(c, n) == {e \in admitted : e.client = c /\ e.reset = n}

(* A request is counted in a window that holds its time; the windows of a client *)
(* have no time in common; no window has more than the limit, and the entry of   *)
(* the map counts the last one.                                                 *)
LimiterInv ==
    /\ IsFiniteSet(admitted)
    /\ \A e \in admitted :
          /\ e.reset - Window <= e.at /\ e.at <= e.reset /\ e.at <= now
          /\ limiter[e.client] # None
          /\ \/ e.reset = limiter[e.client].reset
             \/ e.reset + Window < limiter[e.client].reset
          /\ Cardinality(CountedIn(e.client, e.reset)) <= limit
    /\ \A e, f \in admitted :
          e.client = f.client =>
             \/ e.reset = f.reset
             \/ e.reset + Window < f.reset
             \/ f.reset + Window < e.reset
    /\ \A c \in Clients :
          limiter[c] # None =>
             /\ limiter[c].reset <= now + Window
             /\ limiter[c].count = Cardinality(CountedIn(c, limiter[c].reset))

RefusalInv == RefusalIsEarned /\ \A e \in refused : e[2] <= now

(* The guard forgets a failure only when it is too old.                          *)
GuardInv ==
    \A c \in Clients :
        /\ guard[c] # None => guard[c] = failed[c]
        /\ failed[c] # None => guard[c] = failed[c] \/ now - failed[c] > GuardTTL

(* A request compares without a captcha when nothing was demanded, and else with one  *)
(* that is out of the store and in no guess.                                        *)
Pays(l) ==
    /\ l.pc # "free" => l.client \in Clients
    /\ l.pc \in {"free", "admitted", "guard", "captcha"} => l.captcha = None
    /\ l.pc = "compare" =>
          IF l.captcha = None
          THEN l.demand = None \/ l.checked - l.demand > GuardTTL
          ELSE /\ l.captcha \in issued \ captchas
               /\ \A g \in guesses : g.captcha # l.captcha

(* No two requests and no two guesses have the same captcha.                         *)
CaptchaInv ==
    /\ \A r \in Slots : Pays(http[r])
    /\ \A q, r \in Slots :
          q # r /\ http[q].pc = "compare" /\ http[r].pc = "compare" =>
             http[q].captcha = None \/ http[q].captcha # http[r].captcha
    /\ \A g \in guesses : g.captcha # None => g.captcha \in issued \ captchas
    /\ GuessesCostCaptchas

(* A request has seen the credentials in force; what a login compares is among     *)
(* what it has seen, and what has passed is what was sent.                         *)
Knows(l) ==
    /\ l.pc # "free" => auth \in l.seen
    /\ l.pc \in {"guard", "captcha", "compare", "failed", "passed"} => l.doc \in l.seen
    /\ l.pc = "passed" => l.sent = [user |-> l.doc.user, password |-> l.doc.password]

SessionInv == SessionsAreGenuine /\ \A r \in Slots : Knows(http[r])

(* An authorized request has the user that stood beside a presented token.          *)
CallerInv ==
    \A r \in Slots :
        http[r].pc = "authorized" =>
           \E d \in AuthDocs : d.token \in presented /\ http[r].operator = d.user

AuthInv ==
    AuthTypeOK /\ LimiterInv /\ RefusalInv /\ GuardInv /\ CaptchaInv /\ SessionInv /\ CallerInv
-----------------------------------------------------------------------------
(***************************************************************************)
(* What steps change                                                        *)
(***************************************************************************)
LEMMA FreeType ==
    ASSUME AuthConstants
    PROVE  Free \in SlotState /\ Free.pc = "free" /\ Free.captcha = None
BY DEF AuthConstants, Free, SlotState, Times

(* One request goes on, the others stay.                                        *)
LEMMA BecomeIs ==
    ASSUME http \in [Slots -> SlotState], NEW r \in Slots, NEW l, Become(r, l)
    PROVE  /\ http'[r] = l
           /\ \A q \in Slots : q # r => http'[q] = http[q]
           /\ l \in SlotState => http' \in [Slots -> SlotState]
BY DEF Become

(* Only the limiter counts; each of its steps is one call.                        *)
LEMMA LimiterSteps ==
    ASSUME [AuthNext]_authVars
    PROVE  \/ UNCHANGED <<now, limit, limiter, admitted, refused, served>>
           \/ now' = now + 1 /\ UNCHANGED <<limit, limiter, admitted, refused, served>>
           \/ \E r \in Slots, c \in Clients : Admit(r, c)
           \/ \E c \in Clients : Refuse(c)
           \/ \E n \in Limits : RestartAuth(n)
<1>1. CASE UNCHANGED authVars
    BY <1>1 DEF authVars, memory, history
<1>2. ASSUME AuthTick \/ \E d \in AuthDocs : SwapAuth(d)
      PROVE  \/ UNCHANGED <<now, limit, limiter, admitted, refused, served>>
             \/ now' = now + 1 /\ UNCHANGED <<limit, limiter, admitted, refused, served>>
    BY <1>2 DEF AuthTick, SwapAuth, memory, history
<1>3. ASSUME NEW r \in Slots, Login(r)
      PROVE  UNCHANGED <<now, limit, limiter, admitted, refused, served>>
    BY <1>3 DEF Login, CaptchaImage, LoginCaptchaRequirement, LoginRead, RequireCaptcha,
                VerifyCaptcha, CaptchaMissing, Compare, OnFailure, OnSuccess, memory, history
<1>4. ASSUME NEW r \in Slots, Pass(r) \/ \E token \in Tokens : Authorize(r, token)
      PROVE  UNCHANGED <<now, limit, limiter, admitted, refused, served>>
    BY <1>4 DEF Pass, Authorize, memory, history
<1> QED
    BY <1>1, <1>2, <1>3, <1>4 DEF AuthNext

-----------------------------------------------------------------------------
(***************************************************************************)
(* The limiter                                                              *)
(***************************************************************************)
LimiterType ==
    /\ now \in Nat
    /\ limit \in Limits
    /\ limiter \in [Clients -> {None} \cup
                      [count : 1..limit, reset : Window..(MaxClock + Window)]]
    /\ admitted \subseteq [id : 1..served, client : Clients, at : Times, reset : Nat]
    /\ refused \subseteq Clients \X Times
    /\ served \in Nat

LEMMA TypeOfLimiter ==
    ASSUME AuthConstants, AuthTypeOK
    PROVE  LimiterType
<1>1. now \in Nat /\ served \in Nat
    BY DEF AuthConstants, AuthTypeOK, Times
<1> QED
    BY <1>1 DEF AuthTypeOK, LimiterType

(* Allow goes on with the entry of the map, or with a new one that ends later than    *)
(* every window of the client.                                                     *)
LEMMA EntryIs ==
    ASSUME AuthConstants, LimiterType, LimiterInv, NEW c \in Clients
    PROVE  /\ Entry(c).count \in 0..limit
           /\ Entry(c).reset \in Nat
           /\ now <= Entry(c).reset /\ Entry(c).reset <= now + Window
           /\ Entry(c).count = Cardinality(CountedIn(c, Entry(c).reset))
           /\ \A e \in admitted :
                 e.client = c => \/ e.reset = Entry(c).reset
                                 \/ e.reset + Window < Entry(c).reset
           /\ Entry(c).count > 0 => Entry(c) = limiter[c]
           /\ Entry(c) = [count |-> Entry(c).count, reset |-> Entry(c).reset]
<1>t. Window \in Nat /\ MaxClock \in Nat /\ limit \in Nat \ {0} /\ now \in Nat
    BY DEF AuthConstants, LimiterType
<1>a. admitted \subseteq [id : 1..served, client : Clients, at : Times, reset : Nat]
    BY DEF LimiterType
<1>1. CASE limiter[c] = None \/ now > limiter[c].reset
    <2>1. Entry(c) = [count |-> 0, reset |-> now + Window]
        BY <1>1 DEF Entry
    <2>2. ASSUME NEW e \in admitted, e.client = c
          PROVE  e.reset + Window < now + Window /\ e.reset \in Nat
        <3>1. limiter[c] # None
            BY <2>2 DEF LimiterInv
        <3>2. /\ limiter[c].reset \in Nat /\ now > limiter[c].reset /\ e.reset \in Nat
            BY <1>t, <1>a, <1>1, <3>1 DEF LimiterType
        <3>3. e.reset = limiter[c].reset \/ e.reset + Window < limiter[c].reset
            BY <2>2 DEF LimiterInv
        <3> QED
            BY <1>t, <3>2, <3>3
    <2>3. CountedIn(c, now + Window) = {}
        BY <1>t, <2>2 DEF CountedIn
    <2> QED
        BY <1>t, <2>1, <2>2, <2>3, FS_EmptySet
<1>2. CASE limiter[c] # None /\ ~(now > limiter[c].reset)
    <2>1. Entry(c) = limiter[c]
        BY <1>2 DEF Entry
    <2>2. limiter[c] \in [count : 1..limit, reset : Window..(MaxClock + Window)]
        BY <1>2 DEF LimiterType
    <2>3. \A e \in admitted : e.client = c => \/ e.reset = limiter[c].reset
                                              \/ e.reset + Window < limiter[c].reset
        BY DEF LimiterInv
    <2>4. /\ limiter[c].reset <= now + Window
          /\ limiter[c].count = Cardinality(CountedIn(c, limiter[c].reset))
        BY <1>2 DEF LimiterInv
    <2>5. limiter[c].count \in 0..limit /\ limiter[c].reset \in Nat /\ now <= limiter[c].reset
        BY <1>t, <1>2, <2>2
    <2>6. limiter[c] = [count |-> limiter[c].count, reset |-> limiter[c].reset]
        BY <2>2
    <2> QED
        BY <2>1, <2>3, <2>4, <2>5, <2>6
<1> QED
    BY <1>1, <1>2

(* A refused request finds the entry of the map, used up, and leaves it.             *)
LEMMA RefuseIs ==
    ASSUME AuthConstants, LimiterType, LimiterInv, NEW c \in Clients, Refuse(c)
    PROVE  /\ UNCHANGED <<now, limit, limiter, admitted, served>>
           /\ refused' = refused \cup {<<c, now>>}
           /\ limiter[c] # None /\ limiter[c].count >= limit /\ now <= limiter[c].reset
<1>1. limit \in Nat \ {0}
    BY DEF AuthConstants, LimiterType
<1>2. Entry(c).count \in 0..limit /\ Entry(c).count >= limit
    BY EntryIs DEF Refuse
<1>3. Entry(c) = limiter[c] /\ now <= Entry(c).reset
    BY <1>1, <1>2, EntryIs
<1>4. limiter[c] # None
    <2>1. Entry(c) = [count |-> Entry(c).count, reset |-> Entry(c).reset] /\ Entry(c).reset \in Nat
        BY EntryIs
    <2>2. Entry(c) \in [count : Nat, reset : Nat]
        BY <1>1, <1>2, <2>1
    <2> QED
        BY <1>3, <2>2 DEF AuthConstants
<1>5. limiter' = limiter
    BY <1>3 DEF Refuse, LimiterType
<1> QED
    BY <1>2, <1>3, <1>4, <1>5 DEF Refuse

(* An admitted request is one more in its window.                                   *)
LEMMA AdmitIs ==
    ASSUME AuthConstants, LimiterType, LimiterInv, NEW r \in Slots, NEW c \in Clients, Admit(r, c)
    PROVE  \E new :
              /\ new = [id |-> served + 1, client |-> c, at |-> now, reset |-> Entry(c).reset]
              /\ new \notin admitted
              /\ admitted' = admitted \cup {new}
              /\ limiter' = [limiter EXCEPT ![c] = [count |-> Entry(c).count + 1,
                                                    reset |-> Entry(c).reset]]
              /\ Entry(c).count < limit
              /\ served' = served + 1
              /\ UNCHANGED <<now, limit, refused>>
<1> DEFINE new == [id |-> served + 1, client |-> c, at |-> now, reset |-> Entry(c).reset]
<1>1. new \notin admitted
    BY DEF LimiterType
<1>2. /\ Entry(c) = [count |-> Entry(c).count, reset |-> Entry(c).reset]
      /\ Entry(c).count \in 0..limit
    BY EntryIs
<1>3. limiter' = [limiter EXCEPT ![c] = [Entry(c) EXCEPT !.count = Entry(c).count + 1]]
    BY DEF Admit
<1>4. [Entry(c) EXCEPT !.count = Entry(c).count + 1]
         = [count |-> Entry(c).count + 1, reset |-> Entry(c).reset]
    BY <1>2
<1> QED
    BY <1>1, <1>3, <1>4 DEF Admit

LEMMA LimiterPreserved ==
    ASSUME AuthConstants, LimiterType, LimiterType', LimiterInv, [AuthNext]_authVars
    PROVE  LimiterInv'
<1>t. Window \in Nat /\ limit \in Nat \ {0} /\ now \in Nat
    BY DEF AuthConstants, LimiterType
<1>a. admitted \subseteq [id : 1..served, client : Clients, at : Times, reset : Nat]
    BY DEF LimiterType
<1>1. ASSUME UNCHANGED <<limit, limiter, admitted>>, now' = now \/ now' = now + 1
      PROVE  LimiterInv'
    <2>1. \A c, n : CountedIn(c, n)' = CountedIn(c, n)
        BY <1>1 DEF CountedIn
    <2>2. \A e \in admitted : e.at <= now => e.at <= now'
        BY <1>t, <1>a, <1>1 DEF Times
    <2>3. \A c \in Clients :
             limiter[c] # None /\ limiter[c].reset <= now + Window
                => limiter[c].reset <= now' + Window
        <3> SUFFICES ASSUME NEW c \in Clients, limiter[c] # None, limiter[c].reset <= now + Window
                     PROVE  limiter[c].reset <= now' + Window
            OBVIOUS
        <3>1. limiter[c].reset \in Window..(MaxClock + Window)
            BY DEF LimiterType
        <3> QED
            BY <1>t, <1>1, <3>1
    <2> QED
        BY <1>1, <2>1, <2>2, <2>3 DEF LimiterInv
<1>2. ASSUME NEW r \in Slots, NEW c \in Clients, Admit(r, c)
      PROVE  LimiterInv'
    <2> PICK n \in Nat : n = Entry(c).reset
        BY EntryIs
    <2> PICK new :
           /\ new = [id |-> served + 1, client |-> c, at |-> now, reset |-> n]
           /\ new \notin admitted
           /\ admitted' = admitted \cup {new}
           /\ limiter' = [limiter EXCEPT ![c] = [count |-> Entry(c).count + 1, reset |-> n]]
           /\ Entry(c).count < limit
           /\ UNCHANGED <<now, limit>>
        BY <1>2, AdmitIs
    <2>1. /\ Entry(c).count \in 0..limit /\ n \in Nat /\ now <= n /\ n <= now + Window
          /\ Entry(c).count = Cardinality(CountedIn(c, n))
          /\ \A e \in admitted : e.client = c => e.reset = n \/ e.reset + Window < n
        BY EntryIs
    <2>2. new.client = c /\ new.at = now /\ new.reset = n
        OBVIOUS
    <2>3. /\ limiter'[c] # None
          /\ limiter'[c].reset = n /\ limiter'[c].count = Entry(c).count + 1
          /\ \A d \in Clients \ {c} : limiter'[d] = limiter[d]
        <3>1. limiter'[c] = [count |-> Entry(c).count + 1, reset |-> n]
            BY DEF LimiterType
        <3>2. [count |-> Entry(c).count + 1, reset |-> n] \in [count : Nat, reset : Nat]
            BY <1>t, <2>1
        <3>3. limiter'[c] # None
            BY <3>1, <3>2 DEF AuthConstants
        <3>4. limiter'[c].reset = n /\ limiter'[c].count = Entry(c).count + 1
            BY <3>1
        <3>5. \A d \in Clients \ {c} : limiter'[d] = limiter[d]
            BY DEF LimiterType
        <3> QED
            BY <3>3, <3>4, <3>5
    <2>4. IsFiniteSet(admitted) /\ IsFiniteSet(admitted')
        BY FS_AddElement DEF LimiterInv
    <2>5. Cardinality(CountedIn(c, n)') = Entry(c).count + 1
        <3>1. CountedIn(c, n)' = CountedIn(c, n) \cup {new}
            BY <2>2 DEF CountedIn
        <3>2. new \notin CountedIn(c, n) /\ IsFiniteSet(CountedIn(c, n))
            BY <2>4, FS_Subset DEF CountedIn
        <3>3. Cardinality(CountedIn(c, n) \cup {new}) = Cardinality(CountedIn(c, n)) + 1
            BY <3>2, FS_AddElement
        <3> QED
            BY <2>1, <3>1, <3>3
    <2>6. ASSUME NEW d, NEW m, d # c \/ m # n
          PROVE  CountedIn(d, m)' = CountedIn(d, m)
        BY <2>2, <2>6 DEF CountedIn
    <2>7. ASSUME NEW e \in admitted'
          PROVE  /\ e.reset - Window <= e.at /\ e.at <= e.reset /\ e.at <= now'
                 /\ limiter'[e.client] # None
                 /\ \/ e.reset = limiter'[e.client].reset
                    \/ e.reset + Window < limiter'[e.client].reset
                 /\ Cardinality(CountedIn(e.client, e.reset)') <= limit'
        <3>1. CASE e = new
            BY <1>t, <2>1, <2>2, <2>3, <2>5, <3>1
        <3>2. CASE e \in admitted /\ e.client = c /\ e.reset = n
            BY <1>t, <2>1, <2>3, <2>5, <3>2 DEF LimiterInv
        <3>3. CASE e \in admitted /\ (e.client # c \/ e.reset # n)
            <4>1. e.client \in Clients
                BY <1>a, <3>3
            <4>2. /\ e.reset - Window <= e.at /\ e.at <= e.reset /\ e.at <= now
                  /\ limiter[e.client] # None
                  /\ \/ e.reset = limiter[e.client].reset
                     \/ e.reset + Window < limiter[e.client].reset
                  /\ Cardinality(CountedIn(e.client, e.reset)) <= limit
                BY <3>3 DEF LimiterInv
            <4>3. CountedIn(e.client, e.reset)' = CountedIn(e.client, e.reset)
                BY <2>6, <3>3
            <4>4. CASE e.client = c
                BY <2>1, <2>3, <3>3, <4>2, <4>3, <4>4
            <4>5. CASE e.client # c
                BY <2>3, <4>1, <4>2, <4>3, <4>5
            <4> QED
                BY <4>4, <4>5
        <3> QED
            BY <3>1, <3>2, <3>3
    <2>8. ASSUME NEW e \in admitted', NEW f \in admitted', e.client = f.client
          PROVE  \/ e.reset = f.reset
                 \/ e.reset + Window < f.reset
                 \/ f.reset + Window < e.reset
        BY <2>1, <2>2, <2>8 DEF LimiterInv
    <2>9. ASSUME NEW d \in Clients, limiter'[d] # None
          PROVE  /\ limiter'[d].reset <= now' + Window
                 /\ (limiter[d].count = Cardinality(CountedIn(d, limiter[d].reset)))'
        <3>1. CASE d = c
            <4>1. CountedIn(d, limiter[d].reset)' = CountedIn(c, n)'
                BY <2>3, <3>1 DEF CountedIn
            <4> QED
                BY <2>1, <2>3, <2>5, <3>1, <4>1
        <3>2. CASE d # c
            <4>1. CountedIn(d, limiter[d].reset)' = CountedIn(d, limiter[d].reset)
                BY <2>3, <2>2, <3>2 DEF CountedIn
            <4> QED
                BY <2>3, <2>9, <3>2, <4>1 DEF LimiterInv
        <3> QED
            BY <3>1, <3>2
    <2> QED
        BY <2>4, <2>7, <2>8, <2>9 DEF LimiterInv, CountedIn
<1>3. ASSUME NEW c \in Clients, Refuse(c)
      PROVE  LimiterInv'
    BY <1>1, <1>3, RefuseIs
<1>4. ASSUME NEW n \in Limits, RestartAuth(n)
      PROVE  LimiterInv'
    <2>1. admitted' = {} /\ limiter' = NoEntries
        BY <1>4 DEF RestartAuth
    <2> QED
        BY <2>1, FS_EmptySet DEF LimiterInv, NoEntries
<1> QED
    BY <1>1, <1>2, <1>3, <1>4, LimiterSteps

(* What was refused remains earned while more is admitted.                             *)
LEMMA RefusalPreserved ==
    ASSUME AuthConstants, LimiterType, LimiterInv, LimiterInv', RefusalInv, [AuthNext]_authVars
    PROVE  RefusalInv'
<1>t. /\ Window \in Nat /\ limit \in Nat \ {0} /\ now \in Nat
      /\ \A e \in refused : e[1] \in Clients /\ e[2] \in Nat
    BY DEF AuthConstants, LimiterType, Times
<1>a. admitted \subseteq [id : 1..served, client : Clients, at : Times, reset : Nat]
    BY DEF LimiterType
<1>0. ASSUME NEW c \in Clients, NEW s, NEW t, AdmittedIn(c, s, t) >= limit,
             admitted \subseteq admitted', limit' = limit
      PROVE  AdmittedIn(c, s, t)' >= limit'
    <2> DEFINE E == {e \in admitted : e.client = c /\ s <= e.at /\ e.at <= t}
               F == {e \in admitted' : e.client = c /\ s <= e.at /\ e.at <= t}
    <2>1. E \subseteq F /\ IsFiniteSet(F)
        BY <1>0, FS_Subset DEF LimiterInv
    <2>2. Cardinality(E) <= Cardinality(F) /\ Cardinality(E) \in Nat /\ Cardinality(F) \in Nat
        BY <2>1, FS_Subset, FS_CardinalityType
    <2>3. Cardinality(E) >= limit
        BY <1>0 DEF AdmittedIn
    <2>4. Cardinality(F) >= limit
        BY <1>t, <2>2, <2>3
    <2> QED
        BY <1>0, <2>4 DEF AdmittedIn
<1>1. ASSUME UNCHANGED <<limit, refused>>, admitted \subseteq admitted',
             now' = now \/ now' = now + 1
      PROVE  RefusalInv'
    BY <1>t, <1>0, <1>1 DEF RefusalInv, RefusalIsEarned
<1>2. ASSUME NEW c \in Clients, Refuse(c)
      PROVE  RefusalInv'
    <2>1. /\ UNCHANGED <<now, limit, admitted>>
          /\ refused' = refused \cup {<<c, now>>}
          /\ limiter[c] # None /\ limiter[c].count >= limit /\ now <= limiter[c].reset
        BY <1>2, RefuseIs
    <2>2. AdmittedIn(c, now - Window, now) >= limit
        <3> DEFINE E == CountedIn(c, limiter[c].reset)
                   F == {e \in admitted : e.client = c /\ now - Window <= e.at /\ e.at <= now}
        <3>1. limiter[c].reset \in Nat
            BY <2>1 DEF LimiterType, AuthConstants
        <3>2. E \subseteq F
            <4> SUFFICES ASSUME NEW e \in E PROVE e \in F
                OBVIOUS
            <4>1. e \in admitted /\ e.client = c /\ e.reset = limiter[c].reset
                BY DEF CountedIn
            <4>2. e.at \in Nat /\ e.reset - Window <= e.at /\ e.at <= now
                BY <1>a, <4>1 DEF LimiterInv, Times
            <4> QED
                BY <1>t, <2>1, <3>1, <4>1, <4>2
        <3>3. IsFiniteSet(F)
            BY FS_Subset DEF LimiterInv
        <3>4. Cardinality(E) <= Cardinality(F) /\ Cardinality(E) \in Nat /\ Cardinality(F) \in Nat
            BY <3>2, <3>3, FS_Subset, FS_CardinalityType
        <3>5. Cardinality(E) >= limit
            BY <2>1 DEF LimiterInv
        <3> QED
            BY <1>t, <3>4, <3>5 DEF AdmittedIn
    <2>3. \A e \in refused' : e \in refused \/ (e[1] = c /\ e[2] = now)
        <3>1. \A e \in refused' : e \in refused \/ e = <<c, now>>
            BY <2>1
        <3> QED
            BY <3>1
    <2> QED
        <3>1. ASSUME NEW e \in refused'
              PROVE  e[2] <= now /\ AdmittedIn(e[1], e[2] - Window, e[2]) >= limit
            <4>1. CASE e \in refused
                BY <4>1 DEF RefusalInv, RefusalIsEarned
            <4>2. CASE e[1] = c /\ e[2] = now
                BY <1>t, <2>2, <4>2
            <4> QED
                BY <2>3, <4>1, <4>2
        <3> QED
            BY <2>1, <3>1 DEF RefusalInv, RefusalIsEarned, AdmittedIn
<1>3. ASSUME NEW r \in Slots, NEW c \in Clients, Admit(r, c)
      PROVE  RefusalInv'
    <2>1. UNCHANGED <<now, limit, refused>> /\ admitted \subseteq admitted'
        BY <1>3, AdmitIs
    <2> QED
        BY <1>1, <2>1
<1>4. ASSUME NEW n \in Limits, RestartAuth(n)
      PROVE  RefusalInv'
    BY <1>4 DEF RestartAuth, RefusalInv, RefusalIsEarned
<1> QED
    BY <1>1, <1>2, <1>3, <1>4, LimiterSteps

(* An interval as long as the window has requests of at most two windows.               *)
LEMMA TwoWindows ==
    ASSUME AuthConstants, LimiterType, LimiterInv
    PROVE  RateBounded
<1> SUFFICES ASSUME NEW c \in Clients, NEW t \in Times
             PROVE  AdmittedIn(c, t, t + Window) <= 2 * limit
    BY DEF RateBounded
<1>t. Window \in Nat /\ limit \in Nat \ {0} /\ t \in Nat
    BY DEF AuthConstants, LimiterType, Times
<1> DEFINE E == {e \in admitted : e.client = c /\ t <= e.at /\ e.at <= t + Window}
<1>a. \A e \in E : /\ e \in admitted /\ e.at \in Nat /\ e.reset \in Nat /\ e.client = c
                   /\ t <= e.at /\ e.at <= t + Window
    BY DEF LimiterType, Times
<1>f. /\ \A n : IsFiniteSet(CountedIn(c, n)) /\ Cardinality(CountedIn(c, n)) \in Nat
      /\ \A e \in E : Cardinality(CountedIn(c, e.reset)) <= limit
    BY FS_Subset, FS_CardinalityType DEF LimiterInv, CountedIn
<1>1. CASE E = {}
    <2>1. Cardinality(E) = 0
        BY <1>1, FS_EmptySet
    <2> HIDE DEF E
    <2> QED
        BY <1>t, <2>1 DEF AdmittedIn, E
<1>2. ASSUME NEW e \in E, \A f \in E : f.reset = e.reset
      PROVE  Cardinality(E) <= 2 * limit
    <2>1. E \subseteq CountedIn(c, e.reset)
        BY <1>2 DEF CountedIn
    <2>2. Cardinality(E) <= Cardinality(CountedIn(c, e.reset)) /\ Cardinality(E) \in Nat
        BY <1>f, <2>1, FS_Subset, FS_CardinalityType
    <2> QED
        BY <1>f, <1>t, <2>2
<1>3. ASSUME NEW e \in E, NEW f \in E, e.reset < f.reset
      PROVE  Cardinality(E) <= 2 * limit
    <2> DEFINE V == CountedIn(c, e.reset)
               W == CountedIn(c, f.reset)
    <2>1. ASSUME NEW g \in E
          PROVE  g \in V \cup W
        <3>1. SUFFICES ASSUME g.reset # e.reset, g.reset # f.reset
                       PROVE  FALSE
            BY DEF CountedIn
        <3>2. /\ e.reset + Window < f.reset
              /\ g.reset + Window < e.reset \/ e.reset + Window < g.reset
              /\ g.reset + Window < f.reset \/ f.reset + Window < g.reset
            <4>1. \A x, y \in E : \/ x.reset = y.reset \/ x.reset + Window < y.reset
                                  \/ y.reset + Window < x.reset
                BY DEF LimiterInv
            <4> QED
                BY <1>a, <1>t, <1>3, <3>1, <4>1
        <3>3. \A x \in E : x.reset - Window <= x.at /\ x.at <= x.reset
            BY DEF LimiterInv
        <3>4. /\ e.reset - Window <= e.at /\ e.at <= e.reset
              /\ f.reset - Window <= f.at /\ f.at <= f.reset
              /\ g.reset - Window <= g.at /\ g.at <= g.reset
            BY <3>3
        <3> QED
            BY <1>a, <1>t, <3>2, <3>4
    <2>2. IsFiniteSet(V \cup W) /\ Cardinality(V \cup W) <= Cardinality(V) + Cardinality(W)
          /\ Cardinality(V \cup W) \in Nat
        <3>1. /\ IsFiniteSet(V \cup W)
              /\ Cardinality(V \cup W)
                   = Cardinality(V) + Cardinality(W) - Cardinality(V \cap W)
            BY <1>f, FS_Union
        <3>2. Cardinality(V \cap W) \in Nat
            BY <1>f, FS_Intersection, FS_CardinalityType
        <3>3. Cardinality(V) \in Nat /\ Cardinality(W) \in Nat /\ Cardinality(V \cup W) \in Nat
            BY <1>f, <3>1, FS_CardinalityType
        <3> QED
            BY <3>1, <3>2, <3>3
    <2>3. Cardinality(E) <= Cardinality(V \cup W) /\ Cardinality(E) \in Nat
        <3>1. E \subseteq V \cup W
            BY <2>1
        <3> QED
            BY <2>2, <3>1, FS_Subset, FS_CardinalityType
    <2> HIDE DEF V, W, E
    <2>4. Cardinality(V) <= limit /\ Cardinality(W) <= limit
          /\ Cardinality(V) \in Nat /\ Cardinality(W) \in Nat
        BY <1>f DEF V, W
    <2> QED
        BY <1>t, <2>2, <2>3, <2>4
<1>4. Cardinality(E) <= 2 * limit
    <2>1. SUFFICES ASSUME NEW e \in E, NEW f \in E, e.reset # f.reset
                   PROVE  Cardinality(E) <= 2 * limit
        BY <1>1, <1>2, <1>t, FS_EmptySet
    <2>2. e.reset < f.reset \/ f.reset < e.reset
        BY <1>a, <2>1
    <2> QED
        BY <1>3, <2>2
<1> QED
    BY <1>4 DEF AdmittedIn

-----------------------------------------------------------------------------
(***************************************************************************)
(* Types                                                                    *)
(***************************************************************************)
LEMMA SlotsTyped ==
    ASSUME AuthConstants, AuthTypeOK, CaptchaInv, [AuthNext]_authVars
    PROVE  http' \in [Slots -> SlotState]
<1>t. /\ http \in [Slots -> SlotState] /\ auth \in AuthDocs /\ now \in Times
      /\ issued \subseteq Captchas /\ captchas \subseteq issued
      /\ failed \in [Clients -> Times \cup {None}]
    BY DEF AuthTypeOK
<1>f. Free \in SlotState
    BY FreeType
<1>1. CASE UNCHANGED authVars
    BY <1>t, <1>1 DEF authVars
<1>2. CASE AuthTick
    BY <1>t, <1>2 DEF AuthTick
<1>3. ASSUME NEW d \in AuthDocs, SwapAuth(d)
      PROVE  http' \in [Slots -> SlotState]
    <2> SUFFICES ASSUME NEW r \in Slots
                 PROVE  [http[r] EXCEPT !.seen = @ \cup {d}] \in SlotState
        BY <1>t, <1>3 DEF SwapAuth
    <2> QED
        BY <1>t DEF SlotState
<1>4. ASSUME NEW n \in Limits, RestartAuth(n)
      PROVE  http' \in [Slots -> SlotState]
    BY <1>f, <1>4 DEF RestartAuth
<1>5. ASSUME NEW c \in Clients, Refuse(c)
      PROVE  http' \in [Slots -> SlotState]
    BY <1>t, <1>5 DEF Refuse
<1>6. ASSUME NEW r \in Slots, NEW c \in Clients, Admit(r, c)
      PROVE  http' \in [Slots -> SlotState]
    <2>1. [Free EXCEPT !.pc = "admitted", !.client = c, !.seen = {auth}] \in SlotState
        BY <1>t, <1>f DEF SlotState
    <2> QED
        BY <1>t, <1>6, <2>1, BecomeIs DEF Admit
<1>7. ASSUME NEW r \in Slots, CaptchaImage(r) \/ LoginCaptchaRequirement(r) \/ CaptchaMissing(r)
                              \/ OnFailure(r) \/ OnSuccess(r) \/ Pass(r)
      PROVE  http' \in [Slots -> SlotState]
    <2>1. Become(r, Free)
        BY <1>7 DEF CaptchaImage, LoginCaptchaRequirement, CaptchaMissing, OnFailure, OnSuccess, Pass
    <2> QED
        BY <1>t, <1>f, <2>1, BecomeIs
<1>8. ASSUME NEW r \in Slots, NEW sent \in Credentials, LoginRead(r, sent)
      PROVE  http' \in [Slots -> SlotState]
    <2>1. [http[r] EXCEPT !.pc = "guard", !.doc = auth, !.sent = sent] \in SlotState
        BY <1>t DEF SlotState
    <2> QED
        BY <1>t, <1>f, <1>8, <2>1, BecomeIs DEF LoginRead
<1>9. ASSUME NEW r \in Slots, RequireCaptcha(r)
      PROVE  http' \in [Slots -> SlotState]
    <2> DEFINE c == http[r].client
    <2>1. failed[c] \in Times \cup {None}
        BY <1>t, <1>9 DEF RequireCaptcha, CaptchaInv, Pays
    <2>2. \A pc \in {"captcha", "compare"} :
             [http[r] EXCEPT !.pc = pc, !.checked = now, !.demand = failed[c]] \in SlotState
        BY <1>t, <2>1 DEF SlotState
    <2>3. \E pc \in {"captcha", "compare"} :
             Become(r, [http[r] EXCEPT !.pc = pc, !.checked = now, !.demand = failed[c]])
        BY <1>9 DEF RequireCaptcha
    <2> QED
        BY <1>t, <2>2, <2>3, BecomeIs
<1>10. ASSUME NEW r \in Slots, NEW id \in Captchas, NEW right \in BOOLEAN, VerifyCaptcha(r, id, right)
      PROVE  http' \in [Slots -> SlotState]
    <2>1. /\ [http[r] EXCEPT !.pc = "compare", !.captcha = id] \in SlotState
          /\ [http[r] EXCEPT !.pc = "failed"] \in SlotState
        BY <1>t DEF SlotState
    <2> QED
        BY <1>t, <1>10, <2>1, BecomeIs DEF VerifyCaptcha
<1>11. ASSUME NEW r \in Slots, Compare(r)
      PROVE  http' \in [Slots -> SlotState]
    <2>1. /\ [http[r] EXCEPT !.pc = "passed"] \in SlotState
          /\ [http[r] EXCEPT !.pc = "failed"] \in SlotState
        BY <1>t DEF SlotState
    <2>2. Become(r, [http[r] EXCEPT !.pc = "passed"]) \/ Become(r, [http[r] EXCEPT !.pc = "failed"])
        BY <1>11 DEF Compare
    <2> QED
        BY <1>t, <2>1, <2>2, BecomeIs
<1>12. ASSUME NEW r \in Slots, NEW token \in Tokens, Authorize(r, token)
      PROVE  http' \in [Slots -> SlotState]
    <2>1. [http[r] EXCEPT !.pc = "authorized", !.operator = auth.user] \in SlotState
        BY <1>t DEF SlotState
    <2> QED
        BY <1>t, <1>f, <1>12, <2>1, BecomeIs DEF Authorize
<1> QED
    BY <1>1, <1>2, <1>3, <1>4, <1>5, <1>6, <1>7, <1>8, <1>9, <1>10, <1>11, <1>12
    DEF AuthNext, Login

LEMMA TypePreserved ==
    ASSUME AuthConstants, AuthTypeOK, LimiterInv, CaptchaInv, [AuthNext]_authVars
    PROVE  AuthTypeOK'
<1>c. /\ Limits \subseteq Nat \ {0}
      /\ Window \in Nat /\ MaxClock \in Nat /\ MaxServed \in Nat
    BY DEF AuthConstants
<1>h. http' \in [Slots -> SlotState]
    BY SlotsTyped
<1>1. now' \in Times
    <2>1. now' = now \/ (now < MaxClock /\ now' = now + 1)
        BY DEF AuthNext, authVars, AuthTick, SwapAuth, RestartAuth, Refuse, Admit, Login, CaptchaImage,
               LoginCaptchaRequirement, LoginRead, RequireCaptcha, VerifyCaptcha, CaptchaMissing,
               Compare, OnFailure, OnSuccess, Authorize, Pass
    <2> QED
        BY <1>c, <2>1 DEF AuthTypeOK, Times
<1>2. auth' \in AuthDocs
    BY DEF AuthTypeOK, AuthNext, authVars, AuthTick, SwapAuth, RestartAuth, Refuse, Admit, Login,
           CaptchaImage, LoginCaptchaRequirement, LoginRead, RequireCaptcha, VerifyCaptcha,
           CaptchaMissing, Compare, OnFailure, OnSuccess, Authorize, Pass
<1>3. {guard, failed}' \subseteq [Clients -> Times \cup {None}]
    <2>1. ASSUME NEW r \in Slots, Login(r)
          PROVE  {guard, failed}' \subseteq [Clients -> Times \cup {None}]
        BY <2>1 DEF AuthTypeOK, Login, CaptchaImage, LoginCaptchaRequirement, LoginRead,
                    RequireCaptcha, VerifyCaptcha, CaptchaMissing, Compare, OnFailure, OnSuccess,
                    Looked, memory, history
    <2>2. CASE \E n \in Limits : RestartAuth(n)
        BY <2>2 DEF RestartAuth, NoEntries
    <2>3. ASSUME NEW r \in Slots, Pass(r) \/ (\E token \in Tokens : Authorize(r, token))
                                  \/ (\E c \in Clients : Admit(r, c))
          PROVE  UNCHANGED <<guard, failed>>
        BY <2>3 DEF Pass, Authorize, Admit, memory, history
    <2>4. ASSUME UNCHANGED authVars \/ AuthTick \/ (\E d \in AuthDocs : SwapAuth(d))
                 \/ (\E c \in Clients : Refuse(c))
          PROVE  UNCHANGED <<guard, failed>>
        BY <2>4 DEF authVars, AuthTick, SwapAuth, Refuse, memory, history
    <2> QED
        BY <2>1, <2>2, <2>3, <2>4 DEF AuthTypeOK, AuthNext
<1>4. captchas' \subseteq issued' /\ issued' \subseteq Captchas
    <2>1. ASSUME NEW r \in Slots, Login(r)
          PROVE  captchas' \subseteq issued' /\ issued' \subseteq Captchas
        BY <2>1 DEF AuthTypeOK, Login, CaptchaImage, LoginCaptchaRequirement, LoginRead,
                    RequireCaptcha, VerifyCaptcha, CaptchaMissing, Compare, OnFailure, OnSuccess,
                    memory, history
    <2>2. ASSUME NEW r \in Slots, Pass(r) \/ (\E token \in Tokens : Authorize(r, token))
                                  \/ (\E c \in Clients : Admit(r, c))
          PROVE  UNCHANGED <<captchas, issued>>
        BY <2>2 DEF Pass, Authorize, Admit, memory, history
    <2>3. ASSUME UNCHANGED authVars \/ AuthTick \/ (\E d \in AuthDocs : SwapAuth(d))
                 \/ (\E c \in Clients : Refuse(c)) \/ (\E n \in Limits : RestartAuth(n))
          PROVE  captchas' \subseteq captchas /\ issued' = issued
        BY <2>3 DEF authVars, AuthTick, SwapAuth, Refuse, RestartAuth, memory, history
    <2> QED
        BY <2>1, <2>2, <2>3 DEF AuthTypeOK, AuthNext
<1>5. /\ limit' \in Limits
      /\ limiter' \in [Clients -> {None} \cup
                        [count : 1..limit', reset : Window..(MaxClock + Window)]]
      /\ admitted' \subseteq [id : 1..served', client : Clients, at : Times, reset : Nat]
      /\ refused' \subseteq Clients \X Times
      /\ served' \in 0..MaxServed
    <2>t. /\ limit \in Limits /\ now \in Times /\ served \in 0..MaxServed
          /\ limiter \in [Clients -> {None} \cup
                            [count : 1..limit, reset : Window..(MaxClock + Window)]]
          /\ admitted \subseteq [id : 1..served, client : Clients, at : Times, reset : Nat]
          /\ refused \subseteq Clients \X Times
        BY DEF AuthTypeOK
    <2>l. LimiterType
        BY TypeOfLimiter
    <2>1. CASE UNCHANGED <<limit, limiter, admitted, refused, served>>
        BY <2>t, <2>1
    <2>2. ASSUME NEW r \in Slots, NEW c \in Clients, Admit(r, c)
          PROVE  /\ limit' \in Limits
                 /\ limiter' \in [Clients -> {None} \cup
                                   [count : 1..limit', reset : Window..(MaxClock + Window)]]
                 /\ admitted' \subseteq [id : 1..served', client : Clients, at : Times, reset : Nat]
                 /\ refused' \subseteq Clients \X Times
                 /\ served' \in 0..MaxServed
        <3> PICK n \in Nat : n = Entry(c).reset
            BY <2>l, EntryIs
        <3> PICK k \in 0..limit : k = Entry(c).count
            BY <2>l, EntryIs
        <3> PICK new :
               /\ new = [id |-> served + 1, client |-> c, at |-> now, reset |-> n]
               /\ admitted' = admitted \cup {new}
               /\ limiter' = [limiter EXCEPT ![c] = [count |-> k + 1, reset |-> n]]
               /\ k < limit
               /\ served' = served + 1
               /\ UNCHANGED <<now, limit, refused>>
            BY <2>l, <2>2, AdmitIs
        <3>1. served < MaxServed
            BY <2>2 DEF Admit
        <3>2. n \in Window..(MaxClock + Window)
            <4>1. Entry(c) = [count |-> 0, reset |-> now + Window] \/ Entry(c) = limiter[c]
                BY DEF Entry
            <4>2. CASE Entry(c) = [count |-> 0, reset |-> now + Window]
                BY <1>c, <2>t, <4>2 DEF Times
            <4>3. CASE Entry(c) = limiter[c] /\ Entry(c) # [count |-> 0, reset |-> now + Window]
                <5>1. limiter[c] # None
                    BY <4>3 DEF Entry
                <5> QED
                    BY <2>t, <4>3, <5>1
            <4> QED
                BY <4>1, <4>2, <4>3
        <3>3. k + 1 \in 1..limit /\ served + 1 \in 1..MaxServed
            BY <1>c, <2>t, <3>1
        <3>4. limiter' \in [Clients -> {None} \cup
                             [count : 1..limit, reset : Window..(MaxClock + Window)]]
            BY <2>t, <3>2, <3>3
        <3>5. new \in [id : 1..(served + 1), client : Clients, at : Times, reset : Nat]
            BY <2>t, <3>3
        <3>6. admitted \subseteq [id : 1..(served + 1), client : Clients, at : Times, reset : Nat]
            BY <2>t
        <3> QED
            BY <2>t, <3>3, <3>4, <3>5, <3>6
    <2>3. ASSUME NEW c \in Clients, Refuse(c)
          PROVE  UNCHANGED <<limit, limiter, admitted, served>> /\ refused' \subseteq Clients \X Times
        BY <2>l, <2>t, <2>3, RefuseIs
    <2>4. ASSUME NEW n \in Limits, RestartAuth(n)
          PROVE  /\ limit' \in Limits /\ served' = served
                 /\ limiter' = NoEntries /\ admitted' = {} /\ refused' = {}
        BY <2>4 DEF RestartAuth
    <2> QED
        BY <2>t, <2>1, <2>2, <2>3, <2>4, LimiterSteps DEF NoEntries
<1> QED
    BY <1>h, <1>1, <1>2, <1>3, <1>4, <1>5 DEF AuthTypeOK

-----------------------------------------------------------------------------
(***************************************************************************)
(* Guard and captchas                                                       *)
(***************************************************************************)
LEMMA GuardPreserved ==
    ASSUME AuthConstants, AuthTypeOK, GuardInv, [AuthNext]_authVars
    PROVE  GuardInv'
<1>t. /\ now \in Nat /\ GuardTTL \in Nat
      /\ guard \in [Clients -> Times \cup {None}] /\ failed \in [Clients -> Times \cup {None}]
      /\ \A c \in Clients : failed[c] # None => failed[c] \in Nat
    <2>1. Times \subseteq Nat /\ GuardTTL \in Nat
        BY DEF AuthConstants, Times
    <2>2. /\ now \in Times /\ guard \in [Clients -> Times \cup {None}]
          /\ failed \in [Clients -> Times \cup {None}]
        BY DEF AuthTypeOK
    <2> QED
        BY <2>1, <2>2
<1>1. ASSUME UNCHANGED <<guard, failed>>, now' = now \/ now' = now + 1
      PROVE  GuardInv'
    <2>1. \A c \in Clients :
             failed[c] # None /\ now - failed[c] > GuardTTL => now' - failed[c] > GuardTTL
        BY <1>t, <1>1
    <2> QED
        BY <1>1, <2>1 DEF GuardInv
<1>2. ASSUME UNCHANGED <<now, failed>>, NEW c, guard' = Looked(c)
      PROVE  GuardInv'
    <2>1. CASE Expired(c)
        <3> SUFFICES ASSUME NEW d \in Clients
                     PROVE  /\ guard'[d] # None => guard'[d] = failed[d]
                            /\ failed[d] # None => guard'[d] = failed[d] \/ now - failed[d] > GuardTTL
            BY <1>2 DEF GuardInv
        <3>1. guard' = [guard EXCEPT ![c] = None] /\ guard[c] # None /\ now - guard[c] > GuardTTL
            BY <1>2, <2>1 DEF Looked, Expired
        <3> QED
            BY <1>t, <3>1 DEF GuardInv
    <2>2. CASE ~Expired(c)
        BY <1>1, <1>2, <2>2 DEF Looked
    <2> QED
        BY <2>1, <2>2
<1>3. ASSUME NEW r \in Slots, OnFailure(r) \/ OnSuccess(r)
      PROVE  GuardInv'
    <2>1. \E c, x : /\ guard' = [guard EXCEPT ![c] = x]
                    /\ failed' = [failed EXCEPT ![c] = x]
                    /\ now' = now
        BY <1>3 DEF OnFailure, OnSuccess
    <2> QED
        BY <1>t, <2>1 DEF GuardInv
<1>4. ASSUME NEW r \in Slots, Login(r)
      PROVE  GuardInv'
    <2>1. ASSUME CaptchaImage(r) \/ CaptchaMissing(r) \/ Compare(r)
                 \/ (\E sent \in Credentials : LoginRead(r, sent))
                 \/ (\E id \in Captchas, right \in BOOLEAN : VerifyCaptcha(r, id, right))
          PROVE  UNCHANGED <<now, guard, failed>>
        BY <2>1 DEF CaptchaImage, CaptchaMissing, Compare, LoginRead, VerifyCaptcha, memory, history
    <2>2. ASSUME LoginCaptchaRequirement(r) \/ RequireCaptcha(r)
          PROVE  UNCHANGED <<now, failed>> /\ guard' = Looked(http[r].client)
        BY <2>2 DEF LoginCaptchaRequirement, RequireCaptcha, history
    <2> QED
        BY <1>1, <1>2, <1>3, <1>4, <2>1, <2>2 DEF Login
<1>5. CASE \E n \in Limits : RestartAuth(n)
    BY <1>5 DEF RestartAuth, NoEntries, GuardInv
<1>6. ASSUME NEW r \in Slots, Pass(r) \/ (\E token \in Tokens : Authorize(r, token))
                              \/ (\E c \in Clients : Admit(r, c))
      PROVE  UNCHANGED <<now, guard, failed>>
    BY <1>6 DEF Pass, Authorize, Admit, memory, history
<1>7. ASSUME UNCHANGED authVars \/ AuthTick \/ (\E d \in AuthDocs : SwapAuth(d))
             \/ (\E c \in Clients : Refuse(c))
      PROVE  UNCHANGED <<guard, failed>> /\ (now' = now \/ now' = now + 1)
    BY <1>7 DEF authVars, AuthTick, SwapAuth, Refuse, memory, history
<1> QED
    BY <1>1, <1>4, <1>5, <1>6, <1>7 DEF AuthNext

(* A step of one request, between two requests that have no captcha in common.         *)
LEMMA CaptchaStep ==
    ASSUME AuthTypeOK, CaptchaInv, NEW r \in Slots, NEW l, Become(r, l), UNCHANGED guesses,
           issued \ captchas \subseteq issued' \ captchas',
           Pays(l)',
           \A q \in Slots :
              q # r /\ http[q].pc = "compare" /\ l.pc = "compare" =>
                 l.captcha = None \/ http[q].captcha # l.captcha
    PROVE  CaptchaInv'
<1>1. /\ http'[r] = l
      /\ \A q \in Slots : q # r => http'[q] = http[q]
    BY BecomeIs DEF AuthTypeOK
<1>2. ASSUME NEW q \in Slots, q # r
      PROVE  Pays(http[q])'
    BY <1>1, <1>2 DEF CaptchaInv, Pays
<1>3. \A q \in Slots : Pays(http[q])'
    BY <1>1, <1>2 DEF Pays
<1>4. \A q, s \in Slots :
         q # s /\ http'[q].pc = "compare" /\ http'[s].pc = "compare" =>
            http'[q].captcha = None \/ http'[q].captcha # http'[s].captcha
    BY <1>1 DEF CaptchaInv
<1> QED
    BY <1>3, <1>4 DEF CaptchaInv, GuessesCostCaptchas

LEMMA CaptchaPreserved ==
    ASSUME AuthConstants, AuthTypeOK, GuardInv, CaptchaInv, [AuthNext]_authVars
    PROVE  CaptchaInv'
<1>t. /\ http \in [Slots -> SlotState] /\ captchas \subseteq issued /\ issued \subseteq Captchas
      /\ None \notin Captchas
      /\ guard \in [Clients -> Times \cup {None}] /\ failed \in [Clients -> Times \cup {None}]
    BY DEF AuthTypeOK, AuthConstants
<1>p. \A r \in Slots : Pays(http[r])
    BY DEF CaptchaInv
<1>f. Free.pc = "free" /\ Free.captcha = None
    BY DEF Free
(* A request that does not compare, nor loses its client.                               *)
<1>0. ASSUME NEW r \in Slots, NEW l, Become(r, l), UNCHANGED guesses,
             issued \ captchas \subseteq issued' \ captchas',
             l.pc # "compare",
             l.pc # "free" => l.client \in Clients,
             l.pc \in {"free", "admitted", "guard", "captcha"} => l.captcha = None
      PROVE  CaptchaInv'
    <2>1. Pays(l)'
        BY <1>0 DEF Pays
    <2> QED
        BY <1>0, <2>1, CaptchaStep
<1>1. ASSUME UNCHANGED <<http, captchas, issued, guesses>>
      PROVE  CaptchaInv'
    BY <1>1 DEF CaptchaInv, Pays, GuessesCostCaptchas
<1>2. CASE UNCHANGED authVars \/ AuthTick \/ (\E c \in Clients : Refuse(c))
    BY <1>1, <1>2 DEF authVars, AuthTick, Refuse, memory, history
<1>3. ASSUME NEW d \in AuthDocs, SwapAuth(d)
      PROVE  CaptchaInv'
    <2>1. ASSUME NEW r \in Slots
          PROVE  /\ http'[r].pc = http[r].pc /\ http'[r].client = http[r].client
                 /\ http'[r].captcha = http[r].captcha /\ http'[r].demand = http[r].demand
                 /\ http'[r].checked = http[r].checked
        BY <1>t, <1>3 DEF SwapAuth, SlotState
    <2>2. UNCHANGED <<captchas, issued, guesses>>
        BY <1>3 DEF SwapAuth, memory, history
    <2> QED
        BY <2>1, <2>2 DEF CaptchaInv, Pays, GuessesCostCaptchas
<1>4. ASSUME NEW n \in Limits, RestartAuth(n)
      PROVE  CaptchaInv'
    <2>1. /\ \A r \in Slots : http'[r] = Free
          /\ captchas' = {} /\ UNCHANGED <<issued, guesses>>
        BY <1>4 DEF RestartAuth
    <2> QED
        BY <1>f, <2>1 DEF CaptchaInv, Pays, GuessesCostCaptchas
<1>5. ASSUME NEW r \in Slots, NEW c \in Clients, Admit(r, c)
      PROVE  CaptchaInv'
    <2> DEFINE l == [Free EXCEPT !.pc = "admitted", !.client = c, !.seen = {auth}]
    <2>1. l.pc = "admitted" /\ l.client = c /\ l.captcha = None
        BY DEF Free
    <2>2. Become(r, l) /\ UNCHANGED <<captchas, issued, guesses>>
        BY <1>5 DEF Admit
    <2> HIDE DEF l
    <2> QED
        BY <1>0, <2>1, <2>2
<1>6. ASSUME NEW r \in Slots, LoginCaptchaRequirement(r) \/ CaptchaMissing(r) \/ OnFailure(r)
                              \/ OnSuccess(r) \/ Pass(r)
      PROVE  CaptchaInv'
    <2>1. Become(r, Free) /\ UNCHANGED <<captchas, issued, guesses>>
        BY <1>6 DEF LoginCaptchaRequirement, CaptchaMissing, OnFailure, OnSuccess, Pass, memory,
                    history
    <2> QED
        BY <1>0, <1>f, <2>1
<1>7. ASSUME NEW r \in Slots, CaptchaImage(r)
      PROVE  CaptchaInv'
    <2> PICK id \in Captchas \ issued :
           captchas' = captchas \cup {id} /\ issued' = issued \cup {id}
        BY <1>7 DEF CaptchaImage
    <2>1. Become(r, Free) /\ UNCHANGED guesses
        BY <1>7 DEF CaptchaImage
    <2>2. issued \ captchas \subseteq issued' \ captchas'
        OBVIOUS
    <2> QED
        BY <1>0, <1>f, <2>1, <2>2
<1>8. ASSUME NEW r \in Slots, NEW sent \in Credentials, LoginRead(r, sent)
      PROVE  CaptchaInv'
    <2> DEFINE l == [http[r] EXCEPT !.pc = "guard", !.doc = auth, !.sent = sent]
    <2>1. Become(r, Free) \/ Become(r, l)
        BY <1>8 DEF LoginRead
    <2>2. UNCHANGED <<captchas, issued, guesses>>
        BY <1>8 DEF LoginRead, memory, history
    <2>3. l.pc = "guard" /\ l.client = http[r].client /\ l.captcha = http[r].captcha
        BY <1>t DEF SlotState
    <2>4. l.client \in Clients /\ l.captcha = None
        BY <1>p, <1>8, <2>3 DEF LoginRead, Pays
    <2> HIDE DEF l
    <2> QED
        BY <1>0, <1>f, <2>1, <2>2, <2>3, <2>4
<1>9. ASSUME NEW r \in Slots, RequireCaptcha(r)
      PROVE  CaptchaInv'
    <2> PICK c : c = http[r].client
        OBVIOUS
    <2> PICK pc \in {"captcha", "compare"} : pc = IF Required(c) THEN "captcha" ELSE "compare"
        OBVIOUS
    <2> PICK l : l = [http[r] EXCEPT !.pc = pc, !.checked = now, !.demand = failed[c]]
        OBVIOUS
    <2>1. Become(r, l) /\ UNCHANGED <<captchas, issued, guesses>>
        BY <1>9 DEF RequireCaptcha, history
    <2>2. /\ l.pc = pc /\ l.client = c /\ l.captcha = http[r].captcha
          /\ l.checked = now /\ l.demand = failed[c]
        BY <1>t DEF SlotState
    <2>3. c \in Clients /\ http[r].captcha = None
        BY <1>p, <1>9 DEF RequireCaptcha, Pays
    <2>4. pc = "compare" => failed[c] = None \/ now - failed[c] > GuardTTL
        BY <1>t, <2>3 DEF Required, Looked, Expired, GuardInv
    <2>5. Pays(l)'
        BY <2>2, <2>3, <2>4 DEF Pays
    <2> QED
        BY <2>1, <2>2, <2>3, <2>5, CaptchaStep
<1>10. ASSUME NEW r \in Slots, NEW id \in Captchas, NEW right \in BOOLEAN, VerifyCaptcha(r, id, right)
      PROVE  CaptchaInv'
    <2> PICK l, m : /\ l = [http[r] EXCEPT !.pc = "compare", !.captcha = id]
                    /\ m = [http[r] EXCEPT !.pc = "failed"]
        OBVIOUS
    <2>1. /\ captchas' = captchas \ {id} /\ UNCHANGED <<issued, guesses>>
          /\ http[r].pc = "captcha"
          /\ (id \in captchas /\ Become(r, l)) \/ Become(r, m)
        BY <1>10 DEF VerifyCaptcha, Solves, history
    <2>2. /\ l.pc = "compare" /\ l.captcha = id /\ l.client = http[r].client
          /\ m.pc = "failed" /\ m.client = http[r].client
        BY <1>t DEF SlotState
    <2>3. http[r].client \in Clients
        BY <1>p, <2>1 DEF Pays
    <2>4. CASE Become(r, m)
        BY <1>0, <2>1, <2>2, <2>3, <2>4
    <2>5. CASE id \in captchas /\ Become(r, l)
        <3>1. Pays(l)'
            <4>1. id \in issued' \ captchas'
                BY <1>t, <2>1, <2>5
            <4>2. \A g \in guesses' : g.captcha # id
                BY <1>t, <2>1, <2>5 DEF CaptchaInv
            <4> QED
                BY <1>t, <2>2, <2>3, <4>1, <4>2 DEF Pays
        <3>2. \A q \in Slots : http[q].pc = "compare" => http[q].captcha # id
            BY <1>t, <1>p, <2>5 DEF Pays
        <3>3. issued \ captchas \subseteq issued' \ captchas'
            BY <2>1
        <3>4. \A q \in Slots :
                 q # r /\ http[q].pc = "compare" /\ l.pc = "compare" =>
                    l.captcha = None \/ http[q].captcha # l.captcha
            BY <2>2, <3>2
        <3> QED
            BY <2>1, <2>5, <3>1, <3>3, <3>4, CaptchaStep
    <2> QED
        BY <2>1, <2>4, <2>5
<1>11. ASSUME NEW r \in Slots, NEW token \in Tokens, Authorize(r, token)
      PROVE  CaptchaInv'
    <2> DEFINE l == [http[r] EXCEPT !.pc = "authorized", !.operator = auth.user]
    <2>1. Become(r, Free) \/ Become(r, l)
        BY <1>11 DEF Authorize
    <2>2. UNCHANGED <<captchas, issued, guesses>>
        BY <1>11 DEF Authorize, memory
    <2>3. l.pc = "authorized" /\ l.client = http[r].client
        BY <1>t DEF SlotState
    <2>4. l.client \in Clients
        BY <1>p, <1>11, <2>3 DEF Authorize, Pays
    <2> HIDE DEF l
    <2> QED
        BY <1>0, <1>f, <2>1, <2>2, <2>3, <2>4
<1>12. ASSUME NEW r \in Slots, Compare(r)
      PROVE  CaptchaInv'
    <2> PICK pc \in {"passed", "failed"} : Become(r, [http[r] EXCEPT !.pc = pc])
        BY <1>12 DEF Compare
    <2> PICK g : /\ guesses' = guesses \cup {g}
                 /\ g.captcha = http[r].captcha /\ g.checked = http[r].checked
                 /\ g.demand = http[r].demand
        <3> DEFINE new == [id |-> Cardinality(guesses) + 1, client |-> http[r].client,
                           captcha |-> http[r].captcha, checked |-> http[r].checked,
                           demand |-> http[r].demand]
        <3>1. guesses' = guesses \cup {new}
            BY <1>12 DEF Compare
        <3>2. /\ new.captcha = http[r].captcha /\ new.checked = http[r].checked
              /\ new.demand = http[r].demand
            OBVIOUS
        <3> QED
            BY <3>1, <3>2
    <2>1. http[r].pc = "compare" /\ UNCHANGED <<captchas, issued>>
        BY <1>12 DEF Compare, memory
    <2>2. /\ http'[r] = [http[r] EXCEPT !.pc = pc]
          /\ \A q \in Slots : q # r => http'[q] = http[q]
        BY <1>t, BecomeIs
    <2>3. http'[r].pc = pc /\ http'[r].client = http[r].client
        BY <1>t, <2>2 DEF SlotState
    <2>4. IF g.captcha = None
          THEN g.demand = None \/ g.checked - g.demand > GuardTTL
          ELSE /\ g.captcha \in issued \ captchas
               /\ \A h \in guesses : h.captcha # g.captcha
        BY <1>p, <2>1 DEF Pays
    <2>5. GuessesCostCaptchas'
        BY <2>4 DEF CaptchaInv, GuessesCostCaptchas
    <2>6. \A q \in Slots : Pays(http[q])'
        <3>1. Pays(http[r])'
            BY <1>p, <2>1, <2>3 DEF Pays
        <3>2. ASSUME NEW q \in Slots, q # r
              PROVE  Pays(http[q])'
            <4>1. http[q].pc = "compare" /\ http[q].captcha # None => http[q].captcha # g.captcha
                BY <2>1, <3>2 DEF CaptchaInv
            <4> QED
                BY <1>p, <2>1, <2>2, <3>2, <4>1 DEF Pays
        <3> QED
            BY <3>1, <3>2
    <2>7. \A h \in guesses' : h.captcha # None => h.captcha \in issued' \ captchas'
        BY <2>1, <2>4 DEF CaptchaInv
    <2>8. \A p, q \in Slots :
             p # q /\ http'[p].pc = "compare" /\ http'[q].pc = "compare" =>
                http'[p].captcha = None \/ http'[p].captcha # http'[q].captcha
        <3> SUFFICES ASSUME NEW p \in Slots, NEW q \in Slots, p # q,
                            http'[p].pc = "compare", http'[q].pc = "compare"
                     PROVE  http'[p].captcha = None \/ http'[p].captcha # http'[q].captcha
            OBVIOUS
        <3>1. p # r /\ q # r
            BY <2>3
        <3>2. http'[p] = http[p] /\ http'[q] = http[q]
            BY <2>2, <3>1
        <3> QED
            BY <3>2 DEF CaptchaInv
    <2> QED
        BY <2>5, <2>6, <2>7, <2>8 DEF CaptchaInv
<1> QED
    BY <1>2, <1>3, <1>4, <1>5, <1>6, <1>7, <1>8, <1>9, <1>10, <1>11, <1>12 DEF AuthNext, Login

-----------------------------------------------------------------------------
(***************************************************************************)
(* Sessions and callers                                                     *)
(***************************************************************************)
(* Between its read and its answer a login keeps what it read.                       *)
LEMMA LoginGoesOn ==
    ASSUME http \in [Slots -> SlotState], NEW r \in Slots,
           \/ RequireCaptcha(r)
           \/ \E id \in Captchas, right \in BOOLEAN : VerifyCaptcha(r, id, right)
    PROVE  \E l : /\ Become(r, l)
                  /\ l.pc \in {"captcha", "compare", "failed"}
                  /\ l.doc = http[r].doc /\ l.seen = http[r].seen
<1>1. CASE RequireCaptcha(r)
    <2> PICK pc \in {"captcha", "compare"} :
           Become(r, [http[r] EXCEPT !.pc = pc, !.checked = now, !.demand = failed[http[r].client]])
        BY <1>1 DEF RequireCaptcha
    <2> DEFINE l == [http[r] EXCEPT !.pc = pc, !.checked = now, !.demand = failed[http[r].client]]
    <2>1. l.pc = pc /\ l.doc = http[r].doc /\ l.seen = http[r].seen
        BY DEF SlotState
    <2>2. Become(r, l)
        OBVIOUS
    <2> HIDE DEF l
    <2> QED
        BY <2>1, <2>2
<1>2. ASSUME NEW id \in Captchas, NEW right \in BOOLEAN, VerifyCaptcha(r, id, right)
      PROVE  \E l : /\ Become(r, l)
                    /\ l.pc \in {"captcha", "compare", "failed"}
                    /\ l.doc = http[r].doc /\ l.seen = http[r].seen
    <2> DEFINE l == [http[r] EXCEPT !.pc = "compare", !.captcha = id]
               m == [http[r] EXCEPT !.pc = "failed"]
    <2>1. /\ l.pc = "compare" /\ l.doc = http[r].doc /\ l.seen = http[r].seen
          /\ m.pc = "failed" /\ m.doc = http[r].doc /\ m.seen = http[r].seen
        BY DEF SlotState
    <2>2. Become(r, l) \/ Become(r, m)
        BY <1>2 DEF VerifyCaptcha
    <2> HIDE DEF l, m
    <2> QED
        BY <2>1, <2>2
<1> QED
    BY <1>1, <1>2

LEMMA SessionPreserved ==
    ASSUME AuthConstants, AuthTypeOK, SessionInv, [AuthNext]_authVars
    PROVE  SessionInv'
<1>t. http \in [Slots -> SlotState]
    BY DEF AuthTypeOK
<1>k. \A r \in Slots : Knows(http[r])
    BY DEF SessionInv
<1>f. Free.pc = "free"
    BY DEF Free
<1>0. ASSUME NEW r \in Slots, NEW l, Become(r, l), UNCHANGED <<auth, sessions>>, Knows(l)
      PROVE  SessionInv'
    <2>1. http'[r] = l /\ \A q \in Slots : q # r => http'[q] = http[q]
        BY <1>t, <1>0, BecomeIs
    <2>2. \A q \in Slots : Knows(http[q])'
        BY <1>k, <1>0, <2>1 DEF Knows
    <2> QED
        BY <1>0, <2>2 DEF SessionInv, SessionsAreGenuine
<1>1. ASSUME NEW r \in Slots, Become(r, Free), UNCHANGED <<auth, sessions>>
      PROVE  SessionInv'
    BY <1>0, <1>1, <1>f DEF Knows
<1>2. ASSUME UNCHANGED <<http, auth, sessions>>
      PROVE  SessionInv'
    BY <1>2 DEF SessionInv, Knows, SessionsAreGenuine
<1>3. CASE UNCHANGED authVars \/ AuthTick \/ (\E c \in Clients : Refuse(c))
    BY <1>2, <1>3 DEF authVars, AuthTick, Refuse, history
<1>4. ASSUME NEW d \in AuthDocs, SwapAuth(d)
      PROVE  SessionInv'
    <2>1. auth' = d /\ sessions' = sessions
        BY <1>4 DEF SwapAuth, history
    <2>2. ASSUME NEW r \in Slots
          PROVE  Knows(http[r])'
        <3>1. CASE http[r].pc = "free"
            <4>1. http'[r] = http[r]
                BY <1>4, <3>1 DEF SwapAuth
            <4> QED
                BY <3>1, <4>1 DEF Knows
        <3>2. CASE http[r].pc # "free"
            <4>1. http'[r] = [http[r] EXCEPT !.seen = http[r].seen \cup {d}]
                BY <1>4, <3>2 DEF SwapAuth
            <4>2. /\ http'[r].pc = http[r].pc /\ http'[r].doc = http[r].doc
                  /\ http'[r].sent = http[r].sent /\ http'[r].seen = http[r].seen \cup {d}
                BY <1>t, <4>1 DEF SlotState
            <4> QED
                BY <1>k, <2>1, <4>2 DEF Knows
        <3> QED
            BY <3>1, <3>2
    <2> QED
        BY <2>1, <2>2 DEF SessionInv, SessionsAreGenuine
<1>5. ASSUME NEW n \in Limits, RestartAuth(n)
      PROVE  SessionInv'
    <2>1. (\A r \in Slots : http'[r] = Free) /\ sessions' = sessions
        BY <1>5 DEF RestartAuth
    <2> QED
        BY <1>f, <2>1 DEF SessionInv, Knows, SessionsAreGenuine
<1>6. ASSUME NEW r \in Slots, NEW c \in Clients, Admit(r, c)
      PROVE  SessionInv'
    <2> DEFINE l == [Free EXCEPT !.pc = "admitted", !.client = c, !.seen = {auth}]
    <2>1. l.pc = "admitted" /\ l.seen = {auth}
        BY DEF Free
    <2>2. Become(r, l) /\ UNCHANGED <<auth, sessions>>
        BY <1>6 DEF Admit
    <2> HIDE DEF l
    <2> QED
        BY <1>0, <2>1, <2>2 DEF Knows
<1>7. ASSUME NEW r \in Slots, CaptchaImage(r) \/ LoginCaptchaRequirement(r) \/ CaptchaMissing(r)
                              \/ OnFailure(r) \/ Pass(r)
      PROVE  SessionInv'
    <2>1. Become(r, Free) /\ UNCHANGED <<auth, sessions>>
        BY <1>7 DEF CaptchaImage, LoginCaptchaRequirement, CaptchaMissing, OnFailure, Pass, history
    <2> QED
        BY <1>1, <2>1
<1>8. ASSUME NEW r \in Slots, NEW sent \in Credentials, LoginRead(r, sent)
      PROVE  SessionInv'
    <2> DEFINE l == [http[r] EXCEPT !.pc = "guard", !.doc = auth, !.sent = sent]
    <2>1. (Become(r, Free) \/ Become(r, l)) /\ UNCHANGED <<auth, sessions>>
        BY <1>8 DEF LoginRead, history
    <2>2. l.pc = "guard" /\ l.doc = auth /\ l.seen = http[r].seen
        BY <1>t DEF SlotState
    <2>3. auth \in http[r].seen
        BY <1>k, <1>8 DEF LoginRead, Knows
    <2> HIDE DEF l
    <2> QED
        BY <1>0, <1>1, <2>1, <2>2, <2>3 DEF Knows
<1>9. ASSUME NEW r \in Slots,
             \/ RequireCaptcha(r)
             \/ \E id \in Captchas, right \in BOOLEAN : VerifyCaptcha(r, id, right)
      PROVE  SessionInv'
    <2> PICK l : /\ Become(r, l)
                 /\ l.pc \in {"captcha", "compare", "failed"}
                 /\ l.doc = http[r].doc /\ l.seen = http[r].seen
        BY <1>t, <1>9, LoginGoesOn
    <2>3. http[r].pc \in {"guard", "captcha"} /\ UNCHANGED <<auth, sessions>>
        BY <1>9 DEF RequireCaptcha, VerifyCaptcha, history
    <2>4. http[r].doc \in http[r].seen /\ auth \in http[r].seen
        BY <1>k, <2>3 DEF Knows
    <2> QED
        BY <1>0, <2>3, <2>4 DEF Knows
<1>10. ASSUME NEW r \in Slots, Compare(r)
      PROVE  SessionInv'
    <2> PICK pc \in {"passed", "failed"} :
           /\ Become(r, [http[r] EXCEPT !.pc = pc])
           /\ pc = "passed" =>
                 http[r].sent = [user |-> http[r].doc.user, password |-> http[r].doc.password]
        BY <1>10 DEF Compare
    <2> DEFINE l == [http[r] EXCEPT !.pc = pc]
    <2>1. l.pc = pc /\ l.doc = http[r].doc /\ l.seen = http[r].seen /\ l.sent = http[r].sent
        BY <1>t DEF SlotState
    <2>2. http[r].pc = "compare" /\ UNCHANGED <<auth, sessions>>
        BY <1>10 DEF Compare
    <2>3. Become(r, l)
        OBVIOUS
    <2> HIDE DEF l
    <2> QED
        BY <1>0, <1>k, <2>1, <2>2, <2>3 DEF Knows
<1>11. ASSUME NEW r \in Slots, OnSuccess(r)
      PROVE  SessionInv'
    <2> DEFINE new == [token |-> http[r].doc.token, operator |-> http[r].doc.user,
                       sent |-> http[r].sent, seen |-> http[r].seen]
    <2>1. /\ http[r].pc = "passed" /\ Become(r, Free) /\ auth' = auth
          /\ sessions' = sessions \cup {new}
        BY <1>11 DEF OnSuccess, AnswerDoc
    <2>2. /\ http[r].doc \in new.seen /\ new.token = http[r].doc.token
          /\ new.operator = http[r].doc.user
          /\ new.sent = [user |-> http[r].doc.user, password |-> http[r].doc.password]
        BY <1>k, <2>1 DEF Knows
    <2> HIDE DEF new
    <2>3. SessionsAreGenuine'
        BY <2>1, <2>2 DEF SessionInv, SessionsAreGenuine
    <2>4. \A q \in Slots : Knows(http[q])'
        <3>1. http'[r] = Free /\ \A q \in Slots : q # r => http'[q] = http[q]
            BY <1>t, <2>1, BecomeIs
        <3> QED
            BY <1>k, <1>f, <2>1, <3>1 DEF Knows
    <2> QED
        BY <2>3, <2>4 DEF SessionInv
<1>12. ASSUME NEW r \in Slots, NEW token \in Tokens, Authorize(r, token)
      PROVE  SessionInv'
    <2> DEFINE l == [http[r] EXCEPT !.pc = "authorized", !.operator = auth.user]
    <2>1. (Become(r, Free) \/ Become(r, l)) /\ UNCHANGED <<auth, sessions>>
        BY <1>12 DEF Authorize
    <2>2. l.pc = "authorized" /\ l.seen = http[r].seen
        BY <1>t DEF SlotState
    <2>3. auth \in http[r].seen
        BY <1>k, <1>12 DEF Authorize, Knows
    <2> HIDE DEF l
    <2> QED
        BY <1>0, <1>1, <2>1, <2>2, <2>3 DEF Knows
<1> QED
    BY <1>3, <1>4, <1>5, <1>6, <1>7, <1>8, <1>9, <1>10, <1>11, <1>12 DEF AuthNext, Login

LEMMA CallerPreserved ==
    ASSUME AuthConstants, AuthTypeOK, AuthTypeOK', CallerInv, [AuthNext]_authVars
    PROVE  CallerInv'
<1>t. http \in [Slots -> SlotState] /\ auth \in AuthDocs
    BY DEF AuthTypeOK
<1>0. ASSUME presented \subseteq presented',
             \A q \in Slots : \/ http'[q].pc # "authorized"
                              \/ http[q].pc = "authorized" /\ http'[q].operator = http[q].operator
      PROVE  CallerInv'
    BY <1>0 DEF CallerInv
<1>1. ASSUME NEW r \in Slots, NEW l, Become(r, l), presented' = presented, l.pc # "authorized"
      PROVE  CallerInv'
    <2>1. http'[r] = l /\ \A q \in Slots : q # r => http'[q] = http[q]
        BY <1>t, <1>1, BecomeIs
    <2> QED
        BY <1>0, <1>1, <2>1
<1>f. Free.pc = "free"
    BY DEF Free
<1>2. CASE UNCHANGED authVars \/ AuthTick \/ (\E c \in Clients : Refuse(c))
    BY <1>0, <1>2 DEF authVars, AuthTick, Refuse, history
<1>3. ASSUME NEW d \in AuthDocs, SwapAuth(d)
      PROVE  CallerInv'
    <2>1. ASSUME NEW r \in Slots
          PROVE  http'[r].pc = http[r].pc /\ http'[r].operator = http[r].operator
        BY <1>t, <1>3 DEF SwapAuth, SlotState
    <2> QED
        BY <1>0, <1>3, <2>1 DEF SwapAuth, history
<1>4. ASSUME NEW n \in Limits, RestartAuth(n)
      PROVE  CallerInv'
    BY <1>0, <1>4, <1>f DEF RestartAuth
<1>5. ASSUME NEW r \in Slots, NEW c \in Clients, Admit(r, c)
      PROVE  CallerInv'
    <2> DEFINE l == [Free EXCEPT !.pc = "admitted", !.client = c, !.seen = {auth}]
    <2>1. l.pc = "admitted" /\ Become(r, l) /\ presented' = presented
        BY <1>5 DEF Admit, Free
    <2> HIDE DEF l
    <2> QED
        BY <1>1, <2>1
<1>6. ASSUME NEW r \in Slots, CaptchaImage(r) \/ LoginCaptchaRequirement(r) \/ CaptchaMissing(r)
                              \/ OnFailure(r) \/ OnSuccess(r) \/ Pass(r)
      PROVE  CallerInv'
    <2>1. Become(r, Free) /\ presented' = presented
        BY <1>6 DEF CaptchaImage, LoginCaptchaRequirement, CaptchaMissing, OnFailure, OnSuccess,
                    Pass, history
    <2> QED
        BY <1>1, <1>f, <2>1
<1>7. ASSUME NEW r \in Slots,
             \/ \E sent \in Credentials : LoginRead(r, sent)
             \/ RequireCaptcha(r)
             \/ \E id \in Captchas, right \in BOOLEAN : VerifyCaptcha(r, id, right)
             \/ Compare(r)
      PROVE  CallerInv'
    <2>1. presented' = presented /\ \A q \in Slots : q # r => http'[q] = http[q]
        BY <1>t, <1>7 DEF LoginRead, RequireCaptcha, VerifyCaptcha, Compare, Become, history
    <2>2. http'[r].pc # "authorized"
        <3>1. ASSUME NEW sent \in Credentials, LoginRead(r, sent)
              PROVE  http'[r].pc # "authorized"
            <4> DEFINE l == [http[r] EXCEPT !.pc = "guard", !.doc = auth, !.sent = sent]
            <4>1. l.pc = "guard"
                BY <1>t DEF SlotState
            <4>2. Become(r, Free) \/ Become(r, l)
                BY <3>1 DEF LoginRead
            <4> HIDE DEF l
            <4> QED
                BY <1>t, <1>f, <4>1, <4>2, BecomeIs
        <3>2. ASSUME \/ RequireCaptcha(r)
                     \/ \E id \in Captchas, right \in BOOLEAN : VerifyCaptcha(r, id, right)
              PROVE  http'[r].pc # "authorized"
            BY <1>t, <3>2, LoginGoesOn, BecomeIs
        <3>3. CASE Compare(r)
            <4> PICK pc \in {"passed", "failed"} : Become(r, [http[r] EXCEPT !.pc = pc])
                BY <3>3 DEF Compare
            <4>1. http'[r] = [http[r] EXCEPT !.pc = pc]
                BY <1>t, BecomeIs
            <4> QED
                BY <1>t, <4>1 DEF SlotState
        <3> QED
            BY <1>7, <3>1, <3>2, <3>3
    <2> QED
        BY <1>0, <2>1, <2>2
<1>8. ASSUME NEW r \in Slots, NEW token \in Tokens, Authorize(r, token)
      PROVE  CallerInv'
    <2>1. CASE Become(r, Free) /\ presented' = presented
        BY <1>1, <1>f, <2>1
    <2>2. CASE /\ token = auth.token
               /\ Become(r, [http[r] EXCEPT !.pc = "authorized", !.operator = auth.user])
               /\ presented' = presented \cup {token}
        <3>1. /\ http'[r] = [http[r] EXCEPT !.pc = "authorized", !.operator = auth.user]
              /\ \A q \in Slots : q # r => http'[q] = http[q]
            BY <1>t, <2>2, BecomeIs
        <3>2. http'[r].operator = auth.user
            BY <1>t, <3>1 DEF SlotState
        <3>3. auth.token \in presented' /\ presented \subseteq presented'
            BY <2>2
        <3> SUFFICES ASSUME NEW q \in Slots, http'[q].pc = "authorized"
                     PROVE  \E d \in AuthDocs : d.token \in presented' /\ http'[q].operator = d.user
            BY DEF CallerInv
        <3>4. CASE q = r
            BY <1>t, <3>2, <3>3, <3>4
        <3>5. CASE q # r
            BY <3>1, <3>3, <3>5 DEF CallerInv
        <3> QED
            BY <3>4, <3>5
    <2> QED
        BY <1>8, <2>1, <2>2 DEF Authorize
<1> QED
    BY <1>2, <1>3, <1>4, <1>5, <1>6, <1>7, <1>8 DEF AuthNext, Login

-----------------------------------------------------------------------------
(***************************************************************************)
(* The theorems                                                             *)
(***************************************************************************)
LEMMA InitHolds == AuthConstants /\ AuthInit => AuthInv
<1> SUFFICES ASSUME AuthConstants, AuthInit PROVE AuthInv
    OBVIOUS
<1>1. /\ \A r \in Slots : http[r] = Free
      /\ \A c \in Clients : limiter[c] = None /\ guard[c] = None /\ failed[c] = None
      /\ admitted = {} /\ refused = {} /\ guesses = {} /\ sessions = {}
    BY DEF AuthInit, NoEntries
<1>2. Free \in SlotState /\ Free.pc = "free" /\ Free.captcha = None
    BY FreeType
<1>3. AuthTypeOK
    <2>1. 0 \in Times /\ 0 \in 0..MaxServed
        BY DEF AuthConstants, Times
    <2> QED
        BY <1>2, <2>1 DEF AuthInit, AuthTypeOK, NoEntries
<1>4. LimiterInv /\ RefusalInv
    BY <1>1, FS_EmptySet DEF LimiterInv, RefusalInv, RefusalIsEarned
<1>5. GuardInv /\ CaptchaInv
    BY <1>1, <1>2 DEF GuardInv, CaptchaInv, Pays, GuessesCostCaptchas
<1>6. SessionInv /\ CallerInv
    BY <1>1, <1>2 DEF SessionInv, Knows, SessionsAreGenuine, CallerInv
<1> QED
    BY <1>3, <1>4, <1>5, <1>6 DEF AuthInv

LEMMA StepHolds == AuthConstants /\ AuthInv /\ [AuthNext]_authVars => AuthInv'
<1> SUFFICES ASSUME AuthConstants, AuthInv, [AuthNext]_authVars PROVE AuthInv'
    OBVIOUS
<1>1. AuthTypeOK'
    BY TypePreserved DEF AuthInv
<1>2. LimiterType /\ LimiterType'
    <2>1. LimiterType
        BY TypeOfLimiter DEF AuthInv
    <2>2. now' \in Nat /\ served' \in Nat
        BY <1>1 DEF AuthTypeOK, AuthConstants, Times
    <2> QED
        BY <1>1, <2>1, <2>2 DEF LimiterType, AuthTypeOK
<1>3. LimiterInv'
    BY <1>2, LimiterPreserved DEF AuthInv
<1>4. RefusalInv'
    BY <1>2, <1>3, RefusalPreserved DEF AuthInv
<1>5. GuardInv' /\ CaptchaInv'
    BY GuardPreserved, CaptchaPreserved DEF AuthInv
<1>6. SessionInv' /\ CallerInv'
    BY <1>1, SessionPreserved, CallerPreserved DEF AuthInv
<1> QED
    BY <1>1, <1>3, <1>4, <1>5, <1>6 DEF AuthInv

(* What the invariant says of the properties.                                       *)
LEMMA InvImplies ==
    ASSUME AuthConstants, AuthInv
    PROVE  AuthTypeOK /\ RateBounded /\ RefusalIsEarned /\ GuessesCostCaptchas /\ SessionsAreGenuine
<1>1. RateBounded
    BY TypeOfLimiter, TwoWindows DEF AuthInv
<1> QED
    BY <1>1 DEF AuthInv, RefusalInv, CaptchaInv, SessionInv

(* The inductive invariant of the front: windows that do not overlap, failures that     *)
(* the guard remembers, captchas that nobody shares, logins that have seen what they    *)
(* compare.                                                                          *)
THEOREM FrontInvariance == AuthConstants => (AuthSpec => []AuthInv)
<1> SUFFICES ASSUME AuthConstants PROVE AuthSpec => []AuthInv
    OBVIOUS
<1>1. AuthInit => AuthInv
    BY InitHolds
<1>2. AuthInv /\ [AuthNext]_authVars => AuthInv'
    BY StepHolds
<1> QED
    BY <1>1, <1>2, PTL DEF AuthSpec

=============================================================================
