----------------------------- MODULE AdminAPIProofs -----------------------------
(***************************************************************************)
(* The admin API implements its two parts: what it does to the tables is what *)
(* the site store may do, and what it does before the handlers is what the     *)
(* front may do.  The properties of the parts are therefore those of the API.  *)
(***************************************************************************)
EXTENDS AdminAPI, SiteStoreProofs, TLAPS

P == INSTANCE AdminAuthProofs WITH
        Slots <- Requests, MaxClock <- MaxTime, MaxServed <- MaxArrivals,
        MaxStops <- MaxRestarts

-----------------------------------------------------------------------------
(***************************************************************************)
(* The front                                                                *)
(***************************************************************************)
LEMMA FrontConstants == P!AuthConstants
BY APIAssumption DEF A!AuthConstants, P!AuthConstants

LEMMA LimitIsRead ==
    ASSUME P!AuthInv
    PROVE  limit \in Limits
BY DEF P!AuthInv, P!AuthTypeOK

(* The steps of the front, seen from the API and from the module of their proofs.     *)
LEMMA SameAdmit ==
    ASSUME NEW r \in Requests, NEW c \in Clients, A!Admit(r, c)
    PROVE  P!Admit(r, c)
BY DEF A!Admit, A!Entry, A!Become, A!Free, P!Admit, P!Entry, P!Become, P!Free

LEMMA SameRefuse ==
    ASSUME NEW c \in Clients, A!Refuse(c)
    PROVE  P!Refuse(c)
BY DEF A!Refuse, A!Entry, P!Refuse, P!Entry

LEMMA SameLogin ==
    ASSUME NEW r \in Requests, A!Login(r)
    PROVE  P!Login(r)
<1>1. A!CaptchaImage(r) => P!CaptchaImage(r)
    BY DEF A!CaptchaImage, A!Become, A!Free, P!CaptchaImage, P!Become, P!Free
<1>2. A!LoginCaptchaRequirement(r) => P!LoginCaptchaRequirement(r)
    BY DEF A!LoginCaptchaRequirement, A!Become, A!Free, A!Looked, A!Expired, A!history,
           P!LoginCaptchaRequirement, P!Become, P!Free, P!Looked, P!Expired, P!history
<1>3. \A sent \in Credentials : A!LoginRead(r, sent) => P!LoginRead(r, sent)
    BY DEF A!LoginRead, A!Become, A!Free, A!memory, A!history,
           P!LoginRead, P!Become, P!Free, P!memory, P!history
<1>4. A!RequireCaptcha(r) => P!RequireCaptcha(r)
    BY DEF A!RequireCaptcha, A!Become, A!Required, A!Looked, A!Expired, A!history,
           P!RequireCaptcha, P!Become, P!Required, P!Looked, P!Expired, P!history
<1>5. \A id \in Captchas, right \in BOOLEAN :
         A!VerifyCaptcha(r, id, right) => P!VerifyCaptcha(r, id, right)
    BY DEF A!VerifyCaptcha, A!Become, A!Solves, A!history,
           P!VerifyCaptcha, P!Become, P!Solves, P!history
<1>6. A!CaptchaMissing(r) => P!CaptchaMissing(r)
    BY DEF A!CaptchaMissing, A!Become, A!Free, A!memory, A!history,
           P!CaptchaMissing, P!Become, P!Free, P!memory, P!history
<1>7. A!Compare(r) => P!Compare(r)
    BY DEF A!Compare, A!Become, A!memory, A!Cardinality, P!Compare, P!Become, P!memory,
           P!Cardinality
<1>8. A!OnFailure(r) => P!OnFailure(r)
    BY DEF A!OnFailure, A!Become, A!Free, P!OnFailure, P!Become, P!Free
<1>9. A!OnSuccess(r) => P!OnSuccess(r)
    BY DEF A!OnSuccess, A!AnswerDoc, A!Become, A!Free, P!OnSuccess, P!AnswerDoc, P!Become, P!Free
<1> QED
    BY <1>1, <1>2, <1>3, <1>4, <1>5, <1>6, <1>7, <1>8, <1>9 DEF A!Login, P!Login

LEMMA SameAuthorize ==
    ASSUME NEW r \in Requests, NEW t \in Tokens, A!Authorize(r, t)
    PROVE  P!Authorize(r, t)
BY DEF A!Authorize, A!Become, A!Free, A!memory, P!Authorize, P!Become, P!Free, P!memory

LEMMA SamePass ==
    ASSUME NEW r \in Requests, A!Pass(r)
    PROVE  P!Pass(r)
BY DEF A!Pass, A!Become, A!Free, A!memory, A!history, P!Pass, P!Become, P!Free, P!memory, P!history

LEMMA SameSwapAuth ==
    ASSUME NEW d \in AuthDocs, A!SwapAuth(d)
    PROVE  P!SwapAuth(d)
BY DEF A!SwapAuth, A!memory, A!history, P!SwapAuth, P!memory, P!history

LEMMA SameTick ==
    ASSUME A!AuthTick
    PROVE  P!AuthTick
BY DEF A!AuthTick, A!memory, A!history, P!AuthTick, P!memory, P!history

LEMMA SameRestart ==
    ASSUME NEW n \in Limits, A!RestartAuth(n)
    PROVE  P!RestartAuth(n)
BY DEF A!RestartAuth, A!NoEntries, A!Free, P!RestartAuth, P!NoEntries, P!Free

(* Every step of the API is a step of the front, or the front stutters.                *)
LEMMA FrontStep ==
    ASSUME P!AuthInv, [APINext]_apiVars
    PROVE  [P!AuthNext]_P!authVars
<1>1. CASE UNCHANGED apiVars
    BY <1>1 DEF apiVars, vars, P!authVars, P!memory, P!history
<1>2. CASE Tick /\ A!AuthTick
    BY <1>2, SameTick DEF P!AuthNext
<1>3. CASE Stop
    BY <1>3, SameRestart, LimitIsRead DEF Stop, P!AuthNext
<1>4. CASE Front
    BY <1>4, SameAdmit, SameRefuse, SameLogin, SameAuthorize, SamePass, SameSwapAuth
    DEF Front, P!AuthNext
<1>5. ASSUME NEW r \in Requests, Handle(r)
      PROVE  P!AuthNext
    BY <1>5, SamePass DEF Handle, P!AuthNext
<1>6. ASSUME NEW r \in Requests, Continue(r), UNCHANGED frontVars
      PROVE  UNCHANGED P!authVars
    <2>1. now' = now
        BY <1>6 DEF Continue, UpdateSite, DeleteSite, RollbackMerge, CommitConfig, SaveAudit, Fail
    <2> QED
        BY <1>6, <2>1 DEF frontVars, P!authVars, P!memory, P!history
<1> QED
    BY <1>1, <1>2, <1>3, <1>4, <1>5, <1>6 DEF APINext

LEMMA FrontInit == APIInit => P!AuthInit
BY DEF APIInit, A!AuthInit, A!NoEntries, A!Free, P!AuthInit, P!NoEntries, P!Free

LEMMA FrontHolds == APISpec => []P!AuthInv
<1>1. APIInit => P!AuthInv
    BY FrontInit, FrontConstants, P!InitHolds
<1>2. P!AuthInv /\ [APINext]_apiVars => P!AuthInv'
    BY FrontStep, FrontConstants, P!StepHolds
<1> QED
    BY <1>1, <1>2, PTL DEF APISpec

(* The limiter, the guard, the captchas and the check of the token behave in the API as  *)
(* they do alone (newHandler wraps every route in them).                              *)
THEOREM ImplementsFront == APISpec => P!AuthSpec
<1>1. APIInit => P!AuthInit
    BY FrontInit
<1>2. P!AuthInv /\ [APINext]_apiVars => [P!AuthNext]_P!authVars
    BY FrontStep
<1> QED
    BY <1>1, <1>2, FrontHolds, PTL DEF APISpec, P!AuthSpec

(* The maps of the process and the states of requests are well formed, and no entry of   *)
(* the limiter counts more than the limit (rateLimiter, loginGuard, captchaService).      *)
THEOREM AuthTypeCorrect == APISpec => []AuthTypeOK
<1>1. P!AuthInv => AuthTypeOK
    BY DEF P!AuthInv, P!AuthTypeOK, P!SlotState, P!Times, AuthTypeOK, A!AuthTypeOK, A!SlotState,
           A!Times
<1> QED
    BY <1>1, FrontHolds, PTL

(* In no interval as long as the window does a process admit more than twice the limit    *)
(* of one client: windows do not overlap, and an interval meets two at most                *)
(* (rateLimiter.Allow).                                                                 *)
THEOREM RateIsBounded == APISpec => []RateBounded
<1>1. P!AuthInv => RateBounded
    <2>1. P!AuthInv => P!RateBounded
        BY FrontConstants, P!InvImplies
    <2> QED
        BY <2>1 DEF P!RateBounded, P!AdmittedIn, P!Times, P!Cardinality,
                    RateBounded, A!RateBounded, A!AdmittedIn, A!Times, A!Cardinality
<1> QED
    BY <1>1, FrontHolds, PTL

(* Whoever is refused has used up the limit within the last window; a refusal prolongs     *)
(* nothing (rateLimiter.Allow).                                                          *)
THEOREM RefusalEarned == APISpec => []RefusalIsEarned
<1>1. P!AuthInv => RefusalIsEarned
    <2>1. P!AuthInv => P!RefusalIsEarned
        BY FrontConstants, P!InvImplies
    <2> QED
        BY <2>1 DEF P!RefusalIsEarned, P!AdmittedIn, P!Cardinality,
                    RefusalIsEarned, A!RefusalIsEarned, A!AdmittedIn, A!Cardinality
<1> QED
    BY <1>1, FrontHolds, PTL

(* A comparison of a password costs a captcha of its own, unless the guard was looked at    *)
(* when no failure was on record, or one older than GuardTTL (loginGuard,                  *)
(* captchaService.Verify).                                                               *)
THEOREM GuessesCost == APISpec => []GuessesCostCaptchas
<1>1. P!AuthInv => GuessesCostCaptchas
    <2>1. P!AuthInv => P!GuessesCostCaptchas
        BY FrontConstants, P!InvImplies
    <2> QED
        BY <2>1 DEF P!GuessesCostCaptchas, GuessesCostCaptchas, A!GuessesCostCaptchas
<1> QED
    BY <1>1, FrontHolds, PTL

(* Token and operator of an answer are those of the configuration that the password was     *)
(* compared with, and it was in force during the login, whatever was stored meanwhile       *)
(* (login reads CurrentConfig once).                                                      *)
THEOREM SessionsGenuine == APISpec => []SessionsAreGenuine
<1>1. P!AuthInv => SessionsAreGenuine
    <2>1. P!AuthInv => P!SessionsAreGenuine
        BY FrontConstants, P!InvImplies
    <2> QED
        BY <2>1 DEF P!SessionsAreGenuine, SessionsAreGenuine, A!SessionsAreGenuine
<1> QED
    BY <1>1, FrontHolds, PTL

-----------------------------------------------------------------------------
(***************************************************************************)
(* The store                                                                *)
(***************************************************************************)

(* Who may stand in a version or an audit row.                                       *)
IsCaller(operator) ==
    \E d \in AuthDocs :
        /\ d.token \in presented
        /\ operator \in IF d.user # Blank THEN {d.user} ELSE Headers

LEMMA CallersAreOperators ==
    ASSUME NEW o, IsCaller(o)
    PROVE  o \in Operators
BY APIAssumption DEF IsCaller

(* withAuth found the user beside the token that was presented.                       *)
LEMMA HandlerIsCaller ==
    ASSUME P!AuthInv, NEW r \in Requests, A!Pass(r), NEW header \in Headers
    PROVE  IsCaller(OperatorOf(r, header))
<1>1. http[r].pc = "authorized"
    BY DEF A!Pass
<1> PICK d \in AuthDocs : d.token \in presented /\ http[r].operator = d.user
    BY <1>1 DEF P!AuthInv, P!CallerInv
<1> QED
    BY DEF IsCaller, OperatorOf

LEMMA StoreStep ==
    ASSUME P!AuthInv, [APINext]_apiVars
    PROVE  [Next]_vars
<1>1. CASE UNCHANGED apiVars
    BY <1>1 DEF apiVars
<1>2. CASE Tick
    BY <1>2 DEF Next
<1>3. CASE Stop
    BY <1>3 DEF Stop, Next
<1>4. CASE Front
    <2>1. now' = now
        BY <1>4 DEF Front, A!Admit, A!Refuse, A!Login, A!CaptchaImage, A!LoginCaptchaRequirement,
                    A!LoginRead, A!RequireCaptcha, A!VerifyCaptcha, A!CaptchaMissing, A!Compare,
                    A!OnFailure, A!OnSuccess, A!Authorize, A!Pass, A!SwapAuth
    <2> QED
        BY <1>4, <2>1 DEF Front, storeVars, vars
<1>5. ASSUME NEW r \in Requests, Handle(r)
      PROVE  Next
    <2> PICK header \in Headers : A!Pass(r) /\ Begin(r, OperatorOf(r, header))
        BY <1>5 DEF Handle
    <2>1. OperatorOf(r, header) \in Operators
        BY HandlerIsCaller, CallersAreOperators
    <2> QED
        BY <2>1 DEF Next
<1>6. ASSUME NEW r \in Requests, Continue(r)
      PROVE  Next
    BY <1>6 DEF Next
<1> QED
    BY <1>1, <1>2, <1>3, <1>4, <1>5, <1>6 DEF APINext

(* Behind its front the API is the site store: limiter, login and token check touch no     *)
(* table, and the operator in whose name a handler writes is one that the store knows.      *)
THEOREM ImplementsStore == APISpec => Spec
<1>1. APIInit => Init
    BY DEF APIInit
<1>2. P!AuthInv /\ [APINext]_apiVars => [Next]_vars
    BY StoreStep
<1> QED
    BY <1>1, <1>2, FrontHolds, PTL DEF APISpec, Spec

(* The properties of the site store are properties of the API.                           *)
THEOREM StoreIsSafe ==
    APISpec => /\ []TypeOK
               /\ []SecretsAreSealed
               /\ []SecretIsGenuine
               /\ []LiveIsLastSaved
               /\ []OnlyOldVersionsGo
               /\ []AuditIsTrue
               /\ UpdatesKeepSecrets
               /\ RollbackRestores
BY ImplementsStore, TypeCorrect, SecretsSealed, SecretsGenuine, LiveLastSaved, OldVersionsGo,
   AuditTrue, KeepSecrets, Restoration

-----------------------------------------------------------------------------
(***************************************************************************)
(* Operators                                                                *)
(***************************************************************************)

(* A request writes in the name of a caller from its first step on.                   *)
RequestCallers == \A r \in Requests : req[r].pc # "idle" => IsCaller(req[r].operator)

CallerInv ==
    /\ OperatorsAreCallers
    /\ RequestCallers

LEMMA OperatorKept ==
    ASSUME Base, NEW r \in Requests, Continue(r)
    PROVE  /\ req[r].pc # "idle"
           /\ req'[r] = Idle \/ req'[r].operator = req[r].operator
           /\ \A q \in Requests : q # r => Kept(q)
<1>t. req \in [Requests -> RequestState]
    BY DEF Base, TypeOK
<1>1. ASSUME UpdateSite(r) \/ DeleteSite(r) \/ CommitConfig(r)
      PROVE  /\ req[r].pc # "idle"
             /\ req'[r].operator = req[r].operator
             /\ \A q \in Requests : q # r => Kept(q)
    <2> PICK v : BecomeAfterWrite(r, ToAudit(req[r], v))
        BY <1>1 DEF UpdateSite, DeleteSite, CommitConfig
    <2> QED
        BY <1>t, <1>1, BecomeIs, ToAuditIs DEF UpdateSite, DeleteSite, CommitConfig
<1>2. CASE RollbackMerge(r)
    <2> PICK new :
           \/ Become(r, Idle)
           \/ Become(r, [req[r] EXCEPT !.pc = "commit", !.new = new, !.since = now,
                                       !.overtaken = FALSE])
        BY <1>2 DEF RollbackMerge
    <2>1. [req[r] EXCEPT !.pc = "commit", !.new = new, !.since = now, !.overtaken = FALSE].operator
            = req[r].operator
        BY <1>t DEF RequestState
    <2> QED
        BY <1>t, <1>2, <2>1, BecomeIs DEF RollbackMerge
<1>3. ASSUME Fail(r) \/ \E logged \in BOOLEAN : SaveAudit(r, logged)
      PROVE  /\ req[r].pc # "idle"
             /\ req'[r] = Idle
             /\ \A q \in Requests : q # r => Kept(q)
    BY <1>t, <1>3, BecomeIs DEF Fail, SaveAudit
<1> QED
    BY <1>1, <1>2, <1>3 DEF Continue

LEMMA CallersPreserved ==
    ASSUME Base, P!AuthInv, CallerInv, [APINext]_apiVars
    PROVE  CallerInv'
<1>t. req \in [Requests -> RequestState]
    BY DEF Base, TypeOK
<1>p. presented \subseteq presented'
    <2>1. ASSUME Front \/ \E r \in Requests : Handle(r)
          PROVE  presented \subseteq presented'
        BY <2>1 DEF Front, Handle, A!Admit, A!Refuse, A!Login, A!CaptchaImage,
                    A!LoginCaptchaRequirement, A!LoginRead, A!RequireCaptcha, A!VerifyCaptcha,
                    A!CaptchaMissing, A!Compare, A!OnFailure, A!OnSuccess, A!Authorize, A!Pass,
                    A!SwapAuth, A!history
    <2> QED
        BY <2>1 DEF APINext, apiVars, Stop, A!AuthTick, A!RestartAuth, A!history, frontVars
<1>c. \A o : IsCaller(o) => IsCaller(o)'
    BY <1>p DEF IsCaller
<1>k. ASSUME NEW q \in Requests, Kept(q), req'[q].pc # "idle"
      PROVE  IsCaller(req[q].operator)'
    BY <1>t, <1>c, <1>k, KeptFields DEF CallerInv, RequestCallers
<1>1. ASSUME UNCHANGED <<minted, audits>>
      PROVE  OperatorsAreCallers'
    BY <1>1, <1>c DEF CallerInv, OperatorsAreCallers, IsCaller
<1>2. CASE UNCHANGED apiVars \/ Tick \/ Front
    <2>1. UNCHANGED <<minted, audits, req>>
        BY <1>2 DEF apiVars, vars, tables, history, Tick, Front, storeVars
    <2> QED
        BY <1>1, <1>k, <2>1 DEF CallerInv, RequestCallers, Kept
<1>3. CASE Stop
    <2>1. UNCHANGED <<minted, audits>> /\ \A q \in Requests : req'[q].pc = "idle"
        BY <1>3 DEF Stop, Restart, tables, history, Idle
    <2> QED
        BY <1>1, <2>1 DEF CallerInv, RequestCallers
<1>4. ASSUME NEW r \in Requests, Handle(r)
      PROVE  CallerInv'
    <2> PICK header \in Headers : A!Pass(r) /\ Begin(r, OperatorOf(r, header))
        BY <1>4 DEF Handle
    <2> PICK o : o = OperatorOf(r, header)
        OBVIOUS
    <2>1. IsCaller(o) /\ o \in Operators
        BY HandlerIsCaller, CallersAreOperators
    <2>2. req'[r].operator = o
        BY <2>1, BeginHolds
    <2>3. \A q \in Requests : q # r => Kept(q)
        <3>1. \E l : Arrive(r, l)
            BY DEF Begin, CreateSite, UpdateSiteRead, DeleteSiteRead, PutConfig, RollbackRead,
                   DeleteSiteVersion, UpdateSiteLogStream
        <3> QED
            BY <1>t, <3>1, BecomeIs
    <2>4. UNCHANGED <<minted, audits>>
        BY DEF Begin, CreateSite, UpdateSiteRead, DeleteSiteRead, PutConfig, RollbackRead,
               DeleteSiteVersion, UpdateSiteLogStream, tables, history
    <2>5. RequestCallers'
        BY <1>c, <1>k, <2>1, <2>2, <2>3 DEF RequestCallers
    <2> QED
        BY <1>1, <2>4, <2>5 DEF CallerInv
<1>5. ASSUME NEW r \in Requests, Continue(r)
      PROVE  CallerInv'
    <2>1. IsCaller(req[r].operator)
        BY <1>5, OperatorKept DEF CallerInv, RequestCallers
    <2>2. RequestCallers'
        BY <1>5, <1>c, <1>k, <2>1, OperatorKept DEF RequestCallers, Idle
    <2>3. ASSUME NEW row \in (minted \cup audits)'
          PROVE  IsCaller(row.operator)
        <3>1. CASE row \in minted \cup audits
            BY <3>1 DEF CallerInv, OperatorsAreCallers, IsCaller
        <3>2. CASE CommitConfig(r) /\ row \notin minted \cup audits
            <4> PICK new : CommitsRow(r, new)
                BY <3>2, CommitIs
            <4>1. minted' = minted \cup {new} /\ new.operator = req[r].operator
                BY DEF CommitsRow
            <4>2. audits' = audits
                BY <3>2, CommitIs
            <4> QED
                BY <2>1, <3>2, <4>1, <4>2
        <3>3. ASSUME NEW logged \in BOOLEAN, SaveAudit(r, logged), row \notin minted \cup audits
              PROVE  IsCaller(row.operator)
            BY <2>1, <3>3 DEF SaveAudit, history
        <3>4. ASSUME UpdateSite(r) \/ DeleteSite(r) \/ RollbackMerge(r) \/ Fail(r)
              PROVE  UNCHANGED <<minted, audits>>
            BY <3>4 DEF UpdateSite, DeleteSite, RollbackMerge, Fail, tables, history
        <3> QED
            BY <1>5, <3>1, <3>2, <3>3, <3>4 DEF Continue
    <2>4. OperatorsAreCallers'
        BY <1>c, <2>3 DEF OperatorsAreCallers, IsCaller
    <2> QED
        BY <2>2, <2>4 DEF CallerInv
<1> QED
    BY <1>2, <1>3, <1>4, <1>5 DEF APINext

(* Versions and audit rows carry the name of someone whose token was presented, as it      *)
(* stood beside that token, however the configuration changes while the request is on its   *)
(* way (withAuth, operatorFromRequest).                                                   *)
THEOREM CallersOnly == APISpec => []OperatorsAreCallers
<1>1. APIInit => CallerInv
    BY DEF APIInit, Init, Idle, CallerInv, OperatorsAreCallers, RequestCallers
<1>2. IInv /\ P!AuthInv /\ CallerInv /\ [APINext]_apiVars => CallerInv'
    BY CallersPreserved DEF IInv
<1>3. CallerInv => OperatorsAreCallers
    BY DEF CallerInv
<1>4. APISpec => []IInv
    BY ImplementsStore, Invariance
<1> QED
    BY <1>1, <1>2, <1>3, <1>4, FrontHolds, PTL DEF APISpec

=============================================================================
