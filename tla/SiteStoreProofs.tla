---------------------------- MODULE SiteStoreProofs ----------------------------
(***************************************************************************)
(* The safety properties of the site store, for all sets of sites, providers, *)
(* secrets, keys, documents, operators and requests and all bounds.           *)
(***************************************************************************)
EXTENDS SiteStore, FiniteSetTheorems, TLAPS

Secrets == Sealed \cup Plains \cup {Blank, Foreign}

-----------------------------------------------------------------------------
(***************************************************************************)
(* Documents and their secrets                                              *)
(***************************************************************************)

(* A document is a text and a function on some of the providers.               *)
LEMMA DocElim ==
    ASSUME NEW S, NEW d \in Docs(S)
    PROVE  /\ d.text \in Texts
           /\ DOMAIN d.secrets \in SUBSET Providers
           /\ d.secrets \in [DOMAIN d.secrets -> S]
           /\ d = [text |-> d.text, secrets |-> d.secrets]
BY DEF Docs, Partial

LEMMA DocIntro ==
    ASSUME NEW S, NEW t \in Texts, NEW P \in SUBSET Providers, NEW f \in [P -> S]
    PROVE  [text |-> t, secrets |-> f] \in Docs(S)
BY DEF Docs, Partial

LEMMA EmptyDocType == EmptyDoc \in AnyDoc /\ DOMAIN EmptyDoc.secrets = {}
<1>1. [p \in {} |-> Blank] \in [{} -> Secrets]
    OBVIOUS
<1> QED
    BY <1>1, DocIntro, StoreAssumption DEF EmptyDoc, AnyDoc, Secrets

(* An opened secret can be read, and is none of the foreign ones.              *)
LEMMA OpenedRange ==
    ASSUME NEW x \in Secrets
    PROVE  Opened(x) \in Plains \cup {Blank}
BY DEF Opened, Secrets, Sealed

(* Opening a document opens each secret and changes nothing else.               *)
LEMMA OpenedDocIs ==
    ASSUME NEW d \in AnyDoc
    PROVE  /\ OpenedDoc(d) \in Open
           /\ OpenedDoc(d).text = d.text
           /\ DOMAIN OpenedDoc(d).secrets = DOMAIN d.secrets
           /\ \A p \in DOMAIN d.secrets : OpenedDoc(d).secrets[p] = Opened(d.secrets[p])
<1> DEFINE P == DOMAIN d.secrets
           f == [p \in P |-> Opened(d.secrets[p])]
<1>1. /\ d.text \in Texts
      /\ P \in SUBSET Providers
      /\ d.secrets \in [P -> Secrets]
      /\ d = [text |-> d.text, secrets |-> d.secrets]
    BY DocElim DEF AnyDoc, Secrets
<1>2. OpenedDoc(d) = [text |-> d.text, secrets |-> f]
    BY <1>1 DEF OpenedDoc
<1>3. f \in [P -> Plains \cup {Blank, Foreign}]
    BY <1>1, OpenedRange
<1> QED
    BY <1>1, <1>2, <1>3, DocIntro DEF Open

(* What a merge writes: a typed secret sealed under the present key, the stored    *)
(* secret in the place of a blank one, and else what was sent.                     *)
LEMMA MergedIs ==
    ASSUME NEW old \in AnyDoc, NEW new \in Open, Mergeable(new), key \in Keys \cup {None}
    PROVE  /\ Merged(old, new) \in AnyDoc
           /\ Merged(old, new).text = new.text
           /\ DOMAIN Merged(old, new).secrets = DOMAIN new.secrets
           /\ \A p \in DOMAIN new.secrets :
                 LET x == new.secrets[p]
                     y == Merged(old, new).secrets[p]
                 IN  \/ x \in Plains /\ key \in Keys /\ y = [key |-> key, plain |-> x]
                     \/ x = Blank /\ p \in DOMAIN old.secrets /\ y = old.secrets[p]
                     \/ x \in {Blank, Foreign} /\ y = x
           /\ \A p \in DOMAIN new.secrets :
                 new.secrets[p] = Blank /\ p \in DOMAIN old.secrets =>
                    Merged(old, new).secrets[p] = old.secrets[p]
<1> DEFINE P == DOMAIN new.secrets
           m(p) == LET x == new.secrets[p] IN
                   IF x \in Plains THEN [key |-> key, plain |-> x]
                   ELSE IF x = Blank /\ p \in DOMAIN old.secrets THEN old.secrets[p] ELSE x
           f == [p \in P |-> m(p)]
<1>1. /\ new.text \in Texts
      /\ P \in SUBSET Providers
      /\ new.secrets \in [P -> Plains \cup {Blank, Foreign}]
      /\ new = [text |-> new.text, secrets |-> new.secrets]
    BY DocElim DEF Open
<1>2. old.secrets \in [DOMAIN old.secrets -> Secrets]
    BY DocElim DEF AnyDoc, Secrets
<1>3. Merged(old, new) = [text |-> new.text, secrets |-> f]
    BY <1>1 DEF Merged
<1>4. ASSUME NEW p \in P
      PROVE  /\ \/ new.secrets[p] \in Plains /\ key \in Keys
                   /\ m(p) = [key |-> key, plain |-> new.secrets[p]]
                \/ new.secrets[p] = Blank /\ p \in DOMAIN old.secrets /\ m(p) = old.secrets[p]
                \/ new.secrets[p] \in {Blank, Foreign} /\ m(p) = new.secrets[p]
             /\ new.secrets[p] = Blank /\ p \in DOMAIN old.secrets => m(p) = old.secrets[p]
             /\ m(p) \in Secrets
    <2>1. new.secrets[p] \in Plains \cup {Blank, Foreign}
        BY <1>1
    <2>2. CASE new.secrets[p] \in Plains
        <3>1. key \in Keys
            BY <2>2 DEF Mergeable
        <3>2. new.secrets[p] # Blank
            BY <2>2, StoreAssumption
        <3> QED
            BY <2>2, <3>1, <3>2 DEF Secrets, Sealed
    <2>3. CASE new.secrets[p] \notin Plains
        BY <1>2, <2>1, <2>3 DEF Secrets
    <2> QED
        BY <2>2, <2>3
<1>5. f \in [P -> Secrets]
    BY <1>4
<1>6. Merged(old, new) \in AnyDoc
    <2> HIDE DEF f
    <2>1. [text |-> new.text, secrets |-> f] \in Docs(Secrets)
        BY <1>1, <1>5, DocIntro
    <2> QED
        BY <1>3, <2>1 DEF AnyDoc, Secrets
<1> QED
    BY <1>3, <1>4, <1>6

-----------------------------------------------------------------------------
(***************************************************************************)
(* What steps change                                                        *)
(***************************************************************************)

(* Another request keeps its state, but may learn that it has read too early.     *)
Kept(q) == req'[q] = req[q] \/ req'[q] = [req[q] EXCEPT !.overtaken = TRUE]

LEMMA KeptFields ==
    ASSUME NEW q \in Requests, req[q] \in RequestState, Kept(q)
    PROVE  /\ req'[q] \in RequestState
           /\ req'[q].pc = req[q].pc
           /\ req'[q].action = req[q].action
           /\ req'[q].site = req[q].site
           /\ req'[q].operator = req[q].operator
           /\ req'[q].sent = req[q].sent
           /\ req'[q].new = req[q].new
           /\ req'[q].version = req[q].version
           /\ req'[q].since = req[q].since
           /\ req[q].overtaken => req'[q].overtaken
BY DEF Kept, RequestState

LEMMA IdleType == Idle \in RequestState
BY DEF Idle, RequestState

(* The state of a request whose change is done.                                *)
LEMMA ToAuditIs ==
    ASSUME NEW l, NEW v
    PROVE  /\ ToAudit(l, v).pc = "audit"
           /\ ToAudit(l, v).action = l.action
           /\ ToAudit(l, v).site = l.site
           /\ ToAudit(l, v).operator = l.operator
           /\ ToAudit(l, v).version = v
BY DEF ToAudit, Idle

LEMMA ToAuditType ==
    ASSUME NEW l, NEW v \in Nat, l.site \in Sites, l.operator \in Operators,
           l.action \in {"create", "update", "delete", "config", "rollback", "versionDelete",
                         "stream"}
    PROVE  ToAudit(l, v) \in RequestState
BY DEF ToAudit, Idle, RequestState

LEMMA BecomeIs ==
    ASSUME req \in [Requests -> RequestState], NEW r \in Requests, NEW l,
           Become(r, l) \/ Arrive(r, l) \/ BecomeAfterWrite(r, l)
    PROVE  /\ req'[r] = l
           /\ \A q \in Requests \ {r} : Kept(q)
           /\ DOMAIN req' = Requests
           /\ req' = [q \in Requests |-> req'[q]]
BY DEF Become, Arrive, BecomeAfterWrite, Kept

(* A request keeps its state, is done, or takes one of its own steps.            *)
LEMMA RequestSteps ==
    ASSUME req \in [Requests -> RequestState], [Next]_vars, NEW q \in Requests
    PROVE  \/ Kept(q)
           \/ req'[q] = Idle
           \/ \E o \in Operators : Begin(q, o)
           \/ UpdateSite(q)
           \/ DeleteSite(q)
           \/ RollbackMerge(q)
           \/ CommitConfig(q)
<1>1. CASE UNCHANGED vars
    BY <1>1 DEF vars, Kept
<1>2. CASE Tick
    BY <1>2 DEF Tick, Kept
<1>3. ASSUME NEW k \in Keys \cup {None}, Restart(k)
      PROVE  req'[q] = Idle
    BY <1>3 DEF Restart
<1>4. ASSUME NEW r \in Requests, r # q, NEW o \in Operators, Begin(r, o)
      PROVE  Kept(q)
    <2>1. \E l : Arrive(r, l)
        BY <1>4 DEF Begin, CreateSite, UpdateSiteRead, DeleteSiteRead, PutConfig, RollbackRead,
                    DeleteSiteVersion, UpdateSiteLogStream
    <2> QED
        BY <1>4, <2>1, BecomeIs
<1>5. ASSUME NEW r \in Requests, r # q, Continue(r)
      PROVE  Kept(q)
    <2>1. \E l : Become(r, l) \/ BecomeAfterWrite(r, l)
        BY <1>5 DEF Continue, UpdateSite, DeleteSite, RollbackMerge, CommitConfig, SaveAudit, Fail
    <2> QED
        BY <1>5, <2>1, BecomeIs
<1>6. ASSUME (\E logged \in BOOLEAN : SaveAudit(q, logged)) \/ Fail(q)
      PROVE  req'[q] = Idle
    BY <1>6, BecomeIs DEF SaveAudit, Fail
<1> QED
    BY <1>1, <1>2, <1>3, <1>4, <1>5, <1>6 DEF Next, Continue

(* How requests begin: with an update or a deletion, a PUT of a configuration, a     *)
(* rollback, or with their only change.                                            *)
LEMMA BeginIs ==
    ASSUME req \in [Requests -> RequestState], NEW q \in Requests, NEW o \in Operators, Begin(q, o)
    PROVE  \/ req'[q].pc \in {"update", "delete"}
           \/ \E s \in Sites, d \in Documents :
                 /\ PutConfig(q, s, d, o)
                 /\ req'[q].pc = "commit"
                 /\ req'[q].action = "config"
                 /\ req'[q].site = s
                 /\ req'[q].sent = d
                 /\ req'[q].new = Merged(sites[s].doc, d)
           \/ \E s \in Sites : \E v \in VersionsOf(s) :
                 /\ req'[q].pc = "merge"
                 /\ req'[q].action = "rollback"
                 /\ req'[q].site = s
                 /\ req'[q].sent = OpenedDoc(v.doc)
                 /\ req'[q].version = v.id
           \/ req'[q].pc = "audit" /\ req'[q].action \in {"create", "stream"}
           \/ \E s \in Sites, id \in 1..MaxArrivals :
                 /\ DeleteSiteVersion(q, s, id, o)
                 /\ req'[q].pc = "audit"
                 /\ req'[q].action = "versionDelete"
                 /\ req'[q].site = s
                 /\ req'[q].version = id
<1> DEFINE Goal ==
    \/ req'[q].pc \in {"update", "delete"}
    \/ \E s \in Sites, d \in Documents :
          /\ PutConfig(q, s, d, o)
          /\ req'[q].pc = "commit"
          /\ req'[q].action = "config"
          /\ req'[q].site = s
          /\ req'[q].sent = d
          /\ req'[q].new = Merged(sites[s].doc, d)
    \/ \E s \in Sites : \E v \in VersionsOf(s) :
          /\ req'[q].pc = "merge"
          /\ req'[q].action = "rollback"
          /\ req'[q].site = s
          /\ req'[q].sent = OpenedDoc(v.doc)
          /\ req'[q].version = v.id
    \/ req'[q].pc = "audit" /\ req'[q].action \in {"create", "stream"}
    \/ \E s \in Sites, id \in 1..MaxArrivals :
          /\ DeleteSiteVersion(q, s, id, o)
          /\ req'[q].pc = "audit"
          /\ req'[q].action = "versionDelete"
          /\ req'[q].site = s
          /\ req'[q].version = id
<1>1. ASSUME NEW s \in Sites, NEW profile \in Profiles, CreateSite(q, s, profile, o)
      PROVE  Goal
    BY <1>1, BecomeIs, ToAuditIs DEF CreateSite
<1>2. ASSUME NEW s \in Sites, NEW edit \in Edits, UpdateSiteRead(q, s, edit, o)
      PROVE  Goal
    <2> PICK new : Arrive(q, [Idle EXCEPT !.pc = "update", !.action = "update", !.site = s,
                                          !.operator = o, !.sent = edit, !.new = new])
        BY <1>2 DEF UpdateSiteRead
    <2>1. req'[q] = [Idle EXCEPT !.pc = "update", !.action = "update", !.site = s,
                                 !.operator = o, !.sent = edit, !.new = new]
        BY BecomeIs
    <2> QED
        BY <2>1 DEF Idle
<1>3. ASSUME NEW s \in Sites, DeleteSiteRead(q, s, o)
      PROVE  Goal
    <2>1. req'[q] = [Idle EXCEPT !.pc = "delete", !.action = "delete", !.site = s, !.operator = o]
        BY <1>3, BecomeIs DEF DeleteSiteRead
    <2> QED
        BY <2>1 DEF Idle
<1>4. ASSUME NEW s \in Sites, NEW d \in Documents, PutConfig(q, s, d, o)
      PROVE  Goal
    <2> DEFINE new == Merged(sites[s].doc, d)
    <2>1. req'[q] = [Idle EXCEPT !.pc = "commit", !.action = "config", !.site = s, !.operator = o,
                                 !.sent = d, !.new = new, !.since = now]
        BY <1>4, BecomeIs DEF PutConfig
    <2> HIDE DEF new
    <2>2. /\ req'[q].pc = "commit" /\ req'[q].action = "config" /\ req'[q].site = s
          /\ req'[q].sent = d /\ req'[q].new = new
        BY <2>1 DEF Idle
    <2> QED
        BY <1>4, <2>2 DEF new
<1>5. ASSUME NEW s \in Sites, NEW id \in 1..MaxArrivals, RollbackRead(q, s, id, o)
      PROVE  Goal
    <2> PICK v \in VersionsOf(s) :
           /\ v.id = id
           /\ Arrive(q, [Idle EXCEPT !.pc = "merge", !.action = "rollback", !.site = s,
                                     !.operator = o, !.sent = OpenedDoc(v.doc), !.version = id])
        BY <1>5 DEF RollbackRead
    <2> DEFINE sent == OpenedDoc(v.doc)
    <2>1. req'[q] = [Idle EXCEPT !.pc = "merge", !.action = "rollback", !.site = s,
                                 !.operator = o, !.sent = sent, !.version = id]
        BY BecomeIs
    <2> HIDE DEF sent
    <2>2. /\ req'[q].pc = "merge" /\ req'[q].action = "rollback" /\ req'[q].site = s
          /\ req'[q].sent = sent /\ req'[q].version = v.id
        BY <2>1 DEF Idle
    <2> QED
        BY <2>2 DEF sent
<1>6. ASSUME NEW s \in Sites, NEW id \in 1..MaxArrivals, DeleteSiteVersion(q, s, id, o)
      PROVE  Goal
    <2>1. Arrive(q, ToAudit([action |-> "versionDelete", site |-> s, operator |-> o], id))
        BY <1>6 DEF DeleteSiteVersion
    <2> QED
        BY <1>6, <2>1, BecomeIs, ToAuditIs
<1>7. ASSUME NEW s \in Sites, UpdateSiteLogStream(q, s, o)
      PROVE  Goal
    BY <1>7, BecomeIs, ToAuditIs DEF UpdateSiteLogStream
<1> HIDE DEF Goal
<1>8. Goal
    BY <1>1, <1>2, <1>3, <1>4, <1>5, <1>6, <1>7 DEF Begin
<1> QED
    BY <1>8 DEF Goal

(* A rollback ends, or goes on with its version merged into the stored one.           *)
LEMMA RollbackMergeIs ==
    ASSUME req \in [Requests -> RequestState], NEW q \in Requests, RollbackMerge(q)
    PROVE  \/ req'[q] = Idle
           \/ /\ Exists(req[q].site)
              /\ Mergeable(req[q].sent)
              /\ req'[q].pc = "commit"
              /\ req'[q].action = req[q].action
              /\ req'[q].site = req[q].site
              /\ req'[q].sent = req[q].sent
              /\ req'[q].new = Merged(sites[req[q].site].doc, req[q].sent)
              /\ req'[q].version = req[q].version
<1> DEFINE s   == req[q].site
           new == Merged(sites[s].doc, req[q].sent)
<1>1. CASE Exists(s) /\ Mergeable(req[q].sent)
    <2>1. req'[q] = [req[q] EXCEPT !.pc = "commit", !.new = new, !.since = now, !.overtaken = FALSE]
        BY <1>1, BecomeIs DEF RollbackMerge
    <2> HIDE DEF new
    <2>2. /\ req'[q].pc = "commit" /\ req'[q].action = req[q].action /\ req'[q].site = s
          /\ req'[q].sent = req[q].sent /\ req'[q].new = new /\ req'[q].version = req[q].version
        BY <2>1 DEF RequestState
    <2> QED
        BY <1>1, <2>2 DEF new
<1>2. CASE ~(Exists(s) /\ Mergeable(req[q].sent))
    BY <1>2, BecomeIs DEF RollbackMerge
<1> QED
    BY <1>1, <1>2

(* The steps that change sites and versions.                                    *)
store == <<sites, versions, born, minted, removed>>

LEMMA StoreSteps ==
    ASSUME [Next]_vars
    PROVE  \/ UNCHANGED store
           \/ \E r \in Requests, s \in Sites, profile \in Profiles, o \in Operators :
                 CreateSite(r, s, profile, o)
           \/ \E r \in Requests : UpdateSite(r) \/ DeleteSite(r) \/ CommitConfig(r)
           \/ \E r \in Requests, s \in Sites, id \in 1..MaxArrivals, o \in Operators :
                 DeleteSiteVersion(r, s, id, o)
<1>1. CASE UNCHANGED vars
    BY <1>1 DEF vars, tables, history, store
<1>2. ASSUME Tick \/ \E k \in Keys \cup {None} : Restart(k)
      PROVE  UNCHANGED store
    BY <1>2 DEF Tick, Restart, tables, history, store
<1>3. ASSUME NEW r \in Requests, NEW o \in Operators, NEW s \in Sites,
             \/ \E edit \in Edits : UpdateSiteRead(r, s, edit, o)
             \/ DeleteSiteRead(r, s, o)
             \/ \E d \in Documents : PutConfig(r, s, d, o)
             \/ \E id \in 1..MaxArrivals : RollbackRead(r, s, id, o)
             \/ UpdateSiteLogStream(r, s, o)
      PROVE  UNCHANGED store
    BY <1>3 DEF UpdateSiteRead, DeleteSiteRead, PutConfig, RollbackRead, UpdateSiteLogStream,
                tables, history, store
<1>4. ASSUME NEW r \in Requests,
             RollbackMerge(r) \/ Fail(r) \/ \E logged \in BOOLEAN : SaveAudit(r, logged)
      PROVE  UNCHANGED store
    BY <1>4 DEF RollbackMerge, Fail, SaveAudit, tables, history, store
<1> QED
    BY <1>1, <1>2, <1>3, <1>4 DEF Next, Begin, Continue

-----------------------------------------------------------------------------
(***************************************************************************)
(* Types                                                                    *)
(***************************************************************************)

(* What a request holds on its way to its write.                               *)
Holds(l) ==
    /\ l.pc # "idle" =>
          /\ l.action \in {"create", "update", "delete", "config", "rollback", "versionDelete",
                           "stream"}
          /\ l.site \in Sites
          /\ l.operator \in Operators
    /\ l.pc \in {"update", "delete", "merge", "commit"} => l.site \in born
    /\ l.pc = "update" => l.action = "update" /\ l.new \in [Fields -> Names]
    /\ l.pc = "delete" => l.action = "delete"
    /\ l.pc = "merge" => l.action = "rollback" /\ l.sent \in Open
    /\ l.pc = "commit" =>
          l.action \in {"config", "rollback"} /\ l.sent \in Open /\ l.new \in AnyDoc

RequestInv == \A r \in Requests : Holds(req[r])

(* Versions are numbered from one on, and belong to sites that were created.       *)
MintedInv ==
    /\ IsFiniteSet(minted)
    /\ \A m \in minted : m.id \in 1..Cardinality(minted) /\ m.site \in born
    /\ \A m, n \in minted : m.id = n.id => m = n

Base == TypeOK /\ RequestInv /\ MintedInv

LEMMA InitBase == Init => Base
<1> SUFFICES ASSUME Init PROVE Base
    OBVIOUS
<1>1. TypeOK
    <2>1. sites \in [Sites -> {None} \cup SiteRow]
        <3> PICK profile \in Profiles :
               sites = [s \in Sites |->
                          IF s \in InitialSites THEN [profile |-> profile, doc |-> EmptyDoc]
                          ELSE None]
            BY DEF Init
        <3>1. profile \in [Fields -> Names]
            BY StoreAssumption
        <3>2. [profile |-> profile, doc |-> EmptyDoc] \in SiteRow
            BY <3>1, EmptyDocType DEF SiteRow
        <3> QED
            BY <3>2
    <2>2. req \in [Requests -> RequestState]
        BY IdleType DEF Init
    <2>3. {s \in Sites : Exists(s)} \subseteq born
        BY DEF Init, Exists
    <2> QED
        BY <2>1, <2>2, <2>3, StoreAssumption DEF Init, TypeOK
<1>2. RequestInv
    BY DEF Init, RequestInv, Holds, Idle
<1>3. MintedInv
    BY FS_EmptySet DEF Init, MintedInv
<1> QED
    BY <1>1, <1>2, <1>3 DEF Base

(* The version that a commit adds has a number of its own.                        *)
LEMMA NewVersion ==
    ASSUME Base, NEW row, row.id = Cardinality(minted) + 1, row.site \in born
    PROVE  /\ row \notin minted
           /\ \A m \in minted : m.id < row.id
           /\ IsFiniteSet(minted \cup {row})
           /\ Cardinality(minted \cup {row}) = Cardinality(minted) + 1
           /\ Cardinality(minted) \in Nat
           /\ \A m \in minted \cup {row} : m.id \in 1..(Cardinality(minted) + 1) /\ m.site \in born
           /\ \A m, n \in minted \cup {row} : m.id = n.id => m = n
<1>1. Cardinality(minted) \in Nat
    BY FS_CardinalityType DEF Base, MintedInv
<1>2. row \notin minted /\ \A m \in minted : m.id < row.id
    BY <1>1 DEF Base, MintedInv
<1>3. /\ IsFiniteSet(minted \cup {row})
      /\ Cardinality(minted \cup {row}) = Cardinality(minted) + 1
    BY <1>2, FS_AddElement DEF Base, MintedInv
<1> QED
    BY <1>1, <1>2, <1>3 DEF Base, MintedInv

(* The row that a commit adds is one of the table's type.                          *)
LEMMA CommitRow ==
    ASSUME Base, NEW r \in Requests, req[r].pc = "commit", NEW at \in req[r].since..now
    PROVE  [id |-> Cardinality(minted) + 1, site |-> req[r].site, doc |-> req[r].new,
            at |-> at, operator |-> req[r].operator] \in VersionRow
<1>1. Cardinality(minted) \in Nat
    BY FS_CardinalityType DEF Base, MintedInv
<1>2. at \in Nat
    BY DEF Base, TypeOK, RequestState
<1> QED
    BY <1>1, <1>2 DEF Base, RequestInv, Holds, VersionRow

(* What was drawn, saved, deleted or typed once stays so.                          *)
LEMMA HistoryGrows ==
    ASSUME [Next]_vars
    PROVE  born \subseteq born' /\ minted \subseteq minted' /\ removed \subseteq removed'
<1>1. CASE UNCHANGED store
    BY <1>1 DEF store
<1>2. ASSUME NEW r \in Requests, NEW s \in Sites, NEW profile \in Profiles, NEW o \in Operators,
             CreateSite(r, s, profile, o)
      PROVE  born \subseteq born' /\ minted \subseteq minted' /\ removed \subseteq removed'
    BY <1>2 DEF CreateSite
<1>3. ASSUME NEW r \in Requests, UpdateSite(r) \/ DeleteSite(r) \/ CommitConfig(r)
      PROVE  born \subseteq born' /\ minted \subseteq minted' /\ removed \subseteq removed'
    BY <1>3 DEF UpdateSite, DeleteSite, CommitConfig, history
<1>4. ASSUME NEW r \in Requests, NEW s \in Sites, NEW id \in 1..MaxArrivals, NEW o \in Operators,
             DeleteSiteVersion(r, s, id, o)
      PROVE  born \subseteq born' /\ minted \subseteq minted' /\ removed \subseteq removed'
    BY <1>4 DEF DeleteSiteVersion
<1> QED
    BY <1>1, <1>2, <1>3, <1>4, StoreSteps

LEMMA BeginHolds ==
    ASSUME Base, NEW r \in Requests, NEW o \in Operators, Begin(r, o)
    PROVE  req'[r] \in RequestState /\ Holds(req[r])' /\ req'[r].operator = o
<1> DEFINE Goal == req'[r] \in RequestState /\ Holds(req[r])' /\ req'[r].operator = o
<1>t. req \in [Requests -> RequestState]
    BY DEF Base, TypeOK
<1>1. ASSUME NEW s \in Sites, NEW action \in {"create", "versionDelete", "stream"}, NEW v \in Nat,
             Arrive(r, ToAudit([action |-> action, site |-> s, operator |-> o], v))
      PROVE  Goal
    BY <1>t, <1>1, BecomeIs, ToAuditIs, ToAuditType DEF Holds
<1>2. ASSUME NEW s \in Sites, NEW edit \in Edits, UpdateSiteRead(r, s, edit, o)
      PROVE  Goal
    <2> DEFINE new == [f \in Fields |-> IF f \in DOMAIN edit THEN edit[f] ELSE sites[s].profile[f]]
               l == [Idle EXCEPT !.pc = "update", !.action = "update", !.site = s, !.operator = o,
                                 !.sent = edit, !.new = new]
    <2>1. req'[r] = l
        BY <1>t, <1>2, BecomeIs DEF UpdateSiteRead
    <2>2. edit \in Partial(Fields, Names)
        BY StoreAssumption
    <2>3. sites[s].profile \in [Fields -> Names] /\ s \in born
        BY <1>2 DEF UpdateSiteRead, Base, TypeOK, Exists, SiteRow
    <2>4. new \in [Fields -> Names]
        BY <2>2, <2>3 DEF Partial
    <2>5. born' = born
        BY <1>2 DEF UpdateSiteRead, history
    <2> HIDE DEF new
    <2>6. l \in RequestState
        BY <2>2, <2>4 DEF Idle, RequestState
    <2>7. l.pc = "update" /\ l.action = "update" /\ l.site = s /\ l.operator = o /\ l.new = new
        BY DEF Idle
    <2> QED
        BY <2>1, <2>3, <2>4, <2>5, <2>6, <2>7 DEF Holds
<1>3. ASSUME NEW s \in Sites, DeleteSiteRead(r, s, o)
      PROVE  Goal
    <2> DEFINE l == [Idle EXCEPT !.pc = "delete", !.action = "delete", !.site = s, !.operator = o]
    <2>1. req'[r] = l
        BY <1>t, <1>3, BecomeIs DEF DeleteSiteRead
    <2>2. s \in born /\ born' = born
        BY <1>3 DEF DeleteSiteRead, Base, TypeOK, history
    <2>3. l \in RequestState
        BY DEF Idle, RequestState
    <2>4. l.pc = "delete" /\ l.action = "delete" /\ l.site = s /\ l.operator = o
        BY DEF Idle
    <2> QED
        BY <2>1, <2>2, <2>3, <2>4 DEF Holds
<1>4. ASSUME NEW s \in Sites, NEW d \in Documents, PutConfig(r, s, d, o)
      PROVE  Goal
    <2> DEFINE new == Merged(sites[s].doc, d)
               l == [Idle EXCEPT !.pc = "commit", !.action = "config", !.site = s, !.operator = o,
                                 !.sent = d, !.new = new, !.since = now]
    <2>1. req'[r] = l
        BY <1>t, <1>4, BecomeIs DEF PutConfig
    <2>2. s \in born /\ born' = born /\ sites[s].doc \in AnyDoc
        BY <1>4 DEF PutConfig, Base, TypeOK, history, Exists, SiteRow
    <2>3. d \in Open /\ new \in AnyDoc
        BY <1>4, <2>2, MergedIs, StoreAssumption DEF PutConfig, Base, TypeOK
    <2> HIDE DEF new
    <2>4. l \in RequestState
        <3>1. now \in Nat
            BY StoreAssumption DEF Base, TypeOK
        <3> QED
            BY <2>3, <3>1 DEF Idle, RequestState
    <2>5. /\ l.pc = "commit" /\ l.action = "config" /\ l.site = s /\ l.operator = o
          /\ l.sent = d /\ l.new = new
        BY DEF Idle
    <2> QED
        BY <2>1, <2>2, <2>3, <2>4, <2>5 DEF Holds
<1>5. ASSUME NEW s \in Sites, NEW id \in 1..MaxArrivals, RollbackRead(r, s, id, o)
      PROVE  Goal
    <2> PICK v \in VersionsOf(s) :
           Arrive(r, [Idle EXCEPT !.pc = "merge", !.action = "rollback", !.site = s,
                                  !.operator = o, !.sent = OpenedDoc(v.doc), !.version = id])
        BY <1>5 DEF RollbackRead
    <2> DEFINE sent == OpenedDoc(v.doc)
               l == [Idle EXCEPT !.pc = "merge", !.action = "rollback", !.site = s,
                                 !.operator = o, !.sent = sent, !.version = id]
    <2>1. req'[r] = l
        BY <1>t, BecomeIs
    <2>2. v.doc \in AnyDoc /\ s \in born
        BY DEF VersionsOf, Base, TypeOK, VersionRow, MintedInv
    <2>3. sent \in Open
        BY <2>2, OpenedDocIs
    <2>4. born' = born
        BY <1>5 DEF RollbackRead, history
    <2> HIDE DEF sent
    <2>5. l \in RequestState
        <3>1. id \in Nat
            BY StoreAssumption
        <3> QED
            BY <2>3, <3>1 DEF Idle, RequestState
    <2>6. /\ l.pc = "merge" /\ l.action = "rollback" /\ l.site = s /\ l.operator = o
          /\ l.sent = sent
        BY DEF Idle
    <2> QED
        BY <2>1, <2>2, <2>3, <2>4, <2>5, <2>6 DEF Holds
<1> QED
    BY <1>1, <1>2, <1>3, <1>4, <1>5, StoreAssumption
    DEF Begin, CreateSite, DeleteSiteVersion, UpdateSiteLogStream

LEMMA RequestsPreserved ==
    ASSUME Base, [Next]_vars
    PROVE  req' \in [Requests -> RequestState] /\ RequestInv'
<1>t. req \in [Requests -> RequestState]
    BY DEF Base, TypeOK
<1>1. ASSUME NEW q \in Requests
      PROVE  req'[q] \in RequestState /\ Holds(req[q])'
    <2> DEFINE Goal == req'[q] \in RequestState /\ Holds(req[q])'
    <2>h. Holds(req[q]) /\ born \subseteq born'
        BY HistoryGrows DEF Base, RequestInv
    <2>1. CASE Kept(q)
        BY <1>t, <2>h, <2>1, KeptFields DEF Holds
    <2>2. CASE req'[q] = Idle
        BY <2>2, IdleType DEF Holds, Idle
    <2>3. ASSUME NEW o \in Operators, Begin(q, o)
          PROVE  Goal
        BY <2>3, BeginHolds
    <2>4. ASSUME NEW v \in Nat, req[q].pc # "idle",
                 Become(q, ToAudit(req[q], v)) \/ BecomeAfterWrite(q, ToAudit(req[q], v))
          PROVE  Goal
        BY <1>t, <2>h, <2>4, BecomeIs, ToAuditIs, ToAuditType DEF Holds
    <2>5. CASE RollbackMerge(q)
        <3> DEFINE s   == req[q].site
                   new == Merged(sites[s].doc, req[q].sent)
                   l   == [req[q] EXCEPT !.pc = "commit", !.new = new, !.since = now,
                                         !.overtaken = FALSE]
        <3>1. CASE Exists(s) /\ Mergeable(req[q].sent)
            <4>1. req'[q] = l
                BY <1>t, <2>5, <3>1, BecomeIs DEF RollbackMerge
            <4>2. /\ req[q].sent \in Open /\ s \in born /\ s \in Sites /\ req[q].operator \in Operators
                  /\ req[q].action = "rollback"
                BY <2>5, <2>h DEF RollbackMerge, Holds
            <4>3. sites[s].doc \in AnyDoc /\ key \in Keys \cup {None} /\ now \in Nat
                BY <3>1, <4>2, StoreAssumption DEF Base, TypeOK, Exists, SiteRow
            <4>4. new \in AnyDoc
                BY <3>1, <4>2, <4>3, MergedIs
            <4> HIDE DEF new
            <4>5. l \in RequestState
                BY <1>t, <4>3, <4>4 DEF RequestState
            <4>6. /\ l.pc = "commit" /\ l.action = req[q].action /\ l.site = req[q].site
                  /\ l.operator = req[q].operator /\ l.sent = req[q].sent /\ l.new = new
                BY <1>t DEF RequestState
            <4> QED
                BY <2>h, <4>1, <4>2, <4>4, <4>5, <4>6 DEF Holds
        <3>2. CASE ~(Exists(s) /\ Mergeable(req[q].sent))
            <4>1. req'[q] = Idle
                BY <1>t, <2>5, <3>2, BecomeIs DEF RollbackMerge
            <4> QED
                BY <4>1, <2>2
        <3> QED
            BY <3>1, <3>2
    <2>6. CASE UpdateSite(q) \/ DeleteSite(q)
        BY <2>4, <2>6 DEF UpdateSite, DeleteSite
    <2>7. CASE CommitConfig(q)
        <3>1. Cardinality(minted) + 1 \in Nat
            BY FS_CardinalityType DEF Base, MintedInv
        <3>2. BecomeAfterWrite(q, ToAudit(req[q], Cardinality(minted) + 1))
            BY <2>7 DEF CommitConfig
        <3> QED
            BY <2>4, <2>7, <3>1, <3>2 DEF CommitConfig
    <2> QED
        BY <1>t, <2>1, <2>2, <2>3, <2>5, <2>6, <2>7, RequestSteps
<1>2. req' = [q \in Requests |-> req'[q]]
    <2>1. CASE UNCHANGED req
        BY <1>t, <2>1
    <2>2. CASE \E k \in Keys \cup {None} : Restart(k)
        BY <2>2 DEF Restart
    <2>3. ASSUME NEW r \in Requests, NEW o \in Operators, Begin(r, o)
          PROVE  \E l : Arrive(r, l)
        BY <2>3 DEF Begin, CreateSite, UpdateSiteRead, DeleteSiteRead, PutConfig, RollbackRead,
                    DeleteSiteVersion, UpdateSiteLogStream
    <2>4. ASSUME NEW r \in Requests, Continue(r)
          PROVE  \E l : Become(r, l) \/ BecomeAfterWrite(r, l)
        BY <2>4 DEF Continue, UpdateSite, DeleteSite, RollbackMerge, CommitConfig, SaveAudit, Fail
    <2> QED
        BY <1>t, <2>1, <2>2, <2>3, <2>4, BecomeIs DEF Next, Tick, vars
<1> QED
    BY <1>1, <1>2 DEF RequestInv

(* The table of sites; a site that is gone does not come back.                     *)
LEMMA SitesPreserved ==
    ASSUME Base, [Next]_vars
    PROVE  /\ sites' \in [Sites -> {None} \cup SiteRow]
           /\ born' \subseteq Sites
           /\ {s \in Sites : Exists(s)'} \subseteq born'
           /\ \A s \in born : ~Exists(s) => ~Exists(s)'
<1>t. /\ sites \in [Sites -> {None} \cup SiteRow]
      /\ born \subseteq Sites
      /\ {s \in Sites : Exists(s)} \subseteq born
    BY DEF Base, TypeOK
<1> DEFINE Goal == /\ sites' \in [Sites -> {None} \cup SiteRow]
                   /\ born' \subseteq Sites
                   /\ {s \in Sites : Exists(s)'} \subseteq born'
                   /\ \A s \in born : ~Exists(s) => ~Exists(s)'
<1>1. CASE UNCHANGED <<sites, born>>
    BY <1>t, <1>1 DEF Exists
<1>2. ASSUME NEW r \in Requests, NEW s \in Sites, NEW profile \in Profiles, NEW o \in Operators,
             CreateSite(r, s, profile, o)
      PROVE  Goal
    <2>1. [profile |-> profile, doc |-> EmptyDoc] \in SiteRow
        BY EmptyDocType, StoreAssumption DEF SiteRow
    <2>2. /\ sites' = [sites EXCEPT ![s] = [profile |-> profile, doc |-> EmptyDoc]]
          /\ born' = born \cup {s}
          /\ s \notin born
        BY <1>2 DEF CreateSite
    <2> QED
        BY <1>t, <2>1, <2>2 DEF Exists
<1>3. ASSUME NEW r \in Requests, UpdateSite(r)
      PROVE  Goal
    <2>1. req[r].site \in Sites /\ req[r].new \in [Fields -> Names]
        BY <1>3 DEF UpdateSite, Base, RequestInv, Holds
    <2>2. /\ born' = born
          /\ sites' = IF Exists(req[r].site)
                      THEN [sites EXCEPT ![req[r].site].profile = req[r].new] ELSE sites
        BY <1>3 DEF UpdateSite, history
    <2>3. CASE Exists(req[r].site)
        <3>1. sites[req[r].site] \in SiteRow
            BY <1>t, <2>1, <2>3 DEF Exists
        <3>2. [sites[req[r].site] EXCEPT !.profile = req[r].new] \in SiteRow
            BY <2>1, <3>1 DEF SiteRow
        <3>3. sites' = [sites EXCEPT ![req[r].site] =
                           [sites[req[r].site] EXCEPT !.profile = req[r].new]]
            BY <1>t, <2>1, <2>2, <2>3
        <3> QED
            BY <1>t, <2>1, <2>2, <2>3, <3>2, <3>3 DEF Exists
    <2> QED
        BY <1>1, <2>2, <2>3
<1>4. ASSUME NEW r \in Requests, DeleteSite(r)
      PROVE  Goal
    BY <1>t, <1>4 DEF DeleteSite, Exists
<1>5. ASSUME NEW r \in Requests, CommitConfig(r)
      PROVE  Goal
    <2>1. req[r].site \in Sites /\ req[r].new \in AnyDoc
        BY <1>5 DEF CommitConfig, Base, RequestInv, Holds
    <2>2. /\ born' = born
          /\ sites' = IF Exists(req[r].site)
                      THEN [sites EXCEPT ![req[r].site].doc = req[r].new] ELSE sites
        BY <1>5 DEF CommitConfig
    <2>3. CASE Exists(req[r].site)
        <3>1. sites[req[r].site] \in SiteRow
            BY <1>t, <2>1, <2>3 DEF Exists
        <3>2. [sites[req[r].site] EXCEPT !.doc = req[r].new] \in SiteRow
            BY <2>1, <3>1 DEF SiteRow
        <3>3. sites' = [sites EXCEPT ![req[r].site] =
                           [sites[req[r].site] EXCEPT !.doc = req[r].new]]
            BY <1>t, <2>1, <2>2, <2>3
        <3> QED
            BY <1>t, <2>1, <2>2, <2>3, <3>2, <3>3 DEF Exists
    <2> QED
        BY <1>1, <2>2, <2>3
<1>6. ASSUME NEW r \in Requests, NEW s \in Sites, NEW id \in 1..MaxArrivals, NEW o \in Operators,
             DeleteSiteVersion(r, s, id, o)
      PROVE  Goal
    BY <1>1, <1>6 DEF DeleteSiteVersion
<1> QED
    BY <1>1, <1>2, <1>3, <1>4, <1>5, <1>6, StoreSteps DEF store

(* What a commit does to the tables of versions.                                  *)
CommitsRow(r, row) ==
    /\ row = [id |-> Cardinality(minted) + 1, site |-> req[r].site, doc |-> req[r].new,
              at |-> row.at, operator |-> req[r].operator]
    /\ row \in VersionRow
    /\ \E kept \in Keepings(VersionsOf(req[r].site) \cup {row}) :
          versions' = (versions \ VersionsOf(req[r].site)) \cup kept
    /\ minted' = minted \cup {row}

LEMMA CommitIs ==
    ASSUME Base, NEW r \in Requests, CommitConfig(r)
    PROVE  /\ \E row : CommitsRow(r, row)
           /\ req'[r] = ToAudit(req[r], Cardinality(minted) + 1)
           /\ sites' = IF Exists(req[r].site)
                       THEN [sites EXCEPT ![req[r].site].doc = req[r].new] ELSE sites
           /\ UNCHANGED <<now, key, streams, audits, born, removed, typed, errors, restarts>>
<1> PICK at \in req[r].since..now :
       LET row == [id |-> Cardinality(minted) + 1, site |-> req[r].site, doc |-> req[r].new,
                   at |-> at, operator |-> req[r].operator]
       IN  /\ \E kept \in Keepings(VersionsOf(req[r].site) \cup {row}) :
                 versions' = (versions \ VersionsOf(req[r].site)) \cup kept
           /\ minted' = minted \cup {row}
           /\ BecomeAfterWrite(r, ToAudit(req[r], Cardinality(minted) + 1))
    BY DEF CommitConfig
<1> DEFINE row == [id |-> Cardinality(minted) + 1, site |-> req[r].site, doc |-> req[r].new,
                   at |-> at, operator |-> req[r].operator]
<1>1. row \in VersionRow
    BY CommitRow DEF CommitConfig
<1>2. CommitsRow(r, row)
    BY <1>1 DEF CommitsRow
<1>3. req'[r] = ToAudit(req[r], Cardinality(minted) + 1)
    BY BecomeIs DEF Base, TypeOK
<1> HIDE DEF row
<1> QED
    BY <1>2, <1>3 DEF CommitConfig

LEMMA VersionsPreserved ==
    ASSUME Base, [Next]_vars
    PROVE  /\ minted' \subseteq VersionRow
           /\ versions' \subseteq minted'
           /\ removed' \subseteq {v.id : v \in minted' \ versions'}
           /\ MintedInv'
<1>t. /\ minted \subseteq VersionRow
      /\ versions \subseteq minted
      /\ removed \subseteq {v.id : v \in minted \ versions}
      /\ MintedInv
      /\ born \subseteq born'
    BY HistoryGrows DEF Base, TypeOK
<1> DEFINE Goal == /\ minted' \subseteq VersionRow
                   /\ versions' \subseteq minted'
                   /\ removed' \subseteq {v.id : v \in minted' \ versions'}
                   /\ MintedInv'
<1>0. ASSUME minted' = minted
      PROVE  MintedInv'
    BY <1>t, <1>0 DEF MintedInv
<1>1. CASE UNCHANGED <<versions, minted, removed>>
    BY <1>t, <1>0, <1>1
<1>2. ASSUME NEW r \in Requests, NEW s \in Sites, NEW profile \in Profiles, NEW o \in Operators,
             CreateSite(r, s, profile, o)
      PROVE  Goal
    BY <1>1, <1>2 DEF CreateSite
<1>3. ASSUME NEW r \in Requests, UpdateSite(r)
      PROVE  Goal
    BY <1>1, <1>3 DEF UpdateSite, history
<1>4. ASSUME NEW r \in Requests, DeleteSite(r)
      PROVE  Goal
    <2> DEFINE rows == {v \in versions : v.site = req[r].site}
    <2>1. /\ versions' = versions \ rows
          /\ removed' = removed \cup {v.id : v \in rows}
          /\ minted' = minted
        BY <1>4 DEF DeleteSite
    <2> QED
        BY <1>t, <1>0, <2>1
<1>5. ASSUME NEW r \in Requests, CommitConfig(r)
      PROVE  Goal
    <2> PICK row : CommitsRow(r, row)
        BY <1>5, CommitIs
    <2>1. removed' = removed
        BY <1>5 DEF CommitConfig
    <2>2. row.id = Cardinality(minted) + 1 /\ row.site = req[r].site /\ row \in VersionRow
        BY DEF CommitsRow
    <2>3. row.site \in born
        BY <1>5, <2>2 DEF CommitConfig, Base, RequestInv, Holds
    <2>4. minted' = minted \cup {row} /\ row \notin minted
        BY <2>2, <2>3, NewVersion DEF CommitsRow
    <2>5. PICK kept \in SUBSET (VersionsOf(req[r].site) \cup {row}) :
             versions' = (versions \ VersionsOf(req[r].site)) \cup kept
        BY DEF CommitsRow, Keepings
    <2>6. versions' \subseteq versions \cup {row}
        BY <2>5 DEF VersionsOf
    <2>7. MintedInv'
        <3>1. Cardinality(minted') = Cardinality(minted) + 1
            BY <2>2, <2>3, <2>4, NewVersion
        <3> QED
            BY <1>t, <2>2, <2>3, <2>4, <3>1, NewVersion DEF MintedInv
    <2> QED
        BY <1>t, <2>1, <2>2, <2>4, <2>6, <2>7
<1>6. ASSUME NEW r \in Requests, NEW s \in Sites, NEW id \in 1..MaxArrivals, NEW o \in Operators,
             DeleteSiteVersion(r, s, id, o)
      PROVE  Goal
    <2> PICK v \in versions : v.id = id /\ versions' = versions \ {v}
        BY <1>6 DEF DeleteSiteVersion, VersionsOf
    <2>1. removed' = removed \cup {id} /\ minted' = minted
        BY <1>6 DEF DeleteSiteVersion
    <2> QED
        BY <1>t, <1>0, <2>1
<1> QED
    BY <1>1, <1>2, <1>3, <1>4, <1>5, <1>6, StoreSteps DEF store

(* Every other variable.                                                         *)
LEMMA RestPreserved ==
    ASSUME Base, [Next]_vars
    PROVE  /\ now' \in 0..MaxTime
           /\ key' \in Keys \cup {None}
           /\ streams' \subseteq Sites
           /\ audits' \subseteq AuditRow
           /\ arrived' \in 0..MaxArrivals
           /\ typed' \subseteq [site : Sites, provider : Providers, plain : Plains]
           /\ errors' \in 0..MaxErrors
           /\ restarts' \in 0..MaxRestarts
<1> DEFINE Goal == /\ now' \in 0..MaxTime
                   /\ key' \in Keys \cup {None}
                   /\ streams' \subseteq Sites
                   /\ audits' \subseteq AuditRow
                   /\ arrived' \in 0..MaxArrivals
                   /\ typed' \subseteq [site : Sites, provider : Providers, plain : Plains]
                   /\ errors' \in 0..MaxErrors
                   /\ restarts' \in 0..MaxRestarts
<1>b. MaxTime \in Nat /\ MaxArrivals \in Nat /\ MaxErrors \in Nat /\ MaxRestarts \in Nat
    BY StoreAssumption
<1>t. /\ now \in 0..MaxTime
      /\ key \in Keys \cup {None}
      /\ streams \subseteq Sites
      /\ audits \subseteq AuditRow
      /\ arrived \in 0..MaxArrivals
      /\ typed \subseteq [site : Sites, provider : Providers, plain : Plains]
      /\ errors \in 0..MaxErrors
      /\ restarts \in 0..MaxRestarts
    BY DEF Base, TypeOK
<1>1. CASE UNCHANGED vars
    BY <1>t, <1>1 DEF vars, tables
<1>2. CASE Tick
    BY <1>b, <1>t, <1>2 DEF Tick, tables
<1>3. ASSUME NEW k \in Keys \cup {None}, Restart(k)
      PROVE  Goal
    BY <1>b, <1>t, <1>3 DEF Restart, tables
<1>4. ASSUME NEW r \in Requests, NEW o \in Operators, NEW s \in Sites,
             \/ \E profile \in Profiles : CreateSite(r, s, profile, o)
             \/ \E edit \in Edits : UpdateSiteRead(r, s, edit, o)
             \/ DeleteSiteRead(r, s, o)
             \/ \E id \in 1..MaxArrivals : RollbackRead(r, s, id, o)
             \/ \E id \in 1..MaxArrivals : DeleteSiteVersion(r, s, id, o)
             \/ UpdateSiteLogStream(r, s, o)
      PROVE  Goal
    <2>1. /\ streams' \subseteq Sites
          /\ UNCHANGED <<now, key, audits, typed, errors, restarts>>
        BY <1>t, <1>4 DEF CreateSite, UpdateSiteRead, DeleteSiteRead, RollbackRead,
                          DeleteSiteVersion, UpdateSiteLogStream, tables
    <2>2. arrived < MaxArrivals /\ arrived' = arrived + 1
        BY <1>4 DEF CreateSite, UpdateSiteRead, DeleteSiteRead, RollbackRead, DeleteSiteVersion,
                    UpdateSiteLogStream, Arrive
    <2> QED
        BY <1>b, <1>t, <2>1, <2>2
<1>5. ASSUME NEW r \in Requests, NEW o \in Operators, NEW s \in Sites, NEW d \in Documents,
             PutConfig(r, s, d, o)
      PROVE  Goal
    <2>1. DOMAIN d.secrets \subseteq Providers
        BY DocElim, StoreAssumption DEF Open
    <2>2. typed' \subseteq [site : Sites, provider : Providers, plain : Plains]
        BY <1>t, <1>5, <2>1 DEF PutConfig
    <2>3. arrived < MaxArrivals /\ arrived' = arrived + 1
        BY <1>5 DEF PutConfig, Arrive
    <2>4. UNCHANGED <<now, key, streams, audits, errors, restarts>>
        BY <1>5 DEF PutConfig, tables
    <2> QED
        BY <1>b, <1>t, <2>2, <2>3, <2>4
<1>6. ASSUME NEW r \in Requests, UpdateSite(r) \/ DeleteSite(r) \/ RollbackMerge(r)
      PROVE  Goal
    <2>1. streams' \subseteq Sites /\ UNCHANGED <<now, key, audits, arrived, typed, errors, restarts>>
        BY <1>t, <1>6 DEF UpdateSite, DeleteSite, RollbackMerge, tables, Become, BecomeAfterWrite
    <2> QED
        BY <1>t, <2>1
<1>7. ASSUME NEW r \in Requests, CommitConfig(r)
      PROVE  Goal
    <2>1. UNCHANGED <<now, key, streams, audits, arrived, typed, errors, restarts>>
        BY <1>7 DEF CommitConfig, BecomeAfterWrite
    <2> QED
        BY <1>t, <2>1
<1>8. ASSUME NEW r \in Requests, NEW logged \in BOOLEAN, SaveAudit(r, logged)
      PROVE  Goal
    <2> DEFINE row == [action |-> req[r].action, site |-> req[r].site, version |-> req[r].version,
                       operator |-> req[r].operator, logged |-> logged]
    <2>1. row \in AuditRow
        BY <1>8 DEF SaveAudit, Base, TypeOK, RequestInv, Holds, RequestState, AuditRow
    <2>2. audits' = audits \cup {row} /\ errors' \in {errors, errors + 1}
          /\ (errors' = errors \/ errors < MaxErrors)
        BY <1>8 DEF SaveAudit
    <2>3. UNCHANGED <<now, key, streams, arrived, typed, restarts>>
        BY <1>8 DEF SaveAudit, Become
    <2> HIDE DEF row
    <2> QED
        BY <1>b, <1>t, <2>1, <2>2, <2>3
<1>9. ASSUME NEW r \in Requests, Fail(r)
      PROVE  Goal
    <2>1. errors < MaxErrors /\ errors' = errors + 1
          /\ UNCHANGED <<now, key, streams, audits, arrived, typed, restarts>>
        BY <1>9 DEF Fail, Become, tables
    <2> QED
        BY <1>b, <1>t, <2>1
<1> QED
    BY <1>1, <1>2, <1>3, <1>4, <1>5, <1>6, <1>7, <1>8, <1>9 DEF Next, Begin, Continue

LEMMA BasePreserved == Base /\ [Next]_vars => Base'
<1> SUFFICES ASSUME Base, [Next]_vars PROVE Base'
    OBVIOUS
<1>1. req' \in [Requests -> RequestState] /\ RequestInv'
    BY RequestsPreserved
<1>2. /\ sites' \in [Sites -> {None} \cup SiteRow]
      /\ born' \subseteq Sites
      /\ {s \in Sites : Exists(s)}' \subseteq born'
    BY SitesPreserved
<1>3. /\ minted' \subseteq VersionRow
      /\ versions' \subseteq minted'
      /\ removed' \subseteq {v.id : v \in minted \ versions}'
      /\ MintedInv'
    BY VersionsPreserved
<1>4. versions' \subseteq VersionRow
    BY <1>3
<1>5. TypeOK'
    BY <1>1, <1>2, <1>3, <1>4, RestPreserved DEF TypeOK
<1> QED
    BY <1>1, <1>3, <1>5 DEF Base

-----------------------------------------------------------------------------
(***************************************************************************)
(* Secrets                                                                  *)
(***************************************************************************)

(* A secret that may stand in a table for provider p of site s, when T was typed:   *)
(* nothing, something foreign, or one that was typed there, sealed.                 *)
SealedFor(T, s, p, x) ==
    \/ x \in {Blank, Foreign}
    \/ x \in Sealed /\ [site |-> s, provider |-> p, plain |-> x.plain] \in T

DocSealed(T, s, d) == \A p \in DOMAIN d.secrets : SealedFor(T, s, p, d.secrets[p])

(* A document whose secrets can be read, each typed where it stands, or foreign.     *)
DocTyped(T, s, d) ==
    \A p \in DOMAIN d.secrets :
        \/ d.secrets[p] \in {Blank, Foreign}
        \/ [site |-> s, provider |-> p, plain |-> d.secrets[p]] \in T

(* A rollback carries secrets that were typed for their provider; what a request     *)
(* will write may stand in the tables.                                             *)
SecretsHeld(l) ==
    /\ l.pc = "merge" => DocTyped(typed, l.site, l.sent)
    /\ l.pc = "commit" => DocSealed(typed, l.site, l.new)

SecretInv ==
    /\ \A s \in Sites : Exists(s) => DocSealed(typed, s, sites[s].doc)
    /\ \A m \in minted : DocSealed(typed, m.site, m.doc)
    /\ \A r \in Requests : SecretsHeld(req[r])

LEMMA TypedGrows == [Next]_vars => typed \subseteq typed'
<1>1. ASSUME NEW r \in Requests, NEW s \in Sites, NEW d \in Documents, NEW o \in Operators,
             PutConfig(r, s, d, o)
      PROVE  typed \subseteq typed'
    BY <1>1 DEF PutConfig
<1>2. ASSUME NEW r \in Requests, Continue(r)
      PROVE  UNCHANGED typed
    BY <1>2 DEF Continue, UpdateSite, DeleteSite, RollbackMerge, CommitConfig, SaveAudit, Fail
<1>3. ASSUME NEW r \in Requests, NEW s \in Sites, NEW o \in Operators,
             \/ \E profile \in Profiles : CreateSite(r, s, profile, o)
             \/ \E edit \in Edits : UpdateSiteRead(r, s, edit, o)
             \/ DeleteSiteRead(r, s, o)
             \/ \E id \in 1..MaxArrivals : RollbackRead(r, s, id, o)
             \/ \E id \in 1..MaxArrivals : DeleteSiteVersion(r, s, id, o)
             \/ UpdateSiteLogStream(r, s, o)
      PROVE  UNCHANGED typed
    BY <1>3 DEF CreateSite, UpdateSiteRead, DeleteSiteRead, RollbackRead, DeleteSiteVersion,
                UpdateSiteLogStream
<1>4. ASSUME Tick \/ \E k \in Keys \cup {None} : Restart(k)
      PROVE  UNCHANGED typed
    BY <1>4 DEF Tick, Restart
<1> QED
    BY <1>1, <1>2, <1>3, <1>4 DEF Next, Begin, vars

LEMMA SealedGrows ==
    ASSUME NEW T, NEW U, T \subseteq U, NEW s, NEW d
    PROVE  /\ DocSealed(T, s, d) => DocSealed(U, s, d)
           /\ DocTyped(T, s, d) => DocTyped(U, s, d)
BY DEF DocSealed, SealedFor, DocTyped

(* Opening what may stand in the tables gives what was typed.                       *)
LEMMA OpenedTyped ==
    ASSUME NEW T, NEW s, NEW d \in AnyDoc, DocSealed(T, s, d)
    PROVE  DocTyped(T, s, OpenedDoc(d))
<1> SUFFICES ASSUME NEW p \in DOMAIN d.secrets
             PROVE  \/ Opened(d.secrets[p]) \in {Blank, Foreign}
                    \/ [site |-> s, provider |-> p, plain |-> Opened(d.secrets[p])] \in T
    BY OpenedDocIs DEF DocTyped
<1>1. SealedFor(T, s, p, d.secrets[p])
    BY DEF DocSealed
<1> QED
    BY <1>1, StoreAssumption DEF SealedFor, Opened

(* A merge of what was typed into what may stand in the tables may stand there.      *)
LEMMA MergedSealed ==
    ASSUME NEW old \in AnyDoc, NEW new \in Open, Mergeable(new), key \in Keys \cup {None},
           NEW T, NEW s, DocSealed(T, s, old), DocTyped(T, s, new)
    PROVE  DocSealed(T, s, Merged(old, new))
<1> DEFINE P == DOMAIN new.secrets
<1>1. SUFFICES ASSUME NEW p \in P
               PROVE  SealedFor(T, s, p, Merged(old, new).secrets[p])
    BY MergedIs DEF DocSealed
<1> DEFINE x == new.secrets[p]
           y == Merged(old, new).secrets[p]
<1>2. \/ x \in Plains /\ key \in Keys /\ y = [key |-> key, plain |-> x]
      \/ x = Blank /\ p \in DOMAIN old.secrets /\ y = old.secrets[p]
      \/ x \in {Blank, Foreign} /\ y = x
    BY MergedIs
<1>3. x \in {Blank, Foreign} \/ [site |-> s, provider |-> p, plain |-> x] \in T
    BY DEF DocTyped
<1>4. p \in DOMAIN old.secrets => SealedFor(T, s, p, old.secrets[p])
    BY DEF DocSealed
<1> HIDE DEF x, y
<1>5. x \in Plains => x \notin {Blank, Foreign}
    BY StoreAssumption
<1>6. CASE x \in Plains /\ key \in Keys /\ y = [key |-> key, plain |-> x]
    <2>1. y \in Sealed /\ y.plain = x
        BY <1>6 DEF Sealed
    <2> QED
        BY <1>3, <1>5, <1>6, <2>1 DEF SealedFor, y
<1>7. CASE x = Blank /\ p \in DOMAIN old.secrets /\ y = old.secrets[p]
    BY <1>4, <1>7 DEF y
<1>8. CASE x \in {Blank, Foreign} /\ y = x
    BY <1>8 DEF SealedFor, y
<1> QED
    BY <1>2, <1>6, <1>7, <1>8

(* The documents in the tables.                                                  *)
LEMMA TableSecrets ==
    ASSUME Base, SecretInv, [Next]_vars
    PROVE  /\ \A s \in Sites : Exists(s)' => DocSealed(typed', s, sites'[s].doc)
           /\ \A m \in minted' : DocSealed(typed', m.site, m.doc)
<1> DEFINE Goal == /\ \A s \in Sites : Exists(s)' => DocSealed(typed', s, sites'[s].doc)
                   /\ \A m \in minted' : DocSealed(typed', m.site, m.doc)
<1>t. sites \in [Sites -> {None} \cup SiteRow]
    BY DEF Base, TypeOK
<1>s. \A s \in Sites : Exists(s) => DocSealed(typed', s, sites[s].doc)
    BY TypedGrows, SealedGrows DEF SecretInv
<1>m. \A m \in minted : DocSealed(typed', m.site, m.doc)
    BY TypedGrows, SealedGrows DEF SecretInv
<1>1. CASE UNCHANGED <<sites, minted>>
    BY <1>s, <1>m, <1>1 DEF Exists
<1>2. ASSUME NEW r \in Requests, NEW s \in Sites, NEW profile \in Profiles, NEW o \in Operators,
             CreateSite(r, s, profile, o)
      PROVE  Goal
    <2>1. sites' = [sites EXCEPT ![s] = [profile |-> profile, doc |-> EmptyDoc]] /\ minted' = minted
        BY <1>2 DEF CreateSite
    <2>2. DocSealed(typed', s, EmptyDoc)
        BY EmptyDocType DEF DocSealed
    <2> QED
        BY <1>t, <1>s, <1>m, <2>1, <2>2 DEF Exists
<1>3. ASSUME NEW r \in Requests, UpdateSite(r)
      PROVE  Goal
    <2> DEFINE s == req[r].site
    <2>1. s \in Sites
        BY <1>3 DEF UpdateSite, Base, RequestInv, Holds
    <2>2. /\ minted' = minted
          /\ sites' = IF Exists(s) THEN [sites EXCEPT ![s].profile = req[r].new] ELSE sites
        BY <1>3 DEF UpdateSite, history
    <2>3. CASE Exists(s)
        <3>1. sites[s] \in SiteRow
            BY <1>t, <2>1, <2>3 DEF Exists
        <3>2. sites'[s].doc = sites[s].doc
            BY <1>t, <2>1, <2>2, <2>3, <3>1 DEF SiteRow
        <3>3. \A q \in Sites \ {s} : sites'[q] = sites[q]
            BY <1>t, <2>1, <2>2, <2>3
        <3> QED
            BY <1>s, <1>m, <2>2, <2>3, <3>2, <3>3 DEF Exists
    <2> QED
        BY <1>1, <2>2, <2>3
<1>4. ASSUME NEW r \in Requests, DeleteSite(r)
      PROVE  Goal
    BY <1>t, <1>s, <1>m, <1>4 DEF DeleteSite, Exists
<1>5. ASSUME NEW r \in Requests, CommitConfig(r)
      PROVE  Goal
    <2> DEFINE s == req[r].site
    <2>1. s \in Sites
        BY <1>5 DEF CommitConfig, Base, RequestInv, Holds
    <2>2. DocSealed(typed', s, req[r].new)
        <3>1. DocSealed(typed, s, req[r].new)
            BY <1>5 DEF CommitConfig, SecretInv, SecretsHeld
        <3> QED
            BY <3>1, TypedGrows, SealedGrows
    <2> PICK row : CommitsRow(r, row)
        BY <1>5, CommitIs
    <2>3. minted' = minted \cup {row} /\ row.site = s /\ row.doc = req[r].new
        BY DEF CommitsRow
    <2>4. sites' = IF Exists(s) THEN [sites EXCEPT ![s].doc = req[r].new] ELSE sites
        BY <1>5 DEF CommitConfig
    <2>5. CASE Exists(s)
        <3>1. sites[s] \in SiteRow
            BY <1>t, <2>1, <2>5 DEF Exists
        <3>2. sites'[s].doc = req[r].new
            BY <1>t, <2>1, <2>4, <2>5, <3>1 DEF SiteRow
        <3>3. \A q \in Sites \ {s} : sites'[q] = sites[q]
            BY <1>t, <2>1, <2>4, <2>5
        <3> QED
            BY <1>s, <1>m, <2>2, <2>3, <2>5, <3>2, <3>3 DEF Exists
    <2>6. CASE ~Exists(s)
        BY <1>s, <1>m, <2>2, <2>3, <2>4, <2>6 DEF Exists
    <2> QED
        BY <2>5, <2>6
<1>6. ASSUME NEW r \in Requests, NEW s \in Sites, NEW id \in 1..MaxArrivals, NEW o \in Operators,
             DeleteSiteVersion(r, s, id, o)
      PROVE  Goal
    BY <1>1, <1>6 DEF DeleteSiteVersion
<1> QED
    BY <1>1, <1>2, <1>3, <1>4, <1>5, <1>6, StoreSteps DEF store

(* What requests hold.                                                            *)
LEMMA HeldSecrets ==
    ASSUME Base, SecretInv, [Next]_vars, NEW q \in Requests
    PROVE  SecretsHeld(req[q])'
<1>t. req \in [Requests -> RequestState] /\ key \in Keys \cup {None}
    BY DEF Base, TypeOK
<1>h. SecretsHeld(req[q]) /\ Holds(req[q])
    BY DEF SecretInv, Base, RequestInv
<1>1. CASE Kept(q)
    BY <1>t, <1>h, <1>1, KeptFields, TypedGrows, SealedGrows DEF SecretsHeld
<1>2. CASE req'[q] = Idle
    BY <1>2 DEF SecretsHeld, Idle
<1>3. ASSUME NEW o \in Operators, Begin(q, o)
      PROVE  SecretsHeld(req[q])'
    <2>1. ASSUME NEW s \in Sites, NEW d \in Documents, PutConfig(q, s, d, o)
          PROVE  DocSealed(typed', s, Merged(sites[s].doc, d))
        <3>1. Exists(s) /\ Mergeable(d) /\ d \in Open
            BY <2>1, StoreAssumption DEF PutConfig
        <3>2. sites[s].doc \in AnyDoc
            BY <3>1 DEF Base, TypeOK, Exists, SiteRow
        <3>3. DocTyped(typed', s, d)
            <4>1. typed' = typed \cup {[site |-> s, provider |-> p, plain |-> d.secrets[p]] :
                                         p \in {x \in DOMAIN d.secrets : d.secrets[x] \in Plains}}
                BY <2>1 DEF PutConfig
            <4>2. \A p \in DOMAIN d.secrets : d.secrets[p] \in Plains \cup {Blank, Foreign}
                BY <3>1, DocElim DEF Open
            <4> QED
                BY <4>1, <4>2 DEF DocTyped
        <3>4. DocSealed(typed', s, sites[s].doc)
            BY <3>1, TypedGrows, SealedGrows DEF SecretInv
        <3> QED
            BY <1>t, <3>1, <3>2, <3>3, <3>4, MergedSealed
    <2>2. ASSUME NEW s \in Sites, NEW v \in VersionsOf(s)
          PROVE  DocTyped(typed', s, OpenedDoc(v.doc))
        <3>1. v \in minted /\ v.site = s /\ v.doc \in AnyDoc
            BY DEF VersionsOf, Base, TypeOK, VersionRow
        <3>2. DocSealed(typed', s, v.doc)
            BY <3>1, TypedGrows, SealedGrows DEF SecretInv
        <3> QED
            BY <3>1, <3>2, OpenedTyped
    <2> QED
        BY <1>t, <1>3, <2>1, <2>2, BeginIs DEF SecretsHeld
<1>4. CASE RollbackMerge(q)
    <2>1. CASE req'[q] = Idle
        BY <1>2, <2>1
    <2>2. CASE req'[q] # Idle
        <3> DEFINE s == req[q].site
        <3>1. /\ Exists(s) /\ Mergeable(req[q].sent)
              /\ req'[q].pc = "commit" /\ req'[q].site = s
              /\ req'[q].new = Merged(sites[s].doc, req[q].sent)
            BY <1>t, <1>4, <2>2, RollbackMergeIs
        <3>2. req[q].pc = "merge" /\ s \in Sites /\ req[q].sent \in Open
            BY <1>4, <1>h DEF RollbackMerge, Holds
        <3>3. sites[s].doc \in AnyDoc
            BY <3>1, <3>2 DEF Base, TypeOK, Exists, SiteRow
        <3>4. DocTyped(typed', s, req[q].sent)
            BY <1>h, <3>2, TypedGrows, SealedGrows DEF SecretsHeld
        <3>5. DocSealed(typed', s, sites[s].doc)
            BY <3>1, <3>2, TypedGrows, SealedGrows DEF SecretInv
        <3>6. DocSealed(typed', s, Merged(sites[s].doc, req[q].sent))
            BY <1>t, <3>1, <3>2, <3>3, <3>4, <3>5, MergedSealed
        <3> QED
            BY <3>1, <3>6 DEF SecretsHeld
    <2> QED
        BY <2>1, <2>2
<1>5. ASSUME UpdateSite(q) \/ DeleteSite(q) \/ CommitConfig(q)
      PROVE  SecretsHeld(req[q])'
    <2>1. \E l, v : BecomeAfterWrite(q, ToAudit(l, v))
        BY <1>5 DEF UpdateSite, DeleteSite, CommitConfig
    <2>2. req'[q].pc = "audit"
        BY <1>t, <2>1, BecomeIs, ToAuditIs
    <2> QED
        BY <2>2 DEF SecretsHeld
<1> QED
    BY <1>t, <1>1, <1>2, <1>3, <1>4, <1>5, RequestSteps

LEMMA SecretsPreserved == Base /\ SecretInv /\ [Next]_vars => SecretInv'
BY TableSecrets, HeldSecrets DEF SecretInv

-----------------------------------------------------------------------------
(***************************************************************************)
(* Versions                                                                 *)
(***************************************************************************)

(* Configuration in force and last version change together.                        *)
LEMMA LivePreserved == Base /\ LiveIsLastSaved /\ [Next]_vars => LiveIsLastSaved'
<1> SUFFICES ASSUME Base, LiveIsLastSaved, [Next]_vars PROVE LiveIsLastSaved'
    OBVIOUS
<1> DEFINE Saved(s) == {m \in minted : m.site = s}
           Last(s)  == IF Saved(s) = {} THEN sites[s].doc = EmptyDoc
                       ELSE \E m \in Saved(s) : /\ \A w \in Saved(s) : w.id <= m.id
                                                /\ sites[s].doc = m.doc
<1>t. sites \in [Sites -> {None} \cup SiteRow]
    BY DEF Base, TypeOK
<1>l. \A s \in Sites : Exists(s) => Last(s)
    BY DEF LiveIsLastSaved
<1>g. SUFFICES \A s \in Sites : Exists(s)' => Last(s)'
    BY DEF LiveIsLastSaved
<1>0. ASSUME NEW s \in Sites, Exists(s), sites'[s].doc = sites[s].doc, Saved(s)' = Saved(s)
      PROVE  Last(s)'
    BY <1>l, <1>0
<1> HIDE DEF Last
<1>1. CASE UNCHANGED <<sites, minted>>
    BY <1>0, <1>1 DEF Exists
<1>2. ASSUME NEW r \in Requests, NEW s \in Sites, NEW profile \in Profiles, NEW o \in Operators,
             CreateSite(r, s, profile, o)
      PROVE  \A q \in Sites : Exists(q)' => Last(q)'
    <2>1. sites' = [sites EXCEPT ![s] = [profile |-> profile, doc |-> EmptyDoc]] /\ minted' = minted
        BY <1>2 DEF CreateSite
    <2>2. Last(s)'
        <3>1. Saved(s)' = {}
            BY <1>2, <2>1 DEF CreateSite, Base, MintedInv
        <3>2. sites'[s].doc = EmptyDoc
            BY <1>t, <2>1
        <3> QED
            BY <3>1, <3>2 DEF Last
    <2>3. \A q \in Sites \ {s} : sites'[q] = sites[q]
        BY <1>t, <2>1
    <2> QED
        BY <1>0, <2>1, <2>2, <2>3 DEF Exists
<1>3. ASSUME NEW r \in Requests, UpdateSite(r)
      PROVE  \A q \in Sites : Exists(q)' => Last(q)'
    <2> DEFINE s == req[r].site
    <2>1. s \in Sites
        BY <1>3 DEF UpdateSite, Base, RequestInv, Holds
    <2>2. /\ minted' = minted
          /\ sites' = IF Exists(s) THEN [sites EXCEPT ![s].profile = req[r].new] ELSE sites
        BY <1>3 DEF UpdateSite, history
    <2>3. CASE Exists(s)
        <3>1. sites[s] \in SiteRow
            BY <1>t, <2>1, <2>3 DEF Exists
        <3>2. sites'[s].doc = sites[s].doc
            BY <1>t, <2>1, <2>2, <2>3, <3>1 DEF SiteRow
        <3>3. \A q \in Sites \ {s} : sites'[q] = sites[q]
            BY <1>t, <2>1, <2>2, <2>3
        <3> QED
            BY <1>0, <2>2, <2>3, <3>2, <3>3 DEF Exists
    <2> QED
        BY <1>1, <2>2, <2>3
<1>4. ASSUME NEW r \in Requests, DeleteSite(r)
      PROVE  \A q \in Sites : Exists(q)' => Last(q)'
    <2>1. minted' = minted /\ sites' = [sites EXCEPT ![req[r].site] = None]
        BY <1>4 DEF DeleteSite
    <2>2. \A q \in Sites : Exists(q)' => sites'[q] = sites[q]
        BY <1>t, <2>1 DEF Exists
    <2> QED
        BY <1>0, <2>1, <2>2 DEF Exists
<1>5. ASSUME NEW r \in Requests, CommitConfig(r)
      PROVE  \A q \in Sites : Exists(q)' => Last(q)'
    <2> PICK s \in Sites : s = req[r].site /\ s \in born
        BY <1>5 DEF CommitConfig, Base, RequestInv, Holds
    <2> PICK row : CommitsRow(r, row)
        BY <1>5, CommitIs
    <2>2. /\ minted' = minted \cup {row} /\ row.site = s /\ row.doc = req[r].new
          /\ row.id = Cardinality(minted) + 1
        BY DEF CommitsRow
    <2>3. \A m \in minted : m.id <= row.id
        <3>1. \A m \in minted : m.id < row.id
            BY <2>2, NewVersion
        <3>2. Cardinality(minted) \in Nat /\ \A m \in minted : m.id \in Nat
            BY <2>2, NewVersion DEF Base, TypeOK, VersionRow
        <3> QED
            BY <2>2, <3>1, <3>2
    <2>4. sites' = IF Exists(s) THEN [sites EXCEPT ![s].doc = req[r].new] ELSE sites
        BY <1>5 DEF CommitConfig
    <2>5. Exists(s)' => Last(s)'
        <3> SUFFICES ASSUME Exists(s)' PROVE Last(s)'
            OBVIOUS
        <3>1. Exists(s)
            BY <2>4 DEF Exists
        <3>2. sites[s] \in SiteRow
            BY <1>t, <3>1 DEF Exists
        <3>3. sites'[s].doc = row.doc
            BY <1>t, <2>2, <2>4, <3>1, <3>2 DEF SiteRow
        <3>4. row.id \in Nat
            BY FS_CardinalityType, <2>2 DEF Base, MintedInv
        <3>5. row \in Saved(s)' /\ \A w \in Saved(s)' : w.id <= row.id
            BY <2>2, <2>3, <3>4
        <3> QED
            BY <3>3, <3>5 DEF Last
    <2>6. \A q \in Sites \ {s} : sites'[q] = sites[q] /\ Saved(q)' = Saved(q)
        BY <1>t, <2>2, <2>4
    <2> QED
        BY <1>0, <2>5, <2>6 DEF Exists
<1>6. ASSUME NEW r \in Requests, NEW s \in Sites, NEW id \in 1..MaxArrivals, NEW o \in Operators,
             DeleteSiteVersion(r, s, id, o)
      PROVE  \A q \in Sites : Exists(q)' => Last(q)'
    BY <1>1, <1>6 DEF DeleteSiteVersion
<1> QED
    BY <1>1, <1>2, <1>3, <1>4, <1>5, <1>6, StoreSteps DEF store

(* At most KeepVersions versions of a site, and only old or deleted ones are gone.     *)
LEMMA VersionsKept == Base /\ OnlyOldVersionsGo /\ [Next]_vars => OnlyOldVersionsGo'
<1> SUFFICES ASSUME Base, OnlyOldVersionsGo, [Next]_vars PROVE OnlyOldVersionsGo'
    OBVIOUS
<1> DEFINE Rows(s) == {v \in versions : v.site = s}
           Newer(m) == {w \in minted : w.site = m.site /\ w.id # m.id /\ w.at >= m.at}
           Few(s)   == Cardinality(Rows(s)) <= KeepVersions
           Old(m)   == m.id \in removed \/ Cardinality(Newer(m)) >= KeepVersions
<1>t. /\ IsFiniteSet(minted) /\ versions \subseteq minted /\ minted \subseteq VersionRow
      /\ KeepVersions \in Nat \ {0}
    BY StoreAssumption DEF Base, TypeOK, MintedInv
<1>f. \A s \in Sites : IsFiniteSet(Rows(s)) /\ Cardinality(Rows(s)) \in Nat /\ Few(s)
    BY <1>t, FS_Subset, FS_CardinalityType DEF OnlyOldVersionsGo
<1>o. \A m \in minted \ versions : Old(m)
    BY DEF OnlyOldVersionsGo
<1>b. Base'
    BY BasePreserved
<1>n. minted \subseteq minted' /\ removed \subseteq removed' /\ IsFiniteSet(minted')
    BY <1>b, HistoryGrows DEF Base, MintedInv
<1>g. SUFFICES (\A s \in Sites : Few(s)') /\ (\A m \in minted' \ versions' : Old(m)')
    BY DEF OnlyOldVersionsGo
(* Fewer versions are still few, and what was old remains old.                      *)
<1>few. ASSUME NEW s \in Sites, Rows(s)' \subseteq Rows(s)
        PROVE  Few(s)'
    <2>1. Cardinality(Rows(s)') <= Cardinality(Rows(s)) /\ Cardinality(Rows(s)') \in Nat
        BY <1>f, <1>few, FS_Subset, FS_CardinalityType
    <2> QED
        BY <1>f, <1>t, <2>1
<1>old. ASSUME NEW m, Old(m)
        PROVE  Old(m)'
    <2>1. Newer(m) \subseteq Newer(m)' /\ IsFiniteSet(Newer(m)')
        BY <1>n, FS_Subset
    <2>2. Cardinality(Newer(m)) <= Cardinality(Newer(m)')
          /\ Cardinality(Newer(m)) \in Nat /\ Cardinality(Newer(m)') \in Nat
        BY <2>1, FS_Subset, FS_CardinalityType
    <2> QED
        BY <1>n, <1>old, <1>t, <2>2
<1> HIDE DEF Few, Old
<1>1. CASE UNCHANGED <<versions, minted>>
    BY <1>1, <1>few, <1>old, <1>o
<1>2. ASSUME NEW r \in Requests, NEW s \in Sites, NEW profile \in Profiles, NEW o \in Operators,
             CreateSite(r, s, profile, o)
      PROVE  (\A q \in Sites : Few(q)') /\ (\A m \in minted' \ versions' : Old(m)')
    BY <1>1, <1>2 DEF CreateSite
<1>3. ASSUME NEW r \in Requests, UpdateSite(r)
      PROVE  (\A q \in Sites : Few(q)') /\ (\A m \in minted' \ versions' : Old(m)')
    BY <1>1, <1>3 DEF UpdateSite, history
<1>4. ASSUME NEW r \in Requests, DeleteSite(r)
      PROVE  (\A q \in Sites : Few(q)') /\ (\A m \in minted' \ versions' : Old(m)')
    <2> DEFINE rows == {v \in versions : v.site = req[r].site}
    <2>1. /\ versions' = versions \ rows
          /\ removed' = removed \cup {v.id : v \in rows}
          /\ minted' = minted
        BY <1>4 DEF DeleteSite
    <2>2. \A m \in rows : Old(m)'
        BY <2>1 DEF Old
    <2> QED
        BY <1>few, <1>old, <1>o, <2>1, <2>2
<1>5. ASSUME NEW r \in Requests, CommitConfig(r)
      PROVE  (\A q \in Sites : Few(q)') /\ (\A m \in minted' \ versions' : Old(m)')
    <2> PICK s \in Sites : s = req[r].site /\ s \in born
        BY <1>5 DEF CommitConfig, Base, RequestInv, Holds
    <2> PICK row : CommitsRow(r, row)
        BY <1>5, CommitIs
    <2>1. /\ minted' = minted \cup {row} /\ row.site = s /\ row \in VersionRow
          /\ row.id = Cardinality(minted) + 1
        BY DEF CommitsRow
    <2> DEFINE all == VersionsOf(s) \cup {row}
    <2> PICK kept \in Keepings(all) : versions' = (versions \ VersionsOf(s)) \cup kept
        BY DEF CommitsRow
    <2>2. /\ kept \subseteq all
          /\ Cardinality(kept) = IF Cardinality(all) < KeepVersions
                                 THEN Cardinality(all) ELSE KeepVersions
          /\ \A v \in kept, w \in all \ kept : v.at >= w.at
        BY DEF Keepings
    <2>3. IsFiniteSet(all) /\ Cardinality(all) \in Nat
        <3>1. IsFiniteSet(VersionsOf(s))
            BY <1>t, FS_Subset DEF VersionsOf
        <3> QED
            BY <3>1, FS_AddElement, FS_CardinalityType
    <2>4. \A v \in all : v.site = s
        BY <2>1 DEF VersionsOf
    <2>5. \A q \in Sites : Few(q)'
        <3>1. Few(s)'
            <4>1. Rows(s)' = kept
                BY <2>2, <2>4 DEF VersionsOf
            <4>2. Cardinality(kept) <= KeepVersions
                BY <1>t, <2>2, <2>3
            <4> QED
                BY <4>1, <4>2 DEF Few
        <3>2. \A q \in Sites \ {s} : Rows(q)' \subseteq Rows(q)
            BY <2>2, <2>4
        <3> QED
            BY <1>few, <3>1, <3>2
    <2>6. ASSUME NEW m \in all \ kept
          PROVE  Old(m)'
        <3>1. Cardinality(kept) = KeepVersions
            <4>1. CASE Cardinality(all) < KeepVersions
                <5>1. Cardinality(kept) = Cardinality(all)
                    BY <2>2, <4>1
                <5>2. kept = all
                    BY <2>2, <2>3, <5>1, FS_Subset
                <5> QED
                    BY <2>6, <5>2
            <4> QED
                BY <2>2, <4>1
        <3>2. kept \subseteq Newer(m)'
            <4> SUFFICES ASSUME NEW v \in kept PROVE v \in Newer(m)'
                OBVIOUS
            <4>1. v \in minted' /\ m \in minted' /\ v # m
                BY <1>t, <2>1, <2>2 DEF VersionsOf
            <4>2. v.id # m.id
                BY <1>b, <4>1 DEF Base, MintedInv
            <4> QED
                BY <2>2, <2>4, <4>1, <4>2
        <3>3. IsFiniteSet(Newer(m)')
            BY <1>n, FS_Subset
        <3>4. Cardinality(kept) <= Cardinality(Newer(m)')
            BY <3>2, <3>3, FS_Subset
        <3> QED
            BY <3>1, <3>4 DEF Old
    <2>7. \A m \in minted' \ versions' : m \in all \ kept \/ m \in minted \ versions
        BY <2>1 DEF VersionsOf
    <2> QED
        BY <1>old, <1>o, <2>5, <2>6, <2>7
<1>6. ASSUME NEW r \in Requests, NEW s \in Sites, NEW id \in 1..MaxArrivals, NEW o \in Operators,
             DeleteSiteVersion(r, s, id, o)
      PROVE  (\A q \in Sites : Few(q)') /\ (\A m \in minted' \ versions' : Old(m)')
    <2> PICK v \in versions : v.id = id /\ versions' = versions \ {v}
        BY <1>6 DEF DeleteSiteVersion, VersionsOf
    <2>1. removed' = removed \cup {id} /\ minted' = minted
        BY <1>6 DEF DeleteSiteVersion
    <2>2. Old(v)'
        BY <2>1 DEF Old
    <2> QED
        BY <1>few, <1>old, <1>o, <2>1, <2>2
<1> QED
    BY <1>1, <1>2, <1>3, <1>4, <1>5, <1>6, StoreSteps DEF store

-----------------------------------------------------------------------------
(***************************************************************************)
(* The audit trail                                                          *)
(***************************************************************************)

(* What an audit row says, or will say when its request has written it.  A site that *)
(* was created and is gone stays gone.                                             *)
IsTrue(e) ==
    /\ e.action \in {"config", "rollback"} =>
          \E m \in minted : m.id = e.version /\ m.site = e.site /\ m.operator = e.operator
    /\ e.action = "versionDelete" =>
          e.version \in removed /\ \E m \in minted : m.id = e.version /\ m.site = e.site
    /\ e.action = "delete" => e.site \in born /\ ~Exists(e.site)

AuditInv ==
    /\ \A e \in audits : IsTrue(e)
    /\ \A r \in Requests : req[r].pc = "audit" => IsTrue(req[r])

(* What is true once stays true.                                                  *)
LEMMA TruthStays ==
    ASSUME Base, [Next]_vars, NEW e, IsTrue(e), NEW f,
           f.action = e.action, f.site = e.site, f.version = e.version, f.operator = e.operator
    PROVE  /\ f.action \in {"config", "rollback"} =>
                 \E m \in minted' : m.id = f.version /\ m.site = f.site /\ m.operator = f.operator
           /\ f.action = "versionDelete" =>
                 f.version \in removed' /\ \E m \in minted' : m.id = f.version /\ m.site = f.site
           /\ f.action = "delete" => f.site \in born' /\ ~Exists(f.site)'
BY HistoryGrows, SitesPreserved DEF IsTrue, Exists

(* Only SaveAudit writes audit rows.                                              *)
LEMMA AuditSteps ==
    [Next]_vars => UNCHANGED audits \/ \E r \in Requests, logged \in BOOLEAN : SaveAudit(r, logged)
<1>1. CASE UNCHANGED vars
    BY <1>1 DEF vars, tables
<1>2. ASSUME Tick \/ \E k \in Keys \cup {None} : Restart(k)
      PROVE  UNCHANGED audits
    BY <1>2 DEF Tick, Restart, tables
<1>3. ASSUME NEW r \in Requests, NEW o \in Operators, Begin(r, o)
      PROVE  UNCHANGED audits
    BY <1>3 DEF Begin, CreateSite, UpdateSiteRead, DeleteSiteRead, PutConfig, RollbackRead,
                DeleteSiteVersion, UpdateSiteLogStream, tables
<1>4. ASSUME NEW r \in Requests,
             UpdateSite(r) \/ DeleteSite(r) \/ RollbackMerge(r) \/ CommitConfig(r) \/ Fail(r)
      PROVE  UNCHANGED audits
    BY <1>4 DEF UpdateSite, DeleteSite, RollbackMerge, CommitConfig, Fail, tables
<1> QED
    BY <1>1, <1>2, <1>3, <1>4 DEF Next, Continue

LEMMA AuditPreserved == Base /\ AuditInv /\ [Next]_vars => AuditInv'
<1> SUFFICES ASSUME Base, AuditInv, [Next]_vars PROVE AuditInv'
    OBVIOUS
<1>t. req \in [Requests -> RequestState]
    BY DEF Base, TypeOK
<1>1. ASSUME NEW e \in audits'
      PROVE  IsTrue(e)'
    <2>1. CASE e \in audits
        BY <2>1, TruthStays DEF AuditInv, IsTrue
    <2>2. ASSUME NEW r \in Requests, NEW logged \in BOOLEAN, SaveAudit(r, logged), e \notin audits
          PROVE  IsTrue(e)'
        <3>1. /\ e.action = req[r].action /\ e.site = req[r].site
              /\ e.version = req[r].version /\ e.operator = req[r].operator
            BY <2>2 DEF SaveAudit
        <3>2. IsTrue(req[r])
            BY <2>2 DEF SaveAudit, AuditInv
        <3> QED
            BY <3>1, <3>2, TruthStays DEF IsTrue
    <2> QED
        BY <2>1, <2>2, AuditSteps
<1>2. ASSUME NEW q \in Requests, req'[q].pc = "audit"
      PROVE  IsTrue(req[q])'
    <2>h. Holds(req[q])
        BY DEF Base, RequestInv
    <2>1. CASE Kept(q)
        <3>1. IsTrue(req[q])
            BY <1>t, <1>2, <2>1, KeptFields DEF AuditInv
        <3> QED
            BY <1>t, <2>1, <3>1, KeptFields, TruthStays DEF IsTrue
    <2>2. ASSUME NEW o \in Operators, Begin(q, o)
          PROVE  IsTrue(req[q])'
        <3>1. CASE req'[q].action \in {"create", "stream"}
            BY <3>1 DEF IsTrue
        <3>2. ASSUME NEW s \in Sites, NEW id \in 1..MaxArrivals, DeleteSiteVersion(q, s, id, o),
                     req'[q].action = "versionDelete", req'[q].site = s, req'[q].version = id
              PROVE  IsTrue(req[q])'
            <4>1. \E v \in versions : v.id = id /\ v.site = s
                BY <3>2 DEF DeleteSiteVersion, VersionsOf
            <4>2. \E v \in minted' : v.id = id /\ v.site = s
                BY <4>1, HistoryGrows DEF Base, TypeOK
            <4>3. id \in removed'
                BY <3>2 DEF DeleteSiteVersion
            <4> QED
                BY <3>2, <4>2, <4>3 DEF IsTrue
        <3> QED
            BY <1>t, <1>2, <2>2, <3>1, <3>2, BeginIs
    <2>3. CASE UpdateSite(q)
        <3>1. req'[q].action = "update"
            BY <1>t, <2>3, <2>h, BecomeIs, ToAuditIs DEF UpdateSite, Holds
        <3> QED
            BY <3>1 DEF IsTrue
    <2>4. CASE DeleteSite(q)
        <3> PICK s \in born : s = req[q].site
            BY <2>4, <2>h DEF DeleteSite, Holds
        <3>1. req'[q].action = "delete" /\ req'[q].site = s
            BY <1>t, <2>4, <2>h, BecomeIs, ToAuditIs DEF DeleteSite, Holds
        <3>2. sites'[s] = None /\ s \in born'
            BY <2>4 DEF DeleteSite, Base, TypeOK
        <3> QED
            BY <3>1, <3>2 DEF IsTrue, Exists
    <2>5. CASE CommitConfig(q)
        <3> PICK row : CommitsRow(q, row)
            BY <2>5, CommitIs
        <3>1. req'[q] = ToAudit(req[q], Cardinality(minted) + 1)
            BY <2>5, CommitIs
        <3>2. /\ req'[q].action = req[q].action /\ req'[q].site = req[q].site
              /\ req'[q].operator = req[q].operator /\ req'[q].version = Cardinality(minted) + 1
            BY <3>1, ToAuditIs
        <3>3. /\ row \in minted' /\ row.id = Cardinality(minted) + 1 /\ row.site = req[q].site
              /\ row.operator = req[q].operator
            BY DEF CommitsRow
        <3>4. req[q].action \in {"config", "rollback"}
            BY <2>5, <2>h DEF CommitConfig, Holds
        <3> QED
            BY <3>2, <3>3, <3>4 DEF IsTrue
    <2>6. RollbackMerge(q) => req'[q] = Idle \/ req'[q].pc = "commit"
        BY <1>t, RollbackMergeIs
    <2> QED
        BY <1>t, <1>2, <2>1, <2>2, <2>3, <2>4, <2>5, <2>6, RequestSteps DEF Idle
<1> QED
    BY <1>1, <1>2 DEF AuditInv

-----------------------------------------------------------------------------
(***************************************************************************)
(* Updates and rollbacks                                                    *)
(***************************************************************************)

(* What a PUT will write has the sent secrets, sealed under the present key, and the  *)
(* stored ones in the place of blank ones, unless the row changed since the read.     *)
WillKeep(l) ==
    l.pc = "commit" /\ l.action = "config" =>
       /\ DOMAIN l.new.secrets = DOMAIN l.sent.secrets
       /\ \A p \in DOMAIN l.sent.secrets :
             /\ l.sent.secrets[p] \in Plains =>
                   key \in Keys /\ l.new.secrets[p] = [key |-> key, plain |-> l.sent.secrets[p]]
             /\ /\ ~l.overtaken
                /\ Exists(l.site)
                /\ l.sent.secrets[p] = Blank
                /\ p \in DOMAIN sites[l.site].doc.secrets
                => l.new.secrets[p] = sites[l.site].doc.secrets[p]

(* The document d is what the key opens of old.                                    *)
IsOpened(d, old) ==
    /\ d.text = old.text
    /\ DOMAIN d.secrets = DOMAIN old.secrets
    /\ \A p \in DOMAIN old.secrets : d.secrets[p] = Opened(old.secrets[p])

(* The document new is old again, as far as the key opens it.                      *)
Restores(new, old) ==
    /\ new.text = old.text
    /\ DOMAIN new.secrets = DOMAIN old.secrets
    /\ \A p \in DOMAIN new.secrets :
          Opened(old.secrets[p]) # Blank => Opened(new.secrets[p]) = Opened(old.secrets[p])

(* What a rollback carries is its version, opened; what it will write restores it.    *)
WillRestore(l) ==
    /\ l.pc = "merge" => \E m \in minted : m.id = l.version /\ IsOpened(l.sent, m.doc)
    /\ l.pc = "commit" /\ l.action = "rollback" =>
          \E m \in minted : m.id = l.version /\ Restores(l.new, m.doc)

MergeInv == \A r \in Requests : WillKeep(req[r]) /\ WillRestore(req[r])

(* The key changes only with the process, which forgets its requests.                *)
LEMMA KeySteps ==
    [Next]_vars => key' = key \/ \A q \in Requests : req'[q] = Idle
<1>1. CASE UNCHANGED vars
    BY <1>1 DEF vars
<1>2. CASE Tick
    BY <1>2 DEF Tick
<1>3. ASSUME NEW k \in Keys \cup {None}, Restart(k)
      PROVE  \A q \in Requests : req'[q] = Idle
    BY <1>3 DEF Restart
<1>4. ASSUME NEW r \in Requests, NEW o \in Operators, Begin(r, o)
      PROVE  key' = key
    BY <1>4 DEF Begin, CreateSite, UpdateSiteRead, DeleteSiteRead, PutConfig, RollbackRead,
                DeleteSiteVersion, UpdateSiteLogStream
<1>5. ASSUME NEW r \in Requests, Continue(r)
      PROVE  key' = key
    BY <1>5 DEF Continue, UpdateSite, DeleteSite, RollbackMerge, CommitConfig, SaveAudit, Fail
<1> QED
    BY <1>1, <1>2, <1>3, <1>4, <1>5 DEF Next

(* A request that is about to commit and has not been told of a change has missed none. *)
LEMMA NotOvertaken ==
    ASSUME Base, [Next]_vars, NEW q \in Requests, Kept(q), req[q].pc = "commit",
           ~req'[q].overtaken
    PROVE  sites'[req[q].site] = sites[req[q].site]
<1> DEFINE s == req[q].site
<1>t. /\ req \in [Requests -> RequestState]
      /\ sites \in [Sites -> {None} \cup SiteRow]
      /\ s \in Sites /\ s \in born
      /\ req'[q].pc = "commit"
    BY KeptFields DEF Base, TypeOK, RequestInv, Holds
<1>1. CASE UNCHANGED store
    BY <1>1 DEF store
<1>2. ASSUME NEW r \in Requests, NEW t \in Sites, NEW profile \in Profiles, NEW o \in Operators,
             CreateSite(r, t, profile, o)
      PROVE  sites'[s] = sites[s]
    BY <1>t, <1>2 DEF CreateSite
<1>3. ASSUME NEW r \in Requests, UpdateSite(r) \/ DeleteSite(r) \/ CommitConfig(r)
      PROVE  sites'[s] = sites[s]
    <2>1. PICK v : BecomeAfterWrite(r, ToAudit(req[r], v))
        BY <1>3 DEF UpdateSite, DeleteSite, CommitConfig
    <2>2. r # q
        BY <1>t, <2>1, BecomeIs, ToAuditIs
    <2>3. req[r].site # s
        <3>1. req'[q] = IF req[q].site = ToAudit(req[r], v).site
                        THEN [req[q] EXCEPT !.overtaken = TRUE] ELSE req[q]
            BY <2>1, <2>2 DEF BecomeAfterWrite
        <3>2. [req[q] EXCEPT !.overtaken = TRUE].overtaken
            BY <1>t DEF RequestState
        <3> QED
            BY <3>1, <3>2, ToAuditIs
    <2> QED
        BY <1>t, <1>3, <2>3 DEF UpdateSite, DeleteSite, CommitConfig
<1>4. ASSUME NEW r \in Requests, NEW t \in Sites, NEW id \in 1..MaxArrivals, NEW o \in Operators,
             DeleteSiteVersion(r, t, id, o)
      PROVE  sites'[s] = sites[s]
    BY <1>4 DEF DeleteSiteVersion
<1> QED
    BY <1>1, <1>2, <1>3, <1>4, StoreSteps

LEMMA KeepPreserved ==
    ASSUME Base, MergeInv, [Next]_vars, NEW q \in Requests
    PROVE  WillKeep(req[q])'
<1>t. req \in [Requests -> RequestState]
    BY DEF Base, TypeOK
<1>1. CASE Kept(q) /\ req[q].pc = "commit"
    <2>1. /\ req'[q].pc = "commit" /\ req'[q].action = req[q].action /\ req'[q].site = req[q].site
          /\ req'[q].sent = req[q].sent /\ req'[q].new = req[q].new
          /\ req[q].overtaken => req'[q].overtaken
        BY <1>t, <1>1, KeptFields
    <2>2. key' = key
        BY <2>1, KeySteps DEF Idle
    <2>3. ~req'[q].overtaken => sites'[req[q].site] = sites[req[q].site]
        BY <1>1, NotOvertaken
    <2> SUFFICES ASSUME req[q].action = "config"
                 PROVE  WillKeep(req[q])'
        BY <2>1 DEF WillKeep
    <2> DEFINE sent == req[q].sent.secrets
               new  == req[q].new.secrets
               s    == req[q].site
    <2>4. /\ DOMAIN new = DOMAIN sent
          /\ \A p \in DOMAIN sent :
                /\ sent[p] \in Plains => key \in Keys /\ new[p] = [key |-> key, plain |-> sent[p]]
                /\ /\ ~req[q].overtaken /\ Exists(s)
                   /\ sent[p] = Blank /\ p \in DOMAIN sites[s].doc.secrets
                   => new[p] = sites[s].doc.secrets[p]
        BY <1>1 DEF MergeInv, WillKeep
    <2>5. ASSUME NEW p \in DOMAIN sent, ~req'[q].overtaken, sites'[s] # None,
                 sent[p] = Blank, p \in DOMAIN sites'[s].doc.secrets
          PROVE  new[p] = sites'[s].doc.secrets[p]
        <3>1. ~req[q].overtaken /\ sites'[s] = sites[s]
            BY <2>1, <2>3, <2>5
        <3> QED
            BY <2>4, <2>5, <3>1 DEF Exists
    <2>6. sent' = sent /\ new' = new /\ s' = s
        BY <2>1
    <2> QED
        BY <2>2, <2>4, <2>5, <2>6 DEF WillKeep, Exists
<1>2. CASE Kept(q) /\ req[q].pc # "commit"
    BY <1>t, <1>2, KeptFields DEF WillKeep
<1>3. CASE req'[q] = Idle
    BY <1>3 DEF WillKeep, Idle
<1>4. ASSUME NEW o \in Operators, NEW s \in Sites, NEW d \in Documents, PutConfig(q, s, d, o),
             req'[q].sent = d, req'[q].site = s, req'[q].new = Merged(sites[s].doc, d)
      PROVE  WillKeep(req[q])'
    <2>1. Exists(s) /\ Mergeable(d) /\ d \in Open
        BY <1>4, StoreAssumption DEF PutConfig
    <2>2. sites[s].doc \in AnyDoc /\ key \in Keys \cup {None}
        BY <2>1 DEF Base, TypeOK, Exists, SiteRow
    <2>3. sites' = sites /\ key' = key
        BY <1>4 DEF PutConfig, tables
    <2>4. ASSUME NEW p \in DOMAIN d.secrets, d.secrets[p] \in Plains
          PROVE  key \in Keys
                 /\ Merged(sites[s].doc, d).secrets[p] = [key |-> key, plain |-> d.secrets[p]]
        <3>1. d.secrets[p] \notin {Blank, Foreign}
            BY <2>4, StoreAssumption
        <3> QED
            BY <2>1, <2>2, <3>1, MergedIs
    <2>5. /\ DOMAIN Merged(sites[s].doc, d).secrets = DOMAIN d.secrets
          /\ \A p \in DOMAIN d.secrets :
                d.secrets[p] = Blank /\ p \in DOMAIN sites[s].doc.secrets =>
                   Merged(sites[s].doc, d).secrets[p] = sites[s].doc.secrets[p]
        BY <2>1, <2>2, MergedIs
    <2> QED
        BY <1>4, <2>3, <2>4, <2>5 DEF WillKeep
<1>5. ASSUME NEW o \in Operators, Begin(q, o)
      PROVE  WillKeep(req[q])'
    BY <1>t, <1>4, <1>5, BeginIs DEF WillKeep
<1>6. ASSUME UpdateSite(q) \/ DeleteSite(q) \/ CommitConfig(q)
      PROVE  WillKeep(req[q])'
    <2>1. \E l, v : BecomeAfterWrite(q, ToAudit(l, v))
        BY <1>6 DEF UpdateSite, DeleteSite, CommitConfig
    <2> QED
        BY <1>t, <2>1, BecomeIs, ToAuditIs DEF WillKeep
<1>7. ASSUME RollbackMerge(q)
      PROVE  WillKeep(req[q])'
    <2>1. req[q].action = "rollback"
        BY <1>7 DEF RollbackMerge, Base, RequestInv, Holds
    <2> QED
        BY <1>t, <1>3, <1>7, <2>1, RollbackMergeIs DEF WillKeep
<1> QED
    BY <1>t, <1>1, <1>2, <1>3, <1>5, <1>6, <1>7, RequestSteps

(* Merging what the key opens of a version restores the version.                     *)
LEMMA MergedRestores ==
    ASSUME NEW old \in AnyDoc, NEW new \in Open, Mergeable(new), key \in Keys \cup {None},
           NEW d \in AnyDoc, IsOpened(new, d)
    PROVE  Restores(Merged(old, new), d)
<1>1. SUFFICES ASSUME NEW p \in DOMAIN new.secrets, Opened(d.secrets[p]) # Blank
               PROVE  Opened(Merged(old, new).secrets[p]) = Opened(d.secrets[p])
    BY MergedIs DEF Restores, IsOpened
<1>2. new.secrets[p] = Opened(d.secrets[p]) /\ p \in DOMAIN d.secrets
    BY DEF IsOpened
<1>3. new.secrets[p] \in Plains /\ new.secrets[p] \notin {Blank, Foreign}
    <2>1. d.secrets[p] \in Secrets
        BY <1>2, DocElim DEF AnyDoc, Secrets
    <2>2. Opened(d.secrets[p]) \in Plains
        BY <1>1, <2>1, OpenedRange
    <2> QED
        BY <1>2, <2>2, StoreAssumption
<1>4. key \in Keys /\ Merged(old, new).secrets[p] = [key |-> key, plain |-> new.secrets[p]]
    BY <1>3, MergedIs
<1>5. Opened([key |-> key, plain |-> new.secrets[p]]) = new.secrets[p]
    BY <1>3, <1>4 DEF Opened, Sealed
<1> QED
    BY <1>2, <1>4, <1>5

LEMMA RestorePreserved ==
    ASSUME Base, MergeInv, [Next]_vars, NEW q \in Requests
    PROVE  WillRestore(req[q])'
<1>t. req \in [Requests -> RequestState] /\ key \in Keys \cup {None} /\ minted \subseteq minted'
    BY HistoryGrows DEF Base, TypeOK
<1>1. CASE Kept(q) /\ req[q].pc # "idle"
    <2>1. /\ req'[q].pc = req[q].pc /\ req'[q].action = req[q].action
          /\ req'[q].sent = req[q].sent /\ req'[q].new = req[q].new
          /\ req'[q].version = req[q].version
        BY <1>t, <1>1, KeptFields
    <2>2. key' = key
        BY <1>1, <2>1, KeySteps DEF Idle
    <2> QED
        BY <1>t, <2>1, <2>2 DEF MergeInv, WillRestore, Restores, IsOpened, Opened
<1>2. CASE Kept(q) /\ req[q].pc = "idle"
    BY <1>t, <1>2, KeptFields DEF WillRestore
<1>3. CASE req'[q] = Idle
    BY <1>3 DEF WillRestore, Idle
<1>4. ASSUME NEW o \in Operators, Begin(q, o), NEW s \in Sites, NEW v \in VersionsOf(s),
             req'[q].pc = "merge", req'[q].sent = OpenedDoc(v.doc), req'[q].version = v.id
      PROVE  WillRestore(req[q])'
    <2>1. v \in minted' /\ v.doc \in AnyDoc
        BY <1>t DEF VersionsOf, Base, TypeOK, VersionRow
    <2>2. key' = key
        BY <1>4, KeySteps DEF Idle
    <2>3. IsOpened(OpenedDoc(v.doc), v.doc)
        BY <2>1, OpenedDocIs DEF IsOpened
    <2>4. IsOpened(req[q].sent, v.doc)'
        BY <1>4, <2>2, <2>3 DEF IsOpened, Opened
    <2> QED
        BY <1>4, <2>1, <2>4 DEF WillRestore
<1>5. ASSUME NEW o \in Operators, Begin(q, o)
      PROVE  WillRestore(req[q])'
    BY <1>t, <1>4, <1>5, BeginIs DEF WillRestore
<1>6. ASSUME UpdateSite(q) \/ DeleteSite(q) \/ CommitConfig(q)
      PROVE  WillRestore(req[q])'
    <2>1. \E l, v : BecomeAfterWrite(q, ToAudit(l, v))
        BY <1>6 DEF UpdateSite, DeleteSite, CommitConfig
    <2> QED
        BY <1>t, <2>1, BecomeIs, ToAuditIs DEF WillRestore
<1>7. CASE RollbackMerge(q) /\ req'[q] # Idle
    <2> DEFINE s == req[q].site
    <2>1. /\ Exists(s) /\ Mergeable(req[q].sent)
          /\ req'[q].pc = "commit" /\ req'[q].version = req[q].version
          /\ req'[q].new = Merged(sites[s].doc, req[q].sent)
        BY <1>t, <1>7, RollbackMergeIs
    <2>2. req[q].pc = "merge" /\ s \in Sites /\ req[q].sent \in Open
        BY <1>7 DEF RollbackMerge, Base, RequestInv, Holds
    <2>3. sites[s].doc \in AnyDoc
        BY <2>1, <2>2 DEF Base, TypeOK, Exists, SiteRow
    <2> PICK m \in minted : m.id = req[q].version /\ IsOpened(req[q].sent, m.doc)
        BY <2>2 DEF MergeInv, WillRestore
    <2>4. m.doc \in AnyDoc
        BY DEF Base, TypeOK, VersionRow
    <2>5. Restores(req'[q].new, m.doc)
        BY <1>t, <2>1, <2>2, <2>3, <2>4, MergedRestores
    <2>6. key' = key
        BY <1>7, KeySteps
    <2>7. Restores(req[q].new, m.doc)'
        BY <2>5, <2>6 DEF Restores, Opened
    <2> QED
        BY <1>t, <2>1, <2>7 DEF WillRestore
<1> QED
    BY <1>t, <1>1, <1>2, <1>3, <1>5, <1>6, <1>7, RequestSteps

-----------------------------------------------------------------------------
(***************************************************************************)
(* The theorems                                                             *)
(***************************************************************************)
IInv == Base /\ SecretInv /\ LiveIsLastSaved /\ OnlyOldVersionsGo /\ AuditInv /\ MergeInv

LEMMA InitHolds == Init => IInv
<1> SUFFICES ASSUME Init PROVE IInv
    OBVIOUS
<1> PICK profile \in Profiles :
       sites = [s \in Sites |->
                  IF s \in InitialSites THEN [profile |-> profile, doc |-> EmptyDoc] ELSE None]
    BY DEF Init
<1>1. \A s \in Sites : Exists(s) => sites[s].doc = EmptyDoc
    BY DEF Exists
<1>2. minted = {} /\ versions = {} /\ audits = {} /\ \A r \in Requests : req[r].pc = "idle"
    BY DEF Init, Idle
<1>3. SecretInv
    BY <1>1, <1>2, EmptyDocType DEF SecretInv, SecretsHeld, DocSealed
<1>4. LiveIsLastSaved
    BY <1>1, <1>2 DEF LiveIsLastSaved
<1>5. OnlyOldVersionsGo
    <2>1. \A s \in Sites : {v \in versions : v.site = s} = {}
        BY <1>2
    <2>2. 0 <= KeepVersions
        BY StoreAssumption
    <2> QED
        BY <1>2, <2>1, <2>2, FS_EmptySet DEF OnlyOldVersionsGo
<1>6. AuditInv
    BY <1>2 DEF AuditInv
<1>7. MergeInv
    BY <1>2 DEF MergeInv, WillKeep, WillRestore
<1> QED
    BY <1>3, <1>4, <1>5, <1>6, <1>7, InitBase DEF IInv

LEMMA StepHolds == IInv /\ [Next]_vars => IInv'
<1> SUFFICES ASSUME IInv, [Next]_vars PROVE IInv'
    OBVIOUS
<1>1. Base' /\ SecretInv' /\ LiveIsLastSaved' /\ OnlyOldVersionsGo' /\ AuditInv'
    BY BasePreserved, SecretsPreserved, LivePreserved, VersionsKept, AuditPreserved DEF IInv
<1>2. MergeInv'
    <2> SUFFICES ASSUME NEW q \in Requests
                 PROVE  WillKeep(req[q])' /\ WillRestore(req[q])'
        BY DEF MergeInv
    <2> QED
        BY KeepPreserved, RestorePreserved DEF IInv
<1> QED
    BY <1>1, <1>2 DEF IInv

(* The inductive invariant: tables, requests and history are well formed, what       *)
(* requests hold and what versions keep is sealed, and each request carries what its  *)
(* read found.                                                                      *)
THEOREM Invariance == Spec => []IInv
<1>1. Init => IInv
    BY InitHolds
<1>2. IInv /\ [Next]_vars => IInv'
    BY StepHolds
<1> QED
    BY <1>1, <1>2, PTL DEF Spec

(* Whatever the handlers do, with failures and restarts in between, the tables and    *)
(* the states of the requests are well formed (sites, site_versions, audit_logs).     *)
THEOREM TypeCorrect == Spec => []TypeOK
<1>1. IInv => TypeOK
    BY DEF IInv, Base
<1> QED
    BY <1>1, Invariance, PTL

(* No document in the tables holds a secret in the clear: each is blank, foreign, or  *)
(* sealed (mergeAndEncryptCDNSecrets).                                               *)
THEOREM SecretsSealed == Spec => []SecretsAreSealed
<1>1. IInv => SecretsAreSealed
    <2> SUFFICES ASSUME IInv, NEW s \in Sites, NEW d \in DocsOf(s), NEW p \in DOMAIN d.secrets
                 PROVE  d.secrets[p] \notin Plains
        BY DEF SecretsAreSealed
    <2>1. DocSealed(typed, s, d)
        BY DEF IInv, Base, TypeOK, SecretInv, DocsOf
    <2> QED
        BY <2>1, StoreAssumption DEF DocSealed, SealedFor
<1> QED
    BY <1>1, Invariance, PTL

(* What a provider's client is handed was typed for this provider of this site, or is  *)
(* blank (applyDecryptedCDNSecrets), whatever key the process has by now.              *)
THEOREM SecretsGenuine == Spec => []SecretIsGenuine
<1>1. IInv => SecretIsGenuine
    <2> SUFFICES ASSUME IInv, NEW s \in Sites, NEW d \in DocsOf(s), NEW p \in DOMAIN d.secrets
                 PROVE  \/ Opened(d.secrets[p]) = Blank
                        \/ [site |-> s, provider |-> p, plain |-> Opened(d.secrets[p])] \in typed
        BY DEF SecretIsGenuine
    <2>1. SealedFor(typed, s, p, d.secrets[p])
        BY DEF IInv, Base, TypeOK, SecretInv, DocsOf, DocSealed
    <2> QED
        BY <2>1, StoreAssumption DEF SealedFor, Opened
<1> QED
    BY <1>1, Invariance, PTL

(* Row and version change in one transaction: the configuration in force is the one    *)
(* of the last version saved (UpdateSiteConfig).                                      *)
THEOREM LiveLastSaved == Spec => []LiveIsLastSaved
<1>1. IInv => LiveIsLastSaved
    BY DEF IInv
<1> QED
    BY <1>1, Invariance, PTL

(* Pruning keeps the newest versions, and no more than KeepVersions of a site: the      *)
(* DELETE of UpdateSiteConfig, for every number of versions of the same second.         *)
THEOREM OldVersionsGo == Spec => []OnlyOldVersionsGo
<1>1. IInv => OnlyOldVersionsGo
    BY DEF IInv
<1> QED
    BY <1>1, Invariance, PTL

(* Every row that SaveAudit writes says what happened, and stays true.                  *)
THEOREM AuditTrue == Spec => []AuditIsTrue
<1>1. IInv => AuditIsTrue
    BY DEF IInv, AuditInv, IsTrue, AuditIsTrue
<1> QED
    BY <1>1, Invariance, PTL

(* The step that puts a configuration in force is the commit of its request.            *)
LEMMA InForceIs ==
    ASSUME IInv, [Next]_vars, NEW r \in Requests, PutsInForce(r)
    PROVE  /\ req[r].site \in Sites /\ req[r].pc = "commit"
           /\ sites'[req[r].site].doc = req[r].new
<1>t. /\ req \in [Requests -> RequestState]
      /\ sites \in [Sites -> {None} \cup SiteRow]
      /\ req[r].pc = "commit" /\ req'[r].pc = "audit" /\ Exists(req[r].site)
      /\ req[r].site \in Sites
    BY DEF IInv, Base, TypeOK, RequestInv, Holds, PutsInForce
<1>1. CommitConfig(r)
    <2>1. ~Kept(r)
        BY <1>t, KeptFields
    <2>2. ASSUME NEW o \in Operators PROVE ~Begin(r, o)
        BY <1>t DEF Begin, CreateSite, UpdateSiteRead, DeleteSiteRead, PutConfig, RollbackRead,
                    DeleteSiteVersion, UpdateSiteLogStream, Arrive
    <2>3. req'[r] # Idle
        BY <1>t DEF Idle
    <2>4. ~UpdateSite(r) /\ ~DeleteSite(r) /\ ~RollbackMerge(r)
        BY <1>t DEF UpdateSite, DeleteSite, RollbackMerge
    <2> QED
        BY <1>t, <2>1, <2>2, <2>3, <2>4, RequestSteps
<1>2. sites[req[r].site] \in SiteRow
    BY <1>t DEF Exists
<1>3. sites' = [sites EXCEPT ![req[r].site].doc = req[r].new]
    BY <1>t, <1>1 DEF CommitConfig
<1> QED
    BY <1>t, <1>2, <1>3 DEF SiteRow

(* A PUT that no other change overtook stores every secret that was typed in it and     *)
(* keeps the stored one in the place of every blank one (mergeAndEncryptCDNSecrets).    *)
THEOREM KeepSecrets == Spec => UpdatesKeepSecrets
<1> DEFINE Keeps ==
    \A r \in Requests :
       PutsInForce(r) /\ req[r].action = "config" /\ ~req[r].overtaken =>
          LET s      == req[r].site
              sent   == req[r].sent.secrets
              before == sites[s].doc.secrets
              after  == sites'[s].doc.secrets
          IN /\ DOMAIN after = DOMAIN sent
             /\ \A p \in DOMAIN sent :
                   /\ sent[p] \in Plains => Opened(after[p]) = sent[p]
                   /\ sent[p] = Blank /\ p \in DOMAIN before => after[p] = before[p]
<1>1. IInv /\ [Next]_vars => Keeps
    <2> SUFFICES ASSUME IInv, [Next]_vars, NEW r \in Requests, PutsInForce(r),
                        req[r].action = "config", ~req[r].overtaken
                 PROVE  LET s      == req[r].site
                            sent   == req[r].sent.secrets
                            before == sites[s].doc.secrets
                            after  == sites'[s].doc.secrets
                        IN /\ DOMAIN after = DOMAIN sent
                           /\ \A p \in DOMAIN sent :
                                 /\ sent[p] \in Plains => Opened(after[p]) = sent[p]
                                 /\ sent[p] = Blank /\ p \in DOMAIN before => after[p] = before[p]
        OBVIOUS
    <2>1. WillKeep(req[r])
        BY DEF IInv, MergeInv
    <2>2. /\ req[r].pc = "commit" /\ Exists(req[r].site)
          /\ sites'[req[r].site].doc = req[r].new
        BY InForceIs DEF PutsInForce
    <2>3. \A x \in Plains : key \in Keys => Opened([key |-> key, plain |-> x]) = x
        BY DEF Opened, Sealed
    <2> QED
        BY <2>1, <2>2, <2>3 DEF WillKeep
<1> HIDE DEF Keeps
<1>2. [][Keeps]_vars => UpdatesKeepSecrets
    BY DEF UpdatesKeepSecrets, Keeps
<1> QED
    BY <1>1, <1>2, Invariance, PTL DEF Spec

(* A rollback puts its version in force again, with every secret that the key still      *)
(* opens (RollbackSiteVersion opens the version and UpdateSiteConfig seals it).           *)
THEOREM Restoration == Spec => RollbackRestores
<1> DEFINE Restored ==
    \A r \in Requests :
       PutsInForce(r) /\ req[r].action = "rollback" =>
          \E m \in minted :
             /\ m.id = req[r].version
             /\ LET after == sites'[req[r].site].doc IN
                /\ after.text = m.doc.text
                /\ DOMAIN after.secrets = DOMAIN m.doc.secrets
                /\ \A p \in DOMAIN after.secrets :
                      Opened(m.doc.secrets[p]) # Blank =>
                         Opened(after.secrets[p]) = Opened(m.doc.secrets[p])
<1>1. IInv /\ [Next]_vars => Restored
    <2> SUFFICES ASSUME IInv, [Next]_vars, NEW r \in Requests, PutsInForce(r),
                        req[r].action = "rollback"
                 PROVE  \E m \in minted :
                           m.id = req[r].version /\ Restores(sites'[req[r].site].doc, m.doc)
        BY DEF Restores
    <2>1. WillRestore(req[r])
        BY DEF IInv, MergeInv
    <2> QED
        BY <2>1, InForceIs DEF WillRestore
<1> HIDE DEF Restored
<1>2. [][Restored]_vars => RollbackRestores
    BY DEF RollbackRestores, Restored
<1> QED
    BY <1>1, <1>2, Invariance, PTL DEF Spec

=============================================================================
