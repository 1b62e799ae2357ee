------------------------------- MODULE SiteStore -------------------------------
(***************************************************************************)
(* Sites, their configurations and versions: the statements that the admin   *)
(* API's site handlers run on the database, the sealing of provider secrets  *)
(* under the key of the process's environment, and the audit trail.          *)
(*                                                                         *)
(* A request reads, computes and writes in separate statements; the write is *)
(* one statement or one transaction, which may fail.  A request refused      *)
(* before its first write changes nothing and is no step.                    *)
(***************************************************************************)
EXTENDS Integers, FiniteSets

CONSTANTS
    Sites,          \* identifiers that randomID may draw for sites
    InitialSites,   \* those that exist at first
    Fields,         \* name, hostname, ip
    Names,          \* values of the fields
    Profiles,       \* values of all fields, as POST /sites sends them
    Edits,          \* values of some fields, as PUT /sites/{id} sends them
    Providers,      \* keys of cdnProviderSettings
    Texts,          \* everything else in a configuration
    Plains,         \* secrets that operators type
    Keys,           \* usable values of SITE_CONFIG_ENCRYPTION_KEY
    Documents,      \* bodies of PUT config
    Blank,          \* an empty secret or text
    Foreign,        \* a secret sent with the prefix of sealed ones, but not sealed here
    None,           \* no row, no key, nothing
    Operators,
    Requests,       \* requests in flight
    KeepVersions,   \* 10 in the code
    MaxTime,        \* bound on the clock
    MaxArrivals,    \* bound on the requests that ever arrive
    MaxErrors,      \* bound on failed statements
    MaxRestarts     \* bound on restarts

(* Secrets as the column config_json may hold them.  The nonce is left out.    *)
Sealed == [key : Keys, plain : Plains]

Partial(D, R) == UNION {[P -> R] : P \in SUBSET D}

Docs(secret) == [text : Texts, secrets : Partial(Providers, secret)]

(* A document whose secrets can be read, and any document.                     *)
Open == Docs(Plains \cup {Blank, Foreign})

AnyDoc == Docs(Sealed \cup Plains \cup {Blank, Foreign})

(* A site begins with an empty configuration.                                  *)
EmptyDoc == [text |-> Blank, secrets |-> [p \in {} |-> Blank]]

SiteRow == [profile : [Fields -> Names], doc : AnyDoc]

VersionRow == [id : Nat, site : Sites, doc : AnyDoc, at : Nat, operator : Operators]

AuditRow ==
    [action : {"create", "update", "delete", "config", "rollback", "versionDelete", "stream"},
     site : Sites, version : Nat, operator : Operators, logged : BOOLEAN]

ASSUME StoreAssumption ==
    /\ InitialSites \subseteq Sites
    /\ Profiles \subseteq [Fields -> Names]
    /\ Edits \subseteq Partial(Fields, Names)
    /\ Documents \subseteq Open
    /\ Blank \in Texts
    /\ Blank # Foreign
    /\ {Blank, Foreign} \cap Plains = {}
    /\ {Blank, Foreign} \cap Sealed = {}
    /\ Plains \cap Sealed = {}
    /\ None \notin Keys
    /\ None \notin SiteRow
    /\ KeepVersions \in Nat \ {0}
    /\ {MaxTime, MaxArrivals, MaxErrors, MaxRestarts} \subseteq Nat

VARIABLES
    now,        \* the clock, in seconds: the resolution of created_at
    key,        \* the key in the environment of the process, None without one
    sites,      \* table sites
    versions,   \* table site_versions
    streams,    \* table site_log_streams: the sites that have a row
    audits,     \* table audit_logs; logged: with its row in site_system_logs
    req,        \* local state of the requests
    arrived,    \* requests so far
    born,       \* history: identifiers drawn so far
    minted,     \* history: version rows ever saved
    removed,    \* history: versions deleted by a request, or with their site
    typed,      \* history: what operators typed as the secret of a site's provider
    errors,     \* failed statements so far
    restarts    \* restarts so far

tables == <<sites, versions, streams, audits>>

history == <<born, minted, removed>>

vars == <<now, key, tables, req, arrived, history, typed, errors, restarts>>

(* The local state of a request: what is sent to it, what it will write, the   *)
(* version it rolls back to, saves or deletes, the time of its read and,       *)
(* as history, whether the row that it read has changed since.                *)
Idle ==
    [pc |-> "idle", action |-> None, site |-> None, operator |-> None,
     sent |-> None, new |-> None, version |-> 0, since |-> 0, overtaken |-> FALSE]

Init ==
    /\ now = 0
    /\ key \in Keys \cup {None}
    /\ \E profile \in Profiles :
          sites = [s \in Sites |->
                     IF s \in InitialSites THEN [profile |-> profile, doc |-> EmptyDoc] ELSE None]
    /\ versions = {}
    /\ streams = {}
    /\ audits = {}
    /\ req = [r \in Requests |-> Idle]
    /\ arrived = 0
    /\ born = InitialSites
    /\ minted = {}
    /\ removed = {}
    /\ typed = {}
    /\ errors = 0
    /\ restarts = 0

Exists(s) == sites[s] # None

-----------------------------------------------------------------------------
(***************************************************************************)
(* Environment                                                              *)
(***************************************************************************)
Tick ==
    /\ now < MaxTime
    /\ now' = now + 1
    /\ UNCHANGED <<key, tables, req, arrived, history, typed, errors, restarts>>

(* The process stops at any point and starts with another environment.        *)
Restart(k) ==
    /\ restarts < MaxRestarts
    /\ restarts' = restarts + 1
    /\ key' = k
    /\ req' = [r \in Requests |-> Idle]
    /\ UNCHANGED <<now, tables, arrived, history, typed, errors>>

-----------------------------------------------------------------------------
(***************************************************************************)
(* Secrets                                                                  *)
(***************************************************************************)

(* applyDecryptedCDNSecrets, one secret: what was sealed under another key, or   *)
(* was not sealed here, becomes blank.                                          *)
Opened(secret) ==
    IF secret \in Sealed
    THEN IF secret.key = key THEN secret.plain ELSE Blank
    ELSE IF secret = Foreign THEN Blank ELSE secret

OpenedDoc(doc) == [doc EXCEPT !.secrets = [p \in DOMAIN doc.secrets |-> Opened(doc.secrets[p])]]

(* mergeAndEncryptCDNSecrets cannot seal without a key, and nothing is saved.   *)
Mergeable(incoming) ==
    key = None => \A p \in DOMAIN incoming.secrets : incoming.secrets[p] \notin Plains

(* As Merged, but seals a secret only where none is stored yet.                *)
MergedSealsOnce(existing, incoming) ==
    [incoming EXCEPT !.secrets =
       [p \in DOMAIN incoming.secrets |->
          LET secret == incoming.secrets[p] IN
          IF secret \in Plains /\ p \notin DOMAIN existing.secrets
          THEN [key |-> key, plain |-> secret]
          ELSE IF secret = Blank /\ p \in DOMAIN existing.secrets
               THEN existing.secrets[p]
               ELSE secret]]

(* As Merged, but a blank secret erases the stored one.                        *)
MergedErases(existing, incoming) ==
    [incoming EXCEPT !.secrets =
       [p \in DOMAIN incoming.secrets |->
          LET secret == incoming.secrets[p] IN
          IF secret \in Plains THEN [key |-> key, plain |-> secret] ELSE secret]]

(* As Merged, but a stored secret is kept whatever is sent.                     *)
MergedPrefersStored(existing, incoming) ==
    [incoming EXCEPT !.secrets =
       [p \in DOMAIN incoming.secrets |->
          LET secret == incoming.secrets[p] IN
          IF p \in DOMAIN existing.secrets THEN existing.secrets[p]
          ELSE IF secret \in Plains THEN [key |-> key, plain |-> secret]
          ELSE secret]]

(* A blank secret stands for the one that is stored; a typed one is sealed; one  *)
(* with the prefix of a sealed one is taken as it is.                          *)
Merged(existing, incoming) ==
    [incoming EXCEPT !.secrets =
       [p \in DOMAIN incoming.secrets |->
          LET secret == incoming.secrets[p] IN
          IF secret \in Plains THEN [key |-> key, plain |-> secret]
          ELSE IF secret = Blank /\ p \in DOMAIN existing.secrets
               THEN existing.secrets[p]
               ELSE secret]]

-----------------------------------------------------------------------------
(***************************************************************************)
(* Steps of requests                                                        *)
(***************************************************************************)

(* A request arrives and takes the state l; the others are where they were.    *)
Arrive(r, l) ==
    /\ arrived < MaxArrivals
    /\ arrived' = arrived + 1
    /\ req[r].pc = "idle"
    /\ req' = [req EXCEPT ![r] = l]

Become(r, l) ==
    /\ req' = [req EXCEPT ![r] = l]
    /\ UNCHANGED arrived

(* The same after a change of a site's row: whoever has read it, too early.     *)
BecomeAfterWrite(r, l) ==
    /\ req' = [q \in Requests |->
                 IF q = r THEN l
                 ELSE IF req[q].site = l.site THEN [req[q] EXCEPT !.overtaken = TRUE]
                 ELSE req[q]]
    /\ UNCHANGED arrived

(* After the change the request writes its audit row, and keeps nothing else.   *)
ToAudit(l, version) ==
    [Idle EXCEPT !.pc = "audit", !.action = l.action, !.site = l.site,
                 !.operator = l.operator, !.version = version]

(* As Fail, but the error of the transaction is dropped.                        *)
FailIgnored(r) ==
    /\ req[r].pc \in {"update", "delete", "commit", "audit"}
    /\ errors < MaxErrors
    /\ errors' = errors + 1
    /\ Become(r, IF req[r].pc = "commit" THEN ToAudit(req[r], Cardinality(minted) + 1) ELSE Idle)
    /\ UNCHANGED <<now, key, tables, history, typed, restarts>>

(* A statement or the transaction fails: the handler answers and is done.       *)
Fail(r) ==
    /\ req[r].pc \in {"update", "delete", "commit", "audit"}
    /\ errors < MaxErrors
    /\ errors' = errors + 1
    /\ Become(r, Idle)
    /\ UNCHANGED <<now, key, tables, history, typed, restarts>>

(* POST /sites                                                                 *)
CreateSite(r, s, profile, o) ==
    /\ s \notin born
    /\ Arrive(r, ToAudit([action |-> "create", site |-> s, operator |-> o], 0))
    /\ sites' = [sites EXCEPT ![s] = [profile |-> profile, doc |-> EmptyDoc]]
    /\ born' = born \cup {s}
    /\ UNCHANGED <<now, key, versions, streams, audits, minted, removed, typed, errors, restarts>>

(* PUT /sites/{id}: GetSite, then the row with the fields that were sent.        *)
UpdateSiteRead(r, s, edit, o) ==
    /\ Exists(s)
    /\ Arrive(r, [Idle EXCEPT !.pc = "update", !.action = "update", !.site = s, !.operator = o,
                              !.sent = edit,
                              !.new = [f \in Fields |-> IF f \in DOMAIN edit THEN edit[f]
                                                         ELSE sites[s].profile[f]]])
    /\ UNCHANGED <<now, key, tables, history, typed, errors, restarts>>

(* As UpdateSite, but replaces the row, with an empty configuration.             *)
UpdateSiteReplaces(r) ==
    /\ req[r].pc = "update"
    /\ LET s == req[r].site IN
       sites' = IF Exists(s) THEN [sites EXCEPT ![s] = [profile |-> req[r].new, doc |-> EmptyDoc]]
                ELSE sites
    /\ BecomeAfterWrite(r, ToAudit(req[r], 0))
    /\ UNCHANGED <<now, key, versions, streams, audits, history, typed, errors, restarts>>

(* No row is no error.                                                         *)
UpdateSite(r) ==
    /\ req[r].pc = "update"
    /\ LET s == req[r].site IN
       sites' = IF Exists(s) THEN [sites EXCEPT ![s].profile = req[r].new] ELSE sites
    /\ BecomeAfterWrite(r, ToAudit(req[r], 0))
    /\ UNCHANGED <<now, key, versions, streams, audits, history, typed, errors, restarts>>

(* DELETE /sites/{id}                                                          *)
DeleteSiteRead(r, s, o) ==
    /\ Exists(s)
    /\ Arrive(r, [Idle EXCEPT !.pc = "delete", !.action = "delete", !.site = s, !.operator = o])
    /\ UNCHANGED <<now, key, tables, history, typed, errors, restarts>>

(* As DeleteSite, but leaves the versions.                                     *)
DeleteSiteKeepsVersions(r) ==
    /\ req[r].pc = "delete"
    /\ LET s    == req[r].site
           rows == {v \in versions : v.site = s}
       IN /\ sites' = [sites EXCEPT ![s] = None]
          /\ streams' = streams \ {s}
          /\ removed' = removed \cup {v.id : v \in rows}
    /\ BecomeAfterWrite(r, ToAudit(req[r], 0))
    /\ UNCHANGED <<now, key, versions, audits, born, minted, typed, errors, restarts>>

DeleteSite(r) ==
    /\ req[r].pc = "delete"
    /\ LET s    == req[r].site
           rows == {v \in versions : v.site = s}
       IN /\ sites' = [sites EXCEPT ![s] = None]
          /\ versions' = versions \ rows
          /\ streams' = streams \ {s}
          /\ removed' = removed \cup {v.id : v \in rows}
    /\ BecomeAfterWrite(r, ToAudit(req[r], 0))
    /\ UNCHANGED <<now, key, audits, born, minted, typed, errors, restarts>>

(* PUT /sites/{id}/config: the stored secrets are read and merged.               *)
PutConfig(r, s, d, o) ==
    /\ Exists(s)
    /\ Mergeable(d)
    /\ Arrive(r, [Idle EXCEPT !.pc = "commit", !.action = "config", !.site = s, !.operator = o,
                              !.sent = d, !.new = Merged(sites[s].doc, d), !.since = now])
    /\ typed' = typed \cup {[site |-> s, provider |-> p, plain |-> d.secrets[p]] :
                              p \in {q \in DOMAIN d.secrets : d.secrets[q] \in Plains}}
    /\ UNCHANGED <<now, key, tables, history, errors, restarts>>

(* As VersionsOf, but asks for the identifier only.                             *)
VersionsOfAnySite(s) == versions

(* GetSiteVersionConfig asks for the identifier and the site.                   *)
VersionsOf(s) == {v \in versions : v.site = s}

(* POST /sites/{id}/config/rollback: the version with its secrets opened is       *)
(* handed to UpdateSiteConfig ...                                              *)
RollbackRead(r, s, id, o) ==
    /\ \E v \in VersionsOf(s) :
          /\ v.id = id
          /\ Arrive(r, [Idle EXCEPT !.pc = "merge", !.action = "rollback", !.site = s,
                                    !.operator = o, !.sent = OpenedDoc(v.doc), !.version = id])
    /\ UNCHANGED <<now, key, tables, history, typed, errors, restarts>>

(* ... which reads the stored secrets only now, or finds no site.                *)
RollbackMerge(r) ==
    /\ req[r].pc = "merge"
    /\ LET s == req[r].site IN
       Become(r, IF Exists(s) /\ Mergeable(req[r].sent)
                 THEN [req[r] EXCEPT !.pc = "commit", !.new = Merged(sites[s].doc, req[r].sent),
                                     !.since = now, !.overtaken = FALSE]
                 ELSE Idle)
    /\ UNCHANGED <<now, key, tables, history, typed, errors, restarts>>

(* As Keepings, but in ascending order.                                         *)
KeepingsOldest(rows) ==
    {kept \in SUBSET rows :
        /\ Cardinality(kept) = IF Cardinality(rows) < KeepVersions
                               THEN Cardinality(rows) ELSE KeepVersions
        /\ \A v \in kept, w \in rows \ kept : v.at <= w.at}

(* ORDER BY created_at DESC LIMIT 10: which of the rows of the same second are   *)
(* kept is up to the database.                                                  *)
Keepings(rows) ==
    {kept \in SUBSET rows :
        /\ Cardinality(kept) = IF Cardinality(rows) < KeepVersions
                               THEN Cardinality(rows) ELSE KeepVersions
        /\ \A v \in kept, w \in rows \ kept : v.at >= w.at}

(* The transaction of UpdateSiteConfig.  Its time is taken before it begins; the  *)
(* row of the site may be gone by now, which is no error.                        *)
CommitConfig(r) ==
    /\ req[r].pc = "commit"
    /\ \E at \in req[r].since..now :
          LET s   == req[r].site
              row == [id |-> Cardinality(minted) + 1, site |-> s, doc |-> req[r].new,
                      at |-> at, operator |-> req[r].operator]
          IN /\ sites' = IF Exists(s) THEN [sites EXCEPT ![s].doc = req[r].new] ELSE sites
             /\ \E kept \in Keepings(VersionsOf(s) \cup {row}) :
                   versions' = (versions \ VersionsOf(s)) \cup kept
             /\ minted' = minted \cup {row}
             /\ BecomeAfterWrite(r, ToAudit(req[r], row.id))
    /\ UNCHANGED <<now, key, streams, audits, born, removed, typed, errors, restarts>>

(* DELETE /sites/{id}/config/versions/{id}                                        *)
DeleteSiteVersion(r, s, id, o) ==
    /\ \E v \in VersionsOf(s) :
          /\ v.id = id
          /\ versions' = versions \ {v}
    /\ removed' = removed \cup {id}
    /\ Arrive(r, ToAudit([action |-> "versionDelete", site |-> s, operator |-> o], id))
    /\ UNCHANGED <<now, key, sites, streams, audits, born, minted, typed, errors, restarts>>

(* PUT /sites/{id}/log/stream: an upsert that asks for no site.                    *)
UpdateSiteLogStream(r, s, o) ==
    /\ streams' = streams \cup {s}
    /\ Arrive(r, ToAudit([action |-> "stream", site |-> s, operator |-> o], 0))
    /\ UNCHANGED <<now, key, sites, versions, audits, history, typed, errors, restarts>>

(* SaveAudit: the row of the audit log, then the one of the site's system log.    *)
(* Nothing reads them in between, so the two statements are one step; an error of *)
(* either is dropped.                                                           *)
SaveAudit(r, logged) ==
    /\ req[r].pc = "audit"
    /\ audits' = audits \cup {[action |-> req[r].action, site |-> req[r].site,
                               version |-> req[r].version, operator |-> req[r].operator,
                               logged |-> logged]}
    /\ logged \/ errors < MaxErrors
    /\ errors' = IF logged THEN errors ELSE errors + 1
    /\ Become(r, Idle)
    /\ UNCHANGED <<now, key, sites, versions, streams, history, typed, restarts>>

(* The first step of a request, sent by operator o; a request refused before its  *)
(* first write is no step.                                                      *)
Begin(r, o) ==
    \E s \in Sites :
        \/ \E profile \in Profiles : CreateSite(r, s, profile, o)
        \/ \E edit \in Edits : UpdateSiteRead(r, s, edit, o)
        \/ DeleteSiteRead(r, s, o)
        \/ \E d \in Documents : PutConfig(r, s, d, o)
        \/ \E id \in 1..MaxArrivals : RollbackRead(r, s, id, o)
        \/ \E id \in 1..MaxArrivals : DeleteSiteVersion(r, s, id, o)
        \/ UpdateSiteLogStream(r, s, o)

Continue(r) ==
    \/ UpdateSite(r)
    \/ DeleteSite(r)
    \/ RollbackMerge(r)
    \/ CommitConfig(r)
    \/ \E logged \in BOOLEAN : SaveAudit(r, logged)
    \/ Fail(r)

Next ==
    \/ Tick
    \/ \E k \in Keys \cup {None} : Restart(k)
    \/ \E r \in Requests :
          \/ \E o \in Operators : Begin(r, o)
          \/ Continue(r)

Spec == Init /\ [][Next]_vars

-----------------------------------------------------------------------------
(***************************************************************************)
(* Properties                                                               *)
(***************************************************************************)
RequestState ==
    [pc : {"idle", "update", "delete", "merge", "commit", "audit"},
     action : {None, "create", "update", "delete", "config", "rollback", "versionDelete", "stream"},
     site : Sites \cup {None}, operator : Operators \cup {None},
     sent : {None} \cup Open \cup Partial(Fields, Names),
     new : {None} \cup AnyDoc \cup [Fields -> Names],
     version : Nat, since : Nat, overtaken : BOOLEAN]

(* The tables, the local states and the history are well formed; the bounds of   *)
(* the clock, the arrivals and the faults are respected.                         *)
TypeOK ==
    /\ now \in 0..MaxTime
    /\ key \in Keys \cup {None}
    /\ sites \in [Sites -> {None} \cup SiteRow]
    /\ versions \subseteq VersionRow
    /\ streams \subseteq Sites
    /\ audits \subseteq AuditRow
    /\ req \in [Requests -> RequestState]
    /\ arrived \in 0..MaxArrivals
    /\ born \subseteq Sites
    /\ {s \in Sites : Exists(s)} \subseteq born
    /\ minted \subseteq VersionRow
    /\ versions \subseteq minted
    /\ removed \subseteq {v.id : v \in minted \ versions}
    /\ typed \subseteq [site : Sites, provider : Providers, plain : Plains]
    /\ errors \in 0..MaxErrors
    /\ restarts \in 0..MaxRestarts

(* The documents in the tables of site s.                                        *)
DocsOf(s) ==
    (IF Exists(s) THEN {sites[s].doc} ELSE {}) \cup {v.doc : v \in {w \in versions : w.site = s}}

(* No secret that an operator typed is ever in a table in the clear, whatever the  *)
(* key, its loss at a restart and the rollbacks in between                        *)
(* (mergeAndEncryptCDNSecrets; RollbackSiteVersion opens a version and seals it    *)
(* again).                                                                       *)
SecretsAreSealed ==
    \A s \in Sites : \A d \in DocsOf(s) : \A p \in DOMAIN d.secrets :
        d.secrets[p] \notin Plains

(* A secret handed to a provider's client (GetSiteConfig, GetSiteVersionConfig) is  *)
(* blank or was typed for this provider of this site: never a ciphertext, never    *)
(* that of another site, also after merges, rollbacks and a change of the key.     *)
SecretIsGenuine ==
    \A s \in Sites : \A d \in DocsOf(s) : \A p \in DOMAIN d.secrets :
        \/ Opened(d.secrets[p]) = Blank
        \/ [site |-> s, provider |-> p, plain |-> Opened(d.secrets[p])] \in typed

(* The configuration in force is the one of the last version saved: UpdateSiteConfig *)
(* changes row and version in one transaction, and no other statement (UpdateSite,  *)
(* a failed one, a deletion) undoes half of it.                                    *)
LiveIsLastSaved ==
    \A s \in Sites :
        LET saved == {m \in minted : m.site = s} IN
        Exists(s) =>
            IF saved = {} THEN sites[s].doc = EmptyDoc
            ELSE \E m \in saved :
                    /\ \A w \in saved : w.id <= m.id
                    /\ sites[s].doc = m.doc

(* A site keeps at most KeepVersions versions, and one disappears only because      *)
(* someone deleted it or its site, or because KeepVersions others at least as new   *)
(* were saved for the same site (the DELETE of UpdateSiteConfig).                   *)
OnlyOldVersionsGo ==
    /\ \A s \in Sites : Cardinality({v \in versions : v.site = s}) <= KeepVersions
    /\ \A m \in minted \ versions :
          \/ m.id \in removed
          \/ Cardinality({w \in minted : w.site = m.site /\ w.id # m.id /\ w.at >= m.at})
               >= KeepVersions

(* An audit row tells what happened: the version it names was saved by this operator *)
(* for this site, the version or the site it calls deleted is gone (the handlers     *)
(* write it after the change, with what the change returned).                       *)
AuditIsTrue ==
    \A e \in audits :
        /\ e.action \in {"config", "rollback"} =>
              \E m \in minted : m.id = e.version /\ m.site = e.site /\ m.operator = e.operator
        /\ e.action = "versionDelete" =>
              e.version \in removed /\ \E m \in minted : m.id = e.version /\ m.site = e.site
        /\ e.action = "delete" => ~Exists(e.site)

(* The step that puts the configuration of request r in force.                      *)
PutsInForce(r) ==
    req[r].pc = "commit" /\ req'[r].pc = "audit" /\ Exists(req[r].site)

(* Unless another change came between its read and its transaction, a PUT with a      *)
(* blank secret keeps the stored one and a PUT with a typed secret stores that one    *)
(* (the rule above mergeAndEncryptCDNSecrets).                                       *)
UpdatesKeepSecrets ==
    [][\A r \in Requests :
         PutsInForce(r) /\ req[r].action = "config" /\ ~req[r].overtaken =>
            LET s      == req[r].site
                sent   == req[r].sent.secrets
                before == sites[s].doc.secrets
                after  == sites'[s].doc.secrets
            IN /\ DOMAIN after = DOMAIN sent
               /\ \A p \in DOMAIN sent :
                     /\ sent[p] \in Plains => Opened(after[p]) = sent[p]
                     /\ sent[p] = Blank /\ p \in DOMAIN before => after[p] = before[p]
      ]_vars

(* A rollback puts the document of its version in force, with every secret of it      *)
(* that the key still opens, whatever was saved or deleted since the version was       *)
(* read (RollbackSiteVersion).                                                       *)
RollbackRestores ==
    [][\A r \in Requests :
         PutsInForce(r) /\ req[r].action = "rollback" =>
            \E m \in minted :
               /\ m.id = req[r].version
               /\ LET after == sites'[req[r].site].doc IN
                  /\ after.text = m.doc.text
                  /\ DOMAIN after.secrets = DOMAIN m.doc.secrets
                  /\ \A p \in DOMAIN after.secrets :
                        Opened(m.doc.secrets[p]) # Blank =>
                           Opened(after.secrets[p]) = Opened(m.doc.secrets[p])
      ]_vars
=============================================================================
