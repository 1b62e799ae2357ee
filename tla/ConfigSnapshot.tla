---------------------------- MODULE ConfigSnapshot ----------------------------
(***************************************************************************)
(* Configuration documents and the snapshots compiled from them            *)
(* (internal/config): what Manager.Apply and Manager.Validate check, and    *)
(* what buildSnapshot puts in the snapshot the gateway reads.               *)
(*                                                                         *)
(* A document keeps the parts that the manager treats differently.  The     *)
(* rest of its text (upstreams, certificates, pools) is an identity "id",   *)
(* with two constant sets saying which texts ValidateConfig rejects and     *)
(* which ones buildSnapshot cannot compile: the two checks are different    *)
(* functions in the code and accept different documents.                    *)
(***************************************************************************)
CONSTANTS
    Ids,            \* identities of configuration texts
    Flawed,         \* texts for which ValidateConfig reports issues
    Uncompilable,   \* texts with an upstream or a certificate that cannot be loaded
    Providers,      \* CDN providers of the global synchronisation
    CIDRs,          \* CIDR texts
    Malformed,      \* non-empty CIDR texts that netip.ParsePrefix refuses
    Blank,          \* the empty CIDR text, refused as well
    EnvCIDRs,       \* ALLOWED_CIDRS of the environment; {} when it is not set
    EnvUpstream,    \* whether DEFAULT_UPSTREAM is set in the environment
    NoSnapshot      \* Manager.data before the first Store

ASSUME ConstantsAssumption ==
    /\ Flawed \subseteq Ids
    /\ Uncompilable \subseteq Ids
    /\ Malformed \subseteq CIDRs
    /\ Blank \in CIDRs \ Malformed
    /\ EnvCIDRs \subseteq CIDRs \ {Blank}
    /\ EnvUpstream \in BOOLEAN

-----------------------------------------------------------------------------
(* "legacy": only routing.*; "lb": load-balancer pools, with at most          *)
(* compatible routing.*; "conflict": both, for the same domain; "defaults":   *)
(* in conflict only by a default upstream beside a default pool.              *)
Routings == {"lb", "legacy", "conflict", "defaults"}

(* sync is cdnSync: the provider list, {} when disabled.  env: the values     *)
(* taken from environment variables are in place.                             *)
Config == [id : Ids, routing : Routings, allowed : SUBSET CIDRs,
           sync : SUBSET Providers, env : BOOLEAN]

(* Manager.cdnStatuses: the CIDR list of each provider's last synchronisation, *)
(* {} when there was none or when it failed.                                   *)
Statuses == [Providers -> SUBSET CIDRs]

NoStatuses == [p \in Providers |-> {}]

(* The flat list UpdateProviderStatus derives from the statuses. *)
AllDynamic(statuses) == UNION {statuses[p] : p \in Providers}

(* Environment variables win over the file when the process starts; a default  *)
(* upstream of theirs clears the default pool.                                 *)
ApplyEnvOverrides(cfg) ==
    [cfg EXCEPT !.env = TRUE,
                !.routing = IF EnvUpstream /\ @ = "defaults" THEN "lb" ELSE @,
                !.allowed = IF EnvCIDRs = {} THEN @ ELSE EnvCIDRs]

(* prepareRoutingAndLoadBalancer: routing rules without any load-balancer      *)
(* binding are migrated to pools and routes; a conflict is an issue.           *)
HasConflict(cfg) == cfg.routing \in {"conflict", "defaults"}

Prepare(cfg) == [cfg EXCEPT !.routing = IF @ = "legacy" THEN "lb" ELSE @]

(* Manager.Validate: blank CIDR entries are skipped. *)
Validates(cfg) ==
    /\ ~HasConflict(cfg)
    /\ cfg.id \notin Flawed
    /\ cfg.allowed \cap Malformed = {}

(* The errors of buildSnapshot: every entry of the whitelist is parsed, blank  *)
(* or not; the provider lists skip blank entries.                              *)
Builds(cfg, dynamic, statuses) ==
    /\ (cfg.allowed \cup dynamic) \cap (Malformed \cup {Blank}) = {}
    /\ AllDynamic(statuses) \cap Malformed = {}
    /\ cfg.id \notin Uncompilable

(* The snapshot buildSnapshot returns. *)
Build(cfg, dynamic, statuses) ==
    [cfg      |-> cfg,
     allowAll |-> cfg.allowed \cup dynamic = {},
     allowed  |-> cfg.allowed \cup dynamic,
     cdn      |-> [p \in Providers |-> statuses[p] \ {Blank}]]

Snapshot == [cfg : Config, allowAll : BOOLEAN, allowed : SUBSET CIDRs, cdn : Statuses]

(* Apply accepts a document and the lists it copied. *)
Applies(cfg, dynamic, statuses) ==
    /\ ~HasConflict(cfg)
    /\ Builds(Prepare(cfg), dynamic, statuses)

=============================================================================
