--------------------------- MODULE MCConfigManager ---------------------------
(* Small instances of ConfigManager for TLC. *)
EXTENDS ConfigManager, TLC

Doc(id, routing, allowed, sync) ==
    [id |-> id, routing |-> routing, allowed |-> allowed, sync |-> sync, env |-> FALSE]

CONSTANTS a, b, good, bad, blank

(* A document of the old form without whitelist, and one with a whitelist. *)
TwoDocs == {Doc(a, "legacy", {}, Providers), Doc(b, "lb", {good}, Providers)}

(* With one that Validate accepts and Apply refuses, and one whose defaults only   *)
(* the environment reconciles.                                                    *)
FourDocs == TwoDocs \cup {Doc(b, "lb", {blank}, {}), Doc(a, "defaults", {}, {})}

SwitchOff == {{}}

Lists == {{good}, {bad}}

GoodLists == {{good}}

HandlerSymmetry == Permutations(Handlers)

=============================================================================
