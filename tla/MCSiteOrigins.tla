---------------------------- MODULE MCSiteOrigins ----------------------------
(***************************************************************************)
(* One site with two providers, one of them without a client, one slot for   *)
(* jobs, a failing database statement and a restart.  MCSiteOrigins.cfg adds *)
(* a manual refresh and a list that cannot be parsed; MCSiteSchedule.cfg a   *)
(* second tick, an edit of the site and fairness.                            *)
(***************************************************************************)
EXTENDS SiteOrigins

CONSTANTS s1, aliyun, other, r1, good, bad

=============================================================================
