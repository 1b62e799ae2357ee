---------------------------- MODULE MCLogPipeline ----------------------------
(***************************************************************************)
(* The log pipeline with a channel smaller than the number of events, so     *)
(* that it fills up, and two calls of Close that race with the emitters.     *)
(***************************************************************************)
EXTENDS LogPipeline

CONSTANTS e1, e2, c1, c2

=============================================================================
