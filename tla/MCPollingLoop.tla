---------------------------- MODULE MCPollingLoop ----------------------------
(***************************************************************************)
(* Instances of PollingLoop for TLC: the two loops index.ts starts.        *)
(***************************************************************************)
EXTENDS PollingLoop, TLC

CONSTANTS jobs, outbox

MCKind == [l \in Loops |-> IF l = jobs THEN "interval" ELSE "adaptive"]

=============================================================================
