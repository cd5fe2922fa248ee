---------------------------- MODULE MCRetryAfter ----------------------------
(***************************************************************************)
(* Instances of RetryAfter for TLC.                                        *)
(***************************************************************************)
EXTENDS RetryAfter, TLC

Symmetry == Permutations(Ips) \cup Permutations(Identifiers)
=============================================================================
