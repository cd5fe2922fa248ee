------------------------ MODULE MCRateLimiterLedger ------------------------
(***************************************************************************)
(* Instances of RateLimiterLedger for TLC.                                 *)
(***************************************************************************)
EXTENDS RateLimiterLedger, TLC

Symmetry == Permutations(Ips) \cup Permutations(Identifiers)
=============================================================================
