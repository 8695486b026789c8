---------------------------- MODULE MCWhitelists ----------------------------
(* Values for the constants of Whitelists. *)
EXTENDS Whitelists

UpperCase == {"upper"}
BothCases == Spellings

\* threads and ips are interchangeable
Symmetric == Permutations(Threads) \cup Permutations(Ips)
=============================================================================
