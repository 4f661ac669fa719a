-------------------------- MODULE MCQuorumManager ---------------------------
(***************************************************************************)
(* Instances of QuorumManager for TLC: which functions the processes call  *)
(* in each run.                                                            *)
(***************************************************************************)
EXTENDS QuorumManager, TLC

CONSTANTS c1, c2

AllCalls    == Api
VoteWriters == {"set_votes", "set_votes_and_adjust"}

Symmetry == Permutations({c1, c2})
=============================================================================
