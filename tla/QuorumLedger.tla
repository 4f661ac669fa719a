---------------------------- MODULE QuorumLedger ----------------------------
(***************************************************************************)
(* What the functions of quorum_manager.c promise a process that is alone  *)
(* with the cluster: every call takes effect at once, when it returns, and *)
(* says whether it succeeded.  The only call that can fail half way is     *)
(* set_votes_and_adjust, and then only by leaving expected votes behind.   *)
(***************************************************************************)
EXTENDS Integers

CONSTANTS Nodes, Args, Modulus, InitialExpected, Readers

VARIABLES
  votes, expected,  \* the ledger
  result            \* the last call and its code

ledger == <<votes, expected>>

Word == 0 .. Modulus - 1

Init ==
  /\ votes = [n \in Nodes |-> 1]
  /\ expected = InitialExpected
  /\ result = [fn |-> "none", rc |-> "CS_OK"]

Answer(f, code) == result' = [fn |-> f, rc |-> code]

Read(f) ==
  /\ \E code \in {"CS_OK", "CS_ERR"} : Answer(f, code)
  /\ UNCHANGED ledger

SetVotes(n, v) ==
  /\ votes' = [votes EXCEPT ![n] = v]
  /\ UNCHANGED expected
  /\ Answer("set_votes", "CS_OK")

SetExpected(v) ==
  /\ expected' = v
  /\ UNCHANGED votes
  /\ Answer("set_expected_votes", "CS_OK")

SetVotesAndAdjust(n, v) ==
  /\ votes' = [votes EXCEPT ![n] = v]
  /\ expected' = (expected + (v - votes[n])) % Modulus
  /\ Answer("set_votes_and_adjust", "CS_OK")

AdjustStopsHalfWay(n, v) ==
  /\ votes' = [votes EXCEPT ![n] = v]
  /\ UNCHANGED expected
  /\ Answer("set_votes_and_adjust", "CS_ERR")

Refuse(f) == UNCHANGED ledger /\ Answer(f, "CS_ERR")

Next ==
  \/ \E f \in Readers : Read(f)
  \/ \E n \in Nodes, v \in Args :
       SetVotes(n, v) \/ SetVotesAndAdjust(n, v) \/ AdjustStopsHalfWay(n, v)
  \/ \E v \in Args : SetExpected(v)
  \/ \E f \in {"set_votes", "set_expected_votes", "set_votes_and_adjust"} : Refuse(f)

Spec == Init /\ [][Next]_<<ledger, result>>
=============================================================================
