-------------------------- MODULE MCReferenceShell --------------------------
(***************************************************************************)
(* An instance of ReferenceShell for TLC: a nodelist of two nodes, the     *)
(* same with a gap at index 0, and one with an index beyond the table.     *)
(***************************************************************************)
EXTENDS ReferenceShell

Dense == [i \in 0 .. 1 |-> i + 1]
Sparse == [i \in 1 .. 2 |-> i]
Far == [i \in {0, 3} |-> i + 1]
Lists == {Dense, Sparse, Far}
=============================================================================
