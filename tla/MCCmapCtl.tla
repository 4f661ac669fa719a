----------------------------- MODULE MCCmapCtl ------------------------------
(***************************************************************************)
(* Instances of CmapCtl for TLC: two processes on one key, entries of one  *)
(* byte, of four bytes and strings that fit into four bytes.               *)
(***************************************************************************)
EXTENDS CmapCtl, TLC

CONSTANTS p1, p2, d1, d2

Types == {"uint8", "uint32", "string"}
Widths == [t \in Types |-> IF t = "uint8" THEN 1 ELSE IF t = "uint32" THEN 4 ELSE 3]

Symmetry == Permutations({p1, p2}) \cup Permutations({d1, d2})
=============================================================================
