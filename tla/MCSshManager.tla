---------------------------- MODULE MCSshManager ----------------------------
(***************************************************************************)
(* Instances of SshManager for TLC: one process that calls every function, *)
(* and one that stops the daemon and cuts the interface meanwhile.         *)
(***************************************************************************)
EXTENDS SshManager, TLC

CONSTANTS c1, c2, n1

AllFunctions == [c \in Clients |-> Functions]
AndAMeddler == c1 :> Functions @@ c2 :> {"stop_corosync", "kill_conn"}
=============================================================================
