--------------------------- MODULE RemoteCommands ---------------------------
(***************************************************************************)
(* What the functions of ssh_manager.c promise to the caller of one of     *)
(* them, whatever else goes on: each of its commands is executed at one    *)
(* moment between call and return, a CS_OK means that all of them were,    *)
(* and an error other than CL_SSH_COMMAND_EXEC_FAIL that the command it    *)
(* got to was not.  Whether an executed command did at the node what it is *)
(* for, no code tells: nobody asks for its exit status.                    *)
(*                                                                         *)
(* A node is its corosync daemon, which takes its time to shut down, and   *)
(* its interface eth1.                                                     *)
(***************************************************************************)
EXTENDS Integers

CONSTANTS
  Clients, Nodes,
  Commands  \* of each caller, the functions it calls

CS_OK == 1
CL_SSH_CONN_ERR == -3
CL_SSH_AUTH_ERR == -4
CL_SSH_CREATE_CHANNEL_ERR == -5
CL_SSH_OPEN_CHANNEL_ERR == -6
CL_SSH_COMMAND_EXEC_FAIL == -7

Errors == {CL_SSH_CONN_ERR, CL_SSH_AUTH_ERR, CL_SSH_CREATE_CHANNEL_ERR,
           CL_SSH_OPEN_CHANNEL_ERR, CL_SSH_COMMAND_EXEC_FAIL}

VARIABLES
  daemon, eth1,  \* of each node: "down", "up" or "stopping"; is eth1 up?
  busy,          \* callers waiting for an answer
  fn, node,      \* what each of them called, for which node
  done,          \* how many of its commands were executed
  rc             \* the answer to its last call, 0 before

vars == <<daemon, eth1, busy, fn, node, done, rc>>

\* "corosync": it cannot start while another daemon is shutting down.
StartDaemon(n) ==
  /\ daemon[n] # "stopping"
  /\ daemon' = [daemon EXCEPT ![n] = "up"]
  /\ UNCHANGED eth1

\* "corosync-cfgtool -H": the daemon begins to shut down, if there is one.
StopDaemon(n) ==
  /\ daemon' = [daemon EXCEPT ![n] = IF @ = "up" THEN "stopping" ELSE @]
  /\ UNCHANGED eth1

\* "ifdown eth1".
IfDown(n) == eth1' = [eth1 EXCEPT ![n] = FALSE] /\ UNCHANGED daemon

\* "ifup eth1".
IfUp(n) == eth1' = [eth1 EXCEPT ![n] = TRUE] /\ UNCHANGED daemon

\* The node does what the command is for.
Obey(cmd, n) ==
  \/ cmd = "start_corosync" /\ StartDaemon(n)
  \/ cmd = "stop_corosync" /\ StopDaemon(n)
  \/ cmd = "kill_conn" /\ IfDown(n)
  \/ cmd = "start_conn" /\ IfUp(n)

\* The command is executed at the node, where it may fail: a daemon without a
\* usable configuration does not start, ifup finds no device.
Execute(cmd, n) == Obey(cmd, n) \/ UNCHANGED <<daemon, eth1>>

\* A daemon that was told to shut down is gone.
DaemonStops(n) ==
  /\ daemon[n] = "stopping"
  /\ daemon' = [daemon EXCEPT ![n] = "down"]
  /\ UNCHANGED eth1

\* The commands of f, in order: restart_corosync has two.
Count(f) == IF f = "restart_corosync" THEN 2 ELSE 1

Command(f, k) ==
  IF f # "restart_corosync" THEN f
  ELSE IF k = 1 THEN "stop_corosync" ELSE "start_corosync"

-----------------------------------------------------------------------------
Init ==
  /\ daemon \in [Nodes -> {"down", "up"}]
  /\ eth1 = [n \in Nodes |-> TRUE]
  /\ busy = {}
  /\ fn = [c \in Clients |-> "none"]
  /\ node \in [Clients -> Nodes]
  /\ done = [c \in Clients |-> 0]
  /\ rc = [c \in Clients |-> 0]

Call(c, f, n) ==
  /\ c \notin busy
  /\ busy' = busy \cup {c}
  /\ fn' = [fn EXCEPT ![c] = f]
  /\ node' = [node EXCEPT ![c] = n]
  /\ rc' = [rc EXCEPT ![c] = 0]
  /\ UNCHANGED <<daemon, eth1, done>>

\* The next command of c's call is executed.
Take(c) ==
  /\ c \in busy /\ done[c] < Count(fn[c])
  /\ Execute(Command(fn[c], done[c] + 1), node[c])
  /\ done' = [done EXCEPT ![c] = @ + 1]
  /\ UNCHANGED <<busy, fn, node, rc>>

Answer(c, code) ==
  /\ busy' = busy \ {c}
  /\ done' = [done EXCEPT ![c] = 0]
  /\ rc' = [rc EXCEPT ![c] = code]
  /\ UNCHANGED <<fn, node>>

Succeed(c) ==
  /\ c \in busy /\ done[c] = Count(fn[c])
  /\ Answer(c, CS_OK)
  /\ UNCHANGED <<daemon, eth1>>

\* Only after an exec that failed is it open whether the command was executed.
Fail(c, code) ==
  /\ c \in busy /\ done[c] < Count(fn[c])
  /\ Answer(c, code)
  /\ \/ UNCHANGED <<daemon, eth1>>
     \/ /\ code = CL_SSH_COMMAND_EXEC_FAIL
        /\ Execute(Command(fn[c], done[c] + 1), node[c])

Next ==
  \/ \E c \in Clients :
       \/ \E f \in Commands[c], n \in Nodes : Call(c, f, n)
       \/ Take(c)
       \/ Succeed(c)
       \/ \E code \in Errors : Fail(c, code)
  \/ \E n \in Nodes : DaemonStops(n) /\ UNCHANGED <<busy, fn, node, done, rc>>

Spec == Init /\ [][Next]_vars
=============================================================================
