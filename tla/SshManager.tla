----------------------------- MODULE SshManager -----------------------------
(***************************************************************************)
(* ssh_manager.c: the remote commands ctc runs on the nodes of a cluster,  *)
(* by several ctc processes at once.                                       *)
(*                                                                         *)
(* start_corosync, stop_corosync, kill_conn and start_conn are one         *)
(* procedure with four commands; restart_corosync calls two of them.  A    *)
(* node is reached at the ring address 11.0.0.X of its interface eth1 or   *)
(* at its alternative address 12.0.0.X, which is always up.  libssh, the   *)
(* daemon and the network are external to ssh_manager.c.                   *)
(***************************************************************************)
EXTENDS Integers

CONSTANTS
  Clients,     \* ctc processes
  Nodes,       \* nodes of the cluster
  Commands,    \* of each process, the functions it calls
  Addresses,   \* kinds of address they pass: "ring" (eth1), "alt"
  MaxOutput,   \* bound: chunks of output a remote command writes
  UintValues,  \* number of values of unsigned int, 2^32 in the code
  MayFail,     \* may libssh calls fail although the link is up?
  MayLose      \* may a link be lost although both its interfaces are up?

Functions == {"start_corosync", "stop_corosync", "kill_conn", "start_conn",
              "restart_corosync"}

ASSUME SshAssumption ==
  /\ Commands \in [Clients -> SUBSET Functions]
  /\ Addresses \subseteq {"ring", "alt"}
  /\ MaxOutput \in Nat
  /\ UintValues \in Nat /\ UintValues > MaxOutput + 1
  /\ {MayFail, MayLose} \subseteq BOOLEAN

VARIABLES
  daemon, eth1,  \* of each node: "down", "up" or "stopping"; is eth1 up?
  call,          \* the call of each process: function, the one of the four that
                 \* runs, its next step, address, what it holds, whether its TCP
                 \* connection lives, chunks of output still to read, its code;
                 \* done (how many of its commands were executed) and obeyed (did
                 \* the node do what each of them is for?) are history
  was            \* history: of each call, its node when it began, or Disturbed
                 \* once another process has run a command on that node

vars == <<daemon, eth1, call, was>>

Steps == {"new", "connect", "auth", "channel", "open", "exec", "read", "sleep", "idle"}

Promise == INSTANCE RemoteCommands WITH
  busy <- {c \in Clients : call[c].pc # "idle"},
  fn <- [c \in Clients |-> call[c].fn],
  node <- [c \in Clients |-> call[c].node],
  done <- [c \in Clients |-> call[c].done],
  rc <- [c \in Clients |-> call[c].rc]

\* The value of an unsigned int variable an int is assigned to.
Unsigned(x) == x % UintValues

\* Can packets of c's session travel?
Reachable(c) == call[c].via = "alt" \/ eth1[call[c].node]
Alive(c) == call[c].link /\ Reachable(c)

State(n) == [daemon |-> daemon[n], eth1 |-> eth1[n]]
Disturbed == [daemon |-> "any", eth1 |-> FALSE]

-----------------------------------------------------------------------------
Init ==
  /\ daemon \in [Nodes -> {"down", "up"}]
  /\ eth1 = [n \in Nodes |-> TRUE]
  /\ call \in [Clients -> {[fn |-> "none", cmd |-> "none", pc |-> "idle", node |-> n,
                            via |-> "alt", held |-> {}, link |-> FALSE, output |-> 0,
                            rc |-> 0, done |-> 0, obeyed |-> TRUE] : n \in Nodes}]
  /\ was = [c \in Clients |-> Disturbed]

\* Fault: restart_corosync has no command of its own.
FirstIsItself(f) == f

FirstCommand(f) == IF f = "restart_corosync" THEN "stop_corosync" ELSE f

Call(c, f, n, a) ==
  /\ call[c].pc = "idle"
  /\ call' = [call EXCEPT ![c] = [@ EXCEPT !.fn = f, !.cmd = FirstCommand(f), !.pc = "new",
                !.node = n, !.via = a, !.held = {}, !.rc = 0, !.obeyed = TRUE]]
  /\ was' = [was EXCEPT ![c] = State(n)]
  /\ UNCHANGED <<daemon, eth1>>

At(c, step) == call[c].pc = step

Goto(c, step) == call' = [call EXCEPT ![c].pc = step]

\* c gets what and goes on at step.
Gets(c, what, step) ==
  call' = [call EXCEPT ![c].held = @ \cup {what}, ![c].pc = step]

\* Fault: restart_corosync returns what stop_corosync returned.
OnlyStops(c, code) == FALSE

\* Does restart_corosync, which called the running function, go on?
Restarts(c, code) ==
  call[c].fn = "restart_corosync" /\ call[c].cmd = "stop_corosync" /\ code = Promise!CS_OK

\* The running function frees the members of freed and returns code.
Return(c, code, freed) ==
  LET back == [call[c] EXCEPT !.held = @ \ freed, !.link = FALSE, !.output = 0] IN
  call' = [call EXCEPT ![c] =
             IF Restarts(c, code) THEN [back EXCEPT !.pc = "sleep"]
             ELSE [back EXCEPT !.pc = "idle", !.cmd = "none", !.via = "alt", !.done = 0,
                               !.rc = code]]

Node == <<daemon, eth1, was>>

\* ssh_new.
NewSession(c) ==
  /\ At(c, "new")
  /\ Gets(c, "session", "connect") \/ (MayFail /\ Return(c, Promise!CL_SSH_CONN_ERR, {}))
  /\ UNCHANGED Node

\* ssh_connect.
Connect(c) ==
  /\ At(c, "connect")
  /\ \/ Reachable(c) /\ call' = [call EXCEPT ![c].link = TRUE, ![c].pc = "auth"]
     \/ (MayFail \/ ~Reachable(c)) /\ Return(c, Promise!CL_SSH_CONN_ERR, {"session"})
  /\ UNCHANGED Node

\* ssh_userauth_password; the error path returns with the session in hand.
Authenticate(c) ==
  /\ At(c, "auth")
  /\ \/ Alive(c) /\ Goto(c, "channel")
     \/ (MayFail \/ ~Alive(c)) /\ Return(c, Promise!CL_SSH_AUTH_ERR, {})
  /\ UNCHANGED Node

\* ssh_channel_new.
NewChannel(c) ==
  /\ At(c, "channel")
  /\ \/ Gets(c, "channel", "open")
     \/ MayFail /\ Return(c, Promise!CL_SSH_CREATE_CHANNEL_ERR, {"session"})
  /\ UNCHANGED Node

\* Fault: only the session is freed.
SessionOnly == {"session"}

\* What free_channel and free_session free.
Everything == {"channel", "session"}

\* ssh_channel_open_session.
OpenChannel(c) ==
  /\ At(c, "open")
  /\ \/ Alive(c) /\ Goto(c, "exec")
     \/ (MayFail \/ ~Alive(c)) /\ Return(c, Promise!CL_SSH_OPEN_CHANNEL_ERR, Everything)
  /\ UNCHANGED Node

\* The command of the running function is executed at the node, which obeys it
\* or not.
Run(c, ok) ==
  /\ IF ok THEN Promise!Obey(call[c].cmd, call[c].node) ELSE UNCHANGED <<daemon, eth1>>
  /\ was' = [d \in Clients |-> IF d = c \/ call[d].node # call[c].node THEN was[d] ELSE Disturbed]

\* Fault: the failure of ssh_channel_request_exec is not looked at.
ExecUnchecked(c) ==
  /\ At(c, "exec")
  /\ \/ \E ok \in BOOLEAN :
          /\ Alive(c) /\ Run(c, ok)
          /\ call' = [call EXCEPT ![c].done = @ + 1, ![c].obeyed = @ /\ ok, ![c].pc = "read"]
     \/ (MayFail \/ ~Alive(c)) /\ UNCHANGED Node /\ Goto(c, "read")

\* ssh_channel_request_exec, which says whether the command was handed over and
\* not how it ended.  When it fails, the command has not run, or it has and the
\* answer is lost with the link.
Exec(c) ==
  /\ At(c, "exec")
  /\ \/ \E ok \in BOOLEAN, k \in 0 .. MaxOutput :
          /\ Alive(c) /\ Run(c, ok)
          /\ call' = [call EXCEPT ![c].output = k, ![c].done = @ + 1, ![c].obeyed = @ /\ ok,
                       ![c].pc = "read"]
     \/ /\ \/ (MayFail \/ ~Alive(c)) /\ UNCHANGED Node
           \/ MayLose /\ Alive(c) /\ \E ok \in BOOLEAN : Run(c, ok)
        /\ Return(c, Promise!CL_SSH_COMMAND_EXEC_FAIL, Everything)

\* Fault: nbytes >= 0, true of every unsigned int.
ReadAlways(n) == Unsigned(n) >= 0

\* The test of the loop that reads the output: nbytes > 0, unsigned.
ReadOn(n) == Unsigned(n) > 0

\* ssh_channel_read: a chunk, 0 at the end of the output, SSH_ERROR (-1) once
\* the link is lost; it waits while the link is cut but not lost.  At the end
\* everything is freed.  SSH_ERROR, too, is an nbytes > 0.
Read(c) ==
  /\ At(c, "read") /\ (Alive(c) \/ ~call[c].link)
  /\ LET n == IF ~call[c].link THEN -1 ELSE IF call[c].output > 0 THEN 1 ELSE 0 IN
     IF ReadOn(n)
       THEN call' = [call EXCEPT ![c].output = IF n = 1 THEN @ - 1 ELSE @]
       ELSE Return(c, Promise!CS_OK, Everything)
  /\ UNCHANGED Node

\* sleep(1) of restart_corosync, then start_corosync; the daemon may take longer
\* than that to shut down.
Sleep(c) ==
  /\ At(c, "sleep")
  /\ call' = [call EXCEPT ![c].cmd = "start_corosync", ![c].pc = "new"]
  /\ UNCHANGED Node

\* The TCP connection of c's session is given up.
LoseLink(c) ==
  /\ call[c].link /\ (MayLose \/ ~Reachable(c))
  /\ call' = [call EXCEPT ![c].link = FALSE]
  /\ UNCHANGED Node

Step(c) ==
  \/ NewSession(c)
  \/ Connect(c)
  \/ Authenticate(c)
  \/ NewChannel(c)
  \/ OpenChannel(c)
  \/ Exec(c)
  \/ Read(c)
  \/ Sleep(c)

DaemonStops(n) == Promise!DaemonStops(n) /\ UNCHANGED <<call, was>>

Next ==
  \/ \E c \in Clients :
       \/ \E f \in Commands[c], n \in Nodes, a \in Addresses : Call(c, f, n, a)
       \/ Step(c)
       \/ LoseLink(c)
  \/ \E n \in Nodes : DaemonStops(n)

Spec == Init /\ [][Next]_vars

\* A process runs its call, and a daemon that shuts down gets there.  A cut
\* link need not be noticed.
FairSpec ==
  /\ Spec
  /\ \A c \in Clients : WF_vars(Step(c))
  /\ \A n \in Nodes : WF_vars(DaemonStops(n))

-----------------------------------------------------------------------------
(* Properties                                                              *)

\* The types of the variables; a call runs one of the commands of its function.
TypeOK ==
  /\ daemon \in [Nodes -> {"down", "up", "stopping"}]
  /\ eth1 \in [Nodes -> BOOLEAN]
  /\ call \in [Clients -> [fn : Functions \cup {"none"},
                           cmd : (Functions \ {"restart_corosync"}) \cup {"none"},
                           pc : Steps, node : Nodes, via : {"ring", "alt"},
                           held : SUBSET Everything, link : BOOLEAN,
                           output : 0 .. MaxOutput, rc : Promise!Errors \cup {Promise!CS_OK, 0},
                           done : 0 .. 2, obeyed : BOOLEAN]]
  /\ was \in [Clients -> [daemon : {"down", "up", "stopping"}, eth1 : BOOLEAN] \cup {Disturbed}]

\* Each call, however it interleaves with others and wherever it fails, is a
\* call of RemoteCommands.
KeepsPromise == Promise!Spec

\* A call that returns holds no channel, and it holds a session exactly if the
\* authentication failed (ssh_manager.c:43 and its three copies return without
\* free_session).
OnlyAuthFailureLeaks ==
  \A c \in Clients : At(c, "idle") =>
    call[c].held = IF call[c].rc = Promise!CL_SSH_AUTH_ERR THEN {"session"} ELSE {}

\* What becomes of a daemon that nobody commands: one shutting down gets there.
Settles(d) == IF d = "stopping" THEN {"stopping", "down"} ELSE {d}

\* The effect of function f on a node in state s.
Effect(f, s) ==
  /\ f \in {"start_corosync", "restart_corosync"} => s.daemon = "up"
  /\ f = "stop_corosync" => s.daemon # "up"
  /\ f = "kill_conn" => ~s.eth1
  /\ f = "start_conn" => s.eth1

\* How the code of a call, whichever of its steps failed, and the state it leaves
\* its node in hang together, if no other process commands the node meanwhile.
\* CS_OK: the effect is there if the node obeyed each command; if it did not, and
\* no code looks at the exit status, the one command of a function other than
\* restart has left the node as it was.  An error, other than that of exec if its
\* answer can be lost: so it has, and a restart may have stopped a daemon but has not
\* started one.  Whatever the code, a function that commands the daemon leaves eth1 alone, and one that
\* commands eth1 the daemon.
CodeTellsNode ==
  \A c \in Clients : At(c, "idle") /\ call[c].rc # 0 /\ was[c] # Disturbed =>
    LET f == call[c].fn rc == call[c].rc is == State(call[c].node)
        untouched == is.eth1 = was[c].eth1 /\ is.daemon \in Settles(was[c].daemon)
    IN
    /\ rc = Promise!CS_OK /\ call[c].obeyed => Effect(f, is)
    /\ rc = Promise!CS_OK /\ ~call[c].obeyed /\ f # "restart_corosync" => untouched
    /\ rc # Promise!CS_OK /\ (rc = Promise!CL_SSH_COMMAND_EXEC_FAIL => ~MayLose) =>
         IF f = "restart_corosync" THEN is.daemon = "up" => was[c].daemon = "up" ELSE untouched
    /\ f \in {"kill_conn", "start_conn"} => is.daemon \in Settles(was[c].daemon)
    /\ f \notin {"kill_conn", "start_conn"} => is.eth1 = was[c].eth1

\* "returns 0 on success or client_error_t on failure" (ssh_manager.h:19): a
\* call whose link is lost comes back with an error.
LostLinkIsReported ==
  \A c \in Clients :
    call[c].pc \in {"auth", "open", "exec", "read"} /\ ~call[c].link ~> call[c].pc = "idle"
=============================================================================
