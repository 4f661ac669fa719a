-------------------------- MODULE SshManagerProofs --------------------------
(***************************************************************************)
(* Theorems about SshManager, for any processes and nodes, any amount of   *)
(* output, and whatever fails or is lost.                                  *)
(***************************************************************************)
EXTENDS SshManager, TLAPS

\* The steps before the command of the running function is executed.
Before == {"new", "connect", "auth", "channel", "open", "exec"}

\* How many commands of its function a process has had executed.
Done(c) ==
  IF call[c].pc = "idle" THEN 0
  ELSE IF call[c].fn = "restart_corosync" /\ call[c].cmd = "start_corosync"
  THEN IF call[c].pc = "read" THEN 2 ELSE 1
  ELSE IF call[c].pc \in {"read", "sleep"} THEN 1 ELSE 0

\* What a process is executing, and what it holds at each step.
ControlInv(c) ==
  /\ call[c].pc = "idle" <=> call[c].cmd = "none"
  /\ call[c].pc # "idle" => call[c].fn \in Functions /\ call[c].rc = 0
  /\ call[c].pc # "idle" /\ call[c].fn # "restart_corosync" => call[c].cmd = call[c].fn
  /\ call[c].pc # "idle" /\ call[c].fn = "restart_corosync" =>
       call[c].cmd \in {"stop_corosync", "start_corosync"}
  /\ call[c].pc = "sleep" => call[c].fn = "restart_corosync" /\ call[c].cmd = "stop_corosync"
  /\ call[c].done = Done(c)
  /\ call[c].done = 0 /\ call[c].pc # "idle" => call[c].obeyed

HeldInv(c) ==
  /\ call[c].pc \in {"new", "sleep"} => call[c].held = {}
  /\ call[c].pc \in {"connect", "auth", "channel"} => call[c].held = {"session"}
  /\ call[c].pc \in {"open", "exec", "read"} => call[c].held = Everything
  /\ call[c].pc = "idle" =>
       call[c].held = IF call[c].rc = Promise!CL_SSH_AUTH_ERR THEN {"session"} ELSE {}

\* Nothing but a daemon that goes on shutting down has changed on the node of c
\* since its call began.
Untouched(c) ==
  /\ eth1[call[c].node] = was[c].eth1
  /\ daemon[call[c].node] \in Settles(was[c].daemon)

NotStarted(c) == daemon[call[c].node] = "up" => was[c].daemon = "up"

\* What is known of a node that c alone commands, while its call runs: how the
\* commands executed so far have left it.
RunningInv(c) ==
  /\ call[c].fn # "restart_corosync" /\ call[c].pc \in Before => Untouched(c)
  /\ call[c].fn # "restart_corosync" /\ call[c].pc = "read" /\ ~call[c].obeyed => Untouched(c)
  /\ call[c].pc = "read" /\ call[c].obeyed => Effect(call[c].cmd, State(call[c].node))
  /\ call[c].fn = "restart_corosync" /\ call[c].pc \in Before \cup {"sleep"} => NotStarted(c)
  /\ call[c].fn = "restart_corosync" /\ call[c].pc = "read" /\ call[c].cmd = "stop_corosync" =>
       NotStarted(c)

\* And once it has returned.
ReturnedInv(c) ==
  /\ call[c].rc = Promise!CS_OK /\ call[c].obeyed => Effect(call[c].fn, State(call[c].node))
  /\ call[c].rc = Promise!CS_OK /\ ~call[c].obeyed /\ call[c].fn # "restart_corosync" =>
       Untouched(c)
  /\ call[c].rc # Promise!CS_OK /\ (call[c].rc = Promise!CL_SSH_COMMAND_EXEC_FAIL => ~MayLose) =>
       IF call[c].fn = "restart_corosync" THEN NotStarted(c) ELSE Untouched(c)

\* And always: a function leaves alone what it does not command.
AloneInv(c) ==
  /\ call[c].fn \in {"kill_conn", "start_conn"} =>
       daemon[call[c].node] \in Settles(was[c].daemon)
  /\ call[c].fn \notin {"kill_conn", "start_conn"} => eth1[call[c].node] = was[c].eth1

NodeInv(c) ==
  was[c] # Disturbed =>
    /\ AloneInv(c)
    /\ call[c].pc # "idle" => RunningInv(c)
    /\ call[c].pc = "idle" => ReturnedInv(c)

ClientInv(c) == ControlInv(c) /\ HeldInv(c) /\ NodeInv(c)

IInv == TypeOK /\ \A c \in Clients : ClientInv(c)

-----------------------------------------------------------------------------
(* Types                                                                   *)

NodeStates == [daemon : {"down", "up", "stopping"}, eth1 : BOOLEAN]

Records == [fn : Functions \cup {"none"},
            cmd : (Functions \ {"restart_corosync"}) \cup {"none"},
            pc : Steps, node : Nodes, via : {"ring", "alt"},
            held : SUBSET Everything, link : BOOLEAN,
            output : 0 .. MaxOutput, rc : Promise!Errors \cup {Promise!CS_OK, 0},
            done : 0 .. 2, obeyed : BOOLEAN]

Codes == Promise!Errors \cup {Promise!CS_OK}

\* The record of a call that returns, or goes on to the sleep of a restart.
LEMMA ReturnType ==
  ASSUME TypeOK, NEW c \in Clients, NEW code \in Codes, NEW freed, Return(c, code, freed)
  PROVE  call' \in [Clients -> Records]
<1> DEFINE back == [call[c] EXCEPT !.held = @ \ freed, !.link = FALSE, !.output = 0]
<1>1. call[c] \in Records
  BY DEF TypeOK, Records
<1>2. back \in Records
  <2>1. call[c].held \ freed \in SUBSET Everything /\ 0 \in 0 .. MaxOutput
    BY <1>1, SshAssumption DEF Records
  <2> QED
    BY <1>1, <2>1 DEF Records
<1>3. /\ [back EXCEPT !.pc = "sleep"] \in Records
      /\ [back EXCEPT !.pc = "idle", !.cmd = "none", !.via = "alt", !.done = 0, !.rc = code] \in Records
  <2>1. 0 \in 0 .. 2 /\ "alt" \in {"ring", "alt"} /\ "none" \in {"none"} /\ code \in Codes
    OBVIOUS
  <2>2. [back EXCEPT !.pc = "sleep"] \in Records
    BY <1>2 DEF Records, Steps
  <2> HIDE DEF back
  <2> QED
    BY <1>2, <2>1, <2>2 DEF Records, Codes, Steps
<1> HIDE DEF back
<1> QED
  BY <1>3 DEF Return, back, TypeOK, Records

LEMMA GetsType ==
  ASSUME TypeOK, NEW c \in Clients, NEW what \in Everything, NEW step \in Steps,
         Gets(c, what, step)
  PROVE  call' \in [Clients -> Records]
<1> DEFINE r == [call[c] EXCEPT !.held = @ \cup {what}, !.pc = step]
<1>1. call[c] \in Records /\ call[c].held \cup {what} \in SUBSET Everything
  BY DEF TypeOK, Records
<1>2. r \in Records
  BY <1>1 DEF Records
<1>3. call' = [call EXCEPT ![c] = r]
  BY DEF Gets
<1> HIDE DEF r
<1> QED
  BY <1>2, <1>3 DEF TypeOK, Records

\* The call of c once its command was executed, the node obeying or not.
Executed(c, ok, k) ==
  call' = [call EXCEPT ![c].output = k, ![c].done = @ + 1, ![c].obeyed = @ /\ ok, ![c].pc = "read"]

LEMMA ExecutedShape ==
  ASSUME TypeOK, NEW c \in Clients, NEW ok \in BOOLEAN, NEW k, Executed(c, ok, k)
  PROVE  /\ call'[c].fn = call[c].fn /\ call'[c].cmd = call[c].cmd
         /\ call'[c].node = call[c].node /\ call'[c].held = call[c].held
         /\ call'[c].rc = call[c].rc /\ call'[c].pc = "read"
         /\ call'[c].done = call[c].done + 1
         /\ call'[c].obeyed => call[c].obeyed /\ ok
         /\ ~call'[c].obeyed => ~call[c].obeyed \/ ~ok
         /\ \A d \in Clients \ {c} : call'[d] = call[d]
         /\ k \in 0 .. MaxOutput /\ call[c].done < 2 => call' \in [Clients -> Records]
<1> DEFINE e == [call[c] EXCEPT !.output = k, !.done = @ + 1, !.obeyed = @ /\ ok, !.pc = "read"]
<1>1. call[c] \in Records /\ call \in [Clients -> Records]
  BY DEF TypeOK, Records
<1>2. call' = [call EXCEPT ![c] = e]
  BY DEF Executed
<1>3. call'[c] = e /\ \A d \in Clients \ {c} : call'[d] = call[d]
  BY <1>1, <1>2
<1>4. /\ e.fn = call[c].fn /\ e.cmd = call[c].cmd /\ e.node = call[c].node
      /\ e.held = call[c].held /\ e.rc = call[c].rc /\ e.pc = "read"
      /\ e.done = call[c].done + 1
      /\ e.obeyed = (call[c].obeyed /\ ok)
  BY <1>1 DEF Records
<1>5. ASSUME k \in 0 .. MaxOutput, call[c].done < 2 PROVE e \in Records
  <2>1. call[c].done + 1 \in 0 .. 2 /\ (call[c].obeyed /\ ok) \in BOOLEAN /\ "read" \in Steps
    BY <1>1, <1>5 DEF Records, Steps
  <2> QED
    BY <1>1, <1>5, <2>1 DEF Records
<1>6. k \in 0 .. MaxOutput /\ call[c].done < 2 => call' \in [Clients -> Records]
  BY <1>1, <1>2, <1>5
<1> HIDE DEF e
<1>7. call'[c].obeyed = (call[c].obeyed /\ ok)
  BY <1>3, <1>4
<1> QED
  BY <1>3, <1>4, <1>6, <1>7

\* A command leaves the nodes in their types.
LEMMA ObeyType ==
  ASSUME TypeOK, NEW cmd, NEW n \in Nodes, Promise!Obey(cmd, n)
  PROVE  daemon' \in [Nodes -> {"down", "up", "stopping"}] /\ eth1' \in [Nodes -> BOOLEAN]
  BY DEF TypeOK, Promise!Obey, Promise!StartDaemon, Promise!StopDaemon, Promise!IfDown,
     Promise!IfUp

\* No step leaves the types.
LEMMA TypeStep ==
  ASSUME TypeOK, NEW c \in Clients, ControlInv(c),
         \/ \E f \in Commands[c], n \in Nodes, a \in Addresses : Call(c, f, n, a)
         \/ Step(c)
         \/ LoseLink(c)
  PROVE  TypeOK'
<1> USE DEF Node
<1>0. /\ call[c] \in Records /\ Codes = Promise!Errors \cup {Promise!CS_OK}
      /\ TypeOK = (/\ daemon \in [Nodes -> {"down", "up", "stopping"}]
                   /\ eth1 \in [Nodes -> BOOLEAN]
                   /\ call \in [Clients -> Records]
                   /\ was \in [Clients -> NodeStates \cup {Disturbed}])
  BY DEF TypeOK, Records, Codes, NodeStates
<1>1. ASSUME UNCHANGED Node, call' \in [Clients -> Records] PROVE TypeOK'
  BY <1>1 DEF TypeOK, Records
<1>2. ASSUME UNCHANGED Node, NEW code \in Codes, NEW freed, Return(c, code, freed)
      PROVE  TypeOK'
  BY <1>1, <1>2, ReturnType
<1>3. ASSUME NEW f \in Commands[c], NEW n \in Nodes, NEW a \in Addresses, Call(c, f, n, a)
      PROVE  TypeOK'
  <2>1. f \in Functions /\ a \in {"ring", "alt"} /\ FirstCommand(f) \in Functions \ {"restart_corosync"}
    BY SshAssumption DEF FirstCommand, Functions
  <2>2. call' \in [Clients -> Records]
    BY <1>0, <1>3, <2>1 DEF Call, Records, Steps, TypeOK
  <2>3. was' \in [Clients -> NodeStates \cup {Disturbed}]
    <3>1. State(n) \in NodeStates
      BY <1>0, Zenon DEF State, NodeStates
    <3> QED
      BY <1>0, <1>3, <3>1 DEF Call
  <2> QED
    BY <1>3, <2>2, <2>3 DEF Call, TypeOK, Records, NodeStates
<1>4. CASE NewSession(c)
  <2>1. CASE Gets(c, "session", "connect")
    BY <1>1, <1>4, <2>1, GetsType DEF NewSession, Steps, Everything
  <2> QED
    BY <1>2, <1>4, <2>1 DEF NewSession, Codes, Promise!Errors
<1>5. CASE Connect(c)
  <2>1. CASE call' = [call EXCEPT ![c].link = TRUE, ![c].pc = "auth"]
    BY <1>0, <1>1, <1>5, <2>1 DEF Connect, TypeOK, Records, Steps
  <2> QED
    BY <1>2, <1>5, <2>1 DEF Connect, Codes, Promise!Errors
<1>6. CASE Authenticate(c)
  <2>1. CASE Goto(c, "channel")
    BY <1>0, <1>1, <1>6, <2>1 DEF Authenticate, Goto, TypeOK, Records, Steps
  <2> QED
    BY <1>2, <1>6, <2>1 DEF Authenticate, Codes, Promise!Errors
<1>7. CASE NewChannel(c)
  <2>1. CASE Gets(c, "channel", "open")
    BY <1>1, <1>7, <2>1, GetsType DEF NewChannel, Steps, Everything
  <2> QED
    BY <1>2, <1>7, <2>1 DEF NewChannel, Codes, Promise!Errors
<1>8. CASE OpenChannel(c)
  <2>1. CASE Goto(c, "exec")
    BY <1>0, <1>1, <1>8, <2>1 DEF OpenChannel, Goto, TypeOK, Records, Steps
  <2> QED
    BY <1>2, <1>8, <2>1 DEF OpenChannel, Codes, Promise!Errors
<1>9. CASE Exec(c)
  <2>1. call' \in [Clients -> Records]
    <3>1. ASSUME NEW k \in 0 .. MaxOutput, NEW ok \in BOOLEAN, Executed(c, ok, k)
          PROVE  call' \in [Clients -> Records]
      <4>1. call[c].done < 2
        <5>1. call[c].pc = "exec" /\ call[c].done = Done(c)
          BY <1>9 DEF Exec, At, ControlInv
        <5> QED
          BY <5>1 DEF Done
      <4> QED
        BY <3>1, <4>1, ExecutedShape
    <3>2. CASE Return(c, Promise!CL_SSH_COMMAND_EXEC_FAIL, Everything)
      BY <3>2, ReturnType DEF Codes, Promise!Errors
    <3> QED
      BY <1>9, <3>1, <3>2 DEF Exec, Executed
  <2>2. CASE UNCHANGED Node
    BY <1>1, <2>1, <2>2
  <2>3. ASSUME NEW ok \in BOOLEAN, Run(c, ok) PROVE TypeOK'
    <3>1. daemon' \in [Nodes -> {"down", "up", "stopping"}] /\ eth1' \in [Nodes -> BOOLEAN]
      BY <1>0, <2>3, ObeyType DEF Run, Records
    <3>2. was' \in [Clients -> NodeStates \cup {Disturbed}]
      BY <1>0, <2>3 DEF Run
    <3> QED
      BY <2>1, <3>1, <3>2 DEF TypeOK, Records, NodeStates
  <2> QED
    BY <1>9, <2>2, <2>3 DEF Exec
<1>10. CASE Read(c)
  <2>1. CASE Return(c, Promise!CS_OK, Everything)
    BY <1>2, <1>10, <2>1 DEF Read, Codes
  <2>2. CASE call' = [call EXCEPT ![c].output = @ - 1] /\ call[c].output > 0
    <3>1. call[c].output - 1 \in 0 .. MaxOutput
      BY <1>0, <2>2, SshAssumption DEF Records
    <3>2. [call[c] EXCEPT !.output = @ - 1] \in Records
      BY <1>0, <3>1 DEF Records
    <3>3. call' \in [Clients -> Records]
      BY <1>0, <2>2, <3>2
    <3> QED
      BY <1>1, <1>10, <3>3 DEF Read
  <2>3. CASE call' = [call EXCEPT ![c].output = @]
    BY <1>0, <1>1, <1>10, <2>3 DEF Read, TypeOK, Records
  <2> QED
    BY <1>10, <2>1, <2>2, <2>3 DEF Read
<1>11. CASE Sleep(c)
  <2>1. call' \in [Clients -> Records]
    <3>1. "start_corosync" \in Functions \ {"restart_corosync"} /\ "new" \in Steps
      BY DEF Functions, Steps
    <3> QED
      BY <1>0, <1>11, <3>1 DEF Sleep, TypeOK, Records
  <2> QED
    BY <1>1, <1>11, <2>1 DEF Sleep
<1>12. CASE LoseLink(c)
  <2>1. call' \in [Clients -> Records]
    BY <1>0, <1>12 DEF LoseLink, TypeOK, Records
  <2> QED
    BY <1>1, <1>12, <2>1 DEF LoseLink
<1> QED
  BY <1>3, <1>4, <1>5, <1>6, <1>7, <1>8, <1>9, <1>10, <1>11, <1>12 DEF Step

-----------------------------------------------------------------------------
(* What a step does                                                        *)

Act(c) ==
  \/ \E f \in Commands[c], n \in Nodes, a \in Addresses : Call(c, f, n, a)
  \/ Step(c)
  \/ LoseLink(c)

\* A function that returns frees something; a stop that restart_corosync called
\* goes on to the sleep when it succeeded, all else ends the call.
LEMMA ReturnShape ==
  ASSUME TypeOK, NEW c \in Clients, NEW code, NEW freed, Return(c, code, freed)
  PROVE  /\ call'[c].fn = call[c].fn /\ call'[c].node = call[c].node
         /\ call'[c].held = call[c].held \ freed
         /\ IF Restarts(c, code)
              THEN /\ call'[c].pc = "sleep" /\ call'[c].cmd = call[c].cmd
                   /\ call'[c].rc = call[c].rc /\ call'[c].done = call[c].done
              ELSE /\ call'[c].pc = "idle" /\ call'[c].cmd = "none" /\ call'[c].rc = code
                   /\ call'[c].done = 0
         /\ call'[c].obeyed = call[c].obeyed
         /\ \A d \in Clients \ {c} : call'[d] = call[d]
<1> DEFINE back == [call[c] EXCEPT !.held = @ \ freed, !.link = FALSE, !.output = 0]
           r == IF Restarts(c, code) THEN [back EXCEPT !.pc = "sleep"]
                ELSE [back EXCEPT !.pc = "idle", !.cmd = "none", !.via = "alt", !.done = 0, !.rc = code]
<1>1. call' = [call EXCEPT ![c] = r]
  BY DEF Return
<1>2. call[c] \in Records
  BY DEF TypeOK, Records
<1>3. /\ r.fn = call[c].fn /\ r.node = call[c].node /\ r.held = call[c].held \ freed
      /\ IF Restarts(c, code)
           THEN /\ r.pc = "sleep" /\ r.cmd = call[c].cmd /\ r.rc = call[c].rc
                /\ r.done = call[c].done
           ELSE r.pc = "idle" /\ r.cmd = "none" /\ r.rc = code /\ r.done = 0
      /\ r.obeyed = call[c].obeyed
  BY <1>2 DEF Records
<1> HIDE DEF r
<1> QED
  BY <1>1, <1>3 DEF TypeOK

\* A node that obeys a command has the effect, of the daemon or of eth1, and no
\* other node changes.
LEMMA ObeyEffect ==
  ASSUME TypeOK, NEW cmd, NEW n \in Nodes, Promise!Obey(cmd, n)
  PROVE  /\ cmd \in {"start_corosync", "stop_corosync"} => eth1' = eth1
         /\ cmd \in {"kill_conn", "start_conn"} => daemon' = daemon
         /\ cmd = "start_corosync" => daemon'[n] = "up"
         /\ cmd = "stop_corosync" => daemon'[n] # "up"
         /\ cmd = "kill_conn" => ~eth1'[n]
         /\ cmd = "start_conn" => eth1'[n]
         /\ \A m \in Nodes \ {n} : daemon'[m] = daemon[m] /\ eth1'[m] = eth1[m]
<1> USE DEF Promise!Obey
<1>1. CASE cmd = "start_corosync" /\ Promise!StartDaemon(n)
  BY <1>1 DEF TypeOK, Promise!StartDaemon
<1>2. CASE cmd = "stop_corosync" /\ Promise!StopDaemon(n)
  BY <1>2 DEF TypeOK, Promise!StopDaemon
<1>3. CASE cmd = "kill_conn" /\ Promise!IfDown(n)
  BY <1>3 DEF TypeOK, Promise!IfDown
<1>4. CASE cmd = "start_conn" /\ Promise!IfUp(n)
  BY <1>4 DEF TypeOK, Promise!IfUp
<1> QED
  BY <1>1, <1>2, <1>3, <1>4

\* A process that runs a command disturbs the calls of others on its node.
LEMMA RunDisturbs ==
  ASSUME NEW c \in Clients, NEW ok \in BOOLEAN, Run(c, ok), NEW d \in Clients,
         was'[d] # Disturbed
  PROVE  was'[d] = was[d] /\ (d = c \/ call[d].node # call[c].node)
  BY Zenon DEF Run

-----------------------------------------------------------------------------
(* Each step keeps what is known of the process that takes it              *)

LEMMA ControlStep ==
  ASSUME IInv, NEW c \in Clients, Act(c)
  PROVE  ControlInv(c)' /\ HeldInv(c)'
<1> USE DEF IInv, ClientInv, ControlInv, HeldInv, Done
<1>0. call[c] \in Records /\ Promise!CS_OK # Promise!CL_SSH_AUTH_ERR /\ 0 # Promise!CL_SSH_AUTH_ERR
  BY DEF TypeOK, Records, Promise!CS_OK, Promise!CL_SSH_AUTH_ERR
<1>1. ASSUME NEW f \in Commands[c], NEW n \in Nodes, NEW a \in Addresses, Call(c, f, n, a)
      PROVE  ControlInv(c)' /\ HeldInv(c)'
  <2>1. f \in Functions
    BY SshAssumption
  <2>2. /\ call'[c].fn = f /\ call'[c].cmd = FirstCommand(f) /\ call'[c].pc = "new"
        /\ call'[c].held = {} /\ call'[c].rc = 0 /\ call'[c].obeyed
        /\ call'[c].done = call[c].done /\ call[c].pc = "idle"
    BY <1>0, <1>1 DEF Call, TypeOK, At
  <2>3. call[c].done = 0
    BY <2>2
  <2> QED
    BY <2>1, <2>2, <2>3 DEF FirstCommand, Functions
<1>2. ASSUME NEW code \in Promise!Errors \ {Promise!CL_SSH_AUTH_ERR}, NEW freed,
             Return(c, code, freed), call[c].held \subseteq freed
      PROVE  ControlInv(c)' /\ HeldInv(c)'
  <2>1. ~Restarts(c, code)
    BY DEF Restarts, Promise!CS_OK, Promise!Errors, Promise!CL_SSH_CONN_ERR, Promise!CL_SSH_AUTH_ERR,
       Promise!CL_SSH_CREATE_CHANNEL_ERR, Promise!CL_SSH_OPEN_CHANNEL_ERR,
       Promise!CL_SSH_COMMAND_EXEC_FAIL
  <2>2. call[c].held \ freed = {}
    BY <1>2
  <2>3. /\ call'[c].pc = "idle" /\ call'[c].cmd = "none" /\ call'[c].rc = code
        /\ call'[c].held = {} /\ call'[c].done = 0
    BY <1>2, <2>1, <2>2, ReturnShape
  <2> QED
    BY <2>3
<1>3. {Promise!CL_SSH_CONN_ERR, Promise!CL_SSH_CREATE_CHANNEL_ERR, Promise!CL_SSH_OPEN_CHANNEL_ERR,
       Promise!CL_SSH_COMMAND_EXEC_FAIL} \subseteq Promise!Errors \ {Promise!CL_SSH_AUTH_ERR}
  BY DEF Promise!Errors, Promise!CL_SSH_CONN_ERR, Promise!CL_SSH_AUTH_ERR,
     Promise!CL_SSH_CREATE_CHANNEL_ERR, Promise!CL_SSH_OPEN_CHANNEL_ERR,
     Promise!CL_SSH_COMMAND_EXEC_FAIL
<1>4. CASE NewSession(c)
  BY <1>0, <1>2, <1>3, <1>4 DEF NewSession, At, Gets, TypeOK, Records
<1>5. CASE Connect(c)
  BY <1>0, <1>2, <1>3, <1>5 DEF Connect, At, TypeOK, Records
<1>6. CASE Authenticate(c)
  <2>1. CASE Return(c, Promise!CL_SSH_AUTH_ERR, {})
    <3>1. ~Restarts(c, Promise!CL_SSH_AUTH_ERR)
      BY <1>0 DEF Restarts
    <3> QED
      BY <1>6, <2>1, <3>1, ReturnShape, call'[c].held = {"session"} DEF Authenticate, At
  <2>2. CASE Goto(c, "channel")
    BY <1>0, <1>6, <2>2 DEF Authenticate, At, Goto, TypeOK, Records
  <2> QED
    BY <1>6, <2>1, <2>2 DEF Authenticate
<1>7. CASE NewChannel(c)
  BY <1>0, <1>2, <1>3, <1>7 DEF NewChannel, At, Gets, TypeOK, Records, Everything
<1>8. CASE OpenChannel(c)
  BY <1>0, <1>2, <1>3, <1>8 DEF OpenChannel, At, Goto, TypeOK, Records
<1>9. CASE Exec(c)
  <2>1. CASE Return(c, Promise!CL_SSH_COMMAND_EXEC_FAIL, Everything)
    BY <1>2, <1>3, <1>9, <2>1 DEF Exec, At
  <2>2. ASSUME NEW ok \in BOOLEAN, NEW k, Executed(c, ok, k)
        PROVE  ControlInv(c)' /\ HeldInv(c)'
    <3>1. /\ call'[c].fn = call[c].fn /\ call'[c].cmd = call[c].cmd /\ call'[c].pc = "read"
          /\ call'[c].held = call[c].held /\ call'[c].rc = call[c].rc
          /\ call'[c].done = call[c].done + 1
      BY <2>2, ExecutedShape
    <3>2. call[c].pc = "exec"
      BY <1>9 DEF Exec, At
    <3>3. ControlInv(c) /\ HeldInv(c)
      OBVIOUS
    <3> HIDE DEF IInv, ClientInv
    <3> QED
      BY <3>1, <3>2, <3>3
  <2> QED
    BY <1>9, <2>1, <2>2 DEF Exec, Executed
<1>10. CASE Read(c)
  <2>1. CASE Return(c, Promise!CS_OK, Everything)
    <3>1. call'[c].held = {} /\ call[c].pc = "read"
      BY <1>10, <2>1, ReturnShape DEF Read, At
    <3>2. CASE Restarts(c, Promise!CS_OK)
      BY <2>1, <3>1, <3>2, ReturnShape DEF Restarts
    <3>3. CASE ~Restarts(c, Promise!CS_OK)
      BY <1>0, <2>1, <3>1, <3>3, ReturnShape
    <3> QED
      BY <3>2, <3>3
  <2>2. CASE \E k : call' = [call EXCEPT ![c].output = k]
    BY <1>0, <1>10, <2>2 DEF Read, At, TypeOK, Records
  <2> QED
    BY <1>10, <2>1, <2>2 DEF Read
<1>11. CASE Sleep(c)
  BY <1>0, <1>11 DEF Sleep, At, TypeOK, Records
<1>12. CASE LoseLink(c)
  BY <1>0, <1>12 DEF LoseLink, TypeOK, Records
<1> QED
  BY <1>1, <1>4, <1>5, <1>6, <1>7, <1>8, <1>9, <1>10, <1>11, <1>12 DEF Act, Step

\* What is known of the node stays so while nobody commands it.
LEMMA SameKeeps ==
  ASSUME NEW d \in Clients, NodeInv(d), was'[d] # Disturbed => was'[d] = was[d],
         call'[d].pc = call[d].pc, call'[d].fn = call[d].fn, call'[d].cmd = call[d].cmd,
         call'[d].node = call[d].node, call'[d].rc = call[d].rc,
         call'[d].obeyed = call[d].obeyed,
         was'[d] # Disturbed => /\ daemon'[call[d].node] = daemon[call[d].node]
                                /\ eth1'[call[d].node] = eth1[call[d].node]
  PROVE  NodeInv(d)'
<1> SUFFICES ASSUME was'[d] # Disturbed
             PROVE  /\ AloneInv(d)'
                    /\ call'[d].pc # "idle" => RunningInv(d)'
                    /\ call'[d].pc = "idle" => ReturnedInv(d)'
  BY DEF NodeInv
<1>1. /\ AloneInv(d)
      /\ call[d].pc # "idle" => RunningInv(d)
      /\ call[d].pc = "idle" => ReturnedInv(d)
  BY DEF NodeInv
<1>2. AloneInv(d)' /\ (Untouched(d) <=> Untouched(d)') /\ (NotStarted(d) <=> NotStarted(d)')
  BY <1>1 DEF AloneInv, Untouched, NotStarted
<1>3. \A f : Effect(f, State(call[d].node)) <=> Effect(f, State(call[d].node)')
  BY DEF Effect, State
<1>4. call'[d].pc # "idle" => RunningInv(d)'
  BY <1>1, <1>2, <1>3 DEF RunningInv
<1>5. call'[d].pc = "idle" => ReturnedInv(d)'
  BY <1>1, <1>2, <1>3 DEF ReturnedInv
<1> QED
  BY <1>2, <1>4, <1>5

\* What a step does to the node, for the process that takes it.
LEMMA NodeStep ==
  ASSUME IInv, NEW c \in Clients, Act(c)
  PROVE  NodeInv(c)'
<1> USE DEF IInv, ClientInv
<1>0. call[c] \in Records /\ call[c].node \in Nodes
  BY DEF TypeOK, Records
<1>1. ASSUME NEW f \in Commands[c], NEW n \in Nodes, NEW a \in Addresses, Call(c, f, n, a)
      PROVE  NodeInv(c)'
  <2>1. /\ call'[c].pc = "new" /\ call'[c].node = n /\ daemon' = daemon /\ eth1' = eth1
        /\ was'[c].daemon = daemon[n] /\ was'[c].eth1 = eth1[n]
    BY <1>0, <1>1, Zenon DEF Call, TypeOK, State
  <2>2. Untouched(c)' /\ NotStarted(c)'
    BY <2>1 DEF Untouched, NotStarted, Settles
  <2> QED
    BY <2>1, <2>2 DEF NodeInv, RunningInv, AloneInv, Untouched, Before
<1>2. ASSUME UNCHANGED Node, call'[c].pc \in Before, call[c].pc \in Before,
             call'[c].fn = call[c].fn, call'[c].cmd = call[c].cmd, call'[c].node = call[c].node
      PROVE  NodeInv(c)'
  BY <1>2 DEF NodeInv, RunningInv, AloneInv, Untouched, NotStarted, Before, Node
<1>3. ASSUME NEW code \in Promise!Errors, NEW freed, Return(c, code, freed)
      PROVE  call'[c].pc = "idle" /\ call'[c].rc = code /\ code # Promise!CS_OK
  <2>1. code # Promise!CS_OK
    BY DEF Promise!CS_OK, Promise!Errors, Promise!CL_SSH_CONN_ERR, Promise!CL_SSH_AUTH_ERR,
       Promise!CL_SSH_CREATE_CHANNEL_ERR, Promise!CL_SSH_OPEN_CHANNEL_ERR,
       Promise!CL_SSH_COMMAND_EXEC_FAIL
  <2> QED
    BY <1>3, <2>1, ReturnShape DEF Restarts
<1>4. ASSUME NEW code \in Promise!Errors, NEW freed, Return(c, code, freed), UNCHANGED Node,
             call[c].pc \in Before
      PROVE  NodeInv(c)'
  <2>1. call'[c].fn = call[c].fn /\ call'[c].node = call[c].node
    BY <1>4, ReturnShape
  <2> QED
    BY <1>3, <1>4, <2>1
    DEF NodeInv, RunningInv, ReturnedInv, AloneInv, Untouched, NotStarted, Before, Node
<1>5. /\ Promise!CL_SSH_CONN_ERR \in Promise!Errors /\ Promise!CL_SSH_AUTH_ERR \in Promise!Errors
      /\ Promise!CL_SSH_CREATE_CHANNEL_ERR \in Promise!Errors
      /\ Promise!CL_SSH_OPEN_CHANNEL_ERR \in Promise!Errors
      /\ Promise!CL_SSH_COMMAND_EXEC_FAIL \in Promise!Errors
  BY DEF Promise!Errors
<1>6. CASE NewSession(c)
  BY <1>0, <1>2, <1>4, <1>5, <1>6 DEF NewSession, At, Gets, Before, TypeOK, Records
<1>7. CASE Connect(c)
  BY <1>0, <1>2, <1>4, <1>5, <1>7 DEF Connect, At, Before, TypeOK, Records
<1>8. CASE Authenticate(c)
  BY <1>0, <1>2, <1>4, <1>5, <1>8 DEF Authenticate, At, Goto, Before, TypeOK, Records
<1>9. CASE NewChannel(c)
  BY <1>0, <1>2, <1>4, <1>5, <1>9 DEF NewChannel, At, Gets, Before, TypeOK, Records
<1>10. CASE OpenChannel(c)
  BY <1>0, <1>2, <1>4, <1>5, <1>10 DEF OpenChannel, At, Goto, Before, TypeOK, Records
<1>11. CASE Exec(c)
  <2>0. call[c].pc = "exec" /\ call[c].cmd \in Functions \ {"restart_corosync"}
    BY <1>0, <1>11 DEF Exec, At, ControlInv, Functions, Records
  <2>1. ASSUME NEW ok \in BOOLEAN, Run(c, ok), call'[c].fn = call[c].fn,
               call'[c].node = call[c].node, was'[c] # Disturbed
        PROVE  /\ was'[c] = was[c] /\ AloneInv(c)'
               /\ ~ok => (Untouched(c) => Untouched(c)') /\ (NotStarted(c) => NotStarted(c)')
               /\ ok => Effect(call[c].cmd, State(call[c].node)')
    <3>1. was'[c] = was[c]
      BY <2>1, RunDisturbs
    <3>2. CASE ok
      <4>1. Promise!Obey(call[c].cmd, call[c].node)
        BY <2>1, <3>2 DEF Run
      <4>2. AloneInv(c)'
        BY <1>0, <2>0, <2>1, <3>1, <4>1, ObeyEffect DEF NodeInv, AloneInv, ControlInv, Functions
      <4>3. Effect(call[c].cmd, State(call[c].node)')
        BY <1>0, <2>0, <2>1, <4>1, ObeyEffect, call'[c].node = call[c].node
        DEF Effect, State
      <4> QED
        BY <3>1, <3>2, <4>2, <4>3
    <3>3. CASE ~ok
      <4>1. UNCHANGED <<daemon, eth1>>
        BY <2>1, <3>3 DEF Run
      <4> QED
        BY <2>1, <3>1, <3>3, <4>1 DEF NodeInv, AloneInv, Untouched, NotStarted
    <3> QED
      BY <3>2, <3>3
  <2>2. ASSUME MayLose, Return(c, Promise!CL_SSH_COMMAND_EXEC_FAIL, Everything),
               NEW ok \in BOOLEAN, Run(c, ok)
        PROVE  NodeInv(c)'
    <3>1. call'[c].fn = call[c].fn /\ call'[c].node = call[c].node
      BY <2>2, ReturnShape
    <3> QED
      BY <1>3, <1>5, <2>1, <2>2, <3>1 DEF NodeInv, ReturnedInv
  <2>3. ASSUME NEW ok \in BOOLEAN, Run(c, ok), NEW k, Executed(c, ok, k)
        PROVE  NodeInv(c)'
    <3>1. /\ call'[c].pc = "read" /\ call'[c].cmd = call[c].cmd
          /\ call'[c].fn = call[c].fn /\ call'[c].node = call[c].node
          /\ call'[c].obeyed => ok
          /\ ~call'[c].obeyed => ~call[c].obeyed \/ ~ok
      BY <2>3, ExecutedShape
    <3> SUFFICES ASSUME was'[c] # Disturbed PROVE AloneInv(c)' /\ RunningInv(c)'
      BY <3>1 DEF NodeInv
    <3>2. /\ was'[c] = was[c] /\ AloneInv(c)'
          /\ ~ok => (Untouched(c) => Untouched(c)') /\ (NotStarted(c) => NotStarted(c)')
          /\ ok => Effect(call[c].cmd, State(call[c].node)')
      BY <2>1, <2>3, <3>1
    <3>3. RunningInv(c)
      BY <2>0, <3>2 DEF NodeInv
    <3>4. call[c].fn # "restart_corosync" => call[c].obeyed
      BY <2>0 DEF ControlInv, Done
    <3>5. ok /\ call[c].cmd = "stop_corosync" => NotStarted(c)'
      BY <3>1, <3>2 DEF Effect, State, NotStarted
    <3> QED
      BY <2>0, <3>1, <3>2, <3>3, <3>4, <3>5 DEF RunningInv, Before
  <2> QED
    BY <1>4, <1>5, <1>11, <2>0, <2>2, <2>3 DEF Exec, Executed, Before
<1>12. CASE Read(c)
  <2>1. call[c].pc = "read" /\ UNCHANGED Node
    BY <1>12 DEF Read, At
  <2>2. CASE Return(c, Promise!CS_OK, Everything)
    <3>0. /\ call'[c].fn = call[c].fn /\ call'[c].node = call[c].node
          /\ call'[c].obeyed = call[c].obeyed
      BY <2>2, ReturnShape
    <3>1. CASE Restarts(c, Promise!CS_OK)
      <4>1. call'[c].pc = "sleep" /\ call[c].fn = "restart_corosync" /\ call[c].cmd = "stop_corosync"
        BY <2>2, <3>1, ReturnShape DEF Restarts
      <4> QED
        BY <2>1, <3>0, <4>1 DEF NodeInv, RunningInv, AloneInv, NotStarted, Before, Node
    <3>2. CASE ~Restarts(c, Promise!CS_OK)
      <4>1. call'[c].pc = "idle" /\ call'[c].rc = Promise!CS_OK
        BY <2>2, <3>2, ReturnShape
      <4>2. IF call[c].fn = "restart_corosync" THEN call[c].cmd = "start_corosync"
            ELSE call[c].cmd = call[c].fn
        BY <2>1, <3>2 DEF ControlInv, Restarts
      <4>3. Effect(call[c].cmd, State(call[c].node)) => Effect(call[c].fn, State(call[c].node))
        BY <4>2 DEF Effect
      <4>4. was[c] # Disturbed => AloneInv(c) /\ RunningInv(c)
        BY <2>1 DEF NodeInv
      <4>5. Effect(call[c].fn, State(call[c].node))' <=> Effect(call[c].fn, State(call[c].node))
        BY <2>1, <3>0 DEF Effect, State, Node
      <4> QED
        BY <2>1, <3>0, <4>1, <4>3, <4>4, <4>5
        DEF NodeInv, RunningInv, ReturnedInv, AloneInv, Untouched, Node
    <3> QED
      BY <3>1, <3>2
  <2>3. CASE \E k : call' = [call EXCEPT ![c].output = k]
    <3>1. /\ call'[c].pc = "read" /\ call'[c].fn = call[c].fn /\ call'[c].cmd = call[c].cmd
          /\ call'[c].node = call[c].node /\ call'[c].obeyed = call[c].obeyed
      BY <1>0, <2>1, <2>3 DEF TypeOK, Records
    <3>2. Effect(call[c].cmd, State(call[c].node))' <=> Effect(call[c].cmd, State(call[c].node))
      BY <2>1, <3>1 DEF Effect, State, Node
    <3> QED
      BY <2>1, <3>1, <3>2 DEF NodeInv, RunningInv, AloneInv, Untouched, NotStarted, Before, Node
  <2> QED
    BY <1>12, <2>2, <2>3 DEF Read
<1>13. CASE Sleep(c)
  <2>1. /\ call[c].pc = "sleep" /\ call[c].fn = "restart_corosync"
        /\ call'[c].pc = "new" /\ call'[c].cmd = "start_corosync" /\ UNCHANGED Node
        /\ call'[c].fn = call[c].fn /\ call'[c].node = call[c].node
    BY <1>0, <1>13 DEF Sleep, At, ControlInv, TypeOK, Records
  <2> QED
    BY <2>1 DEF NodeInv, RunningInv, AloneInv, NotStarted, Before, Node
<1>14. CASE LoseLink(c)
  <2>1. /\ call'[c].pc = call[c].pc /\ call'[c].fn = call[c].fn /\ call'[c].cmd = call[c].cmd
        /\ call'[c].node = call[c].node /\ call'[c].rc = call[c].rc
        /\ call'[c].obeyed = call[c].obeyed /\ UNCHANGED Node
    BY <1>0, <1>14 DEF LoseLink, TypeOK, Records
  <2> QED
    BY <2>1, SameKeeps DEF Node
<1> QED
  BY <1>1, <1>6, <1>7, <1>8, <1>9, <1>10, <1>11, <1>12, <1>13, <1>14 DEF Act, Step

-----------------------------------------------------------------------------
(* Each step keeps what is known of the other processes                    *)

\* The call of d has not changed, nor has its node unless d is disturbed.
LEMMA OthersUntouched ==
  ASSUME IInv, NEW c \in Clients, Act(c), NEW d \in Clients, d # c
  PROVE  /\ call'[d] = call[d]
         /\ was'[d] # Disturbed => /\ was'[d] = was[d]
                                   /\ daemon'[call[d].node] = daemon[call[d].node]
                                   /\ eth1'[call[d].node] = eth1[call[d].node]
<1> USE DEF IInv, TypeOK
<1>0. call[d].node \in Nodes /\ call[c].node \in Nodes
  OBVIOUS
<1>1. CASE \E f \in Commands[c], n \in Nodes, a \in Addresses : Call(c, f, n, a)
  BY <1>1 DEF Call
<1>2. ASSUME NEW code, NEW freed, Return(c, code, freed) PROVE call'[d] = call[d]
  BY <1>2, ReturnShape
<1>3. call'[d] = call[d]
  BY <1>1, <1>2 DEF Act, Step, Call, NewSession, Connect, Authenticate, NewChannel, OpenChannel, Exec, Read,
     Sleep, LoseLink, Gets, Goto
<1>4. ASSUME NEW ok \in BOOLEAN, Run(c, ok), was'[d] # Disturbed
      PROVE  /\ was'[d] = was[d]
             /\ daemon'[call[d].node] = daemon[call[d].node]
             /\ eth1'[call[d].node] = eth1[call[d].node]
  <2>1. was'[d] = was[d] /\ call[d].node # call[c].node
    BY <1>4, RunDisturbs
  <2>2. \A m \in Nodes \ {call[c].node} : daemon'[m] = daemon[m] /\ eth1'[m] = eth1[m]
    BY <1>0, <1>4, ObeyEffect DEF Run
  <2> QED
    BY <1>0, <2>1, <2>2
<1>5. CASE UNCHANGED Node
  BY <1>3, <1>5 DEF Node
<1> QED
  BY <1>1, <1>3, <1>4, <1>5 DEF Act, Step, NewSession, Connect, Authenticate, NewChannel, OpenChannel, Exec,
     Read, Sleep, LoseLink

\* A call goes on at its node, and no step touches the call of another process.
LEMMA StepShape ==
  ASSUME TypeOK, NEW c \in Clients, Step(c)
  PROVE  /\ call'[c].fn = call[c].fn /\ call'[c].node = call[c].node
         /\ \A d \in Clients \ {c} : call'[d] = call[d]
<1>1. call[c] \in Records
  BY DEF TypeOK, Records
<1>2. ASSUME NEW code, NEW freed, Return(c, code, freed)
      PROVE  /\ call'[c].fn = call[c].fn /\ call'[c].node = call[c].node
             /\ \A d \in Clients \ {c} : call'[d] = call[d]
  BY <1>2, ReturnShape
<1>3. CASE \E code, freed : Return(c, code, freed)
  BY <1>2, <1>3
<1>4. CASE \/ \E what, step : Gets(c, what, step)
           \/ \E step : Goto(c, step)
  BY <1>1, <1>4 DEF Gets, Goto, TypeOK, Records
<1>5. CASE \/ call' = [call EXCEPT ![c].link = TRUE, ![c].pc = "auth"]
           \/ \E ok \in BOOLEAN : \E k : Executed(c, ok, k)
  <2>1. CASE call' = [call EXCEPT ![c].link = TRUE, ![c].pc = "auth"]
    BY <1>1, <2>1 DEF TypeOK, Records
  <2> QED
    BY <1>5, <2>1, ExecutedShape
<1>6. CASE \/ \E k : call' = [call EXCEPT ![c].output = k]
           \/ call' = [call EXCEPT ![c].cmd = "start_corosync", ![c].pc = "new"]
  BY <1>1, <1>6 DEF TypeOK, Records
<1> QED
  BY <1>3, <1>4, <1>5, <1>6 DEF Step, NewSession, Connect, Authenticate, NewChannel, OpenChannel, Exec,
     Executed, Read, Sleep

LEMMA UntouchedKeeps ==
  ASSUME IInv, NEW d \in Clients, call'[d] = call[d],
         was'[d] # Disturbed => /\ was'[d] = was[d]
                                /\ daemon'[call[d].node] = daemon[call[d].node]
                                /\ eth1'[call[d].node] = eth1[call[d].node]
  PROVE  ClientInv(d)'
<1>1. ControlInv(d)' /\ HeldInv(d)'
  BY DEF IInv, ClientInv, ControlInv, HeldInv, Done
<1>2. NodeInv(d)'
  BY SameKeeps DEF IInv, ClientInv
<1> QED
  BY <1>1, <1>2 DEF ClientInv

\* A daemon that shuts down was not up, and is no longer stopping.
LEMMA DaemonStopsKeeps ==
  ASSUME IInv, NEW n \in Nodes, DaemonStops(n)
  PROVE  IInv'
<1>1. /\ UNCHANGED <<call, was, eth1>> /\ daemon[n] = "stopping"
      /\ daemon' = [daemon EXCEPT ![n] = "down"]
  BY DEF DaemonStops, Promise!DaemonStops
<1>2. TypeOK'
  BY <1>1 DEF IInv, TypeOK
<1>3. ASSUME NEW c \in Clients PROVE ClientInv(c)'
  <2>1. ControlInv(c)' /\ HeldInv(c)'
    BY <1>1 DEF IInv, ClientInv, ControlInv, HeldInv, Done
  <2>2. NodeInv(c)'
    <3>1. \/ daemon'[call[c].node] = daemon[call[c].node]
          \/ daemon[call[c].node] = "stopping" /\ daemon'[call[c].node] = "down"
      BY <1>1 DEF IInv, TypeOK
    <3>2. /\ NotStarted(c) => NotStarted(c)'
          /\ Untouched(c) => Untouched(c)'
          /\ AloneInv(c) => AloneInv(c)'
          /\ \A f : Effect(f, State(call[c].node)) => Effect(f, State(call[c].node)')
      BY <1>1, <3>1 DEF NotStarted, Untouched, AloneInv, Effect, State, Settles
    <3>3. was[c] # Disturbed => /\ AloneInv(c)
                                /\ call[c].pc # "idle" => RunningInv(c)
                                /\ call[c].pc = "idle" => ReturnedInv(c)
      BY DEF IInv, ClientInv, NodeInv
    <3>4. RunningInv(c) => RunningInv(c)'
      BY <1>1, <3>2 DEF RunningInv
    <3>5. ReturnedInv(c) => ReturnedInv(c)'
      BY <1>1, <3>2 DEF ReturnedInv
    <3> QED
      BY <1>1, <3>2, <3>3, <3>4, <3>5 DEF NodeInv
  <2> QED
    BY <2>1, <2>2 DEF ClientInv
<1> QED
  BY <1>2, <1>3 DEF IInv

-----------------------------------------------------------------------------
(* The theorems                                                            *)

\* The invariant holds at the start and is kept by every step.
THEOREM Inductive == Spec => []IInv
<1>1. Init => IInv
  <2> SUFFICES ASSUME Init PROVE IInv
    OBVIOUS
  <2> DEFINE First == {[fn |-> "none", cmd |-> "none", pc |-> "idle", node |-> n,
                        via |-> "alt", held |-> {}, link |-> FALSE, output |-> 0,
                        rc |-> 0, done |-> 0, obeyed |-> TRUE] : n \in Nodes}
  <2>1. call \in [Clients -> First]
    BY DEF Init
  <2>2. TypeOK
    <3>1. First \subseteq Records
      <4>1. 0 \in 0 .. MaxOutput /\ {} \in SUBSET Everything /\ "idle" \in Steps
        BY SshAssumption DEF Steps
      <4>2. ASSUME NEW n \in Nodes
            PROVE  [fn |-> "none", cmd |-> "none", pc |-> "idle", node |-> n, via |-> "alt",
                    held |-> {}, link |-> FALSE, output |-> 0, rc |-> 0, done |-> 0, obeyed |-> TRUE] \in Records
        BY <4>1 DEF Records
      <4> QED
        BY <4>2
    <3>2. call \in [Clients -> Records]
      BY <2>1, <3>1
    <3> QED
      BY <3>2 DEF Init, TypeOK, Records, NodeStates
  <2>3. ASSUME NEW c \in Clients PROVE ClientInv(c)
    <3>1. /\ call[c].pc = "idle" /\ call[c].cmd = "none" /\ call[c].held = {}
          /\ call[c].rc = 0 /\ call[c].done = 0 /\ was[c] = Disturbed
      BY <2>1 DEF Init
    <3> QED
      BY <3>1 DEF ClientInv, ControlInv, Done, HeldInv, NodeInv, Promise!CL_SSH_AUTH_ERR
  <2> QED
    BY <2>2, <2>3 DEF IInv
<1>2. IInv /\ [Next]_vars => IInv'
  <2> SUFFICES ASSUME IInv, [Next]_vars PROVE IInv'
    OBVIOUS
  <2>1. ASSUME NEW c \in Clients, Act(c) PROVE IInv'
    <3>1. TypeOK'
      BY <2>1, TypeStep DEF Act, IInv, ClientInv
    <3>2. ClientInv(c)'
      BY <2>1, ControlStep, NodeStep DEF ClientInv
    <3>3. ASSUME NEW d \in Clients, d # c PROVE ClientInv(d)'
      BY <2>1, <3>3, OthersUntouched, UntouchedKeeps
    <3> QED
      BY <3>1, <3>2, <3>3 DEF IInv
  <2>2. CASE UNCHANGED vars
    <3>1. TypeOK'
      BY <2>2 DEF IInv, TypeOK, vars
    <3>2. ASSUME NEW c \in Clients PROVE ClientInv(c)'
      BY <2>2, UntouchedKeeps DEF vars
    <3> QED
      BY <3>1, <3>2 DEF IInv
  <2> QED
    BY <2>1, <2>2, DaemonStopsKeeps DEF Next, Act
<1> QED
  BY <1>1, <1>2, PTL DEF Spec

\* Every reachable state is typed; in particular a call runs only commands of
\* its function.
THEOREM TypeCorrect == Spec => []TypeOK
  BY Inductive, PTL DEF IInv

\* The one thing a call can leave behind is the session of a failed
\* authentication, wherever it fails.
THEOREM LeaksOnlyThere == Spec => []OnlyAuthFailureLeaks
<1>1. IInv => OnlyAuthFailureLeaks
  BY DEF IInv, ClientInv, HeldInv, OnlyAuthFailureLeaks, At
<1> QED
  BY <1>1, Inductive, PTL

\* What the code of a call says of the node it leaves behind, when no other process
\* commands that node meanwhile, for any number of processes and nodes, whichever
\* step failed and whether or not the node obeyed.
THEOREM CodeCorrect == Spec => []CodeTellsNode
<1>1. IInv => CodeTellsNode
  <2> SUFFICES ASSUME IInv, NEW c \in Clients, At(c, "idle"), call[c].rc # 0, was[c] # Disturbed
               PROVE  LET f == call[c].fn rc == call[c].rc is == State(call[c].node)
                          untouched == /\ is.eth1 = was[c].eth1
                                       /\ is.daemon \in Settles(was[c].daemon)
                      IN
                      /\ rc = Promise!CS_OK /\ call[c].obeyed => Effect(f, is)
                      /\ rc = Promise!CS_OK /\ ~call[c].obeyed /\ f # "restart_corosync" =>
                           untouched
                      /\ rc # Promise!CS_OK
                         /\ (rc = Promise!CL_SSH_COMMAND_EXEC_FAIL => ~MayLose) =>
                           IF f = "restart_corosync"
                             THEN is.daemon = "up" => was[c].daemon = "up"
                             ELSE untouched
                      /\ f \in {"kill_conn", "start_conn"} => is.daemon \in Settles(was[c].daemon)
                      /\ f \notin {"kill_conn", "start_conn"} => is.eth1 = was[c].eth1
    BY DEF CodeTellsNode
  <2>1. AloneInv(c) /\ ReturnedInv(c)
    BY DEF IInv, ClientInv, NodeInv, At
  <2>2. /\ State(call[c].node).daemon = daemon[call[c].node]
        /\ State(call[c].node).eth1 = eth1[call[c].node]
    BY DEF State
  <2> QED
    BY <2>1, <2>2 DEF AloneInv, ReturnedInv, Untouched, NotStarted
<1> QED
  BY <1>1, Inductive, PTL

-----------------------------------------------------------------------------
(* SshManager implements RemoteCommands                                    *)

busy == {c \in Clients : call[c].pc # "idle"}
fns == [c \in Clients |-> call[c].fn]
nodes == [c \in Clients |-> call[c].node]
dones == [c \in Clients |-> call[c].done]
rcs == [c \in Clients |-> call[c].rc]

\* The image of a step that changes the call of c alone.
LEMMA Image ==
  ASSUME NEW c \in Clients, \A d \in Clients \ {c} : call'[d] = call[d]
  PROVE  /\ fns' = [fns EXCEPT ![c] = call'[c].fn]
         /\ nodes' = [nodes EXCEPT ![c] = call'[c].node]
         /\ rcs' = [rcs EXCEPT ![c] = call'[c].rc]
         /\ dones' = [dones EXCEPT ![c] = call'[c].done]
         /\ busy' = IF call'[c].pc # "idle" THEN busy \cup {c} ELSE busy \ {c}
  BY DEF fns, nodes, rcs, dones, busy

\* A step that executes nothing and does not return is a stutter.
LEMMA QuietStep ==
  ASSUME IInv, NEW c \in Clients, UNCHANGED <<daemon, eth1>>,
         \A d \in Clients \ {c} : call'[d] = call[d],
         call'[c].fn = call[c].fn, call'[c].node = call[c].node, call'[c].rc = call[c].rc,
         call'[c].done = call[c].done, call[c].pc # "idle" <=> call'[c].pc # "idle"
  PROVE  UNCHANGED Promise!vars
<1>1. fns' = fns /\ nodes' = nodes /\ rcs' = rcs /\ dones' = dones
  BY Image DEF fns, nodes, rcs, dones
<1>2. busy' = busy
  BY Image DEF busy
<1> QED
  BY <1>1, <1>2 DEF Promise!vars, fns, nodes, rcs, dones, busy

\* A function that fails, whether or not its command was executed.
LEMMA FailStep ==
  ASSUME IInv, NEW c \in Clients, call[c].pc \in Before,
         NEW code \in Promise!Errors, NEW freed, Return(c, code, freed),
         \/ UNCHANGED <<daemon, eth1>>
         \/ /\ code = Promise!CL_SSH_COMMAND_EXEC_FAIL
            /\ Promise!Execute(call[c].cmd, call[c].node)
  PROVE  Promise!Fail(c, code)
<1>1. /\ call'[c].pc = "idle" /\ call'[c].fn = call[c].fn /\ call'[c].node = call[c].node
      /\ call'[c].rc = code /\ call'[c].done = 0
      /\ \A d \in Clients \ {c} : call'[d] = call[d]
  <2>1. code # Promise!CS_OK
    BY DEF Promise!CS_OK, Promise!Errors, Promise!CL_SSH_CONN_ERR, Promise!CL_SSH_AUTH_ERR,
       Promise!CL_SSH_CREATE_CHANNEL_ERR, Promise!CL_SSH_OPEN_CHANNEL_ERR,
       Promise!CL_SSH_COMMAND_EXEC_FAIL
  <2> QED
    BY <2>1, ReturnShape DEF Restarts, IInv
<1>2. /\ busy' = busy \ {c} /\ fns' = fns /\ nodes' = nodes
      /\ dones' = [dones EXCEPT ![c] = call'[c].done] /\ rcs' = [rcs EXCEPT ![c] = code]
  BY <1>1, Image DEF fns, nodes
<1>3. /\ c \in busy /\ fns[c] = call[c].fn /\ nodes[c] = call[c].node /\ dones[c] = call[c].done
  BY DEF busy, fns, nodes, dones, Before
<1>4. /\ call[c].done < Promise!Count(call[c].fn)
      /\ Promise!Command(call[c].fn, call[c].done + 1) = call[c].cmd
  BY DEF IInv, ClientInv, ControlInv, Before, Done, Promise!Count, Promise!Command
<1> QED
  BY <1>1, <1>2, <1>3, <1>4 DEF Promise!Fail, Promise!Answer, fns, nodes, dones, rcs, busy

\* The command of the running function is executed.
LEMMA TakeStep ==
  ASSUME IInv, NEW c \in Clients, call[c].pc = "exec",
         Promise!Execute(call[c].cmd, call[c].node),
         NEW ok \in BOOLEAN, NEW k, Executed(c, ok, k)
  PROVE  Promise!Take(c)
<1>1. /\ call'[c].pc = "read" /\ call'[c].fn = call[c].fn /\ call'[c].node = call[c].node
      /\ call'[c].rc = call[c].rc /\ call'[c].cmd = call[c].cmd
      /\ call'[c].done = call[c].done + 1
      /\ \A d \in Clients \ {c} : call'[d] = call[d]
  BY ExecutedShape DEF IInv
<1>2. call[c].done \in 0 .. 1
  BY DEF IInv, ClientInv, ControlInv, Done
<1>3. /\ busy' = busy /\ fns' = fns /\ nodes' = nodes /\ rcs' = rcs
      /\ dones' = [dones EXCEPT ![c] = @ + 1]
  <2>1. dones[c] = call[c].done /\ c \in busy
    BY DEF dones, busy
  <2>2. dones' = [dones EXCEPT ![c] = call'[c].done] /\ busy' = busy \cup {c}
    BY <1>1, Image
  <2>3. fns' = fns /\ nodes' = nodes /\ rcs' = rcs
    <3>1. \A d \in Clients : /\ call'[d].fn = call[d].fn /\ call'[d].node = call[d].node
                             /\ call'[d].rc = call[d].rc
      BY <1>1
    <3> QED
      BY <3>1 DEF fns, nodes, rcs
  <2> QED
    BY <1>1, <2>1, <2>2, <2>3
<1>4. /\ c \in busy /\ fns[c] = call[c].fn /\ nodes[c] = call[c].node /\ dones[c] = call[c].done
  BY DEF busy, fns, nodes, dones
<1>5. /\ call[c].done < Promise!Count(call[c].fn)
      /\ Promise!Command(call[c].fn, call[c].done + 1) = call[c].cmd
  BY DEF IInv, ClientInv, ControlInv, Done, Promise!Count, Promise!Command
<1> QED
  BY <1>3, <1>4, <1>5 DEF Promise!Take, fns, nodes, dones, rcs, busy

\* The last function returns CS_OK.
LEMMA SucceedStep ==
  ASSUME IInv, NEW c \in Clients, call[c].pc = "read", ~Restarts(c, Promise!CS_OK),
         Return(c, Promise!CS_OK, Everything), UNCHANGED <<daemon, eth1>>
  PROVE  Promise!Succeed(c)
<1>1. /\ call'[c].pc = "idle" /\ call'[c].fn = call[c].fn /\ call'[c].node = call[c].node
      /\ call'[c].rc = Promise!CS_OK /\ call'[c].done = 0
      /\ \A d \in Clients \ {c} : call'[d] = call[d]
  BY ReturnShape DEF IInv
<1>2. /\ busy' = busy \ {c} /\ fns' = fns /\ nodes' = nodes
      /\ dones' = [dones EXCEPT ![c] = call'[c].done] /\ rcs' = [rcs EXCEPT ![c] = Promise!CS_OK]
  BY <1>1, Image DEF fns, nodes
<1>3. c \in busy /\ fns[c] = call[c].fn /\ dones[c] = call[c].done
  BY DEF busy, fns, dones
<1>4. call[c].done = Promise!Count(call[c].fn)
  BY DEF IInv, ClientInv, ControlInv, Done, Restarts, Promise!Count
<1> QED
  BY <1>1, <1>2, <1>3, <1>4 DEF Promise!Succeed, Promise!Answer, fns, nodes, dones, rcs, busy

\* A call begins.
LEMMA CallStep ==
  ASSUME IInv, NEW c \in Clients, NEW f \in Commands[c], NEW n \in Nodes, NEW a \in Addresses,
         Call(c, f, n, a)
  PROVE  Promise!Call(c, f, n)
<1>1. /\ call'[c].pc = "new" /\ call'[c].fn = f /\ call'[c].node = n /\ call'[c].rc = 0
      /\ call'[c].done = call[c].done
      /\ \A d \in Clients \ {c} : call'[d] = call[d]
  BY DEF Call, IInv, TypeOK
<1>2. call[c].done = 0 /\ call'[c].done = 0
  BY <1>1 DEF Call, At, IInv, ClientInv, ControlInv, Done
<1>3. /\ busy' = busy \cup {c} /\ fns' = [fns EXCEPT ![c] = f]
      /\ nodes' = [nodes EXCEPT ![c] = n] /\ rcs' = [rcs EXCEPT ![c] = 0]
  BY <1>1, Image
<1>4. dones' = dones
  BY <1>1, <1>2, Image DEF dones
<1> QED
  BY <1>3, <1>4 DEF Call, Promise!Call, fns, nodes, dones, rcs, busy

\* Every step is one of RemoteCommands by the same process, or a stutter.
LEMMA StepImplements ==
  ASSUME IInv, NEW c \in Clients, Act(c)
  PROVE  [Promise!Next]_(Promise!vars)
<1>1. ASSUME NEW code \in Promise!Errors, NEW freed, call[c].pc \in Before,
             Return(c, code, freed), UNCHANGED <<daemon, eth1>>
      PROVE  Promise!Next
  BY <1>1, FailStep DEF Promise!Next
<1>2. ASSUME call[c].pc \in Before, call'[c].pc \in Before, UNCHANGED <<daemon, eth1>>,
             \A d \in Clients \ {c} : call'[d] = call[d],
             call'[c].fn = call[c].fn, call'[c].node = call[c].node, call'[c].rc = call[c].rc,
             call'[c].done = call[c].done
      PROVE  UNCHANGED Promise!vars
  BY <1>2, QuietStep DEF Before
<1>3. /\ Promise!CL_SSH_CONN_ERR \in Promise!Errors /\ Promise!CL_SSH_AUTH_ERR \in Promise!Errors
      /\ Promise!CL_SSH_CREATE_CHANNEL_ERR \in Promise!Errors
      /\ Promise!CL_SSH_OPEN_CHANNEL_ERR \in Promise!Errors
      /\ Promise!CL_SSH_COMMAND_EXEC_FAIL \in Promise!Errors
  BY DEF Promise!Errors
<1>4. call \in [Clients -> Records]
  BY DEF IInv, TypeOK, Records
<1> USE DEF At, Before, Node
<1>5. ASSUME NEW f \in Commands[c], NEW n \in Nodes, NEW a \in Addresses, Call(c, f, n, a)
      PROVE  Promise!Next
  BY <1>5, CallStep DEF Promise!Next
<1>6. CASE NewSession(c)
  BY <1>1, <1>2, <1>3, <1>4, <1>6 DEF NewSession, Gets, Records
<1>7. CASE Connect(c)
  BY <1>1, <1>2, <1>3, <1>4, <1>7 DEF Connect, Records
<1>8. CASE Authenticate(c)
  BY <1>1, <1>2, <1>3, <1>4, <1>8 DEF Authenticate, Goto, Records
<1>9. CASE NewChannel(c)
  BY <1>1, <1>2, <1>3, <1>4, <1>9 DEF NewChannel, Gets, Records
<1>10. CASE OpenChannel(c)
  BY <1>1, <1>2, <1>3, <1>4, <1>10 DEF OpenChannel, Goto, Records
<1>11. CASE Exec(c)
  <2>1. ASSUME NEW ok \in BOOLEAN, Run(c, ok)
        PROVE  Promise!Execute(call[c].cmd, call[c].node)
    BY <2>1 DEF Run, Promise!Execute
  <2>2. ASSUME NEW ok \in BOOLEAN, NEW k, Run(c, ok), Executed(c, ok, k)
        PROVE  Promise!Next
    BY <1>11, <2>1, <2>2, TakeStep DEF Exec, Promise!Next
  <2>3. CASE /\ Return(c, Promise!CL_SSH_COMMAND_EXEC_FAIL, Everything)
             /\ UNCHANGED Node \/ \E ok \in BOOLEAN : Run(c, ok)
    BY <1>3, <1>11, <2>1, <2>3, FailStep DEF Exec, Promise!Next
  <2> QED
    BY <1>11, <2>2, <2>3 DEF Exec, Executed
<1>12. CASE Read(c)
  <2>1. call[c].pc = "read" /\ UNCHANGED Node
    BY <1>12 DEF Read
  <2>2. CASE \E k : call' = [call EXCEPT ![c].output = k]
    <3>1. /\ call'[c].pc = "read" /\ call'[c].fn = call[c].fn /\ call'[c].cmd = call[c].cmd
          /\ call'[c].node = call[c].node /\ call'[c].rc = call[c].rc
          /\ call'[c].done = call[c].done
          /\ \A d \in Clients \ {c} : call'[d] = call[d]
      BY <1>4, <2>1, <2>2 DEF Records
    <3> QED
      BY <2>1, <3>1, QuietStep
  <2>3. CASE Return(c, Promise!CS_OK, Everything) /\ ~Restarts(c, Promise!CS_OK)
    BY <2>1, <2>3, SucceedStep DEF Promise!Next
  <2>4. CASE Return(c, Promise!CS_OK, Everything) /\ Restarts(c, Promise!CS_OK)
    <3>1. /\ call'[c].pc = "sleep" /\ call'[c].fn = call[c].fn /\ call'[c].cmd = call[c].cmd
          /\ call'[c].node = call[c].node /\ call'[c].rc = call[c].rc
          /\ call'[c].done = call[c].done
          /\ \A d \in Clients \ {c} : call'[d] = call[d]
      BY <2>4, ReturnShape DEF IInv
    <3> QED
      BY <2>1, <3>1, QuietStep
  <2> QED
    BY <1>12, <2>2, <2>3, <2>4 DEF Read
<1>13. CASE Sleep(c)
  <2>1. /\ call[c].pc = "sleep" /\ call[c].fn = "restart_corosync" /\ call[c].cmd = "stop_corosync"
        /\ call'[c].pc = "new" /\ call'[c].cmd = "start_corosync" /\ UNCHANGED Node
        /\ call'[c].fn = call[c].fn /\ call'[c].node = call[c].node /\ call'[c].rc = call[c].rc
        /\ call'[c].done = call[c].done
        /\ \A d \in Clients \ {c} : call'[d] = call[d]
    BY <1>4, <1>13 DEF Sleep, Records, IInv, ClientInv, ControlInv
  <2> QED
    BY <2>1, QuietStep
<1>14. CASE LoseLink(c)
  <2>1. /\ call'[c].pc = call[c].pc /\ call'[c].fn = call[c].fn /\ call'[c].cmd = call[c].cmd
        /\ call'[c].node = call[c].node /\ call'[c].rc = call[c].rc /\ UNCHANGED Node
        /\ call'[c].done = call[c].done
        /\ \A d \in Clients \ {c} : call'[d] = call[d]
    BY <1>4, <1>14 DEF LoseLink, Records
  <2> QED
    BY <2>1, QuietStep
<1> QED
  BY <1>5, <1>6, <1>7, <1>8, <1>9, <1>10, <1>11, <1>12, <1>13, <1>14 DEF Act, Step

\* However calls interleave, wherever they fail and whichever answers are lost,
\* every call executes its commands in order between its call and its return,
\* all of them if it returns CS_OK, and none that it does not account for.
THEOREM Implements == Spec => KeepsPromise
<1>1. Init => Promise!Init
  <2> SUFFICES ASSUME Init PROVE Promise!Init
    OBVIOUS
  <2>1. ASSUME NEW c \in Clients
        PROVE  /\ call[c].pc = "idle" /\ call[c].fn = "none" /\ call[c].rc = 0
               /\ call[c].done = 0
               /\ call[c].node \in Nodes
    <3> DEFINE First == {[fn |-> "none", cmd |-> "none", pc |-> "idle", node |-> n,
                          via |-> "alt", held |-> {}, link |-> FALSE, output |-> 0,
                          rc |-> 0, done |-> 0, obeyed |-> TRUE] : n \in Nodes}
    <3>1. call[c] \in First
      BY DEF Init
    <3> QED
      BY <3>1
  <2> QED
    BY <2>1 DEF Init, Promise!Init
<1>2. IInv /\ [Next]_vars => [Promise!Next]_(Promise!vars)
  <2> SUFFICES ASSUME IInv, [Next]_vars PROVE [Promise!Next]_(Promise!vars)
    OBVIOUS
  <2>1. CASE \E n \in Nodes : DaemonStops(n)
    BY <2>1 DEF DaemonStops, Promise!Next
  <2>2. CASE UNCHANGED vars
    BY <2>2 DEF vars, Promise!vars
  <2> QED
    BY <2>1, <2>2, StepImplements DEF Next, Act
<1> QED
  BY <1>1, <1>2, Inductive, PTL DEF Spec, KeepsPromise, Promise!Spec
=============================================================================
