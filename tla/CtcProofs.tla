----------------------------- MODULE CtcProofs ------------------------------
(***************************************************************************)
(* Theorems about Ctc, for any processes, nodes and command lines: what is *)
(* proved of SshManager and SftpManager, and what the client makes of it.  *)
(***************************************************************************)
EXTENDS Ctc, SequenceTheorems, TLAPS

\* The functions the client calls, with what is proved of them.
SshP == INSTANCE SshManagerProofs WITH
  Clients <- Procs, Commands <- [p \in Procs |-> {Function[cmd] : cmd \in DOMAIN Function}],
  Addresses <- {"alt"}, MayLose <- FALSE, was <- sshWas

SftpP == INSTANCE SftpManagerProofs WITH MayEdit <- FALSE, clean <- sftpClean

\* How far the loop over the addresses is.
Progress(p) ==
  LET r == run[p] w == Words(p) IN
  /\ Len(r.handled) = r.at - FirstAddress(w)
  /\ \A k \in 1 .. Len(r.handled) : r.handled[k] = w[FirstAddress(w) + k - 1]

NoTemplate(p) == Words(p)[1] = "reset_conf" /\ Len(Words(p)) = 1

LoopInv(p) ==
  LET r == run[p] w == Words(p) IN
  /\ r.pc # "over" => r.ended = "no"
  /\ r.pc = "shell" => r.handled = <<>>
  /\ r.pc = "task" => r.handled = <<>> /\ Accepted(w)
  /\ r.pc \in {"address", "copying", "remote"} =>
       /\ Task(r.line) = "c" /\ Accepted(w)
       /\ r.at \in FirstAddress(w) .. Len(w) + 1 /\ Progress(p)
       /\ NoTemplate(p) => r.at = 1
  /\ r.pc \in {"copying", "remote"} =>
       r.at <= Len(w) /\ w[r.at] \in DOMAIN Host /\ w[1] \in DOMAIN Announced /\ ~NoTemplate(p)
  /\ r.pc = "over" /\ Task(r.line) = "c" =>
       /\ r.ended = "exit" => Accepted(w) /\ r.at = Len(w) + 1 /\ Progress(p) /\ ~NoTemplate(p)
       /\ r.ended = "crashed" => r.handled = <<>> /\ NoTemplate(p)

\* What the copy of reset_conf has printed.
CopyLines(p) == IF copy[p].rc = CS_OK THEN {} ELSE {"failed"}

\* p's copy to node n has returned.
CopiedTo(p, n) == copy[p].pc = "idle" /\ copy[p].node = n /\ copy[p].rc # 0

\* The call p waits for, and what was printed before it.
CallInv(p) ==
  LET r == run[p] w == Words(p) IN
  /\ r.pc = "copying" =>
       /\ w[1] = "reset_conf" /\ r.lines = {}
       /\ copy[p].node = Host[w[r.at]] /\ (copy[p].pc = "idle" => copy[p].rc # 0)
  /\ r.pc = "remote" =>
       /\ call[p].node = Host[w[r.at]]
       /\ IF w[1] = "reset_conf"
            THEN /\ call[p].fn = "stop_corosync" /\ CopiedTo(p, call[p].node)
                 /\ r.lines = CopyLines(p)
            ELSE call[p].fn = Function[w[1]] /\ r.lines = {}

\* The lines about the last address are about the calls that are in call and copy.
AfterInv(p) ==
  LET r == run[p] cmd == Words(p)[1] IN
  r.handled # <<>> /\ cmd \in DOMAIN Announced /\ After(p, cmd) =>
    /\ call[p].pc = "idle" /\ call[p].node = Target(p)
    /\ IF cmd = "reset_conf"
         THEN /\ call[p].fn = "stop_corosync" /\ CopiedTo(p, Target(p))
              /\ r.lines = CopyLines(p) \cup {"reset"} \cup Complaints(cmd, call[p].rc)
         ELSE /\ call[p].fn = Function[cmd]
              /\ r.lines = {Announced[cmd]} \cup Complaints(cmd, call[p].rc)

ProcInv(p) == LoopInv(p) /\ CallInv(p) /\ AfterInv(p)

AllLines == {"error", "changed", "failed", "may_have", "not_recognized", "started", "stopped",
             "reset", "killing", "starting"}

Records == [pc : {"shell", "task", "address", "copying", "remote", "over"},
            line : Seq(Tokens), at : Nat, ended : {"no", "exit", "crashed", "refused"},
            lines : SUBSET AllLines, handled : Seq(STRING)]

RunType ==
  /\ DOMAIN votes = NodeIds
  /\ run \in [Procs -> Records]
  /\ \A p \in Procs : run[p].pc # "shell" => run[p].line \in Lines[p]

IInv == RunType /\ \A p \in Procs : ProcInv(p)

-----------------------------------------------------------------------------
(* SshManager and SftpManager                                              *)

LEMMA SshAssumed == SshP!SshAssumption
<1>1. {Function[cmd] : cmd \in DOMAIN Function} \subseteq SshP!Functions
  BY DEF SshP!Functions, Function
<1>2. {MayFail, FALSE} \subseteq BOOLEAN
  BY CtcAssumption
<1> QED
  BY CtcAssumption, <1>1, <1>2 DEF SshP!SshAssumption

LEMMA SftpAssumed == SftpP!SftpAssumption
<1>1. {MayFail, MayLose, FALSE} \subseteq BOOLEAN
  BY CtcAssumption
<1> QED
  BY CtcAssumption, <1>1 DEF SftpP!SftpAssumption

\* The operators of Ctc's instances are those that the lemmas are about.
LEMMA SshSame ==
  /\ Ssh!Init <=> SshP!Init
  /\ \A p \in Procs : Ssh!Step(p) => SshP!Step(p)
  /\ \A p \in Procs : \A f, n, a : Ssh!Call(p, f, n, a) => SshP!Call(p, f, n, a)
  /\ \A n : Ssh!DaemonStops(n) => SshP!DaemonStops(n)
<1>1. Ssh!Init <=> SshP!Init
  BY Zenon DEF Ssh!Init, SshP!Init, Ssh!Disturbed, SshP!Disturbed
<1>2. \A n : Ssh!DaemonStops(n) => SshP!DaemonStops(n)
  BY Zenon DEF Ssh!DaemonStops, SshP!DaemonStops, Ssh!Promise!DaemonStops,
     SshP!Promise!DaemonStops
<1>3. ASSUME NEW p \in Procs, NEW f, NEW n, NEW a, Ssh!Call(p, f, n, a)
      PROVE  SshP!Call(p, f, n, a)
  <2>1. Ssh!FirstCommand(f) = SshP!FirstCommand(f)
    BY Zenon DEF Ssh!FirstCommand, SshP!FirstCommand
  <2> QED
    BY <1>3, <2>1, Zenon DEF Ssh!Call, SshP!Call, Ssh!State, SshP!State
<1>4. ASSUME NEW p \in Procs, Ssh!Step(p) PROVE SshP!Step(p)
  <2>1. \A code, freed : Ssh!Return(p, code, freed) <=> SshP!Return(p, code, freed)
    BY Zenon DEF Ssh!Return, SshP!Return, Ssh!Restarts, SshP!Restarts,
       Ssh!Promise!CS_OK, SshP!Promise!CS_OK
  <2>2. \A what, step : Ssh!Gets(p, what, step) <=> SshP!Gets(p, what, step)
    BY Zenon DEF Ssh!Gets, SshP!Gets
  <2>3. \A step : /\ Ssh!Goto(p, step) <=> SshP!Goto(p, step)
                  /\ Ssh!At(p, step) <=> SshP!At(p, step)
    BY Zenon DEF Ssh!Goto, SshP!Goto, Ssh!At, SshP!At
  <2>4. /\ Ssh!Reachable(p) <=> SshP!Reachable(p)
        /\ Ssh!Alive(p) <=> SshP!Alive(p)
    BY Zenon DEF Ssh!Alive, SshP!Alive, Ssh!Reachable, SshP!Reachable
  <2>5. \A ok : Ssh!Run(p, ok) <=> SshP!Run(p, ok)
    BY Zenon DEF Ssh!Run, SshP!Run, Ssh!Disturbed, SshP!Disturbed, Ssh!Promise!Obey,
       SshP!Promise!Obey, Ssh!Promise!StartDaemon, SshP!Promise!StartDaemon,
       Ssh!Promise!StopDaemon, SshP!Promise!StopDaemon, Ssh!Promise!IfUp, SshP!Promise!IfUp,
       Ssh!Promise!IfDown, SshP!Promise!IfDown
  <2>6. /\ UNCHANGED Ssh!Node <=> UNCHANGED SshP!Node
        /\ Ssh!Everything = SshP!Everything
        /\ \A n : Ssh!ReadOn(n) <=> SshP!ReadOn(n)
    BY Zenon DEF Ssh!Node, SshP!Node, Ssh!Everything, SshP!Everything, Ssh!ReadOn, SshP!ReadOn,
       Ssh!Unsigned, SshP!Unsigned
  <2>7. /\ Ssh!Promise!CS_OK = SshP!Promise!CS_OK
        /\ Ssh!Promise!CL_SSH_CONN_ERR = SshP!Promise!CL_SSH_CONN_ERR
        /\ Ssh!Promise!CL_SSH_AUTH_ERR = SshP!Promise!CL_SSH_AUTH_ERR
        /\ Ssh!Promise!CL_SSH_CREATE_CHANNEL_ERR = SshP!Promise!CL_SSH_CREATE_CHANNEL_ERR
        /\ Ssh!Promise!CL_SSH_OPEN_CHANNEL_ERR = SshP!Promise!CL_SSH_OPEN_CHANNEL_ERR
        /\ Ssh!Promise!CL_SSH_COMMAND_EXEC_FAIL = SshP!Promise!CL_SSH_COMMAND_EXEC_FAIL
    BY Zenon DEF Ssh!Promise!CS_OK, SshP!Promise!CS_OK,
       Ssh!Promise!CL_SSH_CONN_ERR, SshP!Promise!CL_SSH_CONN_ERR,
       Ssh!Promise!CL_SSH_AUTH_ERR, SshP!Promise!CL_SSH_AUTH_ERR,
       Ssh!Promise!CL_SSH_CREATE_CHANNEL_ERR, SshP!Promise!CL_SSH_CREATE_CHANNEL_ERR,
       Ssh!Promise!CL_SSH_OPEN_CHANNEL_ERR, SshP!Promise!CL_SSH_OPEN_CHANNEL_ERR,
       Ssh!Promise!CL_SSH_COMMAND_EXEC_FAIL, SshP!Promise!CL_SSH_COMMAND_EXEC_FAIL
  <2>8. /\ Ssh!NewSession(p) => SshP!NewSession(p)
        /\ Ssh!Connect(p) => SshP!Connect(p)
        /\ Ssh!Authenticate(p) => SshP!Authenticate(p)
    BY <2>1, <2>2, <2>3, <2>4, <2>6, <2>7, Zenon
    DEF Ssh!NewSession, SshP!NewSession, Ssh!Connect, SshP!Connect, Ssh!Authenticate,
        SshP!Authenticate
  <2>9. /\ Ssh!NewChannel(p) => SshP!NewChannel(p)
        /\ Ssh!OpenChannel(p) => SshP!OpenChannel(p)
    BY <2>1, <2>2, <2>3, <2>4, <2>6, <2>7, Zenon
    DEF Ssh!NewChannel, SshP!NewChannel, Ssh!OpenChannel, SshP!OpenChannel
  <2>10. Ssh!Exec(p) => SshP!Exec(p)
    BY <2>1, <2>3, <2>4, <2>5, <2>6, <2>7, Zenon DEF Ssh!Exec, SshP!Exec
  <2>11. Ssh!Read(p) => SshP!Read(p)
    BY <2>1, <2>3, <2>4, <2>6, <2>7, Zenon DEF Ssh!Read, SshP!Read
  <2>12. Ssh!Sleep(p) => SshP!Sleep(p)
    BY <2>3, <2>6, Zenon DEF Ssh!Sleep, SshP!Sleep
  <2> QED
    BY <1>4, <2>8, <2>9, <2>10, <2>11, <2>12, Zenon DEF Ssh!Step, SshP!Step
<1> QED
  BY <1>1, <1>2, <1>3, <1>4

LEMMA SftpSame ==
  /\ Sftp!Init <=> SftpP!Init
  /\ \A p \in Procs : Sftp!Step(p) => SftpP!Step(p)
  /\ \A p \in Procs : \A n : Sftp!Call(p, n) => SftpP!Call(p, n)
<1>1. Sftp!Init <=> SftpP!Init
  BY Zenon DEF Sftp!Init, SftpP!Init, Sftp!Old, SftpP!Old, Sftp!Unread, SftpP!Unread,
     Sftp!Stack, SftpP!Stack
<1>2. \A p \in Procs : \A n : Sftp!Call(p, n) => SftpP!Call(p, n)
  BY Zenon DEF Sftp!Call, SftpP!Call
<1>3. ASSUME NEW p \in Procs, Sftp!Step(p) PROVE SftpP!Step(p)
  <2>0. Sftp!Unread = SftpP!Unread
    BY Zenon DEF Sftp!Unread, SftpP!Unread, Sftp!Stack, SftpP!Stack
  <2>1. \A code, freed : Sftp!Return(p, code, freed) <=> SftpP!Return(p, code, freed)
    <3> HIDE DEF Sftp!Unread, SftpP!Unread
    <3> QED
      BY <2>0 DEF Sftp!Return, SftpP!Return
  <2>2. \A what, step : Sftp!Opens(p, what, step) <=> SftpP!Opens(p, what, step)
    BY Zenon DEF Sftp!Opens, SftpP!Opens
  <2>3. \A step : /\ Sftp!Goto(p, step) <=> SftpP!Goto(p, step)
                  /\ Sftp!At(p, step) <=> SftpP!At(p, step)
    BY Zenon DEF Sftp!Goto, SftpP!Goto, Sftp!At, SftpP!At
  <2>4. /\ \A file : Sftp!Write(p, file) <=> SftpP!Write(p, file)
        /\ Sftp!Local <=> SftpP!Local
    BY Zenon DEF Sftp!Write, SftpP!Write, Sftp!Local, SftpP!Local
  <2>5. /\ Sftp!CS_OK = SftpP!CS_OK /\ Sftp!CL_SFTP_ERR = SftpP!CL_SFTP_ERR
        /\ Sftp!CL_SFTP_AUTH = SftpP!CL_SFTP_AUTH /\ Sftp!CL_SFTP_CONN = SftpP!CL_SFTP_CONN
    BY Zenon DEF Sftp!CS_OK, SftpP!CS_OK, Sftp!CL_SFTP_ERR, SftpP!CL_SFTP_ERR,
       Sftp!CL_SFTP_AUTH, SftpP!CL_SFTP_AUTH, Sftp!CL_SFTP_CONN, SftpP!CL_SFTP_CONN
  <2>6. \A freed : Sftp!SftpFails(p, freed) <=> SftpP!SftpFails(p, freed)
    BY <2>1, <2>5, Zenon DEF Sftp!SftpFails, SftpP!SftpFails
  <2>7. /\ Sftp!LastChunk(p) <=> SftpP!LastChunk(p)
        /\ Sftp!Chunk(p) = SftpP!Chunk(p)
    BY Zenon DEF Sftp!LastChunk, SftpP!LastChunk, Sftp!Chunk, SftpP!Chunk
  <2>8. /\ Sftp!Filled(p) = SftpP!Filled(p)
        /\ \A file, off, cells : Sftp!Overwrite(file, off, cells) = SftpP!Overwrite(file, off, cells)
    BY <2>7, Zenon DEF Sftp!Filled, SftpP!Filled, Sftp!Overwrite, SftpP!Overwrite, Sftp!Larger,
       SftpP!Larger, Sftp!Old, SftpP!Old
  <2>9. /\ Sftp!NewSession(p) => SftpP!NewSession(p)
        /\ Sftp!Connect(p) => SftpP!Connect(p)
        /\ Sftp!Authenticate(p) => SftpP!Authenticate(p)
        /\ Sftp!Stat(p) => SftpP!Stat(p)
    BY <2>1, <2>2, <2>3, <2>4, <2>5, Zenon
    DEF Sftp!NewSession, SftpP!NewSession, Sftp!Connect, SftpP!Connect, Sftp!Authenticate,
        SftpP!Authenticate, Sftp!Stat, SftpP!Stat
  <2>10. /\ Sftp!SftpNew(p) => SftpP!SftpNew(p)
         /\ Sftp!SftpInit(p) => SftpP!SftpInit(p)
    BY <2>2, <2>3, <2>4, <2>6, Zenon
    DEF Sftp!SftpNew, SftpP!SftpNew, Sftp!SftpInit, SftpP!SftpInit
  <2>11. /\ Sftp!OpenDest(p) => SftpP!OpenDest(p)
         /\ Sftp!OpenSource(p) => SftpP!OpenSource(p)
         /\ Sftp!Close(p) => SftpP!Close(p)
    BY <2>1, <2>3, <2>4, <2>5, <2>6, Zenon
    DEF Sftp!OpenDest, SftpP!OpenDest, Sftp!OpenSource, SftpP!OpenSource, Sftp!Close, SftpP!Close
  <2>12. Sftp!CopyChunk(p) => SftpP!CopyChunk(p)
    BY <2>3, <2>4, <2>7, <2>8, Zenon DEF Sftp!CopyChunk, SftpP!CopyChunk
  <2> QED
    BY <1>3, <2>9, <2>10, <2>11, <2>12, Zenon DEF Sftp!Step, SftpP!Step
<1> QED
  BY <1>1, <1>2, <1>3

\* What a step of the client is for the two managers.
LEMMA Steps ==
  ASSUME NEW p \in Procs, Type(p) \/ Step(p)
  PROVE  /\ \/ UNCHANGED sftpVars
            \/ SftpP!Step(p)
            \/ \E n \in Nodes : SftpP!Call(p, n)
         /\ \/ UNCHANGED sshVars
            \/ SshP!Step(p)
            \/ StopAfterCopy(p) /\ SshP!Call(p, "stop_corosync", copy[p].node, "alt")
            \/ \E cmd \in DOMAIN Function, n \in Nodes : SshP!Call(p, Function[cmd], n, "alt")
<1>1. CASE \/ Type(p) \/ client_print_option(p) \/ client_monitor_option(p)
           \/ client_quorum_option(p) \/ client_ssh_option(p) \/ RemoteReturned(p)
           \/ LastAddress(p)
  BY <1>1 DEF Type, client_print_option, client_monitor_option, client_quorum_option,
     client_ssh_option, RemoteReturned, LastAddress
<1>2. CASE client_ssh_command(p)
  <2> DEFINE w == Words(p)
             word == w[run[p].at]
  <2>1. DOMAIN Function = DOMAIN Announced \ {"reset_conf"}
    BY DEF Function, Announced
  <2>2. word \in DOMAIN Host => Host[word] \in Nodes
    BY CtcAssumption
  <2>3. CASE UNCHANGED <<sshVars, sftpVars>>
    BY <2>3
  <2>4. CASE word \in DOMAIN Host /\ Sftp!Call(p, Host[word]) /\ UNCHANGED sshVars
    BY <2>2, <2>4, SftpSame
  <2>5. CASE /\ word \in DOMAIN Host /\ w[1] \in DOMAIN Announced \ {"reset_conf"}
             /\ Ssh!Call(p, Function[w[1]], Host[word], "alt") /\ UNCHANGED sftpVars
    BY <2>1, <2>2, <2>5, SshSame
  <2> QED
    BY <1>2, <2>3, <2>4, <2>5 DEF client_ssh_command
<1>3. CASE StopAfterCopy(p)
  BY <1>3, SshSame DEF StopAfterCopy
<1>4. CASE CopyStep(p)
  BY <1>4, SftpSame DEF CopyStep
<1>5. CASE RemoteStep(p)
  BY <1>5, SshSame DEF RemoteStep
<1> QED
  BY <1>1, <1>2, <1>3, <1>4, <1>5 DEF Step

\* The copies of the client are copies of SftpManager.
LEMMA IsSftp == Spec => SftpP!Spec
<1>1. Init => SftpP!Init
  BY SftpSame DEF Init
<1>2. [Next]_vars => [SftpP!Next]_SftpP!vars
  <2>1. ASSUME NEW p \in Procs, Type(p) \/ Step(p) PROVE [SftpP!Next]_SftpP!vars
    BY <2>1, Steps DEF SftpP!Next, SftpP!vars, sftpVars
  <2>2. ASSUME NEW n \in Nodes, DaemonStops(n) PROVE [SftpP!Next]_SftpP!vars
    BY <2>2 DEF DaemonStops, SftpP!vars, sftpVars
  <2>3. ASSUME UNCHANGED vars PROVE [SftpP!Next]_SftpP!vars
    BY <2>3 DEF vars, SftpP!vars, sftpVars
  <2> QED
    BY <2>1, <2>2, <2>3 DEF Next
<1> QED
  BY <1>1, <1>2, PTL DEF Spec, SftpP!Spec

LEMMA SftpCorrect == Spec => []SftpP!IInv
  BY IsSftp, SftpP!Inductive, SftpAssumed, PTL

\* The remote commands of the client are calls of SshManager.
LEMMA IsSsh == Spec => SshP!Spec
<1>1. Init => SshP!Init
  BY SshSame DEF Init
<1>2. SftpP!IInv /\ [Next]_vars => [SshP!Next]_SshP!vars
  <2> SUFFICES ASSUME SftpP!IInv, [Next]_vars PROVE [SshP!Next]_SshP!vars
    OBVIOUS
  <2>1. \A p \in Procs : copy[p].node \in Nodes
    BY DEF SftpP!IInv, SftpP!TypeOK
  <2>2. /\ "stop_corosync" \in {Function[cmd] : cmd \in DOMAIN Function}
        /\ \A cmd \in DOMAIN Function : Function[cmd] \in {Function[c] : c \in DOMAIN Function}
        /\ \A p \in Procs : [q \in Procs |-> {Function[cmd] : cmd \in DOMAIN Function}][p]
                              = {Function[cmd] : cmd \in DOMAIN Function}
    BY DEF Function
  <2>3. ASSUME NEW p \in Procs, Type(p) \/ Step(p) PROVE [SshP!Next]_SshP!vars
    <3>1. CASE UNCHANGED sshVars
      BY <3>1 DEF SshP!vars, sshVars
    <3>2. CASE SshP!Step(p)
      BY <3>2 DEF SshP!Next
    <3>3. ASSUME NEW f \in {Function[cmd] : cmd \in DOMAIN Function}, NEW n \in Nodes,
                 SshP!Call(p, f, n, "alt")
          PROVE  [SshP!Next]_SshP!vars
      BY <2>2, <3>3 DEF SshP!Next
    <3> QED
      BY <2>1, <2>2, <2>3, <3>1, <3>2, <3>3, Steps
  <2>4. ASSUME NEW n \in Nodes, DaemonStops(n) PROVE [SshP!Next]_SshP!vars
    BY <2>4, SshSame DEF DaemonStops, SshP!Next
  <2>5. ASSUME UNCHANGED vars PROVE [SshP!Next]_SshP!vars
    BY <2>5 DEF vars, SshP!vars, sshVars
  <2> QED
    BY <2>3, <2>4, <2>5 DEF Next
<1> QED
  BY <1>1, <1>2, SftpCorrect, PTL DEF Spec, SshP!Spec

LEMMA SshCorrect == Spec => []SshP!IInv
  BY IsSsh, SshP!Inductive, SshAssumed, PTL

-----------------------------------------------------------------------------
(* Command lines                                                           *)

LEMMA TokenWords ==
  ASSUME NEW tokens \in Seq(Tokens)
  PROVE  /\ WordsOf(tokens) \in Seq(STRING) /\ Len(WordsOf(tokens)) = Len(tokens)
         /\ Len(tokens) \in Nat
         /\ \A k \in 1 .. Len(tokens) : WordsOf(tokens)[k] = tokens[k][2]
<1>1. Len(tokens) \in Nat
  BY LenProperties
<1>2. ASSUME NEW k \in 1 .. Len(tokens) PROVE tokens[k][2] \in STRING
  <2>1. tokens[k] \in Tokens
    BY ElementOfSeq
  <2> QED
    BY <2>1 DEF Tokens
<1>3. WordsOf(tokens) \in [1 .. Len(tokens) -> STRING]
  BY <1>2 DEF WordsOf
<1>4. WordsOf(tokens) \in Seq(STRING) /\ Len(WordsOf(tokens)) = Len(tokens)
  BY <1>1, <1>3, SeqDef, LenProperties
<1> QED
  BY <1>1, <1>4 DEF WordsOf

\* The words are those of the options and then those of the plain arguments.
LEMMA ArgzIs ==
  ASSUME NEW p \in Procs, NEW line \in Lines[p]
  PROVE  LET o == Options(line) a == Plain(line) IN
         /\ line \in Seq(Tokens)
         /\ o \in Seq(Tokens) /\ Len(o) \in Nat /\ a \in Seq(Tokens) /\ Len(a) \in Nat
         /\ Argz(line) \in Seq(STRING) /\ Len(Argz(line)) = Len(o) + Len(a)
         /\ \A k \in 1 .. Len(o) : Argz(line)[k] = o[k][2]
         /\ \A k \in 1 .. Len(a) : Argz(line)[Len(o) + k] = a[k][2]
<1> DEFINE o == Options(line)
           a == Plain(line)
           tokens == Permuted(line)
<1>1. line \in Seq(Tokens) /\ o \in Seq(Tokens) /\ a \in Seq(Tokens) /\ tokens = o \o a
  BY CtcAssumption DEF Permuted
<1> HIDE DEF o, a, tokens
<1>2. Len(o) \in Nat /\ Len(a) \in Nat
  BY <1>1, LenProperties
<1>3. /\ tokens \in Seq(Tokens) /\ Len(tokens) = Len(o) + Len(a)
      /\ \A k \in 1 .. Len(o) : tokens[k] = o[k]
      /\ \A k \in 1 .. Len(a) : tokens[Len(o) + k] = a[k]
  BY <1>1, <1>2, ConcatProperties
<1>4. /\ WordsOf(tokens) \in Seq(STRING) /\ Len(WordsOf(tokens)) = Len(tokens)
      /\ \A k \in 1 .. Len(tokens) : WordsOf(tokens)[k] = tokens[k][2]
  BY <1>3, TokenWords
<1>5. Argz(line) = WordsOf(tokens)
  BY DEF Argz, tokens
<1>6. \A k \in 1 .. Len(o) : Argz(line)[k] = o[k][2]
  BY <1>2, <1>3, <1>4, <1>5
<1>7. \A k \in 1 .. Len(a) : Argz(line)[Len(o) + k] = a[k][2]
  <2>1. ASSUME NEW k \in 1 .. Len(a) PROVE Len(o) + k \in 1 .. Len(tokens)
    BY <1>2, <1>3
  <2> QED
    BY <1>3, <1>4, <1>5, <2>1
<1> QED
  BY <1>1, <1>2, <1>3, <1>4, <1>5, <1>6, <1>7 DEF o, a

\* A process that has its line has words.
LEMMA WordsType ==
  ASSUME RunType, NEW p \in Procs, run[p].pc # "shell"
  PROVE  Words(p) \in Seq(STRING) /\ Len(Words(p)) \in Nat
<1>1. run[p].line \in Lines[p]
  BY DEF RunType
<1>2. Words(p) \in Seq(STRING)
  BY <1>1, ArgzIs DEF Words
<1> QED
  BY <1>2, LenProperties

-----------------------------------------------------------------------------
(* The client's steps                                                      *)

LEMMA EndShape ==
  ASSUME NEW r \in Records, NEW how \in {"no", "exit", "crashed", "refused"},
         NEW lines \in SUBSET AllLines
  PROVE  /\ End(r, how, lines) \in Records
         /\ End(r, how, lines).pc = "over" /\ End(r, how, lines).ended = how
         /\ End(r, how, lines).lines = lines /\ End(r, how, lines).line = r.line
         /\ End(r, how, lines).at = r.at /\ End(r, how, lines).handled = r.handled
  BY DEF End, Records

LEMMA HandledShape ==
  ASSUME NEW r \in Records, NEW lines \in SUBSET AllLines, Argz(r.line)[r.at] \in STRING
  PROVE  /\ Handled(r, lines) \in Records
         /\ Handled(r, lines).pc = "address" /\ Handled(r, lines).ended = r.ended
         /\ Handled(r, lines).lines = lines /\ Handled(r, lines).line = r.line
         /\ Handled(r, lines).at = r.at + 1
         /\ Handled(r, lines).handled = Append(r.handled, Argz(r.line)[r.at])
<1>1. Append(r.handled, Argz(r.line)[r.at]) \in Seq(STRING) /\ r.at + 1 \in Nat
  BY AppendProperties DEF Records
<1> QED
  BY <1>1 DEF Handled, Records

LEMMA LineSets ==
  /\ {} \in SUBSET AllLines /\ {"error"} \in SUBSET AllLines /\ {"changed"} \in SUBSET AllLines
  /\ {"failed", "changed"} \in SUBSET AllLines /\ {"not_recognized"} \in SUBSET AllLines
  /\ {"failed"} \in SUBSET AllLines
  /\ \A cmd \in DOMAIN Announced :
       {Announced[cmd]} \in SUBSET AllLines /\ Complaint[cmd] \in SUBSET AllLines
<1>1. /\ {} \in SUBSET AllLines /\ {"error"} \in SUBSET AllLines
      /\ {"changed"} \in SUBSET AllLines /\ {"failed", "changed"} \in SUBSET AllLines
      /\ {"not_recognized"} \in SUBSET AllLines /\ {"failed"} \in SUBSET AllLines
  BY Zenon DEF AllLines
<1>2. \A cmd \in DOMAIN Announced : {Announced[cmd]} \in SUBSET AllLines
  <2>1. {"started", "stopped", "reset", "killing", "starting"} \subseteq AllLines
    BY Zenon DEF AllLines
  <2>2. \A cmd \in DOMAIN Announced :
          Announced[cmd] \in {"started", "stopped", "reset", "killing", "starting"}
    BY DEF Announced
  <2> QED
    BY <2>1, <2>2
<1>3. \A cmd \in DOMAIN Announced : Complaint[cmd] \in SUBSET AllLines
  <2>1. {"may_have"} \in SUBSET AllLines
    BY Zenon DEF AllLines
  <2>2. \A cmd \in DOMAIN Announced : Complaint[cmd] \in {{"failed"}, {"may_have"}, {}}
    BY DEF Announced, Complaint
  <2> QED
    BY <1>1, <2>1, <2>2
<1> QED
  BY <1>1, <1>2, <1>3

\* No step touches the calls of another process.
LEMMA OthersUntouched ==
  ASSUME SshP!IInv, SftpP!IInv, NEW p \in Procs, Type(p) \/ Step(p), NEW q \in Procs \ {p}
  PROVE  call'[q] = call[q] /\ copy'[q] = copy[q]
<1>1. copy'[q] = copy[q]
  <2>1. CASE SftpP!Step(p)
    BY <2>1, SftpP!StepShape, SftpAssumed DEF SftpP!IInv
  <2>2. ASSUME NEW n \in Nodes, SftpP!Call(p, n) PROVE copy'[q] = copy[q]
    BY <2>2 DEF SftpP!Call, SftpP!IInv, SftpP!TypeOK
  <2> QED
    BY <2>1, <2>2, Steps DEF sftpVars
<1>2. call'[q] = call[q]
  <2>1. CASE SshP!Step(p)
    BY <2>1, SshP!StepShape, SshAssumed DEF SshP!IInv
  <2>2. ASSUME NEW f, NEW n, SshP!Call(p, f, n, "alt") PROVE call'[q] = call[q]
    BY <2>2 DEF SshP!Call, SshP!IInv, SshP!TypeOK
  <2> QED
    BY <2>1, <2>2, Steps DEF sshVars
<1> QED
  BY <1>1, <1>2

\* A process keeps what is known of it while its call and copy stay.
LEMMA SameKeeps ==
  ASSUME RunType, NEW p \in Procs, ProcInv(p), call'[p] = call[p], copy'[p] = copy[p],
         run'[p] = run[p]
  PROVE  ProcInv(p)'
<1>1. run[p] \in Records
  BY DEF RunType
<1>2. /\ run'[p].pc = run[p].pc /\ run'[p].line = run[p].line /\ run'[p].at = run[p].at
      /\ run'[p].ended = run[p].ended /\ run'[p].lines = run[p].lines
      /\ run'[p].handled = run[p].handled
  BY <1>1 DEF Records
<1>3. Words(p)' = Words(p)
  BY <1>2 DEF Words
<1>4. LoopInv(p)'
  BY <1>2, <1>3 DEF ProcInv, LoopInv, Progress, NoTemplate
<1>5. CallInv(p)'
  BY <1>2, <1>3 DEF ProcInv, CallInv, CopiedTo, CopyLines
<1>6. AfterInv(p)'
  <2>1. \A cmd : After(p, cmd)' <=> After(p, cmd)
    BY <1>2, <1>3 DEF After
  <2>2. Target(p)' = Target(p)
    BY <1>2 DEF Target
  <2> QED
    BY <1>2, <1>3, <2>1, <2>2 DEF ProcInv, AfterInv, CopiedTo, CopyLines
<1> QED
  BY <1>4, <1>5, <1>6 DEF ProcInv

\* What remains to be shown of a step of p.
LEMMA Mine ==
  ASSUME SshP!IInv, SftpP!IInv, IInv, NEW p \in Procs, Type(p) \/ Step(p),
         votes' = votes \/ DOMAIN votes' = NodeIds, NEW r \in Records, run' = [run EXCEPT ![p] = r], r.pc # "shell" => r.line \in Lines[p],
         ProcInv(p)'
  PROVE  IInv'
<1>1. RunType'
  BY DEF IInv, RunType
<1>2. ASSUME NEW q \in Procs \ {p} PROVE ProcInv(q)'
  <2>1. run'[q] = run[q]
    BY DEF IInv, RunType
  <2> QED
    BY <2>1, OthersUntouched, SameKeeps DEF IInv
<1> QED
  BY <1>1, <1>2 DEF IInv

LEMMA InitHolds == Init => IInv
<1> SUFFICES ASSUME Init PROVE IInv
  OBVIOUS
<1> DEFINE r0 == [pc |-> "shell", line |-> <<>>, at |-> 0, ended |-> "no", lines |-> {},
                  handled |-> <<>>]
<1>1. r0 \in Records
  BY DEF Records
<1>2. run = [p \in Procs |-> r0] /\ DOMAIN votes = NodeIds
  BY DEF Init
<1>3. RunType
  BY <1>1, <1>2 DEF RunType
<1>4. ASSUME NEW p \in Procs PROVE ProcInv(p)
  BY <1>2 DEF ProcInv, LoopInv, CallInv, AfterInv
<1> QED
  BY <1>3, <1>4 DEF IInv

\* A step after which nothing has been done at any node.
LEMMA NothingDone ==
  ASSUME NEW p \in Procs, run'[p].handled = <<>>, run'[p].pc \in {"task", "over"},
         run'[p].pc = "task" => Accepted(Words(p)') /\ run'[p].ended = "no",
         run'[p].pc = "over" => Task(run'[p].line) # "c" \/ run'[p].ended = "refused"
  PROVE  ProcInv(p)'
<1>1. LoopInv(p)'
  BY DEF LoopInv
<1>2. CallInv(p)' /\ AfterInv(p)'
  BY DEF CallInv, AfterInv
<1> QED
  BY <1>1, <1>2 DEF ProcInv

LEMMA TypeHolds ==
  ASSUME SshP!IInv, SftpP!IInv, IInv, NEW p \in Procs, Type(p)
  PROVE  IInv'
<1>1. /\ run[p].pc = "shell" /\ run[p] \in Records /\ run[p].handled = <<>>
      /\ votes' = votes /\ run[p].ended = "no"
  BY DEF Type, IInv, RunType, ProcInv, LoopInv
<1>2. PICK line \in Lines[p] :
        run' = [run EXCEPT ![p] =
                 LET r == [run[p] EXCEPT !.line = line, !.pc = "task"] IN
                 IF Accepted(Argz(line)) THEN r ELSE End(r, "refused", {})]
  BY DEF Type
<1> DEFINE t == [run[p] EXCEPT !.line = line, !.pc = "task"]
           r == IF Accepted(Argz(line)) THEN t ELSE End(t, "refused", {})
<1>3. /\ t \in Records /\ t.line = line /\ t.pc = "task" /\ t.handled = <<>>
      /\ t.ended = "no"
  <2>1. line \in Seq(Tokens)
    BY ArgzIs
  <2> QED
    BY <1>1, <2>1 DEF Records
<1> HIDE DEF t
<1>4. /\ r \in Records /\ r.line = line /\ r.handled = <<>>
      /\ \/ r.pc = "task" /\ Accepted(Argz(line)) /\ r.ended = "no"
         \/ r.pc = "over" /\ r.ended = "refused"
  <2>1. CASE Accepted(Argz(line))
    BY <1>3, <2>1
  <2>2. CASE ~Accepted(Argz(line))
    BY <1>3, <2>2, EndShape
  <2> QED
    BY <2>1, <2>2
<1>5. run' = [run EXCEPT ![p] = r]
  BY <1>2 DEF t
<1> HIDE DEF r
<1>6. run'[p] = r
  BY <1>5 DEF IInv, RunType
<1>7. Words(p)' = Argz(line)
  BY <1>4, <1>6 DEF Words
<1>8. ProcInv(p)'
  BY <1>4, <1>6, <1>7, NothingDone
<1> QED
  BY <1>1, <1>4, <1>5, <1>8, Mine

\* A run without remote commands ends.
LEMMA EndsAtTask ==
  ASSUME SshP!IInv, SftpP!IInv, IInv, NEW p \in Procs, Step(p),
         votes' = votes \/ DOMAIN votes' = NodeIds, run[p].pc = "task", Task(run[p].line) # "c",
         NEW how \in {"exit", "crashed"}, NEW lines \in SUBSET AllLines,
         run' = [run EXCEPT ![p] = End(run[p], how, lines)]
  PROVE  IInv'
<1> DEFINE r == End(run[p], how, lines)
<1>1. /\ run[p] \in Records /\ run[p].handled = <<>>
      /\ run[p].line \in Lines[p]
  BY DEF IInv, RunType, ProcInv, LoopInv
<1>2. /\ r \in Records /\ r.line = run[p].line /\ r.handled = <<>>
      /\ r.pc = "over"
  BY <1>1, EndShape
<1> HIDE DEF r
<1>3. run' = [run EXCEPT ![p] = r] /\ run'[p] = r
  BY DEF r, IInv, RunType
<1>4. ProcInv(p)'
  BY <1>2, <1>3, NothingDone
<1> QED
  BY <1>1, <1>2, <1>3, <1>4, Mine

\* The votes of a node change, or set_votes fails.
LEMMA ChangeVotesHolds ==
  ASSUME SshP!IInv, SftpP!IInv, IInv, NEW p \in Procs, Step(p), run[p].pc = "task",
         Task(run[p].line) # "c", client_change_votes(p, atoi(Words(p)[2]), atoi(Words(p)[3]))
  PROVE  IInv'
<1>1. PICK lines \in {{"changed"}, {"failed", "changed"}} :
        run' = [run EXCEPT ![p] = End(run[p], "exit", lines)]
  BY DEF client_change_votes
<1>2. votes' = votes \/ DOMAIN votes' = NodeIds
  BY DEF client_change_votes, IInv, RunType
<1> QED
  BY <1>1, <1>2, EndsAtTask, LineSets

\* The tasks other than the remote commands.
LEMMA TaskHolds ==
  ASSUME SshP!IInv, SftpP!IInv, IInv, NEW p \in Procs,
         client_print_option(p) \/ client_monitor_option(p) \/ client_quorum_option(p)
  PROVE  IInv'
<1>1. Step(p)
  BY DEF Step
<1>2. CASE client_print_option(p)
  <2>1. PICK lines \in {{}, {"error"}} : run' = [run EXCEPT ![p] = End(run[p], "exit", lines)]
    BY <1>2 DEF client_print_option
  <2> QED
    BY <1>1, <1>2, <2>1, EndsAtTask, LineSets DEF client_print_option, Runs
<1>3. CASE client_monitor_option(p)
  <2>1. PICK lines \in {{}, {"error"}} : run' = [run EXCEPT ![p] = End(run[p], "exit", lines)]
    BY <1>3 DEF client_monitor_option
  <2> QED
    BY <1>1, <1>3, <2>1, EndsAtTask, LineSets DEF client_monitor_option, Runs
<1>4. CASE client_quorum_option(p)
  <2>1. run[p].pc = "task" /\ Task(run[p].line) # "c"
    BY <1>4 DEF client_quorum_option, Runs
  <2>2. \/ /\ \E how \in {"exit", "crashed"} : run' = [run EXCEPT ![p] = End(run[p], how, {})]
           /\ UNCHANGED votes
        \/ client_change_votes(p, atoi(Words(p)[2]), atoi(Words(p)[3]))
    BY <1>4 DEF client_quorum_option
  <2> QED
    BY <1>1, <2>1, <2>2, EndsAtTask, ChangeVotesHolds, LineSets
<1> QED
  BY <1>2, <1>3, <1>4

LEMMA FirstIs ==
  ASSUME NEW w \in Seq(STRING), Accepted(w)
  PROVE  /\ FirstAddress(w) \in 1 .. Len(w) + 1
         /\ w[1] = "reset_conf" /\ Len(w) = 1 => FirstAddress(w) = 1
<1> DEFINE n == Len(w)
           reset == w[1] = "reset_conf"
<1>1. n \in 1 .. 8
  BY DEF Accepted, MaxWords
<1>2. FirstAddress(w) = IF ~reset THEN 2 ELSE IF n > 1 THEN 3 ELSE 1
  BY DEF FirstAddress
<1> HIDE DEF n, reset
<1>3. FirstAddress(w) \in 1 .. n + 1 /\ (reset /\ n = 1 => FirstAddress(w) = 1)
  BY <1>1, <1>2
<1> QED
  BY <1>3 DEF n, reset

LEMMA SshOptionHolds ==
  ASSUME SshP!IInv, SftpP!IInv, IInv, NEW p \in Procs, client_ssh_option(p)
  PROVE  IInv'
<1> DEFINE r == [run[p] EXCEPT !.pc = "address", !.at = FirstAddress(Words(p))]
<1>1. /\ run[p] \in Records /\ run[p].pc = "task" /\ run[p].handled = <<>>
      /\ run[p].line \in Lines[p] /\ Task(run[p].line) = "c" /\ Accepted(Words(p))
      /\ votes' = votes /\ run[p].ended = "no"
  BY DEF client_ssh_option, Runs, IInv, RunType, ProcInv, LoopInv
<1>2. /\ FirstAddress(Words(p)) \in 1 .. Len(Words(p)) + 1 /\ Len(Words(p)) \in Nat
      /\ NoTemplate(p) => FirstAddress(Words(p)) = 1
  BY <1>1, WordsType, FirstIs DEF IInv, NoTemplate
<1>3. /\ r \in Records /\ r.pc = "address" /\ r.at = FirstAddress(Words(p))
      /\ r.line = run[p].line /\ r.handled = <<>> /\ r.ended = "no"
  <2>1. FirstAddress(Words(p)) \in Nat
    BY <1>2
  <2> HIDE DEF FirstAddress
  <2> QED
    BY <1>1, <2>1 DEF Records
<1>4. run' = [run EXCEPT ![p] = r]
  BY DEF client_ssh_option
<1> HIDE DEF r
<1>5. run'[p] = r /\ Words(p)' = Words(p)
  BY <1>3, <1>4 DEF IInv, RunType, Words
<1>6. LoopInv(p)'
  BY <1>1, <1>2, <1>3, <1>5 DEF LoopInv, Progress, NoTemplate
<1>7. CallInv(p)' /\ AfterInv(p)'
  BY <1>3, <1>5 DEF CallInv, AfterInv
<1>8. Step(p)
  BY DEF Step
<1> QED
  BY <1>1, <1>3, <1>4, <1>6, <1>7, <1>8, Mine DEF ProcInv

\* Done with an address that is there, the loop goes on to the next one.
LEMMA Advance ==
  ASSUME RunType, NEW p \in Procs, NEW lines \in SUBSET AllLines, LoopInv(p),
         run[p].pc \in {"address", "copying", "remote"}, run[p].at <= Len(Words(p)),
         ~NoTemplate(p), run' = [run EXCEPT ![p] = Handled(run[p], lines)]
  PROVE  LET h == run'[p].handled IN
         /\ run'[p] \in Records /\ run'[p].line \in Lines[p] /\ Words(p)' = Words(p)
         /\ LoopInv(p)' /\ CallInv(p)'
         /\ run'[p].lines = lines /\ h # <<>> /\ h[Len(h)] = Words(p)[run[p].at]
<1> DEFINE r == run[p]
           w == Words(p)
           s == Handled(run[p], lines)
           first == FirstAddress(w)
<1>1. /\ r \in Records /\ r.line \in Lines[p] /\ r.pc \notin {"shell", "over"}
      /\ r.ended = "no"
      /\ Task(r.line) = "c" /\ Accepted(w) /\ r.at \in first .. Len(w) + 1 /\ Progress(p)
      /\ r.at \in Nat /\ r.handled \in Seq(STRING)
  BY DEF RunType, LoopInv, Records
<1>2. w \in Seq(STRING) /\ Len(w) \in Nat /\ first \in 1 .. Len(w) + 1
  BY <1>1, WordsType, FirstIs
<1>3. r.at \in 1 .. Len(w) /\ w[r.at] \in STRING /\ w[r.at] = Argz(r.line)[r.at]
  <2>1. r.at \in 1 .. Len(w)
    BY <1>1, <1>2
  <2> QED
    BY <1>2, <2>1, ElementOfSeq DEF Words
<1>4. /\ s \in Records /\ s.pc = "address" /\ s.lines = lines /\ s.line = r.line
      /\ s.at = r.at + 1 /\ s.handled = Append(r.handled, w[r.at])
      /\ s.ended = r.ended
  BY <1>1, <1>3, HandledShape
<1>5. run'[p] = s
  BY DEF RunType
<1> HIDE DEF s
<1>6. Words(p)' = w
  BY <1>4, <1>5 DEF Words
<1> DEFINE h == s.handled
           n == Len(r.handled)
<1>7. /\ n \in Nat /\ Len(h) = n + 1 /\ h[n + 1] = w[r.at]
      /\ \A k \in 1 .. n : h[k] = r.handled[k]
  BY <1>1, <1>3, <1>4, AppendProperties, LenProperties
<1>8. n = r.at - first /\ \A k \in 1 .. n : r.handled[k] = w[first + k - 1]
  BY <1>1 DEF Progress
<1> HIDE DEF w, first, n, h
<1>8a. r.at \in Nat /\ first \in Nat /\ n \in Nat /\ n = r.at - first
  <2>1. first \in Nat
    BY <1>2
  <2> QED
    BY <1>1, <1>7, <1>8, <2>1
<1>9. \A k \in 1 .. n + 1 : h[k] = w[first + k - 1]
  <2>1. ASSUME NEW k \in 1 .. n + 1 PROVE h[k] = w[first + k - 1]
    <3>1. CASE k \in 1 .. n
      BY <1>7, <1>8, <3>1
    <3>2. CASE k = n + 1
      <4>1. first + k - 1 = r.at
        BY <1>8a, <3>2
      <4> QED
        BY <1>7, <3>2, <4>1
    <3> QED
      BY <1>7, <3>1, <3>2
  <2> QED
    BY <2>1
<1>10. Progress(p)'
  <2>1. n + 1 = s.at - first
    BY <1>4, <1>8a
  <2> QED
    BY <1>5, <1>6, <1>7, <1>9, <2>1 DEF Progress, first, h
<1>11. s.at \in first .. Len(w) + 1
  BY <1>1, <1>2, <1>3, <1>4
<1>12. LoopInv(p)'
  BY <1>1, <1>4, <1>5, <1>6, <1>10, <1>11 DEF LoopInv, NoTemplate, w, first
<1>13. CallInv(p)'
  BY <1>1, <1>4, <1>5 DEF CallInv
<1>14. h # <<>>
  BY <1>7
<1> QED
  BY <1>1, <1>4, <1>5, <1>6, <1>7, <1>12, <1>13, <1>14 DEF w, h

LEMMA LastAddressHolds ==
  ASSUME SshP!IInv, SftpP!IInv, IInv, NEW p \in Procs, LastAddress(p)
  PROVE  IInv'
<1> DEFINE r == End(run[p], "exit", run[p].lines)
           w == Words(p)
<1>1. /\ run[p].pc = "address" /\ run[p].at > Len(w) /\ run[p] \in Records
      /\ run[p].lines \in SUBSET AllLines /\ run[p].line \in Lines[p]
      /\ Task(run[p].line) = "c" /\ Accepted(w) /\ run[p].at \in FirstAddress(w) .. Len(w) + 1
      /\ Progress(p) /\ (NoTemplate(p) => run[p].at = 1) /\ votes' = votes
  BY DEF LastAddress, IInv, RunType, ProcInv, LoopInv, Records
<1>2. w \in Seq(STRING) /\ Len(w) \in Nat /\ FirstAddress(w) \in 1 .. Len(w) + 1
  BY <1>1, WordsType, FirstIs DEF IInv
<1>3. run[p].at = Len(w) + 1 /\ ~NoTemplate(p)
  <2>1. run[p].at = Len(w) + 1
    BY <1>1, <1>2
  <2>2. Len(w) + 1 # 1
    <3>1. Len(w) \in 1 .. 8
      BY <1>1 DEF Accepted, MaxWords
    <3> HIDE DEF w
    <3> QED
      BY <3>1
  <2> QED
    BY <1>1, <2>1, <2>2
<1>4. /\ r \in Records /\ r.pc = "over" /\ r.ended = "exit" /\ r.lines = run[p].lines
      /\ r.line = run[p].line /\ r.at = run[p].at /\ r.handled = run[p].handled
  BY <1>1, EndShape
<1> HIDE DEF r
<1>5. run' = [run EXCEPT ![p] = r]
  BY DEF LastAddress, r
<1>6. run'[p] = r /\ Words(p)' = w
  BY <1>4, <1>5 DEF IInv, RunType, Words
<1> HIDE DEF w
<1>7. Progress(p)'
  BY <1>1, <1>4, <1>6 DEF Progress, w
<1>8. LoopInv(p)'
  BY <1>1, <1>3, <1>4, <1>6, <1>7 DEF LoopInv, NoTemplate, w
<1>9. CallInv(p)'
  BY <1>4, <1>6 DEF CallInv
<1>10. call' = call /\ copy' = copy
  BY DEF LastAddress, sshVars, sftpVars
<1>11. AfterInv(p)'
  <2>1. AfterInv(p)
    BY DEF IInv, ProcInv
  <2>2. \A cmd : After(p, cmd)' => After(p, cmd)
    BY <1>1, <1>4, <1>6 DEF After, w
  <2>3. Target(p)' = Target(p)
    BY <1>4, <1>6 DEF Target
  <2> QED
    BY <1>4, <1>6, <1>10, <2>1, <2>2, <2>3 DEF AfterInv, CopiedTo, CopyLines, w
<1>12. Step(p)
  BY DEF Step
<1> QED
  BY <1>1, <1>4, <1>5, <1>8, <1>9, <1>11, <1>12, Mine DEF ProcInv

\* The loop waits for a function that it called for the address.
LEMMA Waits ==
  ASSUME RunType, NEW p \in Procs, ProcInv(p), run[p].pc \in {"address", "copying"},
         NEW step \in {"copying", "remote"}, NEW lines \in SUBSET AllLines,
         run' = [run EXCEPT ![p].pc = step, ![p].lines = lines],
         run[p].at <= Len(Words(p)), Words(p)[run[p].at] \in DOMAIN Host,
         Words(p)[1] \in DOMAIN Announced, ~NoTemplate(p)
  PROVE  /\ run' = [run EXCEPT ![p] = run'[p]] /\ run'[p] \in Records
         /\ run'[p].line \in Lines[p] /\ Words(p)' = Words(p)
         /\ run'[p].at = run[p].at /\ run'[p].pc = step /\ run'[p].lines = lines
         /\ LoopInv(p)' /\ AfterInv(p)'
<1> DEFINE r == [run[p] EXCEPT !.pc = step, !.lines = lines]
           w == Words(p)
<1>1. /\ run[p] \in Records /\ run[p].line \in Lines[p]
      /\ Task(run[p].line) = "c" /\ Accepted(w) /\ run[p].ended = "no"
      /\ run[p].at \in FirstAddress(w) .. Len(w) + 1 /\ Progress(p)
  BY DEF RunType, ProcInv, LoopInv
<1>2. /\ r \in Records /\ r.pc = step /\ r.lines = lines /\ r.line = run[p].line
      /\ r.at = run[p].at /\ r.handled = run[p].handled
      /\ r.ended = "no"
  BY <1>1 DEF Records
<1>3. run' = [run EXCEPT ![p] = r] /\ run'[p] = r
  BY DEF RunType
<1> HIDE DEF r
<1>4. Words(p)' = w
  BY <1>2, <1>3 DEF Words
<1>5. Progress(p)'
  BY <1>1, <1>2, <1>3, <1>4 DEF Progress
<1>6. LoopInv(p)'
  BY <1>1, <1>2, <1>3, <1>4, <1>5 DEF LoopInv, NoTemplate
<1>7. AfterInv(p)'
  BY <1>2, <1>3 DEF AfterInv, After
<1> QED
  BY <1>1, <1>2, <1>3, <1>4, <1>6, <1>7

LEMMA SshCommandHolds ==
  ASSUME SshP!IInv, SftpP!IInv, IInv, NEW p \in Procs, client_ssh_command(p)
  PROVE  IInv'
<1> DEFINE r == run[p]
           w == Words(p)
           cmd == w[1]
           word == w[r.at]
<1>1. /\ r.pc = "address" /\ r.at <= Len(w) /\ votes' = votes /\ RunType /\ ProcInv(p)
      /\ LoopInv(p) /\ Step(p)
  BY DEF client_ssh_command, IInv, ProcInv, Step
<1>2. NoTemplate(p) <=> cmd = "reset_conf" /\ Len(w) = 1
  BY DEF NoTemplate
<1>3. "reset_conf" \in DOMAIN Announced
  BY DEF Announced
<1>4. ASSUME NEW lines \in SUBSET AllLines, run' = [run EXCEPT ![p] = Handled(r, lines)],
             ~NoTemplate(p), cmd \notin DOMAIN Announced \/ word \notin DOMAIN Host
      PROVE  IInv'
  <2>1. /\ run'[p] \in Records /\ run'[p].line \in Lines[p] /\ Words(p)' = w
        /\ LoopInv(p)' /\ CallInv(p)'
        /\ run'[p].handled[Len(run'[p].handled)] = word
    BY <1>1, <1>4, Advance
  <2>2. AfterInv(p)'
    BY <1>4, <2>1 DEF AfterInv, After
  <2>3. run' = [run EXCEPT ![p] = run'[p]]
    BY <1>1, <1>4 DEF RunType
  <2> QED
    BY <1>1, <2>1, <2>2, <2>3, Mine DEF ProcInv
<1>5. CASE cmd \notin DOMAIN Announced
  <2>1. run' = [run EXCEPT ![p] = Handled(r, {"not_recognized"})]
    BY <1>5 DEF client_ssh_command
  <2> QED
    BY <1>2, <1>3, <1>4, <1>5, <2>1, LineSets
<1>6. CASE cmd \in DOMAIN Announced /\ NoTemplate(p)
  <2> DEFINE e == End(r, "crashed", {})
  <2>1. run' = [run EXCEPT ![p] = e]
    BY <1>2, <1>6 DEF client_ssh_command
  <2>2. r \in Records /\ r.line \in Lines[p] /\ r.at = 1 /\ Progress(p)
    BY <1>1, <1>6 DEF RunType, LoopInv
  <2>3. r.handled = <<>>
    <3>1. FirstAddress(w) = 1
      BY <1>1, <1>2, <1>6, WordsType, FirstIs DEF LoopInv
    <3>2. r.handled \in Seq(STRING) /\ Len(r.handled) = 0
      BY <2>2, <3>1 DEF Progress, Records
    <3> QED
      BY <3>2, EmptySeq
  <2>4. /\ e \in Records /\ e.pc = "over" /\ e.ended = "crashed" /\ e.line = r.line
        /\ e.handled = <<>>
    BY <2>2, <2>3, EndShape, LineSets
  <2> HIDE DEF e
  <2>5. run'[p] = e /\ Words(p)' = w
    BY <1>1, <2>1, <2>4 DEF RunType, Words
  <2>6. LoopInv(p)'
    BY <1>6, <2>4, <2>5 DEF LoopInv, NoTemplate
  <2>7. CallInv(p)' /\ AfterInv(p)'
    BY <2>4, <2>5 DEF CallInv, AfterInv
  <2> QED
    BY <1>1, <2>1, <2>2, <2>4, <2>6, <2>7, Mine DEF ProcInv
<1>7. CASE cmd \in DOMAIN Announced /\ ~NoTemplate(p) /\ word \notin DOMAIN Host
  <2> DEFINE lines == {Announced[cmd]} \cup Complaint[cmd]
                        \cup (IF cmd = "reset_conf" THEN {"failed"} ELSE {})
  <2>1. run' = [run EXCEPT ![p] = Handled(r, lines)]
    BY <1>2, <1>7 DEF client_ssh_command
  <2>2. lines \in SUBSET AllLines
    BY <1>7, LineSets
  <2> HIDE DEF lines
  <2> QED
    BY <1>4, <1>7, <2>1, <2>2
<1>8. CASE /\ cmd \in DOMAIN Announced /\ ~NoTemplate(p) /\ word \in DOMAIN Host
           /\ cmd = "reset_conf"
  <2>1. /\ Sftp!Call(p, Host[word]) /\ call' = call
        /\ run' = [run EXCEPT ![p].pc = "copying", ![p].lines = {}]
    BY <1>2, <1>8 DEF client_ssh_command, sshVars
  <2>2. /\ run' = [run EXCEPT ![p] = run'[p]] /\ run'[p] \in Records
        /\ run'[p].line \in Lines[p] /\ Words(p)' = w
        /\ run'[p].at = r.at /\ run'[p].pc = "copying" /\ run'[p].lines = {}
        /\ LoopInv(p)' /\ AfterInv(p)'
    BY <1>1, <1>8, <2>1, LineSets, Waits
  <2>3. copy'[p].pc = "new" /\ copy'[p].node = Host[word]
    <3>1. SftpP!Call(p, Host[word])
      BY <2>1, SftpSame
    <3> QED
      BY <3>1 DEF SftpP!Call, SftpP!IInv, SftpP!TypeOK
  <2>4. CallInv(p)'
    BY <1>8, <2>2, <2>3 DEF CallInv
  <2> QED
    BY <1>1, <2>2, <2>4, Mine DEF ProcInv
<1>9. CASE /\ cmd \in DOMAIN Announced /\ ~NoTemplate(p) /\ word \in DOMAIN Host
           /\ cmd # "reset_conf"
  <2>1. /\ Ssh!Call(p, Function[cmd], Host[word], "alt") /\ copy' = copy
        /\ run' = [run EXCEPT ![p].pc = "remote", ![p].lines = {}]
    BY <1>2, <1>9 DEF client_ssh_command, sftpVars
  <2>2. /\ run' = [run EXCEPT ![p] = run'[p]] /\ run'[p] \in Records
        /\ run'[p].line \in Lines[p] /\ Words(p)' = w
        /\ run'[p].at = r.at /\ run'[p].pc = "remote" /\ run'[p].lines = {}
        /\ LoopInv(p)' /\ AfterInv(p)'
    BY <1>1, <1>9, <2>1, LineSets, Waits
  <2>3. call'[p].fn = Function[cmd] /\ call'[p].node = Host[word]
    <3>1. SshP!Call(p, Function[cmd], Host[word], "alt")
      BY <2>1, SshSame
    <3> QED
      BY <3>1 DEF SshP!Call, SshP!IInv, SshP!TypeOK
  <2>4. CallInv(p)'
    BY <1>9, <2>2, <2>3 DEF CallInv
  <2> QED
    BY <1>1, <2>2, <2>4, Mine DEF ProcInv
<1> QED
  BY <1>5, <1>6, <1>7, <1>8, <1>9

\* reset_conf goes on to the daemon with the copy behind it.
LEMMA StopHolds ==
  ASSUME SshP!IInv, SftpP!IInv, IInv, NEW p \in Procs, StopAfterCopy(p)
  PROVE  IInv'
<1> DEFINE w == Words(p)
           at == run[p].at
<1>1. /\ run[p].pc = "copying" /\ copy[p].pc = "idle" /\ votes' = votes /\ copy' = copy
      /\ Ssh!Call(p, "stop_corosync", copy[p].node, "alt")
      /\ run' = [run EXCEPT ![p].pc = "remote", ![p].lines = CopyLines(p)]
      /\ RunType /\ ProcInv(p) /\ Step(p)
  BY DEF StopAfterCopy, IInv, Step, sftpVars, Sftp!At, CopyLines
<1>2. /\ at <= Len(w) /\ w[at] \in DOMAIN Host /\ w[1] \in DOMAIN Announced /\ ~NoTemplate(p)
      /\ w[1] = "reset_conf" /\ copy[p].node = Host[w[at]] /\ copy[p].rc # 0
  BY <1>1 DEF ProcInv, LoopInv, CallInv
<1>3. CopyLines(p) \in SUBSET AllLines
  BY LineSets DEF CopyLines
<1>4. /\ run' = [run EXCEPT ![p] = run'[p]] /\ run'[p] \in Records
      /\ run'[p].line \in Lines[p] /\ Words(p)' = w
      /\ run'[p].at = at /\ run'[p].pc = "remote" /\ run'[p].lines = CopyLines(p)
      /\ LoopInv(p)' /\ AfterInv(p)'
  BY <1>1, <1>2, <1>3, Waits
<1>5. call'[p].fn = "stop_corosync" /\ call'[p].node = copy[p].node
  <2>1. SshP!Call(p, "stop_corosync", copy[p].node, "alt")
    BY <1>1, SshSame
  <2> QED
    BY <2>1 DEF SshP!Call, SshP!IInv, SshP!TypeOK
<1>6. CallInv(p)'
  BY <1>1, <1>2, <1>4, <1>5 DEF CallInv, CopiedTo, CopyLines
<1> QED
  BY <1>1, <1>4, <1>6, Mine DEF ProcInv

\* The lines about an address say what its calls returned.
LEMMA ReturnedHolds ==
  ASSUME SshP!IInv, SftpP!IInv, IInv, NEW p \in Procs, RemoteReturned(p)
  PROVE  IInv'
<1> DEFINE w == Words(p)
           word == w[run[p].at]
           cmd == w[1]
           lines == run[p].lines \cup {Announced[cmd]} \cup Complaints(cmd, call[p].rc)
<1>1. /\ run[p].pc = "remote" /\ call[p].pc = "idle" /\ votes' = votes /\ copy' = copy
      /\ call' = call /\ run' = [run EXCEPT ![p] = Handled(run[p], lines)]
      /\ RunType /\ LoopInv(p) /\ CallInv(p) /\ Step(p)
  BY DEF RemoteReturned, IInv, ProcInv, Step, sshVars, sftpVars, Ssh!At
<1>2. /\ run[p].at <= Len(w) /\ word \in DOMAIN Host /\ cmd \in DOMAIN Announced
      /\ ~NoTemplate(p)
  BY <1>1 DEF LoopInv
<1>3. lines \in SUBSET AllLines
  <2>1. run[p].lines \in SUBSET AllLines
    BY <1>1 DEF RunType, Records
  <2> QED
    BY <1>2, <2>1, LineSets DEF Complaints
<1> HIDE DEF lines
<1>4. /\ run'[p] \in Records /\ run'[p].line \in Lines[p] /\ Words(p)' = w
      /\ LoopInv(p)' /\ CallInv(p)' /\ run'[p].lines = lines
      /\ run'[p].handled[Len(run'[p].handled)] = word
  BY <1>1, <1>2, <1>3, Advance
<1>5. Target(p)' = Host[word]
  BY <1>4 DEF Target
<1>6. AfterInv(p)'
  <2>1. call[p].node = Host[word]
    BY <1>1 DEF CallInv
  <2>2. CASE cmd = "reset_conf"
    <3>1. /\ call[p].fn = "stop_corosync" /\ CopiedTo(p, Host[word])
          /\ run[p].lines = CopyLines(p)
      BY <1>1, <2>1, <2>2 DEF CallInv
    <3>2. lines = CopyLines(p) \cup {"reset"} \cup Complaints(cmd, call[p].rc)
      BY <2>2, <3>1 DEF lines, Announced
    <3> QED
      BY <1>1, <1>4, <1>5, <2>1, <2>2, <3>1, <3>2 DEF AfterInv, CopiedTo, CopyLines
  <2>3. CASE cmd # "reset_conf"
    <3>1. call[p].fn = Function[cmd] /\ run[p].lines = {}
      BY <1>1, <2>3 DEF CallInv
    <3> QED
      BY <1>1, <1>4, <1>5, <2>1, <2>3, <3>1 DEF AfterInv, lines
  <2> QED
    BY <2>2, <2>3
<1>7. run' = [run EXCEPT ![p] = run'[p]]
  BY <1>1 DEF RunType
<1> QED
  BY <1>1, <1>4, <1>6, <1>7, Mine DEF ProcInv

\* A step of a call keeps what the call is.
LEMMA CallStepHolds ==
  ASSUME SshP!IInv, SftpP!IInv, IInv, NEW p \in Procs, CopyStep(p) \/ RemoteStep(p)
  PROVE  IInv'
<1>1. /\ run' = run /\ votes' = votes /\ Step(p) /\ RunType /\ ProcInv(p)
      /\ run[p].pc \in {"copying", "remote"}
      /\ run[p] \in Records /\ run[p].line \in Lines[p] /\ run' = [run EXCEPT ![p] = run[p]]
  BY DEF CopyStep, RemoteStep, Step, IInv, RunType
<1>2. Words(p)' = Words(p)
  BY <1>1 DEF Words
<1>3. LoopInv(p)'
  BY <1>1, <1>2 DEF ProcInv, LoopInv, Progress, NoTemplate
<1>4. AfterInv(p)'
  BY <1>1, <1>2 DEF ProcInv, AfterInv, After
<1>5. CallInv(p)'
  <2>1. CASE CopyStep(p)
    <3>1. run[p].pc = "copying" /\ SftpP!Step(p)
      BY <2>1, SftpSame DEF CopyStep
    <3>2. copy'[p].node = copy[p].node /\ (copy'[p].pc = "idle" => copy'[p].rc # 0)
      BY <3>1, SftpP!StepShape, SftpAssumed DEF SftpP!IInv
    <3> QED
      BY <1>1, <1>2, <3>1, <3>2 DEF ProcInv, CallInv
  <2>2. CASE RemoteStep(p)
    <3>1. run[p].pc = "remote" /\ SshP!Step(p) /\ copy' = copy
      BY <2>2, SshSame DEF RemoteStep, sftpVars
    <3>2. call'[p].fn = call[p].fn /\ call'[p].node = call[p].node
      BY <3>1, SshP!StepShape, SshAssumed DEF SshP!IInv
    <3> QED
      BY <1>1, <1>2, <3>1, <3>2 DEF ProcInv, CallInv, CopiedTo, CopyLines
  <2> QED
    BY <2>1, <2>2
<1> QED
  BY <1>1, <1>3, <1>4, <1>5, Mine DEF ProcInv

\* Steps that leave the client alone.
LEMMA IdleHolds ==
  ASSUME SshP!IInv, SftpP!IInv, IInv,
         UNCHANGED vars \/ \E n \in Nodes : DaemonStops(n)
  PROVE  IInv'
<1>1. call' = call /\ copy' = copy /\ run' = run /\ votes' = votes
  <2>1. ASSUME NEW n \in Nodes, DaemonStops(n)
        PROVE  call' = call /\ copy' = copy /\ run' = run /\ votes' = votes
    BY <2>1, SshSame DEF DaemonStops, SshP!DaemonStops, sftpVars
  <2> QED
    BY <2>1 DEF vars, sshVars, sftpVars
<1>2. RunType'
  BY <1>1 DEF IInv, RunType
<1>3. \A q \in Procs : ProcInv(q)'
  BY <1>1, SameKeeps DEF IInv
<1> QED
  BY <1>2, <1>3 DEF IInv

LEMMA StepHolds ==
  ASSUME SshP!IInv, SftpP!IInv, IInv, [Next]_vars
  PROVE  IInv'
<1>1. ASSUME NEW p \in Procs, Type(p) \/ Step(p) PROVE IInv'
  BY <1>1, TypeHolds, TaskHolds, SshOptionHolds, SshCommandHolds, StopHolds, ReturnedHolds,
     LastAddressHolds, CallStepHolds DEF Step
<1> QED
  BY <1>1, IdleHolds DEF Next

-----------------------------------------------------------------------------
(* Theorems                                                                *)

\* What is known of the two managers' calls and of every run holds in every state.
THEOREM Inductive == Spec => []IInv
<1>1. SshP!IInv /\ SftpP!IInv /\ IInv /\ [Next]_vars => IInv'
  BY StepHolds
<1> QED
  BY <1>1, InitHolds, SshCorrect, SftpCorrect, PTL DEF Spec

\* What an undisturbed call of a process that has returned has done.
LEMMA Returned ==
  ASSUME SshP!IInv, NEW p \in Procs, sshWas[p] # Ssh!Disturbed, call[p].pc = "idle",
         call[p].fn \in {"start_corosync", "stop_corosync"}
  PROVE  LET n == call[p].node IN
         /\ call[p].rc = CS_OK /\ call[p].obeyed => Ssh!Effect(call[p].fn, Ssh!State(n))
         /\ call[p].rc # CS_OK \/ ~call[p].obeyed => daemon[n] \in Ssh!Settles(sshWas[p].daemon)
<1>1. CS_OK = SshP!Promise!CS_OK
  BY DEF CS_OK, SshP!Promise!CS_OK
<1>2. SshP!ReturnedInv(p)
  <2>1. Ssh!Disturbed = SshP!Disturbed
    BY Zenon DEF Ssh!Disturbed, SshP!Disturbed
  <2> QED
    BY <2>1 DEF SshP!IInv, SshP!ClientInv, SshP!NodeInv
<1>3. /\ \A s : SshP!Effect(call[p].fn, s) <=> Ssh!Effect(call[p].fn, s)
      /\ SshP!State(call[p].node) = Ssh!State(call[p].node)
      /\ \A d : SshP!Settles(d) = Ssh!Settles(d)
  BY Zenon DEF Ssh!Effect, SshP!Effect, Ssh!State, SshP!State, Ssh!Settles, SshP!Settles
<1>4. call[p].fn # "restart_corosync"
  OBVIOUS
<1> QED
  BY <1>1, <1>2, <1>3, <1>4 DEF SshP!ReturnedInv, SshP!Untouched

\* What a start or a stop prints of an undisturbed node agrees with its daemon, as
\* far as the client can know: a failure means that nothing happened, and no failure
\* that it did or that the node did not obey.
THEOREM LinesRight == Spec => []LinesTrue
<1>1. SshP!IInv /\ IInv => LinesTrue
  <2> SUFFICES ASSUME SshP!IInv, IInv, NEW p \in Procs, NEW cmd \in {"start", "stop"},
                      After(p, cmd), sshWas[p] # Ssh!Disturbed
               PROVE  IF Said(p, "failed") \/ ~call[p].obeyed
                        THEN daemon[Target(p)] \in Ssh!Settles(sshWas[p].daemon)
                        ELSE Ssh!Effect(Function[cmd], Ssh!State(Target(p)))
    BY DEF LinesTrue
  <2>1. cmd \in DOMAIN Announced /\ cmd # "reset_conf" /\ Complaint[cmd] = {"failed"}
    BY DEF Announced, Complaint
  <2>2. /\ call[p].pc = "idle" /\ call[p].node = Target(p) /\ call[p].fn = Function[cmd]
        /\ run[p].lines = {Announced[cmd]} \cup Complaints(cmd, call[p].rc)
    BY <2>1 DEF IInv, ProcInv, AfterInv, After
  <2>3. Said(p, "failed") <=> call[p].rc # CS_OK
    <3>1. Announced[cmd] # "failed"
      BY DEF Announced
    <3> QED
      BY <2>1, <2>2, <3>1 DEF Said, Complaints
  <2>4. Function[cmd] \in {"start_corosync", "stop_corosync"}
    BY DEF Function
  <2> QED
    BY <2>2, <2>3, <2>4, Returned
<1> QED
  BY <1>1, Inductive, SshCorrect, PTL

\* What reset_conf prints about a node is what it left there.
THEOREM ResetRight == Spec => []ResetOutcome
<1>1. SshP!IInv /\ SftpP!IInv /\ IInv => ResetOutcome
  <2> SUFFICES ASSUME SshP!IInv, SftpP!IInv, IInv, NEW p \in Procs, After(p, "reset_conf")
               PROVE  /\ sftpClean[p] /\ copy[p].lossless =>
                           IF Said(p, "failed") THEN remote[Target(p)] \in {base[p], <<>>}
                           ELSE Sftp!Copied(p)
                      /\ ~Said(p, "may_have") =>
                           /\ call[p].fn = "stop_corosync" /\ call[p].node = Target(p)
                           /\ call[p].rc = CS_OK
                           /\ sshWas[p] # Ssh!Disturbed /\ call[p].obeyed =>
                                daemon[Target(p)] # "up"
    BY DEF ResetOutcome
  <2>1. "reset_conf" \in DOMAIN Announced /\ Complaint["reset_conf"] = {"may_have"}
    BY DEF Announced, Complaint
  <2>2. /\ call[p].pc = "idle" /\ call[p].node = Target(p) /\ call[p].fn = "stop_corosync"
        /\ CopiedTo(p, Target(p))
        /\ run[p].lines = CopyLines(p) \cup {"reset"} \cup Complaints("reset_conf", call[p].rc)
    BY <2>1 DEF IInv, ProcInv, AfterInv, After
  <2>3. /\ Said(p, "failed") <=> copy[p].rc # CS_OK
        /\ Said(p, "may_have") <=> call[p].rc # CS_OK
    BY <2>1, <2>2 DEF Said, CopyLines, Complaints
  <2>4. sshWas[p] # Ssh!Disturbed /\ call[p].obeyed /\ ~Said(p, "may_have") =>
          daemon[Target(p)] # "up"
    <3>1. Ssh!Effect("stop_corosync", Ssh!State(call[p].node)) => daemon[call[p].node] # "up"
      BY DEF Ssh!Effect, Ssh!State
    <3> QED
      BY <2>2, <2>3, <3>1, Returned
  <2>5. SftpP!FileInv(p) /\ copy[p].rc \in SftpP!Codes
    BY DEF SftpP!IInv, SftpP!ProcInv, SftpP!TypeOK
  <2>6. ASSUME sftpClean[p], copy[p].lossless
        PROVE  IF Said(p, "failed") THEN remote[Target(p)] \in {base[p], <<>>}
               ELSE Sftp!Copied(p)
    <3>1. CS_OK = SftpP!CS_OK
      BY DEF CS_OK, SftpP!CS_OK
    <3>2. CASE copy[p].rc = CS_OK
      <4>1. SftpP!Holds(remote[copy[p].node], copy[p].opened, copy[p].size)
        BY <2>2, <2>5, <2>6, <3>1, <3>2 DEF SftpP!FileInv, SftpP!At, CopiedTo
      <4>2. SftpP!Copied(p)
        BY <4>1, SftpP!CopiedIs, SftpAssumed DEF SftpP!IInv
      <4>3. SftpP!Copied(p) => Sftp!Copied(p)
        BY Zenon DEF SftpP!Copied, Sftp!Copied, SftpP!Stale, Sftp!Stale, SftpP!Stack, Sftp!Stack
      <4> QED
        BY <2>3, <3>2, <4>2, <4>3
    <3>3. CASE copy[p].rc # CS_OK
      <4>1. copy[p].rc \in SftpP!Codes \ {0, SftpP!CS_OK}
        BY <2>2, <2>5, <3>1, <3>3 DEF CopiedTo
      <4>2. remote[Target(p)] \in {base[p], <<>>}
        BY <2>2, <2>5, <2>6, <4>1 DEF SftpP!FileInv, SftpP!At, CopiedTo
      <4> QED
        BY <2>3, <3>3, <4>2
    <3> QED
      BY <3>2, <3>3
  <2> QED
    BY <2>2, <2>3, <2>4, <2>6
<1> QED
  BY <1>1, Inductive, SshCorrect, SftpCorrect, PTL

\* What a line with the one option -c is about.
LEMMA OneOption ==
  ASSUME NEW p \in Procs, NEW line \in Lines[p], Len(Options(line)) = 1
  PROVE  LET w == Argz(line) plain == WordsOf(Plain(line)) IN
         /\ plain \in Seq(STRING) /\ Len(plain) \in Nat /\ Len(w) = Len(plain) + 1
         /\ w[1] = Options(line)[1][2]
         /\ \A k \in 1 .. Len(plain) : w[k + 1] = plain[k]
<1> DEFINE o == Options(line)
           a == Plain(line)
           w == Argz(line)
           plain == WordsOf(a)
<1>1. /\ a \in Seq(Tokens) /\ Len(a) \in Nat /\ Len(w) = Len(o) + Len(a)
      /\ \A k \in 1 .. Len(o) : w[k] = o[k][2]
      /\ \A k \in 1 .. Len(a) : w[Len(o) + k] = a[k][2]
  BY ArgzIs
<1>2. /\ plain \in Seq(STRING) /\ Len(plain) = Len(a)
      /\ \A k \in 1 .. Len(a) : plain[k] = a[k][2]
  BY <1>1, TokenWords
<1>3. Len(o) = 1
  OBVIOUS
<1> HIDE DEF o, a, w, plain
<1>4. Len(w) = Len(plain) + 1 /\ w[1] = o[1][2]
  BY <1>1, <1>2, <1>3
<1>5. ASSUME NEW k \in 1 .. Len(plain) PROVE w[k + 1] = plain[k]
  <2>1. Len(o) + k = k + 1 /\ k \in 1 .. Len(a)
    BY <1>1, <1>2, <1>3
  <2> QED
    BY <1>1, <1>2, <2>1
<1> QED
  BY <1>1, <1>2, <1>4, <1>5 DEF o, a, w, plain

\* A line with one option, -c, is obeyed at each of its plain arguments, once and in
\* order, whatever failed at the ones before.
THEOREM HandlesAll == Spec => []EveryAddressHandled
<1>1. IInv => EveryAddressHandled
  <2> SUFFICES ASSUME IInv, NEW p \in Procs, run[p].ended \in {"exit", "crashed"},
                      Len(Options(run[p].line)) = 1, Task(run[p].line) = "c"
               PROVE  LET line == run[p].line plain == WordsOf(Plain(line)) IN
                      run[p].handled =
                        IF Options(line)[1][2] = "reset_conf" /\ plain # <<>> THEN Tail(plain)
                        ELSE plain
    BY DEF EveryAddressHandled
  <2> DEFINE line == run[p].line
             plain == WordsOf(Plain(line))
             w == Words(p)
             h == run[p].handled
             reset == w[1] = "reset_conf"
             n == Len(plain)
  <2>1. /\ run[p] \in Records /\ line \in Lines[p] /\ h \in Seq(STRING)
        /\ run[p].ended = "exit" =>
             Accepted(w) /\ run[p].at = Len(w) + 1 /\ Progress(p) /\ ~NoTemplate(p)
        /\ run[p].ended = "crashed" => h = <<>> /\ NoTemplate(p)
    BY DEF IInv, RunType, ProcInv, LoopInv, Records
  <2>2. /\ plain \in Seq(STRING) /\ n \in Nat /\ Len(w) = n + 1
        /\ w[1] = Options(line)[1][2] /\ \A k \in 1 .. n : w[k + 1] = plain[k]
    BY <2>1, OneOption DEF Words
  <2>3. /\ FirstAddress(w) = IF ~reset THEN 2 ELSE IF Len(w) > 1 THEN 3 ELSE 1
        /\ NoTemplate(p) <=> reset /\ Len(w) = 1
    BY DEF FirstAddress, NoTemplate
  <2>4. Progress(p) => /\ Len(h) = run[p].at - FirstAddress(w)
                       /\ \A k \in 1 .. Len(h) : h[k] = w[FirstAddress(w) + k - 1]
    BY DEF Progress
  <2> HIDE DEF line, plain, w, h, reset, n
  <2>5. CASE run[p].ended = "crashed"
    <3>1. n = 0
      BY <2>1, <2>2, <2>3, <2>5
    <3>2. plain = <<>>
      BY <2>2, <3>1, EmptySeq DEF n
    <3> QED
      BY <2>1, <2>5, <3>2 DEF line, plain, h
  <2>6. CASE run[p].ended = "exit" /\ ~reset
    <3>1. Len(h) = n /\ \A k \in 1 .. n : h[k] = w[2 + k - 1]
      <4>1. FirstAddress(w) = 2 /\ Progress(p) /\ run[p].at = n + 1 + 1
        BY <2>1, <2>2, <2>3, <2>6
      <4>2. Len(h) = n
        BY <2>2, <2>4, <4>1
      <4> QED
        BY <2>4, <4>1, <4>2
    <3>2. ASSUME NEW k \in 1 .. n PROVE h[k] = plain[k]
      <4>1. 2 + k - 1 = k + 1
        BY <2>2
      <4> QED
        BY <2>2, <3>1, <4>1
    <3>3. h = plain
      BY <2>1, <2>2, <3>1, <3>2, SeqEqual DEF n
    <3> QED
      BY <2>2, <2>6, <3>3 DEF line, plain, h, reset
  <2>7. CASE run[p].ended = "exit" /\ reset
    <3>1. n > 0
      BY <2>1, <2>2, <2>3, <2>7
    <3>2. Len(h) = n - 1 /\ \A k \in 1 .. n - 1 : h[k] = w[3 + k - 1]
      BY <2>1, <2>2, <2>3, <2>4, <2>7, <3>1
    <3>3. plain # <<>>
      BY <2>2, <3>1 DEF n
    <3>4. /\ Tail(plain) \in Seq(STRING) /\ Len(Tail(plain)) = n - 1
          /\ \A k \in 1 .. n - 1 : Tail(plain)[k] = plain[k + 1]
      BY <2>2, <3>3, HeadTailProperties DEF n
    <3>5. ASSUME NEW k \in 1 .. n - 1 PROVE h[k] = Tail(plain)[k]
      <4>1. 3 + k - 1 = (k + 1) + 1 /\ k + 1 \in 1 .. n
        BY <2>2
      <4>2. w[(k + 1) + 1] = plain[k + 1]
        BY <2>2, <4>1
      <4> QED
        BY <3>2, <3>4, <4>1, <4>2
    <3>6. h = Tail(plain)
      BY <2>1, <3>2, <3>4, <3>5, SeqEqual
    <3> QED
      BY <2>2, <2>7, <3>3, <3>6 DEF line, plain, h, reset
  <2> QED
    BY <2>5, <2>6, <2>7
<1> QED
  BY <1>1, Inductive, PTL
=============================================================================
