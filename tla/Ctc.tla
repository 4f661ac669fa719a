-------------------------------- MODULE Ctc ---------------------------------
(***************************************************************************)
(* client.c: runs of the command line client ctc, on SshManager and        *)
(* SftpManager.                                                            *)
(*                                                                         *)
(* A command line is a sequence of tokens <<option, word>>; the option of  *)
(* a plain argument is "".  Nodes are named by their alternative           *)
(* addresses, at which client.c:79 says to reach them.  set_votes is one   *)
(* step (QuorumManager has its requests), and so are the print functions   *)
(* and a monitor (Membership, Monitor).  Links are not lost here (a call   *)
(* that loses its link may never return, SshManager), and nobody edits the *)
(* template (SftpManager).                                                 *)
(***************************************************************************)
EXTENDS Integers, Sequences

CONSTANTS
  Procs,      \* ctc processes
  Lines,      \* of each, the command lines it may be given
  Host,       \* of each address word that resolves, its node
  Number,     \* of each word that begins with digits, what atoi makes of it
  Nodes, NodeIds,
  MaxOutput, UintValues,                          \* of SshManager
  Sizes, Missing, Buffer,                         \* of SftpManager
  MayFail, MayLose

VARIABLES
  daemon, eth1, call, sshWas,                     \* of SshManager
  remote, template, copy, base, sftpClean,        \* of SftpManager
  votes,     \* of each node id
  run        \* of each process, which runs one line: its next step, its line, the
             \* index of the address it is at, how it ended, the lines about what
             \* it did last and the addresses it is done with

CS_OK == 1
MaxWords == 8

\* The functions behind the commands of client_ssh_command, and its lines.
Function == [start |-> "start_corosync", stop |-> "stop_corosync",
             kill_conn |-> "kill_conn", start_conn |-> "start_conn"]
Announced == [start |-> "started", stop |-> "stopped", reset_conf |-> "reset",
              kill_conn |-> "killing", start_conn |-> "starting"]
Complaint == [start |-> {"failed"}, stop |-> {"failed"}, reset_conf |-> {"may_have"},
              kill_conn |-> {}, start_conn |-> {}]

Ssh == INSTANCE SshManager WITH
  Clients <- Procs, Commands <- [p \in Procs |-> {Function[cmd] : cmd \in DOMAIN Function}],
  Addresses <- {"alt"}, MayLose <- FALSE, was <- sshWas

Sftp == INSTANCE SftpManager WITH MayEdit <- FALSE, clean <- sftpClean

sshVars == <<daemon, eth1, call, sshWas>>
sftpVars == <<remote, template, copy, base, sftpClean>>
vars == <<sshVars, sftpVars, votes, run>>

-----------------------------------------------------------------------------
Init ==
  /\ Ssh!Init /\ Sftp!Init
  /\ votes = [n \in NodeIds |-> 1]
  /\ run = [p \in Procs |-> [pc |-> "shell", line |-> <<>>, at |-> 0, ended |-> "no",
                             lines |-> {}, handled |-> <<>>]]

Plain(line) == SelectSeq(line, LAMBDA t : t[1] = "")
Options(line) == SelectSeq(line, LAMBDA t : t[1] # "")

\* The order in which argp, that is getopt, hands tokens to parse_opt.
Permuted(line) == Options(line) \o Plain(line)

\* What parse_opt collects: the words, and the task of the last option.
WordsOf(tokens) == [i \in 1 .. Len(tokens) |-> tokens[i][2]]

Argz(line) == WordsOf(Permuted(line))

\* What the proofs know of the constants.  That SelectSeq yields sequences is true of
\* any line; it is stated because it needs an induction that the provers lack.
Tokens == STRING \X STRING

ASSUME CtcAssumption ==
  /\ \A p \in Procs : \A line \in Lines[p] :
       line \in Seq(Tokens) /\ Options(line) \in Seq(Tokens) /\ Plain(line) \in Seq(Tokens)
  /\ \A word \in DOMAIN Host : Host[word] \in Nodes
  /\ MaxOutput \in Nat /\ UintValues \in Nat /\ UintValues > MaxOutput + 1
  /\ Sizes \subseteq Nat /\ Missing \notin Nat /\ Buffer \in Nat \ {0}
  /\ {MayFail, MayLose} \subseteq BOOLEAN

Task(line) == IF Options(line) = <<>> THEN "p" ELSE Options(line)[Len(Options(line))][1]

Words(p) == Argz(run[p].line)

atoi(word) == IF word \in DOMAIN Number THEN Number[word] ELSE 0

End(r, how, lines) == [r EXCEPT !.pc = "over", !.ended = how, !.lines = lines]

\* At ARGP_KEY_END parse_opt refuses too few and too many words.
Accepted(words) == Len(words) \in 1 .. MaxWords

\* A command line is typed, and main calls argp_parse.
Type(p) ==
  /\ run[p].pc = "shell"
  /\ \E line \in Lines[p] :
       run' = [run EXCEPT ![p] =
                 LET r == [run[p] EXCEPT !.line = line, !.pc = "task"] IN
                 IF Accepted(Argz(line)) THEN r ELSE End(r, "refused", {})]
  /\ UNCHANGED <<sshVars, sftpVars, votes>>

Runs(p, task) == run[p].pc = "task" /\ Task(run[p].line) = task

\* print_membership, print_quorum; another word is ignored.
client_print_option(p) ==
  /\ Runs(p, "p")
  /\ \E lines \in IF Words(p)[1] \in {"membership", "quorum"} THEN {{}, {"error"}} ELSE {{}} :
       run' = [run EXCEPT ![p] = End(run[p], "exit", lines)]
  /\ UNCHANGED <<sshVars, sftpVars, votes>>

Monitors(p) == Runs(p, "m") /\ Words(p)[1] \in {"membership", "quorum"}

\* monitor_status, when it comes back.
client_monitor_option(p) ==
  /\ Runs(p, "m")
  /\ \E lines \in IF Monitors(p) THEN {{}, {"error"}} ELSE {{}} :
       run' = [run EXCEPT ![p] = End(run[p], "exit", lines)]
  /\ UNCHANGED <<sshVars, sftpVars, votes>>

\* set_votes at the service, which knows the nodes of NodeIds, and its line, with
\* one more before it on error.
client_change_votes(p, id, count) ==
  \/ /\ id \in NodeIds
     /\ votes' = [votes EXCEPT ![id] = count]
     /\ run' = [run EXCEPT ![p] = End(run[p], "exit", {"changed"})]
  \/ /\ MayFail \/ id \notin NodeIds
     /\ run' = [run EXCEPT ![p] = End(run[p], "exit", {"failed", "changed"})]
     /\ UNCHANGED votes

\* set_votes id count; atoi(NULL) when the count is missing.
client_quorum_option(p) ==
  LET w == Words(p) IN
  /\ Runs(p, "q")
  /\ \/ /\ w[1] # "set_votes" \/ Len(w) = 1
        /\ run' = [run EXCEPT ![p] = End(run[p], "exit", {})]
        /\ UNCHANGED votes
     \/ /\ w[1] = "set_votes" /\ Len(w) = 2
        /\ run' = [run EXCEPT ![p] = End(run[p], "crashed", {})]
        /\ UNCHANGED votes
     \/ w[1] = "set_votes" /\ Len(w) > 2 /\ client_change_votes(p, atoi(w[2]), atoi(w[3]))
  /\ UNCHANGED <<sshVars, sftpVars>>

\* The first address.  Without a template name the loop starts over, at the
\* command itself.
FirstAddress(words) ==
  IF words[1] # "reset_conf" THEN 2 ELSE IF Len(words) > 1 THEN 3 ELSE 1

client_ssh_option(p) ==
  /\ Runs(p, "c")
  /\ run' = [run EXCEPT ![p].pc = "address", ![p].at = FirstAddress(Words(p))]
  /\ UNCHANGED <<sshVars, sftpVars, votes>>

\* Fault: a node that cannot be commanded ends the loop.
HandledOrStops(r, lines) ==
  IF lines \cap {"failed", "may_have"} = {}
    THEN [r EXCEPT !.pc = "address", !.lines = lines, !.at = @ + 1,
                   !.handled = Append(@, Argz(r.line)[r.at])]
    ELSE End(r, "exit", lines)

\* client_ssh_command is done with the address of r, having printed lines.
Handled(r, lines) ==
  [r EXCEPT !.pc = "address", !.lines = lines, !.at = @ + 1,
            !.handled = Append(@, Argz(r.line)[r.at])]

\* The loop of client_ssh_option is over.
LastAddress(p) ==
  /\ run[p].pc = "address" /\ run[p].at > Len(Words(p))
  /\ run' = [run EXCEPT ![p] = End(run[p], "exit", run[p].lines)]
  /\ UNCHANGED <<sshVars, sftpVars, votes>>

\* client_ssh_command, up to the first function it calls.  An address that does
\* not resolve is an error of that function, and of stop_corosync after it.
client_ssh_command(p) ==
  LET r == run[p] w == Words(p) cmd == w[1] word == w[r.at] IN
  /\ r.pc = "address" /\ r.at <= Len(w)
  /\ IF cmd \notin DOMAIN Announced THEN
       /\ run' = [run EXCEPT ![p] = Handled(r, {"not_recognized"})]
       /\ UNCHANGED <<sshVars, sftpVars>>
     ELSE IF cmd = "reset_conf" /\ Len(w) = 1 THEN
       /\ run' = [run EXCEPT ![p] = End(r, "crashed", {})]
       /\ UNCHANGED <<sshVars, sftpVars>>
     ELSE IF word \notin DOMAIN Host THEN
       /\ run' = [run EXCEPT ![p] = Handled(r, {Announced[cmd]} \cup Complaint[cmd]
                                      \cup (IF cmd = "reset_conf" THEN {"failed"} ELSE {}))]
       /\ UNCHANGED <<sshVars, sftpVars>>
     ELSE IF cmd = "reset_conf" THEN
       /\ Sftp!Call(p, Host[word])
       /\ run' = [run EXCEPT ![p].pc = "copying", ![p].lines = {}]
       /\ UNCHANGED sshVars
     ELSE
       /\ Ssh!Call(p, Function[cmd], Host[word], "alt")
       /\ run' = [run EXCEPT ![p].pc = "remote", ![p].lines = {}]
       /\ UNCHANGED sftpVars
  /\ UNCHANGED votes

\* Fault: the daemon is stopped only if the copy succeeded.
StopIfCopied(p) ==
  /\ run[p].pc = "copying" /\ Sftp!At(p, "idle")
  /\ IF copy[p].rc = CS_OK
       THEN /\ Ssh!Call(p, "stop_corosync", copy[p].node, "alt")
            /\ run' = [run EXCEPT ![p].pc = "remote"]
       ELSE /\ run' = [run EXCEPT ![p] = Handled(run[p], {"failed", "reset"})]
            /\ UNCHANGED sshVars
  /\ UNCHANGED <<sftpVars, votes>>

\* copy_conf has returned: reset_conf stops the daemon whatever it returned.
StopAfterCopy(p) ==
  /\ run[p].pc = "copying" /\ Sftp!At(p, "idle")
  /\ Ssh!Call(p, "stop_corosync", copy[p].node, "alt")
  /\ run' = [run EXCEPT ![p].pc = "remote",
                        ![p].lines = IF copy[p].rc = CS_OK THEN {} ELSE {"failed"}]
  /\ UNCHANGED <<sftpVars, votes>>

\* Fault: err is not looked at.
NoComplaint(cmd, err) == {}

Complaints(cmd, err) == IF err = CS_OK THEN {} ELSE Complaint[cmd]

\* The last function of client_ssh_command has returned.
RemoteReturned(p) ==
  /\ run[p].pc = "remote" /\ Ssh!At(p, "idle")
  /\ LET cmd == Words(p)[1] IN
     run' = [run EXCEPT ![p] =
               Handled(run[p],
                       run[p].lines \cup {Announced[cmd]} \cup Complaints(cmd, call[p].rc))]
  /\ UNCHANGED <<sshVars, sftpVars, votes>>

\* A step of the function that client_ssh_command waits for.
CopyStep(p) ==
  /\ run[p].pc = "copying" /\ Sftp!Step(p)
  /\ UNCHANGED <<sshVars, votes, run>>

RemoteStep(p) ==
  /\ run[p].pc = "remote" /\ Ssh!Step(p)
  /\ UNCHANGED <<sftpVars, votes, run>>

Step(p) ==
  \/ client_print_option(p)
  \/ client_monitor_option(p)
  \/ client_quorum_option(p)
  \/ client_ssh_option(p)
  \/ client_ssh_command(p)
  \/ StopAfterCopy(p)
  \/ RemoteReturned(p)
  \/ LastAddress(p)
  \/ CopyStep(p)
  \/ RemoteStep(p)

\* A node's daemon shuts down.
DaemonStops(n) == Ssh!DaemonStops(n) /\ UNCHANGED <<sftpVars, votes, run>>

Next == (\E p \in Procs : Type(p) \/ Step(p)) \/ \E n \in Nodes : DaemonStops(n)

Spec == Init /\ [][Next]_vars

\* A run goes on until it is over, unless it monitors.
FairSpec == Spec /\ \A p \in Procs : WF_vars(~Monitors(p) /\ Step(p))

-----------------------------------------------------------------------------
(* Properties                                                              *)

\* p is done with an address of a line of command cmd.
After(p, cmd) ==
  /\ run[p].pc \in {"address", "over"} /\ run[p].handled # <<>> /\ Words(p)[1] = cmd
  /\ run[p].handled[Len(run[p].handled)] \in DOMAIN Host

Target(p) == Host[run[p].handled[Len(run[p].handled)]]
Said(p, line) == line \in run[p].lines

\* reset_conf prints that it has reset the file in any case; what happened is in
\* the lines before.  At a node no other process interferes with: without
\* "Failed to reset" the file is the copy; with it, it is the old one or, worse,
\* empty.  Without "May have" a stop was called, whatever became of the copy, and was
\* executed: if the node obeyed, which nobody asks, the daemon is not up, and finds
\* that file when it is started again.
ResetOutcome ==
  \A p \in Procs : After(p, "reset_conf") =>
    /\ sftpClean[p] /\ copy[p].lossless =>
         IF Said(p, "failed") THEN remote[Target(p)] \in {base[p], <<>>} ELSE Sftp!Copied(p)
    /\ ~Said(p, "may_have") =>
         /\ call[p].fn = "stop_corosync" /\ call[p].node = Target(p) /\ call[p].rc = CS_OK
         /\ sshWas[p] # Ssh!Disturbed /\ call[p].obeyed => daemon[Target(p)] # "up"

\* What a start or a stop prints, at a node no other process commands: if it prints
\* a failure the daemon is as it was.  If it prints none, it is as the line says or,
\* when the node did not obey the command, as it was: "started" may be printed of a
\* daemon that is not there (ssh_manager.c:74), but then it was not there before.
LinesTrue ==
  \A p \in Procs : \A cmd \in {"start", "stop"} :
    After(p, cmd) /\ sshWas[p] # Ssh!Disturbed =>
      IF Said(p, "failed") \/ ~call[p].obeyed
        THEN daemon[Target(p)] \in Ssh!Settles(sshWas[p].daemon)
        ELSE Ssh!Effect(Function[cmd], Ssh!State(Target(p)))

\* A line with one option, -c, is obeyed at each of its plain arguments, wherever
\* the option stands, once and in order and whatever failed at the ones before;
\* the first one of reset_conf is the template, without which nothing is done.
EveryAddressHandled ==
  \A p \in Procs : LET line == run[p].line plain == WordsOf(Plain(line)) IN
    run[p].ended \in {"exit", "crashed"} /\ Len(Options(line)) = 1 /\ Task(line) = "c" =>
      run[p].handled = IF Options(line)[1][2] = "reset_conf" /\ plain # <<>> THEN Tail(plain)
                       ELSE plain

\* Every run ends, but for a monitor, whichever calls of libssh fail and whatever the
\* nodes make of the commands, as long as no link is lost.
RunEnds ==
  \A p \in Procs : run[p].pc = "task" /\ Task(run[p].line) # "m" ~> run[p].pc = "over"
=============================================================================
