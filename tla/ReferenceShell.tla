--------------------------- MODULE ReferenceShell ---------------------------
(***************************************************************************)
(* corosync_example.c, the shell the sponsor of ctc gave as a reference:   *)
(* one thread reads commands and works on three connections kept in global *)
(* variables; two detached threads per connect dispatch notifications, on  *)
(* the handle that is in the variable when they begin to run.              *)
(*                                                                         *)
(* The corosync services are external; another client may change the votes *)
(* of our node or expected votes between any two requests.  Notifications  *)
(* and the quorum status are only printed, and are left out.               *)
(***************************************************************************)
EXTENDS Integers, FiniteSets

CONSTANTS
  Self,         \* our node id
  NodeLists,    \* what the nodelist of cmap may be while node_show lists it: an
                \* id for each index
  TableSize,    \* MAX_NODES, 128 in the code
  Modulus,      \* 2^32 in the code
  MaxConnects,  \* bound: connect commands
  LastShow,     \* bound: connect commands before a node_show
  MayFail,      \* may services refuse requests, and the system threads?
  Others        \* the vote counts that other clients set

ASSUME ShellAssumption ==
  /\ Self \in Nat \ {0}
  /\ Modulus \in Nat /\ Modulus > 2
  /\ MaxConnects \in Nat /\ LastShow \in Nat /\ TableSize \in Nat
  /\ \A list \in NodeLists : IsFiniteSet(DOMAIN list) /\ DOMAIN list \subseteq Nat
  /\ MayFail \in BOOLEAN
  /\ Others \subseteq 0 .. Modulus - 1

VARIABLES
  votes, expected,  \* of our node, in the votequorum service
  handle,           \* q_h, vq_h and cmap_h; the handles of connect number g are g
  connected,        \* quorum_connected, votequorum_connected, cmap_connected
  open,             \* <<kind, handle>> of the connections that are open
  thread,           \* for each kind and connect, its dispatch thread
  our_nodeid,
  shell,            \* its command, next step, the connection it is at, the
                    \* expected votes it read, what it said at the end
  shown,            \* of node_show: the nodelist, the indices still to be listed,
                    \* its table nodes and num_nodes, the next row and the ids of
                    \* its lines; history: indices whose id it did not get, rows
                    \* it was refused the votes of
  connects,         \* number of connect commands
  base, clean,      \* history: votes and expected when a vote command began; has
                    \* no other client changed them since?
  lost, late        \* history: kinds of which connect was typed over an open
                    \* connection, or before a thread had begun to run

vars == <<votes, expected, handle, connected, open, thread, our_nodeid,
          shell, shown, connects, base, clean, lost, late>>
ledger == <<votes, expected>>
connections == <<handle, connected, open, our_nodeid>>
history == <<base, clean, lost, late>>

Kinds == {"quorum", "votequorum", "cmap"}
Dispatched == {"quorum", "votequorum"}
After == [quorum |-> "votequorum", votequorum |-> "cmap", cmap |-> "none"]
VoteCommands == {"assign", "remove", "eligible", "ineligible"}

NoBase == [votes |-> 0, expected |-> 0]

Table == 0 .. TableSize - 1
Nothing == [list |-> <<>>, todo |-> {}, nodes |-> [x \in Table |-> 0], num |-> 0, row |-> 0,
            ids |-> {}, unread |-> {}, refused |-> {}]

Valid(k) == <<k, handle[k]>> \in open

-----------------------------------------------------------------------------
Init ==
  /\ votes = 1 /\ expected = 1
  /\ handle = [k \in Kinds |-> 0]
  /\ connected = [k \in Kinds |-> k = "cmap"]
  /\ open = {}
  /\ thread = [t \in Dispatched \X (1 .. MaxConnects) |-> [pc |-> "none", on |-> 0]]
  /\ our_nodeid = 0
  /\ shell = [cmd |-> "none", pc |-> "prompt", kind |-> "none", expected |-> 0, said |-> "none"]
  /\ shown = Nothing /\ connects = 0
  /\ base = NoBase /\ clean = FALSE /\ lost = {} /\ late = {}

At(pc) == shell.pc = pc
Goto(pc, kind) == shell' = [shell EXCEPT !.pc = pc, !.kind = kind]
Say(what) == shell' = [shell EXCEPT !.pc = "prompt", !.expected = 0, !.said = what]

\* A command that begins at step pc.
Type(cmd, pc, kind) ==
  /\ At("prompt")
  /\ shell' = [cmd |-> cmd, pc |-> pc, kind |-> kind, expected |-> 0, said |-> "none"]
  /\ shown' = Nothing
  /\ clean' = (cmd \in VoteCommands)
  /\ base' = IF clean' THEN [votes |-> votes, expected |-> expected] ELSE NoBase
  /\ UNCHANGED <<ledger, connections, thread>>

Connect ==
  /\ connects < MaxConnects /\ connects' = connects + 1
  /\ Type("connect", "init", "quorum")
  /\ lost' = lost \cup {k \in Kinds : Valid(k)}
  /\ late' = late \cup {t[1] : t \in {u \in DOMAIN thread : thread[u].pc = "created"}}

Disconnect ==
  /\ \E cmd \in {"disconnect", "exit"} : Type(cmd, "close", "quorum")
  /\ UNCHANGED <<connects, lost, late>>

VoteCommand ==
  /\ \E cmd \in VoteCommands : Type(cmd, "read", "votequorum")
  /\ UNCHANGED <<connects, lost, late>>

\* quorum_init, votequorum_init or cmap_init fails, or is done; the next one.
NextInit(k) == IF After[k] = "none" THEN Say("none") ELSE Goto("init", After[k])

\* quorum_initialize, votequorum_initialize, cmap_initialize.  A failed one
\* leaves a handle that is no good, and the flag as it was.
Initialize ==
  LET k == shell.kind IN
  /\ At("init")
  /\ \/ /\ handle' = [handle EXCEPT ![k] = connects]
        /\ connected' = [connected EXCEPT ![k] = TRUE]
        /\ open' = open \cup {<<k, connects>>}
        /\ Goto(IF k = "cmap" THEN "node_id" ELSE "dispatch", k)
     \/ /\ MayFail
        /\ handle' = [handle EXCEPT ![k] = 0]
        /\ NextInit(k)
        /\ UNCHANGED <<connected, open>>
  /\ UNCHANGED <<ledger, thread, our_nodeid, shown, connects, history>>

\* start_dispatch, votequorum_start_dispatch; pthread_create may fail.
start_dispatch ==
  /\ At("dispatch")
  /\ \/ thread' = [thread EXCEPT ![<<shell.kind, connects>>].pc = "created"]
     \/ MayFail /\ UNCHANGED thread
  /\ NextInit(shell.kind)
  /\ UNCHANGED <<ledger, connections, shown, connects, history>>

\* cmap_init goes on to ask for our node id, and keeps the old one on error.
NodeId ==
  /\ At("node_id")
  /\ our_nodeid' = Self \/ (MayFail /\ UNCHANGED our_nodeid)
  /\ Say("none")
  /\ UNCHANGED <<ledger, handle, connected, open, thread, shown, connects, history>>

\* Fault: only the flag is reset.
FlagOnly(k) == {}

\* The connection that quorum_close, votequorum_close or cmap_close finalizes.
Finalized(k) == IF connected[k] THEN {<<k, handle[k]>>} ELSE {}

Close ==
  LET k == shell.kind IN
  /\ At("close")
  /\ open' = open \ Finalized(k)
  /\ connected' = [connected EXCEPT ![k] = FALSE]
  /\ IF After[k] # "none" THEN Goto("close", After[k])
     ELSE IF shell.cmd = "exit" THEN Goto("exited", "none") ELSE Say("none")
  /\ UNCHANGED <<ledger, handle, our_nodeid, thread, shown, connects, history>>

\* Fault: the thread is given the handle of the connect before.
ReadsOldHandle(k, g) == g - 1

\* dispatch_fn, votequorum_dispatch_fn: the global variable is read late.
ReadsHandle(k, g) == handle[k]

Dispatch(t) ==
  /\ thread[t].pc = "created"
  /\ thread' = [thread EXCEPT ![t] = [pc |-> "dispatching", on |-> ReadsHandle(t[1], t[2])]]
  /\ UNCHANGED <<ledger, connections, shell, shown, connects, history>>

\* The dispatch of a connection that is not open, or no longer, comes back.
DispatchEnds(t) ==
  /\ thread[t].pc = "dispatching" /\ <<t[1], thread[t].on>> \notin open
  /\ thread' = [thread EXCEPT ![t] = [pc |-> "none", on |-> 0]]
  /\ UNCHANGED <<ledger, connections, shell, shown, connects, history>>

-----------------------------------------------------------------------------
Request == UNCHANGED <<connections, thread, shown, connects, history>>

\* Can a request about our_nodeid be answered, can it be refused?
Answered == Valid("votequorum") /\ our_nodeid = Self
Refused == MayFail \/ ~Answered

Target == [assign |-> 2, remove |-> 1, eligible |-> 1, ineligible |-> 0]

\* Fault: mark_ineligible takes the node out whatever its votes are.
NeedsNoWork(cmd, count) ==
  IF cmd = "ineligible" THEN FALSE ELSE count = Target[cmd]

\* Is there nothing to do for a node of count votes?  has_epsilon is 2 votes,
\* is_eligible any; a node with epsilon is not made ineligible.
NothingToDo(cmd, count) ==
  CASE cmd = "assign" -> count = 2
    [] cmd = "remove" -> count # 2
    [] cmd = "eligible" -> count > 0
    [] cmd = "ineligible" -> count = 2

\* The votequorum_getinfo of has_epsilon or is_eligible.
ReadVotes ==
  /\ At("read")
  /\ \/ /\ Answered
        /\ IF NothingToDo(shell.cmd, votes) THEN Say("not needed")
           ELSE Goto(IF shell.cmd = "ineligible" THEN "expected" ELSE "set_votes", "votequorum")
     \/ Refused /\ Say("failed")
  /\ UNCHANGED ledger /\ Request

\* The second votequorum_getinfo of mark_ineligible.
ReadExpected ==
  /\ At("expected")
  /\ \/ Answered /\ shell' = [shell EXCEPT !.expected = expected, !.pc = "set_expected"]
     \/ Refused /\ Say("failed")
  /\ UNCHANGED ledger /\ Request

\* Fault: expected votes are an int.
OneLessInt(count) == count - 1

OneLess(count) == (count - 1) % Modulus

SetExpected ==
  /\ At("set_expected")
  /\ \/ /\ Answered
        /\ expected' = OneLess(shell.expected)
        /\ Goto("set_votes", "votequorum")
     \/ Refused /\ Say("failed") /\ UNCHANGED expected
  /\ UNCHANGED votes /\ Request

SetVotes ==
  /\ At("set_votes")
  /\ \/ Answered /\ votes' = Target[shell.cmd] /\ Say("done")
     \/ Refused /\ Say("failed") /\ UNCHANGED votes
  /\ UNCHANGED expected /\ Request

Show == UNCHANGED <<ledger, connections, thread, connects, history>>

\* node_show.
node_show ==
  /\ connects <= LastShow
  /\ Type("show", "iter", "cmap")
  /\ UNCHANGED <<connects, lost, late>>

\* cmap_iter_init.
IterInit ==
  /\ At("iter")
  /\ \/ /\ Valid("cmap")
        /\ \E list \in NodeLists :
             shown' = [Nothing EXCEPT !.list = list, !.todo = DOMAIN list]
        /\ Goto("list", "cmap")
     \/ (MayFail \/ ~Valid("cmap")) /\ Say("failed") /\ UNCHANGED shown
  /\ Show

\* A turn of the loop: the id of the index k, in whatever order cmap_iter_next gives
\* them, goes to nodes[k], if cmap_get_uint32 is answered; the name of the node, which
\* goes to the same row, is left out.  A shell that has written beyond its table is
\* not followed any further.
NextNode ==
  /\ At("list")
  /\ \E k \in shown.todo :
       \/ /\ k \in Table
          /\ shown' = [shown EXCEPT !.todo = @ \ {k}, !.nodes[k] = shown.list[k], !.num = @ + 1]
          /\ UNCHANGED shell
       \/ k \notin Table /\ Goto("overran", "none") /\ UNCHANGED shown
       \/ /\ MayFail
          /\ shown' = [shown EXCEPT !.todo = @ \ {k}, !.unread = @ \cup {k}]
          /\ UNCHANGED shell
  /\ Show

\* The last key, or an error of cmap_iter_next, ends the loop.
ListEnds ==
  /\ At("list") /\ (shown.todo = {} \/ MayFail)
  /\ shown' = [shown EXCEPT !.todo = {}, !.unread = @ \cup shown.todo]
  /\ Goto("rows", "votequorum")
  /\ Show

\* Fault: the last row is left out.
RowsButLast == shown.row + 1 < shown.num

MoreRows == shown.row < shown.num

\* votequorum_getinfo of the next row's id, and its line; a row that nobody filled
\* has the id 0, which may have votes or not.
ShowRow ==
  LET id == shown.nodes[shown.row] IN
  /\ At("rows") /\ MoreRows
  /\ \/ /\ Valid("votequorum")
        /\ shown' = [shown EXCEPT !.row = @ + 1, !.ids = @ \cup {id}]
     \/ /\ MayFail \/ ~Valid("votequorum") \/ id = 0
        /\ shown' = [shown EXCEPT !.row = @ + 1, !.refused = @ \cup {shown.row}]
  /\ UNCHANGED shell /\ Show

\* node_show returns.
ShowEnds ==
  /\ At("rows") /\ ~MoreRows
  /\ shown' = [shown EXCEPT !.nodes = Nothing.nodes, !.num = 0, !.row = 0]
  /\ Say("done")
  /\ Show

\* Another client, of the cluster's votequorum service.
OtherClient ==
  /\ votes' \in Others /\ expected' \in {expected} \cup Others
  /\ clean' = FALSE /\ base' = NoBase
  /\ UNCHANGED <<connections, thread, shell, shown, connects, lost, late>>

ShellStep ==
  \/ Initialize
  \/ start_dispatch
  \/ NodeId
  \/ Close
  \/ ReadVotes
  \/ ReadExpected
  \/ SetExpected
  \/ SetVotes
  \/ IterInit
  \/ NextNode
  \/ ListEnds
  \/ ShowRow
  \/ ShowEnds

Next ==
  \/ Connect
  \/ Disconnect
  \/ VoteCommand
  \/ node_show
  \/ ShellStep
  \/ ~At("exited") /\ ~At("overran") /\ \E t \in DOMAIN thread : Dispatch(t) \/ DispatchEnds(t)
  \/ OtherClient

Spec == Init /\ [][Next]_vars

-----------------------------------------------------------------------------
(* Properties                                                              *)

Ids == 0 .. MaxConnects

\* The types of the variables; an open connection was opened by a connect.
TypeOK ==
  /\ votes \in 0 .. Modulus - 1 /\ expected \in 0 .. Modulus - 1
  /\ handle \in [Kinds -> Ids] /\ connected \in [Kinds -> BOOLEAN]
  /\ open \subseteq Kinds \X (1 .. connects)
  /\ thread \in [Dispatched \X (1 .. MaxConnects) ->
                   [pc : {"none", "created", "dispatching"}, on : Ids]]
  /\ our_nodeid \in {0, Self}
  /\ shell \in [cmd : VoteCommands \cup {"none", "connect", "disconnect", "exit", "show"},
                pc : {"prompt", "init", "dispatch", "node_id", "close", "read", "expected",
                      "set_expected", "set_votes", "exited", "iter", "list", "rows", "overran"},
                kind : Kinds \cup {"none"}, expected : 0 .. Modulus - 1,
                said : {"none", "not needed", "done", "failed"}]
  /\ base \in [votes : 0 .. Modulus - 1, expected : 0 .. Modulus - 1]
  /\ clean \in BOOLEAN /\ lost \subseteq Kinds /\ late \subseteq Dispatched

Said(cmd, what) == At("prompt") /\ shell.cmd = cmd /\ shell.said = what

\* What a vote command says at the end is so, unless another client changed the
\* votes since it was typed: done, our node has the votes of the command, and
\* expected votes are one less after "Marked ineligible" (one less than 0 wraps);
\* not needed, nothing has changed and the node has, or has not, epsilon; failed,
\* nothing has changed, or mark_ineligible has lowered expected votes for a node
\* that keeps its votes.  A node with epsilon loses it to "remove" alone.
SaidIsTrue ==
  clean =>
    /\ \A cmd \in VoteCommands : Said(cmd, "done") =>
         /\ votes = Target[cmd]
         /\ expected = IF cmd = "ineligible" THEN (base.expected - 1) % Modulus ELSE base.expected
         /\ base.votes = 2 => cmd = "remove"
    /\ \A cmd \in VoteCommands : Said(cmd, "not needed") =>
         /\ votes = base.votes /\ expected = base.expected
         /\ cmd \in {"assign", "ineligible"} => votes = 2
         /\ cmd = "remove" => votes # 2
         /\ cmd = "eligible" => votes > 0
    /\ \A cmd \in VoteCommands : Said(cmd, "failed") =>
         /\ votes = base.votes
         /\ expected # base.expected =>
              cmd = "ineligible" /\ expected = (base.expected - 1) % Modulus

\* A connection stays open although no variable holds it, or its flag is false,
\* only when connect was typed over it.
LostByReconnect ==
  \A k \in Kinds, h \in 1 .. MaxConnects :
    <<k, h>> \in open /\ k \notin lost => h = handle[k] /\ connected[k]

\* A thread dispatches the connection it was created for, and so no two threads
\* dispatch one, unless connect was typed before it had begun to run.
OneDispatcherEach ==
  \A t \in DOMAIN thread :
    thread[t].pc = "dispatching" /\ t[1] \notin late => thread[t].on = t[2]

\* node_show leaves a node out only if it could not read its id or its votes, or if an
\* index before it has no node, or one whose id it could not read: it prints as many
\* rows as it read ids, from the first.  A line is of a node of the nodelist, or of the
\* id 0, and no row beyond the table is printed.
ShowsEveryNode ==
  LET list == shown.list IN
  /\ At("rows") => shown.num <= TableSize
  /\ Said("show", "done") =>
       /\ shown.ids \subseteq {0} \cup {list[k] : k \in DOMAIN list}
       /\ \A k \in DOMAIN list :
            \/ list[k] \in shown.ids
            \/ k \in shown.unread \cup shown.refused
            \/ \E j \in 0 .. k - 1 : j \notin DOMAIN list \ shown.unread
=============================================================================
