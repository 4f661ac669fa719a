------------------------ MODULE ReferenceShellProofs ------------------------
(***************************************************************************)
(* Theorems about ReferenceShell, for any number of connects, any          *)
(* nodelists, any votes of other clients and any width of the counters.    *)
(***************************************************************************)
EXTENDS ReferenceShell, FiniteSetTheorems, TLAPS

Records == [cmd : VoteCommands \cup {"none", "connect", "disconnect", "exit", "show"},
            pc : {"prompt", "init", "dispatch", "node_id", "close", "read", "expected",
                  "set_expected", "set_votes", "exited", "iter", "list", "rows", "overran"},
            kind : Kinds \cup {"none"}, expected : 0 .. Modulus - 1,
            said : {"none", "not needed", "done", "failed"}]

\* Which commands can be at which step, and at which connection.
ControlInv ==
  /\ connects \in Ids
  /\ shell.pc \in {"init", "dispatch"} => connects \in 1 .. MaxConnects
  /\ shell.pc \in {"init", "dispatch", "node_id"} => shell.cmd = "connect"
  /\ shell.pc \in {"init", "close"} => shell.kind \in Kinds
  /\ At("dispatch") => shell.kind \in Dispatched /\ handle[shell.kind] = connects
  /\ At("close") => shell.cmd \in {"disconnect", "exit"}
  /\ shell.pc \in {"read", "set_votes"} => shell.cmd \in VoteCommands
  /\ shell.pc \in {"expected", "set_expected"} => shell.cmd = "ineligible"
  /\ shell.pc \in {"iter", "list", "rows"} => shell.cmd = "show"

\* The kinds of connection that the connect command has still to open.
Pending ==
  LET from == [quorum |-> Kinds, votequorum |-> {"votequorum", "cmap"}, cmap |-> {"cmap"}] IN
  IF At("init") THEN from[shell.kind]
  ELSE IF At("dispatch") THEN from[shell.kind] \ {shell.kind}
  ELSE {}

\* The connect command found the kinds it has still to open closed, and
\* without threads that wait to run, or they are in lost, or in late.
PendingInv ==
  \A k \in Pending :
    /\ k \notin lost => \A h \in Ids : <<k, h>> \notin open
    /\ k \notin late => \A t \in DOMAIN thread : t[1] = k => thread[t].pc # "created"

\* A thread that has not begun to run will find its own handle in the variable.
CreatedInv ==
  \A t \in DOMAIN thread :
    thread[t].pc = "created" /\ t[1] \notin late => handle[t[1]] = t[2]

\* What a vote command has changed and found at each step.
VoteInv ==
  clean =>
    /\ shell.pc \in {"read", "expected", "set_expected"} =>
         votes = base.votes /\ expected = base.expected
    /\ shell.pc \in {"expected", "set_expected", "set_votes"} =>
         ~NothingToDo(shell.cmd, base.votes)
    /\ At("set_expected") => shell.expected = base.expected
    /\ At("set_votes") =>
         /\ votes = base.votes
         /\ expected = IF shell.cmd = "ineligible" THEN OneLess(base.expected) ELSE base.expected

\* The fields of shown.
Fields == {"list", "todo", "nodes", "num", "row", "ids", "unread", "refused"}

\* The indices whose ids node_show has read.
Read == DOMAIN shown.list \ (shown.todo \cup shown.unread)

\* Its loops: a row for every id read, at its index, and a line of every row before the
\* next one, or its votes were refused.
ListInv ==
  /\ DOMAIN shown = Fields
  /\ shown.list \in NodeLists
  /\ shown.todo \subseteq DOMAIN shown.list /\ shown.todo \cap shown.unread = {}
  /\ Read \subseteq Table /\ shown.num = Cardinality(Read)
  /\ DOMAIN shown.nodes = Table
  /\ \A x \in Table : shown.nodes[x] = IF x \in Read THEN shown.list[x] ELSE 0
  /\ shown.row \in 0 .. shown.num
  /\ shown.ids \subseteq {0} \cup {shown.list[k] : k \in DOMAIN shown.list}
  /\ \A k \in Read : k < shown.row => shown.list[k] \in shown.ids \/ k \in shown.refused

ShownInv ==
  /\ At("list") => ListInv /\ shown.row = 0
  /\ At("rows") => ListInv /\ shown.todo = {}
  /\ ShowsEveryNode

IInv ==
  /\ TypeOK /\ ControlInv
  /\ LostByReconnect /\ OneDispatcherEach /\ PendingInv /\ CreatedInv
  /\ VoteInv /\ SaidIsTrue
  /\ ShownInv

-----------------------------------------------------------------------------
(* Operators                                                               *)

LEMMA AfterValues ==
  /\ After["quorum"] = "votequorum" /\ After["votequorum"] = "cmap" /\ After["cmap"] = "none"
  BY DEF After

LEMMA TargetValues ==
  /\ Target["assign"] = 2 /\ Target["remove"] = 1 /\ Target["eligible"] = 1
  /\ Target["ineligible"] = 0
  BY DEF Target

LEMMA NothingToDoValues ==
  ASSUME NEW count
  PROVE  /\ NothingToDo("assign", count) <=> count = 2
         /\ NothingToDo("remove", count) <=> count # 2
         /\ NothingToDo("eligible", count) <=> count > 0
         /\ NothingToDo("ineligible", count) <=> count = 2
  BY DEF NothingToDo

LEMMA OneLessType ==
  ASSUME NEW count \in 0 .. Modulus - 1
  PROVE  OneLess(count) \in 0 .. Modulus - 1
  BY ShellAssumption DEF OneLess

-----------------------------------------------------------------------------
(* Types and control                                                       *)

LEMMA InitHolds == Init => IInv
<1> SUFFICES ASSUME Init PROVE IInv
  OBVIOUS
<1>1. TypeOK
  <2>1. 0 \in Ids /\ 0 \in 0 .. Modulus - 1 /\ 1 \in 0 .. Modulus - 1
    BY ShellAssumption DEF Ids
  <2>2. connected \in [Kinds -> BOOLEAN]
    BY Zenon DEF Init
  <2>3. shell \in Records /\ base \in [votes : 0 .. Modulus - 1, expected : 0 .. Modulus - 1]
    BY <2>1 DEF Init, Records, NoBase
  <2> QED
    BY <2>1, <2>2, <2>3 DEF Init, TypeOK, Records
<1>2. ControlInv
  BY ShellAssumption DEF Init, ControlInv, At, Ids
<1>3. LostByReconnect /\ OneDispatcherEach /\ CreatedInv /\ PendingInv
  BY DEF Init, LostByReconnect, OneDispatcherEach, CreatedInv, PendingInv, Pending, At
<1>4. VoteInv /\ SaidIsTrue
  BY DEF Init, VoteInv, SaidIsTrue
<1>5. ShownInv
  BY DEF Init, ShownInv, ShowsEveryNode, Said, At
<1> QED
  BY <1>1, <1>2, <1>3, <1>4, <1>5 DEF IInv

ThreadStep == \E t \in DOMAIN thread : Dispatch(t) \/ DispatchEnds(t)

\* The steps of node_show after it was typed.
ShowStep == IterInit \/ NextNode \/ ListEnds \/ ShowRow \/ ShowEnds

LEMMA ShowLeaves ==
  ASSUME ShowStep
  PROVE  UNCHANGED <<ledger, connections, thread, connects, history>>
  BY DEF ShowStep, IterInit, NextNode, ListEnds, ShowRow, ShowEnds, Show

\* The shell's command, step and connection have their types after a step.
LEMMA ShellType ==
  ASSUME TypeOK, ControlInv, Next
  PROVE  shell' \in Records
<1>1. /\ shell \in Records /\ 0 \in 0 .. Modulus - 1 /\ expected \in 0 .. Modulus - 1
  <2>1. shell \in Records
    BY DEF TypeOK, Records
  <2>2. 0 \in 0 .. Modulus - 1
    BY ShellAssumption
  <2>3. expected \in 0 .. Modulus - 1
    BY DEF TypeOK
  <2> QED
    BY <2>1, <2>2, <2>3
<1>2. ASSUME NEW what \in {"none", "not needed", "done", "failed"}, Say(what)
      PROVE  shell' \in Records
  BY <1>1, <1>2 DEF Say, Records
<1>3. ASSUME NEW pc \in {"prompt", "init", "dispatch", "node_id", "close", "read", "expected",
                         "set_expected", "set_votes", "exited", "iter", "list", "rows",
                         "overran"},
             NEW kind \in Kinds \cup {"none"}, Goto(pc, kind)
      PROVE  shell' \in Records
  BY <1>1, <1>3 DEF Goto, Records
<1>4. ASSUME NEW k \in Kinds, NextInit(k) PROVE shell' \in Records
  BY <1>2, <1>3, <1>4, AfterValues DEF NextInit, Kinds
<1>5. ASSUME NEW cmd \in VoteCommands \cup {"connect", "disconnect", "exit", "show"},
             NEW pc \in {"init", "close", "read", "iter"}, NEW kind \in Kinds, Type(cmd, pc, kind)
      PROVE  shell' \in Records
  BY <1>1, <1>5 DEF Type, Records
<1>6. CASE Connect \/ Disconnect \/ VoteCommand \/ node_show
  BY <1>5, <1>6 DEF Connect, Disconnect, VoteCommand, node_show, Kinds
<1>7. CASE ShowStep
  BY <1>1, <1>2, <1>3, <1>7 DEF ShowStep, IterInit, NextNode, ListEnds, ShowRow, ShowEnds, Kinds
<1>8. CASE Initialize
  BY <1>3, <1>4, <1>8 DEF Initialize, ControlInv, At
<1>9. CASE start_dispatch
  BY <1>4, <1>9 DEF start_dispatch, ControlInv, At, Kinds, Dispatched
<1>10. CASE NodeId
  BY <1>2, <1>10 DEF NodeId
<1>11. CASE Close
  BY <1>2, <1>3, <1>11, AfterValues DEF Close, ControlInv, At, Kinds
<1>12. CASE ReadVotes
  BY <1>2, <1>3, <1>12 DEF ReadVotes, Kinds
<1>13. CASE ReadExpected
  BY <1>1, <1>2, <1>13 DEF ReadExpected, Records
<1>14. CASE SetExpected
  BY <1>2, <1>3, <1>14 DEF SetExpected, Kinds
<1>15. CASE SetVotes
  BY <1>2, <1>15 DEF SetVotes
<1>16. CASE ThreadStep \/ OtherClient
  BY <1>1, <1>16 DEF ThreadStep, Dispatch, DispatchEnds, OtherClient
<1> QED
  BY <1>6, <1>7, <1>8, <1>9, <1>10, <1>11, <1>12, <1>13, <1>14, <1>15, <1>16
  DEF Next, ShellStep, ShowStep, ThreadStep

\* Votes, expected votes and the history of the vote commands have theirs.
LEMMA VotesType ==
  ASSUME TypeOK, ControlInv, Next
  PROVE  /\ votes' \in 0 .. Modulus - 1 /\ expected' \in 0 .. Modulus - 1
         /\ base' \in [votes : 0 .. Modulus - 1, expected : 0 .. Modulus - 1]
         /\ clean' \in BOOLEAN
<1>1. /\ votes \in 0 .. Modulus - 1 /\ expected \in 0 .. Modulus - 1
      /\ base \in [votes : 0 .. Modulus - 1, expected : 0 .. Modulus - 1]
      /\ clean \in BOOLEAN /\ NoBase \in [votes : 0 .. Modulus - 1, expected : 0 .. Modulus - 1]
      /\ shell \in Records
  <2>1. /\ votes \in 0 .. Modulus - 1 /\ expected \in 0 .. Modulus - 1
        /\ base \in [votes : 0 .. Modulus - 1, expected : 0 .. Modulus - 1]
    BY DEF TypeOK
  <2>2. clean \in BOOLEAN /\ shell \in Records
    BY DEF TypeOK, Records
  <2>3. NoBase \in [votes : 0 .. Modulus - 1, expected : 0 .. Modulus - 1]
    BY ShellAssumption DEF NoBase
  <2> QED
    BY <2>1, <2>2, <2>3
<1> USE DEF history, ledger, Request
<1>2. ASSUME NEW cmd, NEW pc, NEW kind, Type(cmd, pc, kind)
      PROVE  /\ UNCHANGED ledger
             /\ base' \in [votes : 0 .. Modulus - 1, expected : 0 .. Modulus - 1]
             /\ clean' \in BOOLEAN
  <2>1. clean' \in BOOLEAN
    <3>1. clean' = (cmd \in VoteCommands)
      BY <1>2 DEF Type
    <3>2. (cmd \in VoteCommands) \in BOOLEAN
      OBVIOUS
    <3> QED
      BY <3>1, <3>2, Zenon
  <2>2. UNCHANGED ledger
    BY <1>2 DEF Type
  <2>3. base' = [votes |-> votes, expected |-> expected] \/ base' = NoBase
    BY <1>2 DEF Type
  <2> QED
    BY <1>1, <2>1, <2>2, <2>3
<1>3. CASE Connect \/ Disconnect \/ VoteCommand \/ node_show
  BY <1>1, <1>2, <1>3 DEF Connect, Disconnect, VoteCommand, node_show
<1>4. CASE Initialize \/ start_dispatch \/ NodeId \/ Close \/ ThreadStep \/ ShowStep
  BY <1>1, <1>4, ShowLeaves DEF Initialize, start_dispatch, NodeId, Close, ThreadStep, Dispatch,
     DispatchEnds
<1>5. CASE ReadVotes \/ ReadExpected
  BY <1>1, <1>5 DEF ReadVotes, ReadExpected
<1>6. CASE SetExpected
  <2>1. shell.expected \in 0 .. Modulus - 1
    BY <1>1 DEF Records
  <2> QED
    BY <1>1, <1>6, <2>1, OneLessType DEF SetExpected
<1>7. CASE SetVotes
  <2>1. shell.cmd \in VoteCommands
    BY <1>7 DEF SetVotes, ControlInv, At
  <2>2. Target[shell.cmd] \in 0 .. Modulus - 1
    BY <2>1, TargetValues, ShellAssumption DEF VoteCommands
  <2> QED
    BY <1>1, <1>7, <2>2 DEF SetVotes
<1>8. CASE OtherClient
  BY <1>1, <1>8, ShellAssumption DEF OtherClient
<1> QED
  BY <1>3, <1>4, <1>5, <1>6, <1>7, <1>8 DEF Next, ShellStep, ShowStep, ThreadStep

\* The connections and threads have theirs.
LEMMA ConnectionsType ==
  ASSUME TypeOK, ControlInv, Next
  PROVE  /\ handle' \in [Kinds -> Ids] /\ connected' \in [Kinds -> BOOLEAN]
         /\ open' \subseteq Kinds \X (1 .. connects')
         /\ our_nodeid' \in {0, Self}
         /\ connects' \in Ids
<1>1. /\ handle \in [Kinds -> Ids] /\ open \subseteq Kinds \X (1 .. connects)
      /\ our_nodeid \in {0, Self} /\ connects \in Ids /\ 0 \in Ids /\ MaxConnects \in Nat
  <2>1. 0 \in Ids /\ MaxConnects \in Nat
    BY ShellAssumption DEF Ids
  <2> QED
    BY <2>1 DEF TypeOK, ControlInv
<1>2. connected \in [Kinds -> BOOLEAN]
  BY DEF TypeOK
<1> USE DEF connections, history, Request
<1>3. ASSUME UNCHANGED <<connections, connects>>
      PROVE  /\ handle' \in [Kinds -> Ids] /\ connected' \in [Kinds -> BOOLEAN]
             /\ open' \subseteq Kinds \X (1 .. connects')
             /\ our_nodeid' \in {0, Self}
             /\ connects' \in Ids
  <2>1. UNCHANGED connected
    BY <1>3
  <2>2. connected' \in [Kinds -> BOOLEAN]
    BY <1>2, <2>1, Zenon
  <2> QED
    BY <1>1, <1>3, <2>2
<1>4. CASE Connect
  <2>1. UNCHANGED connected
    BY <1>4 DEF Connect, Type
  <2>2. connected' \in [Kinds -> BOOLEAN]
    BY <1>2, <2>1, Zenon
  <2>3. connects' \in Ids /\ connects' = connects + 1 /\ UNCHANGED <<handle, open, our_nodeid>>
    BY <1>1, <1>4 DEF Connect, Type, Ids
  <2>4. 1 .. connects \subseteq 1 .. connects'
    BY <1>1, <2>3 DEF Ids
  <2> QED
    BY <1>1, <2>2, <2>3, <2>4
<1>5. CASE Initialize
  <2>1. shell.kind \in Kinds /\ connects \in 1 .. connects /\ UNCHANGED <<connects, our_nodeid>>
    BY <1>1, <1>5 DEF Initialize, ControlInv, At, Ids
  <2>2. connected' \in [Kinds -> BOOLEAN]
    <3>1. connected' = [connected EXCEPT ![shell.kind] = TRUE] \/ connected' = connected
      BY <1>5, Zenon DEF Initialize
    <3> QED
      BY <1>2, <3>1
  <2>3. handle' \in [Kinds -> Ids]
    BY <1>1, <1>5 DEF Initialize
  <2>4. open' \subseteq Kinds \X (1 .. connects)
    BY <1>1, <1>5, <2>1 DEF Initialize
  <2> QED
    BY <1>1, <2>1, <2>2, <2>3, <2>4
<1>6. CASE Close
  <2>1. connected' \in [Kinds -> BOOLEAN]
    <3>1. connected' = [connected EXCEPT ![shell.kind] = FALSE]
      BY <1>6, Zenon DEF Close
    <3> QED
      BY <1>2, <3>1
  <2> QED
    BY <1>1, <1>6, <2>1 DEF Close
<1>7. CASE NodeId
  <2>1. UNCHANGED connected
    BY <1>7 DEF NodeId
  <2>2. connected' \in [Kinds -> BOOLEAN]
    BY <1>2, <2>1, Zenon
  <2> QED
    BY <1>1, <1>7, <2>2 DEF NodeId
<1>8. CASE Disconnect \/ VoteCommand \/ node_show \/ start_dispatch \/ ReadVotes
           \/ ReadExpected \/ SetExpected \/ SetVotes \/ ShowStep \/ ThreadStep \/ OtherClient
  <2>1. UNCHANGED <<connections, connects>>
    BY <1>8, ShowLeaves DEF Disconnect, VoteCommand, Type, node_show, start_dispatch, ReadVotes,
       ReadExpected, SetExpected, SetVotes, ThreadStep, Dispatch, DispatchEnds, OtherClient
  <2> QED
    BY <1>3, <2>1
<1> QED
  BY <1>4, <1>5, <1>6, <1>7, <1>8 DEF Next, ShellStep, ShowStep, ThreadStep

LEMMA ThreadsType ==
  ASSUME TypeOK, ControlInv, Next
  PROVE  /\ thread' \in [Dispatched \X (1 .. MaxConnects) ->
                           [pc : {"none", "created", "dispatching"}, on : Ids]]
         /\ lost' \subseteq Kinds /\ late' \subseteq Dispatched
<1> DEFINE Threads == [pc : {"none", "created", "dispatching"}, on : Ids]
<1>1. /\ thread \in [Dispatched \X (1 .. MaxConnects) -> Threads]
      /\ lost \subseteq Kinds /\ late \subseteq Dispatched
      /\ handle \in [Kinds -> Ids] /\ 0 \in Ids
  <2>1. 0 \in Ids
    BY ShellAssumption DEF Ids
  <2> QED
    BY <2>1 DEF TypeOK
<1> USE DEF connections, history, Request
<1>2. CASE Connect
  <2>1. /\ UNCHANGED thread /\ lost' = lost \cup {k \in Kinds : Valid(k)}
        /\ late' = late \cup {t[1] : t \in {u \in DOMAIN thread : thread[u].pc = "created"}}
    BY <1>2 DEF Connect, Type
  <2>2. \A t \in DOMAIN thread : t[1] \in Dispatched
    BY <1>1
  <2> QED
    BY <1>1, <2>1, <2>2
<1>3. CASE start_dispatch
  <2>1. \/ thread' = [thread EXCEPT ![<<shell.kind, connects>>].pc = "created"]
        \/ thread' = thread
    BY <1>3 DEF start_dispatch
  <2> QED
    BY <1>1, <1>3, <2>1 DEF start_dispatch
<1>4. CASE ThreadStep
  <2>1. PICK t \in DOMAIN thread : Dispatch(t) \/ DispatchEnds(t)
    BY <1>4 DEF ThreadStep
  <2>2. t[1] \in Kinds
    BY <1>1 DEF Kinds, Dispatched
  <2>3. handle[t[1]] \in Ids
    BY <1>1, <2>2
  <2> QED
    BY <1>1, <2>1, <2>3 DEF Dispatch, DispatchEnds, ReadsHandle
<1>5. CASE Disconnect \/ VoteCommand \/ node_show \/ Initialize \/ NodeId \/ Close \/ ReadVotes
           \/ ReadExpected \/ SetExpected \/ SetVotes \/ ShowStep \/ OtherClient
  <2>1. UNCHANGED <<thread, lost, late>>
    BY <1>5, ShowLeaves DEF Disconnect, VoteCommand, Type, node_show, Initialize, NodeId, Close, ReadVotes,
       ReadExpected, SetExpected, SetVotes, OtherClient
  <2> QED
    BY <1>1, <2>1
<1> QED
  BY <1>2, <1>3, <1>4, <1>5 DEF Next, ShellStep, ShowStep, ThreadStep

LEMMA TypeStep ==
  ASSUME TypeOK, ControlInv, Next
  PROVE  TypeOK'
  BY ShellType, VotesType, ConnectionsType, ThreadsType DEF TypeOK, Records

\* What Type, Say, Goto and NextInit do to the shell.
LEMMA ShellShapes ==
  ASSUME TypeOK
  PROVE  /\ \A what : Say(what) =>
              /\ shell'.cmd = shell.cmd /\ shell'.kind = shell.kind
              /\ shell'.pc = "prompt" /\ shell'.said = what
         /\ \A pc, kind : Goto(pc, kind) =>
              /\ shell'.cmd = shell.cmd /\ shell'.kind = kind /\ shell'.pc = pc
              /\ shell'.said = shell.said /\ shell'.expected = shell.expected
         /\ \A k \in Kinds : NextInit(k) =>
              /\ shell'.cmd = shell.cmd
              /\ k # "cmap" => shell'.pc = "init" /\ shell'.kind = After[k]
              /\ k = "cmap" => shell'.pc = "prompt" /\ shell'.said = "none"
<1>1. shell \in Records
  BY DEF TypeOK, Records
<1>2. ASSUME NEW what, Say(what)
      PROVE  /\ shell'.cmd = shell.cmd /\ shell'.kind = shell.kind
             /\ shell'.pc = "prompt" /\ shell'.said = what
  BY <1>1, <1>2 DEF Say, Records
<1>3. ASSUME NEW pc, NEW kind, Goto(pc, kind)
      PROVE  /\ shell'.cmd = shell.cmd /\ shell'.kind = kind /\ shell'.pc = pc
             /\ shell'.said = shell.said /\ shell'.expected = shell.expected
  BY <1>1, <1>3 DEF Goto, Records
<1> QED
  BY <1>2, <1>3, AfterValues DEF NextInit, Kinds

LEMMA ControlStep ==
  ASSUME TypeOK, ControlInv, Next
  PROVE  ControlInv'
<1> USE DEF At
<1>0. shell \in Records /\ connects' \in Ids
  BY ConnectionsType DEF TypeOK, Records
<1>1. CASE Connect
  <2>1. shell'.pc = "init" /\ shell'.kind = "quorum" /\ shell'.cmd = "connect"
    BY <1>1 DEF Connect, Type
  <2>2. connects' \in 1 .. MaxConnects
    BY <1>1, ShellAssumption DEF Connect, ControlInv, Ids
  <2> QED
    BY <1>0, <2>1, <2>2 DEF ControlInv, Kinds
<1>2. CASE Disconnect \/ VoteCommand \/ node_show
  <2>1. \/ shell'.pc = "close" /\ shell'.kind = "quorum" /\ shell'.cmd \in {"disconnect", "exit"}
        \/ shell'.pc = "read" /\ shell'.cmd \in VoteCommands
        \/ shell'.pc = "iter" /\ shell'.cmd = "show"
    BY <1>2 DEF Disconnect, VoteCommand, node_show, Type
  <2> QED
    BY <1>0, <1>2, <2>1 DEF ControlInv, Kinds
<1>3. CASE ShowStep
  <2>1. shell'.pc \in {"prompt", "list", "rows", "overran"} /\ shell'.cmd = "show"
    BY <1>3, ShellShapes DEF ShowStep, IterInit, NextNode, ListEnds, ShowRow, ShowEnds, ControlInv
  <2> QED
    BY <1>0, <2>1 DEF ControlInv
<1>4. CASE Initialize
  <2>1. /\ shell.kind \in Kinds /\ shell.cmd = "connect" /\ connects \in 1 .. MaxConnects
        /\ UNCHANGED connects
    BY <1>4 DEF Initialize, ControlInv
  <2>2. CASE /\ handle' = [handle EXCEPT ![shell.kind] = connects]
             /\ Goto(IF shell.kind = "cmap" THEN "node_id" ELSE "dispatch", shell.kind)
    <3>1. /\ shell'.cmd = "connect" /\ shell'.kind = shell.kind
          /\ shell'.pc = IF shell.kind = "cmap" THEN "node_id" ELSE "dispatch"
      BY <2>1, <2>2, ShellShapes
    <3>2. handle'[shell.kind] = connects
      BY <2>1, <2>2 DEF TypeOK
    <3> QED
      BY <1>0, <2>1, <3>1, <3>2 DEF ControlInv, Kinds, Dispatched
  <2>3. CASE NextInit(shell.kind)
    <3>1. /\ shell'.cmd = "connect"
          /\ shell'.pc = "prompt" \/ (shell'.pc = "init" /\ shell'.kind \in Kinds)
      BY <2>1, <2>3, ShellShapes, AfterValues DEF Kinds
    <3> QED
      BY <1>0, <2>1, <3>1 DEF ControlInv
  <2> QED
    BY <1>4, <2>2, <2>3 DEF Initialize
<1>5. CASE start_dispatch
  <2>1. /\ shell.kind \in Kinds /\ shell.cmd = "connect" /\ connects \in 1 .. MaxConnects
        /\ UNCHANGED connects
    BY <1>5 DEF start_dispatch, ControlInv, Kinds, Dispatched
  <2>2. /\ shell'.cmd = "connect"
        /\ shell'.pc = "prompt" \/ (shell'.pc = "init" /\ shell'.kind \in Kinds)
    BY <1>5, <2>1, ShellShapes, AfterValues DEF start_dispatch, Kinds
  <2> QED
    BY <1>0, <2>1, <2>2 DEF ControlInv
<1>6. CASE NodeId \/ SetVotes
  <2>1. shell'.pc = "prompt"
    BY <1>6, ShellShapes DEF NodeId, SetVotes
  <2> QED
    BY <1>0, <2>1 DEF ControlInv
<1>7. CASE Close
  <2>1. \/ shell'.pc \in {"prompt", "exited"}
        \/ shell'.pc = "close" /\ shell'.kind \in Kinds /\ shell'.cmd = shell.cmd
    BY <1>7, ShellShapes, AfterValues DEF Close, ControlInv, Kinds
  <2> QED
    BY <1>0, <1>7, <2>1 DEF Close, ControlInv
<1>8. CASE ReadVotes
  <2>1. \/ shell'.pc = "prompt"
        \/ shell'.pc = "expected" /\ shell'.cmd = "ineligible"
        \/ shell'.pc = "set_votes" /\ shell'.cmd = shell.cmd
    BY <1>8, ShellShapes DEF ReadVotes
  <2> QED
    BY <1>0, <1>8, <2>1 DEF ReadVotes, ControlInv
<1>9. CASE ReadExpected
  <2>1. shell'.pc = "prompt" \/ (shell'.pc = "set_expected" /\ shell'.cmd = shell.cmd)
    BY <1>0, <1>9, ShellShapes DEF ReadExpected, Records
  <2> QED
    BY <1>0, <1>9, <2>1 DEF ReadExpected, ControlInv
<1>10. CASE SetExpected
  <2>1. shell'.pc = "prompt" \/ (shell'.pc = "set_votes" /\ shell'.cmd = shell.cmd)
    BY <1>10, ShellShapes DEF SetExpected
  <2> QED
    BY <1>0, <1>10, <2>1 DEF SetExpected, ControlInv, VoteCommands
<1>11. CASE ThreadStep \/ OtherClient
  <2>1. UNCHANGED <<shell, connects, handle>>
    BY <1>11 DEF ThreadStep, Dispatch, DispatchEnds, OtherClient, connections
  <2> QED
    BY <2>1 DEF ControlInv
<1> QED
  BY <1>1, <1>2, <1>3, <1>4, <1>5, <1>6, <1>7, <1>8, <1>9, <1>10, <1>11
  DEF Next, ShellStep, ShowStep, ThreadStep

-----------------------------------------------------------------------------
(* Connections and threads                                                 *)

\* The kinds still to open while the connect command is at a kind.
LEMMA PendingValues ==
  /\ At("init") /\ shell.kind = "quorum" => Pending = Kinds
  /\ At("init") /\ shell.kind = "votequorum" => Pending = {"votequorum", "cmap"}
  /\ At("init") /\ shell.kind = "cmap" => Pending = {"cmap"}
  /\ At("dispatch") /\ shell.kind = "quorum" => Pending = {"votequorum", "cmap"}
  /\ At("dispatch") /\ shell.kind = "votequorum" => Pending = {"cmap"}
  /\ ~At("init") /\ ~At("dispatch") => Pending = {}
  BY DEF Pending, At, Kinds

\* A step after the connect command was typed has no more to open, and a step
\* that opens a kind, or fails to, leaves it.
LEMMA PendingShrinks ==
  ASSUME TypeOK, ControlInv, Next, ~Connect
  PROVE  /\ Pending' \subseteq Pending
         /\ Initialize => shell.kind \in Pending \ Pending'
<1> USE DEF At
<1>1. CASE Initialize
  <2>1. At("init") /\ shell.kind \in Kinds
    BY <1>1 DEF Initialize, ControlInv
  <2>2. \/ At("node_id")' /\ shell'.kind = shell.kind
        \/ At("dispatch")' /\ shell'.kind = shell.kind /\ shell.kind # "cmap"
        \/ At("prompt")'
        \/ At("init")' /\ shell'.kind = After[shell.kind] /\ shell.kind # "cmap"
    BY <1>1, <2>1, ShellShapes DEF Initialize
  <2>3. /\ shell.kind = "quorum" => Pending' \subseteq {"votequorum", "cmap"}
        /\ shell.kind = "votequorum" => Pending' \subseteq {"cmap"}
        /\ shell.kind = "cmap" => Pending' = {}
    BY <2>2, AfterValues DEF Pending, Kinds
  <2> QED
    BY <2>1, <2>3, PendingValues DEF Kinds
<1>2. CASE start_dispatch
  <2>1. At("dispatch") /\ shell.kind \in Dispatched
    BY <1>2 DEF start_dispatch, ControlInv
  <2>2. At("init")' /\ shell'.kind = After[shell.kind]
    BY <1>2, <2>1, ShellShapes DEF start_dispatch, Kinds, Dispatched
  <2>3. /\ shell.kind = "quorum" => Pending' = {"votequorum", "cmap"}
        /\ shell.kind = "votequorum" => Pending' = {"cmap"}
    BY <2>2, AfterValues DEF Pending
  <2> QED
    BY <1>2, <2>1, <2>3, PendingValues DEF Dispatched, start_dispatch, Initialize
<1>3. CASE Disconnect \/ VoteCommand \/ node_show \/ NodeId \/ Close \/ ReadVotes
           \/ ReadExpected \/ SetExpected \/ SetVotes \/ ShowStep
  <2>1. shell.pc \notin {"init", "dispatch"}
    BY <1>3 DEF Disconnect, VoteCommand, Type, node_show, NodeId, Close, ReadVotes, ReadExpected,
       SetExpected, SetVotes, ShowStep, IterInit, NextNode, ListEnds, ShowRow, ShowEnds
  <2>2. shell'.pc \notin {"init", "dispatch"}
    <3>1. shell \in Records
      BY DEF TypeOK, Records
    <3>2. CASE Disconnect \/ VoteCommand \/ node_show
      BY <3>2 DEF Disconnect, VoteCommand, node_show, Type
    <3>3. CASE ShowStep
      <4>1. \/ \E what : Say(what)
            \/ \E pc \in {"list", "rows", "overran"}, kind \in {"cmap", "votequorum", "none"} :
                 Goto(pc, kind)
            \/ UNCHANGED shell
        BY <3>3 DEF ShowStep, IterInit, NextNode, ListEnds, ShowRow, ShowEnds
      <4> QED
        BY <2>1, <4>1, ShellShapes
    <3>4. CASE NodeId \/ SetVotes
      BY <3>4, ShellShapes DEF NodeId, SetVotes
    <3>5. CASE Close
      BY <3>5, ShellShapes DEF Close
    <3>6. CASE ReadVotes
      <4>1. \/ shell'.pc = "prompt" \/ shell'.pc = "expected" \/ shell'.pc = "set_votes"
        BY <3>6, ShellShapes DEF ReadVotes
      <4> QED
        BY <4>1
    <3>7. CASE SetExpected
      BY <3>7, ShellShapes DEF SetExpected
    <3>8. CASE ReadExpected
      BY <3>1, <3>8, ShellShapes DEF ReadExpected, Records
    <3> QED
      BY <1>3, <3>2, <3>3, <3>4, <3>5, <3>6, <3>7, <3>8
  <2>3. Pending' = {} /\ ~Initialize
    BY <2>1, <2>2 DEF Pending, Initialize
  <2> QED
    BY <2>3
<1>4. CASE ThreadStep \/ OtherClient
  <2>1. UNCHANGED shell
    BY <1>4 DEF ThreadStep, Dispatch, DispatchEnds, OtherClient
  <2>2. Pending' = Pending
    BY <2>1 DEF Pending
  <2>3. ASSUME Initialize PROVE FALSE
    <3>1. shell.pc = "init" /\ shell \in Records
      BY <2>3 DEF Initialize, TypeOK, Records
    <3>2. \/ \E pc \in {"node_id", "dispatch"} : Goto(pc, shell.kind)
          \/ shell.kind \in Kinds /\ NextInit(shell.kind)
      BY <2>3, <3>1 DEF Initialize, ControlInv
    <3>3. \/ shell'.pc # "init"
          \/ shell.kind # "cmap" /\ shell'.kind = After[shell.kind] /\ shell.kind \in Kinds
      BY <3>2, ShellShapes
    <3> QED
      BY <2>1, <3>1, <3>3, AfterValues DEF Kinds
  <2> QED
    BY <2>2, <2>3
<1> QED
  BY <1>1, <1>2, <1>3, <1>4 DEF Next, ShellStep, ShowStep, ThreadStep

\* No variable is left with a connection it does not hold.
LEMMA OpenStep ==
  ASSUME IInv, Next
  PROVE  /\ LostByReconnect'
         /\ \A k \in Pending' : k \notin lost' => \A h \in Ids : <<k, h>> \notin open'
<1>1. /\ TypeOK /\ ControlInv /\ open \subseteq Kinds \X (1 .. connects)
      /\ handle \in [Kinds -> Ids] /\ connects \in Ids
  BY DEF IInv, TypeOK, ControlInv
<1>2. ASSUME NEW k \in Kinds, NEW h \in 1 .. MaxConnects, <<k, h>> \in open, k \notin lost
      PROVE  h = handle[k] /\ connected[k]
  BY <1>2 DEF IInv, LostByReconnect
<1>3. ASSUME NEW k \in Pending, k \notin lost, NEW h \in Ids PROVE <<k, h>> \notin open
  BY <1>3 DEF IInv, PendingInv
<1>4. Pending' \subseteq Kinds
  <2>1. At("init")' \/ At("dispatch")' => shell'.kind \in Kinds
    BY <1>1, ControlStep DEF ControlInv, At, Kinds, Dispatched
  <2> QED
    BY <2>1 DEF Pending, Kinds
<1>5. \A h \in Ids : <<"none", h>> \notin open
  BY <1>1 DEF Kinds
<1>6. CASE Connect
  <2>1. UNCHANGED <<open, handle, connected>> /\ lost' = lost \cup {k \in Kinds : Valid(k)}
    BY <1>6 DEF Connect, Type, connections
  <2>2. LostByReconnect'
    BY <1>2, <2>1 DEF LostByReconnect
  <2>3. ASSUME NEW k \in Kinds, k \notin lost', NEW h \in Ids, <<k, h>> \in open PROVE FALSE
    <3>1. ~Valid(k) /\ k \notin lost
      BY <2>1, <2>3
    <3>2. h \in 1 .. MaxConnects
      BY <1>1, <2>3, ShellAssumption DEF Ids
    <3>3. h = handle[k]
      BY <1>2, <2>3, <3>1, <3>2
    <3> QED
      BY <2>3, <3>1, <3>3 DEF Valid
  <2> QED
    BY <1>4, <2>1, <2>2, <2>3
<1>7. CASE Initialize
  <2>1. /\ Pending' \subseteq Pending /\ shell.kind \in Pending \ Pending' /\ lost' = lost
        /\ shell.kind \in Kinds
    BY <1>1, <1>7, PendingShrinks DEF Initialize, Connect, Type, At, history, ControlInv
  <2>2. \A k \in Kinds, h \in Ids : <<k, h>> \in open' =>
          <<k, h>> \in open \/ (k = shell.kind /\ h = connects)
    BY <1>7 DEF Initialize
  <2>3. \A k \in Kinds \ {shell.kind} : handle'[k] = handle[k] /\ connected'[k] = connected[k]
    <3>1. connected \in [Kinds -> BOOLEAN]
      BY <1>1 DEF TypeOK
    <3>2. \A k \in Kinds \ {shell.kind} : handle'[k] = handle[k]
      BY <1>1, <1>7, <2>1 DEF Initialize
    <3>3. connected' = connected \/ connected' = [connected EXCEPT ![shell.kind] = TRUE]
      BY <1>7, Zenon DEF Initialize
    <3>4. \A k \in Kinds \ {shell.kind} : connected'[k] = connected[k]
      BY <3>1, <3>3, Zenon
    <3> QED
      BY <3>2, <3>4
  <2>4. ASSUME NEW h \in 1 .. MaxConnects, <<shell.kind, h>> \in open', shell.kind \notin lost
        PROVE  h = handle'[shell.kind] /\ connected'[shell.kind]
    <3>1. h \in Ids
      BY ShellAssumption DEF Ids
    <3>2. <<shell.kind, h>> \notin open
      BY <1>3, <2>1, <2>4, <3>1
    <3>3. /\ handle' = [handle EXCEPT ![shell.kind] = connects]
          /\ connected' = [connected EXCEPT ![shell.kind] = TRUE]
      BY <1>7, <2>4, <3>2 DEF Initialize
    <3>4. connected'[shell.kind] /\ handle'[shell.kind] = connects
      BY <1>1, <2>1, <3>3 DEF TypeOK
    <3> QED
      BY <2>1, <2>2, <2>4, <3>1, <3>2, <3>4
  <2>5. ASSUME NEW k \in Kinds, NEW h \in 1 .. MaxConnects, <<k, h>> \in open', k \notin lost
        PROVE  h = handle'[k] /\ connected'[k]
    <3>1. CASE k = shell.kind
      BY <2>4, <2>5, <3>1
    <3>2. CASE k # shell.kind
      <4>1. h \in Ids
        BY ShellAssumption DEF Ids
      <4>2. <<k, h>> \in open
        BY <2>2, <2>5, <3>2, <4>1
      <4>3. h = handle[k] /\ connected[k]
        BY <1>2, <2>5, <4>2
      <4> QED
        BY <2>3, <3>2, <4>3, Zenon
    <3> QED
      BY <3>1, <3>2
  <2>6. LostByReconnect'
    BY <2>1, <2>5, Zenon DEF LostByReconnect
  <2>7. \A k \in Pending' : k \notin lost' => \A h \in Ids : <<k, h>> \notin open'
    BY <1>3, <1>4, <2>1, <2>2
  <2> QED
    BY <2>6, <2>7
<1>8. CASE Close
  <2>1. /\ open' = open \ Finalized(shell.kind) /\ UNCHANGED <<handle, lost>>
        /\ shell.kind \in Kinds /\ Pending' \subseteq Pending
    BY <1>1, <1>8, PendingShrinks DEF Close, Connect, Type, At, history, ControlInv
  <2>2. connected' = [connected EXCEPT ![shell.kind] = FALSE]
    BY <1>8 DEF Close
  <2>3. ASSUME NEW k \in Kinds, NEW h \in 1 .. MaxConnects, <<k, h>> \in open', k \notin lost
        PROVE  h = handle'[k] /\ connected'[k]
    <3>1. <<k, h>> \in open /\ <<k, h>> \notin Finalized(shell.kind)
      BY <2>1, <2>3
    <3>2. h = handle[k] /\ connected[k]
      BY <1>2, <2>3, <3>1
    <3>3. k # shell.kind
      BY <3>1, <3>2 DEF Finalized
    <3>4. connected'[k] = connected[k]
      BY <1>1, <2>2, <3>3 DEF TypeOK
    <3> QED
      BY <2>1, <3>2, <3>4, Zenon
  <2>4. LostByReconnect'
    BY <2>1, <2>3, Zenon DEF LostByReconnect
  <2> QED
    BY <1>3, <2>1, <2>4
<1>9. CASE Disconnect \/ VoteCommand \/ node_show \/ start_dispatch \/ NodeId \/ ReadVotes
           \/ ReadExpected \/ SetExpected \/ SetVotes \/ ShowStep \/ ThreadStep \/ OtherClient
  <2>1. UNCHANGED <<open, handle, connected, lost>>
    BY <1>9, ShowLeaves DEF Disconnect, VoteCommand, Type, node_show, start_dispatch, NodeId, ReadVotes,
       ReadExpected, SetExpected, SetVotes, ThreadStep, Dispatch, DispatchEnds, OtherClient,
       Request, connections, history
  <2>2. CASE Connect
    BY <1>6, <2>2
  <2>3. CASE ~Connect
    <3>1. Pending' \subseteq Pending
      BY <1>1, <2>3, PendingShrinks
    <3> QED
      BY <1>3, <2>1, <3>1 DEF IInv, LostByReconnect
  <2> QED
    BY <2>2, <2>3
<1> QED
  BY <1>6, <1>7, <1>8, <1>9 DEF Next, ShellStep, ShowStep, ThreadStep

\* No thread runs on a handle that is not its own.
LEMMA ThreadsStep ==
  ASSUME IInv, Next
  PROVE  /\ OneDispatcherEach' /\ CreatedInv'
         /\ \A k \in Pending' : k \notin late' =>
              \A t \in DOMAIN thread' : t[1] = k => thread'[t].pc # "created"
<1> DEFINE D == Dispatched \X (1 .. MaxConnects)
           Threads == [pc : {"none", "created", "dispatching"}, on : Ids]
<1>1. /\ TypeOK /\ ControlInv /\ thread \in [D -> Threads] /\ thread' \in [D -> Threads]
      /\ handle \in [Kinds -> Ids]
  BY ThreadsType DEF IInv, TypeOK
<1>2. ASSUME NEW t \in D, t[1] \notin late
      PROVE  /\ thread[t].pc = "created" => handle[t[1]] = t[2]
             /\ thread[t].pc = "dispatching" => thread[t].on = t[2]
             /\ t[1] \in Pending => thread[t].pc # "created"
  BY <1>1, <1>2 DEF IInv, CreatedInv, OneDispatcherEach, PendingInv
<1>3. ASSUME \A t \in D : t[1] \notin late' =>
               /\ thread'[t].pc = "created" => handle'[t[1]] = t[2] /\ t[1] \notin Pending'
               /\ thread'[t].pc = "dispatching" => thread'[t].on = t[2]
      PROVE  /\ OneDispatcherEach' /\ CreatedInv'
             /\ \A k \in Pending' : k \notin late' =>
                  \A t \in DOMAIN thread' : t[1] = k => thread'[t].pc # "created"
  BY <1>1, <1>3 DEF OneDispatcherEach, CreatedInv
<1>4. SUFFICES ASSUME NEW t \in D, t[1] \notin late'
               PROVE  /\ thread'[t].pc = "created" => handle'[t[1]] = t[2] /\ t[1] \notin Pending'
                      /\ thread'[t].pc = "dispatching" => thread'[t].on = t[2]
  BY <1>3
<1>5. t[1] \in Dispatched /\ t[1] \in Kinds /\ t[2] \in 1 .. MaxConnects /\ t = <<t[1], t[2]>>
  BY DEF Kinds, Dispatched
<1> HIDE DEF D
<1>6. CASE Connect
  <2>1. UNCHANGED thread /\ late' = late \cup {u[1] : u \in {w \in D : thread[w].pc = "created"}}
    BY <1>1, <1>6 DEF Connect, Type
  <2>2. t[1] \notin late /\ thread[t].pc # "created"
    BY <1>4, <2>1
  <2> QED
    BY <1>2, <2>1, <2>2
<1>7. CASE Initialize
  <2>1. /\ Pending' \subseteq Pending /\ shell.kind \in Pending \ Pending' /\ UNCHANGED <<late, thread>>
        /\ shell.kind \in Kinds
    BY <1>1, <1>7, PendingShrinks DEF Initialize, Connect, Type, At, history, ControlInv
  <2>2. t[1] # shell.kind => handle'[t[1]] = handle[t[1]]
    BY <1>1, <1>5, <1>7, <2>1 DEF Initialize
  <2>3. t[1] = shell.kind => thread[t].pc # "created"
    BY <1>2, <1>4, <2>1
  <2> QED
    BY <1>2, <1>4, <2>1, <2>2, <2>3
<1>8. CASE start_dispatch
  <2>1. /\ Pending' \subseteq Pending /\ UNCHANGED <<late, handle>>
        /\ At("dispatch") /\ shell.kind \in Dispatched /\ handle[shell.kind] = connects
    BY <1>1, <1>8, PendingShrinks
    DEF start_dispatch, Connect, Type, At, history, ControlInv, connections
  <2>2. shell.kind \notin Pending
    BY <2>1, PendingValues DEF Dispatched
  <2>3. CASE thread' = [thread EXCEPT ![<<shell.kind, connects>>].pc = "created"]
    <3>1. CASE t = <<shell.kind, connects>>
      <4>1. thread'[t].pc = "created" /\ t[1] = shell.kind /\ t[2] = connects
        BY <1>1, <2>3, <3>1 DEF D
      <4> QED
        BY <2>1, <2>2, <4>1
    <3>2. CASE t # <<shell.kind, connects>>
      <4>1. thread'[t] = thread[t]
        BY <1>1, <2>3, <3>2
      <4> QED
        BY <1>2, <1>4, <2>1, <4>1
    <3> QED
      BY <3>1, <3>2
  <2>4. CASE UNCHANGED thread
    BY <1>2, <1>4, <2>1, <2>4
  <2> QED
    BY <1>8, <2>3, <2>4 DEF start_dispatch
<1>9. CASE ThreadStep
  <2>1. UNCHANGED <<late, handle, shell>>
    BY <1>9 DEF ThreadStep, Dispatch, DispatchEnds, connections, history
  <2>2. Pending' = Pending
    BY <2>1 DEF Pending, At
  <2>3. PICK u \in D : Dispatch(u) \/ DispatchEnds(u)
    BY <1>1, <1>9 DEF ThreadStep
  <2>4. CASE u # t
    <3>1. thread'[t] = thread[t]
      BY <1>1, <2>3, <2>4 DEF Dispatch, DispatchEnds
    <3> QED
      BY <1>2, <1>4, <2>1, <2>2, <3>1
  <2>5. CASE u = t
    <3>1. CASE Dispatch(t)
      <4>1. /\ thread[t].pc = "created"
            /\ thread' = [thread EXCEPT ![t] = [pc |-> "dispatching", on |-> handle[t[1]]]]
        BY <3>1 DEF Dispatch, ReadsHandle
      <4>2. thread'[t].pc = "dispatching" /\ thread'[t].on = handle[t[1]]
        BY <1>1, <4>1
      <4> QED
        BY <1>2, <1>4, <2>1, <4>1, <4>2
    <3>2. CASE DispatchEnds(t)
      <4>1. thread'[t].pc = "none"
        BY <1>1, <3>2 DEF DispatchEnds
      <4> QED
        BY <4>1
    <3> QED
      BY <2>3, <2>5, <3>1, <3>2
  <2> QED
    BY <2>4, <2>5
<1>10. CASE Disconnect \/ VoteCommand \/ node_show \/ NodeId \/ Close \/ ReadVotes
            \/ ReadExpected \/ SetExpected \/ SetVotes \/ ShowStep \/ OtherClient
  <2>1. UNCHANGED <<thread, handle, late>>
    BY <1>10, ShowLeaves DEF Disconnect, VoteCommand, Type, node_show, NodeId, Close, ReadVotes,
       ReadExpected, SetExpected, SetVotes, OtherClient, Request, connections, history
  <2>2. CASE ~Connect
    <3>1. Pending' \subseteq Pending
      BY <1>1, <2>2, PendingShrinks
    <3> QED
      BY <1>2, <1>4, <2>1, <3>1
  <2> QED
    BY <1>6, <2>2
<1> QED
  BY <1>6, <1>7, <1>8, <1>9, <1>10 DEF Next, ShellStep, ShowStep, ThreadStep

-----------------------------------------------------------------------------
(* What commands say                                                       *)

\* The parts of the invariant about vote commands, in one formula.
VotePart == VoteInv /\ SaidIsTrue

\* Nothing is claimed of a step that another client came before.
LEMMA NotClean ==
  ASSUME ~clean'
  PROVE  VotePart'
  BY DEF VotePart, VoteInv, SaidIsTrue

\* A vote command that ends.
LEMMA EndHolds ==
  ASSUME NEW cmd \in VoteCommands, NEW what \in {"done", "not needed", "failed"},
         shell'.pc = "prompt", shell'.cmd = cmd, shell'.said = what,
         what = "done" =>
           /\ votes' = Target[cmd]
           /\ expected' = IF cmd = "ineligible" THEN (base'.expected - 1) % Modulus
                          ELSE base'.expected
           /\ base'.votes = 2 => cmd = "remove",
         what = "not needed" =>
           /\ votes' = base'.votes /\ expected' = base'.expected
           /\ cmd \in {"assign", "ineligible"} => votes' = 2
           /\ cmd = "remove" => votes' # 2
           /\ cmd = "eligible" => votes' > 0,
         what = "failed" =>
           /\ votes' = base'.votes
           /\ expected' # base'.expected =>
                cmd = "ineligible" /\ expected' = (base'.expected - 1) % Modulus
  PROVE  VotePart'
  BY DEF VotePart, VoteInv, SaidIsTrue, Said, At

LEMMA VoteStep ==
  ASSUME IInv, Next
  PROVE  VotePart'
<1> USE DEF At
<1>1. /\ TypeOK /\ ControlInv /\ shell \in Records /\ VoteInv /\ SaidIsTrue
  BY DEF IInv, TypeOK, Records
<1>2. CASE Connect \/ Disconnect \/ node_show
  <2>1. ASSUME NEW cmd \in {"connect", "disconnect", "exit", "show"}, NEW pc, NEW kind,
               Type(cmd, pc, kind)
        PROVE  ~clean'
    <3>1. cmd \notin VoteCommands
      BY DEF VoteCommands
    <3> QED
      BY <2>1, <3>1 DEF Type
  <2> QED
    BY <1>2, <2>1, NotClean DEF Connect, Disconnect, node_show
<1>3. CASE VoteCommand
  <2>1. /\ shell'.pc = "read" /\ UNCHANGED ledger
        /\ clean' => base' = [votes |-> votes, expected |-> expected]
    BY <1>3 DEF VoteCommand, Type
  <2>2. clean' => votes' = base'.votes /\ expected' = base'.expected
    BY <2>1 DEF ledger
  <2> QED
    BY <2>1, <2>2 DEF VotePart, VoteInv, SaidIsTrue, Said
<1>4. CASE ShowStep
  <2>1. shell'.pc \in {"prompt", "list", "rows", "overran"} /\ shell'.cmd = "show"
    BY <1>1, <1>4, ShellShapes
    DEF ShowStep, IterInit, NextNode, ListEnds, ShowRow, ShowEnds, ControlInv
  <2> QED
    BY <2>1 DEF VotePart, VoteInv, SaidIsTrue, Said, VoteCommands
<1>5. CASE Initialize \/ start_dispatch \/ NodeId \/ Close
  <2>1. shell.cmd \in {"connect", "disconnect", "exit"}
    BY <1>1, <1>5 DEF Initialize, start_dispatch, NodeId, Close, ControlInv
  <2>2. shell'.cmd = shell.cmd /\ shell'.pc \notin {"read", "expected", "set_expected", "set_votes"}
    <3>1. CASE Initialize
      <4>1. \/ \E pc \in {"node_id", "dispatch"} : Goto(pc, shell.kind)
            \/ shell.kind \in Kinds /\ NextInit(shell.kind)
        BY <1>1, <3>1 DEF Initialize, ControlInv
      <4> QED
        BY <1>1, <4>1, ShellShapes
    <3>2. CASE start_dispatch
      <4>1. shell.kind \in Kinds /\ NextInit(shell.kind)
        BY <1>1, <3>2 DEF start_dispatch, ControlInv, Kinds, Dispatched
      <4> QED
        BY <1>1, <4>1, ShellShapes
    <3>3. CASE NodeId
      BY <1>1, <3>3, ShellShapes DEF NodeId
    <3>4. CASE Close
      BY <1>1, <3>4, ShellShapes DEF Close
    <3> QED
      BY <1>5, <3>1, <3>2, <3>3, <3>4
  <2> QED
    BY <2>1, <2>2 DEF VotePart, VoteInv, SaidIsTrue, Said, VoteCommands
<1>6. CASE ThreadStep
  <2>1. UNCHANGED <<ledger, shell, base, clean>>
    BY <1>6 DEF ThreadStep, Dispatch, DispatchEnds, history
  <2> QED
    BY <1>1, <2>1 DEF ledger, VotePart, VoteInv, SaidIsTrue, Said, NothingToDo, OneLess
<1>7. CASE OtherClient
  <2>1. ~clean'
    BY <1>7 DEF OtherClient
  <2> QED
    BY <2>1, NotClean
<1>8. ASSUME UNCHANGED <<base, clean>>, ~clean PROVE VotePart'
  BY <1>8 DEF VotePart, VoteInv, SaidIsTrue
<1>9. CASE ReadVotes
  <2>1. UNCHANGED <<ledger, base, clean>> /\ shell.pc = "read" /\ shell.cmd \in VoteCommands
    BY <1>1, <1>9 DEF ReadVotes, Request, history, ControlInv
  <2>2. SUFFICES ASSUME clean PROVE VotePart'
    BY <1>8, <2>1
  <2>3. votes' = base'.votes /\ expected' = base'.expected /\ votes = base.votes
    BY <1>1, <2>1, <2>2 DEF VoteInv, ledger
  <2>4. CASE NothingToDo(shell.cmd, votes) /\ Say("not needed")
    <3>1. /\ shell.cmd \in {"assign", "ineligible"} => votes = 2
          /\ shell.cmd = "remove" => votes # 2
          /\ shell.cmd = "eligible" => votes > 0
      BY <2>1, <2>4, NothingToDoValues
    <3>2. shell'.pc = "prompt" /\ shell'.cmd = shell.cmd /\ shell'.said = "not needed"
      <4>1. Say("not needed")
        BY <2>4
      <4>2. \A what : Say(what) =>
              shell'.pc = "prompt" /\ shell'.cmd = shell.cmd /\ shell'.said = what
        BY <1>1, ShellShapes
      <4> QED
        BY <4>1, <4>2, Zenon
    <3> QED
      BY <2>1, <2>3, <3>1, <3>2, EndHolds DEF ledger
  <2>5. CASE Say("failed")
    <3>1. shell'.pc = "prompt" /\ shell'.cmd = shell.cmd /\ shell'.said = "failed"
      BY <1>1, <2>5, ShellShapes
    <3> QED
      BY <2>1, <2>3, <3>1, EndHolds
  <2>6. CASE ~NothingToDo(shell.cmd, votes)
             /\ Goto(IF shell.cmd = "ineligible" THEN "expected" ELSE "set_votes", "votequorum")
    <3>1. /\ shell'.cmd = shell.cmd
          /\ shell'.pc = IF shell.cmd = "ineligible" THEN "expected" ELSE "set_votes"
      BY <1>1, <2>6, ShellShapes
    <3>2. ~NothingToDo(shell'.cmd, base'.votes)
      BY <2>1, <2>3, <2>6, <3>1
    <3> QED
      BY <2>3, <3>1, <3>2 DEF VotePart, VoteInv, SaidIsTrue, Said, NothingToDo
  <2> QED
    BY <1>9, <2>4, <2>5, <2>6 DEF ReadVotes
<1>10. CASE ReadExpected
  <2>1. UNCHANGED <<ledger, base, clean>> /\ shell.pc = "expected" /\ shell.cmd = "ineligible"
    BY <1>1, <1>10 DEF ReadExpected, Request, history, ControlInv
  <2>2. SUFFICES ASSUME clean PROVE VotePart'
    BY <1>8, <2>1
  <2>3. /\ votes' = base'.votes /\ expected' = base'.expected /\ expected = base.expected
        /\ ~NothingToDo(shell.cmd, base.votes)
    BY <1>1, <2>1, <2>2 DEF VoteInv, ledger
  <2>4. CASE Say("failed")
    <3>1. shell'.pc = "prompt" /\ shell'.cmd = shell.cmd /\ shell'.said = "failed"
      BY <1>1, <2>4, ShellShapes
    <3> QED
      BY <2>1, <2>3, <3>1, EndHolds DEF VoteCommands
  <2>5. CASE shell' = [shell EXCEPT !.expected = expected, !.pc = "set_expected"]
    <3>1. shell'.cmd = shell.cmd /\ shell'.pc = "set_expected" /\ shell'.expected = expected
      BY <1>1, <2>5 DEF Records
    <3>2. ~NothingToDo(shell'.cmd, base'.votes)
      BY <2>1, <2>3, <3>1
    <3> QED
      BY <2>1, <2>3, <3>1, <3>2 DEF VotePart, VoteInv, SaidIsTrue, Said, NothingToDo
  <2> QED
    BY <1>10, <2>4, <2>5 DEF ReadExpected
<1>11. CASE SetExpected
  <2>1. /\ UNCHANGED <<votes, base, clean>> /\ shell.pc = "set_expected"
        /\ shell.cmd = "ineligible"
    BY <1>1, <1>11 DEF SetExpected, Request, history, ControlInv
  <2>2. SUFFICES ASSUME clean PROVE VotePart'
    BY <1>8, <2>1
  <2>3. /\ votes' = base'.votes /\ expected = base.expected /\ shell.expected = base.expected
        /\ ~NothingToDo(shell.cmd, base.votes)
    BY <1>1, <2>1, <2>2 DEF VoteInv
  <2>4. CASE Say("failed") /\ UNCHANGED expected
    <3>1. shell'.pc = "prompt" /\ shell'.cmd = shell.cmd /\ shell'.said = "failed"
      BY <1>1, <2>4, ShellShapes
    <3> QED
      BY <2>1, <2>3, <2>4, <3>1, EndHolds DEF VoteCommands
  <2>5. CASE expected' = OneLess(shell.expected) /\ Goto("set_votes", "votequorum")
    <3>1. shell'.cmd = shell.cmd /\ shell'.pc = "set_votes"
      BY <1>1, <2>5, ShellShapes
    <3>2. ~NothingToDo(shell'.cmd, base'.votes) /\ expected' = OneLess(base'.expected)
      BY <2>1, <2>3, <2>5, <3>1
    <3> QED
      BY <2>1, <2>3, <3>1, <3>2 DEF VotePart, VoteInv, SaidIsTrue, Said, NothingToDo, OneLess
  <2> QED
    BY <1>11, <2>4, <2>5 DEF SetExpected
<1>12. CASE SetVotes
  <2>1. UNCHANGED <<expected, base, clean>> /\ shell.pc = "set_votes" /\ shell.cmd \in VoteCommands
    BY <1>1, <1>12 DEF SetVotes, Request, history, ControlInv
  <2>2. SUFFICES ASSUME clean PROVE VotePart'
    BY <1>8, <2>1
  <2>3. /\ votes = base.votes /\ ~NothingToDo(shell.cmd, base.votes)
        /\ expected = IF shell.cmd = "ineligible" THEN OneLess(base.expected) ELSE base.expected
    BY <1>1, <2>1, <2>2 DEF VoteInv
  <2>4. CASE Say("failed") /\ UNCHANGED votes
    <3>1. shell'.pc = "prompt" /\ shell'.cmd = shell.cmd /\ shell'.said = "failed"
      BY <1>1, <2>4, ShellShapes
    <3> QED
      BY <2>1, <2>3, <2>4, <3>1, EndHolds DEF OneLess
  <2>5. CASE votes' = Target[shell.cmd] /\ Say("done")
    <3>1. shell'.pc = "prompt" /\ shell'.cmd = shell.cmd /\ shell'.said = "done"
      BY <1>1, <2>5, ShellShapes
    <3>2. base.votes = 2 => shell.cmd = "remove"
      BY <2>1, <2>3, NothingToDoValues DEF VoteCommands
    <3> QED
      BY <2>1, <2>3, <2>5, <3>1, <3>2, EndHolds DEF OneLess
  <2> QED
    BY <1>12, <2>4, <2>5 DEF SetVotes
<1> QED
  BY <1>2, <1>3, <1>4, <1>5, <1>6, <1>7, <1>9, <1>10, <1>11, <1>12
  DEF Next, ShellStep, ShowStep, ThreadStep

\* Rows of the table are finitely many, and fit it.
LEMMA TableRows ==
  ASSUME NEW rows, rows \subseteq Table
  PROVE  IsFiniteSet(rows) /\ Cardinality(rows) \in Nat /\ Cardinality(rows) <= TableSize
<1>1. TableSize \in Nat
  BY ShellAssumption
<1>2. IsFiniteSet(Table) /\ Cardinality(Table) = TableSize
  BY <1>1, FS_Interval DEF Table
<1> QED
  BY <1>2, FS_Subset, FS_CardinalityType

LEMMA ListIndices ==
  ASSUME NEW list \in NodeLists
  PROVE  DOMAIN list \subseteq Nat
  BY ShellAssumption

\* When every row was printed, a node without a line has a gap before it.
LEMMA LeftOut ==
  ASSUME ListInv, shown.todo = {}, ~MoreRows, NEW k \in DOMAIN shown.list
  PROVE  \/ shown.list[k] \in shown.ids
         \/ k \in shown.unread \cup shown.refused
         \/ \E j \in 0 .. k - 1 : j \notin DOMAIN shown.list \ shown.unread
<1>2. k \in Nat /\ IsFiniteSet(Read) /\ Cardinality(Read) \in Nat /\ shown.num = Cardinality(Read)
  BY TableRows, ListIndices DEF ListInv
<1>1. SUFFICES ASSUME k \notin shown.unread, \A j \in 0 .. k - 1 : j \in DOMAIN shown.list \ shown.unread
               PROVE  k < shown.num
  <2>1. SUFFICES ASSUME k \notin shown.unread,
                        \A j \in 0 .. k - 1 : j \in DOMAIN shown.list \ shown.unread
                 PROVE  shown.list[k] \in shown.ids \/ k \in shown.refused
    OBVIOUS
  <2>2. k < shown.num /\ k \in Read
    BY <1>1, <2>1 DEF Read
  <2>3. shown.num \in Nat /\ shown.row = shown.num
    BY <1>2 DEF ListInv, MoreRows
  <2> QED
    BY <2>2, <2>3 DEF ListInv
<1>3. 0 .. k \subseteq Read
  <2>1. \A j \in 0 .. k : j \in 0 .. k - 1 \/ j = k
    BY <1>2
  <2> QED
    BY <1>1, <2>1 DEF Read
<1>4. Cardinality(0 .. k) = k + 1
  BY <1>2, FS_Interval
<1> HIDE DEF Read
<1>5. Cardinality(0 .. k) <= Cardinality(Read)
  BY <1>2, <1>3, FS_Subset
<1> QED
  BY <1>2, <1>4, <1>5

\* An id was read: one more row.
LEMMA ReadNext ==
  ASSUME ListInv, shown.row = 0, NEW k \in shown.todo, k \in Table,
         shown' = [shown EXCEPT !.todo = @ \ {k}, !.nodes[k] = shown.list[k], !.num = @ + 1]
  PROVE  ListInv' /\ shown'.row = shown.row
<1>1. /\ shown'.list = shown.list /\ shown'.todo = shown.todo \ {k}
      /\ shown'.nodes = [shown.nodes EXCEPT ![k] = shown.list[k]] /\ shown'.num = shown.num + 1
      /\ shown'.row = shown.row /\ shown'.ids = shown.ids /\ shown'.unread = shown.unread
      /\ shown'.refused = shown.refused
  BY DEF ListInv, Fields
<1>2. k \notin Read /\ Read' = Read \cup {k} /\ IsFiniteSet(Read)
  <2>1. Read \subseteq Table
    BY DEF ListInv
  <2>2. IsFiniteSet(Read)
    <3> HIDE DEF Read
    <3> QED
      BY <2>1, TableRows
  <2>3. k \in DOMAIN shown.list /\ k \notin shown.unread /\ k \in shown.todo
    BY DEF ListInv
  <2> QED
    BY <1>1, <2>2, <2>3 DEF Read
<1>3. Cardinality(Read') = shown.num + 1 /\ shown.num \in Nat
  <2> HIDE DEF Read
  <2> QED
    BY <1>2, TableRows, FS_AddElement DEF ListInv
<1>4. DOMAIN shown' = Fields
  BY DEF ListInv
<1>5. /\ DOMAIN shown'.nodes = Table
      /\ \A x \in Table : shown'.nodes[x] = IF x \in Read' THEN shown'.list[x] ELSE 0
  <2> HIDE DEF Read
  <2> QED
    BY <1>1, <1>2 DEF ListInv
<1>6. /\ shown'.todo \subseteq DOMAIN shown'.list /\ shown'.todo \cap shown'.unread = {}
      /\ shown'.row \in 0 .. shown'.num
  <2>1. shown.row \in 0 .. shown.num
    BY DEF ListInv
  <2>2. shown.row \in 0 .. shown.num + 1
    BY <1>3, <2>1
  <2> QED
    BY <1>1, <2>2 DEF ListInv
<1>7. \A x \in Read' : x < shown'.row => shown'.list[x] \in shown'.ids \/ x \in shown'.refused
  <2> HIDE DEF Read
  <2>1. ~(k < shown.row)
    BY DEF Table
  <2> QED
    BY <1>1, <1>2, <2>1 DEF ListInv
<1> HIDE DEF Read
<1> QED
  BY <1>1, <1>2, <1>3, <1>4, <1>5, <1>6, <1>7 DEF ListInv

\* Ids that are not read add no row.
LEMMA UnreadNext ==
  ASSUME ListInv, NEW K \in SUBSET shown.todo,
         shown' = [shown EXCEPT !.todo = @ \ K, !.unread = @ \cup K]
  PROVE  ListInv' /\ shown'.row = shown.row /\ shown'.todo = shown.todo \ K
<1>1. /\ shown'.list = shown.list /\ shown'.todo = shown.todo \ K
      /\ shown'.nodes = shown.nodes /\ shown'.num = shown.num
      /\ shown'.row = shown.row /\ shown'.ids = shown.ids
      /\ shown'.unread = shown.unread \cup K /\ shown'.refused = shown.refused
  BY DEF ListInv, Fields
<1>2. Read' = Read
  BY <1>1 DEF Read
<1>3. DOMAIN shown' = Fields
  BY DEF ListInv
<1> QED
  BY <1>1, <1>2, <1>3 DEF ListInv

\* A row's votes were read, or refused.
LEMMA RowNext ==
  ASSUME ListInv, ShowRow
  PROVE  ListInv' /\ shown'.todo = shown.todo
<1> DEFINE id == shown.nodes[shown.row]
<1>1. /\ shown'.list = shown.list /\ shown'.todo = shown.todo
      /\ shown'.nodes = shown.nodes /\ shown'.num = shown.num
      /\ shown'.row = shown.row + 1 /\ shown'.unread = shown.unread
      /\ \/ shown'.ids = shown.ids \cup {id} /\ shown'.refused = shown.refused
         \/ shown'.ids = shown.ids /\ shown'.refused = shown.refused \cup {shown.row}
      /\ DOMAIN shown' = Fields
  BY DEF ShowRow, ListInv, Fields
<1>2. Read' = Read
  BY <1>1 DEF Read
<1>3. /\ shown.num \in Nat /\ shown.num <= TableSize /\ shown.row \in 0 .. shown.num
      /\ shown.row < shown.num /\ TableSize \in Nat
  BY TableRows, ShellAssumption DEF ListInv, ShowRow, MoreRows
<1>4. shown.row \in Table
  BY <1>3 DEF Table
<1>5. id = IF shown.row \in Read THEN shown.list[shown.row] ELSE 0
  BY <1>4 DEF ListInv
<1>6. id \in {0} \cup {shown.list[k] : k \in DOMAIN shown.list}
  BY <1>5 DEF Read
<1>7. shown'.row \in 0 .. shown'.num
  BY <1>1, <1>3
<1>8. ASSUME NEW k \in Read, k < shown'.row
      PROVE  shown.list[k] \in shown'.ids \/ k \in shown'.refused
  <2>1. k \in Nat
    BY ListIndices DEF ListInv, Read
  <2>2. k < shown.row \/ k = shown.row
    BY <1>1, <1>3, <1>8, <2>1
  <2>3. CASE k < shown.row
    BY <1>1, <2>3 DEF ListInv
  <2>4. CASE k = shown.row
    BY <1>1, <1>5, <2>4
  <2> QED
    BY <2>2, <2>3, <2>4
<1> HIDE DEF id
<1>9. shown'.ids \subseteq {0} \cup {shown'.list[k] : k \in DOMAIN shown'.list}
  BY <1>1, <1>6 DEF ListInv
<1> HIDE DEF Read
<1> QED
  BY <1>1, <1>2, <1>7, <1>8, <1>9 DEF ListInv

\* The loops of node_show.
LEMMA ListStep ==
  ASSUME IInv, ShowStep
  PROVE  ShownInv'
<1> USE DEF At
<1>1. TypeOK /\ ControlInv /\ ShownInv /\ shell \in Records
  BY DEF IInv, TypeOK, Records
<1>2. ASSUME shell'.pc = "prompt", shell'.said = "failed" PROVE ShownInv'
  BY <1>2 DEF ShownInv, ShowsEveryNode, Said
<1>3. ASSUME ListInv', shell'.pc = "list", shown'.row = 0 PROVE ShownInv'
  BY <1>3 DEF ShownInv, ShowsEveryNode, Said
<1>4. ASSUME ListInv', shell'.pc = "rows", shown'.todo = {} PROVE ShownInv'
  <2>1. shown'.num <= TableSize
    <3>1. Read' \subseteq Table /\ shown'.num = Cardinality(Read')
      BY <1>4 DEF ListInv
    <3> HIDE DEF Read
    <3> QED
      BY <3>1, TableRows
  <2> QED
    BY <1>4, <2>1 DEF ShownInv, ShowsEveryNode, Said
<1>5. CASE IterInit
  <2>1. CASE Say("failed")
    BY <1>1, <1>2, <2>1, ShellShapes
  <2>2. CASE Goto("list", "cmap") /\ \E list \in NodeLists :
               shown' = [Nothing EXCEPT !.list = list, !.todo = DOMAIN list]
    <3>1. PICK list \in NodeLists : shown' = [Nothing EXCEPT !.list = list, !.todo = DOMAIN list]
      BY <2>2
    <3>2. /\ shown'.list = list /\ shown'.todo = DOMAIN list /\ shown'.num = 0 /\ shown'.row = 0
          /\ shown'.nodes = [x \in Table |-> 0] /\ shown'.ids = {} /\ shown'.unread = {}
          /\ DOMAIN shown' = Fields
      BY <3>1 DEF Nothing, Fields
    <3>3. Read' = {}
      BY <3>2 DEF Read
    <3>4. ListInv'
      BY <3>2, <3>3, FS_EmptySet DEF ListInv
    <3>5. shell'.pc = "list"
      BY <1>1, <2>2, ShellShapes
    <3> QED
      BY <1>3, <3>2, <3>4, <3>5
  <2> QED
    BY <1>5, <2>1, <2>2 DEF IterInit
<1>6. CASE NextNode
  <2>1. shell.pc = "list" /\ ListInv /\ shown.row = 0
    BY <1>1, <1>6 DEF NextNode, ShownInv
  <2>2. PICK k \in shown.todo :
          \/ /\ k \in Table
             /\ shown' = [shown EXCEPT !.todo = @ \ {k}, !.nodes[k] = shown.list[k],
                                       !.num = @ + 1]
             /\ UNCHANGED shell
          \/ k \notin Table /\ Goto("overran", "none") /\ UNCHANGED shown
          \/ /\ MayFail
             /\ shown' = [shown EXCEPT !.todo = @ \ {k}, !.unread = @ \cup {k}]
             /\ UNCHANGED shell
    BY <1>6 DEF NextNode
  <2>3. CASE /\ k \in Table
             /\ shown' = [shown EXCEPT !.todo = @ \ {k}, !.nodes[k] = shown.list[k],
                                       !.num = @ + 1]
             /\ UNCHANGED shell
    <3>1. shown'.row = 0 /\ ListInv'
      BY <2>1, <2>2, <2>3, ReadNext
    <3> QED
      BY <1>3, <2>1, <2>3, <3>1
  <2>4. CASE k \notin Table /\ Goto("overran", "none") /\ UNCHANGED shown
    <3>1. shell'.pc = "overran"
      BY <1>1, <2>4, ShellShapes
    <3> QED
      BY <3>1 DEF ShownInv, ShowsEveryNode, Said
  <2>5. CASE /\ MayFail
             /\ shown' = [shown EXCEPT !.todo = @ \ {k}, !.unread = @ \cup {k}]
             /\ UNCHANGED shell
    <3>1. shown'.row = 0 /\ ListInv'
      <4>1. {k} \in SUBSET shown.todo
        BY <2>2
      <4> QED
        BY <2>1, <2>5, <4>1, UnreadNext
    <3> QED
      BY <1>3, <2>1, <2>5, <3>1
  <2> QED
    BY <2>2, <2>3, <2>4, <2>5
<1>7. CASE ListEnds
  <2>1. ListInv /\ shown' = [shown EXCEPT !.todo = {}, !.unread = @ \cup shown.todo]
    BY <1>1, <1>7 DEF ListEnds, ShownInv
  <2>2. ListInv' /\ shown'.todo = {}
    <3>1. shown' = [shown EXCEPT !.todo = @ \ shown.todo, !.unread = @ \cup shown.todo]
      <4>1. shown.todo \ shown.todo = {}
        OBVIOUS
      <4> QED
        BY <2>1, <4>1
    <3>2. shown.todo \in SUBSET shown.todo
      OBVIOUS
    <3> QED
      BY <2>1, <3>1, <3>2, UnreadNext
  <2>3. shell'.pc = "rows"
    BY <1>1, <1>7, ShellShapes DEF ListEnds
  <2> QED
    BY <1>4, <2>2, <2>3
<1>8. CASE ShowRow
  <2>1. ListInv /\ shown.todo = {} /\ shell' = shell /\ shell.pc = "rows"
    BY <1>1, <1>8 DEF ShowRow, ShownInv
  <2>2. ListInv' /\ shown'.todo = {}
    BY <1>8, <2>1, RowNext
  <2> QED
    BY <1>4, <2>1, <2>2
<1>9. CASE ShowEnds
  <2>1. ListInv /\ shown.todo = {} /\ ~MoreRows
    BY <1>1, <1>9 DEF ShowEnds, ShownInv
  <2>2. shell'.pc = "prompt"
    BY <1>1, <1>9, ShellShapes DEF ShowEnds
  <2>3. /\ shown'.list = shown.list /\ shown'.ids = shown.ids /\ shown'.unread = shown.unread
        /\ shown'.refused = shown.refused
    BY <1>9, <2>1 DEF ShowEnds, ListInv, Fields
  <2>4. \A k \in DOMAIN shown.list :
          \/ shown.list[k] \in shown.ids
          \/ k \in shown.unread \cup shown.refused
          \/ \E j \in 0 .. k - 1 : j \notin DOMAIN shown.list \ shown.unread
    BY <2>1, LeftOut
  <2>5. shown.ids \subseteq {0} \cup {shown.list[k] : k \in DOMAIN shown.list}
    BY <2>1 DEF ListInv
  <2> QED
    BY <2>2, <2>3, <2>4, <2>5 DEF ShownInv, ShowsEveryNode
<1> QED
  BY <1>5, <1>6, <1>7, <1>8, <1>9 DEF ShowStep

\* What node_show listed stays until the next command.
LEMMA ShownStep ==
  ASSUME IInv, Next
  PROVE  ShownInv'
<1> USE DEF At
<1>1. TypeOK /\ ControlInv /\ ControlInv' /\ shell \in Records /\ ShownInv
  BY ControlStep DEF IInv, TypeOK, Records
<1>2. ASSUME shell'.cmd # "show" PROVE ShownInv'
  BY <1>1, <1>2 DEF ShownInv, ShowsEveryNode, Said, ControlInv
<1>3. CASE node_show
  <2>1. shell'.pc = "iter"
    BY <1>3 DEF node_show, Type
  <2> QED
    BY <2>1 DEF ShownInv, ShowsEveryNode, Said
<1>4. CASE Connect \/ Disconnect \/ VoteCommand
  BY <1>2, <1>4 DEF Connect, Disconnect, VoteCommand, Type, VoteCommands
<1>7. CASE ShowStep
  BY <1>7, ListStep
<1>5. CASE ShellStep /\ ~ShowStep
  <2>1. shell.cmd # "show"
    BY <1>1, <1>5 DEF ShellStep, ShowStep, Initialize, start_dispatch, NodeId, Close, ReadVotes,
       ReadExpected, SetExpected, SetVotes, ControlInv, VoteCommands
  <2>2. shell'.cmd = shell.cmd
    <3>1. CASE Initialize
      <4>1. \/ \E pc \in {"node_id", "dispatch"} : Goto(pc, shell.kind)
            \/ shell.kind \in Kinds /\ NextInit(shell.kind)
        BY <1>1, <3>1 DEF Initialize, ControlInv
      <4> QED
        BY <1>1, <4>1, ShellShapes
    <3>2. CASE start_dispatch
      <4>1. shell.kind \in Kinds /\ NextInit(shell.kind)
        BY <1>1, <3>2 DEF start_dispatch, ControlInv, Kinds, Dispatched
      <4> QED
        BY <1>1, <4>1, ShellShapes
    <3>3. CASE NodeId \/ SetVotes
      BY <1>1, <3>3, ShellShapes DEF NodeId, SetVotes
    <3>4. CASE Close
      BY <1>1, <3>4, ShellShapes DEF Close
    <3>5. CASE ReadVotes
      <4>1. (\E what : Say(what)) \/ (\E pc, kind : Goto(pc, kind))
        BY <3>5 DEF ReadVotes
      <4> QED
        BY <1>1, <4>1, ShellShapes
    <3>6. CASE ReadExpected
      BY <1>1, <3>6, ShellShapes DEF ReadExpected, Records
    <3>7. CASE SetExpected
      BY <1>1, <3>7, ShellShapes DEF SetExpected
    <3> QED
      BY <1>5, <3>1, <3>2, <3>3, <3>4, <3>5, <3>6, <3>7 DEF ShellStep, ShowStep
  <2> QED
    BY <1>2, <2>1, <2>2
<1>6. CASE ThreadStep \/ OtherClient
  <2>1. UNCHANGED <<shell, shown>>
    BY <1>6 DEF ThreadStep, Dispatch, DispatchEnds, OtherClient
  <2> QED
    BY <1>1, <2>1 DEF ShownInv, ShowsEveryNode, Said, ListInv, Read
<1> QED
  BY <1>3, <1>4, <1>5, <1>6, <1>7 DEF Next, ThreadStep

-----------------------------------------------------------------------------
(* The theorems                                                            *)

\* The properties and what it takes to keep them hold at the start and are kept by
\* every step.
THEOREM Inductive == Spec => []IInv
<1>1. IInv /\ [Next]_vars => IInv'
  <2> SUFFICES ASSUME IInv, [Next]_vars PROVE IInv'
    OBVIOUS
  <2>1. CASE Next
    <3>1. TypeOK' /\ ControlInv'
      BY <2>1, TypeStep, ControlStep DEF IInv
    <3>2. LostByReconnect' /\ OneDispatcherEach' /\ CreatedInv' /\ PendingInv'
      BY <2>1, OpenStep, ThreadsStep DEF PendingInv
    <3>3. VoteInv' /\ SaidIsTrue' /\ ShownInv'
      BY <2>1, VoteStep, ShownStep DEF VotePart
    <3> QED
      BY <3>1, <3>2, <3>3 DEF IInv
  <2>2. CASE UNCHANGED vars
    <3>1. TypeOK' /\ ControlInv'
      <4>1. TypeOK'
        <5>1. TypeOK /\ UNCHANGED vars
          BY <2>2 DEF IInv
        <5>2. connected' \in [Kinds -> BOOLEAN] /\ clean' \in BOOLEAN
          BY <5>1, Zenon DEF vars, TypeOK, connections, history
        <5>3. shell' \in Records /\ UNCHANGED <<votes, expected, handle, open, thread, our_nodeid,
                                                connects, base, lost, late>>
          BY <5>1 DEF vars, TypeOK, Records
        <5> QED
          BY <5>1, <5>2, <5>3 DEF TypeOK, Records
      <4>2. ControlInv'
        BY <2>2 DEF vars, IInv, ControlInv, At
      <4> QED
        BY <4>1, <4>2
    <3>2. LostByReconnect' /\ OneDispatcherEach' /\ CreatedInv' /\ PendingInv'
      BY <2>2 DEF vars, IInv, LostByReconnect, OneDispatcherEach, CreatedInv, PendingInv,
         Pending, At
    <3>3. VoteInv' /\ SaidIsTrue' /\ ShownInv'
      <4>1. VoteInv' /\ SaidIsTrue'
        BY <2>2 DEF vars, IInv, VoteInv, SaidIsTrue, Said, At, NothingToDo, OneLess
      <4>2. ShownInv'
        BY <2>2 DEF vars, IInv, ShownInv, ShowsEveryNode, ListInv, Read, Said, At
      <4> QED
        BY <4>1, <4>2
    <3> QED
      BY <3>1, <3>2, <3>3 DEF IInv
  <2> QED
    BY <2>1, <2>2
<1> QED
  BY <1>1, InitHolds, PTL DEF Spec

\* Every reachable state is typed; in particular the votes and the wrapped
\* expected votes stay in the range of unsigned int.
THEOREM TypeCorrect == Spec => []TypeOK
  BY Inductive, PTL DEF IInv

\* What a vote command says at its end is so.
THEOREM SaysTheTruth == Spec => []SaidIsTrue
  BY Inductive, PTL DEF IInv

\* Only connect over an open connection loses one, for any number of connects.
THEOREM LosesOnlyThere == Spec => []LostByReconnect
  BY Inductive, PTL DEF IInv

\* A thread runs on the connection it was created for, unless connect was typed
\* before it had begun to run.
THEOREM DispatchesItsOwn == Spec => []OneDispatcherEach
  BY Inductive, PTL DEF IInv

\* node_show leaves out a node only if it could not read its id or its votes, or if an
\* index before it has no node, or one whose id it could not read; every line is of a node
\* of the nodelist or of the id 0, and no row beyond the table is printed.  So it is for
\* any nodelist and any size of the table, with requests refused anywhere.
THEOREM ShowsAll == Spec => []ShowsEveryNode
<1>1. IInv => ShowsEveryNode
  BY DEF IInv, ShownInv
<1> QED
  BY <1>1, Inductive, PTL
=============================================================================
