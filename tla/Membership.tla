----------------------------- MODULE Membership -----------------------------
(***************************************************************************)
(* print_membership of print_manager.c with get_member_count and           *)
(* get_members of client_cmapctl.c: a process prints the members of the    *)
(* cluster while nodes join and leave it.                                  *)
(*                                                                         *)
(* cmap keeps the keys members.<id>.ip and members.<id>.status of every    *)
(* node that ever joined.  The keys are listed twice, to count the nodes   *)
(* and to fill an array of that many rows.  Each request of a listing is a *)
(* step, and so are the calls get_cmap_value and get_votes, which act at   *)
(* one instant (CmapRegisters, QuorumLedger).  A monitor prints them again *)
(* and again in one process, whose heap keeps what was freed.              *)
(***************************************************************************)
EXTENDS Integers, Sequences

CONSTANTS
  N,          \* nodes 1 .. N, numbered in the order of their keys
  LocalNode,  \* the id corosync_cfg_local_get returns
  MayFail     \* may a request be refused?

Nodes == 1 .. N

ASSUME MembershipAssumption ==
  N \in Nat \ {0} /\ LocalNode \in Nodes /\ MayFail \in BOOLEAN

VARIABLES
  status,        \* of each node in cmap; "none": it has never joined
  fn, pc,        \* listing in progress, next step
  handles,       \* cmap connections and iterators open
  pos, prev,     \* last key listed and its node
  total, i,      \* locals of get_member_count and get_members
  arr,           \* the array of rows
  local_nodeid,
  printed,       \* the lines printed
  rc,            \* code of the completed call
  memory,        \* what the calls of the process have left in its heap: the statuses
                 \* of the rows they freed
  grown, quiet,  \* history: since the call began, has a node joined for the
                 \* first time? has nothing changed?
  had,           \* history: of each node, its statuses since then
  flawless,      \* history: was no request refused?
  short,         \* history: was the count cut short by an error?
  overrun        \* history: was a row beyond the array written?

listing == <<pos, prev, total, i>>
others == <<memory, grown, quiet, had>>
failures == <<flawless, short>>
vars == <<status, fn, pc, handles, listing, arr, local_nodeid, printed, rc,
          others, failures, overrun>>

\* What nobody has written; no node has the id 0.
Unset == 0

\* What a row may hold when malloc returns it: nothing, or what is left of a row that
\* was freed.  free writes its links over the first bytes, the id and the beginning of
\* the ip, and leaves the status.  The memsets of client_cmapctl.c:271, 279 and 289,
\* given their last two arguments in the wrong order, clear nothing.
Left == {"none"} \cup memory
Garbage == {[nodeid |-> Unset, ip |-> Unset, status |-> s] : s \in Left}

Member(n) == status[n] # "none"

\* The keys in their order: 2n-1 is the ip of node n, 2n its status.
NodeOf(k) == (k + 1) \div 2
IsIp(k) == k % 2 = 1
KeysAhead == {k \in 1 .. 2 * N : k > pos /\ Member(NodeOf(k))}
IsNext(k) == k \in KeysAhead /\ \A l \in KeysAhead : k <= l

-----------------------------------------------------------------------------
Init ==
  /\ status \in [Nodes -> {"none", "joined", "left"}]
  /\ fn = "none" /\ pc = "idle"
  /\ handles = 0
  /\ pos = 0 /\ prev = Unset /\ total = 0 /\ i = -1
  /\ arr = <<>>
  /\ local_nodeid = Unset
  /\ printed = <<>>
  /\ rc = "none"
  /\ memory = {}
  /\ grown = FALSE /\ quiet = TRUE /\ had = [n \in Nodes |-> {}]
  /\ flawless = TRUE /\ short = FALSE /\ overrun = FALSE

Start ==
  /\ pc = "idle"
  /\ fn' = "count" /\ pc' = "open"
  /\ arr' = <<>> /\ printed' = <<>> /\ local_nodeid' = Unset
  /\ rc' = "none"
  /\ grown' = FALSE /\ quiet' = TRUE /\ had' = [n \in Nodes |-> {status[n]} \ {"none"}]
  /\ flawless' = TRUE /\ short' = FALSE /\ overrun' = FALSE
  /\ UNCHANGED <<status, listing>>

\* print_membership in a new process: nothing of the last one is left.
Call ==
  /\ Start
  /\ handles' = 0 /\ memory' = {}

\* print_membership in the process that has called it before.  One that overran an
\* array and went on is not followed further.
Again ==
  /\ Start
  /\ rc \in {"CS_OK", "CS_ERR"} /\ ~overrun
  /\ memory' = memory \cup ({printed[n].row.status : n \in DOMAIN printed} \ {"none"})
  /\ UNCHANGED handles

Goto(f, step) == fn' = f /\ pc' = step /\ UNCHANGED rc
Return(code) == fn' = "none" /\ pc' = "idle" /\ rc' = code

Refused == MayFail /\ flawless' = FALSE /\ UNCHANGED short

\* The running listing returns an error: that of get_member_count is passed
\* on, that of get_members is overwritten by the next call.
ListingFails == IF fn = "count" THEN Return("CS_ERR") ELSE Goto("print", "print")

\* cmap_initialize.
Initialize ==
  /\ pc = "open"
  /\ \/ handles' = handles + 1 /\ Goto(fn, "iter") /\ UNCHANGED failures
     \/ Refused /\ ListingFails /\ UNCHANGED handles
  /\ UNCHANGED <<status, listing, arr, local_nodeid, printed, others, overrun>>

\* Fault: the rows are numbered from 1.
FirstRowIsOne == 0

\* i before the first node: i++ makes it row 0.
BeforeFirstRow == -1

\* Fault: the error path of cmap_iter_init returns without cmap_finalize.
IterFailsOpen == UNCHANGED handles /\ ListingFails

\* cmap_iter_init fails: cmap_finalize, return err.
IterFails == handles' = handles - 1 /\ ListingFails

\* cmap_iter_init and the locals of the loop.
IterInit ==
  /\ pc = "iter"
  /\ \/ /\ handles' = handles + 1
        /\ pos' = 0 /\ prev' = Unset /\ total' = 0 /\ i' = BeforeFirstRow
        /\ Goto(fn, "next")
        /\ UNCHANGED failures
     \/ Refused /\ IterFails /\ UNCHANGED listing
  /\ UNCHANGED <<status, arr, local_nodeid, printed, others, overrun>>

\* Fault: every key is taken for a node.
EveryKey(k) == TRUE

\* id != prev.
NewNode(k) == NodeOf(k) # prev

\* Fault: every key is counted.
CountKey(k) == total + 1

\* total after the key k.
Count(k) == IF NewNode(k) THEN total + 1 ELSE total

\* cmap_iter_next in get_member_count.
CountNext ==
  /\ pc = "next" /\ fn = "count"
  /\ \E k \in KeysAhead :
       /\ IsNext(k)
       /\ pos' = k
       /\ prev' = NodeOf(k)
       /\ total' = Count(k)
  /\ UNCHANGED <<status, fn, pc, handles, i, arr, local_nodeid, printed, rc,
                 others, failures, overrun>>

\* array[j] takes the field; beyond the array that kills the process, or
\* writes somewhere else.
WriteRow(j, field, v) ==
  IF j + 1 \in DOMAIN arr
    THEN /\ arr' = [arr EXCEPT ![j + 1][field] = v]
         /\ UNCHANGED overrun
    ELSE UNCHANGED arr /\ overrun' = TRUE

\* cmap_iter_next in get_members, and the row of a new node.
MembersNext ==
  /\ pc = "next" /\ fn = "members"
  /\ \E k \in KeysAhead :
       /\ IsNext(k)
       /\ pos' = k
       /\ prev' = NodeOf(k)
       /\ i' = IF NewNode(k) THEN i + 1 ELSE i
       /\ IF NewNode(k) THEN WriteRow(i + 1, "nodeid", NodeOf(k))
                        ELSE UNCHANGED <<arr, overrun>>
  /\ \/ Goto(fn, "value")
     \/ overrun' /\ Return("crash")
  /\ UNCHANGED <<status, handles, total, local_nodeid, printed, others, failures>>

\* Fault: both keys are taken for the ip.
AlwaysIp == WriteRow(i, "ip", NodeOf(pos))

\* The copy of a value into the row.
CopyValue ==
  IF IsIp(pos) THEN WriteRow(i, "ip", NodeOf(pos))
               ELSE WriteRow(i, "status", status[NodeOf(pos)])

\* get_cmap_value of the key; the row is left as it is if it cannot be read.
Value ==
  /\ pc = "value"
  /\ \/ CopyValue /\ UNCHANGED failures
     \/ Refused /\ UNCHANGED <<arr, overrun>>
  /\ Goto(fn, "next")
  /\ UNCHANGED <<status, handles, listing, local_nodeid, printed, others>>

\* Fault: after an error of cmap_iter_next the keys are listed again.
RestartListing ==
  /\ Refused
  /\ handles' = handles - 1
  /\ Goto(fn, "iter")
  /\ UNCHANGED arr

\* The iterator and the connection are finalized and CS_OK is returned.
\* print_membership then allocates a row for every node counted.
FinishListing ==
  /\ handles' = handles - 2
  /\ IF fn = "count" THEN Goto("none", "locate") /\ arr' \in [1 .. total -> Garbage]
                     ELSE Goto("print", "print") /\ UNCHANGED arr

\* An error of cmap_iter_next ends the loop like the last key.
EndOnError ==
  /\ MayFail /\ flawless' = FALSE /\ short' = (short \/ fn = "count")
  /\ FinishListing

ListingEnds ==
  /\ pc = "next"
  /\ \/ KeysAhead = {} /\ FinishListing /\ UNCHANGED failures
     \/ EndOnError
  /\ UNCHANGED <<status, listing, local_nodeid, printed, others, overrun>>

\* get_local_nodeid, whose error is ignored.
Locate ==
  /\ pc = "locate"
  /\ \/ local_nodeid' = LocalNode /\ UNCHANGED failures
     \/ Refused /\ UNCHANGED local_nodeid
  /\ Goto("members", "open")
  /\ UNCHANGED <<status, handles, listing, arr, printed, others, overrun>>

\* get_votes of the next row and its line, without votes if they are refused.
\* What was never written may be equal to anything.
PrintRow ==
  /\ pc = "print" /\ Len(printed) < Len(arr)
  /\ LET row == arr[Len(printed) + 1] IN
       \E votes \in BOOLEAN,
          local \in IF Unset \in {row.nodeid, local_nodeid} THEN BOOLEAN
                    ELSE {row.nodeid = local_nodeid} :
         /\ IF votes THEN UNCHANGED failures ELSE Refused
         /\ printed' = Append(printed, [row |-> row, votes |-> votes, local |-> local])
  /\ UNCHANGED <<status, fn, pc, handles, listing, arr, local_nodeid, rc, others, overrun>>

\* The rows are freed, and print_membership returns.
Done ==
  /\ pc = "print" /\ Len(printed) = Len(arr)
  /\ arr' = <<>>
  /\ Return("CS_OK")
  /\ UNCHANGED <<status, handles, listing, local_nodeid, printed, others, failures, overrun>>

Step ==
  \/ Initialize
  \/ IterInit
  \/ CountNext
  \/ MembersNext
  \/ Value
  \/ ListingEnds
  \/ Locate
  \/ PrintRow
  \/ Done

\* A node joins, for the first time or again: its keys appear, or its status
\* changes.
Changes(n, to) ==
  /\ status' = [status EXCEPT ![n] = to]
  /\ had' = [had EXCEPT ![n] = @ \cup {to}]
  /\ quiet' = FALSE
  /\ UNCHANGED <<fn, pc, handles, listing, arr, local_nodeid, printed, rc, memory,
                 failures, overrun>>

Join(n) ==
  /\ status[n] # "joined"
  /\ Changes(n, "joined")
  /\ grown' = (grown \/ ~Member(n))

Leave(n) ==
  /\ status[n] = "joined"
  /\ Changes(n, "left")
  /\ UNCHANGED grown

Next == Call \/ Again \/ Step \/ \E n \in Nodes : Join(n) \/ Leave(n)

Spec == Init /\ [][Next]_vars

\* The process runs its call; nothing in it waits.
FairSpec == Spec /\ WF_vars(Step)

-----------------------------------------------------------------------------
(* Properties                                                              *)

Statuses == {"none", "joined", "left"}
Rows == [nodeid : 0 .. N, ip : 0 .. N, status : Statuses]

\* The types of the variables; neither loop takes more than N nodes.
TypeOK ==
  /\ status \in [Nodes -> Statuses]
  /\ fn \in {"none", "count", "members", "print"}
  /\ pc \in {"idle", "open", "iter", "next", "value", "locate", "print"}
  /\ handles \in 0 .. 2
  /\ pos \in 0 .. 2 * N /\ prev \in 0 .. N
  /\ total \in 0 .. N /\ i \in -1 .. N - 1
  /\ arr \in Seq(Rows)
  /\ local_nodeid \in {Unset, LocalNode}
  /\ printed \in Seq([row : Rows, votes : BOOLEAN, local : BOOLEAN])
  /\ rc \in {"none", "CS_OK", "CS_ERR", "crash"}
  /\ memory \subseteq {"joined", "left"}
  /\ had \in [Nodes -> SUBSET {"joined", "left"}]
  /\ {grown, quiet, flawless, short, overrun} \subseteq BOOLEAN

Returned == pc = "idle" /\ rc = "CS_OK"

\* print_membership returns with every connection and iterator closed, though
\* it goes on after errors of the functions that opened them.
NoHandleLeak == pc = "idle" /\ rc # "crash" => handles = 0

\* The array has a row for every node get_members finds, unless a node joined
\* for the first time during the call or the count was cut short by an error.
OverrunOnlyByGrowth == overrun => grown \/ short

\* However nodes join and leave and requests fail meanwhile, a call that overran
\* nothing prints members in the order of their keys, each with its own ip and a
\* status it had during the call, and these are all the lines it prints.  Only if a
\* request was refused may an ip or a status be what malloc left there, which in a
\* monitor is a status that some row of an earlier call had, and may lines follow of
\* rows nobody wrote.
PrintsMembers ==
  Returned /\ ~overrun =>
    /\ flawless => Len(printed) = i + 1
    /\ \A n \in DOMAIN printed :
         LET row == printed[n].row IN
         IF n > i + 1 THEN row \in Garbage
         ELSE /\ row.nodeid \in Nodes /\ Member(row.nodeid)
              /\ n > 1 => printed[n - 1].row.nodeid < row.nodeid
              /\ row.ip = row.nodeid \/ (~flawless /\ row.ip = Unset)
              /\ row.status \in had[row.nodeid] \/ (~flawless /\ row.status \in Left)

\* While nothing changes and nothing is refused, every member is printed, with
\* its current status and its votes, and the local node is marked.
PrintsAllMembers ==
  Returned /\ flawless /\ quiet =>
    /\ {printed[n].row.nodeid : n \in DOMAIN printed} = {n \in Nodes : Member(n)}
    /\ \A n \in DOMAIN printed :
         /\ printed[n].row.status = status[printed[n].row.nodeid]
         /\ printed[n].votes
         /\ printed[n].local <=> printed[n].row.nodeid = LocalNode

\* Every listing comes to an end, however the membership changes meanwhile.
PrintReturns == pc # "idle" ~> pc = "idle"
=============================================================================
