--------------------------- MODULE QuorumManager ---------------------------
(***************************************************************************)
(* The votequorum client functions of quorum_manager.c, with the helper    *)
(* get_local_nodeid of cluster_manager.c, called by several ctc processes  *)
(* against the one votequorum service of a cluster.                        *)
(*                                                                         *)
(* Every request to the service is one step, so calls of different         *)
(* processes interleave between requests.  A request may be refused, and   *)
(* so may the opening of a connection.  set_votes_and_adjust calls three   *)
(* of the other functions; resume[c] is where it goes on when the one it   *)
(* called returns.                                                         *)
(***************************************************************************)
EXTENDS Integers

CONSTANTS
  Clients,          \* processes that use the API
  NodeIds,          \* node ids a caller may name
  Nodes,            \* node ids the votequorum service knows
  LocalNode,        \* the id corosync_cfg_local_get returns
  VoteArgs,         \* vote counts a caller may pass
  Calls,            \* the functions the processes call
  InitialExpected,  \* expected votes when the processes start
  Modulus,          \* 2^32 in the code: the number of unsigned int values
  MayFail           \* may the services refuse connections and requests?

Readers == {"get_quorum_info", "get_votequorum_info", "get_votes",
            "get_expected_votes"}

Api == Readers \cup {"set_votes", "set_expected_votes", "set_votes_and_adjust"}

Word == 0 .. Modulus - 1

ASSUME QuorumAssumption ==
  /\ Modulus \in Nat \ {0, 1}
  /\ NodeIds \subseteq Nat
  /\ Nodes \subseteq NodeIds
  /\ LocalNode \in NodeIds
  /\ VoteArgs \subseteq Word
  /\ Calls \subseteq Api
  /\ InitialExpected \in Word
  /\ MayFail \in BOOLEAN

VARIABLES
  votes, expected,            \* held by the votequorum service
  fn, pc, resume,             \* innermost function running, its next step,
                              \* the step of set_votes_and_adjust it returns to
  node, val,                  \* arguments of the outermost call
  cur_votes, expected_votes,  \* locals of set_votes_and_adjust
  handles,                    \* votequorum connections the process has open
  rc,                         \* code of the last nested call
  result,                     \* last completed outermost call and its code
  base, clean                 \* history: the ledger when the call began, and
                              \* whether no other process wrote since

vars == <<votes, expected, fn, pc, resume, node, val, cur_votes,
          expected_votes, handles, rc, result, base, clean>>

service == <<votes, expected>>
locals  == <<cur_votes, expected_votes>>
call    == <<node, val>>
history == <<base, clean>>

NoBase == [votes |-> 0, expected |-> 0]

Codes == {"CS_OK", "CS_ERR"}
Steps == {"idle", "locate", "open", "request",
          "votes_read", "expected_read", "expected_set"}

\* Fault: the sum is kept as a wider integer.
WrapNothing(x) == x

\* delta is an int and expected_votes an unsigned int: the sum wraps.
Wrap(x) == x % Modulus

\* get_expected_votes and set_expected_votes look the local node id up before
\* they open their connection; the other functions open it first.
FirstStep(f) ==
  IF f \in {"get_expected_votes", "set_expected_votes"} THEN "locate" ELSE "open"

\* The node a reader asks about: get_quorum_info always asks about node 1.
Asked(c) ==
  IF fn[c] = "get_quorum_info" THEN 1
  ELSE IF fn[c] = "get_expected_votes" THEN LocalNode ELSE node[c]

-----------------------------------------------------------------------------
Init ==
  /\ votes = [n \in Nodes |-> 1]
  /\ expected = InitialExpected
  /\ fn = [c \in Clients |-> "none"]
  /\ pc = [c \in Clients |-> "idle"]
  /\ resume = [c \in Clients |-> "none"]
  /\ node = [c \in Clients |-> LocalNode]
  /\ val = [c \in Clients |-> 0]
  /\ cur_votes = [c \in Clients |-> 0]
  /\ expected_votes = [c \in Clients |-> 0]
  /\ handles = [c \in Clients |-> 0]
  /\ rc = [c \in Clients |-> "CS_OK"]
  /\ result = [c \in Clients |-> [fn |-> "none", rc |-> "CS_OK"]]
  /\ base = [c \in Clients |-> NoBase]
  /\ clean = [c \in Clients |-> TRUE]

\* Control passes to function f, which will return to the step r of
\* set_votes_and_adjust, or to the caller of the API when r is "none".
Enter(c, f, r) ==
  /\ fn' = [fn EXCEPT ![c] = f]
  /\ pc' = [pc EXCEPT ![c] = FirstStep(f)]
  /\ resume' = [resume EXCEPT ![c] = r]

\* The running function returns code.
Return(c, code) ==
  /\ rc' = [rc EXCEPT ![c] = code]
  /\ resume' = [resume EXCEPT ![c] = "none"]
  /\ IF resume[c] = "none"
       THEN /\ fn' = [fn EXCEPT ![c] = "none"]
            /\ pc' = [pc EXCEPT ![c] = "idle"]
            /\ result' = [result EXCEPT ![c] = [fn |-> fn[c], rc |-> code]]
       ELSE /\ fn' = [fn EXCEPT ![c] = "set_votes_and_adjust"]
            /\ pc' = [pc EXCEPT ![c] = resume[c]]
            /\ UNCHANGED result

Finalize(c) == handles' = [handles EXCEPT ![c] = @ - 1]

\* A write by c is an interference for every other call: its base is stale.
Disturb(c) ==
  /\ clean' = [d \in Clients |-> d = c /\ clean[d]]
  /\ base' = [d \in Clients |-> IF d = c THEN base[d] ELSE NoBase]

Call(c, f, n, v) ==
  /\ fn[c] = "none"
  /\ Enter(c, f, "none")
  /\ node' = [node EXCEPT ![c] = n]
  /\ val' = [val EXCEPT ![c] = v]
  /\ cur_votes' = [cur_votes EXCEPT ![c] = 0]
  /\ expected_votes' =
       [expected_votes EXCEPT ![c] = IF f = "set_expected_votes" THEN v ELSE 0]
  /\ base' = [base EXCEPT ![c] = [votes |-> IF n \in Nodes THEN votes[n] ELSE 0,
                                  expected |-> expected]]
  /\ clean' = [clean EXCEPT ![c] = TRUE]
  /\ UNCHANGED <<service, handles, rc, result>>

\* get_local_nodeid where its error is checked; it opens and closes its own
\* cfg connection whatever happens.
GetLocalNodeid(c) ==
  /\ pc[c] = "locate"
  /\ \/ pc' = [pc EXCEPT ![c] = "open"] /\ UNCHANGED <<fn, resume, rc, result>>
     \/ MayFail /\ Return(c, "CS_ERR")
  /\ UNCHANGED <<service, call, locals, handles, history>>

\* votequorum_initialize of the running function; set_votes_and_adjust goes
\* straight on to get_votes.
Initialize(c) ==
  /\ pc[c] = "open"
  /\ \/ /\ handles' = [handles EXCEPT ![c] = @ + 1]
        /\ IF fn[c] = "set_votes_and_adjust"
             THEN Enter(c, "get_votes", "votes_read")
             ELSE pc' = [pc EXCEPT ![c] = "request"] /\ UNCHANGED <<fn, resume>>
        /\ UNCHANGED <<rc, result>>
     \/ MayFail /\ Return(c, "CS_ERR") /\ UNCHANGED handles
  /\ UNCHANGED <<service, call, locals, history>>

\* votequorum_getinfo of the four readers, the copy of the answer, and the
\* finalize that every path to a return goes through.  get_quorum_info and
\* get_votes also look the local node id up, and use neither it nor its error.
Query(c) ==
  /\ pc[c] = "request" /\ fn[c] \in Readers
  /\ Finalize(c)
  /\ \/ /\ Asked(c) \in Nodes
        /\ cur_votes' = [cur_votes EXCEPT ![c] =
             IF fn[c] = "get_votes" THEN votes[node[c]] ELSE @]
        /\ expected_votes' = [expected_votes EXCEPT ![c] =
             IF fn[c] = "get_expected_votes" THEN expected ELSE @]
        /\ Return(c, "CS_OK")
     \/ /\ MayFail \/ Asked(c) \notin Nodes
        /\ Return(c, "CS_ERR")
        /\ UNCHANGED locals
  /\ UNCHANGED <<service, call, history>>

\* Fault: the local node's votes are set instead of the ones of the node named.
WriteLocalVotes(c) ==
  /\ LocalNode \in Nodes
  /\ votes' = [votes EXCEPT ![LocalNode] = val[c]]
  /\ Disturb(c)
  /\ UNCHANGED expected

\* votequorum_setvotes, where it succeeds.
WriteVotes(c) ==
  /\ node[c] \in Nodes
  /\ votes' = [votes EXCEPT ![node[c]] = val[c]]
  /\ Disturb(c)
  /\ UNCHANGED expected

SetVotes(c) ==
  /\ pc[c] = "request" /\ fn[c] = "set_votes"
  /\ Finalize(c)
  /\ \/ WriteVotes(c) /\ Return(c, "CS_OK")
     \/ /\ MayFail \/ node[c] \notin Nodes
        /\ Return(c, "CS_ERR")
        /\ UNCHANGED <<service, history>>
  /\ UNCHANGED <<call, locals>>

\* Fault: the code of the finalize is returned instead of the one of the write.
SetExpectedThenFinalizeFails(c) ==
  /\ pc[c] = "request" /\ fn[c] = "set_expected_votes"
  /\ Finalize(c)
  /\ expected' = expected_votes[c]
  /\ Disturb(c)
  /\ \E code \in Codes : Return(c, code)
  /\ UNCHANGED <<votes, call, locals>>

SetExpectedVotes(c) ==
  /\ pc[c] = "request" /\ fn[c] = "set_expected_votes"
  /\ Finalize(c)
  /\ \/ /\ expected' = expected_votes[c]
        /\ Disturb(c)
        /\ Return(c, "CS_OK")
        /\ UNCHANGED votes
     \/ /\ MayFail
        /\ Return(c, "CS_ERR")
        /\ UNCHANGED <<service, history>>
  /\ UNCHANGED <<call, locals>>

\* Fault: cur_votes - votes.
NewExpectedSwapped(c) == Wrap(expected_votes[c] + (cur_votes[c] - val[c]))

\* delta = votes - cur_votes, added to the expected votes read before.
NewExpected(c) == Wrap(expected_votes[c] + (val[c] - cur_votes[c]))

\* Fault: the return without the finalize.
AdjustAbandonLeaks(c) ==
  /\ pc[c] \in {"votes_read", "expected_read"}
  /\ rc[c] # "CS_OK"
  /\ Return(c, rc[c])
  /\ UNCHANGED <<service, call, locals, handles, history>>

\* Fault: a read that fails is repeated instead of reported.
AdjustRetries(c) ==
  /\ pc[c] \in {"votes_read", "expected_read"}
  /\ rc[c] # "CS_OK"
  /\ Enter(c, "get_votes", "votes_read")
  /\ UNCHANGED <<service, call, locals, handles, rc, result, history>>

\* Giving up after either read: finalize, return err.
AdjustAbandon(c) ==
  /\ pc[c] \in {"votes_read", "expected_read"}
  /\ rc[c] # "CS_OK"
  /\ Finalize(c)
  /\ Return(c, rc[c])
  /\ UNCHANGED <<service, call, locals, history>>

AdjustGetExpected(c) ==
  /\ pc[c] = "votes_read" /\ rc[c] = "CS_OK"
  /\ Enter(c, "get_expected_votes", "expected_read")
  /\ UNCHANGED <<service, call, locals, handles, rc, result, history>>

\* votequorum_setvotes on the outer connection, then the new expected votes.
AdjustSetVotes(c) ==
  /\ pc[c] = "expected_read" /\ rc[c] = "CS_OK"
  /\ \/ /\ WriteVotes(c)
        /\ expected_votes' = [expected_votes EXCEPT ![c] = NewExpected(c)]
        /\ Enter(c, "set_expected_votes", "expected_set")
        /\ UNCHANGED <<cur_votes, handles, rc, result>>
     \/ /\ MayFail \/ node[c] \notin Nodes
        /\ Finalize(c)
        /\ Return(c, "CS_ERR")
        /\ UNCHANGED <<service, locals, history>>
  /\ UNCHANGED call

AdjustFinish(c) ==
  /\ pc[c] = "expected_set"
  /\ Finalize(c)
  /\ Return(c, rc[c])
  /\ UNCHANGED <<service, call, locals, history>>

\* The steps of a call in progress.
Step(c) ==
  \/ GetLocalNodeid(c)
  \/ Initialize(c)
  \/ Query(c)
  \/ SetVotes(c)
  \/ SetExpectedVotes(c)
  \/ AdjustAbandon(c)
  \/ AdjustGetExpected(c)
  \/ AdjustSetVotes(c)
  \/ AdjustFinish(c)

Next ==
  \E c \in Clients :
    \/ \E f \in Calls, n \in NodeIds, v \in VoteArgs : Call(c, f, n, v)
    \/ Step(c)

Spec == Init /\ [][Next]_vars

\* A process that has called the API runs its call: none of the steps waits
\* for another process.
FairSpec == Spec /\ \A c \in Clients : WF_vars(Step(c))

-----------------------------------------------------------------------------
(* Properties                                                              *)

Resumes == {"none", "votes_read", "expected_read", "expected_set"}

LedgerType  == votes \in [Nodes -> Word] /\ expected \in Word
ControlType == /\ fn \in [Clients -> Api \cup {"none"}]
               /\ pc \in [Clients -> Steps]
               /\ resume \in [Clients -> Resumes]
AnswerType  == /\ rc \in [Clients -> Codes]
               /\ result \in [Clients -> [fn : Api \cup {"none"}, rc : Codes]]
LocalType   == /\ node \in [Clients -> NodeIds] /\ val \in [Clients -> Word]
               /\ cur_votes \in [Clients -> Word]
               /\ expected_votes \in [Clients -> Word]
               /\ handles \in [Clients -> Int]
HistoryType == /\ base \in [Clients -> [votes : Word, expected : Word]]
               /\ clean \in [Clients -> BOOLEAN]

\* The types of the variables; vote counts stay unsigned int values.
TypeOK == LedgerType /\ ControlType /\ AnswerType /\ LocalType /\ HistoryType

Idle(c) == fn[c] = "none"
InAdjust(c) == fn[c] = "set_votes_and_adjust" \/ resume[c] # "none"

Returned(c, f, code) == Idle(c) /\ result[c] = [fn |-> f, rc |-> code]

\* No connection outlives its call: whichever request is refused, and at
\* whatever depth, a process between two calls of the API has none open.
NoHandleLeak == \A c \in Clients : Idle(c) => handles[c] = 0

\* What set_votes_and_adjust promises ("change expected votes accordingly"):
\* if it succeeds and no other process wrote the ledger since it was called,
\* the node has the votes asked for and expected votes moved by as much.
AdjustExact ==
  \A c \in Clients :
    Returned(c, "set_votes_and_adjust", "CS_OK") /\ clean[c] =>
      /\ votes[node[c]] = val[c]
      /\ expected = Wrap(base[c].expected + (val[c] - base[c].votes))

\* The footprint of a set_votes_and_adjust that fails undisturbed: expected
\* votes never move without the node's votes, and the node's votes are either
\* the old ones or the ones asked for.
FailedAdjustFootprint ==
  \A c \in Clients :
    Returned(c, "set_votes_and_adjust", "CS_ERR") /\ clean[c] =>
      /\ expected = base[c].expected
      /\ node[c] \in Nodes => votes[node[c]] \in {base[c].votes, val[c]}

\* Every call of the API comes back, whatever the services refuse.
CallsReturn == \A c \in Clients : fn[c] # "none" ~> fn[c] = "none"

\* The process, where there is only one.
Alone == CHOOSE c \in Clients : TRUE

\* Its set_votes_and_adjust has written the votes and not yet returned.
HalfDone == InAdjust(Alone) /\ "expected_set" \in {pc[Alone], resume[Alone]}

\* The ledger as it is between its calls.
SettledVotes ==
  IF HalfDone THEN [votes EXCEPT ![node[Alone]] = cur_votes[Alone]] ELSE votes

SettledExpected == IF HalfDone THEN base[Alone].expected ELSE expected

Ledger == INSTANCE QuorumLedger WITH
  Args <- VoteArgs, votes <- SettledVotes, expected <- SettledExpected, result <- result[Alone]

\* To a process that is alone every call is atomic: QuorumManager implements
\* QuorumLedger (set_votes, set_expected_votes, set_votes_and_adjust).
LedgerSpec == Ledger!Spec
=============================================================================
