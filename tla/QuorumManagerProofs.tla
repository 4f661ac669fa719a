------------------------ MODULE QuorumManagerProofs -------------------------
(***************************************************************************)
(* Theorems about QuorumManager, for any set of processes, any nodes, any  *)
(* word size and whether or not the services refuse requests.              *)
(***************************************************************************)
EXTENDS QuorumManager, TLAPS

\* A wrapped sum is again an unsigned int value.
LEMMA WrapType == ASSUME NEW x \in Int PROVE Wrap(x) \in Word
  BY QuorumAssumption DEF Wrap, Word

\* The initial number of votes per node and the zero of the locals are values.
LEMMA SmallWords == 0 \in Word /\ 1 \in Word
  BY QuorumAssumption DEF Word

-----------------------------------------------------------------------------
(* Type correctness                                                        *)

\* Entering a function keeps the control variables in their types.
LEMMA EnterType ==
  ASSUME TypeOK, NEW c \in Clients, NEW f \in Api, NEW r \in Resumes, Enter(c, f, r)
  PROVE  ControlType'
  BY DEF TypeOK, ControlType, Enter, FirstStep, Steps, Resumes

\* So does returning from one, which also records a code.
LEMMA ReturnType ==
  ASSUME TypeOK, NEW c \in Clients, NEW code \in Codes, Return(c, code)
  PROVE  ControlType' /\ AnswerType'
<1> USE DEF TypeOK, ControlType, AnswerType, Return
<1>1. "set_votes_and_adjust" \in Api /\ "none" \in Resumes
  BY DEF Api, Resumes
<1>2. [fn |-> fn[c], rc |-> code] \in [fn : Api \cup {"none"}, rc : Codes]
  OBVIOUS
<1>3. CASE resume[c] = "none"
  <2>1. ControlType'
    BY <1>1, <1>3 DEF Steps
  <2>2. AnswerType'
    BY <1>2, <1>3
  <2> QED
    BY <2>1, <2>2
<1>4. CASE resume[c] # "none"
  <2>1. resume[c] \in Steps
    BY <1>4 DEF Steps, Resumes
  <2>2. ControlType'
    BY <1>1, <1>4, <2>1
  <2>3. AnswerType'
    BY <1>4
  <2> QED
    BY <2>2, <2>3
<1> QED
  BY <1>3, <1>4

\* A write of votes puts an argument of the API into the ledger.
LEMMA WriteVotesType ==
  ASSUME TypeOK, NEW c \in Clients, WriteVotes(c)
  PROVE  LedgerType' /\ HistoryType'
  BY SmallWords
  DEF TypeOK, LedgerType, LocalType, HistoryType, WriteVotes, Disturb, NoBase

\* Vote counts never leave the unsigned int range and control never leaves
\* the steps of quorum_manager.c.
THEOREM TypeCorrect == Spec => []TypeOK
<1>1. Init => TypeOK
  BY QuorumAssumption, SmallWords
  DEF Init, TypeOK, LedgerType, ControlType, AnswerType, LocalType, HistoryType,
      Api, Steps, Resumes, Codes, NoBase
<1>2. TypeOK /\ [Next]_vars => TypeOK'
  <2> SUFFICES ASSUME TypeOK, [Next]_vars PROVE TypeOK'
    OBVIOUS
  <2> USE DEF TypeOK, service, locals, call, history, Finalize
  <2>0. /\ "CS_OK" \in Codes /\ "CS_ERR" \in Codes /\ "none" \in Resumes
        /\ Resumes \subseteq Steps \cup {"none"}
        /\ {"get_votes", "get_expected_votes", "set_expected_votes"} \subseteq Api
    BY DEF Codes, Resumes, Steps, Api, Readers
  <2>1. ASSUME NEW c \in Clients, NEW f \in Calls, NEW n \in NodeIds,
               NEW v \in VoteArgs, Call(c, f, n, v)
        PROVE  TypeOK'
    <3>1. f \in Api /\ v \in Word
      BY QuorumAssumption
    <3>2. ControlType'
      BY <2>0, <2>1, <3>1, EnterType DEF Call
    <3>3. HistoryType'
      <4>1. [votes |-> IF n \in Nodes THEN votes[n] ELSE 0, expected |-> expected]
              \in [votes : Word, expected : Word]
        BY SmallWords DEF LedgerType
      <4> QED
        BY <2>1, <4>1 DEF Call, HistoryType
    <3>4. LocalType'
      BY <2>1, <3>1, SmallWords DEF Call, LocalType
    <3> QED
      BY <2>1, <3>2, <3>3, <3>4 DEF Call, LedgerType, AnswerType
  <2>2. ASSUME NEW c \in Clients, GetLocalNodeid(c) PROVE TypeOK'
    <3>1. ControlType' /\ AnswerType'
      BY <2>0, <2>2, ReturnType DEF GetLocalNodeid, Steps, ControlType, AnswerType
    <3> QED
      BY <2>2, <3>1 DEF GetLocalNodeid, LedgerType, LocalType, HistoryType
  <2>3. ASSUME NEW c \in Clients, Initialize(c) PROVE TypeOK'
    <3>1. CASE Return(c, "CS_ERR") /\ UNCHANGED handles
      BY <2>0, <2>3, <3>1, ReturnType
      DEF Initialize, LedgerType, LocalType, HistoryType
    <3>2. CASE Enter(c, "get_votes", "votes_read")
               /\ handles' = [handles EXCEPT ![c] = @ + 1] /\ UNCHANGED <<rc, result>>
      <4>1. ControlType'
        BY <2>0, <3>2, EnterType DEF Resumes
      <4> QED
        BY <2>3, <3>2, <4>1
        DEF Initialize, LedgerType, AnswerType, LocalType, HistoryType
    <3>3. CASE pc' = [pc EXCEPT ![c] = "request"] /\ UNCHANGED <<fn, resume>>
               /\ handles' = [handles EXCEPT ![c] = @ + 1] /\ UNCHANGED <<rc, result>>
      <4>1. ControlType'
        BY <3>3 DEF ControlType, Steps
      <4> QED
        BY <2>3, <3>3, <4>1
        DEF Initialize, LedgerType, AnswerType, LocalType, HistoryType
    <3> QED
      BY <2>3, <3>1, <3>2, <3>3 DEF Initialize
  <2>4. ASSUME NEW c \in Clients, Query(c) PROVE TypeOK'
    <3>1. ControlType' /\ AnswerType'
      BY <2>0, <2>4, ReturnType DEF Query
    <3>2. CASE UNCHANGED locals
      BY <2>4, <3>1, <3>2 DEF Query, LedgerType, LocalType, HistoryType
    <3>3. CASE /\ Asked(c) \in Nodes
               /\ cur_votes' = [cur_votes EXCEPT ![c] =
                    IF fn[c] = "get_votes" THEN votes[node[c]] ELSE @]
               /\ expected_votes' = [expected_votes EXCEPT ![c] =
                    IF fn[c] = "get_expected_votes" THEN expected ELSE @]
      <4>1. fn[c] = "get_votes" => votes[node[c]] \in Word
        BY <3>3 DEF Asked, LedgerType
      <4>2. LocalType'
        BY <2>4, <3>3, <4>1 DEF Query, LocalType, LedgerType
      <4> QED
        BY <2>4, <3>1, <4>2 DEF Query, LedgerType, HistoryType
    <3> QED
      BY <2>4, <3>2, <3>3 DEF Query
  <2>5. ASSUME NEW c \in Clients, SetVotes(c) PROVE TypeOK'
    <3>1. ControlType' /\ AnswerType'
      BY <2>0, <2>5, ReturnType DEF SetVotes
    <3>2. LedgerType' /\ HistoryType'
      BY <2>5, WriteVotesType DEF SetVotes, LedgerType, HistoryType
    <3> QED
      BY <2>5, <3>1, <3>2 DEF SetVotes, LocalType
  <2>6. ASSUME NEW c \in Clients, SetExpectedVotes(c) PROVE TypeOK'
    <3>1. ControlType' /\ AnswerType'
      BY <2>0, <2>6, ReturnType DEF SetExpectedVotes
    <3>2. LedgerType'
      BY <2>6 DEF SetExpectedVotes, LedgerType, LocalType
    <3>3. HistoryType'
      <4>1. CASE Disturb(c)
        BY <4>1, SmallWords DEF HistoryType, Disturb, NoBase
      <4> QED
        BY <2>6, <4>1 DEF SetExpectedVotes, HistoryType
    <3> QED
      BY <2>6, <3>1, <3>2, <3>3 DEF SetExpectedVotes, LocalType
  <2>7. ASSUME NEW c \in Clients, AdjustAbandon(c) PROVE TypeOK'
    <3>1. ControlType' /\ AnswerType'
      BY <2>7, ReturnType DEF AdjustAbandon, AnswerType
    <3> QED
      BY <2>7, <3>1 DEF AdjustAbandon, LedgerType, LocalType, HistoryType
  <2>8. ASSUME NEW c \in Clients, AdjustGetExpected(c) PROVE TypeOK'
    <3>1. ControlType'
      BY <2>0, <2>8, EnterType DEF AdjustGetExpected, Resumes
    <3> QED
      BY <2>8, <3>1 DEF AdjustGetExpected, LedgerType, AnswerType, LocalType, HistoryType
  <2>9. ASSUME NEW c \in Clients, AdjustSetVotes(c) PROVE TypeOK'
    <3>1. CASE Finalize(c) /\ Return(c, "CS_ERR") /\ UNCHANGED <<service, locals, history>>
      BY <2>0, <2>9, <3>1, ReturnType
      DEF AdjustSetVotes, LedgerType, LocalType, HistoryType
    <3>2. CASE /\ WriteVotes(c)
               /\ expected_votes' = [expected_votes EXCEPT ![c] = NewExpected(c)]
               /\ Enter(c, "set_expected_votes", "expected_set")
               /\ UNCHANGED <<cur_votes, handles, rc, result>>
      <4>1. ControlType'
        BY <2>0, <3>2, EnterType DEF Resumes
      <4>2. NewExpected(c) \in Word
        BY WrapType DEF NewExpected, Word, LocalType
      <4>3. LocalType'
        BY <2>9, <3>2, <4>2 DEF AdjustSetVotes, LocalType
      <4> QED
        BY <3>2, <4>1, <4>3, WriteVotesType DEF AnswerType
    <3> QED
      BY <2>9, <3>1, <3>2 DEF AdjustSetVotes
  <2>10. ASSUME NEW c \in Clients, AdjustFinish(c) PROVE TypeOK'
    <3>1. ControlType' /\ AnswerType'
      BY <2>10, ReturnType DEF AdjustFinish, AnswerType
    <3> QED
      BY <2>10, <3>1 DEF AdjustFinish, LedgerType, LocalType, HistoryType
  <2>11. CASE UNCHANGED vars
    BY <2>11 DEF vars, LedgerType, ControlType, AnswerType, LocalType, HistoryType
  <2> QED
    BY <2>1, <2>2, <2>3, <2>4, <2>5, <2>6, <2>7, <2>8, <2>9, <2>10, <2>11
    DEF Next, Step
<1> QED
  BY <1>1, <1>2, PTL DEF Spec

-----------------------------------------------------------------------------
(* The inductive invariant                                                 *)

\* The connections the running functions have open: the one of
\* set_votes_and_adjust once it is past its own initialize, and the one of
\* the innermost function while its request is pending.
Open(c) ==
  (IF resume[c] # "none"
        \/ (fn[c] = "set_votes_and_adjust" /\ pc[c] # "open") THEN 1 ELSE 0)
  + (IF pc[c] = "request" THEN 1 ELSE 0)

\* Which function runs determines where control can be.
ControlInv(c) ==
  /\ fn[c] = "none" <=> pc[c] = "idle"
  /\ fn[c] \in {"none", "set_votes_and_adjust"} => resume[c] = "none"
  /\ pc[c] \in {"locate", "request"} => fn[c] # "set_votes_and_adjust"
  /\ pc[c] \in Resumes => fn[c] = "set_votes_and_adjust"
  /\ resume[c] = "votes_read" => fn[c] = "get_votes"
  /\ resume[c] = "expected_read" => fn[c] = "get_expected_votes"
  /\ resume[c] = "expected_set" => fn[c] = "set_expected_votes"
  /\ handles[c] = Open(c)

\* How far set_votes_and_adjust is: it holds the node's votes, it holds
\* expected votes too, it has written the node's votes.
GotVotes(c) ==
  \/ "expected_read" \in {pc[c], resume[c]}
  \/ pc[c] = "votes_read" /\ rc[c] = "CS_OK"
GotExpected(c) == pc[c] = "expected_read" /\ rc[c] = "CS_OK"
Wrote(c) == "expected_set" \in {pc[c], resume[c]}

Target(c) == Wrap(base[c].expected + (val[c] - base[c].votes))

\* What an undisturbed set_votes_and_adjust knows of the ledger at each of
\* its steps, and what it leaves behind.
LedgerInv(c) ==
  clean[c] =>
    /\ InAdjust(c) /\ ~Wrote(c) =>
         /\ expected = base[c].expected
         /\ node[c] \in Nodes => votes[node[c]] = base[c].votes
    /\ GotVotes(c) => node[c] \in Nodes /\ cur_votes[c] = base[c].votes
    /\ GotExpected(c) => expected_votes[c] = base[c].expected
    /\ Wrote(c) =>
         /\ node[c] \in Nodes /\ votes[node[c]] = val[c]
         /\ expected_votes[c] = Target(c)
         /\ expected = IF pc[c] = "expected_set" /\ rc[c] = "CS_OK"
                         THEN Target(c) ELSE base[c].expected
    /\ Returned(c, "set_votes_and_adjust", "CS_OK") =>
         votes[node[c]] = val[c] /\ expected = Target(c)
    /\ Returned(c, "set_votes_and_adjust", "CS_ERR") =>
         /\ expected = base[c].expected
         /\ node[c] \in Nodes => votes[node[c]] \in {base[c].votes, val[c]}

IInv == \A c \in Clients : ControlInv(c) /\ LedgerInv(c)

\* A step of another process leaves c's variables alone; if it writes the
\* ledger, it takes c's claim to be undisturbed away.
Untouched(c) ==
  /\ fn'[c] = fn[c] /\ pc'[c] = pc[c] /\ resume'[c] = resume[c]
  /\ node'[c] = node[c] /\ val'[c] = val[c]
  /\ cur_votes'[c] = cur_votes[c] /\ expected_votes'[c] = expected_votes[c]
  /\ handles'[c] = handles[c] /\ rc'[c] = rc[c] /\ result'[c] = result[c]
  /\ clean'[c] => /\ clean[c] /\ base'[c] = base[c]
                  /\ votes' = votes /\ expected' = expected

\* Every step of another process is of that kind.
LEMMA Frame ==
  ASSUME TypeOK, NEW c \in Clients, NEW d \in Clients, c # d,
         \/ \E f \in Calls, n \in NodeIds, v \in VoteArgs : Call(d, f, n, v)
         \/ Step(d)
  PROVE  Untouched(c)
<1> USE DEF TypeOK, LedgerType, ControlType, AnswerType, LocalType, HistoryType,
            service, locals, call, history, Untouched, Enter, Return, Finalize
<1>0. Disturb(d) => ~clean'[c]
  BY DEF Disturb
<1>1. CASE \E f \in Calls, n \in NodeIds, v \in VoteArgs : Call(d, f, n, v)
  BY <1>1 DEF Call
<1>2. CASE GetLocalNodeid(d)
  BY <1>2 DEF GetLocalNodeid
<1>3. CASE Initialize(d)
  BY <1>3 DEF Initialize
<1>4. CASE Query(d)
  BY <1>4 DEF Query
<1>5. CASE SetVotes(d)
  <2>1. CASE WriteVotes(d) /\ Return(d, "CS_OK")
    BY <1>5, <1>0, <2>1 DEF SetVotes, WriteVotes
  <2>2. CASE Return(d, "CS_ERR") /\ UNCHANGED <<service, history>>
    BY <1>5, <2>2 DEF SetVotes
  <2> QED
    BY <1>5, <2>1, <2>2 DEF SetVotes
<1>6. CASE SetExpectedVotes(d)
  <2>1. CASE Disturb(d) /\ Return(d, "CS_OK")
    BY <1>6, <1>0, <2>1 DEF SetExpectedVotes
  <2>2. CASE Return(d, "CS_ERR") /\ UNCHANGED <<service, history>>
    BY <1>6, <2>2 DEF SetExpectedVotes
  <2> QED
    BY <1>6, <2>1, <2>2 DEF SetExpectedVotes
<1>7. CASE AdjustAbandon(d)
  BY <1>7 DEF AdjustAbandon
<1>8. CASE AdjustGetExpected(d)
  BY <1>8 DEF AdjustGetExpected
<1>9. CASE AdjustSetVotes(d)
  <2>1. CASE WriteVotes(d) /\ UNCHANGED <<cur_votes, handles, rc, result>>
             /\ Enter(d, "set_expected_votes", "expected_set")
    BY <1>9, <1>0, <2>1 DEF AdjustSetVotes, WriteVotes
  <2>2. CASE Return(d, "CS_ERR") /\ Finalize(d) /\ UNCHANGED <<service, locals, history>>
    BY <1>9, <2>2 DEF AdjustSetVotes
  <2> QED
    BY <1>9, <2>1, <2>2 DEF AdjustSetVotes
<1>10. CASE AdjustFinish(d)
  BY <1>10 DEF AdjustFinish
<1> QED
  BY <1>1, <1>2, <1>3, <1>4, <1>5, <1>6, <1>7, <1>8, <1>9, <1>10 DEF Step

\* So both parts of c's invariant survive it.
LEMMA FrameInv ==
  ASSUME NEW c \in Clients, ControlInv(c), LedgerInv(c), Untouched(c)
  PROVE  ControlInv(c)' /\ LedgerInv(c)'
<1>1. ControlInv(c)'
  BY DEF Untouched, ControlInv, Open
<1>2. LedgerInv(c)'
  BY DEF Untouched, LedgerInv, InAdjust, Wrote, GotVotes, GotExpected, Target,
         Returned, Idle
<1> QED
  BY <1>1, <1>2

-----------------------------------------------------------------------------
(* The steps of the process itself                                         *)

\* Where Enter and Return leave control.
LEMMA EnterAt ==
  ASSUME TypeOK, NEW c \in Clients, NEW f, NEW r, Enter(c, f, r)
  PROVE  fn'[c] = f /\ pc'[c] = FirstStep(f) /\ resume'[c] = r
  BY DEF TypeOK, ControlType, Enter

LEMMA ReturnAt ==
  ASSUME TypeOK, NEW c \in Clients, NEW code, Return(c, code)
  PROVE  /\ rc'[c] = code /\ resume'[c] = "none"
         /\ resume[c] = "none" =>
              /\ fn'[c] = "none" /\ pc'[c] = "idle"
              /\ result'[c] = [fn |-> fn[c], rc |-> code]
         /\ resume[c] # "none" =>
              /\ fn'[c] = "set_votes_and_adjust" /\ pc'[c] = resume[c]
              /\ result'[c] = result[c]
  BY DEF TypeOK, ControlType, AnswerType, Return

\* A call begins with nothing open and the ledger as its base.
LEMMA CallInv ==
  ASSUME TypeOK, NEW c \in Clients, ControlInv(c), LedgerInv(c),
         NEW f \in Calls, NEW n \in NodeIds, NEW v \in VoteArgs, Call(c, f, n, v)
  PROVE  ControlInv(c)' /\ LedgerInv(c)'
<1> USE DEF TypeOK, service
<1>1. /\ fn'[c] = f /\ pc'[c] = FirstStep(f) /\ resume'[c] = "none"
  BY EnterAt DEF Call
<1>2. /\ f # "none" /\ pc'[c] \in {"locate", "open"}
      /\ f = "set_votes_and_adjust" => pc'[c] = "open"
  BY <1>1, QuorumAssumption DEF FirstStep, Api, Readers
<1>3. handles'[c] = 0
  BY DEF Call, ControlInv, Open, LocalType
<1>4. ControlInv(c)'
  BY <1>1, <1>2, <1>3 DEF ControlInv, Open, Resumes
<1>5. /\ expected' = base'[c].expected
      /\ node'[c] \in Nodes => votes'[node'[c]] = base'[c].votes
  BY DEF Call, HistoryType, LocalType
<1>6. LedgerInv(c)'
  BY <1>1, <1>2, <1>5 DEF LedgerInv, Wrote, GotVotes, GotExpected, Returned, Idle
<1> QED
  BY <1>4, <1>6

\* A function called by the API or by set_votes_and_adjust returns with its
\* own connection closed: what remains open is the caller's.
LEMMA LeafReturn ==
  ASSUME TypeOK, NEW c \in Clients, NEW code \in Codes, ControlInv(c),
         fn[c] \notin {"none", "set_votes_and_adjust"}, Return(c, code),
         handles'[c] = handles[c] - (IF pc[c] = "request" THEN 1 ELSE 0)
  PROVE  ControlInv(c)'
<1>1. handles'[c] = IF resume[c] = "none" THEN 0 ELSE 1
  BY DEF ControlInv, Open
<1>2. CASE resume[c] = "none"
  <2>1. fn'[c] = "none" /\ pc'[c] = "idle" /\ resume'[c] = "none"
    BY <1>2, ReturnAt
  <2> QED
    BY <1>1, <1>2, <2>1 DEF ControlInv, Open, Resumes
<1>3. CASE resume[c] # "none"
  <2>1. fn'[c] = "set_votes_and_adjust" /\ pc'[c] = resume[c] /\ resume'[c] = "none"
    BY <1>3, ReturnAt
  <2>2. resume[c] \in Resumes
    BY DEF TypeOK, ControlType
  <2> QED
    BY <1>1, <1>3, <2>1, <2>2 DEF ControlInv, Open, Resumes
<1> QED
  BY <1>2, <1>3

\* A failing one changes nothing set_votes_and_adjust knows.
LEMMA LeafFails ==
  ASSUME TypeOK, NEW c \in Clients, ControlInv(c), LedgerInv(c),
         fn[c] \notin {"none", "set_votes_and_adjust"}, Return(c, "CS_ERR"),
         UNCHANGED <<service, call, locals, history>>
  PROVE  LedgerInv(c)'
<1> USE DEF service, call, locals, history
<1>0. pc[c] \notin Resumes
  BY DEF ControlInv
<1>1. CASE resume[c] = "none"
  <2>1. fn'[c] = "none" /\ pc'[c] = "idle" /\ resume'[c] = "none"
        /\ result'[c] = [fn |-> fn[c], rc |-> "CS_ERR"]
    BY <1>1, ReturnAt
  <2> QED
    BY <2>1 DEF LedgerInv, InAdjust, Wrote, GotVotes, GotExpected, Returned
<1>2. CASE resume[c] # "none"
  <2>1. fn'[c] = "set_votes_and_adjust" /\ pc'[c] = resume[c] /\ resume'[c] = "none"
        /\ rc'[c] = "CS_ERR"
    BY <1>2, ReturnAt
  <2> QED
    BY <1>0, <1>2, <2>1
    DEF LedgerInv, InAdjust, Wrote, GotVotes, GotExpected, Target, Returned, Idle, Resumes
<1> QED
  BY <1>1, <1>2

\* get_local_nodeid opens nothing that outlives it.
LEMMA GetLocalNodeidInv ==
  ASSUME TypeOK, NEW c \in Clients, ControlInv(c), LedgerInv(c), GetLocalNodeid(c)
  PROVE  ControlInv(c)' /\ LedgerInv(c)'
<1> USE DEF TypeOK, ControlType, service, call, locals, history, GetLocalNodeid
<1>1. CASE pc' = [pc EXCEPT ![c] = "open"] /\ UNCHANGED <<fn, resume, rc, result>>
  <2>1. pc'[c] = "open"
    BY <1>1
  <2>2. ControlInv(c)'
    BY <1>1, <2>1 DEF ControlInv, Open, Resumes
  <2>3. LedgerInv(c)'
    BY <1>1, <2>1 DEF LedgerInv, InAdjust, Wrote, GotVotes, GotExpected, Target, Returned, Idle
  <2> QED
    BY <2>2, <2>3
<1>2. CASE Return(c, "CS_ERR")
  <2>1. fn[c] \notin {"none", "set_votes_and_adjust"}
        /\ handles'[c] = handles[c] - (IF pc[c] = "request" THEN 1 ELSE 0)
    BY DEF ControlInv, LocalType
  <2> QED
    BY <1>2, <2>1, LeafReturn, LeafFails DEF Codes
<1> QED
  BY <1>1, <1>2

\* Initialize opens the connection of the running function; when it cannot,
\* the function returns, set_votes_and_adjust with nothing done yet.
LEMMA InitializeInv ==
  ASSUME TypeOK, NEW c \in Clients, ControlInv(c), LedgerInv(c), Initialize(c)
  PROVE  ControlInv(c)' /\ LedgerInv(c)'
<1> USE DEF TypeOK, ControlType, service, call, locals, history, Initialize
<1>1. CASE handles' = [handles EXCEPT ![c] = @ + 1] /\ Enter(c, "get_votes", "votes_read")
           /\ fn[c] = "set_votes_and_adjust" /\ UNCHANGED <<rc, result>>
  <2>1. fn'[c] = "get_votes" /\ pc'[c] = "open" /\ resume'[c] = "votes_read"
    BY <1>1, EnterAt DEF FirstStep
  <2>2. handles'[c] = 1
    BY <1>1 DEF ControlInv, Open, LocalType
  <2>3. ControlInv(c)'
    BY <2>1, <2>2 DEF ControlInv, Open, Resumes
  <2>4. LedgerInv(c)'
    BY <1>1, <2>1
    DEF ControlInv, LedgerInv, InAdjust, Wrote, GotVotes, GotExpected, Returned, Idle
  <2> QED
    BY <2>3, <2>4
<1>2. CASE handles' = [handles EXCEPT ![c] = @ + 1] /\ pc' = [pc EXCEPT ![c] = "request"]
           /\ fn[c] # "set_votes_and_adjust" /\ UNCHANGED <<fn, resume, rc, result>>
  <2>1. pc'[c] = "request" /\ handles'[c] = handles[c] + 1
    BY <1>2 DEF LocalType
  <2>2. ControlInv(c)'
    BY <1>2, <2>1 DEF ControlInv, Open, Resumes
  <2>3. LedgerInv(c)'
    BY <1>2, <2>1
    DEF LedgerInv, InAdjust, Wrote, GotVotes, GotExpected, Target, Returned, Idle
  <2> QED
    BY <2>2, <2>3
<1>3. CASE Return(c, "CS_ERR") /\ UNCHANGED handles
  <2>1. CASE fn[c] = "set_votes_and_adjust"
    <3>1. /\ fn'[c] = "none" /\ pc'[c] = "idle" /\ resume'[c] = "none"
          /\ result'[c] = [fn |-> "set_votes_and_adjust", rc |-> "CS_ERR"]
      BY <1>3, <2>1, ReturnAt DEF ControlInv
    <3>2. ControlInv(c)'
      BY <1>3, <2>1, <3>1 DEF ControlInv, Open, Resumes
    <3>3. LedgerInv(c)'
      BY <1>3, <2>1, <3>1
      DEF ControlInv, LedgerInv, InAdjust, Wrote, GotVotes, GotExpected, Returned
    <3> QED
      BY <3>2, <3>3
  <2>2. CASE fn[c] # "set_votes_and_adjust"
    <3>1. fn[c] # "none" /\ handles'[c] = handles[c] - (IF pc[c] = "request" THEN 1 ELSE 0)
      BY <1>3 DEF ControlInv, LocalType
    <3> QED
      BY <1>3, <2>2, <3>1, LeafReturn, LeafFails DEF Codes
  <2> QED
    BY <2>1, <2>2
<1> QED
  BY <1>1, <1>2, <1>3

\* A reader closes its connection; get_votes and get_expected_votes tell
\* set_votes_and_adjust what is in the ledger it started from.
LEMMA QueryInv ==
  ASSUME TypeOK, NEW c \in Clients, ControlInv(c), LedgerInv(c), Query(c)
  PROVE  ControlInv(c)' /\ LedgerInv(c)'
<1> USE DEF service, call, locals, history
<1>1. /\ fn[c] \notin {"none", "set_votes_and_adjust"}
      /\ handles'[c] = handles[c] - (IF pc[c] = "request" THEN 1 ELSE 0)
      /\ resume[c] # "expected_set" /\ pc[c] = "request"
  BY DEF Query, Readers, Finalize, ControlInv, TypeOK, LocalType
<1>2. CASE Return(c, "CS_ERR") /\ UNCHANGED locals
  BY <1>1, <1>2, LeafReturn, LeafFails DEF Query, Codes
<1>3. CASE /\ Asked(c) \in Nodes
           /\ cur_votes' = [cur_votes EXCEPT ![c] =
                IF fn[c] = "get_votes" THEN votes[node[c]] ELSE @]
           /\ expected_votes' = [expected_votes EXCEPT ![c] =
                IF fn[c] = "get_expected_votes" THEN expected ELSE @]
           /\ Return(c, "CS_OK")
  <2>1. ControlInv(c)'
    BY <1>1, <1>3, LeafReturn DEF Codes
  <2>2. /\ fn[c] = "get_votes" =>
             node[c] \in Nodes /\ cur_votes'[c] = votes[node[c]]
        /\ fn[c] = "get_expected_votes" =>
             cur_votes'[c] = cur_votes[c] /\ expected_votes'[c] = expected
    BY <1>3 DEF Asked, TypeOK, LocalType
  <2>3. LedgerInv(c)'
    <3>1. CASE resume[c] = "none"
      <4>1. fn'[c] = "none" /\ pc'[c] = "idle" /\ resume'[c] = "none"
            /\ result'[c] = [fn |-> fn[c], rc |-> "CS_OK"]
        BY <1>3, <3>1, ReturnAt
      <4> QED
        BY <1>1, <4>1
        DEF LedgerInv, InAdjust, Wrote, GotVotes, GotExpected, Returned
    <3>2. CASE resume[c] = "votes_read"
      <4>1. fn'[c] = "set_votes_and_adjust" /\ pc'[c] = "votes_read" /\ resume'[c] = "none"
        BY <1>3, <3>2, ReturnAt
      <4>2. fn[c] = "get_votes" /\ InAdjust(c) /\ ~Wrote(c)
        BY <1>1, <3>2 DEF ControlInv, InAdjust, Wrote
      <4> QED
        BY <2>2, <4>1, <4>2
        DEF Query, LedgerInv, InAdjust, Wrote, GotVotes, GotExpected, Returned, Idle
    <3>3. CASE resume[c] = "expected_read"
      <4>1. fn'[c] = "set_votes_and_adjust" /\ pc'[c] = "expected_read" /\ resume'[c] = "none"
        BY <1>3, <3>3, ReturnAt
      <4>2. fn[c] = "get_expected_votes" /\ InAdjust(c) /\ ~Wrote(c) /\ GotVotes(c)
        BY <1>1, <3>3 DEF ControlInv, InAdjust, Wrote, GotVotes
      <4> QED
        BY <2>2, <4>1, <4>2
        DEF Query, LedgerInv, InAdjust, Wrote, GotVotes, GotExpected, Returned, Idle
    <3> QED
      BY <1>1, <3>1, <3>2, <3>3 DEF TypeOK, ControlType, Resumes
  <2> QED
    BY <2>1, <2>3
<1> QED
  BY <1>2, <1>3 DEF Query

\* set_votes is only ever called by the API.
LEMMA SetVotesInv ==
  ASSUME TypeOK, NEW c \in Clients, ControlInv(c), LedgerInv(c), SetVotes(c)
  PROVE  ControlInv(c)' /\ LedgerInv(c)'
<1> USE DEF service, call, locals, history
<1>1. /\ fn[c] = "set_votes" /\ resume[c] = "none"
      /\ handles'[c] = handles[c] - (IF pc[c] = "request" THEN 1 ELSE 0)
  BY DEF SetVotes, Finalize, ControlInv, TypeOK, ControlType, LocalType, Resumes
<1>2. CASE Return(c, "CS_ERR") /\ UNCHANGED <<service, history>>
  BY <1>1, <1>2, LeafReturn, LeafFails DEF SetVotes, Codes
<1>3. CASE Return(c, "CS_OK")
  <2>1. ControlInv(c)'
    BY <1>1, <1>3, LeafReturn DEF Codes
  <2>2. fn'[c] = "none" /\ pc'[c] = "idle" /\ resume'[c] = "none"
        /\ result'[c] = [fn |-> "set_votes", rc |-> "CS_OK"]
    BY <1>1, <1>3, ReturnAt
  <2>3. LedgerInv(c)'
    BY <2>2 DEF LedgerInv, InAdjust, Wrote, GotVotes, GotExpected, Returned
  <2> QED
    BY <2>1, <2>3
<1> QED
  BY <1>2, <1>3 DEF SetVotes

\* set_expected_votes, when set_votes_and_adjust calls it, writes the target.
LEMMA SetExpectedVotesInv ==
  ASSUME TypeOK, NEW c \in Clients, ControlInv(c), LedgerInv(c), SetExpectedVotes(c)
  PROVE  ControlInv(c)' /\ LedgerInv(c)'
<1> USE DEF service, call, locals, history
<1>1. /\ fn[c] = "set_expected_votes" /\ resume[c] \in {"none", "expected_set"}
      /\ handles'[c] = handles[c] - (IF pc[c] = "request" THEN 1 ELSE 0)
      /\ pc[c] = "request"
  BY DEF SetExpectedVotes, Finalize, ControlInv, TypeOK, ControlType, LocalType, Resumes
<1>2. CASE Return(c, "CS_ERR") /\ UNCHANGED <<service, history>>
  BY <1>1, <1>2, LeafReturn, LeafFails DEF SetExpectedVotes, Codes
<1>3. CASE expected' = expected_votes[c] /\ Disturb(c) /\ Return(c, "CS_OK") /\ UNCHANGED votes
  <2>1. ControlInv(c)'
    BY <1>1, <1>3, LeafReturn DEF Codes
  <2>2. /\ clean'[c] => clean[c]
        /\ base'[c] = base[c]
        /\ node' = node /\ val' = val /\ expected_votes' = expected_votes
    BY <1>3 DEF SetExpectedVotes, Disturb
  <2>3. CASE resume[c] = "none"
    <3>1. fn'[c] = "none" /\ pc'[c] = "idle" /\ resume'[c] = "none"
          /\ result'[c] = [fn |-> fn[c], rc |-> "CS_OK"]
      BY <1>3, <2>3, ReturnAt
    <3>2. LedgerInv(c)'
      BY <1>1, <3>1 DEF LedgerInv, InAdjust, Wrote, GotVotes, GotExpected, Returned
    <3> QED
      BY <2>1, <3>2
  <2>4. CASE resume[c] = "expected_set"
    <3>1. fn'[c] = "set_votes_and_adjust" /\ pc'[c] = "expected_set" /\ resume'[c] = "none"
          /\ rc'[c] = "CS_OK"
      BY <1>3, <2>4, ReturnAt
    <3>2. Wrote(c)
      BY <2>4 DEF Wrote
    <3>3. LedgerInv(c)'
      BY <1>3, <2>2, <3>1, <3>2
      DEF LedgerInv, InAdjust, Wrote, GotVotes, GotExpected, Target, Returned, Idle
    <3> QED
      BY <2>1, <3>3
  <2> QED
    BY <1>1, <2>3, <2>4
<1> QED
  BY <1>2, <1>3 DEF SetExpectedVotes

\* Giving up before the write leaves the ledger as the call found it.
LEMMA AdjustAbandonInv ==
  ASSUME TypeOK, NEW c \in Clients, ControlInv(c), LedgerInv(c), AdjustAbandon(c)
  PROVE  ControlInv(c)' /\ LedgerInv(c)'
<1> USE DEF service, call, locals, history, AdjustAbandon
<1>1. fn[c] = "set_votes_and_adjust" /\ resume[c] = "none" /\ rc[c] = "CS_ERR"
  BY DEF ControlInv, Resumes, TypeOK, AnswerType, Codes
<1>2. fn'[c] = "none" /\ pc'[c] = "idle" /\ resume'[c] = "none"
      /\ result'[c] = [fn |-> "set_votes_and_adjust", rc |-> "CS_ERR"]
  BY <1>1, ReturnAt
<1>3. handles'[c] = 0
  BY <1>1 DEF Finalize, ControlInv, Open, TypeOK, LocalType
<1>4. ControlInv(c)'
  BY <1>2, <1>3 DEF ControlInv, Open, Resumes
<1>5. LedgerInv(c)'
  BY <1>1, <1>2
  DEF LedgerInv, InAdjust, Wrote, GotVotes, GotExpected, Target, Returned
<1> QED
  BY <1>4, <1>5

\* The second read starts from what the first one learned.
LEMMA AdjustGetExpectedInv ==
  ASSUME TypeOK, NEW c \in Clients, ControlInv(c), LedgerInv(c), AdjustGetExpected(c)
  PROVE  ControlInv(c)' /\ LedgerInv(c)'
<1> USE DEF service, call, locals, history, AdjustGetExpected
<1>1. fn[c] = "set_votes_and_adjust" /\ resume[c] = "none"
  BY DEF ControlInv, Resumes
<1>2. fn'[c] = "get_expected_votes" /\ pc'[c] = "locate" /\ resume'[c] = "expected_read"
  BY EnterAt DEF FirstStep
<1>3. ControlInv(c)'
  BY <1>1, <1>2 DEF ControlInv, Open, Resumes
<1>4. LedgerInv(c)'
  BY <1>1, <1>2
  DEF LedgerInv, InAdjust, Wrote, GotVotes, GotExpected, Target, Returned, Idle
<1> QED
  BY <1>3, <1>4

\* The write of the votes and the sum that follows it establish the target
\* of set_expected_votes; a refused write leaves the ledger alone.
LEMMA AdjustSetVotesInv ==
  ASSUME TypeOK, NEW c \in Clients, ControlInv(c), LedgerInv(c), AdjustSetVotes(c)
  PROVE  ControlInv(c)' /\ LedgerInv(c)'
<1> USE DEF service, call, locals, history
<1>1. /\ fn[c] = "set_votes_and_adjust" /\ resume[c] = "none"
      /\ pc[c] = "expected_read" /\ rc[c] = "CS_OK"
  BY DEF AdjustSetVotes, ControlInv, Resumes
<1>2. CASE WriteVotes(c)
           /\ expected_votes' = [expected_votes EXCEPT ![c] = NewExpected(c)]
           /\ Enter(c, "set_expected_votes", "expected_set")
           /\ UNCHANGED <<cur_votes, handles, rc, result>>
  <2>1. fn'[c] = "set_expected_votes" /\ pc'[c] = "locate" /\ resume'[c] = "expected_set"
    BY <1>2, EnterAt DEF FirstStep
  <2>2. ControlInv(c)'
    BY <1>1, <1>2, <2>1 DEF ControlInv, Open, Resumes
  <2>3. /\ clean'[c] => clean[c]
        /\ base'[c] = base[c]
        /\ node' = node /\ val' = val /\ expected' = expected
        /\ node[c] \in Nodes /\ votes'[node[c]] = val[c]
        /\ expected_votes'[c] = Wrap(expected_votes[c] + (val[c] - cur_votes[c]))
    BY <1>2 DEF AdjustSetVotes, NewExpected, WriteVotes, Disturb, TypeOK, LedgerType,
                LocalType
  <2>4. GotVotes(c) /\ GotExpected(c) /\ InAdjust(c) /\ ~Wrote(c)
    BY <1>1 DEF GotVotes, GotExpected, InAdjust, Wrote
  <2>5. clean'[c] =>
          /\ expected' = base'[c].expected
          /\ expected_votes'[c] = Wrap(base'[c].expected + (val'[c] - base'[c].votes))
    BY <2>3, <2>4 DEF LedgerInv
  <2>6. LedgerInv(c)'
    BY <2>1, <2>3, <2>5
    DEF LedgerInv, InAdjust, Wrote, GotVotes, GotExpected, Target, Returned, Idle
  <2> QED
    BY <2>2, <2>6
<1>3. CASE Finalize(c) /\ Return(c, "CS_ERR") /\ UNCHANGED <<service, locals, history>>
  <2>1. fn'[c] = "none" /\ pc'[c] = "idle" /\ resume'[c] = "none"
        /\ result'[c] = [fn |-> "set_votes_and_adjust", rc |-> "CS_ERR"]
    BY <1>1, <1>3, ReturnAt
  <2>2. handles'[c] = 0
    BY <1>1, <1>3 DEF Finalize, ControlInv, Open, TypeOK, LocalType
  <2>3. ControlInv(c)'
    BY <2>1, <2>2 DEF ControlInv, Open, Resumes
  <2>4. LedgerInv(c)'
    BY <1>1, <1>3, <2>1
    DEF AdjustSetVotes, LedgerInv, InAdjust, Wrote, GotVotes, GotExpected, Target, Returned
  <2> QED
    BY <2>3, <2>4
<1> QED
  BY <1>2, <1>3 DEF AdjustSetVotes

\* The return after the last request reports what that request did.
LEMMA AdjustFinishInv ==
  ASSUME TypeOK, NEW c \in Clients, ControlInv(c), LedgerInv(c), AdjustFinish(c)
  PROVE  ControlInv(c)' /\ LedgerInv(c)'
<1> USE DEF service, call, locals, history, AdjustFinish
<1>1. /\ fn[c] = "set_votes_and_adjust" /\ resume[c] = "none" /\ Wrote(c)
      /\ rc[c] \in {"CS_OK", "CS_ERR"}
  BY DEF ControlInv, Resumes, Wrote, TypeOK, AnswerType, Codes
<1>2. fn'[c] = "none" /\ pc'[c] = "idle" /\ resume'[c] = "none"
      /\ result'[c] = [fn |-> "set_votes_and_adjust", rc |-> rc[c]]
  BY <1>1, ReturnAt
<1>3. handles'[c] = 0
  BY <1>1 DEF Finalize, ControlInv, Open, TypeOK, LocalType
<1>4. ControlInv(c)'
  BY <1>2, <1>3 DEF ControlInv, Open, Resumes
<1>5. LedgerInv(c)'
  BY <1>1, <1>2
  DEF LedgerInv, InAdjust, Wrote, GotVotes, GotExpected, Target, Returned
<1> QED
  BY <1>4, <1>5

-----------------------------------------------------------------------------
(* The theorems                                                            *)

\* Every step of any process preserves every process's invariant.
LEMMA IInvStep ==
  ASSUME TypeOK, IInv, [Next]_vars
  PROVE  IInv'
<1>1. ASSUME NEW d \in Clients, NEW c \in Clients,
             \/ \E f \in Calls, n \in NodeIds, v \in VoteArgs : Call(d, f, n, v)
             \/ Step(d)
      PROVE  ControlInv(c)' /\ LedgerInv(c)'
  <2>1. ControlInv(c) /\ LedgerInv(c)
    BY DEF IInv
  <2>2. CASE c # d
    BY <1>1, <2>1, <2>2, Frame, FrameInv
  <2>3. CASE c = d
    BY <1>1, <2>1, <2>3, CallInv, GetLocalNodeidInv, InitializeInv, QueryInv,
       SetVotesInv, SetExpectedVotesInv, AdjustAbandonInv, AdjustGetExpectedInv,
       AdjustSetVotesInv, AdjustFinishInv
    DEF Step
  <2> QED
    BY <2>2, <2>3
<1>2. CASE UNCHANGED vars
  BY <1>2 DEF vars, IInv, ControlInv, LedgerInv, Open, InAdjust, Wrote, GotVotes,
              GotExpected, Target, Returned, Idle
<1> QED
  BY <1>1, <1>2 DEF Next, IInv

\* The inductive invariant holds in every reachable state.
THEOREM Inductive == Spec => []IInv
<1>1. Init => IInv
  <2> SUFFICES ASSUME Init, NEW c \in Clients
               PROVE  ControlInv(c) /\ LedgerInv(c)
    BY DEF IInv
  <2>1. /\ fn[c] = "none" /\ pc[c] = "idle" /\ resume[c] = "none"
        /\ handles[c] = 0 /\ result[c] = [fn |-> "none", rc |-> "CS_OK"]
    BY DEF Init
  <2>2. ControlInv(c)
    BY <2>1 DEF ControlInv, Open, Resumes
  <2>3. LedgerInv(c)
    BY <2>1 DEF LedgerInv, InAdjust, Wrote, GotVotes, GotExpected, Returned
  <2> QED
    BY <2>2, <2>3
<1>2. TypeOK /\ IInv /\ [Next]_vars => IInv'
  BY IInvStep
<1> QED
  BY <1>1, <1>2, TypeCorrect, PTL DEF Spec

\* No votequorum connection outlives the call that opened it, on any path.
THEOREM NoLeak == Spec => []NoHandleLeak
<1>1. IInv => NoHandleLeak
  BY DEF IInv, ControlInv, Open, NoHandleLeak, Idle
<1> QED
  BY <1>1, Inductive, PTL

\* set_votes_and_adjust, undisturbed and successful, moves expected votes by
\* exactly what it moved the node's votes by.
THEOREM AdjustCorrect == Spec => []AdjustExact
<1>1. IInv => AdjustExact
  BY DEF IInv, LedgerInv, AdjustExact, Target
<1> QED
  BY <1>1, Inductive, PTL

\* Undisturbed and unsuccessful, it has left expected votes alone.
THEOREM FootprintCorrect == Spec => []FailedAdjustFootprint
<1>1. IInv => FailedAdjustFootprint
  BY DEF IInv, LedgerInv, FailedAdjustFootprint
<1> QED
  BY <1>1, Inductive, PTL

-----------------------------------------------------------------------------
(* A process that is alone                                                 *)

\* Nobody disturbs it; the arguments of a call are those it was given; and once it
\* has written the votes it still holds the ones it read.
AloneInv ==
  LET c == Alone IN
  /\ clean[c]
  /\ fn[c] # "none" => val[c] \in VoteArgs
  /\ fn[c] = "set_expected_votes" /\ resume[c] = "none" => expected_votes[c] = val[c]
  /\ Wrote(c) => cur_votes[c] = base[c].votes

\* A function that returns keeps that.
LEMMA ReturnAlone ==
  ASSUME TypeOK, Alone \in Clients, AloneInv, NEW code, Return(Alone, code),
         val' = val, clean'[Alone], base'[Alone] = base[Alone],
         resume[Alone] = "expected_set" => cur_votes'[Alone] = cur_votes[Alone],
         fn[Alone] # "none"
  PROVE  AloneInv'
<1>1. CASE resume[Alone] = "none"
  <2>1. fn'[Alone] = "none" /\ pc'[Alone] = "idle" /\ resume'[Alone] = "none"
    BY <1>1, ReturnAt
  <2> QED
    BY <2>1 DEF AloneInv, Wrote
<1>2. CASE resume[Alone] # "none"
  <2>1. /\ fn'[Alone] = "set_votes_and_adjust" /\ pc'[Alone] = resume[Alone]
        /\ resume'[Alone] = "none"
    BY <1>2, ReturnAt
  <2> QED
    BY <2>1 DEF AloneInv, Wrote
<1> QED
  BY <1>1, <1>2

LEMMA AloneHolds ==
  ASSUME Clients = {Alone}, TypeOK, IInv, AloneInv, [Next]_vars
  PROVE  AloneInv'
<1> DEFINE c == Alone
<1> USE DEF service, call, locals, history
<1>1. c \in Clients /\ ControlInv(c) /\ LedgerInv(c) /\ clean[c]
  BY DEF IInv, AloneInv
<1>2. Disturb(c) => clean'[c] /\ base'[c] = base[c]
  BY <1>1 DEF Disturb
<1>3. ASSUME NEW f \in Calls, NEW n \in NodeIds, NEW v \in VoteArgs, Call(c, f, n, v)
      PROVE  AloneInv'
  <2>1. fn'[c] = f /\ pc'[c] = FirstStep(f) /\ resume'[c] = "none"
    BY <1>1, <1>3, EnterAt DEF Call
  <2>2. /\ clean'[c] /\ val'[c] = v
        /\ expected_votes'[c] = IF f = "set_expected_votes" THEN v ELSE 0
    BY <1>1, <1>3 DEF Call, TypeOK, LocalType, HistoryType
  <2>3. pc'[c] # "expected_set"
    BY <2>1 DEF FirstStep
  <2> QED
    BY <2>1, <2>2, <2>3 DEF AloneInv, Wrote
<1>4. CASE GetLocalNodeid(c)
  <2>1. CASE pc' = [pc EXCEPT ![c] = "open"] /\ UNCHANGED <<fn, resume, rc, result>>
    <3>1. pc'[c] = "open"
      BY <1>1, <2>1 DEF TypeOK, ControlType
    <3> QED
      BY <1>4, <2>1, <3>1 DEF GetLocalNodeid, AloneInv, Wrote
  <2>2. CASE Return(c, "CS_ERR")
    BY <1>1, <1>4, <2>2, ReturnAlone DEF GetLocalNodeid, ControlInv
  <2> QED
    BY <1>4, <2>1, <2>2 DEF GetLocalNodeid
<1>5. CASE Initialize(c)
  <2>1. CASE Enter(c, "get_votes", "votes_read") /\ fn[c] = "set_votes_and_adjust"
    <3>1. fn'[c] = "get_votes" /\ pc'[c] = "open" /\ resume'[c] = "votes_read"
      BY <1>1, <2>1, EnterAt DEF FirstStep
    <3> QED
      BY <1>5, <2>1, <3>1 DEF Initialize, AloneInv, Wrote
  <2>2. CASE pc' = [pc EXCEPT ![c] = "request"] /\ UNCHANGED <<fn, resume>>
    <3>1. pc'[c] = "request"
      BY <1>1, <2>2 DEF TypeOK, ControlType
    <3> QED
      BY <1>5, <2>2, <3>1 DEF Initialize, AloneInv, Wrote
  <2>3. CASE Return(c, "CS_ERR")
    BY <1>1, <1>5, <2>3, ReturnAlone DEF Initialize, ControlInv
  <2> QED
    BY <1>5, <2>1, <2>2, <2>3 DEF Initialize
<1>6. CASE Query(c)
  <2>1. fn[c] \in Readers /\ resume[c] # "expected_set"
    BY <1>1, <1>6 DEF Query, Readers, ControlInv
  <2>2. fn[c] # "none" /\ \E code : Return(c, code)
    BY <1>6, <2>1 DEF Query, Readers
  <2> QED
    BY <1>1, <1>6, <2>1, <2>2, ReturnAlone DEF Query
<1>7. CASE SetVotes(c)
  <2>1. /\ fn[c] # "none" /\ \E code : Return(c, code)
        /\ val' = val /\ clean'[c] /\ base'[c] = base[c] /\ cur_votes' = cur_votes
    BY <1>1, <1>2, <1>7 DEF SetVotes, WriteVotes
  <2> QED
    BY <1>1, <2>1, ReturnAlone
<1>8. CASE SetExpectedVotes(c)
  <2>1. /\ fn[c] # "none" /\ \E code : Return(c, code)
        /\ val' = val /\ clean'[c] /\ base'[c] = base[c] /\ cur_votes' = cur_votes
    BY <1>1, <1>2, <1>8 DEF SetExpectedVotes
  <2> QED
    BY <1>1, <2>1, ReturnAlone
<1>9. CASE AdjustAbandon(c) \/ AdjustFinish(c)
  <2>1. /\ fn[c] # "none" /\ \E code : Return(c, code)
        /\ val' = val /\ clean'[c] /\ base'[c] = base[c] /\ cur_votes' = cur_votes
    BY <1>1, <1>9 DEF AdjustAbandon, AdjustFinish, ControlInv
  <2> QED
    BY <1>1, <2>1, ReturnAlone
<1>10. CASE AdjustGetExpected(c)
  <2>1. fn'[c] = "get_expected_votes" /\ pc'[c] = "locate" /\ resume'[c] = "expected_read"
    BY <1>1, <1>10, EnterAt DEF AdjustGetExpected, FirstStep
  <2>2. fn[c] # "none"
    BY <1>1, <1>10 DEF AdjustGetExpected, ControlInv
  <2> QED
    BY <1>10, <2>1, <2>2 DEF AdjustGetExpected, AloneInv, Wrote
<1>11. CASE AdjustSetVotes(c)
  <2>1. pc[c] = "expected_read" /\ rc[c] = "CS_OK" /\ fn[c] = "set_votes_and_adjust"
    BY <1>1, <1>11 DEF AdjustSetVotes, ControlInv, Resumes
  <2>2. CASE WriteVotes(c) /\ Enter(c, "set_expected_votes", "expected_set")
             /\ UNCHANGED cur_votes
    <3>1. /\ fn'[c] = "set_expected_votes" /\ resume'[c] = "expected_set"
      BY <1>1, <2>2, EnterAt
    <3>2. cur_votes[c] = base[c].votes
      BY <1>1, <2>1 DEF LedgerInv, GotVotes
    <3>3. clean'[c] /\ base'[c] = base[c] /\ val' = val
      BY <1>2, <1>11, <2>2 DEF AdjustSetVotes, WriteVotes
    <3> QED
      BY <2>1, <2>2, <3>1, <3>2, <3>3 DEF AloneInv
  <2>3. CASE Return(c, "CS_ERR") /\ UNCHANGED <<service, locals, history>>
    BY <1>1, <1>11, <2>1, <2>3, ReturnAlone DEF AdjustSetVotes
  <2> QED
    BY <1>11, <2>2, <2>3 DEF AdjustSetVotes
<1>12. CASE UNCHANGED vars
  BY <1>12 DEF vars, AloneInv, Wrote
<1> QED
  BY <1>3, <1>4, <1>5, <1>6, <1>7, <1>8, <1>9, <1>10, <1>11, <1>12 DEF Next, Step

\* Between the requests of a nested call the settled ledger is as it was, and so it
\* is in a call that has not written yet.
LEMMA HalfDoneIs ==
  ASSUME Alone \in Clients, ControlInv(Alone)
  PROVE  HalfDone <=> Wrote(Alone)
  BY DEF HalfDone, Wrote, InAdjust, ControlInv, Resumes

\* What a call that returns to its caller leaves is settled.
LEMMA Settles ==
  ASSUME TypeOK, Alone \in Clients, NEW code, Return(Alone, code), resume[Alone] = "none"
  PROVE  /\ SettledVotes' = votes' /\ SettledExpected' = expected'
         /\ result'[Alone] = [fn |-> fn[Alone], rc |-> code]
<1>1. /\ fn'[Alone] = "none" /\ pc'[Alone] = "idle" /\ resume'[Alone] = "none"
      /\ result'[Alone] = [fn |-> fn[Alone], rc |-> code]
  BY ReturnAt
<1>2. ~HalfDone'
  BY <1>1 DEF HalfDone
<1> QED
  BY <1>1, <1>2 DEF SettledVotes, SettledExpected

\* A request of a call that was written, or will be, is no step of the ledger.
LEMMA Unsettled ==
  ASSUME HalfDone' <=> HalfDone, votes' = votes, node' = node,
         ~HalfDone => expected' = expected,
         HalfDone => cur_votes'[Alone] = cur_votes[Alone] /\ base'[Alone] = base[Alone]
  PROVE  SettledVotes' = SettledVotes /\ SettledExpected' = SettledExpected
<1>1. CASE HalfDone
  BY <1>1 DEF SettledVotes, SettledExpected
<1>2. CASE ~HalfDone
  BY <1>2 DEF SettledVotes, SettledExpected
<1> QED
  BY <1>1, <1>2

\* What a call returns to the set_votes_and_adjust that made it is not settled.
LEMMA ReturnsInside ==
  ASSUME TypeOK, Alone \in Clients, NEW code, Return(Alone, code), resume[Alone] # "none",
         ControlInv(Alone)
  PROVE  (HalfDone' <=> HalfDone) /\ result'[Alone] = result[Alone]
<1>1. /\ fn'[Alone] = "set_votes_and_adjust" /\ pc'[Alone] = resume[Alone]
      /\ resume'[Alone] = "none" /\ result'[Alone] = result[Alone]
  BY ReturnAt
<1>2. HalfDone <=> resume[Alone] = "expected_set"
  BY DEF HalfDone, InAdjust, ControlInv, Resumes
<1>3. HalfDone' <=> resume[Alone] = "expected_set"
  BY <1>1 DEF HalfDone, InAdjust
<1> QED
  BY <1>1, <1>2, <1>3

Quiet == /\ SettledVotes' = SettledVotes /\ SettledExpected' = SettledExpected
         /\ result'[Alone] = result[Alone]

\* A call that fails before its write, or only reads, leaves the ledger as it is.
LEMMA Refuses ==
  ASSUME TypeOK, Alone \in Clients, ControlInv(Alone), fn[Alone] # "none", ~HalfDone,
         Return(Alone, "CS_ERR"), resume[Alone] = "none", UNCHANGED service
  PROVE  Ledger!Next
<1>1. fn[Alone] \in Api
  BY DEF TypeOK, ControlType
<1>2. /\ SettledVotes' = SettledVotes /\ SettledExpected' = SettledExpected
      /\ result'[Alone] = [fn |-> fn[Alone], rc |-> "CS_ERR"]
  BY Settles DEF SettledVotes, SettledExpected, service
<1>3. Ledger!Answer(fn[Alone], "CS_ERR") /\ UNCHANGED Ledger!ledger
  BY <1>2 DEF Ledger!Answer, Ledger!ledger
<1>4. CASE fn[Alone] \in Readers
  BY <1>3, <1>4 DEF Ledger!Next, Ledger!Read
<1>5. CASE fn[Alone] \in {"set_votes", "set_expected_votes", "set_votes_and_adjust"}
  BY <1>3, <1>5 DEF Ledger!Next, Ledger!Refuse
<1> QED
  BY <1>1, <1>4, <1>5 DEF Api

LEMMA LeafImplements ==
  ASSUME Clients = {Alone}, TypeOK, IInv, AloneInv,
         \/ GetLocalNodeid(Alone) \/ Initialize(Alone) \/ Query(Alone)
         \/ SetVotes(Alone) \/ SetExpectedVotes(Alone)
  PROVE  Ledger!Next \/ Quiet
<1> DEFINE c == Alone
<1> USE DEF service, call, locals, history
<1>1. c \in Clients /\ ControlInv(c) /\ LedgerInv(c) /\ clean[c]
  BY DEF IInv, AloneInv
<1>2. HalfDone <=> Wrote(c)
  BY <1>1, HalfDoneIs
<1>3. ASSUME Return(c, "CS_ERR"), UNCHANGED <<service, call, cur_votes, history>>,
             fn[c] # "none", pc[c] # "expected_set"
      PROVE  Ledger!Next \/ Quiet
  <2>1. CASE resume[c] = "none"
    <3>1. ~HalfDone
      BY <1>2, <1>3, <2>1 DEF Wrote
    <3> QED
      BY <1>1, <1>3, <2>1, <3>1, Refuses
  <2>2. CASE resume[c] # "none"
    BY <1>1, <1>3, <2>2, ReturnsInside, Unsettled DEF Quiet
  <2> QED
    BY <2>1, <2>2
<1>4. CASE GetLocalNodeid(c)
  <2>1. CASE pc' = [pc EXCEPT ![c] = "open"] /\ UNCHANGED <<fn, resume, rc, result>>
    <3>1. pc'[c] = "open" /\ pc[c] = "locate"
      BY <1>1, <1>4, <2>1 DEF GetLocalNodeid, TypeOK, ControlType
    <3>2. HalfDone' <=> HalfDone
      BY <2>1, <3>1 DEF HalfDone, InAdjust
    <3> QED
      BY <1>4, <2>1, <3>2, Unsettled DEF GetLocalNodeid, Quiet
  <2>2. CASE Return(c, "CS_ERR")
    BY <1>1, <1>3, <1>4, <2>2 DEF GetLocalNodeid, ControlInv
  <2> QED
    BY <1>4, <2>1, <2>2 DEF GetLocalNodeid
<1>5. CASE Initialize(c)
  <2>1. CASE Enter(c, "get_votes", "votes_read") /\ fn[c] = "set_votes_and_adjust"
             /\ UNCHANGED <<rc, result>>
    <3>1. fn'[c] = "get_votes" /\ pc'[c] = "open" /\ resume'[c] = "votes_read"
      BY <1>1, <2>1, EnterAt DEF FirstStep
    <3>2. pc[c] = "open" /\ resume[c] = "none"
      BY <1>1, <1>5, <2>1 DEF Initialize, ControlInv
    <3>3. HalfDone' <=> HalfDone
      BY <3>1, <3>2 DEF HalfDone
    <3> QED
      BY <1>5, <2>1, <3>3, Unsettled DEF Initialize, Quiet
  <2>2. CASE pc' = [pc EXCEPT ![c] = "request"] /\ UNCHANGED <<fn, resume, rc, result>>
    <3>1. pc'[c] = "request" /\ pc[c] = "open"
      BY <1>1, <1>5, <2>2 DEF Initialize, TypeOK, ControlType
    <3>2. HalfDone' <=> HalfDone
      BY <2>2, <3>1 DEF HalfDone, InAdjust
    <3> QED
      BY <1>5, <2>2, <3>2, Unsettled DEF Initialize, Quiet
  <2>3. CASE Return(c, "CS_ERR")
    BY <1>1, <1>3, <1>5, <2>3 DEF Initialize, ControlInv
  <2> QED
    BY <1>5, <2>1, <2>2, <2>3 DEF Initialize
<1>6. CASE Query(c)
  <2>1. /\ fn[c] \in Readers /\ fn[c] # "none" /\ resume[c] # "expected_set"
        /\ pc[c] = "request" /\ UNCHANGED <<service, call, history>>
    BY <1>1, <1>6 DEF Query, Readers, ControlInv
  <2>2. ~HalfDone
    BY <1>2, <2>1 DEF Wrote
  <2>3. PICK code \in {"CS_OK", "CS_ERR"} : Return(c, code)
    BY <1>6 DEF Query
  <2>4. CASE resume[c] = "none"
    <3>1. /\ SettledVotes' = SettledVotes /\ SettledExpected' = SettledExpected
          /\ result'[c] = [fn |-> fn[c], rc |-> code]
      BY <1>1, <2>1, <2>2, <2>3, <2>4, Settles DEF SettledVotes, SettledExpected
    <3> QED
      BY <2>1, <3>1 DEF Ledger!Next, Ledger!Read, Ledger!Answer, Ledger!ledger
  <2>5. CASE resume[c] # "none"
    BY <1>1, <2>1, <2>2, <2>3, <2>5, ReturnsInside, Unsettled DEF Quiet
  <2> QED
    BY <2>4, <2>5
<1>7. CASE SetVotes(c)
  <2>1. /\ fn[c] = "set_votes" /\ resume[c] = "none" /\ pc[c] = "request" /\ ~HalfDone
        /\ val[c] \in VoteArgs
    BY <1>1, <1>2, <1>7
    DEF SetVotes, ControlInv, TypeOK, ControlType, Resumes, Wrote, AloneInv
  <2>2. CASE WriteVotes(c) /\ Return(c, "CS_OK")
    <3>1. /\ SettledVotes' = votes' /\ SettledExpected' = expected'
          /\ SettledVotes = votes /\ SettledExpected = expected
          /\ result'[c] = [fn |-> "set_votes", rc |-> "CS_OK"]
      BY <1>1, <2>1, <2>2, Settles DEF SettledVotes, SettledExpected
    <3>2. Ledger!SetVotes(node[c], val[c])
      BY <2>2, <3>1 DEF WriteVotes, Ledger!SetVotes, Ledger!Answer
    <3> QED
      BY <2>1, <2>2, <3>2 DEF WriteVotes, Ledger!Next
  <2>3. CASE Return(c, "CS_ERR") /\ UNCHANGED <<service, history>>
    BY <1>3, <1>7, <2>1, <2>3 DEF SetVotes
  <2> QED
    BY <1>7, <2>2, <2>3 DEF SetVotes
<1>8. CASE SetExpectedVotes(c)
  <2>1. /\ fn[c] = "set_expected_votes" /\ pc[c] = "request"
        /\ resume[c] \in {"none", "expected_set"}
    BY <1>1, <1>8 DEF SetExpectedVotes, ControlInv, TypeOK, ControlType, Resumes
  <2>2. CASE /\ expected' = expected_votes[c] /\ Disturb(c) /\ Return(c, "CS_OK")
             /\ UNCHANGED <<votes, call, locals>>
    <3>1. CASE resume[c] = "none"
      <4>1. ~HalfDone /\ expected_votes[c] \in VoteArgs
        BY <1>2, <2>1, <3>1 DEF Wrote, AloneInv
      <4>2. /\ SettledVotes' = votes' /\ SettledExpected' = expected'
            /\ SettledVotes = votes /\ SettledExpected = expected
            /\ result'[c] = [fn |-> "set_expected_votes", rc |-> "CS_OK"]
        BY <1>1, <2>1, <2>2, <3>1, <4>1, Settles DEF SettledVotes, SettledExpected
      <4> QED
        BY <2>2, <4>1, <4>2 DEF Ledger!SetExpected, Ledger!Answer, Ledger!Next
    <3>2. CASE resume[c] = "expected_set"
      <4>1. HalfDone /\ base'[c] = base[c]
        BY <1>1, <1>2, <2>2, <3>2 DEF Wrote, Disturb
      <4> QED
        BY <1>1, <2>2, <3>2, <4>1, ReturnsInside, Unsettled DEF Quiet
    <3> QED
      BY <2>1, <3>1, <3>2
  <2>3. CASE Return(c, "CS_ERR") /\ UNCHANGED <<service, history>>
    BY <1>3, <1>8, <2>1, <2>3 DEF SetExpectedVotes
  <2> QED
    BY <1>8, <2>2, <2>3 DEF SetExpectedVotes
<1> QED
  BY <1>4, <1>5, <1>6, <1>7, <1>8

\* set_votes_and_adjust takes effect when it returns: then its two writes are seen as one.
LEMMA AdjustImplements ==
  ASSUME Clients = {Alone}, TypeOK, IInv, AloneInv,
         \/ AdjustAbandon(Alone) \/ AdjustGetExpected(Alone)
         \/ AdjustSetVotes(Alone) \/ AdjustFinish(Alone)
  PROVE  Ledger!Next \/ Quiet
<1> DEFINE c == Alone
<1> USE DEF service, call, locals, history
<1>1. c \in Clients /\ ControlInv(c) /\ LedgerInv(c) /\ clean[c]
  BY DEF IInv, AloneInv
<1>2. HalfDone <=> Wrote(c)
  BY <1>1, HalfDoneIs
<1>3. CASE AdjustAbandon(c)
  <2>1. /\ fn[c] = "set_votes_and_adjust" /\ resume[c] = "none" /\ rc[c] = "CS_ERR"
        /\ pc[c] # "expected_set" /\ UNCHANGED service /\ Return(c, "CS_ERR")
    BY <1>1, <1>3 DEF AdjustAbandon, ControlInv, Resumes, TypeOK, AnswerType, Codes
  <2>2. ~HalfDone
    BY <1>2, <2>1 DEF Wrote
  <2> QED
    BY <1>1, <2>1, <2>2, Refuses
<1>4. CASE AdjustGetExpected(c)
  <2>1. fn'[c] = "get_expected_votes" /\ pc'[c] = "locate" /\ resume'[c] = "expected_read"
    BY <1>1, <1>4, EnterAt DEF AdjustGetExpected, FirstStep
  <2>2. pc[c] = "votes_read" /\ resume[c] = "none"
    BY <1>1, <1>4 DEF AdjustGetExpected, ControlInv, Resumes
  <2>3. HalfDone' <=> HalfDone
    BY <2>1, <2>2 DEF HalfDone
  <2> QED
    BY <1>4, <2>3, Unsettled DEF AdjustGetExpected, Quiet
<1>5. CASE AdjustSetVotes(c)
  <2>1. /\ fn[c] = "set_votes_and_adjust" /\ resume[c] = "none" /\ pc[c] = "expected_read"
        /\ rc[c] = "CS_OK" /\ node' = node
    BY <1>1, <1>5 DEF AdjustSetVotes, ControlInv, Resumes
  <2>2. ~HalfDone
    BY <1>2, <2>1 DEF Wrote
  <2>3. CASE /\ WriteVotes(c) /\ Enter(c, "set_expected_votes", "expected_set")
             /\ UNCHANGED <<cur_votes, handles, rc, result>>
    <3>1. /\ fn'[c] = "set_expected_votes" /\ resume'[c] = "expected_set"
      BY <1>1, <2>3, EnterAt
    <3>2. HalfDone'
      BY <3>1 DEF HalfDone, InAdjust
    <3>3. /\ node[c] \in Nodes /\ votes[node[c]] = base[c].votes
          /\ cur_votes[c] = base[c].votes /\ expected = base[c].expected
      BY <1>1, <1>2, <2>1, <2>2 DEF LedgerInv, InAdjust, GotVotes
    <3>4. /\ votes' = [votes EXCEPT ![node[c]] = val[c]] /\ base'[c] = base[c]
      BY <1>1, <2>3 DEF WriteVotes, Disturb
    <3>5. [votes' EXCEPT ![node[c]] = cur_votes[c]] = votes
      BY <3>3, <3>4 DEF TypeOK, LedgerType
    <3>6. SettledVotes' = votes /\ SettledExpected' = expected
      BY <2>1, <2>3, <3>2, <3>3, <3>4, <3>5 DEF SettledVotes, SettledExpected
    <3> QED
      BY <2>2, <2>3, <3>6 DEF Quiet, SettledVotes, SettledExpected
  <2>4. CASE Return(c, "CS_ERR") /\ UNCHANGED <<service, locals, history>>
    BY <1>1, <2>1, <2>2, <2>4, Refuses
  <2> QED
    BY <1>5, <2>3, <2>4 DEF AdjustSetVotes
<1>6. CASE AdjustFinish(c)
  <2>1. /\ fn[c] = "set_votes_and_adjust" /\ resume[c] = "none" /\ Wrote(c)
        /\ pc[c] = "expected_set" /\ Return(c, rc[c]) /\ rc[c] \in {"CS_OK", "CS_ERR"}
        /\ votes' = votes /\ expected' = expected
    BY <1>1, <1>6 DEF AdjustFinish, ControlInv, Resumes, Wrote, TypeOK, AnswerType, Codes
  <2> DEFINE n == node[c]
             v == val[c]
  <2>2. /\ SettledVotes = [votes EXCEPT ![n] = cur_votes[c]]
        /\ SettledExpected = base[c].expected
    BY <1>2, <2>1 DEF SettledVotes, SettledExpected
  <2>3. /\ n \in Nodes /\ votes[n] = v /\ cur_votes[c] = base[c].votes /\ v \in VoteArgs
        /\ expected = IF rc[c] = "CS_OK" THEN Wrap(base[c].expected + (v - base[c].votes))
                      ELSE base[c].expected
    BY <1>1, <2>1 DEF LedgerInv, AloneInv, Target
  <2>4. /\ SettledVotes' = votes /\ SettledExpected' = expected
        /\ result'[c] = [fn |-> "set_votes_and_adjust", rc |-> rc[c]]
    BY <1>1, <2>1, Settles
  <2>5. SettledVotes[n] = base[c].votes /\ SettledVotes' = [SettledVotes EXCEPT ![n] = v]
    BY <2>2, <2>3, <2>4 DEF TypeOK, LedgerType
  <2>6. CASE rc[c] = "CS_OK"
    <3>1. SettledExpected' = (SettledExpected + (v - SettledVotes[n])) % Modulus
      BY <2>2, <2>3, <2>4, <2>5, <2>6 DEF Wrap
    <3>2. Ledger!SetVotesAndAdjust(n, v)
      BY <2>4, <2>5, <2>6, <3>1 DEF Ledger!SetVotesAndAdjust, Ledger!Answer
    <3> QED
      BY <2>3, <3>2 DEF Ledger!Next
  <2>7. CASE rc[c] = "CS_ERR"
    <3>1. Ledger!AdjustStopsHalfWay(n, v)
      BY <2>2, <2>3, <2>4, <2>5, <2>7 DEF Ledger!AdjustStopsHalfWay, Ledger!Answer
    <3> QED
      BY <2>3, <3>1 DEF Ledger!Next
  <2> QED
    BY <2>1, <2>6, <2>7
<1> QED
  BY <1>3, <1>4, <1>5, <1>6

\* To a process that is alone every call is one step of QuorumLedger, taken when it
\* returns: no caller can see the time between the two writes of set_votes_and_adjust.
THEOREM Implements == ASSUME Clients = {Alone} PROVE Spec => LedgerSpec
<1> USE DEF service, call, locals, history
<1>1. Init => Ledger!Init /\ AloneInv
  <2> SUFFICES ASSUME Init PROVE Ledger!Init /\ AloneInv
    OBVIOUS
  <2>1. /\ Alone \in Clients /\ fn[Alone] = "none" /\ pc[Alone] = "idle"
        /\ resume[Alone] = "none" /\ result[Alone] = [fn |-> "none", rc |-> "CS_OK"]
        /\ clean[Alone]
    BY DEF Init
  <2>2. ~HalfDone
    BY <2>1 DEF HalfDone
  <2> QED
    BY <2>1, <2>2 DEF Init, Ledger!Init, SettledVotes, SettledExpected, AloneInv, Wrote
<1>2. TypeOK /\ IInv /\ AloneInv /\ [Next]_vars => AloneInv'
  BY AloneHolds
<1>3. TypeOK /\ IInv /\ AloneInv /\ [Next]_vars =>
        [Ledger!Next]_<<Ledger!ledger, result[Alone]>>
  <2> SUFFICES ASSUME TypeOK, IInv, AloneInv, [Next]_vars PROVE Ledger!Next \/ Quiet
    BY DEF Quiet, Ledger!ledger
  <2>1. ASSUME NEW f \in Calls, NEW n \in NodeIds, NEW v \in VoteArgs, Call(Alone, f, n, v)
        PROVE  Quiet
    <3>1. ControlInv(Alone) /\ fn[Alone] = "none"
      BY <2>1 DEF IInv, Call
    <3>2. ~HalfDone
      BY <3>1 DEF HalfDone, InAdjust, ControlInv
    <3>3. /\ pc'[Alone] = FirstStep(f) /\ resume'[Alone] = "none"
      BY <2>1, EnterAt DEF Call
    <3>4. ~HalfDone'
      BY <3>3 DEF HalfDone, FirstStep
    <3> QED
      BY <2>1, <3>2, <3>4 DEF Call, Quiet, SettledVotes, SettledExpected
  <2>2. CASE Step(Alone)
    BY <2>2, LeafImplements, AdjustImplements DEF Step
  <2>3. CASE UNCHANGED vars
    BY <2>3 DEF vars, Quiet, SettledVotes, SettledExpected, HalfDone, InAdjust
  <2> QED
    BY <2>1, <2>2, <2>3 DEF Next
<1> QED
  BY <1>1, <1>2, <1>3, TypeCorrect, Inductive, PTL DEF Spec, LedgerSpec, Ledger!Spec
=============================================================================
