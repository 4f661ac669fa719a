--------------------------- MODULE MonitorProofs ----------------------------
(***************************************************************************)
(* Theorems about Monitor: whatever is refused and however the membership  *)
(* changes, monitor_status closes what it opened, waits only for what it   *)
(* asked to be told, and what is on the screen is current when it waits.   *)
(***************************************************************************)
EXTENDS Monitor, TLAPS

Loop == {"dispatch", "print_quorum", "print_membership"}

\* A connection to votequorum is there only where votequorum is the provider.
UsesVotequorum == provider = "corosync_votequorum" /\ q_type = "QUORUM_SET"

\* What is open and tracked at each step.
ConnectionInv ==
  /\ pc = "idle" => open = {}
  /\ pc \notin {"idle", "cmap", "quorum"} => "quorum" \in open
  /\ pc \in {"votequorum", "nodeid"} \/ "votequorum" \in open => UsesVotequorum
  /\ pc \in Loop /\ "votequorum" \in open => "votequorum" \in tracking
  /\ pc \in {"print_quorum", "print_membership"} => "votequorum" \in open

\* votequorum is at most one change behind cmap, and has queued a notification
\* at most for each change.
ClusterInv ==
  /\ members \in ring .. ring + 1 /\ members <= MaxRing
  /\ queue <= ring

\* Before the loop nothing is shown; in it, what is shown is older than the
\* last change only while a notification is queued or being handled.
ScreenInv ==
  /\ pc \notin Loop \cup {"idle"} => shown_ring = Never
  /\ pc = "dispatch" /\ shown_ring # Never => "votequorum" \in open
  /\ pc \in {"dispatch", "print_membership"} /\ shown_ring # Never =>
       shown_ring = ring \/ queue > 0
  /\ pc = "dispatch" /\ shown_ring # Never /\ ~missed => shown_members >= shown_ring
  /\ shown_ring <= ring

IInv == TypeOK /\ ConnectionInv /\ ClusterInv /\ ScreenInv

-----------------------------------------------------------------------------
(* Each kind of step keeps the invariant.                                  *)

\* monitor_status begins or returns: nothing is open afterwards.
LEMMA ReturnStep ==
  ASSUME IInv, NEW code \in {"-1", "CS_OK"}, Return(code),
         UNCHANGED <<config, cluster, shown>>
  PROVE  IInv'
<1>1. TypeOK'
  BY MonitorAssumption DEF IInv, TypeOK, CountType, ClusterInv, Return, close_all, config, cluster, shown,
     Connections, Steps
<1>2. open' = {}
  BY DEF IInv, TypeOK, CountType, Return, close_all, Connections
<1>3. ConnectionInv'
  BY <1>2 DEF ConnectionInv, Return, UsesVotequorum, Loop
<1>4. ClusterInv'
  BY DEF IInv, TypeOK, CountType, ClusterInv, Return, close_all, cluster
<1>5. ScreenInv'
  BY DEF IInv, ScreenInv, Return, Loop, cluster, shown
<1> QED
  BY <1>1, <1>3, <1>4, <1>5 DEF IInv

\* A step of init_all that succeeds.
LEMMA InitStep ==
  ASSUME IInv,
         \/ Initialize("cmap", "quorum")
         \/ Initialize("quorum", "cfg")
         \/ Initialize("cfg", "type")
         \/ CheckProvider
         \/ InitVotequorum
         \/ GetNodeid
         \/ EnterLoop
         \/ TrackQuorum
         \/ CheckProviderAgain
         \/ TrackVotequorum,
         pc' # "idle"
  PROVE  IInv'
<1> USE DEF Initialize, CheckProvider, InitVotequorum, GetNodeid, EnterLoop, TrackQuorum,
        CheckProviderAgain, TrackVotequorum, Goto, Open, Track, InitFails, LoopEnds, Return
<1>1. UNCHANGED <<config, cluster, shown>> /\ queue' = queue
  OBVIOUS
<1>2. TypeOK'
  BY <1>1 DEF IInv, TypeOK, CountType, ConnectionInv, config, cluster, shown, Connections, Steps
<1>3. ConnectionInv'
  BY <1>1 DEF IInv, TypeOK, CountType, ConnectionInv, config, using_votequorum, IsTrue, UsesVotequorum,
     Loop, Connections
<1>4. ClusterInv'
  BY <1>1 DEF IInv, ClusterInv, cluster
<1>5. ScreenInv'
  BY <1>1 DEF IInv, ScreenInv, shown, cluster, Loop
<1> QED
  BY <1>2, <1>3, <1>4, <1>5 DEF IInv

\* The loop takes a notification and prints.
LEMMA LoopStep ==
  ASSUME IInv, Dispatch \/ PrintQuorum \/ PrintMembership, pc' # "idle"
  PROVE  IInv'
<1> USE DEF Dispatch, DispatchOne, PrintQuorum, PrintQuorumFails, PrintMembership, Goto,
        LoopEnds, Return
<1>1. UNCHANGED <<config, cluster, open, tracking, rc>>
  OBVIOUS
<1>2. TypeOK'
  <2>1. CountType'
    BY <1>1, MonitorAssumption DEF IInv, TypeOK, CountType, ClusterInv, config, cluster, shown
  <2>2. node_one' \in BOOLEAN /\ missed' \in BOOLEAN
    BY <1>1, Zenon DEF IInv, TypeOK, config, cluster, shown
  <2>3. pc' \in Steps /\ rc' = rc
    BY <1>1 DEF IInv, TypeOK, Steps, config, cluster, shown
  <2> QED
    BY <1>1, <2>1, <2>2, <2>3 DEF IInv, TypeOK, config, cluster, shown
<1>3. ConnectionInv'
  BY <1>1 DEF IInv, ConnectionInv, config, UsesVotequorum, Loop
<1>4. ClusterInv'
  BY <1>1 DEF IInv, TypeOK, CountType, ClusterInv, cluster
<1>5. ScreenInv'
  <2> USE DEF IInv, TypeOK, CountType, ConnectionInv, ClusterInv, ScreenInv, cluster, shown, Loop, Never
  <2>1. CASE Dispatch
    BY <2>1, <1>1
  <2>2. CASE PrintQuorum
    BY <2>2, <1>1
  <2>3. CASE PrintMembership
    <3>1. missed' \/ shown_members' = members
      BY <2>3, Zenon DEF PrintMembership
    <3> QED
      BY <2>3, <3>1, <1>1
  <2> QED
    BY <2>1, <2>2, <2>3
<1> QED
  BY <1>2, <1>3, <1>4, <1>5 DEF IInv

\* The steps that end a run of the monitor are those of ReturnStep.
LEMMA StepToIdle ==
  ASSUME IInv, Step, pc' = "idle"
  PROVE  (\E code \in {"-1", "CS_OK"} : Return(code)) /\ UNCHANGED <<config, cluster, shown>>
  BY DEF Step, Initialize, CheckProvider, InitVotequorum, GetNodeid, EnterLoop, TrackQuorum,
     CheckProviderAgain, TrackVotequorum, Dispatch, PrintQuorum, PrintQuorumFails,
     PrintMembership, Goto, InitFails, LoopEnds, shown

\* Another run of the monitor begins.
LEMMA StartStep ==
  ASSUME IInv, Start
  PROVE  IInv'
<1>1. /\ pc' = "cmap" /\ pc = "idle" /\ rc' = "none"
      /\ shown_ring' = Never /\ shown_members' = Never /\ missed' = FALSE
      /\ UNCHANGED <<config, cluster, open, tracking, queue>>
  BY DEF Start
<1>2. TypeOK'
  BY <1>1 DEF IInv, TypeOK, CountType, config, cluster, Steps, Never
<1>3. ConnectionInv'
  BY <1>1 DEF IInv, ConnectionInv, config, UsesVotequorum, Loop
<1>4. ClusterInv'
  BY <1>1 DEF IInv, ClusterInv, cluster
<1>5. ScreenInv'
  BY <1>1, MonitorAssumption DEF IInv, TypeOK, CountType, ScreenInv, cluster, Loop, Never
<1> QED
  BY <1>2, <1>3, <1>4, <1>5 DEF IInv

\* The cluster changes: cmap shows it, or votequorum notifies it.
LEMMA ClusterStep ==
  ASSUME IInv, Change \/ Notify
  PROVE  IInv'
<1>1. UNCHANGED <<config, pc, open, tracking, shown, rc>>
  BY DEF Change, Notify
<1>2. \/ /\ members = ring /\ members < MaxRing /\ members' = members + 1
         /\ ring' = ring /\ queue' = queue
      \/ /\ ring < members /\ members' = members /\ ring' = members
         /\ queue' = IF "votequorum" \in tracking THEN queue + 1 ELSE queue
  BY Zenon DEF Change, Notify
<1>3. node_one' \in BOOLEAN
  BY Zenon DEF Change, Notify, IInv, TypeOK
<1>4. TypeOK'
  <2>1. CountType'
    BY <1>1, <1>2, MonitorAssumption DEF IInv, TypeOK, CountType, ClusterInv, shown
  <2> QED
    BY <1>1, <1>3, <2>1 DEF IInv, TypeOK, config, shown
<1>5. ConnectionInv'
  BY <1>1 DEF IInv, ConnectionInv, config, UsesVotequorum
<1>6. ClusterInv'
  BY <1>2, MonitorAssumption DEF IInv, TypeOK, CountType, ClusterInv
<1>7. ScreenInv'
  BY <1>1, <1>2 DEF IInv, TypeOK, CountType, ConnectionInv, ClusterInv, ScreenInv, shown, Loop, Never
<1> QED
  BY <1>4, <1>5, <1>6, <1>7 DEF IInv

-----------------------------------------------------------------------------
(* The theorems                                                            *)

\* The invariant holds at the start and is kept by every step.
THEOREM Inductive == Spec => []IInv
<1>1. Init => IInv
  <2> SUFFICES ASSUME Init PROVE IInv
    OBVIOUS
  <2>1. CountType
    BY MonitorAssumption DEF Init, CountType, Never
  <2>2. node_one \in BOOLEAN /\ missed \in BOOLEAN
    BY Zenon DEF Init
  <2>3. TypeOK
    BY <2>1, <2>2 DEF Init, TypeOK, Steps
  <2>4. ConnectionInv /\ ClusterInv /\ ScreenInv
    BY MonitorAssumption DEF Init, ConnectionInv, ClusterInv, ScreenInv, Loop, Never
  <2> QED
    BY <2>3, <2>4 DEF IInv
<1>2. IInv /\ [Next]_vars => IInv'
  <2> SUFFICES ASSUME IInv, [Next]_vars PROVE IInv'
    OBVIOUS
  <2>1. CASE Step /\ pc' = "idle"
    BY <2>1, StepToIdle, ReturnStep
  <2>2. CASE Step /\ pc' # "idle"
    BY <2>2, InitStep, LoopStep DEF Step
  <2>3. CASE Start
    BY <2>3, StartStep
  <2>4. CASE Change \/ Notify
    BY <2>4, ClusterStep
  <2>5. CASE UNCHANGED vars
    BY <2>5, Zenon DEF vars, config, cluster, shown, IInv, TypeOK, CountType, ConnectionInv,
       ClusterInv, ScreenInv, UsesVotequorum
  <2> QED
    BY <2>1, <2>2, <2>3, <2>4, <2>5 DEF Next
<1> QED
  BY <1>1, <1>2, PTL DEF Spec

\* Every reachable state is typed; in particular no notification is taken that
\* was not queued, and only open connections track changes.
THEOREM TypeCorrect == Spec => []TypeOK
  BY Inductive, PTL DEF IInv

\* Wherever init_all or the loop fails, monitor_status has closed everything.
THEOREM ClosesAll == Spec => []NothingLeftOpen
<1>1. IInv => NothingLeftOpen
  BY DEF IInv, ConnectionInv, NothingLeftOpen
<1> QED
  BY <1>1, Inductive, PTL

\* The loop waits only on a connection that tracks changes, whatever the two
\* calls of using_votequorum answered.
THEOREM WaitsTracked == Spec => []NeverWaitsUntracked
<1>1. IInv => NeverWaitsUntracked
  BY DEF IInv, ConnectionInv, NeverWaitsUntracked, Loop
<1> QED
  BY <1>1, Inductive, PTL

\* When the monitor waits with nothing queued, the screen shows the cluster as
\* votequorum knows it, for any number of changes.
THEOREM ScreenCurrent == Spec => []ShownIsCurrent
<1>1. IInv => ShownIsCurrent
  BY DEF IInv, TypeOK, CountType, ScreenInv, ShownIsCurrent, Never
<1> QED
  BY <1>1, Inductive, PTL
=============================================================================
