------------------------------ MODULE Monitor -------------------------------
(***************************************************************************)
(* monitor.c: ctc -m quorum opens four connections, asks to be told of     *)
(* membership changes and prints quorum and membership at each of them.    *)
(*                                                                         *)
(* A membership change shows in cmap first; then votequorum takes it over  *)
(* and queues a notification on every votequorum connection that tracks    *)
(* changes.  Changes are numbered: ring is the last one votequorum knows   *)
(* of.  print_quorum and print_membership are one step each.  The loop     *)
(* never dispatches the quorum connection, so its notifications and        *)
(* quorum_notification_fn have no effect and are left out.                 *)
(***************************************************************************)
EXTENDS Integers

CONSTANTS
  MaxRing,  \* bound: membership changes
  MayFail   \* may the services refuse requests?

ASSUME MonitorAssumption == MaxRing \in Nat /\ MayFail \in BOOLEAN

Connections == {"cmap", "quorum", "cfg", "votequorum"}

VARIABLES
  provider, q_type,  \* configuration: quorum.provider, the type of quorum
  members, ring,     \* last change in cmap, in votequorum
  node_one,          \* does votequorum know a node 1?
  pc,
  open, tracking,    \* connections open, those that track changes
  queue,             \* notifications waiting on the votequorum connection
  shown_ring,        \* ring when print_quorum last printed, Never before
  shown_members,     \* members when print_membership last printed
  missed,            \* did the last print_membership fail?
  rc                 \* code of the completed monitor_status

config == <<provider, q_type>>
cluster == <<members, ring, node_one>>
shown == <<shown_ring, shown_members, missed>>
vars == <<config, cluster, pc, open, tracking, queue, shown, rc>>

Never == -1

Steps == {"idle", "cmap", "quorum", "cfg", "type", "votequorum", "nodeid", "loop",
          "track_quorum", "type_again", "track", "dispatch", "print_quorum",
          "print_membership"}

-----------------------------------------------------------------------------
Init ==
  /\ provider \in {"corosync_votequorum", "other"}
  /\ q_type \in {"QUORUM_FREE", "QUORUM_SET"}
  /\ members = 0 /\ ring = 0
  /\ node_one \in BOOLEAN
  /\ pc = "idle"
  /\ open = {} /\ tracking = {} /\ queue = 0
  /\ shown_ring = Never /\ shown_members = Never /\ missed = FALSE
  /\ rc = "none"

\* monitor_status is called once in a run of ctc.
Start ==
  /\ pc = "idle"
  /\ pc' = "cmap"
  /\ shown_ring' = Never /\ shown_members' = Never /\ missed' = FALSE
  /\ rc' = "none"
  /\ UNCHANGED <<config, cluster, open, tracking, queue>>

Goto(step) == pc' = step /\ UNCHANGED rc

Open(connection) ==
  open' = open \cup {connection} /\ UNCHANGED <<tracking, queue>>

\* Fault: the votequorum connection is forgotten.
close_all_but_votequorum ==
  /\ open' = open \ {"cmap", "quorum", "cfg"}
  /\ tracking' = tracking \cap open'
  /\ UNCHANGED queue

\* Every connection with a handle is finalized, and its notifications go.
close_all ==
  /\ open' = open \ {"cmap", "quorum", "cfg", "votequorum"}
  /\ tracking' = tracking \cap open'
  /\ queue' = 0

Return(code) == pc' = "idle" /\ rc' = code /\ close_all

\* init_all returns -1: monitor_status closes everything and returns -1.
InitFails == Return("-1")

\* monitor_loop returns, always with an error: monitor_status returns CS_OK.
LoopEnds == Return("CS_OK")

\* What using_votequorum may return: -1 also if there is no quorum or the
\* provider cannot be read.
using_votequorum ==
  (IF q_type = "QUORUM_FREE" THEN {-1}
   ELSE IF provider = "corosync_votequorum" THEN {1} ELSE {0})
  \cup (IF MayFail THEN {-1} ELSE {})

\* cmap_initialize, quorum_initialize and corosync_cfg_initialize.
Initialize(connection, step) ==
  /\ pc = connection
  /\ \/ Open(connection) /\ Goto(step)
     \/ MayFail /\ InitFails
  /\ UNCHANGED <<config, cluster, shown>>

\* Unless votequorum is known to be in use, init_all is done here.
CheckProvider ==
  /\ pc = "type"
  /\ \E u \in using_votequorum : Goto(IF u <= 0 THEN "loop" ELSE "votequorum")
  /\ UNCHANGED <<config, cluster, open, tracking, queue, shown>>

InitVotequorum ==
  /\ pc = "votequorum"
  /\ \/ Open("votequorum") /\ Goto("nodeid")
     \/ MayFail /\ InitFails
  /\ UNCHANGED <<config, cluster, shown>>

\* cmap_get_uint32 of this_node_id.
GetNodeid ==
  /\ pc = "nodeid"
  /\ \/ Goto("loop") /\ UNCHANGED <<open, tracking, queue>>
     \/ MayFail /\ InitFails
  /\ UNCHANGED <<config, cluster, shown>>

EnterLoop ==
  /\ pc = "loop"
  /\ IF q_type = "QUORUM_FREE" THEN LoopEnds
     ELSE Goto("track_quorum") /\ UNCHANGED <<open, tracking, queue>>
  /\ UNCHANGED <<config, cluster, shown>>

Track(connection) ==
  tracking' = tracking \cup {connection} /\ UNCHANGED <<open, queue>>

TrackQuorum ==
  /\ pc = "track_quorum"
  /\ \/ Track("quorum") /\ Goto("type_again")
     \/ MayFail /\ LoopEnds
  /\ UNCHANGED <<config, cluster, shown>>

\* Fault: an error of using_votequorum is taken for no.
IsPositive(u) == u > 0

\* The test of the loop takes -1 for yes.
IsTrue(u) == u # 0

CheckProviderAgain ==
  /\ pc = "type_again"
  /\ \E u \in using_votequorum : Goto(IF IsTrue(u) THEN "track" ELSE "dispatch")
  /\ UNCHANGED <<config, cluster, open, tracking, queue, shown>>

\* votequorum_trackstart, on v_handle = 0 if there is no connection.
TrackVotequorum ==
  /\ pc = "track"
  /\ \/ "votequorum" \in open /\ Track("votequorum") /\ Goto("dispatch")
     \/ (MayFail \/ "votequorum" \notin open) /\ LoopEnds
  /\ UNCHANGED <<config, cluster, shown>>

\* Fault: the dispatch does not wait for a notification.
DispatchNonblocking == queue' = queue - 1 /\ UNCHANGED <<open, tracking>>

\* CS_DISPATCH_ONE: votequorum_notification_fn runs for one notification.
DispatchOne == queue > 0 /\ queue' = queue - 1 /\ UNCHANGED <<open, tracking>>

\* votequorum_dispatch waits for a notification; without a connection, or
\* when the daemon goes away, it returns an error.
Dispatch ==
  /\ pc = "dispatch"
  /\ \/ "votequorum" \in open /\ DispatchOne /\ Goto("print_quorum")
     \/ (MayFail \/ "votequorum" \notin open) /\ LoopEnds
  /\ UNCHANGED <<config, cluster, shown>>

\* Fault: the error of print_quorum is ignored like the one of print_membership.
GoOnPrinting == Goto("print_membership") /\ UNCHANGED <<open, tracking, queue>>

\* Fault: after an error of print_quorum the loop waits for the next change.
WaitForNext == Goto("dispatch") /\ UNCHANGED <<open, tracking, queue>>

PrintQuorumFails == LoopEnds

\* print_quorum; get_quorum_info asks votequorum about node 1.
PrintQuorum ==
  /\ pc = "print_quorum"
  /\ \/ /\ node_one
        /\ shown_ring' = ring
        /\ Goto("print_membership")
        /\ UNCHANGED <<open, tracking, queue>>
     \/ /\ MayFail \/ ~node_one
        /\ PrintQuorumFails
        /\ UNCHANGED shown_ring
  /\ UNCHANGED <<config, cluster, shown_members, missed>>

\* print_membership, whose error is ignored.
PrintMembership ==
  /\ pc = "print_membership"
  /\ \/ shown_members' = members /\ missed' = FALSE
     \/ MayFail /\ missed' = TRUE /\ UNCHANGED shown_members
  /\ Goto("dispatch")
  /\ UNCHANGED <<config, cluster, open, tracking, queue, shown_ring>>

Step ==
  \/ Initialize("cmap", "quorum")
  \/ Initialize("quorum", "cfg")
  \/ Initialize("cfg", "type")
  \/ CheckProvider
  \/ InitVotequorum
  \/ GetNodeid
  \/ EnterLoop
  \/ TrackQuorum
  \/ CheckProviderAgain
  \/ TrackVotequorum
  \/ Dispatch
  \/ PrintQuorum
  \/ PrintMembership

\* A node joins or leaves.
Change ==
  /\ members = ring /\ members < MaxRing
  /\ members' = members + 1
  /\ UNCHANGED <<config, ring, node_one, pc, open, tracking, queue, shown, rc>>

\* votequorum takes the change over; it never forgets a node.
Notify ==
  /\ ring < members
  /\ ring' = members
  /\ node_one' \in {node_one, TRUE}
  /\ queue' = IF "votequorum" \in tracking THEN queue + 1 ELSE queue
  /\ UNCHANGED <<config, members, pc, open, tracking, shown, rc>>

Next == Start \/ Step \/ Change \/ Notify

Spec == Init /\ [][Next]_vars

\* Nothing is queued: the dispatch may wait for ever, or the daemon may go away.
Waits == pc = "dispatch" /\ "votequorum" \in open /\ queue = 0

\* The monitor runs whenever it does not wait for a notification.
FairSpec == Spec /\ WF_vars(~Waits /\ Step)

-----------------------------------------------------------------------------
(* Properties                                                              *)

\* The types of the variables; no more notifications are taken than queued.
CountType ==
  /\ members \in 0 .. MaxRing /\ ring \in 0 .. MaxRing
  /\ queue \in 0 .. MaxRing
  /\ {shown_ring, shown_members} \subseteq {Never} \cup 0 .. MaxRing

TypeOK ==
  /\ provider \in {"corosync_votequorum", "other"}
  /\ q_type \in {"QUORUM_FREE", "QUORUM_SET"}
  /\ node_one \in BOOLEAN /\ missed \in BOOLEAN
  /\ pc \in Steps
  /\ open \subseteq Connections /\ tracking \subseteq open
  /\ rc \in {"none", "-1", "CS_OK"}
  /\ CountType

\* Whatever fails in init_all or in the loop, monitor_status returns with every
\* connection closed.
NothingLeftOpen == pc = "idle" => open = {}

\* The loop never waits on a votequorum connection that was not told to track
\* changes: init_all and the loop ask using_votequorum separately, and their
\* answers may differ.
NeverWaitsUntracked ==
  pc = "dispatch" /\ "votequorum" \in open => "votequorum" \in tracking

\* While the monitor waits with nothing queued, what it printed last is what
\* the cluster is, except for a membership it failed to print.
ShownIsCurrent ==
  pc = "dispatch" /\ queue = 0 /\ shown_ring # Never =>
    /\ shown_ring = ring
    /\ ~missed => shown_members >= ring

\* A change that was notified is printed, or the monitor ends.
ChangeIsShown ==
  \A r \in 1 .. MaxRing :
    queue > 0 /\ ring = r ~> shown_ring >= r \/ pc = "idle"

\* "use ctrl + c to exit monitor mode" (how_everything_works.txt:63): while
\* nothing is refused and votequorum is in use, the monitor does not end.
RunsUntilStopped ==
  provider = "corosync_votequorum" /\ q_type = "QUORUM_SET" => rc = "none"
=============================================================================
