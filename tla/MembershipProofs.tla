-------------------------- MODULE MembershipProofs --------------------------
(***************************************************************************)
(* Theorems about Membership, for any number of nodes and however they     *)
(* join and leave, whatever requests are refused.                          *)
(***************************************************************************)
EXTENDS Membership, FiniteSets, FiniteSetTheorems, SequenceTheorems, TLAPS

\* The members with an id of at most p; all of them.
UpTo(p) == {m \in Nodes : Member(m) /\ m <= p}
Known == {m \in Nodes : Member(m)}

\* Is a listing in its loop?
InLoop == pc \in {"next", "value"}

\* Where the call is, the handles it has open there, and what has not begun.
ControlInv ==
  /\ pc = "idle" => fn = "none" /\ (rc # "crash" => handles = 0)
  /\ pc \in {"open", "iter", "next"} => fn \in {"count", "members"}
  /\ pc = "open" => handles = 0
  /\ pc = "iter" => handles = 1
  /\ InLoop => handles = 2
  /\ pc = "value" => fn = "members"
  /\ pc = "locate" => fn = "none" /\ handles = 0
  /\ pc = "print" => fn = "print" /\ handles = 0
  /\ fn = "count" => arr = <<>> /\ ~overrun
  /\ (fn = "count" /\ InLoop) \/ pc = "locate" \/ (fn = "members" /\ ~InLoop) => i = -1
  /\ pc = "locate" => ~overrun
  /\ pc \notin {"print", "idle"} => printed = <<>>
  /\ quiet => ~grown
  /\ flawless => ~short
  /\ flawless /\ fn \in {"members", "print"} => local_nodeid = LocalNode

\* The status of a member is one it had; the only one, while nothing changes.
HadInv ==
  pc # "idle" =>
    \A n \in Nodes : /\ Member(n) => status[n] \in had[n]
                     /\ quiet => had[n] = {status[n]} \ {"none"}

\* The loops: pos is a key of the member prev, and no loop is ahead of prev.
LoopInv ==
  InLoop =>
    /\ prev = NodeOf(pos) /\ (pos > 0 => Member(prev))
    /\ fn = "count" => total <= prev
    /\ fn = "members" => i + 1 <= prev /\ (i >= 0 <=> pos > 0)
    /\ pc = "value" => pos > 0

\* What was counted were members; all of them, if nobody joins.
CountInv ==
  /\ InLoop /\ fn = "count" =>
       /\ \E C \in SUBSET UpTo(prev) : Cardinality(C) = total
       /\ ~grown => total = Cardinality(UpTo(prev))
  /\ fn = "members" \/ pc = "locate" =>
       /\ \E C \in SUBSET Known :
            /\ Cardinality(C) = Len(arr)
            /\ InLoop => Cardinality({m \in C : m <= prev}) <= i + 1
       /\ ~grown /\ ~short => Len(arr) = Cardinality(Known)
       /\ ~grown /\ InLoop => i + 1 = Cardinality(UpTo(prev))

\* The rows of an array: nodes in the order of their ids, each with its own ip and a
\* status it had as far as they were read, and rows nobody wrote.
WellFormed(rows) ==
  \A r \in DOMAIN rows :
    IF rows[r].nodeid = Unset THEN rows[r] \in Garbage
    ELSE /\ Member(rows[r].nodeid) /\ rows[r].ip \in {Unset, rows[r].nodeid}
         /\ rows[r].status \in had[rows[r].nodeid] \cup Left
         /\ r > 1 => rows[r - 1].nodeid \in 1 .. rows[r].nodeid - 1

Filled(row) == row.nodeid \in Nodes /\ row.ip = row.nodeid /\ row.status \in had[row.nodeid]

\* The first n rows are those of nodes, and no other was written.
Written(rows, n) ==
  /\ n <= Len(rows)
  /\ \A r \in DOMAIN rows : IF r > n THEN rows[r] \in Garbage ELSE rows[r].nodeid \in Nodes

\* The array while get_members fills it.
FillInv ==
  fn = "members" /\ InLoop /\ ~overrun =>
    /\ i + 1 <= Len(arr)
    /\ \A r \in DOMAIN arr : /\ r > i + 1 => arr[r] \in Garbage
                             /\ r <= i + 1 => arr[r].nodeid \in 1 .. prev
    /\ i >= 0 => arr[i + 1].nodeid = prev
    /\ flawless =>
         /\ \A r \in DOMAIN arr : r <= i => Filled(arr[r])
         /\ i >= 0 /\ (pc = "next" \/ pos % 2 = 0) => arr[i + 1].ip = prev
         /\ i >= 0 /\ pc = "next" /\ pos % 2 = 0 => arr[i + 1].status \in had[prev]
    /\ flawless /\ quiet => {arr[r].nodeid : r \in 1 .. i + 1} = UpTo(prev)

\* The array before and after.
RowsInv ==
  ~overrun =>
    /\ WellFormed(arr)
    /\ pc = "locate" \/ (fn = "members" /\ ~InLoop) => \A r \in DOMAIN arr : arr[r] \in Garbage
    /\ pc = "print" => Written(arr, i + 1)
    /\ pc = "print" /\ flawless => Len(arr) = i + 1 /\ \A r \in DOMAIN arr : Filled(arr[r])
    /\ pc = "print" /\ flawless /\ quiet => {arr[r].nodeid : r \in DOMAIN arr} = Known

\* What is printed are the rows of the array.
PrintInv ==
  pc = "print" =>
    /\ Len(printed) <= Len(arr)
    /\ \A n \in DOMAIN printed :
         /\ printed[n].row = arr[n]
         /\ flawless /\ quiet =>
              printed[n].votes /\ (printed[n].local <=> arr[n].nodeid = LocalNode)

IInv ==
  /\ TypeOK /\ ControlInv /\ HadInv /\ LoopInv
  /\ CountInv /\ OverrunOnlyByGrowth
  /\ FillInv /\ RowsInv /\ PrintInv
  /\ PrintsMembers /\ PrintsAllMembers

-----------------------------------------------------------------------------
(* Keys and sets of members                                                *)

LEMMA NFact == N \in Nat \ {0} /\ LocalNode \in Nodes /\ MayFail \in BOOLEAN
  BY MembershipAssumption

\* The key that comes next belongs to the node at hand or to the next member.
LEMMA NextKey ==
  ASSUME TypeOK, LoopInv, InLoop, NEW k, IsNext(k)
  PROVE  /\ k \in 1 .. 2 * N /\ k > pos /\ NodeOf(k) \in Nodes /\ Member(NodeOf(k))
         /\ NodeOf(k) >= prev /\ pos \in Nat /\ prev \in Nat
         /\ NewNode(k) <=> pos % 2 = 0
         /\ NewNode(k) <=> k % 2 = 1
         /\ NewNode(k) => NodeOf(k) > prev
         /\ ~NewNode(k) => NodeOf(k) = prev /\ k = pos + 1 /\ pos > 0
         /\ \A m \in Known : m > prev => m >= NodeOf(k)
<1>1. /\ k \in 1 .. 2 * N /\ k > pos /\ Member(NodeOf(k)) /\ N \in Nat
      /\ \A l \in KeysAhead : k <= l
  BY NFact DEF IsNext, KeysAhead
<1>2. pos \in 0 .. 2 * N /\ prev \in 0 .. N /\ prev = (pos + 1) \div 2
      /\ (pos > 0 => Member(prev))
  BY DEF TypeOK, LoopInv, NodeOf
<1>3. NodeOf(k) \in Nodes /\ NodeOf(k) >= prev
  BY <1>1, <1>2 DEF NodeOf, Nodes
<1>4. ASSUME NEW m \in Nodes, Member(m), NEW l \in {2 * m - 1, 2 * m}, l > pos PROVE k <= l
  <2>1. l \in 1 .. 2 * N /\ NodeOf(l) = m
    BY <1>1 DEF Nodes, NodeOf
  <2>2. l \in KeysAhead
    BY <1>4, <2>1 DEF KeysAhead
  <2> QED
    BY <1>1, <2>2
<1>5. \A m \in Known : m > prev => m >= NodeOf(k)
  <2>1. SUFFICES ASSUME NEW m \in Nodes, Member(m), m > prev PROVE m >= NodeOf(k)
    BY DEF Known
  <2>2. 2 * m - 1 > pos
    BY <1>1, <1>2, <2>1 DEF Nodes
  <2>3. k <= 2 * m - 1
    BY <1>4, <2>1, <2>2
  <2> QED
    BY <1>1, <2>1, <2>3 DEF Nodes, NodeOf
<1>6. CASE pos % 2 = 1
  <2>1. prev \in Nodes /\ Member(prev) /\ 2 * prev = pos + 1
    BY <1>1, <1>2, <1>6 DEF Nodes
  <2>2. k <= pos + 1
    BY <1>2, <1>4, <2>1
  <2>3. k = pos + 1 /\ NodeOf(k) = prev /\ k % 2 = 0
    BY <1>1, <1>2, <1>6, <2>2 DEF NodeOf
  <2> QED
    BY <1>1, <1>2, <1>3, <1>5, <1>6, <2>3 DEF NewNode
<1>7. CASE pos % 2 = 0
  <2>1. 2 * NodeOf(k) - 1 > pos
    BY <1>1, <1>2, <1>7 DEF NodeOf
  <2>2. k <= 2 * NodeOf(k) - 1
    BY <1>1, <1>3, <1>4, <2>1
  <2>3. k % 2 = 1 /\ NodeOf(k) > prev
    BY <1>1, <1>2, <1>7, <2>2 DEF NodeOf
  <2> QED
    BY <1>1, <1>2, <1>3, <1>5, <1>7, <2>3 DEF NewNode
<1> QED
  BY <1>2, <1>6, <1>7

\* When no key is left, no member is.
LEMMA LastKey ==
  ASSUME TypeOK, LoopInv, InLoop, KeysAhead = {}
  PROVE  Known = UpTo(prev) /\ pos % 2 = 0
<1>1. N \in Nat /\ pos \in 0 .. 2 * N /\ prev = (pos + 1) \div 2 /\ (pos > 0 => Member(prev))
  BY NFact DEF TypeOK, LoopInv, NodeOf
<1>2. ASSUME NEW m \in Nodes, Member(m), NEW l \in {2 * m - 1, 2 * m} PROVE l <= pos
  <2>1. l \in 1 .. 2 * N /\ NodeOf(l) = m /\ l \in Int
    BY <1>1 DEF Nodes, NodeOf
  <2> QED
    BY <1>1, <1>2, <2>1 DEF KeysAhead
<1>3. ASSUME NEW m \in Nodes, Member(m) PROVE m <= prev
  <2>1. 2 * m <= pos
    BY <1>2, <1>3
  <2> QED
    BY <1>1, <2>1 DEF Nodes
<1>4. pos % 2 = 0
  <2>1. SUFFICES ASSUME pos % 2 # 0 PROVE FALSE
    OBVIOUS
  <2>2. prev \in Nodes /\ Member(prev) /\ 2 * prev = pos + 1
    BY <1>1, <2>1 DEF Nodes
  <2> QED
    BY <1>1, <1>2, <2>2
<1> QED
  BY <1>3, <1>4 DEF Known, UpTo

\* Sets of members are finite.
LEMMA KnownFinite ==
  /\ IsFiniteSet(Known) /\ Cardinality(Known) \in Nat
  /\ \A p : UpTo(p) \subseteq Known /\ IsFiniteSet(UpTo(p)) /\ Cardinality(UpTo(p)) \in Nat
  /\ \A C \in SUBSET Known : /\ IsFiniteSet(C) /\ Cardinality(C) \in Nat
                             /\ Cardinality(C) <= Cardinality(Known)
<1>1. IsFiniteSet(Nodes)
  BY NFact, FS_Interval DEF Nodes
<1>2. IsFiniteSet(Known)
  BY <1>1, FS_Subset DEF Known
<1>3. \A C \in SUBSET Known : IsFiniteSet(C) /\ Cardinality(C) <= Cardinality(Known)
  BY <1>2, FS_Subset
<1>4. \A p : UpTo(p) \subseteq Known
  BY DEF UpTo, Known
<1> QED
  BY <1>2, <1>3, <1>4, FS_CardinalityType

\* A new node is the one member more up to it.
LEMMA UpToNext ==
  ASSUME TypeOK, LoopInv, InLoop, NEW k, IsNext(k)
  PROVE  /\ ~NewNode(k) => UpTo(NodeOf(k)) = UpTo(prev)
         /\ NewNode(k) => /\ UpTo(NodeOf(k)) = UpTo(prev) \cup {NodeOf(k)}
                          /\ NodeOf(k) \notin UpTo(prev)
                          /\ Cardinality(UpTo(NodeOf(k))) = Cardinality(UpTo(prev)) + 1
<1>1. /\ NodeOf(k) \in Nodes /\ Member(NodeOf(k)) /\ prev \in Nat
      /\ NewNode(k) => NodeOf(k) > prev
      /\ ~NewNode(k) => NodeOf(k) = prev
      /\ \A m \in Known : m > prev => m >= NodeOf(k)
  BY NextKey
<1>2. ASSUME NewNode(k)
      PROVE  UpTo(NodeOf(k)) = UpTo(prev) \cup {NodeOf(k)} /\ NodeOf(k) \notin UpTo(prev)
  BY <1>1, <1>2 DEF UpTo, Known, Nodes
<1>3. ASSUME NewNode(k)
      PROVE  Cardinality(UpTo(NodeOf(k))) = Cardinality(UpTo(prev)) + 1
  BY <1>2, <1>3, KnownFinite, FS_AddElement
<1> QED
  BY <1>1, <1>2, <1>3

-----------------------------------------------------------------------------
(* Nodes join and leave                                                    *)

\* Rows and lines have their types.
LEMMA RowsTyped ==
  ASSUME TypeOK
  PROVE  /\ Len(arr) \in Nat /\ DOMAIN arr = 1 .. Len(arr)
         /\ Len(printed) \in Nat /\ DOMAIN printed = 1 .. Len(printed)
         /\ \A r \in DOMAIN arr :
              arr[r] \in Rows /\ (arr[r].nodeid # Unset => arr[r].nodeid \in Nodes)
         /\ \A k \in DOMAIN printed :
              /\ printed[k].row \in Rows
              /\ printed[k].row.nodeid # Unset => printed[k].row.nodeid \in Nodes
<1>1. \A row \in Rows : row.nodeid # Unset => row.nodeid \in Nodes
  BY NFact DEF Rows, Unset, Nodes
<1>2. /\ Len(arr) \in Nat /\ DOMAIN arr = 1 .. Len(arr)
      /\ Len(printed) \in Nat /\ DOMAIN printed = 1 .. Len(printed)
  BY LenProperties DEF TypeOK
<1>3. ASSUME NEW r \in DOMAIN arr PROVE arr[r] \in Rows
  BY <1>2, <1>3, ElementOfSeq DEF TypeOK
<1>4. ASSUME NEW k \in DOMAIN printed PROVE printed[k].row \in Rows
  <2>1. printed[k] \in [row : Rows, votes : BOOLEAN, local : BOOLEAN]
    BY <1>2, <1>4, ElementOfSeq DEF TypeOK
  <2> QED
    BY <2>1
<1> QED
  BY <1>1, <1>2, <1>3, <1>4

\* The rows that malloc returns.
LEMMA GarbageRows ==
  ASSUME TypeOK
  PROVE  /\ Garbage \subseteq Rows
         /\ \A row \in Garbage : row.nodeid = Unset /\ row.ip = Unset /\ row.status \in Left
<1>1. Left \subseteq Statuses /\ Unset \in 0 .. N
  BY NFact DEF TypeOK, Left, Statuses, Unset
<1>2. SUFFICES ASSUME NEW row \in Garbage
               PROVE  /\ row \in Rows
                      /\ row.nodeid = Unset /\ row.ip = Unset /\ row.status \in Left
  OBVIOUS
<1>3. PICK s \in Left : row = [nodeid |-> Unset, ip |-> Unset, status |-> s]
  BY DEF Garbage
<1> QED
  BY <1>1, <1>3 DEF Rows

LEMMA SameMemory ==
  ASSUME UNCHANGED memory
  PROVE  Garbage' = Garbage /\ Left' = Left
  BY DEF Garbage, Left

LEMMA SameStatus ==
  ASSUME UNCHANGED status
  PROVE  /\ Known' = Known /\ \A p : UpTo(p)' = UpTo(p)
         /\ \A n : Member(n)' = Member(n)
  BY DEF Known, UpTo, Member

\* The history of the statuses, while nothing changes.
LEMMA SameHad ==
  ASSUME HadInv, pc # "idle", UNCHANGED <<status, quiet, had>>
  PROVE  HadInv'
  BY DEF HadInv, Member

LEMMA InitHolds == Init => IInv
<1> SUFFICES ASSUME Init PROVE IInv
  OBVIOUS
<1>1. TypeOK
  <2>1. {grown, quiet, flawless, short, overrun} \subseteq BOOLEAN
    BY DEF Init
  <2>2. /\ status \in [Nodes -> Statuses] /\ pos \in 0 .. 2 * N /\ prev \in 0 .. N
        /\ total \in 0 .. N /\ i \in -1 .. N - 1 /\ had \in [Nodes -> SUBSET {"joined", "left"}]
    BY NFact DEF Init, Statuses, Unset
  <2> QED
    BY <2>1, <2>2 DEF Init, TypeOK
<1>2. ControlInv /\ HadInv /\ LoopInv /\ FillInv /\ PrintInv
  BY DEF Init, ControlInv, HadInv, LoopInv, FillInv, PrintInv, InLoop
<1>3. CountInv /\ OverrunOnlyByGrowth /\ RowsInv
  BY DEF Init, CountInv, OverrunOnlyByGrowth, RowsInv, WellFormed, Member, InLoop
<1>4. PrintsMembers /\ PrintsAllMembers
  BY DEF Init, PrintsMembers, PrintsAllMembers, Returned
<1> QED
  BY <1>1, <1>2, <1>3, <1>4 DEF IInv

\* The flags of a state.
LEMMA Flags ==
  ASSUME TypeOK
  PROVE  /\ grown \in BOOLEAN /\ quiet \in BOOLEAN /\ flawless \in BOOLEAN /\ short \in BOOLEAN
         /\ overrun \in BOOLEAN
  BY DEF TypeOK

\* Joining and leaving disturbs no call: members remain members.
LEMMA EnvHolds ==
  ASSUME IInv, NEW n \in Nodes, Join(n) \/ Leave(n)
  PROVE  IInv'
<1>1. /\ UNCHANGED <<fn, pc, handles, pos, prev, total, i, arr, local_nodeid, printed, rc,
                     memory, flawless, short, overrun>>
      /\ quiet' = FALSE
  BY DEF Join, Leave, Changes, listing, failures
<1>2. TypeOK /\ HadInv
  BY DEF IInv
<1>3. PICK to \in {"joined", "left"} : /\ status' = [status EXCEPT ![n] = to]
                                       /\ had' = [had EXCEPT ![n] = @ \cup {to}]
  BY DEF Join, Leave, Changes
<1>4. /\ status \in [Nodes -> Statuses] /\ had \in [Nodes -> SUBSET {"joined", "left"}]
      /\ status' \in [Nodes -> Statuses] /\ had' \in [Nodes -> SUBSET {"joined", "left"}]
      /\ \A m \in Nodes : /\ Member(m) => Member(m)'
                          /\ had[m] \subseteq had'[m]
                          /\ m # n => status'[m] = status[m] /\ had'[m] = had[m]
      /\ status'[n] = to /\ to \in had'[n]
  BY <1>2, <1>3 DEF TypeOK, Member, Statuses
<1>21. /\ grown => grown'
       /\ ~grown' => \A m \in Nodes : Member(m) <=> Member(m)'
  <2>1. CASE Join(n)
    <3>1. grown' = (grown \/ ~Member(n))
      BY <2>1 DEF Join
    <3>2. ASSUME Member(n), NEW m \in Nodes PROVE Member(m) <=> Member(m)'
      BY <1>3, <1>4, <3>2 DEF Member
    <3> QED
      BY <3>1, <3>2
  <2>2. CASE Leave(n)
    <3>1. Member(n) /\ grown' = grown
      BY <2>2 DEF Leave, Member
    <3> QED
      BY <1>3, <1>4, <3>1 DEF Member
  <2> QED
    BY <2>1, <2>2
<1>5. TypeOK'
  <2>2. grown' \in BOOLEAN
    <3>1. CASE Join(n)
      BY <3>1, Zenon DEF Join
    <3>2. CASE Leave(n)
      BY <1>2, <3>2, Flags DEF Leave
    <3> QED
      BY <3>1, <3>2
  <2>3. {grown, quiet, flawless, short, overrun}' \subseteq BOOLEAN
    BY <1>1, <1>2, <2>2, Flags
  <2> QED
    BY <1>1, <1>2, <1>4, <2>3 DEF TypeOK
<1>6. ControlInv' /\ HadInv'
  <2>1. ControlInv'
    BY <1>1 DEF IInv, ControlInv, InLoop
  <2>2. HadInv'
    BY <1>1, <1>2, <1>4 DEF HadInv, Member
  <2> QED
    BY <2>1, <2>2
<1>7. LoopInv'
  <2>1. pos > 0 /\ InLoop => prev \in Nodes
    BY <1>2, NFact DEF IInv, LoopInv, TypeOK, NodeOf, Nodes
  <2> QED
    BY <1>1, <1>4, <2>1 DEF IInv, LoopInv, InLoop, NodeOf
<1>8. CountInv'
  <2>1. \A p : UpTo(p) \subseteq UpTo(p)' /\ Known \subseteq Known'
    BY <1>4 DEF UpTo, Known
  <2>2. ~grown' => Known = Known' /\ \A p : UpTo(p) = UpTo(p)'
    BY <1>21 DEF UpTo, Known
  <2>3. CountInv
    BY DEF IInv
  <2>4. InLoop' = InLoop
    BY <1>1 DEF InLoop
  <2>5. ASSUME InLoop, fn = "count"
        PROVE  /\ \E C \in SUBSET UpTo(prev)' : Cardinality(C) = total'
               /\ ~grown' => total' = Cardinality(UpTo(prev)')
    BY <1>1, <1>21, <2>1, <2>2, <2>3, <2>5 DEF CountInv
  <2>6. ASSUME fn = "members" \/ pc = "locate"
        PROVE  /\ \E C \in SUBSET Known' :
                    /\ Cardinality(C) = Len(arr)
                    /\ InLoop => Cardinality({m \in C : m <= prev}) <= i + 1
               /\ ~grown' /\ ~short => Len(arr) = Cardinality(Known')
               /\ ~grown' /\ InLoop => i + 1 = Cardinality(UpTo(prev)')
    BY <1>1, <1>21, <2>1, <2>2, <2>3, <2>6 DEF CountInv
  <2> QED
    BY <1>1, <2>4, <2>5, <2>6 DEF CountInv
<1>9. OverrunOnlyByGrowth'
  BY <1>1, <1>21 DEF IInv, OverrunOnlyByGrowth
<1>10. Garbage' = Garbage /\ Left' = Left /\ \A row : Filled(row) => Filled(row)'
  BY <1>1, <1>4, SameMemory DEF Filled
<1>11. FillInv'
  <2>1. fn = "members" /\ InLoop /\ ~overrun /\ i >= 0 => prev \in Nodes
    BY <1>2, NFact DEF IInv, FillInv, LoopInv, TypeOK, NodeOf, Nodes
  <2>2. fn = "members" /\ InLoop /\ ~overrun /\ flawless =>
          \A r \in DOMAIN arr : r <= i => Filled(arr[r])'
    BY <1>1, <1>10 DEF IInv, FillInv
  <2> QED
    BY <1>1, <1>4, <1>10, <2>1, <2>2 DEF IInv, FillInv, InLoop
<1>12. WellFormed(arr) => WellFormed(arr)'
  <2>1. \A r \in DOMAIN arr : arr[r].nodeid # Unset => arr[r].nodeid \in Nodes
    BY <1>2, RowsTyped
  <2> QED
    BY <1>1, <1>4, <1>10, <2>1 DEF WellFormed
<1>13. RowsInv' /\ PrintInv'
  <2>1. RowsInv'
    BY <1>1, <1>10, <1>12 DEF IInv, RowsInv, InLoop, Written
  <2>2. PrintInv'
    BY <1>1 DEF IInv, PrintInv
  <2> QED
    BY <2>1, <2>2
<1>14. PrintsMembers'
  BY <1>1, <1>4, <1>10 DEF IInv, PrintsMembers, Returned
<1>15. PrintsAllMembers'
  BY <1>1 DEF IInv, PrintsAllMembers
<1> QED
  BY <1>5, <1>6, <1>7, <1>8, <1>9, <1>11, <1>13, <1>14, <1>15 DEF IInv

-----------------------------------------------------------------------------
(* The steps of a call                                                     *)

\* The variables that a listing leaves alone until the rows are printed.
Rest == <<local_nodeid, printed, others, overrun>>

\* A call begins, in a new process or in one whose heap holds the rows of the last.
LEMMA CallHolds ==
  ASSUME IInv, Call \/ Again
  PROVE  IInv'
<1> USE DEF listing, others, failures
<1>1. Start /\ TypeOK
  BY DEF IInv, Call, Again
<1>2. handles' = 0 /\ memory' \subseteq {"joined", "left"}
  <2>1. CASE Call
    BY <2>1 DEF Call
  <2>2. CASE Again
    <3>1. handles' = 0
      BY <2>2 DEF IInv, ControlInv, Again, Start
    <3>2. \A n \in DOMAIN printed : printed[n].row.status \in Statuses
      BY <1>1, RowsTyped DEF Rows
    <3> QED
      BY <1>1, <2>2, <3>1, <3>2 DEF Again, TypeOK, Statuses
  <2> QED
    BY <2>1, <2>2
<1>3. TypeOK'
  <2>1. {grown, quiet, flawless, short, overrun}' \subseteq BOOLEAN
    BY <1>1 DEF Start
  <2>2. had' \in [Nodes -> SUBSET {"joined", "left"}]
    BY <1>1 DEF Start, TypeOK, Statuses
  <2> QED
    BY <1>1, <1>2, <2>1, <2>2 DEF TypeOK, Start
<1>4. HadInv'
  BY <1>1 DEF Start, HadInv, Member
<1>5. ControlInv' /\ LoopInv' /\ CountInv' /\ FillInv' /\ PrintInv'
  BY <1>1, <1>2 DEF Start, ControlInv, LoopInv, CountInv, FillInv, PrintInv, InLoop
<1>6. OverrunOnlyByGrowth' /\ RowsInv'
  BY <1>1 DEF Start, OverrunOnlyByGrowth, RowsInv, WellFormed, Member, InLoop
<1>7. PrintsMembers' /\ PrintsAllMembers'
  BY <1>1 DEF Start, PrintsMembers, PrintsAllMembers, Returned
<1> QED
  BY <1>3, <1>4, <1>5, <1>6, <1>7 DEF IInv

\* A connection or an iterator is refused: print_membership fails, or prints
\* the rows as they are.
LEMMA ListingFailsHolds ==
  ASSUME IInv, pc \in {"open", "iter"}, flawless' = FALSE, ListingFails, handles' = 0,
         UNCHANGED <<status, listing, arr, short, Rest>>
  PROVE  IInv'
<1> USE DEF listing, Rest, others, failures
<1>1. /\ fn \in {"count", "members"} /\ printed = <<>> /\ ~InLoop
      /\ TypeOK /\ RowsInv /\ ControlInv /\ HadInv /\ (fn = "members" => i = -1)
  BY DEF IInv, ControlInv, InLoop
<1>2. \/ fn = "count" /\ fn' = "none" /\ pc' = "idle" /\ rc' = "CS_ERR"
      \/ fn = "members" /\ fn' = "print" /\ pc' = "print" /\ rc' = rc
  BY <1>1 DEF ListingFails, Return, Goto
<1>3. TypeOK'
  <2>1. {grown, quiet, flawless, short, overrun}' \subseteq BOOLEAN
    BY <1>1, Flags
  <2> QED
    BY <1>1, <1>2, <2>1 DEF TypeOK
<1>4. ControlInv' /\ HadInv' /\ LoopInv' /\ CountInv' /\ FillInv'
  BY <1>1, <1>2, SameHad DEF ControlInv, LoopInv, CountInv, FillInv, InLoop
<1>5. OverrunOnlyByGrowth'
  BY DEF IInv, OverrunOnlyByGrowth
<1>6. RowsInv'
  <2>1. Garbage' = Garbage /\ Left' = Left /\ Len(arr) \in Nat /\ DOMAIN arr = 1 .. Len(arr)
    BY <1>1, SameMemory, RowsTyped
  <2>2. fn = "members" /\ ~overrun => Written(arr, i + 1)'
    BY <1>1, <1>2, <2>1 DEF RowsInv, Written
  <2> QED
    BY <1>1, <1>2, <2>1, <2>2 DEF RowsInv, WellFormed, Member, InLoop
<1>7. PrintInv'
  BY <1>1, RowsTyped DEF PrintInv
<1>8. PrintsMembers' /\ PrintsAllMembers'
  BY <1>2 DEF PrintsMembers, PrintsAllMembers, Returned
<1> QED
  BY <1>3, <1>4, <1>5, <1>6, <1>7, <1>8 DEF IInv

LEMMA InitializeHolds ==
  ASSUME IInv, Initialize
  PROVE  IInv'
<1> USE DEF listing, others, failures
<1>1. /\ pc = "open" /\ fn \in {"count", "members"} /\ handles = 0 /\ TypeOK /\ HadInv
      /\ UNCHANGED <<status, listing, arr, Rest>>
  BY DEF IInv, ControlInv, Initialize, Rest
<1>2. CASE handles' = handles + 1 /\ Goto(fn, "iter") /\ UNCHANGED failures
  <2>1. /\ pc' = "iter" /\ fn' = fn /\ handles' = 1 /\ rc' = rc
        /\ UNCHANGED <<status, listing, arr, local_nodeid, printed, memory, grown, quiet,
                       had, flawless, short, overrun>>
    BY <1>1, <1>2 DEF Goto, Rest
  <2>2. TypeOK'
    BY <1>1, <2>1 DEF TypeOK
  <2>3. ControlInv' /\ HadInv' /\ LoopInv' /\ FillInv' /\ OverrunOnlyByGrowth' /\ PrintInv'
    BY <1>1, <2>1, SameHad
    DEF IInv, ControlInv, LoopInv, FillInv, OverrunOnlyByGrowth, PrintInv, InLoop
  <2>4. CountInv'
    BY <1>1, <2>1, SameStatus DEF IInv, CountInv, InLoop
  <2>5. RowsInv'
    BY <1>1, <2>1, SameMemory DEF IInv, RowsInv, WellFormed, Member, InLoop
  <2>6. PrintsMembers' /\ PrintsAllMembers'
    BY <2>1 DEF PrintsMembers, PrintsAllMembers, Returned
  <2> QED
    BY <2>2, <2>3, <2>4, <2>5, <2>6 DEF IInv
<1>3. CASE Refused /\ ListingFails /\ UNCHANGED handles
  BY <1>1, <1>3, ListingFailsHolds DEF Refused
<1> QED
  BY <1>2, <1>3 DEF Initialize

LEMMA IterInitHolds ==
  ASSUME IInv, IterInit
  PROVE  IInv'
<1> USE DEF listing, others, failures
<1>1. /\ pc = "iter" /\ fn \in {"count", "members"} /\ handles = 1 /\ TypeOK /\ HadInv
      /\ UNCHANGED <<status, arr, Rest>>
  BY DEF IInv, ControlInv, IterInit, Rest
<1>2. CASE /\ handles' = handles + 1
           /\ pos' = 0 /\ prev' = Unset /\ total' = 0 /\ i' = BeforeFirstRow
           /\ Goto(fn, "next")
           /\ UNCHANGED failures
  <2>1. /\ pc' = "next" /\ fn' = fn /\ handles' = 2 /\ rc' = rc
        /\ pos' = 0 /\ prev' = 0 /\ total' = 0 /\ i' = -1
        /\ UNCHANGED <<status, arr, local_nodeid, printed, memory, grown, quiet,
                       had, flawless, short, overrun>>
    BY <1>1, <1>2 DEF Goto, Rest, Unset, BeforeFirstRow
  <2>2. TypeOK'
    BY <1>1, <2>1, NFact DEF TypeOK
  <2>3. ControlInv' /\ HadInv' /\ OverrunOnlyByGrowth' /\ PrintInv'
    BY <1>1, <2>1, SameHad DEF IInv, ControlInv, OverrunOnlyByGrowth, PrintInv, InLoop
  <2>4. LoopInv'
    BY <2>1 DEF LoopInv, NodeOf
  <2>5. UpTo(0) = {} /\ Cardinality({}) = 0
    BY FS_EmptySet DEF UpTo, Nodes
  <2>6. CountInv'
    <3>1. InLoop' /\ ~InLoop
      BY <1>1, <2>1 DEF InLoop
    <3>2. UpTo(prev)' = {} /\ Known' = Known
      BY <2>1, <2>5, SameStatus
    <3>3. fn' = "count" => /\ \E C \in SUBSET UpTo(prev)' : Cardinality(C) = total'
                           /\ ~grown' => total' = Cardinality(UpTo(prev)')
      BY <2>1, <2>5, <3>2
    <3>4. ASSUME fn = "members"
          PROVE  /\ \E C \in SUBSET Known' :
                      /\ Cardinality(C) = Len(arr)
                      /\ InLoop' => Cardinality({m \in C : m <= prev'}) <= i' + 1
                 /\ ~grown' /\ ~short' => Len(arr) = Cardinality(Known')
                 /\ ~grown' /\ InLoop' => i' + 1 = Cardinality(UpTo(prev)')
      <4>1. PICK C \in SUBSET Known : Cardinality(C) = Len(arr)
        BY <3>4 DEF IInv, CountInv
      <4>2. {m \in C : m <= prev'} = {}
        <5>1. \A m \in C : ~(m <= 0)
          BY DEF Known, Nodes
        <5> QED
          BY <2>1, <5>1
      <4>3. ~grown /\ ~short => Len(arr) = Cardinality(Known)
        BY <3>4 DEF IInv, CountInv
      <4>4. Cardinality({m \in C : m <= prev'}) <= i' + 1
        BY <2>1, <2>5, <4>2
      <4>5. i' + 1 = Cardinality(UpTo(prev)')
        BY <2>1, <2>5, <3>2
      <4> QED
        BY <2>1, <3>2, <4>1, <4>3, <4>4, <4>5
    <3> QED
      BY <1>1, <2>1, <3>3, <3>4 DEF CountInv
  <2>7. FillInv'
    <3>1. SUFFICES ASSUME fn = "members", ~overrun PROVE FillInv'
      BY <2>1 DEF FillInv
    <3>2. \A r \in DOMAIN arr : arr[r] \in Garbage
      BY <1>1, <3>1 DEF IInv, RowsInv, InLoop
    <3>3. /\ Len(arr) \in Nat /\ DOMAIN arr = 1 .. Len(arr) /\ UpTo(prev)' = {}
          /\ InLoop'
      BY <1>1, <2>1, <2>5, SameStatus, RowsTyped DEF InLoop
    <3>4. {arr'[r].nodeid : r \in 1 .. i' + 1} = {}
      BY <2>1
    <3> QED
      BY <2>1, <3>2, <3>3, <3>4, SameMemory DEF FillInv
  <2>8. RowsInv'
    BY <1>1, <2>1, SameMemory DEF IInv, RowsInv, WellFormed, Member, InLoop
  <2>9. PrintsMembers' /\ PrintsAllMembers'
    BY <2>1 DEF PrintsMembers, PrintsAllMembers, Returned
  <2> QED
    BY <2>2, <2>3, <2>4, <2>6, <2>7, <2>8, <2>9 DEF IInv
<1>3. CASE Refused /\ IterFails /\ UNCHANGED listing
  <2>1. UNCHANGED <<status, listing, arr, short, Rest>> /\ flawless' = FALSE
    BY <1>1, <1>3 DEF Refused
  <2>2. ListingFails /\ handles' = 0 /\ pc \in {"open", "iter"}
    BY <1>1, <1>3 DEF IterFails
  <2> QED
    BY <2>1, <2>2, ListingFailsHolds
<1> QED
  BY <1>2, <1>3 DEF IterInit

LEMMA CountNextHolds ==
  ASSUME IInv, CountNext
  PROVE  IInv'
<1> USE DEF others, failures
<1>1. /\ pc = "next" /\ fn = "count" /\ InLoop /\ TypeOK /\ LoopInv
      /\ UNCHANGED <<status, fn, pc, handles, i, arr, local_nodeid, printed, rc, memory,
                     grown, quiet, had, flawless, short, overrun>>
  BY DEF IInv, CountNext, InLoop
<1>2. PICK k : IsNext(k) /\ pos' = k /\ prev' = NodeOf(k) /\ total' = Count(k)
  BY DEF CountNext
<1>3. /\ k \in 1 .. 2 * N /\ NodeOf(k) \in Nodes /\ Member(NodeOf(k)) /\ prev \in Nat
      /\ NodeOf(k) >= prev
      /\ NewNode(k) => NodeOf(k) > prev
  BY <1>1, <1>2, NextKey
<1>4. /\ total \in 0 .. N /\ total <= prev /\ N \in Nat
      /\ NewNode(k) => total' = total + 1
      /\ ~NewNode(k) => total' = total
  BY <1>1, <1>2, NFact DEF TypeOK, LoopInv, Count
<1>5. total' <= prev'
  BY <1>2, <1>3, <1>4 DEF Nodes
<1>6. TypeOK'
  <2>1. pos' \in 0 .. 2 * N /\ prev' \in 0 .. N /\ total' \in 0 .. N
    BY <1>2, <1>3, <1>4, <1>5 DEF Nodes
  <2> QED
    BY <1>1, <2>1 DEF TypeOK
<1>7. ControlInv' /\ HadInv' /\ OverrunOnlyByGrowth' /\ PrintInv' /\ FillInv' /\ PrintsMembers'
      /\ PrintsAllMembers'
  BY <1>1, SameHad DEF IInv, ControlInv, OverrunOnlyByGrowth, PrintInv, FillInv, PrintsMembers,
     PrintsAllMembers, Returned, InLoop
<1>8. LoopInv'
  BY <1>1, <1>2, <1>3, <1>5 DEF LoopInv, Member, NodeOf
<1>9. CountInv'
  <2>1. PICK C \in SUBSET UpTo(prev) : Cardinality(C) = total
    BY <1>1 DEF IInv, CountInv
  <2>2. ~grown => total = Cardinality(UpTo(prev))
    BY <1>1 DEF IInv, CountInv
  <2>3. UpTo(prev)' = UpTo(NodeOf(k))
    BY <1>1, <1>2, SameStatus
  <2>4. \E B \in SUBSET UpTo(prev)' : Cardinality(B) = total'
    <3>1. CASE NewNode(k)
      <4>1. /\ UpTo(NodeOf(k)) = UpTo(prev) \cup {NodeOf(k)} /\ NodeOf(k) \notin C
            /\ IsFiniteSet(C)
        BY <1>1, <1>2, <2>1, <3>1, UpToNext, KnownFinite
      <4>2. Cardinality(C \cup {NodeOf(k)}) = total'
        BY <1>4, <2>1, <3>1, <4>1, FS_AddElement
      <4> QED
        BY <2>1, <2>3, <4>1, <4>2
    <3>2. CASE ~NewNode(k)
      BY <1>1, <1>2, <1>4, <2>1, <2>3, <3>2, UpToNext
    <3> QED
      BY <3>1, <3>2
  <2>5. ~grown => total' = Cardinality(UpTo(prev)')
    BY <1>1, <1>2, <1>4, <2>2, <2>3, UpToNext
  <2> QED
    BY <1>1, <2>4, <2>5 DEF CountInv
<1>10. RowsInv'
  BY <1>1, SameMemory DEF IInv, RowsInv, WellFormed, Member, InLoop
<1> QED
  BY <1>6, <1>7, <1>8, <1>9, <1>10 DEF IInv

\* A row is written, or the write is beyond the array.
LEMMA WriteShape ==
  ASSUME TypeOK, NEW j \in Nat, NEW field \in {"nodeid", "ip", "status"}, NEW v,
         field = "status" => v \in Statuses, field # "status" => v \in 0 .. N,
         WriteRow(j, field, v)
  PROVE  /\ arr' \in Seq(Rows) /\ Len(arr') = Len(arr) /\ DOMAIN arr' = DOMAIN arr
         /\ j + 1 \in DOMAIN arr =>
              /\ overrun' = overrun
              /\ arr'[j + 1] = [arr[j + 1] EXCEPT ![field] = v]
              /\ \A r \in DOMAIN arr : r # j + 1 => arr'[r] = arr[r]
         /\ j + 1 \notin DOMAIN arr => overrun' = TRUE /\ arr' = arr
<1>1. /\ arr \in Seq(Rows) /\ Len(arr) \in Nat /\ DOMAIN arr = 1 .. Len(arr)
      /\ \A r \in DOMAIN arr : arr[r] \in Rows
  BY RowsTyped DEF TypeOK
<1>2. CASE j + 1 \in DOMAIN arr
  <2> DEFINE row == [arr[j + 1] EXCEPT ![field] = v]
  <2>1. row \in Rows
    BY <1>1, <1>2 DEF Rows
  <2>2. arr' = [arr EXCEPT ![j + 1] = row] /\ overrun' = overrun
    BY <1>2 DEF WriteRow
  <2> HIDE DEF row
  <2>3. arr' \in Seq(Rows) /\ Len(arr') = Len(arr)
    BY <1>1, <1>2, <2>1, <2>2, ExceptSeq
  <2>4. DOMAIN arr' = DOMAIN arr /\ arr'[j + 1] = row
        /\ \A r \in DOMAIN arr : r # j + 1 => arr'[r] = arr[r]
    BY <1>1, <1>2, <2>2
  <2> QED
    BY <1>2, <2>2, <2>3, <2>4 DEF row
<1>3. CASE j + 1 \notin DOMAIN arr
  BY <1>1, <1>3 DEF WriteRow
<1> QED
  BY <1>2, <1>3

LEMMA MembersNextHolds ==
  ASSUME IInv, MembersNext
  PROVE  IInv'
<1> USE DEF others, failures
<1>1. /\ pc = "next" /\ fn = "members" /\ InLoop /\ TypeOK /\ LoopInv /\ ControlInv /\ HadInv
      /\ UNCHANGED <<status, handles, total, local_nodeid, printed, memory, grown,
                     quiet, had, flawless, short>>
  BY DEF IInv, MembersNext, InLoop
<1>2. PICK k : /\ IsNext(k) /\ pos' = k /\ prev' = NodeOf(k)
               /\ i' = IF NewNode(k) THEN i + 1 ELSE i
               /\ IF NewNode(k) THEN WriteRow(i + 1, "nodeid", NodeOf(k))
                                ELSE UNCHANGED <<arr, overrun>>
  BY DEF MembersNext
<1> DEFINE n == NodeOf(k)
<1>3. /\ k \in 1 .. 2 * N /\ n \in Nodes /\ Member(n) /\ prev \in Nat /\ n >= prev
      /\ NewNode(k) <=> pos % 2 = 0
      /\ NewNode(k) <=> k % 2 = 1
      /\ NewNode(k) => n > prev
      /\ ~NewNode(k) => n = prev /\ k = pos + 1 /\ pos > 0
      /\ \A m \in Known : m > prev => m >= n
  BY <1>1, <1>2, NextKey
<1>4. /\ i \in -1 .. N - 1 /\ i + 1 <= prev /\ (i >= 0 <=> pos > 0) /\ N \in Nat
      /\ prev \in 0 .. N /\ pos \in 0 .. 2 * N
  BY <1>1, NFact DEF TypeOK, LoopInv
<1>5. /\ Len(arr) \in Nat /\ DOMAIN arr = 1 .. Len(arr) /\ \A r \in DOMAIN arr : arr[r] \in Rows
  BY <1>1, RowsTyped
<1> HIDE DEF n
<1>6. /\ arr' \in Seq(Rows) /\ Len(arr') = Len(arr) /\ DOMAIN arr' = DOMAIN arr
      /\ overrun' \in BOOLEAN /\ (overrun => overrun')
  <2>1. CASE NewNode(k)
    <3>1. i + 1 \in Nat /\ n \in 0 .. N /\ WriteRow(i + 1, "nodeid", n)
      BY <1>2, <1>3, <1>4, <2>1 DEF n, Nodes
    <3> QED
      BY <1>1, <3>1, WriteShape, Flags
  <2>2. CASE ~NewNode(k)
    BY <1>1, <1>2, <2>2, Flags DEF TypeOK
  <2> QED
    BY <2>1, <2>2
<1>7. ASSUME NewNode(k)
      PROVE  /\ i' = i + 1 /\ i + 1 \in Nat
             /\ i + 2 \in DOMAIN arr =>
                  /\ overrun' = overrun
                  /\ arr'[i + 2] = [arr[i + 2] EXCEPT !.nodeid = n]
                  /\ \A r \in DOMAIN arr : r # i + 2 => arr'[r] = arr[r]
             /\ i + 2 \notin DOMAIN arr => overrun' = TRUE
  <2>1. i + 1 \in Nat /\ n \in 0 .. N /\ WriteRow(i + 1, "nodeid", n)
    BY <1>2, <1>3, <1>4, <1>7 DEF n, Nodes
  <2>2. /\ (i + 1) + 1 \in DOMAIN arr =>
             /\ overrun' = overrun
             /\ arr'[(i + 1) + 1] = [arr[(i + 1) + 1] EXCEPT !["nodeid"] = n]
             /\ \A r \in DOMAIN arr : r # (i + 1) + 1 => arr'[r] = arr[r]
        /\ (i + 1) + 1 \notin DOMAIN arr => overrun' = TRUE
    BY <1>1, <2>1, WriteShape
  <2>3. (i + 1) + 1 = i + 2 /\ i' = i + 1
    BY <1>2, <1>4, <1>7
  <2> QED
    BY <2>1, <2>2, <2>3
<1>8. ASSUME ~NewNode(k)
      PROVE  i' = i /\ arr' = arr /\ overrun' = overrun /\ prev' = prev
  BY <1>2, <1>3, <1>8 DEF n
<1>9. /\ prev' = n /\ i' \in -1 .. N - 1 /\ i' + 1 <= n /\ i' >= 0
  BY <1>2, <1>3, <1>4, <1>7, <1>8 DEF n, Nodes
<1>10. \/ fn' = "members" /\ pc' = "value" /\ rc' = rc
       \/ overrun' /\ fn' = "none" /\ pc' = "idle" /\ rc' = "crash"
  BY <1>1 DEF MembersNext, Goto, Return
<1>11. TypeOK'
  <2>1. {grown, quiet, flawless, short, overrun}' \subseteq BOOLEAN
    BY <1>1, <1>6, Flags
  <2>2. pos' \in 0 .. 2 * N /\ prev' \in 0 .. N
    BY <1>2, <1>3, <1>4 DEF n, Nodes
  <2> QED
    BY <1>1, <1>6, <1>9, <1>10, <2>1, <2>2 DEF TypeOK
<1>12. ControlInv' /\ HadInv'
  BY <1>1, <1>10, SameHad DEF ControlInv, InLoop
<1>13. LoopInv'
  BY <1>1, <1>2, <1>3, <1>9, <1>10 DEF LoopInv, Member, InLoop, n, NodeOf
<1>14. CountInv'
  <2>1. SUFFICES ASSUME fn' = "members", pc' = "value" PROVE CountInv'
    BY <1>10 DEF CountInv, InLoop
  <2>2. PICK C \in SUBSET Known : /\ Cardinality(C) = Len(arr)
                                  /\ Cardinality({m \in C : m <= prev}) <= i + 1
    BY <1>1 DEF IInv, CountInv
  <2>3. Cardinality({m \in C : m <= n}) <= i' + 1
    <3> DEFINE A == {m \in C : m <= prev}
               B == {m \in C : m <= n}
    <3>1. CASE ~NewNode(k)
      BY <1>3, <1>8, <2>2, <3>1
    <3>2. CASE NewNode(k)
      <4>1. B \subseteq A \cup {n}
        <5>1. \A m \in C : m <= n /\ m # n => m <= prev
          BY <1>3 DEF Known, Nodes
        <5> QED
          BY <5>1
      <4>2. A \subseteq Known
        OBVIOUS
      <4> HIDE DEF A, B
      <4>3. IsFiniteSet(A) /\ Cardinality(A) \in Nat /\ Cardinality(A) <= i + 1
        BY <2>2, <4>2, KnownFinite DEF A
      <4>4. IsFiniteSet(A \cup {n}) /\ Cardinality(A \cup {n}) <= Cardinality(A) + 1
        <5>1. IsFiniteSet(A \cup {n})
              /\ Cardinality(A \cup {n}) = IF n \in A THEN Cardinality(A) ELSE Cardinality(A) + 1
          BY <4>3, FS_AddElement
        <5> QED
          BY <4>3, <5>1
      <4>5. IsFiniteSet(B) /\ Cardinality(B) <= Cardinality(A \cup {n})
        BY <4>1, <4>4, FS_Subset
      <4>6. Cardinality(B) \in Nat /\ Cardinality(A \cup {n}) \in Nat
        BY <4>4, <4>5, FS_CardinalityType
      <4>7. Cardinality(B) <= i' + 1
        BY <1>4, <1>7, <3>2, <4>3, <4>4, <4>5, <4>6
      <4> QED
        BY <4>7 DEF B
    <3> QED
      BY <3>1, <3>2
  <2>4. ~grown => i' + 1 = Cardinality(UpTo(n))
    <3>1. ~grown => i + 1 = Cardinality(UpTo(prev))
      BY <1>1 DEF IInv, CountInv
    <3>2. Cardinality(UpTo(prev)) \in Nat
      BY KnownFinite
    <3> QED
      BY <1>1, <1>2, <1>4, <1>7, <1>8, <3>1, <3>2, UpToNext DEF n
  <2>5. ~grown /\ ~short => Len(arr) = Cardinality(Known)
    BY <1>1 DEF IInv, CountInv
  <2>6. Known' = Known /\ UpTo(prev)' = UpTo(n)
    BY <1>1, <1>9, SameStatus
  <2> QED
    BY <1>1, <1>6, <1>9, <2>1, <2>2, <2>3, <2>4, <2>5, <2>6 DEF CountInv, InLoop
<1>15. OverrunOnlyByGrowth'
  <2>1. SUFFICES ASSUME overrun', ~grown, ~short PROVE FALSE
    BY <1>1 DEF OverrunOnlyByGrowth
  <2>2. ~overrun
    BY <2>1 DEF IInv, OverrunOnlyByGrowth
  <2>3. NewNode(k) /\ i + 2 \notin DOMAIN arr
    BY <1>7, <1>8, <2>1, <2>2
  <2>4. Len(arr) = Cardinality(Known) /\ i + 1 = Cardinality(UpTo(prev))
    BY <1>1, <2>1 DEF IInv, CountInv
  <2>5. Cardinality(UpTo(n)) = i + 2 /\ Cardinality(UpTo(n)) <= Cardinality(Known)
    BY <1>1, <1>2, <1>4, <2>3, <2>4, UpToNext, KnownFinite DEF n
  <2> QED
    BY <1>4, <1>5, <1>7, <2>3, <2>4, <2>5
<1>16. ASSUME ~overrun', fn' = "members", pc' = "value" PROVE FillInv' /\ WellFormed(arr)'
  <2>1. /\ ~overrun /\ i + 1 <= Len(arr)
        /\ \A r \in DOMAIN arr : /\ r > i + 1 => arr[r] \in Garbage
                                 /\ r <= i + 1 => arr[r].nodeid \in 1 .. prev
        /\ i >= 0 => arr[i + 1].nodeid = prev
        /\ WellFormed(arr)
    BY <1>1, <1>6, <1>16 DEF IInv, FillInv, RowsInv
  <2>2. flawless =>
         /\ \A r \in DOMAIN arr : r <= i => Filled(arr[r])
         /\ i >= 0 => arr[i + 1].ip = prev
         /\ i >= 0 /\ pos % 2 = 0 => arr[i + 1].status \in had[prev]
    BY <1>1, <2>1 DEF IInv, FillInv
  <2>3. flawless /\ quiet => {arr[r].nodeid : r \in 1 .. i + 1} = UpTo(prev)
    BY <1>1, <2>1 DEF IInv, FillInv
  <2>6. Garbage' = Garbage /\ Left' = Left
    BY <1>1, SameMemory
  <2>4. CASE ~NewNode(k)
    <3>1. WellFormed(arr)'
      BY <1>1, <1>8, <2>1, <2>4, <2>6 DEF WellFormed, Member
    <3>2. UpTo(prev)' = UpTo(prev)
      BY <1>1, <1>8, <2>4, SameStatus
    <3> QED
      BY <1>1, <1>2, <1>8, <1>16, <2>1, <2>2, <2>3, <2>4, <2>6, <3>1, <3>2
      DEF FillInv, InLoop, Filled
  <2>5. CASE NewNode(k)
    <3>1. /\ i + 2 \in DOMAIN arr /\ arr[i + 2] \in Rows
          /\ arr[i + 2].ip = Unset /\ arr[i + 2].status \in Left
      <4>1. i + 2 \in DOMAIN arr
        BY <1>7, <1>16, <2>5
      <4>2. arr[i + 2] \in Garbage
        BY <1>4, <2>1, <4>1
      <4> QED
        BY <1>1, <1>5, <4>1, <4>2, GarbageRows
    <3>2. /\ arr'[i + 2].nodeid = n /\ arr'[i + 2].ip = Unset /\ arr'[i + 2].status \in Left
          /\ \A r \in DOMAIN arr : r # i + 2 => arr'[r] = arr[r]
      BY <1>7, <2>5, <3>1 DEF Rows
    <3>3. WellFormed(arr)'
      <4>1. SUFFICES ASSUME NEW r \in DOMAIN arr
                     PROVE  IF arr'[r].nodeid = Unset THEN arr'[r] \in Garbage
                            ELSE /\ Member(arr'[r].nodeid)
                                 /\ arr'[r].ip \in {Unset, arr'[r].nodeid}
                                 /\ arr'[r].status \in had[arr'[r].nodeid] \cup Left
                                 /\ r > 1 => arr'[r - 1].nodeid \in 1 .. arr'[r].nodeid - 1
        BY <1>1, <1>6, <2>6 DEF WellFormed, Member
      <4>2. CASE r < i + 2
        <5>1. arr'[r] = arr[r] /\ (r > 1 => arr'[r - 1] = arr[r - 1])
          BY <1>4, <1>5, <3>2, <4>2
        <5> QED
          BY <2>1, <5>1 DEF WellFormed
      <4>3. CASE r = i + 2
        <5>1. r > 1 => arr'[r - 1].nodeid = prev /\ prev \in 1 .. n - 1
          <6>1. ASSUME r > 1 PROVE i + 1 \in DOMAIN arr /\ i >= 0 /\ r - 1 = i + 1
            BY <1>4, <1>5, <4>3, <6>1
          <6>2. ASSUME r > 1 PROVE arr'[i + 1] = arr[i + 1] /\ arr[i + 1].nodeid = prev
                                   /\ prev >= 1
            BY <1>4, <2>1, <3>2, <6>1, <6>2
          <6> QED
            BY <1>3, <2>5, <6>1, <6>2 DEF Nodes
        <5> QED
          BY <1>1, <1>3, <3>2, <4>3, <5>1 DEF Nodes, Unset
      <4>4. CASE r > i + 2
        <5>1. arr'[r] \in Garbage
          BY <1>4, <1>5, <2>1, <3>2, <4>4
        <5> QED
          BY <1>1, <5>1, GarbageRows
      <4> QED
        BY <1>4, <1>5, <4>2, <4>3, <4>4
    <3>4. \A r \in DOMAIN arr : /\ r > i + 2 => arr'[r] \in Garbage
                                /\ r <= i + 2 => arr'[r].nodeid \in 1 .. n
      <4>1. n \in Nat /\ n >= 1 /\ n > prev
        BY <1>3, <2>5 DEF Nodes
      <4>2. ASSUME NEW r \in DOMAIN arr, r > i + 2 PROVE arr'[r] \in Garbage
        BY <1>4, <1>5, <2>1, <3>2, <4>2
      <4>3. ASSUME NEW r \in DOMAIN arr, r <= i + 2 PROVE arr'[r].nodeid \in 1 .. n
        <5>1. CASE r = i + 2
          BY <3>2, <4>1, <5>1
        <5>2. CASE r # i + 2
          <6>1. r <= i + 1 /\ arr'[r] = arr[r]
            BY <1>4, <1>5, <3>2, <4>3, <5>2
          <6>2. arr[r].nodeid \in 1 .. prev
            BY <2>1, <6>1
          <6> QED
            BY <1>4, <4>1, <6>1, <6>2
        <5> QED
          BY <5>1, <5>2
      <4> QED
        BY <4>2, <4>3
    <3>5. flawless => \A r \in DOMAIN arr : r <= i + 1 => Filled(arr'[r])
      <4>1. SUFFICES ASSUME flawless, NEW r \in DOMAIN arr, r <= i + 1 PROVE Filled(arr'[r])
        OBVIOUS
      <4>2. arr'[r] = arr[r]
        BY <1>4, <1>5, <3>2, <4>1
      <4>3. CASE r = i + 1
        <5>1. i >= 0 /\ prev # 0 /\ pos % 2 = 0
          BY <1>3, <1>4, <1>5, <2>5, <4>3
        <5>2. prev \in Nodes
          BY <1>4, <5>1 DEF Nodes
        <5> QED
          BY <2>1, <2>2, <4>1, <4>2, <4>3, <5>1, <5>2 DEF Filled
      <4>4. CASE r <= i
        BY <2>2, <4>1, <4>2, <4>4
      <4> QED
        BY <1>4, <1>5, <4>1, <4>3, <4>4
    <3>6. flawless /\ quiet => {arr'[r].nodeid : r \in 1 .. i + 2} = UpTo(n)
      <4>1. SUFFICES ASSUME flawless, quiet
                     PROVE  {arr'[r].nodeid : r \in 1 .. i + 2} = UpTo(n)
        OBVIOUS
      <4>2. \A r \in 1 .. i + 1 : arr'[r] = arr[r]
        BY <1>4, <1>5, <2>1, <3>2
      <4>3. 1 .. i + 2 = (1 .. i + 1) \cup {i + 2}
        BY <1>4
      <4>4. UpTo(n) = UpTo(prev) \cup {n}
        BY <1>1, <1>2, <2>5, UpToNext DEF n
      <4>5. {arr'[r].nodeid : r \in 1 .. i + 2} = {arr[r].nodeid : r \in 1 .. i + 1} \cup {n}
        BY <3>2, <4>2, <4>3
      <4> QED
        BY <2>3, <4>1, <4>4, <4>5
    <3>7. UpTo(prev)' = UpTo(n) /\ i' = i + 1 /\ i' + 1 = i + 2 /\ i + 2 <= Len(arr)
          /\ k % 2 # 0
      <4>1. UpTo(prev)' = UpTo(n)
        BY <1>1, <1>9, SameStatus
      <4>2. k % 2 = 1 /\ i' = i + 1
        BY <1>3, <1>7, <2>5
      <4> QED
        BY <1>4, <1>5, <3>1, <4>1, <4>2
    <3> QED
      BY <1>1, <1>2, <1>6, <1>9, <1>16, <2>6, <3>2, <3>3, <3>4, <3>5, <3>6, <3>7
      DEF FillInv, InLoop, Filled, n
  <2> QED
    BY <2>4, <2>5
<1>17. FillInv' /\ RowsInv'
  BY <1>10, <1>16 DEF FillInv, RowsInv, InLoop
<1>18. PrintInv' /\ PrintsMembers' /\ PrintsAllMembers'
  BY <1>10 DEF PrintInv, PrintsMembers, PrintsAllMembers, Returned
<1> QED
  BY <1>11, <1>12, <1>13, <1>14, <1>15, <1>17, <1>18 DEF IInv

\* A value goes into the row of its node.
LEMMA ValueHolds ==
  ASSUME IInv, Value
  PROVE  IInv'
<1> USE DEF listing, others, failures
<1>1. /\ pc = "value" /\ fn = "members" /\ InLoop /\ TypeOK /\ LoopInv /\ ControlInv
      /\ HadInv
      /\ UNCHANGED <<status, handles, pos, prev, total, i, local_nodeid, printed, memory, grown,
                     quiet, had, short>>
      /\ fn' = "members" /\ pc' = "next" /\ rc' = rc
  BY DEF IInv, ControlInv, Value, InLoop, Goto, Refused
<1>2. /\ prev = NodeOf(pos) /\ prev \in Nodes /\ Member(prev) /\ i >= 0 /\ i \in Nat
      /\ prev \in 1 .. N /\ prev \in 0 .. N /\ pos \in Nat /\ prev # 0
  BY <1>1, NFact DEF TypeOK, LoopInv, NodeOf, Nodes
<1>3. /\ Len(arr) \in Nat /\ DOMAIN arr = 1 .. Len(arr) /\ \A r \in DOMAIN arr : arr[r] \in Rows
  BY <1>1, RowsTyped
<1>4. status[prev] \in Statuses /\ status[prev] \in had[prev]
  BY <1>1, <1>2 DEF TypeOK, HadInv
<1>5. \/ pos % 2 = 1 /\ WriteRow(i, "ip", prev) /\ flawless' = flawless
      \/ pos % 2 = 0 /\ WriteRow(i, "status", status[prev]) /\ flawless' = flawless
      \/ flawless' = FALSE /\ arr' = arr /\ overrun' = overrun
  <2>1. pos % 2 = 0 \/ pos % 2 = 1
    BY <1>2
  <2>2. CASE CopyValue /\ UNCHANGED failures
    BY <1>2, <2>1, <2>2 DEF CopyValue, IsIp
  <2>3. CASE Refused /\ UNCHANGED <<arr, overrun>>
    BY <2>3 DEF Refused
  <2> QED
    BY <2>2, <2>3 DEF Value
<1>6. ASSUME pos % 2 = 1, WriteRow(i, "ip", prev)
      PROVE  /\ arr' \in Seq(Rows) /\ Len(arr') = Len(arr) /\ DOMAIN arr' = DOMAIN arr
             /\ i + 1 \in DOMAIN arr =>
                  /\ overrun' = overrun
                  /\ arr'[i + 1] = [arr[i + 1] EXCEPT !.ip = prev]
                  /\ \A r \in DOMAIN arr : r # i + 1 => arr'[r] = arr[r]
             /\ i + 1 \notin DOMAIN arr => overrun' = TRUE
  BY <1>1, <1>2, <1>6, WriteShape
<1>7. ASSUME pos % 2 = 0, WriteRow(i, "status", status[prev])
      PROVE  /\ arr' \in Seq(Rows) /\ Len(arr') = Len(arr) /\ DOMAIN arr' = DOMAIN arr
             /\ i + 1 \in DOMAIN arr =>
                  /\ overrun' = overrun
                  /\ arr'[i + 1] = [arr[i + 1] EXCEPT !.status = status[prev]]
                  /\ \A r \in DOMAIN arr : r # i + 1 => arr'[r] = arr[r]
             /\ i + 1 \notin DOMAIN arr => overrun' = TRUE
  BY <1>1, <1>2, <1>4, <1>7, WriteShape
<1>8. /\ arr' \in Seq(Rows) /\ Len(arr') = Len(arr) /\ DOMAIN arr' = DOMAIN arr
      /\ overrun' \in BOOLEAN /\ (overrun => overrun') /\ flawless' \in BOOLEAN
      /\ (flawless' => flawless)
  <2>1. arr' \in Seq(Rows) /\ Len(arr') = Len(arr) /\ DOMAIN arr' = DOMAIN arr
    BY <1>1, <1>5, <1>6, <1>7 DEF TypeOK
  <2>2. overrun' \in BOOLEAN /\ (overrun => overrun')
    <3>1. overrun' = overrun \/ overrun' = TRUE
      BY <1>5, <1>6, <1>7
    <3>2. overrun \in BOOLEAN
      BY <1>1, Flags
    <3>3. CASE overrun' = overrun
      BY <3>2, <3>3, Zenon
    <3>4. CASE overrun' = TRUE
      BY <3>4
    <3> QED
      BY <3>1, <3>3, <3>4
  <2>3. flawless' \in BOOLEAN /\ (flawless' => flawless)
    <3>1. flawless' = flawless \/ flawless' = FALSE
      BY <1>5
    <3>2. flawless \in BOOLEAN
      BY <1>1, Flags
    <3>3. CASE flawless' = flawless
      BY <3>2, <3>3, Zenon
    <3>4. CASE flawless' = FALSE
      BY <3>4
    <3> QED
      BY <3>1, <3>3, <3>4
  <2> QED
    BY <2>1, <2>2, <2>3
<1>9. TypeOK'
  <2>1. {grown, quiet, flawless, short, overrun}' \subseteq BOOLEAN
    BY <1>1, <1>8, Flags
  <2> QED
    BY <1>1, <1>8, <2>1 DEF TypeOK
<1>10. ControlInv' /\ HadInv'
  BY <1>1, <1>8, SameHad DEF ControlInv, InLoop
<1>11. LoopInv'
  BY <1>1 DEF LoopInv, InLoop, Member, NodeOf
<1>12. CountInv'
  <2>1. Known' = Known /\ UpTo(prev)' = UpTo(prev) /\ InLoop'
    BY <1>1, SameStatus DEF InLoop
  <2>2. /\ \E C \in SUBSET Known :
             Cardinality(C) = Len(arr) /\ Cardinality({m \in C : m <= prev}) <= i + 1
        /\ ~grown /\ ~short => Len(arr) = Cardinality(Known)
        /\ ~grown => i + 1 = Cardinality(UpTo(prev))
    BY <1>1 DEF IInv, CountInv
  <2> QED
    BY <1>1, <1>8, <2>1, <2>2 DEF CountInv
<1>13. ASSUME ~overrun
       PROVE  /\ i + 1 \in DOMAIN arr /\ arr[i + 1].nodeid = prev /\ arr[i + 1] \in Rows
              /\ overrun' = overrun
  <2>1. i + 1 \in DOMAIN arr /\ arr[i + 1].nodeid = prev
    BY <1>1, <1>2, <1>3, <1>13 DEF IInv, FillInv
  <2> QED
    BY <1>3, <1>5, <1>6, <1>7, <2>1
<1>14. OverrunOnlyByGrowth'
  BY <1>1, <1>8, <1>13 DEF IInv, OverrunOnlyByGrowth
<1>15. ASSUME ~overrun
       PROVE  /\ \A r \in DOMAIN arr : r # i + 1 => arr'[r] = arr[r]
              /\ arr'[i + 1].nodeid = prev
              /\ arr'[i + 1].ip = arr[i + 1].ip \/ arr'[i + 1].ip = prev
              /\ arr'[i + 1].status = arr[i + 1].status \/ arr'[i + 1].status = status[prev]
              /\ flawless' /\ pos % 2 = 1 => arr'[i + 1].ip = prev
              /\ flawless' /\ pos % 2 = 0 =>
                   arr'[i + 1].ip = arr[i + 1].ip /\ arr'[i + 1].status = status[prev]
  <2>1. i + 1 \in DOMAIN arr /\ arr[i + 1].nodeid = prev /\ arr[i + 1] \in Rows
    BY <1>13, <1>15
  <2>2. CASE pos % 2 = 1 /\ WriteRow(i, "ip", prev) /\ flawless' = flawless
    <3>1. /\ arr'[i + 1] = [arr[i + 1] EXCEPT !.ip = prev]
          /\ \A r \in DOMAIN arr : r # i + 1 => arr'[r] = arr[r]
      BY <1>6, <2>1, <2>2
    <3>2. /\ arr'[i + 1].nodeid = arr[i + 1].nodeid /\ arr'[i + 1].ip = prev
          /\ arr'[i + 1].status = arr[i + 1].status
      BY <2>1, <3>1 DEF Rows
    <3>3. ~(pos % 2 = 0)
      BY <2>2
    <3> QED
      BY <2>1, <3>1, <3>2, <3>3
  <2>3. CASE pos % 2 = 0 /\ WriteRow(i, "status", status[prev]) /\ flawless' = flawless
    <3>1. /\ arr'[i + 1] = [arr[i + 1] EXCEPT !.status = status[prev]]
          /\ \A r \in DOMAIN arr : r # i + 1 => arr'[r] = arr[r]
      BY <1>7, <2>1, <2>3
    <3>2. /\ arr'[i + 1].nodeid = arr[i + 1].nodeid /\ arr'[i + 1].ip = arr[i + 1].ip
          /\ arr'[i + 1].status = status[prev]
      BY <2>1, <3>1 DEF Rows
    <3>3. ~(pos % 2 = 1)
      BY <2>3
    <3> QED
      BY <2>1, <3>1, <3>2, <3>3
  <2>4. CASE flawless' = FALSE /\ arr' = arr /\ overrun' = overrun
    BY <2>1, <2>4
  <2> QED
    BY <1>5, <2>2, <2>3, <2>4
<1>20. Garbage' = Garbage /\ Left' = Left
  BY <1>1, SameMemory
<1>16. ASSUME ~overrun PROVE WellFormed(arr)'
  <2>1. WellFormed(arr)
    BY <1>16 DEF IInv, RowsInv
  <2>2. SUFFICES ASSUME NEW r \in DOMAIN arr
                 PROVE  IF arr'[r].nodeid = Unset THEN arr'[r] \in Garbage
                        ELSE /\ Member(arr'[r].nodeid)
                             /\ arr'[r].ip \in {Unset, arr'[r].nodeid}
                             /\ arr'[r].status \in had[arr'[r].nodeid] \cup Left
                             /\ r > 1 => arr'[r - 1].nodeid \in 1 .. arr'[r].nodeid - 1
    BY <1>1, <1>8, <1>20 DEF WellFormed, Member
  <2>3. \A q \in DOMAIN arr : arr'[q].nodeid = arr[q].nodeid
    BY <1>13, <1>15, <1>16
  <2>4. r > 1 => r - 1 \in DOMAIN arr
    BY <1>3
  <2>5. CASE r # i + 1
    BY <1>15, <1>16, <2>1, <2>3, <2>4, <2>5 DEF WellFormed
  <2>6. CASE r = i + 1
    <3>1. arr[r].nodeid = prev /\ arr'[r].nodeid = prev /\ prev # Unset
      BY <1>2, <1>13, <1>15, <1>16, <2>6 DEF Unset
    <3>2. arr'[r].ip \in {Unset, prev}
      BY <1>15, <1>16, <2>1, <2>6, <3>1 DEF WellFormed
    <3>3. r > 1 => arr'[r - 1].nodeid \in 1 .. prev - 1
      BY <2>1, <2>3, <2>4, <3>1 DEF WellFormed
    <3>4. arr'[r].status \in had[prev] \cup Left
      BY <1>4, <1>15, <1>16, <2>1, <2>6, <3>1 DEF WellFormed
    <3> QED
      BY <1>2, <3>1, <3>2, <3>3, <3>4
  <2> QED
    BY <2>5, <2>6
<1>17. FillInv'
  <2>1. SUFFICES ASSUME ~overrun
                 PROVE  FillInv'
    BY <1>8 DEF FillInv
  <2>2. /\ i + 1 <= Len(arr)
        /\ \A r \in DOMAIN arr : /\ r > i + 1 => arr[r] \in Garbage
                                 /\ r <= i + 1 => arr[r].nodeid \in 1 .. prev
        /\ flawless =>
             /\ \A r \in DOMAIN arr : r <= i => Filled(arr[r])
             /\ pos % 2 = 0 => arr[i + 1].ip = prev
        /\ flawless /\ quiet => {arr[r].nodeid : r \in 1 .. i + 1} = UpTo(prev)
    BY <1>1, <1>2, <2>1 DEF IInv, FillInv
  <2>3. \A r \in DOMAIN arr : /\ r > i + 1 => arr'[r] \in Garbage
                              /\ r <= i + 1 => arr'[r].nodeid \in 1 .. prev
    <3>1. \A r \in DOMAIN arr : r # i + 1 => /\ r > i + 1 => arr'[r] \in Garbage
                                             /\ r <= i + 1 => arr'[r].nodeid \in 1 .. prev
      BY <1>15, <2>1, <2>2
    <3>2. arr'[i + 1].nodeid \in 1 .. prev /\ ~(i + 1 > i + 1)
      BY <1>2, <1>15, <2>1
    <3> QED
      BY <3>1, <3>2
  <2>4. flawless' =>
          /\ \A r \in DOMAIN arr : r <= i => Filled(arr'[r])
          /\ arr'[i + 1].ip = prev
          /\ pos % 2 = 0 => arr'[i + 1].status \in had[prev]
    <3>1. pos % 2 = 0 \/ pos % 2 = 1
      BY <1>2
    <3>2. \A r \in DOMAIN arr : r <= i => arr'[r] = arr[r]
      BY <1>2, <1>3, <1>15, <2>1
    <3> QED
      BY <1>4, <1>8, <1>15, <2>1, <2>2, <3>1, <3>2
  <2>5. flawless' /\ quiet => {arr'[r].nodeid : r \in 1 .. i + 1} = UpTo(prev)
    <3>1. 1 .. i + 1 \subseteq DOMAIN arr
      BY <1>2, <1>3, <2>2
    <3>2. \A r \in 1 .. i + 1 : arr'[r].nodeid = arr[r].nodeid
      BY <1>13, <1>15, <2>1, <3>1
    <3> QED
      BY <1>8, <2>2, <3>2
  <2>6. UpTo(prev)' = UpTo(prev) /\ DOMAIN arr' = DOMAIN arr /\ Len(arr') = Len(arr)
    BY <1>1, <1>8, SameStatus
  <2> QED
    BY <1>1, <1>15, <1>20, <2>1, <2>2, <2>3, <2>4, <2>5, <2>6 DEF FillInv, Filled
<1>18. RowsInv'
  BY <1>1, <1>8, <1>16 DEF RowsInv, InLoop
<1>19. PrintInv' /\ PrintsMembers' /\ PrintsAllMembers'
  BY <1>1 DEF PrintInv, PrintsMembers, PrintsAllMembers, Returned
<1> QED
  BY <1>9, <1>10, <1>11, <1>12, <1>14, <1>17, <1>18, <1>19 DEF IInv

\* The nodes are counted: a row is allocated for each of them.
LEMMA CountEndsHolds ==
  ASSUME IInv, ListingEnds, fn = "count"
  PROVE  IInv'
<1> USE DEF listing, others, failures
<1>1. /\ pc = "next" /\ InLoop /\ TypeOK /\ LoopInv /\ ~overrun /\ handles = 2 /\ printed = <<>>
      /\ UNCHANGED <<status, pos, prev, total, i, local_nodeid, printed, memory, grown, quiet, had,
                     overrun>>
      /\ fn' = "none" /\ pc' = "locate" /\ rc' = rc /\ handles' = 0
      /\ arr' \in [1 .. total -> Garbage] /\ HadInv /\ i = -1
  BY DEF IInv, ControlInv, ListingEnds, EndOnError, FinishListing, Goto, InLoop
<1>2. \/ KeysAhead = {} /\ flawless' = flawless /\ short' = short
      \/ flawless' = FALSE /\ short' = TRUE
  BY DEF ListingEnds, EndOnError
<1>3. total \in Nat /\ arr' \in Seq(Rows) /\ Len(arr') = total /\ DOMAIN arr' = 1 .. total
  <2>1. Garbage \subseteq Rows /\ total \in Nat
    BY <1>1, NFact, GarbageRows DEF TypeOK
  <2> QED
    BY <1>1, <2>1
<1>4. TypeOK'
  <2>1. flawless' \in BOOLEAN
    <3>1. CASE flawless' = flawless
      <4>1. flawless \in BOOLEAN
        BY <1>1, Flags
      <4> QED
        BY <3>1, <4>1, Zenon
    <3>2. CASE flawless' = FALSE
      BY <3>2
    <3> QED
      BY <1>2, <3>1, <3>2
  <2>2. short' \in BOOLEAN
    <3>1. CASE short' = short
      <4>1. short \in BOOLEAN
        BY <1>1, Flags
      <4> QED
        BY <3>1, <4>1, Zenon
    <3>2. CASE short' = TRUE
      BY <3>2
    <3> QED
      BY <1>2, <3>1, <3>2
  <2>3. {grown, quiet, flawless, short, overrun}' \subseteq BOOLEAN
    BY <1>1, <2>1, <2>2, Flags
  <2> QED
    BY <1>1, <1>3, <2>3 DEF TypeOK
<1>5. ControlInv' /\ HadInv' /\ LoopInv' /\ FillInv' /\ PrintInv' /\ PrintsMembers'
      /\ PrintsAllMembers'
  BY <1>1, <1>2, SameHad DEF IInv, ControlInv, LoopInv, FillInv, PrintInv, PrintsMembers,
     PrintsAllMembers, Returned, InLoop
<1>6. CountInv'
  <2>1. PICK C \in SUBSET UpTo(prev) : Cardinality(C) = total
    BY <1>1 DEF IInv, CountInv
  <2>2. Known' = Known /\ C \in SUBSET Known
    BY <1>1, SameStatus, KnownFinite
  <2>3. ~grown /\ ~short' => total = Cardinality(Known)
    <3>1. ASSUME ~grown, KeysAhead = {} PROVE total = Cardinality(Known)
      <4>1. Known = UpTo(prev)
        BY <1>1, <3>1, LastKey
      <4> QED
        BY <1>1, <3>1, <4>1 DEF IInv, CountInv
    <3> QED
      BY <1>2, <3>1
  <2> QED
    BY <1>1, <1>3, <2>1, <2>2, <2>3 DEF CountInv, InLoop
<1>7. OverrunOnlyByGrowth'
  BY <1>1 DEF OverrunOnlyByGrowth
<1>8. RowsInv'
  <2>1. \A r \in DOMAIN arr' : arr'[r] \in Garbage' /\ arr'[r].nodeid = Unset
    BY <1>1, <1>3, SameMemory, GarbageRows
  <2> QED
    BY <1>1, <2>1 DEF RowsInv, WellFormed
<1> QED
  BY <1>4, <1>5, <1>6, <1>7, <1>8 DEF IInv

\* The rows are complete, or a request was refused.
LEMMA FillEndsHolds ==
  ASSUME IInv, ListingEnds, fn = "members"
  PROVE  IInv'
<1> USE DEF listing, others, failures
<1>1. /\ pc = "next" /\ InLoop /\ TypeOK /\ LoopInv /\ handles = 2 /\ printed = <<>>
      /\ UNCHANGED <<status, pos, prev, total, i, arr, local_nodeid, printed, memory, grown, quiet,
                     had, overrun>>
      /\ HadInv
      /\ fn' = "print" /\ pc' = "print" /\ rc' = rc /\ handles' = 0
  BY DEF IInv, ControlInv, ListingEnds, EndOnError, FinishListing, Goto, InLoop
<1>2. \/ KeysAhead = {} /\ flawless' = flawless /\ short' = short
      \/ flawless' = FALSE /\ short' = (short \/ fn = "count")
  BY DEF ListingEnds, EndOnError
<1>21. short' \in BOOLEAN /\ (short => short')
  <2>1. short \in BOOLEAN
    BY <1>1, Flags
  <2>2. CASE short' = short
    BY <2>1, <2>2, Zenon
  <2>3. CASE short' = (short \/ fn = "count")
    BY <2>3, Zenon
  <2> QED
    BY <1>2, <2>2, <2>3
<1>3. /\ Len(arr) \in Nat /\ DOMAIN arr = 1 .. Len(arr) /\ i \in Int /\ i >= -1 /\ prev \in Nat
  BY <1>1, RowsTyped, NFact DEF TypeOK
<1>4. TypeOK'
  <2>1. flawless' \in BOOLEAN
    <3>1. CASE flawless' = flawless
      <4>1. flawless \in BOOLEAN
        BY <1>1, Flags
      <4> QED
        BY <3>1, <4>1, Zenon
    <3>2. CASE flawless' = FALSE
      BY <3>2
    <3> QED
      BY <1>2, <3>1, <3>2
  <2>2. {grown, quiet, flawless, short, overrun}' \subseteq BOOLEAN
    BY <1>1, <1>21, <2>1, Flags
  <2> QED
    BY <1>1, <2>2 DEF TypeOK
<1>5. HadInv' /\ LoopInv' /\ CountInv' /\ FillInv' /\ PrintsMembers' /\ PrintsAllMembers'
  BY <1>1, SameHad DEF LoopInv, CountInv, FillInv, PrintsMembers, PrintsAllMembers, Returned, InLoop
<1>6. ControlInv'
  BY <1>1, <1>2 DEF IInv, ControlInv, InLoop
<1>7. OverrunOnlyByGrowth'
  BY <1>1, <1>21 DEF IInv, OverrunOnlyByGrowth
<1>8. PrintInv'
  BY <1>1, <1>3 DEF PrintInv
<1>9. ASSUME KeysAhead = {}, flawless, ~overrun
      PROVE  /\ Len(arr) = i + 1 /\ \A r \in DOMAIN arr : Filled(arr[r])
             /\ quiet => {arr[r].nodeid : r \in DOMAIN arr} = Known
  <2>1. Known = UpTo(prev) /\ pos % 2 = 0
    BY <1>1, <1>9, LastKey
  <2>2. Len(arr) <= i + 1
    <3>1. PICK C \in SUBSET Known : /\ Cardinality(C) = Len(arr)
                                    /\ Cardinality({m \in C : m <= prev}) <= i + 1
      BY <1>1 DEF IInv, CountInv
    <3>2. {m \in C : m <= prev} = C
      BY <2>1, <3>1 DEF UpTo
    <3> QED
      BY <3>1, <3>2
  <2>3. /\ i + 1 <= Len(arr)
        /\ \A r \in DOMAIN arr : r <= i + 1 => arr[r].nodeid \in 1 .. prev
        /\ \A r \in DOMAIN arr : r <= i => Filled(arr[r])
        /\ i >= 0 => arr[i + 1].ip = prev /\ arr[i + 1].status \in had[prev]
                     /\ arr[i + 1].nodeid = prev
        /\ quiet => {arr[r].nodeid : r \in 1 .. i + 1} = UpTo(prev)
    BY <1>1, <1>9, <2>1 DEF IInv, FillInv
  <2>4. Len(arr) = i + 1 /\ DOMAIN arr = 1 .. i + 1
    <3>1. i + 1 <= Len(arr) /\ i + 1 \in Int
      BY <1>3, <2>3
    <3>2. Len(arr) \in Nat
      BY <1>3
    <3>3. Len(arr) = i + 1
      BY <2>2, <3>1, <3>2
    <3> QED
      BY <1>3, <3>3
  <2>5. ASSUME NEW r \in DOMAIN arr PROVE Filled(arr[r])
    <3>1. CASE r <= i
      BY <2>3, <3>1
    <3>2. CASE r = i + 1
      <4>1. i >= 0 /\ arr[r].nodeid \in 1 .. prev
        BY <1>3, <2>3, <2>4, <3>2
      <4>2. prev \in Nodes
        BY <1>1, <1>3, <4>1, NFact DEF TypeOK, Nodes
      <4> QED
        BY <2>3, <3>2, <4>1, <4>2 DEF Filled
    <3> QED
      BY <1>3, <2>4, <3>1, <3>2
  <2> QED
    BY <2>1, <2>3, <2>4, <2>5
<1>10. RowsInv'
  <2>1. Garbage' = Garbage /\ Left' = Left /\ Known' = Known
    BY <1>1, SameMemory, SameStatus
  <2>2. ~overrun => WellFormed(arr)'
    BY <1>1, <2>1 DEF IInv, RowsInv, WellFormed, Member
  <2>3. ~overrun => Written(arr, i + 1)'
    <3>1. prev \in 0 .. N /\ N \in Nat
      BY <1>1, NFact DEF TypeOK
    <3>2. ~overrun => /\ i + 1 <= Len(arr)
                      /\ \A r \in DOMAIN arr : /\ r > i + 1 => arr[r] \in Garbage
                                               /\ r <= i + 1 => arr[r].nodeid \in 1 .. prev
      BY <1>1 DEF IInv, FillInv
    <3> QED
      BY <1>1, <1>3, <2>1, <3>1, <3>2 DEF Written, Nodes
  <2>4. ASSUME ~overrun, flawless'
        PROVE  /\ Len(arr) = i + 1 /\ \A r \in DOMAIN arr : Filled(arr[r])
               /\ quiet => {arr[r].nodeid : r \in DOMAIN arr} = Known
    BY <1>2, <1>9, <2>4
  <2> QED
    BY <1>1, <2>1, <2>2, <2>3, <2>4 DEF RowsInv, Filled
<1> QED
  BY <1>4, <1>5, <1>6, <1>7, <1>8, <1>10 DEF IInv

LEMMA ListingEndsHolds ==
  ASSUME IInv, ListingEnds
  PROVE  IInv'
<1>1. fn \in {"count", "members"}
  BY DEF IInv, ControlInv, ListingEnds
<1> QED
  BY <1>1, CountEndsHolds, FillEndsHolds

\* get_members begins, with the id of the local node or without it.
LEMMA LocateHolds ==
  ASSUME IInv, Locate
  PROVE  IInv'
<1> USE DEF listing, others, failures
<1>1. /\ pc = "locate" /\ fn = "none" /\ ~InLoop /\ TypeOK /\ ~overrun /\ handles = 0
      /\ printed = <<>>
      /\ UNCHANGED <<status, handles, pos, prev, total, i, arr, printed, memory, grown, quiet, had,
                     short, overrun>>
      /\ HadInv /\ i = -1
      /\ fn' = "members" /\ pc' = "open" /\ rc' = rc
  BY DEF IInv, ControlInv, Locate, Goto, InLoop, Refused
<1>2. \/ local_nodeid' = LocalNode /\ flawless' = flawless
      \/ local_nodeid' = local_nodeid /\ flawless' = FALSE
  BY DEF Locate, Refused
<1>3. TypeOK'
  <2>1. flawless' \in BOOLEAN
    <3>1. CASE flawless' = flawless
      <4>1. flawless \in BOOLEAN
        BY <1>1, Flags
      <4> QED
        BY <3>1, <4>1, Zenon
    <3>2. CASE flawless' = FALSE
      BY <3>2
    <3> QED
      BY <1>2, <3>1, <3>2
  <2>2. {grown, quiet, flawless, short, overrun}' \subseteq BOOLEAN
    BY <1>1, <2>1, Flags
  <2>3. local_nodeid' \in {Unset, LocalNode}
    BY <1>1, <1>2 DEF TypeOK
  <2> QED
    BY <1>1, <2>2, <2>3 DEF TypeOK
<1>4. ControlInv' /\ HadInv' /\ LoopInv' /\ FillInv' /\ PrintInv' /\ PrintsMembers'
      /\ PrintsAllMembers'
  BY <1>1, <1>2, SameHad DEF IInv, ControlInv, LoopInv, FillInv, PrintInv, PrintsMembers,
     PrintsAllMembers, Returned, InLoop
<1>5. CountInv'
  <2>1. Known' = Known
    BY <1>1, SameStatus
  <2>2. /\ \E C \in SUBSET Known : Cardinality(C) = Len(arr)
        /\ ~grown /\ ~short => Len(arr) = Cardinality(Known)
    BY <1>1 DEF IInv, CountInv
  <2> QED
    BY <1>1, <2>1, <2>2 DEF CountInv, InLoop
<1>6. OverrunOnlyByGrowth'
  BY <1>1 DEF OverrunOnlyByGrowth
<1>7. RowsInv'
  BY <1>1, SameMemory DEF IInv, RowsInv, WellFormed, Member, InLoop
<1> QED
  BY <1>3, <1>4, <1>5, <1>6, <1>7 DEF IInv

\* The next line shows the next row.
LEMMA PrintRowHolds ==
  ASSUME IInv, PrintRow
  PROVE  IInv'
<1> USE DEF listing, others, failures
<1>1. /\ pc = "print" /\ fn = "print" /\ TypeOK /\ Len(printed) < Len(arr)
      /\ UNCHANGED <<status, fn, pc, handles, pos, prev, total, i, arr, local_nodeid, rc, memory,
                     grown, quiet, had, overrun>>
      /\ HadInv
  BY DEF IInv, ControlInv, PrintRow
<1> DEFINE row == arr[Len(printed) + 1]
<1>2. PICK votes \in BOOLEAN,
           local \in IF Unset \in {row.nodeid, local_nodeid} THEN BOOLEAN
                     ELSE {row.nodeid = local_nodeid} :
        /\ IF votes THEN UNCHANGED failures ELSE Refused
        /\ printed' = Append(printed, [row |-> row, votes |-> votes, local |-> local])
  BY DEF PrintRow
<1>3. /\ Len(arr) \in Nat /\ DOMAIN arr = 1 .. Len(arr)
      /\ Len(printed) \in Nat /\ DOMAIN printed = 1 .. Len(printed)
      /\ \A r \in DOMAIN arr : arr[r] \in Rows
  BY <1>1, RowsTyped
<1>4. Len(printed) + 1 \in DOMAIN arr /\ row \in Rows
  BY <1>1, <1>3
<1>5. local \in BOOLEAN
  <2>1. CASE Unset \in {row.nodeid, local_nodeid}
    BY <1>2, <2>1, Zenon
  <2>2. CASE Unset \notin {row.nodeid, local_nodeid}
    <3>1. local = (row.nodeid = local_nodeid)
      BY <1>2, <2>2, Zenon
    <3> QED
      BY <3>1
  <2> QED
    BY <2>1, <2>2
<1> DEFINE line == [row |-> row, votes |-> votes, local |-> local]
<1>6. line \in [row : Rows, votes : BOOLEAN, local : BOOLEAN]
  BY <1>2, <1>4, <1>5
<1> HIDE DEF line
<1>7. /\ printed' \in Seq([row : Rows, votes : BOOLEAN, local : BOOLEAN])
      /\ Len(printed') = Len(printed) + 1 /\ DOMAIN printed' = 1 .. Len(printed) + 1
      /\ printed'[Len(printed) + 1] = line
      /\ \A n \in 1 .. Len(printed) : printed'[n] = printed[n]
  <2>1. printed' = Append(printed, line)
    BY <1>2 DEF line
  <2>2. printed \in Seq([row : Rows, votes : BOOLEAN, local : BOOLEAN])
    BY <1>1 DEF TypeOK
  <2> QED
    BY <1>3, <1>6, <2>1, <2>2, AppendProperties
<1>8. /\ \/ votes /\ flawless' = flawless
         \/ flawless' = FALSE
      /\ short' = short
  BY <1>2 DEF Refused
<1>9. TypeOK'
  <2>1. flawless' \in BOOLEAN
    <3>1. CASE flawless' = flawless
      <4>1. flawless \in BOOLEAN
        BY <1>1, Flags
      <4> QED
        BY <3>1, <4>1, Zenon
    <3>2. CASE flawless' = FALSE
      BY <3>2
    <3> QED
      BY <1>8, <3>1, <3>2
  <2>2. {grown, quiet, flawless, short, overrun}' \subseteq BOOLEAN
    BY <1>1, <1>8, <2>1, Flags
  <2> QED
    BY <1>1, <1>7, <2>2 DEF TypeOK
<1>10. flawless' => flawless /\ votes
  BY <1>8
<1>11. ControlInv' /\ HadInv' /\ LoopInv' /\ CountInv' /\ FillInv' /\ PrintsMembers'
       /\ PrintsAllMembers'
  BY <1>1, <1>8, <1>10, SameHad DEF IInv, ControlInv, LoopInv, CountInv, FillInv, PrintsMembers,
     PrintsAllMembers, Returned, InLoop
<1>12. OverrunOnlyByGrowth'
  BY <1>1, <1>8 DEF IInv, OverrunOnlyByGrowth
<1>13. RowsInv'
  <2>1. Known' = Known /\ Garbage' = Garbage /\ Left' = Left
    BY <1>1, SameStatus, SameMemory
  <2> QED
    BY <1>1, <1>10, <2>1 DEF IInv, RowsInv, WellFormed, Member, Written, InLoop, Filled
<1>14. ASSUME flawless', quiet PROVE local <=> row.nodeid = LocalNode
  <2>1. flawless /\ ~grown /\ ~overrun /\ local_nodeid = LocalNode
    BY <1>1, <1>10, <1>14 DEF IInv, ControlInv, OverrunOnlyByGrowth
  <2>2. row.nodeid # Unset
    BY <1>1, <1>4, <2>1, NFact DEF IInv, RowsInv, Filled, Nodes, Unset
  <2>3. LocalNode # Unset
    BY NFact DEF Nodes, Unset
  <2>4. local = (row.nodeid = local_nodeid)
    BY <1>2, <2>1, <2>2, <2>3, Zenon
  <2> QED
    BY <2>1, <2>4, Zenon
<1>15. PrintInv'
  <2>1. Len(printed') <= Len(arr')
    BY <1>1, <1>3, <1>7
  <2>2. ASSUME NEW n \in 1 .. Len(printed)
        PROVE  /\ printed'[n].row = arr'[n]
               /\ flawless' /\ quiet' =>
                    printed'[n].votes /\ (printed'[n].local <=> arr'[n].nodeid = LocalNode)
    <3>1. n \in DOMAIN printed /\ printed'[n] = printed[n]
      BY <1>3, <1>7
    <3> QED
      BY <1>1, <1>10, <3>1 DEF IInv, PrintInv
  <2>3. ASSUME NEW n, n = Len(printed) + 1
        PROVE  /\ printed'[n].row = arr'[n]
               /\ flawless' /\ quiet' =>
                    printed'[n].votes /\ (printed'[n].local <=> arr'[n].nodeid = LocalNode)
    <3>1. printed'[n] = line /\ line.row = row /\ line.votes = votes /\ line.local = local
      BY <1>7, <2>3 DEF line
    <3>2. arr' = arr /\ quiet' = quiet /\ arr'[n] = row
      BY <1>1, <2>3
    <3>3. printed'[n].row = arr'[n]
      BY <3>1, <3>2
    <3>4. ASSUME flawless', quiet
          PROVE  printed'[n].votes /\ (printed'[n].local <=> arr'[n].nodeid = LocalNode)
      <4>1. votes /\ (local <=> row.nodeid = LocalNode)
        BY <1>10, <1>14, <3>4
      <4> QED
        BY <3>1, <3>2, <4>1, Zenon
    <3> QED
      BY <3>2, <3>3, <3>4, Zenon
  <2>4. \A n \in DOMAIN printed' : n \in 1 .. Len(printed) \/ n = Len(printed) + 1
    BY <1>3, <1>7
  <2> QED
    BY <2>1, <2>2, <2>3, <2>4 DEF PrintInv
<1> QED
  BY <1>9, <1>11, <1>12, <1>13, <1>15 DEF IInv

\* Every row has been printed.
LEMMA DoneHolds ==
  ASSUME IInv, Done
  PROVE  IInv'
<1> USE DEF listing, others, failures
<1>1. /\ pc = "print" /\ fn = "print" /\ TypeOK /\ handles = 0 /\ Len(printed) = Len(arr)
      /\ UNCHANGED <<status, handles, pos, prev, total, i, local_nodeid, printed, memory, grown,
                     quiet, had, flawless, short, overrun>>
      /\ fn' = "none" /\ pc' = "idle" /\ rc' = "CS_OK" /\ arr' = <<>>
  BY DEF IInv, ControlInv, Done, Return
<1>2. /\ DOMAIN arr = DOMAIN printed /\ \A n \in DOMAIN printed : printed[n].row = arr[n]
      /\ DOMAIN printed = 1 .. Len(printed)
  BY <1>1, RowsTyped DEF IInv, PrintInv
<1>3. TypeOK'
  BY <1>1 DEF TypeOK
<1>4. ControlInv' /\ HadInv' /\ LoopInv' /\ CountInv' /\ FillInv' /\ PrintInv'
      /\ OverrunOnlyByGrowth'
  BY <1>1 DEF IInv, ControlInv, HadInv, LoopInv, CountInv, FillInv, PrintInv, OverrunOnlyByGrowth, InLoop
<1>5. RowsInv'
  BY <1>1 DEF RowsInv, WellFormed, Member, InLoop
<1>6. PrintsMembers'
  <2>1. SUFFICES ASSUME ~overrun
                 PROVE  /\ flawless => Len(printed) = i + 1
                        /\ \A n \in DOMAIN printed :
                             LET row == printed[n].row IN
                             IF n > i + 1 THEN row \in Garbage
                             ELSE /\ row.nodeid \in Nodes /\ Member(row.nodeid)
                                  /\ n > 1 => printed[n - 1].row.nodeid < row.nodeid
                                  /\ row.ip = row.nodeid \/ (~flawless /\ row.ip = Unset)
                                  /\ \/ row.status \in had[row.nodeid]
                                     \/ ~flawless /\ row.status \in Left
    BY <1>1, SameMemory DEF PrintsMembers, Member
  <2>2. /\ WellFormed(arr) /\ Written(arr, i + 1)
        /\ flawless => Len(arr) = i + 1 /\ \A r \in DOMAIN arr : Filled(arr[r])
    BY <1>1, <2>1 DEF IInv, RowsInv
  <2>3. ASSUME NEW n \in DOMAIN printed, ~(n > i + 1)
        PROVE  /\ arr[n].nodeid \in Nodes /\ arr[n].nodeid # Unset /\ Member(arr[n].nodeid)
               /\ n > 1 => printed[n - 1].row.nodeid < arr[n].nodeid
               /\ arr[n].ip = arr[n].nodeid \/ (~flawless /\ arr[n].ip = Unset)
               /\ \/ arr[n].status \in had[arr[n].nodeid]
                  \/ ~flawless /\ arr[n].status \in Left
    <3>1. arr[n].nodeid \in Nodes /\ arr[n].nodeid # Unset /\ arr[n].nodeid \in Nat
      BY <1>2, <2>2, <2>3, NFact DEF Written, Nodes, Unset
    <3>2. n > 1 => n - 1 \in DOMAIN printed
      BY <1>1, <1>2, RowsTyped
    <3>3. n > 1 => printed[n - 1].row.nodeid < arr[n].nodeid
      BY <1>2, <2>2, <3>1, <3>2 DEF WellFormed
    <3> QED
      BY <1>2, <2>2, <3>1, <3>3 DEF WellFormed, Filled
  <2>4. ASSUME NEW n \in DOMAIN printed, n > i + 1 PROVE printed[n].row \in Garbage
    BY <1>2, <2>2, <2>4 DEF Written
  <2> QED
    BY <1>1, <1>2, <2>2, <2>3, <2>4
<1>7. PrintsAllMembers'
  <2>1. SUFFICES ASSUME flawless, quiet
                 PROVE  /\ {printed[n].row.nodeid : n \in DOMAIN printed} = Known
                        /\ \A n \in DOMAIN printed :
                             /\ printed[n].row.status = status[printed[n].row.nodeid]
                             /\ printed[n].votes
                             /\ printed[n].local <=> printed[n].row.nodeid = LocalNode
    BY <1>1 DEF PrintsAllMembers, Known, Member
  <2>2. ~overrun
    BY <2>1 DEF IInv, ControlInv, OverrunOnlyByGrowth
  <2>3. /\ {arr[r].nodeid : r \in DOMAIN arr} = Known
        /\ \A r \in DOMAIN arr : Filled(arr[r])
        /\ \A n \in Nodes : had[n] = {status[n]} \ {"none"}
    BY <1>1, <2>1, <2>2 DEF IInv, RowsInv, HadInv
  <2>4. \A n \in DOMAIN printed :
          printed[n].votes /\ (printed[n].local <=> arr[n].nodeid = LocalNode)
    BY <1>1, <2>1 DEF IInv, PrintInv
  <2> QED
    BY <1>2, <2>3, <2>4 DEF Filled
<1> QED
  BY <1>3, <1>4, <1>5, <1>6, <1>7 DEF IInv

-----------------------------------------------------------------------------
(* The theorems                                                            *)

\* Each property of the module and what it takes to keep it.
THEOREM Inductive == Spec => []IInv
<1>1. ASSUME IInv, Next PROVE IInv'
  BY <1>1, CallHolds, InitializeHolds, IterInitHolds, CountNextHolds, MembersNextHolds,
     ValueHolds, ListingEndsHolds, LocateHolds, PrintRowHolds, DoneHolds, EnvHolds
  DEF Next, Step
<1>2. ASSUME IInv, UNCHANGED vars PROVE IInv'
  <2>1. UNCHANGED <<status, fn, pc, handles, pos, prev, total, i, arr, local_nodeid, printed, rc,
                    memory, grown, quiet, had, flawless, short, overrun>>
    BY <1>2 DEF vars, listing, others, failures
  <2>2. /\ Known' = Known /\ \A p : UpTo(p)' = UpTo(p)
        /\ Garbage' = Garbage /\ Left' = Left
    BY <2>1, SameStatus, SameMemory
  <2>3. TypeOK' /\ ControlInv' /\ HadInv' /\ LoopInv' /\ OverrunOnlyByGrowth'
    BY <1>2, <2>1 DEF IInv, TypeOK, ControlInv, HadInv, LoopInv, OverrunOnlyByGrowth, InLoop,
       NodeOf, Member
  <2>4. CountInv'
    BY <1>2, <2>1, <2>2 DEF IInv, CountInv, InLoop
  <2>5. FillInv'
    BY <1>2, <2>1, <2>2 DEF IInv, FillInv, InLoop, Filled
  <2>6. RowsInv' /\ PrintInv'
    BY <1>2, <2>1, <2>2 DEF IInv, RowsInv, PrintInv, WellFormed, Member, Written, InLoop, Filled
  <2>7. PrintsMembers' /\ PrintsAllMembers'
    BY <1>2, <2>1, <2>2 DEF IInv, PrintsMembers, PrintsAllMembers, Returned, Member
  <2> QED
    BY <2>3, <2>4, <2>5, <2>6, <2>7 DEF IInv
<1> QED
  BY InitHolds, <1>1, <1>2, PTL DEF Spec

\* The variables of a listing have their types, and neither loop takes more
\* nodes than there are.
THEOREM TypeCorrect == Spec => []TypeOK
<1>1. IInv => TypeOK
  BY DEF IInv
<1> QED
  BY Inductive, <1>1, PTL

\* print_membership closes every connection and iterator it opened.
THEOREM NoLeak == Spec => []NoHandleLeak
<1>1. IInv => NoHandleLeak
  BY DEF IInv, ControlInv, NoHandleLeak
<1> QED
  BY Inductive, <1>1, PTL

\* get_members stays within the array of get_member_count, unless a node joined for the
\* first time during the call or the count was cut short by an error.
THEOREM OverrunsOnlyThen == Spec => []OverrunOnlyByGrowth
<1>1. IInv => OverrunOnlyByGrowth
  BY DEF IInv
<1> QED
  BY Inductive, <1>1, PTL

\* A call that overran nothing prints nodes in the order of their keys, each with its own
\* ip and a status it had during the call, except what a refused request left unwritten;
\* lines of rows nobody wrote come last, and only if a request was refused.
THEOREM PrintsRight == Spec => []PrintsMembers
<1>1. IInv => PrintsMembers
  BY DEF IInv
<1> QED
  BY Inductive, <1>1, PTL

\* An undisturbed call prints every member as it is.
THEOREM PrintsAll == Spec => []PrintsAllMembers
<1>1. IInv => PrintsAllMembers
  BY DEF IInv
<1> QED
  BY Inductive, <1>1, PTL
=============================================================================
