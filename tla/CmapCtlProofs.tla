--------------------------- MODULE CmapCtlProofs ----------------------------
(***************************************************************************)
(* Theorems about CmapCtl, for any processes, keys, types and values, and  *)
(* whether or not cmap refuses requests.                                   *)
(***************************************************************************)
EXTENDS CmapCtl, TLAPS

Returning == {"none", "set", "get", "delete"}

\* The steps a function has, and when it has a connection open.
ControlInv(p) ==
  /\ fn[p] = "none" <=> pc[p] = "idle"
  /\ pc[p] \in {"check", "store"} => fn[p] = "set"
  /\ pc[p] \in {"probe", "fetch"} => fn[p] \in {"get", "delete"}
  /\ pc[p] = "delete" => fn[p] = "delete"
  /\ pc[p] = "fetch" => want[p]
  /\ fn[p] = "set" /\ pc[p] # "check" => arg[p].type \in ValidTypes
  /\ handles[p] = IF pc[p] \in {"store", "probe", "fetch", "delete"} THEN 1 ELSE 0

\* What a get or delete holds between its requests, as long as no other process
\* changes the key: the type and the length of the entry, then the entry itself.
HeldInv(p) ==
  /\ pc[p] \in {"fetch", "delete"} => out[p].got.type \in ValidTypes
  /\ pc[p] = "fetch" /\ quiet[p] =>
       /\ out[p].got.type = map[key[p]].type
       /\ len[p] = Width[map[key[p]].type]
  /\ pc[p] = "delete" /\ want[p] /\ quiet[p] => out[p].got = map[key[p]]
  /\ pc[p] = "delete" /\ quiet[p] /\ out[p].shape # "none" =>
       (out[p].shape = "pointer" <=> out[p].got.type = "string")
  /\ pc[p] \notin {"fetch", "delete"} => out[p] = Nothing

\* What a call hands back.
AnswerInv(p) ==
  quiet[p] =>
    /\ done[p].shape # "none" =>
         (done[p].shape = "pointer" <=> done[p].got.type = "string")
    /\ done[p].rc # "CS_ERR_INVALID_PARAM"

ProcInv(p) == ControlInv(p) /\ HeldInv(p) /\ AnswerInv(p)

IInv == TypeOK /\ \A p \in Procs : ProcInv(p)

-----------------------------------------------------------------------------
(* Types                                                                   *)

\* A key that holds something holds an entry.
LEMMA PresentEntry ==
  ASSUME TypeOK, NEW p \in Procs, Present(p)
  PROVE  map[key[p]] \in Entries
  BY DEF TypeOK, Present

\* What a call can have stored, by its parts.
LEMMA StoredParts ==
  ASSUME NEW s \in Stored
  PROVE  /\ s = [got |-> s.got, shape |-> s.shape]
         /\ s.got \in Entries \cup {NoEntry} \cup [type : ValidTypes, data : {"absent"}]
         /\ s.shape \in Shapes \cup {"none"}
  BY DEF Stored, Nothing

\* Returning what was stored, or nothing, keeps the types.
LEMMA ReturnType ==
  ASSUME TypeOK, NEW p \in Procs, NEW code \in Codes, NEW stored \in Stored,
         ReturnStored(p, code, stored)
  PROVE  /\ fn' \in [Procs -> Returning] /\ pc' \in [Procs -> Steps]
         /\ arg' \in [Procs -> Args \cup {NoArg}] /\ want' \in [Procs -> BOOLEAN]
         /\ len' \in [Procs -> Nat] /\ out' \in [Procs -> Stored]
         /\ done' \in [Procs -> [fn : Returning, rc : Codes,
                                 got : Entries \cup {NoEntry}
                                       \cup [type : ValidTypes, data : {"absent"}],
                                 shape : Shapes \cup {"none"}]]
<1>1. Nothing \in Stored
  BY DEF Stored
<1>2. [fn |-> fn[p], rc |-> code, got |-> stored.got, shape |-> stored.shape]
        \in [fn : Returning, rc : Codes,
             got : Entries \cup {NoEntry} \cup [type : ValidTypes, data : {"absent"}],
             shape : Shapes \cup {"none"}]
  BY StoredParts DEF TypeOK, Returning
<1>3. done' = [done EXCEPT ![p] = [fn |-> fn[p], rc |-> code,
                                   got |-> stored.got, shape |-> stored.shape]]
  BY DEF ReturnStored
<1> QED
  BY <1>1, <1>2, <1>3 DEF TypeOK, ReturnStored, Returning, Steps

\* Before and after every request a call stores something of a known shape.
LEMMA SomethingStored ==
  /\ Nothing \in Stored
  /\ \A e \in Entries, s \in Shapes : [got |-> e, shape |-> s] \in Stored
  /\ \A t \in ValidTypes :
       [got |-> [type |-> t, data |-> "absent"], shape |-> "none"] \in Stored
  BY DEF Stored

\* A call begins with arguments of their types.
LEMMA BeginType ==
  ASSUME TypeOK, NEW p \in Procs, NEW f \in {"set", "get", "delete"},
         NEW step \in Steps, NEW k \in Keys, NEW e \in Args \cup {NoArg},
         NEW w \in BOOLEAN, Begin(p, f, step, k, e, w)
  PROVE  TypeOK'
<1>1. want' \in [Procs -> BOOLEAN] /\ quiet' \in [Procs -> BOOLEAN]
  BY Zenon DEF Begin, TypeOK
<1>2. NotDone \in [fn : Returning, rc : Codes,
                   got : Entries \cup {NoEntry} \cup [type : ValidTypes, data : {"absent"}],
                   shape : Shapes \cup {"none"}]
  BY DEF NotDone, Codes, Returning
<1> QED
  BY <1>1, <1>2 DEF TypeOK, Begin, Returning

\* No step leaves the types.
LEMMA TypeStep ==
  ASSUME IInv, NEW p \in Procs,
         \/ \E k \in Keys, e \in Args : CallSet(p, k, e)
         \/ \E k \in Keys, w \in BOOLEAN : CallGet(p, k, w) \/ CallDelete(p, k, w)
         \/ Step(p)
  PROVE  TypeOK'
<1> USE DEF IInv
<1>0. Codes = {"CS_OK", "CS_ERR", "CS_ERR_NOT_EXIST", "CS_ERR_INVALID_PARAM",
               "CL_WRONG_CMAP_TYPE"} /\ NotDone \in [fn : Returning, rc : Codes,
             got : Entries \cup {NoEntry} \cup [type : ValidTypes, data : {"absent"}],
             shape : Shapes \cup {"none"}]
  BY DEF Codes, NotDone, Returning
<1>1. ASSUME NEW k \in Keys, NEW e \in Args, CallSet(p, k, e) PROVE TypeOK'
  BY <1>1, BeginType DEF CallSet, Steps
<1>2. ASSUME NEW k \in Keys, NEW w \in BOOLEAN, CallGet(p, k, w) \/ CallDelete(p, k, w)
      PROVE  TypeOK'
  BY <1>2, BeginType DEF CallGet, CallDelete, Steps
<1>3. CASE CheckType(p)
  <2>1. CASE Goto(p, "open") /\ UNCHANGED out
    BY <1>3, <2>1 DEF CheckType, Goto, TypeOK, Steps
  <2>2. CASE Return(p, "CL_WRONG_CMAP_TYPE")
    BY <1>0, <1>3, <2>2, ReturnType, SomethingStored DEF CheckType, Return, TypeOK, Returning
  <2> QED
    BY <1>3, <2>1, <2>2 DEF CheckType
<1>4. CASE Initialize(p)
  <2>1. CASE Return(p, "CS_ERR") /\ UNCHANGED handles
    BY <1>0, <1>4, <2>1, ReturnType, SomethingStored DEF Initialize, Return, TypeOK, Returning
  <2>2. CASE /\ handles' = [handles EXCEPT ![p] = @ + 1]
             /\ Goto(p, IF fn[p] = "set" THEN "store" ELSE "probe")
             /\ UNCHANGED out
    BY <1>4, <2>2 DEF Initialize, Goto, TypeOK, Steps
  <2> QED
    BY <1>4, <2>1, <2>2 DEF Initialize
<1>5. ASSUME Finalize(p), pc[p] \in {"store", "probe", "fetch", "delete"}
      PROVE  handles' \in [Procs -> Nat]
  BY <1>5 DEF Finalize, TypeOK, ProcInv, ControlInv
<1>6. CASE Store(p)
  <2>1. pc[p] = "store" /\ Finalize(p) /\ key' = key
        /\ \E code \in Codes : ReturnStored(p, code, Nothing)
    BY <1>0, <1>6 DEF Store, Return
  <2>2. map' \in [Keys -> Entries \cup {NoEntry}] /\ quiet' \in [Procs -> BOOLEAN]
    <3>1. arg[p].type \in ValidTypes => arg[p] \in Entries
      BY CmapAssumption DEF TypeOK, Args, NoArg, Entries
    <3>2. arg[p].type \in ValidTypes
      BY <2>1 DEF ProcInv, ControlInv
    <3> QED
      BY <1>6, <3>1, <3>2 DEF Store, Change, TypeOK
  <2> QED
    BY <1>5, <2>1, <2>2, ReturnType, SomethingStored DEF TypeOK, Returning
<1>7. CASE Probe(p)
  <2>1. pc[p] = "probe" /\ UNCHANGED <<map, key, quiet>>
    BY <1>7 DEF Probe
  <2> DEFINE stored == [got |-> [type |-> map[key[p]].type, data |-> "absent"], shape |-> "none"]
  <2>2. CASE Present(p) /\ Finalize(p) /\ ReturnStored(p, "CS_OK", stored)
    <3>1. stored \in Stored
      BY <2>2, PresentEntry, SomethingStored DEF Entries
    <3> HIDE DEF stored
    <3> QED
      BY <1>0, <1>5, <2>1, <2>2, <3>1, ReturnType DEF TypeOK, Returning
  <2>3. CASE /\ Present(p)
             /\ out' = [out EXCEPT ![p] = stored]
             /\ len' = [len EXCEPT ![p] = Width[map[key[p]].type]]
             /\ pc' = [pc EXCEPT ![p] = AfterProbe(p)]
             /\ UNCHANGED <<fn, arg, want, handles, done>>
    <3>1. stored \in Stored /\ Width[map[key[p]].type] \in Nat
      BY <2>3, PresentEntry, SomethingStored, CmapAssumption DEF Entries
    <3> HIDE DEF stored
    <3> QED
      BY <2>1, <2>3, <3>1 DEF TypeOK, AfterProbe, Steps
  <2>4. CASE \E code \in Codes : Fails(p, code)
    BY <1>5, <2>1, <2>4, ReturnType, SomethingStored DEF Fails, Return, TypeOK, Returning
  <2> QED
    BY <1>0, <1>7, <2>2, <2>3, <2>4 DEF Probe
<1>8. CASE Fetch(p)
  <2>1. pc[p] = "fetch" /\ UNCHANGED <<map, key, quiet>>
    BY <1>8 DEF Fetch
  <2> DEFINE stored == [got |-> map[key[p]], shape |-> IF FetchString(p) THEN "pointer" ELSE "bytes"]
  <2>2. CASE Present(p) /\ Finalize(p) /\ ReturnStored(p, "CS_OK", stored)
    <3>1. stored \in Stored
      BY <2>2, PresentEntry, SomethingStored DEF Shapes
    <3> HIDE DEF stored
    <3> QED
      BY <1>0, <1>5, <2>1, <2>2, <3>1, ReturnType DEF TypeOK, Returning
  <2>3. CASE Present(p) /\ Goto(p, "delete") /\ out' = [out EXCEPT ![p] = stored]
             /\ UNCHANGED handles
    <3>1. stored \in Stored
      BY <2>3, PresentEntry, SomethingStored DEF Shapes
    <3> HIDE DEF stored
    <3> QED
      BY <2>1, <2>3, <3>1 DEF TypeOK, Goto, Steps
  <2>4. CASE \E code \in Codes : Fails(p, code)
    BY <1>5, <2>1, <2>4, ReturnType, SomethingStored DEF Fails, Return, TypeOK, Returning
  <2> QED
    BY <1>0, <1>8, <2>2, <2>3, <2>4 DEF Fetch
<1>9. CASE Delete(p)
  <2>1. pc[p] = "delete" /\ Finalize(p) /\ key' = key
        /\ \E code \in Codes, stored \in Stored : ReturnStored(p, code, stored)
    BY <1>0, <1>9, SomethingStored DEF Delete, Return, TypeOK
  <2>2. map' \in [Keys -> Entries \cup {NoEntry}] /\ quiet' \in [Procs -> BOOLEAN]
    BY <1>9 DEF Delete, Change, TypeOK
  <2> QED
    BY <1>5, <2>1, <2>2, ReturnType DEF TypeOK, Returning
<1> QED
  BY <1>1, <1>2, <1>3, <1>4, <1>6, <1>7, <1>8, <1>9 DEF Step

-----------------------------------------------------------------------------
(* The step of a process leaves the others as they are                     *)

\* Nothing of p's call has changed, and if its key has, p is no longer quiet.
Untouched(p) ==
  /\ fn'[p] = fn[p] /\ pc'[p] = pc[p] /\ key'[p] = key[p] /\ arg'[p] = arg[p]
  /\ want'[p] = want[p] /\ handles'[p] = handles[p] /\ len'[p] = len[p]
  /\ out'[p] = out[p] /\ done'[p] = done[p]
  /\ quiet'[p] => quiet[p] /\ map'[key[p]] = map[key[p]]

Act(p) ==
  \/ \E k \in Keys, e \in Args : CallSet(p, k, e)
  \/ \E k \in Keys, w \in BOOLEAN : CallGet(p, k, w) \/ CallDelete(p, k, w)
  \/ Step(p)

\* A write to the key of another process is a disturbance of its call.
LEMMA ChangeDisturbs ==
  ASSUME TypeOK, NEW p \in Procs, NEW q \in Procs \ {p}, NEW e, Change(q, e), quiet'[p]
  PROVE  quiet[p] /\ map'[key[p]] = map[key[p]]
<1>1. quiet'[p] = (quiet[p] /\ (p = q \/ key[p] # key[q]))
  BY Zenon DEF Change
<1>2. quiet[p] /\ key[p] # key[q]
  BY <1>1
<1> QED
  BY <1>2 DEF Change, TypeOK

LEMMA OthersUntouched ==
  ASSUME TypeOK, NEW q \in Procs, Act(q), NEW p \in Procs, p # q
  PROVE  Untouched(p)
<1> USE DEF TypeOK, Untouched, Return, ReturnStored, Goto, Finalize, Fails
<1>1. CASE \/ \E k \in Keys, e \in Args : CallSet(q, k, e)
           \/ \E k \in Keys, w \in BOOLEAN : CallGet(q, k, w) \/ CallDelete(q, k, w)
  BY <1>1 DEF CallSet, CallGet, CallDelete, Begin
<1>2. CASE CheckType(q)
  BY <1>2 DEF CheckType
<1>3. CASE Initialize(q)
  BY <1>3 DEF Initialize
<1>4. CASE Store(q)
  BY <1>4, ChangeDisturbs DEF Store
<1>5. CASE Probe(q)
  BY <1>5 DEF Probe
<1>6. CASE Fetch(q)
  BY <1>6 DEF Fetch
<1>7. CASE Delete(q)
  BY <1>7, ChangeDisturbs DEF Delete
<1> QED
  BY <1>1, <1>2, <1>3, <1>4, <1>5, <1>6, <1>7 DEF Act, Step

LEMMA UntouchedKeeps ==
  ASSUME NEW p \in Procs, ProcInv(p), Untouched(p)
  PROVE  ProcInv(p)'
  BY DEF ProcInv, ControlInv, HeldInv, AnswerInv, Untouched

-----------------------------------------------------------------------------
(* The steps of a process                                                  *)

LEMMA OwnStep ==
  ASSUME IInv, NEW p \in Procs, Act(p)
  PROVE  ProcInv(p)'
<1> USE DEF IInv, TypeOK, ProcInv, ControlInv, HeldInv, AnswerInv, Return, ReturnStored,
        Goto, Finalize, Fails, Nothing
<1>1. CASE \/ \E k \in Keys, e \in Args : CallSet(p, k, e)
           \/ \E k \in Keys, w \in BOOLEAN : CallGet(p, k, w) \/ CallDelete(p, k, w)
  BY <1>1 DEF CallSet, CallGet, CallDelete, Begin, NotDone
<1>2. CASE CheckType(p)
  BY <1>2 DEF CheckType
<1>3. CASE Initialize(p)
  BY <1>3 DEF Initialize
<1>4. CASE Store(p)
  BY <1>4 DEF Store
<1>5. CASE Probe(p)
  BY <1>5, PresentEntry DEF Probe, AfterProbe, Entries
<1>6. CASE Fetch(p)
  BY <1>6, PresentEntry DEF Fetch, FetchString, Entries
<1>7. CASE Delete(p)
  <2>1. quiet'[p] => quiet[p]
    BY <1>7, Zenon DEF Delete, Change
  <2>2. CASE Present(p) /\ Change(p, NoEntry) /\ ReturnStored(p, "CS_OK", out[p])
    BY <1>7, <2>1, <2>2 DEF Delete
  <2>3. CASE \E code \in {"CS_ERR", "CS_ERR_NOT_EXIST"} : Return(p, code)
    BY <1>7, <2>1, <2>3 DEF Delete
  <2> QED
    BY <1>7, <2>2, <2>3 DEF Delete
<1> QED
  BY <1>1, <1>2, <1>3, <1>4, <1>5, <1>6, <1>7 DEF Act, Step

-----------------------------------------------------------------------------
(* The theorems                                                            *)

\* The invariant holds at the start and is kept by every step.
THEOREM Inductive == Spec => []IInv
<1>1. Init => IInv
  <2>1. NotDone \in [fn : Returning, rc : Codes,
                     got : Entries \cup {NoEntry} \cup [type : ValidTypes, data : {"absent"}],
                     shape : Shapes \cup {"none"}]
    BY DEF NotDone, Codes, Returning
  <2>2. Init => TypeOK
    BY <2>1, SomethingStored DEF Init, TypeOK, Steps, Returning
  <2>3. Init => \A p \in Procs : ProcInv(p)
    <3> SUFFICES ASSUME Init, NEW p \in Procs PROVE ProcInv(p)
      OBVIOUS
    <3>1. /\ fn[p] = "none" /\ pc[p] = "idle" /\ handles[p] = 0
          /\ out[p] = Nothing /\ done[p] = NotDone
      BY DEF Init
    <3> QED
      BY <3>1 DEF ProcInv, ControlInv, HeldInv, AnswerInv, NotDone
  <2> QED
    BY <2>2, <2>3 DEF IInv
<1>2. IInv /\ [Next]_vars => IInv'
  <2> SUFFICES ASSUME IInv, [Next]_vars PROVE IInv'
    OBVIOUS
  <2>1. ASSUME NEW q \in Procs, Act(q) PROVE IInv'
    <3>1. TypeOK'
      BY <2>1, TypeStep DEF Act
    <3>2. ASSUME NEW p \in Procs PROVE ProcInv(p)'
      BY <2>1, OwnStep, OthersUntouched, UntouchedKeeps DEF IInv
    <3> QED
      BY <3>1, <3>2 DEF IInv
  <2>2. CASE UNCHANGED vars
    BY <2>2 DEF vars, IInv, TypeOK, ProcInv, ControlInv, HeldInv, AnswerInv
  <2> QED
    BY <2>1, <2>2 DEF Next, Act
<1> QED
  BY <1>1, <1>2, PTL DEF Spec

\* Every reachable state is typed; in particular no connection is closed twice.
THEOREM TypeCorrect == Spec => []TypeOK
  BY Inductive, PTL DEF IInv

\* Whichever request fails in whichever function, the connection is closed.
THEOREM NoLeak == Spec => []NoHandleLeak
<1>1. IInv => NoHandleLeak
  BY DEF IInv, ProcInv, ControlInv, NoHandleLeak
<1> QED
  BY <1>1, Inductive, PTL

\* The type handed back tells how the value is stored, and no value has the
\* wrong length, unless another process changed the key.
THEOREM ShapeCorrect == Spec => []ShapeFollowsType
<1>1. IInv => ShapeFollowsType
  BY DEF IInv, ProcInv, AnswerInv, ShapeFollowsType
<1> QED
  BY <1>1, Inductive, PTL

\* A delete that nobody disturbs hands back the entry that it removes.
THEOREM DeleteCorrect == Spec => QuietDeleteReturnsVictim
<1> DEFINE Victim == \A p \in Procs : Deletes(p) /\ want[p] /\ quiet[p] => done'[p].got = map[key[p]]
<1>1. IInv /\ [Next]_vars => [Victim]_vars
  <2> SUFFICES ASSUME IInv, NEW q \in Procs, Act(q),
                      NEW p \in Procs, Deletes(p), want[p], quiet[p]
               PROVE  done'[p].got = map[key[p]]
    BY DEF Next, Act
  <2>1. p = q
    BY OthersUntouched DEF IInv, Untouched, Deletes
  <2>2. Step(p)
    BY <2>1 DEF Act, CallSet, CallGet, CallDelete, Begin, Deletes
  <2>3. Delete(p)
    BY <2>2 DEF IInv, ProcInv, ControlInv, TypeOK, Step, CheckType, Initialize, Store, Probe, Fetch, Deletes,
       Return, ReturnStored, Goto, Fails, Finalize
  <2> QED
    BY <2>3 DEF IInv, ProcInv, HeldInv, TypeOK, Delete, Deletes, Return, ReturnStored
<1> QED
  BY <1>1, Inductive, PTL DEF Spec, QuietDeleteReturnsVictim

-----------------------------------------------------------------------------
(* CmapCtl implements CmapRegisters                                        *)

\* A return with an error has changed nothing.
LEMMA ErrorIsFail ==
  ASSUME NEW p \in Procs, fn[p] \in {"set", "get", "delete"}, UNCHANGED map,
         NEW code \in Codes \ {"CS_OK"}, Return(p, code)
  PROVE  Registers!Fail(p, fn[p], code)
  BY DEF Return, ReturnStored, Nothing, Registers!Fail, Registers!Completes

\* Every step is one of CmapRegisters by the same process, or a stutter.
LEMMA StepImplements ==
  ASSUME IInv, NEW p \in Procs, Act(p)
  PROVE  [Registers!Next]_<<map, done>>
<1>1. CASE \/ \E k \in Keys, e \in Args : CallSet(p, k, e)
           \/ \E k \in Keys, w \in BOOLEAN : CallGet(p, k, w) \/ CallDelete(p, k, w)
  <2>1. Registers!Begin(p)
    BY <1>1 DEF CallSet, CallGet, CallDelete, Begin, NotDone, Registers!Begin, Registers!NotDone
  <2> QED
    BY <2>1 DEF Registers!Next
<1>2. ASSUME UNCHANGED map, pc[p] # "idle", NEW code \in Codes \ {"CS_OK"}, Return(p, code)
      PROVE  Registers!Next
  <2>1. fn[p] \in {"set", "get", "delete"}
    BY <1>2 DEF IInv, TypeOK, ProcInv, ControlInv
  <2> QED
    BY <1>2, <2>1, ErrorIsFail DEF Registers!Next
<1>3. CASE CheckType(p)
  BY <1>2, <1>3 DEF CheckType, Goto, Codes
<1>4. CASE Initialize(p)
  BY <1>2, <1>4 DEF Initialize, Goto, Codes
<1>5. CASE Store(p)
  <2>1. CASE Change(p, arg[p]) /\ Return(p, "CS_OK")
    <3>1. fn[p] = "set" /\ arg[p] \in Entries /\ key[p] \in Keys
      <4>1. fn[p] = "set" /\ arg[p].type \in ValidTypes
        BY <1>5 DEF Store, IInv, ProcInv, ControlInv
      <4>2. arg[p] \in Args \cup {NoArg} /\ key[p] \in Keys
        BY DEF IInv, TypeOK
      <4> QED
        BY <4>1, <4>2, CmapAssumption DEF Args, NoArg, Entries
    <3>2. Registers!Set(p, key[p], arg[p])
      BY <2>1, <3>1 DEF Change, Return, ReturnStored, Nothing, Registers!Set, Registers!Completes
    <3> QED
      BY <3>1, <3>2 DEF Registers!Next
  <2> QED
    BY <1>2, <1>5, <2>1 DEF Store, Codes
<1>6. CASE Probe(p)
  <2>1. CASE Present(p) /\ fn[p] = "get"
             /\ ReturnStored(p, "CS_OK", [got |-> [type |-> map[key[p]].type, data |-> "absent"],
                                          shape |-> "none"])
    <3>1. map[key[p]] \in Entries /\ map[key[p]] # NoEntry /\ key[p] \in Keys
      BY <2>1, PresentEntry DEF IInv, TypeOK, Present
    <3>2. [type |-> map[key[p]].type, data |-> "absent"] = [map[key[p]] EXCEPT !.data = "absent"]
      BY <3>1 DEF Entries
    <3>3. Registers!Get(p, key[p], "bytes")
      BY <1>6, <2>1, <3>1, <3>2 DEF Probe, ReturnStored, Registers!Get, Registers!Completes
    <3> QED
      BY <3>1, <3>3 DEF Registers!Next, Shapes
  <2> QED
    BY <1>2, <1>6, <2>1 DEF Probe, Fails, Codes
<1>7. CASE Fetch(p)
  <2>1. CASE Present(p) /\ fn[p] = "get"
             /\ ReturnStored(p, "CS_OK", [got |-> map[key[p]],
                                shape |-> IF FetchString(p) THEN "pointer" ELSE "bytes"])
    <3>1. map[key[p]] # NoEntry /\ key[p] \in Keys
      BY <2>1 DEF IInv, TypeOK, Present
    <3> DEFINE s == IF FetchString(p) THEN "pointer" ELSE "bytes"
    <3>2. s \in Shapes
      BY DEF Shapes
    <3>3. Registers!Get(p, key[p], s)
      BY <1>7, <2>1, <3>1, <3>2 DEF Fetch, ReturnStored, Registers!Get, Registers!Completes
    <3> QED
      BY <3>1, <3>2, <3>3 DEF Registers!Next
  <2> QED
    BY <1>2, <1>7, <2>1 DEF Fetch, Fails, Goto, Codes
<1>8. CASE Delete(p)
  <2>1. CASE Present(p) /\ Change(p, NoEntry) /\ ReturnStored(p, "CS_OK", out[p])
    <3>1. fn[p] = "delete" /\ map[key[p]] # NoEntry /\ key[p] \in Keys
      BY <1>8, <2>1 DEF Delete, IInv, TypeOK, ProcInv, ControlInv, Present
    <3>2. /\ out[p].got \in Entries \cup {[x EXCEPT !.data = "absent"] : x \in Entries}
          /\ out[p].shape \in Shapes \cup {"none"}
      <4>1. out[p] \in Stored /\ out[p].got.type \in ValidTypes
        BY <1>8 DEF Delete, IInv, TypeOK, ProcInv, HeldInv
      <4>2. out[p] # Nothing
        BY <4>1, CmapAssumption DEF Nothing, NoEntry
      <4>3. CASE out[p] \in [got : [type : ValidTypes, data : {"absent"}], shape : {"none"}]
        <5>1. map[key[p]].data \in Data
          BY <2>1, PresentEntry DEF IInv, Entries
        <5> DEFINE x == [type |-> out[p].got.type, data |-> map[key[p]].data]
        <5>2. x \in Entries /\ out[p].got = [x EXCEPT !.data = "absent"]
          BY <4>1, <4>3, <5>1 DEF Entries
        <5> QED
          BY <4>3, <5>2
      <4> QED
        BY <4>1, <4>2, <4>3 DEF Stored
    <3>3. Registers!Delete(p, key[p])
      BY <1>8, <2>1, <3>1, <3>2 DEF Change, ReturnStored, Registers!Delete, Registers!Completes
    <3> QED
      BY <3>1, <3>3 DEF Registers!Next
  <2> QED
    BY <1>2, <1>8, <2>1 DEF Delete, Codes
<1> QED
  BY <1>1, <1>3, <1>4, <1>5, <1>6, <1>7, <1>8 DEF Act, Step

\* Whatever the processes interleave, every call acts on cmap at one instant:
\* a set, a get and a delete when their last request is answered, and one that
\* fails not at all.
THEOREM Implements == Spec => RegistersSpec
<1>1. Init => Registers!Init
  BY DEF Init, NotDone, Registers!Init, Registers!NotDone
<1>2. IInv /\ [Next]_vars => [Registers!Next]_<<map, done>>
  <2>1. ASSUME IInv, Next PROVE [Registers!Next]_<<map, done>>
    BY <2>1, StepImplements DEF Next, Act
  <2> QED
    BY <2>1 DEF vars
<1> QED
  BY <1>1, <1>2, Inductive, PTL DEF Spec, RegistersSpec, Registers!Spec
=============================================================================
