------------------------------ MODULE CmapCtl -------------------------------
(***************************************************************************)
(* set_cmap_value, get_cmap_value and delete_cmap_value of                 *)
(* client_cmapctl.c, called by several processes on one cmap.              *)
(*                                                                         *)
(* get and delete first ask for the type of the key (the probe), then for  *)
(* its value in a way that depends on that type (the fetch); delete then   *)
(* removes the key.  Each request is a step of its own, so another process *)
(* can replace or remove the entry between any two of them.                *)
(***************************************************************************)
EXTENDS Integers

CONSTANTS
  Procs,       \* processes that use the functions
  Keys,        \* cmap keys
  ValidTypes,  \* the cmap_value_types_t 1 .. 11; "string" is one of them
  Data,        \* values of an entry
  Width,       \* length of an entry of each type
  MayFail      \* may the cmap service refuse connections and requests?

\* The contents of a key; the value of an entry that was not read is "absent".
Entries == [type : ValidTypes, data : Data]
NoEntry == [type |-> "absent", data |-> "absent"]

\* A caller may pass a type outside 1 .. 11.
Args == [type : ValidTypes \cup {"invalid"}, data : Data]

ASSUME CmapAssumption ==
  /\ "string" \in ValidTypes /\ "absent" \notin ValidTypes /\ "invalid" \notin ValidTypes
  /\ "absent" \notin Data
  /\ Width \in [ValidTypes -> Nat]
  /\ MayFail \in BOOLEAN

Codes  == {"CS_OK", "CS_ERR", "CS_ERR_NOT_EXIST", "CS_ERR_INVALID_PARAM",
           "CL_WRONG_CMAP_TYPE"}
Steps  == {"idle", "check", "open", "store", "probe", "fetch", "delete"}
Shapes == {"bytes", "pointer"}

VARIABLES
  map,      \* cmap: the entry under each key
  fn, pc,   \* function a process is in and its next step
  key, arg, \* key_name; the type and value to set
  want,     \* is the value pointer of get or delete not NULL?
  handles,  \* cmap connections the process has open
  len,      \* the local len of get and delete
  out,      \* what *type and *value hold: an entry and how its value is stored
  done,     \* the completed call, its code and what it stored, till the next
  quiet     \* history: no other process changed the key since the call began

vars == <<map, fn, pc, key, arg, want, handles, len, out, done, quiet>>

NoArg == [type |-> "invalid", data |-> "absent"]
NotDone == [fn |-> "none", rc |-> "CS_OK", got |-> NoEntry, shape |-> "none"]
Nothing == [got |-> NoEntry, shape |-> "none"]

Present(p) == map[key[p]] # NoEntry

-----------------------------------------------------------------------------
Init ==
  /\ map = [k \in Keys |-> NoEntry]
  /\ fn = [p \in Procs |-> "none"]
  /\ pc = [p \in Procs |-> "idle"]
  /\ key \in [Procs -> Keys]
  /\ arg = [p \in Procs |-> NoArg]
  /\ want = [p \in Procs |-> FALSE]
  /\ handles = [p \in Procs |-> 0]
  /\ len = [p \in Procs |-> 0]
  /\ out = [p \in Procs |-> Nothing]
  /\ done = [p \in Procs |-> NotDone]
  /\ quiet = [p \in Procs |-> TRUE]

Goto(p, step) ==
  pc' = [pc EXCEPT ![p] = step] /\ UNCHANGED <<fn, arg, want, len, done>>

\* The function returns code; on CS_OK the caller may use what it stored.  Its
\* locals and arguments are gone.
ReturnStored(p, code, stored) ==
  /\ fn' = [fn EXCEPT ![p] = "none"]
  /\ pc' = [pc EXCEPT ![p] = "idle"]
  /\ arg' = [arg EXCEPT ![p] = NoArg]
  /\ want' = [want EXCEPT ![p] = FALSE]
  /\ len' = [len EXCEPT ![p] = 0]
  /\ out' = [out EXCEPT ![p] = Nothing]
  /\ done' = [done EXCEPT ![p] = [fn |-> fn[p], rc |-> code,
                                  got |-> stored.got, shape |-> stored.shape]]

Return(p, code) == ReturnStored(p, code, Nothing)

Finalize(p) == handles' = [handles EXCEPT ![p] = @ - 1]

\* Fault: the error path finalizes twice.
FailsTwice(p, code) == handles' = [handles EXCEPT ![p] = @ - 2] /\ Return(p, code)

\* Fault: the error path does not finalize.
FailsOpen(p, code) == UNCHANGED handles /\ Return(p, code)

\* A request fails: finalize, return cs_err.
Fails(p, code) == Finalize(p) /\ Return(p, code)

\* map[key[p]] becomes e: the other calls on that key are disturbed.
Change(p, e) ==
  /\ map' = [map EXCEPT ![key[p]] = e]
  /\ quiet' = [q \in Procs |-> quiet[q] /\ (q = p \/ key[q] # key[p])]

Begin(p, f, step, k, e, w) ==
  /\ fn[p] = "none"
  /\ fn' = [fn EXCEPT ![p] = f]
  /\ pc' = [pc EXCEPT ![p] = step]
  /\ key' = [key EXCEPT ![p] = k]
  /\ arg' = [arg EXCEPT ![p] = e]
  /\ want' = [want EXCEPT ![p] = w]
  /\ done' = [done EXCEPT ![p] = NotDone]
  /\ quiet' = [quiet EXCEPT ![p] = TRUE]
  /\ UNCHANGED <<map, handles, len, out>>

CallSet(p, k, e) == Begin(p, "set", "check", k, e, FALSE)
CallGet(p, k, w) == Begin(p, "get", "open", k, NoArg, w)
CallDelete(p, k, w) == Begin(p, "delete", "open", k, NoArg, w)

\* set_cmap_value checks the type before it opens a connection.
CheckType(p) ==
  /\ pc[p] = "check"
  /\ \/ arg[p].type \in ValidTypes /\ Goto(p, "open") /\ UNCHANGED out
     \/ arg[p].type \notin ValidTypes /\ Return(p, "CL_WRONG_CMAP_TYPE")
  /\ UNCHANGED <<map, key, handles, quiet>>

Initialize(p) ==
  /\ pc[p] = "open"
  /\ \/ /\ handles' = [handles EXCEPT ![p] = @ + 1]
        /\ Goto(p, IF fn[p] = "set" THEN "store" ELSE "probe")
        /\ UNCHANGED out
     \/ MayFail /\ Return(p, "CS_ERR") /\ UNCHANGED handles
  /\ UNCHANGED <<map, key, quiet>>

\* The cmap_set_* of the switch over the type, whose default is never reached.
Store(p) ==
  /\ pc[p] = "store"
  /\ Finalize(p)
  /\ \/ Change(p, arg[p]) /\ Return(p, "CS_OK")
     \/ MayFail /\ Return(p, "CS_ERR") /\ UNCHANGED <<map, quiet>>
  /\ UNCHANGED key

\* Fault: the test of value the wrong way round.
AfterProbeInverted(p) == IF want[p] THEN "delete" ELSE "fetch"

\* delete_cmap_value without a value pointer skips the fetch.
AfterProbe(p) == IF want[p] THEN "fetch" ELSE "delete"

\* cmap_get with a NULL value: the type goes to the caller, the length stays.
Probe(p) ==
  /\ pc[p] = "probe"
  /\ \/ /\ Present(p)
        /\ LET stored == [got |-> [type |-> map[key[p]].type, data |-> "absent"],
                          shape |-> "none"] IN
             IF fn[p] = "get" /\ ~want[p]
               THEN Finalize(p) /\ ReturnStored(p, "CS_OK", stored)
               ELSE /\ out' = [out EXCEPT ![p] = stored]
                    /\ len' = [len EXCEPT ![p] = Width[map[key[p]].type]]
                    /\ pc' = [pc EXCEPT ![p] = AfterProbe(p)]
                    /\ UNCHANGED <<fn, arg, want, handles, done>>
     \/ ~Present(p) /\ Fails(p, "CS_ERR_NOT_EXIST")
     \/ MayFail /\ Fails(p, "CS_ERR")
  /\ UNCHANGED <<map, key, quiet>>

\* Fault: every value is fetched with cmap_get.
FetchStringNever(p) == FALSE

\* Does the probe say that the key holds a string?
FetchString(p) == out[p].got.type = "string"

\* cmap_get_string gives a pointer to a copy; it refuses an entry that is not
\* a string.  cmap_get copies the bytes of any entry that is not longer than
\* len, and stores the type of what it copied.
Fetch(p) ==
  /\ pc[p] = "fetch"
  /\ LET entry  == map[key[p]]
         fits   == IF FetchString(p) THEN entry.type = "string"
                                     ELSE Width[entry.type] <= len[p]
         stored == [got |-> entry,
                    shape |-> IF FetchString(p) THEN "pointer" ELSE "bytes"]
     IN \/ /\ Present(p) /\ fits
           /\ IF fn[p] = "get"
                THEN Finalize(p) /\ ReturnStored(p, "CS_OK", stored)
                ELSE /\ Goto(p, "delete")
                     /\ out' = [out EXCEPT ![p] = stored]
                     /\ UNCHANGED handles
        \/ Present(p) /\ ~fits /\ Fails(p, "CS_ERR_INVALID_PARAM")
        \/ ~Present(p) /\ Fails(p, "CS_ERR_NOT_EXIST")
        \/ MayFail /\ Fails(p, "CS_ERR")
  /\ UNCHANGED <<map, key, quiet>>

\* Fault: the code of cmap_delete is not looked at.
DeleteUnchecked(p) ==
  /\ pc[p] = "delete"
  /\ Finalize(p)
  /\ ReturnStored(p, "CS_OK", out[p])
  /\ \/ Present(p) /\ Change(p, NoEntry)
     \/ UNCHANGED <<map, quiet>>
  /\ UNCHANGED key

\* cmap_delete removes whatever entry the key has by now.
Delete(p) ==
  /\ pc[p] = "delete"
  /\ Finalize(p)
  /\ \/ Present(p) /\ Change(p, NoEntry) /\ ReturnStored(p, "CS_OK", out[p])
     \/ /\ \/ ~Present(p) /\ Return(p, "CS_ERR_NOT_EXIST")
           \/ MayFail /\ Return(p, "CS_ERR")
        /\ UNCHANGED <<map, quiet>>
  /\ UNCHANGED key

Step(p) ==
  CheckType(p) \/ Initialize(p) \/ Store(p) \/ Probe(p) \/ Fetch(p) \/ Delete(p)

Next ==
  \E p \in Procs :
    \/ \E k \in Keys, e \in Args : CallSet(p, k, e)
    \/ \E k \in Keys, w \in BOOLEAN : CallGet(p, k, w) \/ CallDelete(p, k, w)
    \/ Step(p)

Spec == Init /\ [][Next]_vars

-----------------------------------------------------------------------------
(* Properties                                                              *)

\* What a call can store: a whole entry, or its type alone.
Stored == [got : Entries, shape : Shapes]
          \cup [got : [type : ValidTypes, data : {"absent"}], shape : {"none"}]
          \cup {Nothing}

\* The types of the variables; no connection is closed twice.
TypeOK ==
  /\ map \in [Keys -> Entries \cup {NoEntry}]
  /\ fn \in [Procs -> {"none", "set", "get", "delete"}]
  /\ pc \in [Procs -> Steps]
  /\ key \in [Procs -> Keys]
  /\ arg \in [Procs -> Args \cup {NoArg}]
  /\ want \in [Procs -> BOOLEAN]
  /\ handles \in [Procs -> Nat]
  /\ len \in [Procs -> Nat]
  /\ out \in [Procs -> Stored]
  /\ done \in [Procs -> [fn : {"none", "set", "get", "delete"}, rc : Codes,
                         got : Entries \cup {NoEntry}
                               \cup [type : ValidTypes, data : {"absent"}],
                         shape : Shapes \cup {"none"}]]
  /\ quiet \in [Procs -> BOOLEAN]

Registers == INSTANCE CmapRegisters

\* Every call acts on cmap as if at one instant: CmapCtl, with all its
\* interleavings, implements CmapRegisters.
RegistersSpec == Registers!Spec

\* A process between two calls has no cmap connection open, whichever request
\* of the last call failed and in whichever function.
NoHandleLeak == \A p \in Procs : fn[p] = "none" => handles[p] = 0

\* The type a call stores tells how its value is stored, and the call does not
\* fail on a value of the wrong length, as long as nobody else changes the key
\* between its probe and its fetch.
ShapeFollowsType ==
  \A p \in Procs : fn[p] = "none" /\ quiet[p] =>
    /\ done[p].shape # "none" =>
         (done[p].shape = "pointer" <=> done[p].got.type = "string")
    /\ done[p].rc # "CS_ERR_INVALID_PARAM"

Deletes(p) ==
  fn[p] = "delete" /\ fn'[p] = "none" /\ done'[p].rc = "CS_OK"

\* A delete nobody interferes with hands back the entry it removes.  The comment
\* of client_cmapctl.h:45 promises it without the condition; a set between the
\* fetch and the delete breaks that.
QuietDeleteReturnsVictim ==
  [][\A p \in Procs : Deletes(p) /\ want[p] /\ quiet[p] => done'[p].got = map[key[p]]]_vars
=============================================================================
