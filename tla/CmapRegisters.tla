--------------------------- MODULE CmapRegisters ----------------------------
(***************************************************************************)
(* What the callers of client_cmapctl.c may rely on while others use the   *)
(* same cmap keys: every successful call takes effect on one key at one    *)
(* instant, between its call and its return, and a call that reports an    *)
(* error has changed nothing.  The one thing not promised is which entry a *)
(* delete hands back, nor in which shape a raced read stores a string.     *)
(***************************************************************************)
CONSTANTS Procs, Keys, Entries, NoEntry, Shapes, Codes

VARIABLES
  map,   \* the entry under each key
  done   \* the completed call of each process, until it makes another

NotDone == [fn |-> "none", rc |-> "CS_OK", got |-> NoEntry, shape |-> "none"]

Init ==
  /\ map = [k \in Keys |-> NoEntry]
  /\ done = [p \in Procs |-> NotDone]

Begin(p) == done' = [done EXCEPT ![p] = NotDone] /\ UNCHANGED map

Completes(p, f, code, e, s) ==
  done' = [done EXCEPT ![p] = [fn |-> f, rc |-> code, got |-> e, shape |-> s]]

Set(p, k, e) ==
  /\ map' = [map EXCEPT ![k] = e]
  /\ Completes(p, "set", "CS_OK", NoEntry, "none")

\* A read returns the entry of that instant, or with a NULL value its type.
Get(p, k, s) ==
  /\ map[k] # NoEntry
  /\ \/ s \in Shapes /\ Completes(p, "get", "CS_OK", map[k], s)
     \/ Completes(p, "get", "CS_OK", [map[k] EXCEPT !.data = "absent"], "none")
  /\ UNCHANGED map

Delete(p, k) ==
  /\ map[k] # NoEntry
  /\ map' = [map EXCEPT ![k] = NoEntry]
  /\ \E e \in Entries \cup {[x EXCEPT !.data = "absent"] : x \in Entries},
        s \in Shapes \cup {"none"} :
       Completes(p, "delete", "CS_OK", e, s)

Fail(p, f, code) ==
  /\ code # "CS_OK"
  /\ Completes(p, f, code, NoEntry, "none")
  /\ UNCHANGED map

Next ==
  \E p \in Procs :
    \/ Begin(p)
    \/ \E k \in Keys, e \in Entries : Set(p, k, e)
    \/ \E k \in Keys, s \in Shapes : Get(p, k, s)
    \/ \E k \in Keys : Delete(p, k)
    \/ \E f \in {"set", "get", "delete"}, code \in Codes : Fail(p, f, code)

Spec == Init /\ [][Next]_<<map, done>>
=============================================================================
