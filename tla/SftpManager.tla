---------------------------- MODULE SftpManager -----------------------------
(***************************************************************************)
(* sftp_manager.c: copy_conf copies a template to the configuration file   *)
(* of a node.  Several ctc processes copy at once, while an editor may     *)
(* replace the template.                                                   *)
(*                                                                         *)
(* A file is a sequence of cells.  The versions of the template are known  *)
(* by their size: <<s, i>> is byte i of the version of s bytes, Stack what *)
(* the buffer holds before anything is read into it, and Old a byte from   *)
(* before any copy or in a gap.  libssh and the remote file system are     *)
(* external.                                                               *)
(***************************************************************************)
EXTENDS Integers, Sequences

CONSTANTS
  Procs,      \* processes that call copy_conf
  Nodes,      \* addresses they copy to
  Sizes,      \* sizes of the versions of the template
  Missing,    \* the "size" of a template that is not there
  Buffer,     \* 256 in the code
  MayFail,    \* may libssh calls fail?
  MayLose,    \* may a write send less than it was given?
  MayEdit     \* may the template be replaced while copies run?

CS_OK == 1
CL_SFTP_ERR == -9
CL_SFTP_AUTH == -10
CL_SFTP_CONN == -11

ASSUME SftpAssumption ==
  /\ Sizes \subseteq Nat
  /\ Missing \notin Nat
  /\ Buffer \in Nat \ {0}
  /\ {MayFail, MayLose, MayEdit} \subseteq BOOLEAN

VARIABLES
  remote,    \* the cells of corosync.conf at each node
  template,  \* size of the template
  copy,      \* the call of each process: its locals, and what it holds open;
             \* opened, the version that fopen found, lossless (did every write
             \* since the file was truncated send everything?) and last (the step
             \* it returned from) are history
  base,      \* history: the file of its node when the call began
  clean      \* history: has no other call written the file since?

vars == <<remote, template, copy, base, clean>>

Steps == {"idle", "new", "connect", "auth", "stat", "sftp_new", "sftp_init", "open_dest",
          "open_source", "copy", "close"}

Old == <<-1, 0>>
Stack == <<0, 0>>
Unread == [j \in 1 .. Buffer |-> Stack]

Larger(a, b) == IF a > b THEN a ELSE b

\* file with cells written from position off on.
Overwrite(file, off, cells) ==
  [i \in 1 .. Larger(Len(file), IF cells = <<>> THEN 0 ELSE off + Len(cells)) |->
     IF i - off \in 1 .. Len(cells) THEN cells[i - off]
     ELSE IF i <= Len(file) THEN file[i] ELSE Old]

-----------------------------------------------------------------------------
Init ==
  /\ remote = [n \in Nodes |-> <<Old>>]
  /\ template \in Sizes \cup {Missing}
  /\ copy \in [Procs -> {[pc |-> "idle", node |-> n, open |-> {}, size |-> 0,
                          opened |-> 0, conf_size |-> 0, buffer_size |-> 0,
                          buffer |-> Unread, offset |-> 0, rc |-> 0, lossless |-> TRUE,
                          last |-> "idle"] : n \in Nodes}]
  /\ base = [p \in Procs |-> <<>>]
  /\ clean = [p \in Procs |-> TRUE]

\* Somebody replaces the template, or removes it.
Edit ==
  /\ MayEdit
  /\ \E size \in (Sizes \cup {Missing}) \ {template} : template' = size
  /\ UNCHANGED <<remote, copy, base, clean>>

Call(p, n) ==
  /\ copy[p].pc = "idle"
  /\ copy' = [copy EXCEPT ![p] = [@ EXCEPT !.pc = "new", !.node = n, !.open = {},
                !.size = 0, !.opened = 0, !.rc = 0, !.last = "idle"]]
  /\ base' = [base EXCEPT ![p] = remote[n]]
  /\ clean' = [clean EXCEPT ![p] = TRUE]
  /\ UNCHANGED <<remote, template>>

At(p, step) == copy[p].pc = step

Goto(p, step) == copy' = [copy EXCEPT ![p].pc = step]

\* Opens what and goes on at step.
Opens(p, what, step) ==
  copy' = [copy EXCEPT ![p].open = @ \cup {what}, ![p].pc = step]

\* Returns code, having freed the members of freed.
Return(p, code, freed) ==
  copy' = [copy EXCEPT ![p].pc = "idle", ![p].last = copy[p].pc, ![p].open = @ \ freed,
             ![p].rc = code, ![p].buffer = Unread, ![p].conf_size = 0, ![p].buffer_size = 0, ![p].offset = 0]

\* The file of p's node becomes file: the other calls on it are disturbed.
Write(p, file) ==
  /\ remote' = [remote EXCEPT ![copy[p].node] = file]
  /\ clean' = [q \in Procs |-> clean[q] /\ (q = p \/ copy[q].node # copy[p].node)]
  /\ base' = [q \in Procs |-> IF clean'[q] THEN base[q] ELSE <<>>]
  /\ UNCHANGED template

Local == UNCHANGED <<remote, template, base, clean>>

\* ssh_new.
NewSession(p) ==
  /\ At(p, "new")
  /\ Opens(p, "session", "connect") \/ (MayFail /\ Return(p, CL_SFTP_ERR, {}))
  /\ Local

\* ssh_connect.
Connect(p) ==
  /\ At(p, "connect")
  /\ Goto(p, "auth") \/ (MayFail /\ Return(p, CL_SFTP_CONN, {"session"}))
  /\ Local

\* ssh_userauth_password.
Authenticate(p) ==
  /\ At(p, "auth")
  /\ Goto(p, "stat") \/ (MayFail /\ Return(p, CL_SFTP_AUTH, {"session"}))
  /\ Local

\* stat, unchecked: without a file st.st_size is whatever the stack held.
Stat(p) ==
  /\ At(p, "stat")
  /\ \E size \in IF template # Missing THEN {template} ELSE 0 .. Buffer :
       copy' = [copy EXCEPT ![p].pc = "sftp_new", ![p].size = size, ![p].conf_size = size]
  /\ Local

\* sftp_conf fails, and copy_conf frees the session and fails too.
SftpFails(p, freed) == Return(p, CL_SFTP_ERR, freed \cup {"session"})

SftpNew(p) ==
  /\ At(p, "sftp_new")
  /\ Opens(p, "sftp", "sftp_init") \/ (MayFail /\ SftpFails(p, {}))
  /\ Local

\* sftp_init; the error path returns with the sftp session in hand.
SftpInit(p) ==
  /\ At(p, "sftp_init")
  /\ Goto(p, "open_dest") \/ (MayFail /\ SftpFails(p, {}))
  /\ Local

\* Fault: O_APPEND in place of O_TRUNC.
OpenDestAppends(p) ==
  /\ At(p, "open_dest")
  /\ copy' = [copy EXCEPT ![p].open = @ \cup {"dest"},
                ![p].offset = Len(remote[copy[p].node]), ![p].pc = "open_source"]
  /\ Local

\* sftp_open with O_TRUNC: the old configuration is gone.  When it fails, the
\* file is as it was, or truncated and the answer lost.
OpenDest(p) ==
  /\ At(p, "open_dest")
  /\ \/ /\ copy' = [copy EXCEPT ![p].open = @ \cup {"dest"}, ![p].lossless = TRUE,
                               ![p].pc = "open_source"]
        /\ Write(p, <<>>)
     \/ MayFail /\ SftpFails(p, {"sftp"}) /\ (Write(p, <<>>) \/ Local)

\* fopen and the set-up of the loop.
OpenSource(p) ==
  /\ At(p, "open_source")
  /\ \/ /\ template # Missing
        /\ copy' = [copy EXCEPT ![p].open = @ \cup {"source"}, ![p].pc = "copy",
                      ![p].opened = template, ![p].buffer_size = Buffer]
     \/ (MayFail \/ template = Missing) /\ SftpFails(p, {"dest", "sftp"})
  /\ Local

\* Fault: the loop ends only when nothing is left.
LastChunkEmpty(p) == copy[p].conf_size = 0

\* Is this the last turn of the loop?
LastChunk(p) == copy[p].buffer_size > copy[p].conf_size

\* Fault: the loop breaks before it writes what is left.
ChunkWithoutTail(p) == IF LastChunk(p) THEN 0 ELSE copy[p].buffer_size

Chunk(p) == IF LastChunk(p) THEN copy[p].conf_size ELSE copy[p].buffer_size

\* Fault: the copy is given up between two chunks.
CopyChunkOrFail(p) ==
  /\ At(p, "copy")
  /\ SftpFails(p, {"source", "dest", "sftp"})
  /\ Write(p, Overwrite(remote[copy[p].node], copy[p].offset, <<<<copy[p].opened, 1>>>>))

\* The buffer after fread of a chunk: as many bytes were asked for before as
\* conf_size has gone down, and past the end of the file the buffer stays as it is.
Filled(p) ==
  LET c == copy[p] asked == c.size - c.conf_size IN
  [j \in 1 .. Buffer |->
     IF j <= Chunk(p) /\ asked + j <= c.opened THEN <<c.opened, asked + j>> ELSE c.buffer[j]]

\* One turn of the loop: fread of a chunk and sftp_write of it; nobody looks at
\* what they return.
CopyChunk(p) ==
  /\ At(p, "copy")
  /\ \E sent \in IF MayLose THEN 0 .. Chunk(p) ELSE {Chunk(p)} :
       /\ Write(p, Overwrite(remote[copy[p].node], copy[p].offset,
                             [i \in 1 .. sent |-> Filled(p)[i]]))
       /\ copy' = [copy EXCEPT
            ![p].pc = IF LastChunk(p) THEN "close" ELSE "copy",
            ![p].conf_size = IF LastChunk(p) THEN @ ELSE @ - Chunk(p),
            ![p].buffer_size = Chunk(p), ![p].buffer = Filled(p), ![p].offset = @ + sent,
            ![p].lossless = @ /\ sent = Chunk(p)]

\* Fault: the remote file is not closed.
CloseSourceOnly(p) ==
  /\ At(p, "close")
  /\ Return(p, CS_OK, {"source", "sftp", "session"})
  /\ Local

\* fclose, sftp_close, sftp_free, free_session, return CS_OK.
Close(p) ==
  /\ At(p, "close")
  /\ Return(p, CS_OK, {"source", "dest", "sftp", "session"})
  /\ Local

Step(p) ==
  \/ NewSession(p)
  \/ Connect(p)
  \/ Authenticate(p)
  \/ Stat(p)
  \/ SftpNew(p)
  \/ SftpInit(p)
  \/ OpenDest(p)
  \/ OpenSource(p)
  \/ CopyChunk(p)
  \/ Close(p)

Next == Edit \/ \E p \in Procs : (\E n \in Nodes : Call(p, n)) \/ Step(p)

Spec == Init /\ [][Next]_vars

-----------------------------------------------------------------------------
(* Properties                                                              *)

\* The types of the variables; conf_size, a size_t, never goes below zero.
Cells == {Old, Stack} \cup (Sizes \X (Nat \ {0}))

Codes == {0, CS_OK, CL_SFTP_ERR, CL_SFTP_AUTH, CL_SFTP_CONN}

TypeOK ==
  /\ remote \in [Nodes -> Seq(Cells)]
  /\ template \in Sizes \cup {Missing}
  /\ copy \in [Procs -> [pc : Steps, node : Nodes, open : SUBSET {"session", "sftp", "dest", "source"},
                         size : Nat, opened : Nat, conf_size : Nat, buffer_size : Nat,
                         buffer : [1 .. Buffer -> Cells], offset : Nat, rc : Codes,
                         lossless : BOOLEAN, last : Steps]]
  /\ base \in [Procs -> Seq(Cells)]
  /\ clean \in [Procs -> BOOLEAN]

Returned(p, codes) == At(p, "idle") /\ copy[p].rc \in codes

\* What the buffer holds where a read went past the end of the version of s
\* bytes: one of its last bytes, from the turn before, or what was there at first.
Stale(s, cell) ==
  \/ s < Buffer /\ cell = Stack
  \/ \E k \in 1 .. s : k > s - Buffer /\ cell = <<s, k>>

\* What an undisturbed copy leaves: of one version of the template, as many
\* bytes as the template had when stat looked at it, which may be another one.
Copied(p) ==
  LET file == remote[copy[p].node] s == copy[p].opened IN
  /\ Len(file) = copy[p].size
  /\ \A i \in 1 .. Len(file) : IF i <= s THEN file[i] = <<s, i>> ELSE Stale(s, file[i])

\* A copy that returns CS_OK, that no other process disturbs and whose writes
\* all send what they are given, leaves bytes of one version of the template:
\* the whole of it unless an editor replaced it between stat and fopen; then it
\* is cut, or followed by what was left in the buffer, and nothing worse (no
\* version is mixed with another, no gap, none of the old configuration).
CopyExact ==
  \A p \in Procs : Returned(p, {CS_OK}) /\ clean[p] /\ copy[p].lossless =>
    Copied(p)

\* An undisturbed copy that fails leaves the old file or an empty one (if it got
\* as far as sftp_open, which is CL_SFTP_ERR): a node never keeps a part of a
\* template after an error.
ErrorLeavesOldOrEmpty ==
  \A p \in Procs : Returned(p, Codes \ {0, CS_OK}) /\ clean[p] =>
    remote[copy[p].node] = base[p]
      \/ (remote[copy[p].node] = <<>> /\ copy[p].rc = CL_SFTP_ERR)

\* A process that is not copying holds no session and no file, except the sftp
\* session of its last copy if that failed at sftp_init (sftp_manager.c:29),
\* and at no other of the seven steps that can fail.
OnlyInitFailureLeaks ==
  \A p \in Procs : At(p, "idle") =>
    copy[p].open = IF copy[p].last = "sftp_init" THEN {"sftp"} ELSE {}

\* Copies that overlap may mix versions, but if no write is ever cut no byte of a
\* version is out of its place as far as that version goes: byte i of the file is
\* byte i of a version, or lies beyond the end of a shorter version and was left in
\* the buffer by it, or is no byte of a template at all.
BytesInPlace ==
  ~MayLose =>
    \A n \in Nodes : \A i \in 1 .. Len(remote[n]) :
      \/ remote[n][i] = Old
      \/ \E s \in Sizes : IF i <= s THEN remote[n][i] = <<s, i>> ELSE Stale(s, remote[n][i])

\* "//success" (sftp_manager.c:58): an undisturbed copy that returns CS_OK has
\* copied the template.
SuccessMeansCopied ==
  \A p \in Procs : Returned(p, {CS_OK}) /\ clean[p] =>
    remote[copy[p].node] = [i \in 1 .. copy[p].opened |-> <<copy[p].opened, i>>]
=============================================================================
