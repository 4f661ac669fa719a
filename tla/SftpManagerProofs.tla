------------------------- MODULE SftpManagerProofs --------------------------
(***************************************************************************)
(* Theorems about SftpManager, for any processes, nodes and versions of    *)
(* the template, any size of the buffer, and whatever fails or is cut.     *)
(***************************************************************************)
EXTENDS SftpManager, SequenceTheorems, TLAPS

Handles == {"session", "sftp", "dest", "source"}

\* The steps before the file of the node is truncated.
Untouched == {"new", "connect", "auth", "stat", "sftp_new", "sftp_init", "open_dest"}

\* What a process holds open at each step.
OpenInv(p) ==
  /\ At(p, "new") => copy[p].open = {}
  /\ copy[p].pc \in {"connect", "auth", "stat", "sftp_new"} => copy[p].open = {"session"}
  /\ copy[p].pc \in {"sftp_init", "open_dest"} => copy[p].open = {"session", "sftp"}
  /\ At(p, "open_source") => copy[p].open = {"session", "sftp", "dest"}
  /\ copy[p].pc \in {"copy", "close"} => copy[p].open = Handles
  /\ At(p, "idle") => copy[p].open = IF copy[p].last = "sftp_init" THEN {"sftp"} ELSE {}

\* The loop: as many bytes have been written as have been read, if all were sent.
LoopInv(p) ==
  /\ copy[p].pc \notin {"copy", "close"} => copy[p].offset = 0
  /\ copy[p].pc \in {"sftp_new", "sftp_init", "open_dest", "open_source"} =>
       copy[p].conf_size = copy[p].size
  /\ copy[p].pc \in {"copy", "close"} => copy[p].opened \in Sizes
  /\ At(p, "copy") => copy[p].conf_size <= copy[p].size /\ copy[p].buffer_size = Buffer
  /\ At(p, "copy") /\ copy[p].lossless => copy[p].offset = copy[p].size - copy[p].conf_size
  /\ ~MayLose => copy[p].lossless

\* The bytes of the version of s bytes from position off on, as far as it goes,
\* and then what is left of it in the buffer.
Fits(cells, s, off) ==
  \A i \in DOMAIN cells :
    IF off + i <= s THEN cells[i] = <<s, off + i>> ELSE Stale(s, cells[i])

\* The buffer between two turns of the loop holds what the last one read.
BufferInv(p) ==
  LET asked == copy[p].size - copy[p].conf_size IN
  /\ copy[p].pc \notin {"copy", "close"} => copy[p].buffer = Unread
  /\ At(p, "copy") /\ asked = 0 => copy[p].buffer = Unread
  /\ At(p, "copy") /\ asked # 0 =>
       asked >= Buffer /\ Fits(copy[p].buffer, copy[p].opened, asked - Buffer)

\* file is the first n bytes of the version of s bytes, beyond its end what was left
\* in the buffer.
Holds(file, s, n) == Len(file) = n /\ Fits(file, s, 0)

\* The file of p's node while no other call writes it.
FileInv(p) ==
  LET file == remote[copy[p].node] IN
  clean[p] =>
    /\ copy[p].pc \in Untouched => file = base[p]
    /\ At(p, "open_source") => file = <<>>
    /\ At(p, "copy") /\ copy[p].lossless => Holds(file, copy[p].opened, copy[p].offset)
    /\ At(p, "close") /\ copy[p].lossless => Holds(file, copy[p].opened, copy[p].size)
    /\ At(p, "idle") /\ copy[p].rc = CS_OK /\ copy[p].lossless =>
         Holds(file, copy[p].opened, copy[p].size)
    /\ At(p, "idle") /\ copy[p].rc \in Codes \ {0, CS_OK} =>
         file = base[p] \/ (file = <<>> /\ copy[p].rc = CL_SFTP_ERR)

ProcInv(p) == OpenInv(p) /\ LoopInv(p) /\ BufferInv(p) /\ FileInv(p)

IInv == TypeOK /\ BytesInPlace /\ \A p \in Procs : ProcInv(p)

-----------------------------------------------------------------------------
(* Files                                                                   *)

\* A function on 1 .. n is a sequence.
LEMMA SeqOf ==
  ASSUME NEW S, NEW n \in Nat, NEW f \in [1 .. n -> S]
  PROVE  f \in Seq(S) /\ Len(f) = n
<1>1. f \in Seq(S)
  BY SeqDef
<1> QED
  BY <1>1, LenProperties

\* What the buffer may hold are cells.
LEMMA BufferCells ==
  /\ Stack \in Cells /\ Unread \in [1 .. Buffer -> Cells]
  /\ \A s \in Sizes, k \in Nat \ {0} : <<s, k>> \in Cells
<1>1. Stack \in Cells
  BY DEF Cells
<1> QED
  BY <1>1 DEF Cells, Unread

\* A write at an offset gives a file of its greatest length.
LEMMA OverwriteType ==
  ASSUME NEW file \in Seq(Cells), NEW off \in Nat, NEW cells \in Seq(Cells)
  PROVE  /\ Overwrite(file, off, cells) \in Seq(Cells)
         /\ Len(Overwrite(file, off, cells)) =
              Larger(Len(file), IF cells = <<>> THEN 0 ELSE off + Len(cells))
<1> DEFINE n == Larger(Len(file), IF cells = <<>> THEN 0 ELSE off + Len(cells))
<1>1. Len(file) \in Nat /\ Len(cells) \in Nat
  BY LenProperties
<1>2. n \in Nat
  BY <1>1 DEF Larger
<1>3. ASSUME NEW i \in 1 .. n
      PROVE  (IF i - off \in 1 .. Len(cells) THEN cells[i - off]
              ELSE IF i <= Len(file) THEN file[i] ELSE Old) \in Cells
  <2>1. CASE i - off \in 1 .. Len(cells)
    BY <2>1, ElementOfSeq
  <2>2. CASE i - off \notin 1 .. Len(cells) /\ i <= Len(file)
    <3>1. i \in 1 .. Len(file)
      BY <1>1, <1>2, <2>2
    <3> QED
      BY <2>2, <3>1, ElementOfSeq
  <2>3. CASE i - off \notin 1 .. Len(cells) /\ ~(i <= Len(file))
    BY <2>3 DEF Cells
  <2> QED
    BY <2>1, <2>2, <2>3
<1>4. Overwrite(file, off, cells) \in [1 .. n -> Cells]
  BY <1>3 DEF Overwrite
<1> HIDE DEF n
<1>5. Overwrite(file, off, cells) \in Seq(Cells) /\ Len(Overwrite(file, off, cells)) = n
  BY <1>2, <1>4, SeqOf
<1> QED
  BY <1>5 DEF n

\* Writing the next cells of a version after the first o leaves the first
\* o + Len(cells).
LEMMA OverwriteAppends ==
  ASSUME NEW s, NEW o \in Nat, NEW file \in Seq(Cells), NEW cells \in Seq(Cells),
         Holds(file, s, o), Fits(cells, s, o), s \in Nat
  PROVE  Holds(Overwrite(file, o, cells), s, o + Len(cells))
<1> DEFINE k == Len(cells)
           n == Larger(Len(file), IF cells = <<>> THEN 0 ELSE o + Len(cells))
<1>1. k \in Nat /\ Len(file) = o /\ DOMAIN cells = 1 .. k /\ DOMAIN file = 1 .. o
  BY LenProperties DEF Holds
<1>2. n = o + k
  <2>1. cells = <<>> => k = 0
    OBVIOUS
  <2> HIDE DEF k
  <2> QED
    BY <1>1, <2>1 DEF Larger, k
<1>3. ASSUME NEW i \in 1 .. o + k
      PROVE  LET cell == IF i - o \in 1 .. k THEN cells[i - o]
                         ELSE IF i <= o THEN file[i] ELSE Old
             IN  IF i <= s THEN cell = <<s, i>> ELSE Stale(s, cell)
  <2>1. CASE i - o \in 1 .. k
    <3>1. o + (i - o) = i
      BY <1>1, <1>3
    <3>2. IF i <= s THEN cells[i - o] = <<s, i>> ELSE Stale(s, cells[i - o])
      BY <1>1, <2>1, <3>1 DEF Fits
    <3> QED
      BY <2>1, <3>2
  <2>2. CASE i - o \notin 1 .. k
    <3>1. i \in 1 .. o /\ 0 + i = i
      BY <1>1, <2>2
    <3>2. IF i <= s THEN file[i] = <<s, i>> ELSE Stale(s, file[i])
      BY <1>1, <3>1 DEF Fits, Holds
    <3> QED
      BY <2>2, <3>1, <3>2
  <2> QED
    BY <2>1, <2>2
<1> HIDE DEF k, n
<1>4. Overwrite(file, o, cells) =
        [i \in 1 .. o + k |-> IF i - o \in 1 .. k THEN cells[i - o]
                              ELSE IF i <= o THEN file[i] ELSE Old]
  BY <1>1, <1>2 DEF Overwrite, n, k
<1>5. Len(Overwrite(file, o, cells)) = o + k
  BY <1>2, OverwriteType DEF n
<1>6. \A i \in 1 .. o + k : 0 + i = i
  BY <1>1
<1>7. Fits(Overwrite(file, o, cells), s, 0)
  BY <1>3, <1>4, <1>6 DEF Fits
<1> QED
  BY <1>5, <1>7 DEF Holds, k

\* Is every byte of a version in file at its place?
InPlace(file) ==
  \A i \in 1 .. Len(file) :
    \/ file[i] = Old
    \/ \E s \in Sizes : IF i <= s THEN file[i] = <<s, i>> ELSE Stale(s, file[i])

\* A write of the next cells of a version at their offset puts them at their
\* place, whatever the file held.
LEMMA OverwriteInPlace ==
  ASSUME NEW file \in Seq(Cells), InPlace(file), NEW s \in Sizes, s \in Nat,
         NEW o \in Nat, NEW cells \in Seq(Cells), Fits(cells, s, o)
  PROVE  InPlace(Overwrite(file, o, cells))
<1> DEFINE k == Len(cells)
           n == Larger(Len(file), IF cells = <<>> THEN 0 ELSE o + Len(cells))
<1>1. k \in Nat /\ Len(file) \in Nat /\ DOMAIN cells = 1 .. k
  BY LenProperties
<1> HIDE DEF k
<1>2. Len(Overwrite(file, o, cells)) = n /\ n \in Nat
  BY <1>1, OverwriteType DEF Larger, k
<1>3. ASSUME NEW i \in 1 .. n
      PROVE  LET cell == Overwrite(file, o, cells)[i] IN
             \/ cell = Old
             \/ \E z \in Sizes : IF i <= z THEN cell = <<z, i>> ELSE Stale(z, cell)
  <2>1. Overwrite(file, o, cells)[i] =
          IF i - o \in 1 .. k THEN cells[i - o] ELSE IF i <= Len(file) THEN file[i] ELSE Old
    BY <1>1 DEF Overwrite, k
  <2>2. CASE i - o \in 1 .. k
    <3>1. o + (i - o) = i
      BY <1>2, <1>3
    <3>2. IF i <= s THEN cells[i - o] = <<s, i>> ELSE Stale(s, cells[i - o])
      BY <1>1, <2>2, <3>1 DEF Fits
    <3> QED
      BY <2>1, <2>2, <3>2
  <2>3. CASE i - o \notin 1 .. k /\ i <= Len(file)
    <3>1. i \in 1 .. Len(file)
      BY <1>1, <1>2, <2>3
    <3> QED
      BY <2>1, <2>3, <3>1 DEF InPlace
  <2> QED
    BY <2>1, <2>2, <2>3
<1> QED
  BY <1>2, <1>3 DEF InPlace

-----------------------------------------------------------------------------
(* What a step leaves alone                                                *)

Records == [pc : Steps, node : Nodes, open : SUBSET {"session", "sftp", "dest", "source"},
            size : Nat, opened : Nat, conf_size : Nat, buffer_size : Nat,
            buffer : [1 .. Buffer -> Cells], offset : Nat, rc : Codes,
            lossless : BOOLEAN, last : Steps]

\* A process whose call does not change keeps its invariant when nothing is
\* written, and when another process writes: it is then disturbed, or at
\* another node.
LEMMA OthersKeep ==
  ASSUME TypeOK, NEW p \in Procs, NEW q \in Procs \ {p}, ProcInv(q), copy'[q] = copy[q],
         Local \/ \E file : Write(p, file)
  PROVE  ProcInv(q)'
<1>1. OpenInv(q)' /\ LoopInv(q)' /\ BufferInv(q)'
  BY DEF ProcInv, OpenInv, LoopInv, BufferInv, At
<1>2. clean'[q] =>
        clean[q] /\ base'[q] = base[q] /\ remote'[copy[q].node] = remote[copy[q].node]
  <2>1. CASE Local
    BY <2>1 DEF Local
  <2>2. ASSUME NEW file, Write(p, file), clean'[q]
        PROVE  clean[q] /\ base'[q] = base[q] /\ remote'[copy[q].node] = remote[copy[q].node]
    <3>1. clean'[q] = (clean[q] /\ (q = p \/ copy[q].node # copy[p].node))
      BY <2>2 DEF Write
    <3>2. clean[q] /\ copy[q].node # copy[p].node
      BY <2>2, <3>1, Zenon
    <3>3. base'[q] = base[q]
      BY <2>2 DEF Write
    <3> QED
      BY <2>2, <3>2, <3>3 DEF Write, TypeOK
  <2> QED
    BY <2>1, <2>2
<1>3. FileInv(q)'
  <2>1. SUFFICES ASSUME clean'[q] PROVE FileInv(q)'
    BY DEF FileInv
  <2>2. clean[q] /\ base'[q] = base[q] /\ remote'[copy'[q].node] = remote[copy[q].node]
    BY <1>2, <2>1
  <2>3. FileInv(q)
    BY DEF ProcInv
  <2> QED
    BY <2>2, <2>3 DEF FileInv, At
<1> QED
  BY <1>1, <1>3 DEF ProcInv

\* What remains to be shown of a step of p: its own part.
LEMMA Rest ==
  ASSUME IInv, NEW p \in Procs, copy' \in [Procs -> Records],
         \A q \in Procs \ {p} : copy'[q] = copy[q],
         \/ Local
         \/ \E file \in Seq(Cells) : Write(p, file) /\ (~MayLose => InPlace(file)),
         ProcInv(p)'
  PROVE  IInv'
<1>1. TypeOK'
  <2>1. CASE Local
    BY <2>1 DEF IInv, TypeOK, Local, Records
  <2>2. ASSUME NEW file \in Seq(Cells), Write(p, file) PROVE TypeOK'
    <3>1. remote' \in [Nodes -> Seq(Cells)] /\ template' \in Sizes \cup {Missing}
      BY <2>2 DEF IInv, TypeOK, Write
    <3>2. clean' \in [Procs -> BOOLEAN]
      BY <2>2, Zenon DEF Write
    <3>3. base' \in [Procs -> Seq(Cells)]
      <4>1. <<>> \in Seq(Cells)
        OBVIOUS
      <4> QED
        BY <2>2, <4>1 DEF IInv, TypeOK, Write
    <3> QED
      BY <3>1, <3>2, <3>3 DEF TypeOK, Records
  <2> QED
    BY <2>1, <2>2
<1>2. BytesInPlace'
  <2>1. SUFFICES ASSUME ~MayLose, NEW n \in Nodes PROVE InPlace(remote'[n])
    BY DEF BytesInPlace, InPlace
  <2>2. InPlace(remote[n])
    BY <2>1 DEF IInv, BytesInPlace, InPlace
  <2> QED
    BY <2>1, <2>2 DEF IInv, TypeOK, Local, Write
<1>3. \A q \in Procs \ {p} : ProcInv(q)'
  BY OthersKeep DEF IInv
<1> QED
  BY <1>1, <1>2, <1>3 DEF IInv

-----------------------------------------------------------------------------
(* The steps                                                               *)

LEMMA InitHolds == Init => IInv
<1> SUFFICES ASSUME Init PROVE IInv
  OBVIOUS
<1> DEFINE First == {[pc |-> "idle", node |-> n, open |-> {}, size |-> 0,
                      opened |-> 0, conf_size |-> 0, buffer_size |-> 0,
                      buffer |-> Unread, offset |-> 0, rc |-> 0, lossless |-> TRUE,
                      last |-> "idle"] : n \in Nodes}
<1>1. First \subseteq Records
  <2>1. 0 \in Codes /\ "idle" \in Steps
    BY DEF Codes, Steps
  <2>2. ASSUME NEW n \in Nodes
        PROVE  [pc |-> "idle", node |-> n, open |-> {}, size |-> 0, opened |-> 0,
                conf_size |-> 0, buffer_size |-> 0, buffer |-> Unread, offset |-> 0, rc |-> 0,
                lossless |-> TRUE, last |-> "idle"] \in Records
    BY <2>1, BufferCells DEF Records
  <2> QED
    BY <2>2
<1>2. TypeOK
  <2>1. <<Old>> \in Seq(Cells) /\ <<>> \in Seq(Cells)
    BY DEF Cells
  <2> QED
    BY <1>1, <2>1 DEF Init, TypeOK, Records
<1>3. BytesInPlace
  BY DEF Init, BytesInPlace
<1>4. ASSUME NEW p \in Procs PROVE ProcInv(p)
  <2>1. copy[p] \in First
    BY DEF Init
  <2>2. /\ copy[p].pc = "idle" /\ copy[p].open = {} /\ copy[p].offset = 0
        /\ copy[p].rc = 0 /\ copy[p].lossless = TRUE /\ copy[p].last = "idle"
        /\ copy[p].buffer = Unread
    BY <2>1
  <2> QED
    BY <2>2 DEF ProcInv, OpenInv, LoopInv, BufferInv, FileInv, At, Untouched, CS_OK
<1> QED
  BY <1>2, <1>3, <1>4 DEF IInv

\* A call that returns code, with what it had open beyond freed.
LEMMA ReturnShape ==
  ASSUME TypeOK, NEW p \in Procs, NEW code \in Codes, NEW freed, Return(p, code, freed)
  PROVE  /\ copy' \in [Procs -> Records]
         /\ \A q \in Procs \ {p} : copy'[q] = copy[q]
         /\ copy'[p].pc = "idle" /\ copy'[p].open = copy[p].open \ freed
         /\ copy'[p].rc = code /\ copy'[p].offset = 0
         /\ copy'[p].node = copy[p].node /\ copy'[p].size = copy[p].size
         /\ copy'[p].opened = copy[p].opened /\ copy'[p].lossless = copy[p].lossless
         /\ copy'[p].last = copy[p].pc /\ copy'[p].buffer = Unread
<1> DEFINE r == [copy[p] EXCEPT !.pc = "idle", !.last = copy[p].pc, !.open = @ \ freed,
                   !.rc = code, !.buffer = Unread, !.conf_size = 0, !.buffer_size = 0,
                   !.offset = 0]
<1>1. copy[p] \in Records /\ copy[p].open \ freed \in SUBSET Handles
  BY DEF TypeOK, Records, Handles
<1>2. r \in Records
  BY <1>1, BufferCells DEF Records, Steps, Handles
<1>3. copy' = [copy EXCEPT ![p] = r]
  BY DEF Return
<1>4. /\ r.pc = "idle" /\ r.open = copy[p].open \ freed /\ r.rc = code /\ r.offset = 0
      /\ r.node = copy[p].node /\ r.size = copy[p].size
      /\ r.opened = copy[p].opened /\ r.lossless = copy[p].lossless
      /\ r.last = copy[p].pc /\ r.buffer = Unread
  BY <1>1 DEF Records
<1> HIDE DEF r
<1> QED
  BY <1>2, <1>3, <1>4 DEF TypeOK, Records

\* A call goes on at its node, and no step touches the call of another process;
\* a step that ends it gives it a code.
LEMMA StepShape ==
  ASSUME TypeOK, NEW p \in Procs, Step(p)
  PROVE  /\ copy'[p].node = copy[p].node
         /\ copy'[p].pc = "idle" => copy'[p].rc # 0
         /\ \A q \in Procs \ {p} : copy'[q] = copy[q]
<1>1. copy[p] \in Records
  BY DEF TypeOK, Records
<1>2. ASSUME NEW code \in Codes \ {0}, NEW freed, Return(p, code, freed)
      PROVE  /\ copy'[p].node = copy[p].node /\ copy'[p].rc # 0
             /\ \A q \in Procs \ {p} : copy'[q] = copy[q]
  BY <1>2, ReturnShape
<1>3. {CS_OK, CL_SFTP_ERR, CL_SFTP_CONN, CL_SFTP_AUTH} \subseteq Codes \ {0}
  BY DEF Codes, CS_OK, CL_SFTP_ERR, CL_SFTP_CONN, CL_SFTP_AUTH
<1>4. CASE \E code \in Codes \ {0} : \E freed : Return(p, code, freed)
  BY <1>2, <1>4
<1>5. ASSUME NEW what, NEW step, Opens(p, what, step), step # "idle"
      PROVE  /\ copy'[p].node = copy[p].node /\ copy'[p].pc # "idle"
             /\ \A q \in Procs \ {p} : copy'[q] = copy[q]
  BY <1>1, <1>5 DEF Opens, TypeOK, Records
<1>6. ASSUME NEW step, Goto(p, step), step # "idle"
      PROVE  /\ copy'[p].node = copy[p].node /\ copy'[p].pc # "idle"
             /\ \A q \in Procs \ {p} : copy'[q] = copy[q]
  BY <1>1, <1>6 DEF Goto, TypeOK, Records
<1>7. CASE \/ NewSession(p) \/ Connect(p) \/ Authenticate(p) \/ SftpNew(p) \/ SftpInit(p)
           \/ Close(p)
  BY <1>3, <1>4, <1>5, <1>6, <1>7
  DEF NewSession, Connect, Authenticate, SftpNew, SftpInit, Close, SftpFails
<1>8. CASE Stat(p)
  BY <1>1, <1>8 DEF Stat, TypeOK, Records
<1>9. CASE OpenDest(p)
  <2>1. CASE SftpFails(p, {"sftp"})
    BY <1>3, <1>4, <2>1 DEF SftpFails
  <2>2. CASE copy' = [copy EXCEPT ![p].open = @ \cup {"dest"}, ![p].lossless = TRUE,
                                  ![p].pc = "open_source"]
    BY <1>1, <2>2 DEF TypeOK, Records
  <2> QED
    BY <1>9, <2>1, <2>2 DEF OpenDest
<1>10. CASE OpenSource(p)
  <2>1. CASE SftpFails(p, {"dest", "sftp"})
    BY <1>3, <1>4, <2>1 DEF SftpFails
  <2>2. CASE copy' = [copy EXCEPT ![p].open = @ \cup {"source"}, ![p].pc = "copy",
                        ![p].opened = template, ![p].buffer_size = Buffer]
    BY <1>1, <2>2 DEF TypeOK, Records
  <2> QED
    BY <1>10, <2>1, <2>2 DEF OpenSource
<1>11. CASE CopyChunk(p)
  BY <1>1, <1>11 DEF CopyChunk, TypeOK, Records
<1> QED
  BY <1>7, <1>8, <1>9, <1>10, <1>11 DEF Step

\* A call that fails before the file is touched, or with the file truncated.
LEMMA FailHolds ==
  ASSUME IInv, NEW p \in Procs, NEW code \in Codes \ {0, CS_OK}, NEW freed,
         Return(p, code, freed),
         copy[p].open \ freed = IF At(p, "sftp_init") THEN {"sftp"} ELSE {},
         \/ Local /\ copy[p].pc \in Untouched
         \/ Local /\ At(p, "open_source") /\ code = CL_SFTP_ERR
         \/ Write(p, <<>>) /\ code = CL_SFTP_ERR
  PROVE  IInv'
<1>1. code \in Codes /\ TypeOK
  BY DEF IInv
<1>2. /\ copy' \in [Procs -> Records]
      /\ \A q \in Procs \ {p} : copy'[q] = copy[q]
      /\ copy'[p].pc = "idle" /\ copy'[p].open = copy[p].open \ freed
      /\ copy'[p].rc = code /\ copy'[p].offset = 0
      /\ copy'[p].node = copy[p].node /\ copy'[p].lossless = copy[p].lossless
      /\ copy'[p].last = copy[p].pc /\ copy'[p].buffer = Unread
  BY <1>1, ReturnShape
<1>3. OpenInv(p)'
  BY <1>2 DEF OpenInv, At
<1>4. LoopInv(p)' /\ BufferInv(p)'
  BY <1>2 DEF IInv, ProcInv, LoopInv, BufferInv, At
<1>5. FileInv(p)'
  <2>1. SUFFICES ASSUME clean'[p]
                 PROVE  LET file == remote'[copy[p].node] IN
                        file = base'[p] \/ (file = <<>> /\ code = CL_SFTP_ERR)
    BY <1>2 DEF FileInv, At, Untouched
  <2>2. clean[p]
    <3>1. CASE Local
      BY <2>1, <3>1 DEF Local
    <3>2. CASE Write(p, <<>>)
      BY <2>1, <3>2, Zenon DEF Write
    <3> QED
      BY <3>1, <3>2
  <2> QED
    BY <2>2 DEF IInv, ProcInv, FileInv, At, Local, Write, TypeOK, Records
<1>6. <<>> \in Seq(Cells) /\ InPlace(<<>>)
  BY DEF InPlace
<1> QED
  BY <1>2, <1>3, <1>4, <1>5, <1>6, Rest DEF ProcInv

LEMMA CallHolds ==
  ASSUME IInv, NEW p \in Procs, NEW n \in Nodes, Call(p, n)
  PROVE  IInv'
<1> DEFINE r == [copy[p] EXCEPT !.pc = "new", !.node = n, !.open = {}, !.size = 0,
                   !.opened = 0, !.rc = 0, !.last = "idle"]
<1>1. copy[p] \in Records /\ TypeOK
  BY DEF IInv, TypeOK, Records
<1>2. r \in Records
  <2>1. 0 \in Codes /\ {"new", "idle"} \subseteq Steps
    BY DEF Codes, Steps
  <2> QED
    BY <1>1, <2>1 DEF Records
<1>3. copy' = [copy EXCEPT ![p] = r]
  BY DEF Call
<1>4. /\ r.pc = "new" /\ r.node = n /\ r.open = {} /\ r.offset = copy[p].offset
      /\ r.lossless = copy[p].lossless /\ r.buffer = copy[p].buffer
  BY <1>1 DEF Records
<1> HIDE DEF r
<1>5. /\ copy' \in [Procs -> Records] /\ copy'[p] = r
      /\ \A q \in Procs \ {p} : copy'[q] = copy[q]
  BY <1>1, <1>2, <1>3 DEF TypeOK, Records
<1>6. UNCHANGED <<remote, template>> /\ base'[p] = remote[n]
      /\ \A q \in Procs \ {p} : base'[q] = base[q]
  BY <1>1 DEF Call, TypeOK
<1>7. clean' = [clean EXCEPT ![p] = TRUE]
  BY DEF Call
<1>8. ASSUME NEW q \in Procs \ {p} PROVE ProcInv(q)'
  <2>1. clean'[q] = clean[q]
    BY <1>1, <1>7 DEF TypeOK
  <2>2. copy'[q] = copy[q] /\ base'[q] = base[q] /\ remote' = remote
    BY <1>5, <1>6
  <2>3. ProcInv(q)
    BY DEF IInv
  <2> QED
    BY <2>1, <2>2, <2>3 DEF ProcInv, OpenInv, LoopInv, BufferInv, FileInv, At
<1>9. ProcInv(p)'
  <2>1. copy[p].offset = 0 /\ (~MayLose => copy[p].lossless) /\ copy[p].buffer = Unread
    BY DEF IInv, ProcInv, LoopInv, BufferInv, Call, At
  <2> QED
    BY <1>4, <1>5, <1>6, <2>1 DEF ProcInv, OpenInv, LoopInv, BufferInv, FileInv, At, Untouched
<1>10. TypeOK'
  <2>1. clean' \in [Procs -> BOOLEAN]
    BY <1>1, <1>7 DEF TypeOK
  <2>2. base' \in [Procs -> Seq(Cells)]
    BY <1>1 DEF TypeOK, Call
  <2> QED
    BY <1>1, <1>5, <1>6, <2>1, <2>2 DEF TypeOK, Records
<1>11. BytesInPlace'
  BY <1>6 DEF IInv, BytesInPlace
<1> QED
  BY <1>8, <1>9, <1>10, <1>11 DEF IInv

LEMMA OpensShape ==
  ASSUME TypeOK, NEW p \in Procs, NEW what \in Handles, NEW step \in Steps,
         Opens(p, what, step)
  PROVE  /\ copy' \in [Procs -> Records]
         /\ \A q \in Procs \ {p} : copy'[q] = copy[q]
         /\ copy'[p] = [copy[p] EXCEPT !.open = copy[p].open \cup {what}, !.pc = step]
<1> DEFINE r == [copy[p] EXCEPT !.open = copy[p].open \cup {what}, !.pc = step]
<1>1. copy[p] \in Records /\ copy[p].open \cup {what} \in SUBSET Handles
  BY DEF TypeOK, Records, Handles
<1>2. r \in Records
  BY <1>1 DEF Records, Handles
<1>3. copy' = [copy EXCEPT ![p] = r]
  BY DEF Opens
<1> HIDE DEF r
<1>4. copy' \in [Procs -> Records] /\ copy'[p] = r /\ \A q \in Procs \ {p} : copy'[q] = copy[q]
  BY <1>2, <1>3 DEF TypeOK, Records
<1> QED
  BY <1>4 DEF r

LEMMA NewSessionHolds ==
  ASSUME IInv, NEW p \in Procs, NewSession(p)
  PROVE  IInv'
<1>1. TypeOK /\ At(p, "new") /\ Local /\ copy[p].open = {} /\ copy[p] \in Records
  BY DEF IInv, NewSession, ProcInv, OpenInv, TypeOK, Records
<1>2. CASE Opens(p, "session", "connect")
  <2>1. /\ copy' \in [Procs -> Records]
        /\ \A q \in Procs \ {p} : copy'[q] = copy[q]
        /\ copy'[p] = [copy[p] EXCEPT !.open = copy[p].open \cup {"session"}, !.pc = "connect"]
    BY <1>1, <1>2, OpensShape DEF Handles, Steps
  <2>2. ProcInv(p)'
    BY <1>1, <2>1
    DEF IInv, ProcInv, OpenInv, LoopInv, BufferInv, FileInv, At, Local, Records, Untouched
  <2> QED
    BY <1>1, <2>1, <2>2, Rest
<1>3. CASE Return(p, CL_SFTP_ERR, {})
  <2>1. CL_SFTP_ERR \in Codes \ {0, CS_OK}
    BY DEF Codes, CL_SFTP_ERR, CS_OK
  <2> QED
    BY <1>1, <1>3, <2>1, FailHolds DEF At, Untouched
<1> QED
  BY <1>2, <1>3 DEF NewSession

\* A step that only goes on, before the file is touched.
LEMMA GoesOnHolds ==
  ASSUME IInv, NEW p \in Procs, Local, NEW step \in {"auth", "stat"}, Goto(p, step),
         copy[p].pc \in {"connect", "auth"}
  PROVE  IInv'
<1>1. TypeOK /\ copy[p] \in Records
  BY DEF IInv, TypeOK, Records
<1>2. /\ copy' \in [Procs -> Records]
      /\ \A q \in Procs \ {p} : copy'[q] = copy[q]
      /\ copy'[p] = [copy[p] EXCEPT !.pc = step]
  BY <1>1 DEF Goto, TypeOK, Records, Steps
<1>3. ProcInv(p)'
  BY <1>1, <1>2
  DEF IInv, ProcInv, OpenInv, LoopInv, BufferInv, FileInv, At, Local, Records, Untouched
<1> QED
  BY <1>1, <1>2, <1>3, Rest

LEMMA ConnectHolds ==
  ASSUME IInv, NEW p \in Procs, Connect(p) \/ Authenticate(p)
  PROVE  IInv'
<1>1. copy[p].pc \in {"connect", "auth"} /\ Local /\ copy[p].open = {"session"}
  BY DEF IInv, Connect, Authenticate, ProcInv, OpenInv, At
<1>2. {CL_SFTP_CONN, CL_SFTP_AUTH} \subseteq Codes \ {0, CS_OK}
  BY DEF Codes, CL_SFTP_CONN, CL_SFTP_AUTH, CS_OK
<1>3. CASE Goto(p, "auth") \/ Goto(p, "stat")
  BY <1>1, <1>3, GoesOnHolds
<1>4. CASE Return(p, CL_SFTP_CONN, {"session"}) \/ Return(p, CL_SFTP_AUTH, {"session"})
  BY <1>1, <1>2, <1>4, FailHolds DEF At, Untouched
<1> QED
  BY <1>3, <1>4 DEF Connect, Authenticate

LEMMA StatHolds ==
  ASSUME IInv, NEW p \in Procs, Stat(p)
  PROVE  IInv'
<1>1. TypeOK /\ At(p, "stat") /\ Local /\ copy[p] \in Records
  BY DEF IInv, Stat, TypeOK, Records
<1>2. PICK size \in IF template # Missing THEN {template} ELSE 0 .. Buffer :
        copy' = [copy EXCEPT ![p].pc = "sftp_new", ![p].size = size, ![p].conf_size = size]
  BY DEF Stat
<1>3. size \in Nat
  BY <1>1, SftpAssumption DEF TypeOK
<1>4. /\ copy' \in [Procs -> Records]
      /\ \A q \in Procs \ {p} : copy'[q] = copy[q]
      /\ copy'[p] = [copy[p] EXCEPT !.pc = "sftp_new", !.size = size, !.conf_size = size]
  <2>1. "sftp_new" \in Steps
    BY DEF Steps
  <2> QED
    BY <1>1, <1>2, <1>3, <2>1 DEF TypeOK, Records
<1>5. ProcInv(p)'
  BY <1>1, <1>4 DEF IInv, ProcInv, OpenInv, LoopInv, BufferInv, FileInv, At, Local, Records, Untouched
<1> QED
  BY <1>1, <1>4, <1>5, Rest

\* sftp_conf fails: the session is freed, too.
LEMMA SftpFailsHolds ==
  ASSUME IInv, NEW p \in Procs, NEW freed, SftpFails(p, freed),
         copy[p].open \ (freed \cup {"session"}) = IF At(p, "sftp_init") THEN {"sftp"} ELSE {},
         \/ Local /\ copy[p].pc \in Untouched \cup {"open_source"}
         \/ Write(p, <<>>)
  PROVE  IInv'
<1>1. CL_SFTP_ERR \in Codes \ {0, CS_OK}
  BY DEF Codes, CL_SFTP_ERR, CS_OK
<1> QED
  BY <1>1, FailHolds DEF SftpFails, At

LEMMA SftpNewHolds ==
  ASSUME IInv, NEW p \in Procs, SftpNew(p)
  PROVE  IInv'
<1>1. TypeOK /\ At(p, "sftp_new") /\ Local /\ copy[p].open = {"session"} /\ copy[p] \in Records
  BY DEF IInv, SftpNew, ProcInv, OpenInv, At, TypeOK, Records
<1>2. CASE Opens(p, "sftp", "sftp_init")
  <2>1. /\ copy' \in [Procs -> Records]
        /\ \A q \in Procs \ {p} : copy'[q] = copy[q]
        /\ copy'[p] = [copy[p] EXCEPT !.open = copy[p].open \cup {"sftp"}, !.pc = "sftp_init"]
    BY <1>1, <1>2, OpensShape DEF Handles, Steps
  <2>2. ProcInv(p)'
    BY <1>1, <2>1 DEF IInv, ProcInv, OpenInv, LoopInv, BufferInv, FileInv, At, Local, Records, Untouched
  <2> QED
    BY <1>1, <2>1, <2>2, Rest
<1>3. CASE SftpFails(p, {})
  BY <1>1, <1>3, SftpFailsHolds DEF At, Untouched
<1> QED
  BY <1>2, <1>3 DEF SftpNew

LEMMA SftpInitHolds ==
  ASSUME IInv, NEW p \in Procs, SftpInit(p)
  PROVE  IInv'
<1>1. /\ TypeOK /\ At(p, "sftp_init") /\ Local /\ copy[p].open = {"session", "sftp"}
      /\ copy[p] \in Records
  BY DEF IInv, SftpInit, ProcInv, OpenInv, At, TypeOK, Records
<1>2. CASE Goto(p, "open_dest")
  <2>1. /\ copy' \in [Procs -> Records]
        /\ \A q \in Procs \ {p} : copy'[q] = copy[q]
        /\ copy'[p] = [copy[p] EXCEPT !.pc = "open_dest"]
    BY <1>1, <1>2 DEF Goto, TypeOK, Records, Steps
  <2>2. ProcInv(p)'
    BY <1>1, <2>1 DEF IInv, ProcInv, OpenInv, LoopInv, BufferInv, FileInv, At, Local, Records, Untouched
  <2> QED
    BY <1>1, <2>1, <2>2, Rest
<1>3. CASE SftpFails(p, {})
  BY <1>1, <1>3, SftpFailsHolds DEF At, Untouched
<1> QED
  BY <1>2, <1>3 DEF SftpInit

LEMMA OpenDestHolds ==
  ASSUME IInv, NEW p \in Procs, OpenDest(p)
  PROVE  IInv'
<1>1. /\ TypeOK /\ At(p, "open_dest") /\ copy[p].open = {"session", "sftp"}
      /\ copy[p] \in Records
  BY DEF IInv, OpenDest, ProcInv, OpenInv, At, TypeOK, Records
<1>2. CASE /\ copy' = [copy EXCEPT ![p].open = @ \cup {"dest"}, ![p].lossless = TRUE,
                                   ![p].pc = "open_source"]
           /\ Write(p, <<>>)
  <2> DEFINE r == [copy[p] EXCEPT !.open = copy[p].open \cup {"dest"}, !.lossless = TRUE,
                                  !.pc = "open_source"]
  <2>1. r \in Records
    <3>1. copy[p].open \cup {"dest"} \in SUBSET Handles /\ "open_source" \in Steps
      BY <1>1 DEF Handles, Steps
    <3> QED
      BY <1>1, <3>1 DEF Records, Handles
  <2>2. copy' = [copy EXCEPT ![p] = r]
    BY <1>2
  <2>3. /\ r.pc = "open_source" /\ r.open = {"session", "sftp", "dest"} /\ r.lossless
        /\ r.node = copy[p].node /\ r.offset = copy[p].offset /\ r.size = copy[p].size
        /\ r.conf_size = copy[p].conf_size
        /\ r.buffer = copy[p].buffer
    BY <1>1 DEF Records
  <2> HIDE DEF r
  <2>4. /\ copy' \in [Procs -> Records] /\ copy'[p] = r
        /\ \A q \in Procs \ {p} : copy'[q] = copy[q]
    BY <1>1, <2>1, <2>2 DEF TypeOK, Records
  <2>5. remote'[copy[p].node] = <<>>
    BY <1>1, <1>2 DEF Write, TypeOK, Records
  <2>6. OpenInv(p)' /\ LoopInv(p)' /\ BufferInv(p)'
    BY <1>1, <2>3, <2>4 DEF IInv, ProcInv, OpenInv, LoopInv, BufferInv, At
  <2>7. FileInv(p)'
    BY <2>3, <2>4, <2>5 DEF FileInv, At, Untouched
  <2>8. <<>> \in Seq(Cells) /\ InPlace(<<>>)
    BY DEF InPlace
  <2> QED
    BY <1>2, <2>4, <2>6, <2>7, <2>8, Rest DEF ProcInv
<1>3. CASE SftpFails(p, {"sftp"}) /\ (Write(p, <<>>) \/ Local)
  BY <1>1, <1>3, SftpFailsHolds DEF At, Untouched
<1> QED
  BY <1>2, <1>3 DEF OpenDest

LEMMA OpenSourceHolds ==
  ASSUME IInv, NEW p \in Procs, OpenSource(p)
  PROVE  IInv'
<1>1. /\ TypeOK /\ At(p, "open_source") /\ copy[p].open = {"session", "sftp", "dest"}
      /\ copy[p] \in Records /\ Local
  BY DEF IInv, OpenSource, ProcInv, OpenInv, At, TypeOK, Records
<1>2. CASE /\ template # Missing
           /\ copy' = [copy EXCEPT ![p].open = @ \cup {"source"}, ![p].pc = "copy",
                         ![p].opened = template, ![p].buffer_size = Buffer]
  <2> DEFINE r == [copy[p] EXCEPT !.open = copy[p].open \cup {"source"}, !.pc = "copy",
                                  !.opened = template, !.buffer_size = Buffer]
  <2>1. template \in Sizes /\ template \in Nat /\ Buffer \in Nat
    BY <1>1, <1>2, SftpAssumption DEF TypeOK
  <2>2. r \in Records
    <3>1. copy[p].open \cup {"source"} \in SUBSET Handles /\ "copy" \in Steps
      BY <1>1 DEF Handles, Steps
    <3> QED
      BY <1>1, <2>1, <3>1 DEF Records, Handles
  <2>3. copy' = [copy EXCEPT ![p] = r]
    BY <1>2
  <2>4. /\ r.pc = "copy" /\ r.open = Handles /\ r.lossless = copy[p].lossless
        /\ r.node = copy[p].node /\ r.offset = copy[p].offset /\ r.size = copy[p].size
        /\ r.conf_size = copy[p].conf_size /\ r.opened = template /\ r.buffer_size = Buffer
        /\ r.buffer = copy[p].buffer
    BY <1>1 DEF Records, Handles
  <2> HIDE DEF r
  <2>5. /\ copy' \in [Procs -> Records] /\ copy'[p] = r
        /\ \A q \in Procs \ {p} : copy'[q] = copy[q]
    BY <1>1, <2>2, <2>3 DEF TypeOK, Records
  <2>6. copy[p].offset = 0 /\ copy[p].conf_size = copy[p].size
        /\ (~MayLose => copy[p].lossless) /\ copy[p].size \in Nat /\ copy[p].buffer = Unread
    BY <1>1 DEF IInv, ProcInv, LoopInv, BufferInv, At, Records
  <2>7. OpenInv(p)' /\ LoopInv(p)' /\ BufferInv(p)'
    BY <2>1, <2>4, <2>5, <2>6 DEF OpenInv, LoopInv, BufferInv, At
  <2>8. clean'[p] => Holds(remote'[r.node], template, 0)
    <3>1. Holds(<<>>, template, 0)
      BY DEF Holds, Fits
    <3> QED
      BY <1>1, <2>4, <3>1 DEF IInv, ProcInv, FileInv, At, Local
  <2>9. FileInv(p)'
    BY <2>4, <2>5, <2>6, <2>8 DEF FileInv, At, Untouched
  <2> QED
    BY <1>1, <2>5, <2>7, <2>9, Rest DEF ProcInv
<1>3. CASE SftpFails(p, {"dest", "sftp"})
  BY <1>1, <1>3, SftpFailsHolds DEF At
<1> QED
  BY <1>2, <1>3 DEF OpenSource

\* One turn of the loop.
\* What is read in a turn, and what is in the buffer after it.
LEMMA FilledFits ==
  ASSUME TypeOK, NEW p \in Procs, At(p, "copy"), BufferInv(p),
         copy[p].conf_size <= copy[p].size, copy[p].opened \in Sizes,
         copy[p].buffer_size = Buffer
  PROVE  LET asked == copy[p].size - copy[p].conf_size IN
         /\ Filled(p) \in [1 .. Buffer -> Cells]
         /\ \A j \in 1 .. Chunk(p) :
              IF asked + j <= copy[p].opened THEN Filled(p)[j] = <<copy[p].opened, asked + j>>
              ELSE Stale(copy[p].opened, Filled(p)[j])
<1> DEFINE c == copy[p]
           s == c.opened
           asked == c.size - c.conf_size
<1>1. /\ c.size \in Nat /\ c.conf_size \in Nat /\ Buffer \in Nat \ {0} /\ s \in Sizes /\ s \in Nat
      /\ c.buffer \in [1 .. Buffer -> Cells] /\ asked \in Nat
  BY SftpAssumption DEF TypeOK
<1>2. Chunk(p) \in 0 .. Buffer
  BY <1>1 DEF Chunk, LastChunk
<1>3. ASSUME NEW j \in 1 .. Buffer, asked + j > s PROVE Stale(s, c.buffer[j])
  <2>1. CASE asked = 0
    <3>1. c.buffer[j] = Stack /\ s < Buffer
      BY <1>1, <1>3, <2>1 DEF BufferInv, Unread
    <3> QED
      BY <3>1 DEF Stale
  <2>2. CASE asked # 0
    <3>1. asked >= Buffer /\ Fits(c.buffer, s, asked - Buffer)
      BY <2>2 DEF BufferInv
    <3>2. IF asked - Buffer + j <= s THEN c.buffer[j] = <<s, asked - Buffer + j>>
          ELSE Stale(s, c.buffer[j])
      BY <1>1, <3>1 DEF Fits
    <3>3. asked - Buffer + j > s - Buffer /\ asked - Buffer + j >= 1
      BY <1>1, <1>3, <3>1
    <3>4. CASE asked - Buffer + j <= s
      <4>1. asked - Buffer + j \in 1 .. s
        BY <1>1, <3>3, <3>4
      <4> QED
        BY <3>2, <3>3, <3>4, <4>1 DEF Stale
    <3> QED
      BY <3>2, <3>4
  <2> QED
    BY <2>1, <2>2
<1> HIDE DEF c, s, asked
<1>4. Filled(p) = [j \in 1 .. Buffer |-> IF j <= Chunk(p) /\ asked + j <= s THEN <<s, asked + j>>
                                         ELSE c.buffer[j]]
  BY DEF Filled, c, s, asked
<1>5. Filled(p) \in [1 .. Buffer -> Cells]
  <2>1. ASSUME NEW j \in 1 .. Buffer PROVE <<s, asked + j>> \in Cells
    <3>1. asked + j \in Nat \ {0}
      BY <1>1
    <3> QED
      BY <1>1, <3>1, BufferCells
  <2> QED
    BY <1>1, <1>4, <2>1
<1>6. ASSUME NEW j \in 1 .. Chunk(p)
      PROVE  IF asked + j <= s THEN Filled(p)[j] = <<s, asked + j>> ELSE Stale(s, Filled(p)[j])
  <2>1. j \in 1 .. Buffer /\ j <= Chunk(p)
    BY <1>1, <1>2
  <2>2. CASE asked + j <= s
    BY <1>4, <2>1, <2>2
  <2>3. CASE ~(asked + j <= s)
    BY <1>1, <1>3, <1>4, <2>1, <2>3
  <2> QED
    BY <2>2, <2>3
<1> QED
  BY <1>5, <1>6 DEF c, s, asked

LEMMA CopyChunkHolds ==
  ASSUME IInv, NEW p \in Procs, CopyChunk(p)
  PROVE  IInv'
<1> DEFINE c == copy[p]
           read == c.size - c.conf_size
           filled == Filled(p)
<1>1. TypeOK /\ At(p, "copy") /\ c \in Records
  BY DEF IInv, CopyChunk, TypeOK, Records
<1>2. /\ c.conf_size <= c.size /\ c.buffer_size = Buffer /\ c.opened \in Sizes
      /\ c.open = Handles /\ (c.lossless => c.offset = read) /\ (~MayLose => c.lossless)
  BY <1>1 DEF IInv, ProcInv, OpenInv, LoopInv, At
<1>3. /\ c.size \in Nat /\ c.conf_size \in Nat /\ c.buffer_size \in Nat /\ c.offset \in Nat
      /\ c.node \in Nodes /\ c.lossless \in BOOLEAN /\ Buffer \in Nat \ {0}
      /\ remote[c.node] \in Seq(Cells) /\ c.opened \in Nat
  BY <1>1, SftpAssumption DEF TypeOK, Records
<1>4. read \in Nat /\ read + c.conf_size = c.size
  BY <1>2, <1>3
<1>5. /\ Chunk(p) \in Nat /\ Chunk(p) <= c.conf_size /\ Chunk(p) <= Buffer
      /\ LastChunk(p) => Chunk(p) = c.conf_size
      /\ ~LastChunk(p) => Chunk(p) = Buffer
  BY <1>2, <1>3 DEF Chunk, LastChunk
<1>6. /\ filled \in [1 .. Buffer -> Cells]
      /\ \A j \in 1 .. Chunk(p) : IF read + j <= c.opened THEN filled[j] = <<c.opened, read + j>>
                                  ELSE Stale(c.opened, filled[j])
  BY <1>1, <1>2, FilledFits DEF IInv, ProcInv
<1>7. PICK sent \in IF MayLose THEN 0 .. Chunk(p) ELSE {Chunk(p)} :
        /\ Write(p, Overwrite(remote[c.node], c.offset, [i \in 1 .. sent |-> filled[i]]))
        /\ copy' = [copy EXCEPT
             ![p].pc = IF LastChunk(p) THEN "close" ELSE "copy",
             ![p].conf_size = IF LastChunk(p) THEN @ ELSE @ - Chunk(p),
             ![p].buffer_size = Chunk(p), ![p].buffer = filled, ![p].offset = @ + sent,
             ![p].lossless = @ /\ sent = Chunk(p)]
  BY DEF CopyChunk
<1> HIDE DEF c, read, filled
<1>8. sent \in Nat /\ sent <= Chunk(p) /\ (~MayLose => sent = Chunk(p))
  BY <1>5
<1> DEFINE cells == [i \in 1 .. sent |-> filled[i]]
           file == Overwrite(remote[c.node], c.offset, cells)
           left == IF LastChunk(p) THEN c.conf_size ELSE c.conf_size - Chunk(p)
           step == IF LastChunk(p) THEN "close" ELSE "copy"
           all == c.lossless /\ sent = Chunk(p)
           r == [c EXCEPT !.pc = step, !.conf_size = left, !.buffer_size = Chunk(p),
                          !.buffer = filled, !.offset = c.offset + sent, !.lossless = all]
<1>9. cells \in Seq(Cells) /\ Len(cells) = sent /\ Fits(cells, c.opened, read)
  <2>1. \A i \in 1 .. sent : i \in 1 .. Chunk(p) /\ i \in 1 .. Buffer
    BY <1>3, <1>5, <1>8
  <2>2. cells \in [1 .. sent -> Cells]
    BY <1>6, <2>1
  <2>3. Fits(cells, c.opened, read)
    BY <1>6, <2>1 DEF Fits
  <2> QED
    BY <1>8, <2>2, <2>3, SeqOf
<1>10. left \in Nat /\ left <= c.size /\ step \in Steps /\ all \in BOOLEAN
       /\ c.offset + sent \in Nat
  BY <1>2, <1>3, <1>5, <1>8 DEF Steps
<1>11. copy' = [copy EXCEPT ![p] = r]
  BY <1>7 DEF c
<1> HIDE DEF cells, file, left, step, all
<1>12. r \in Records
  BY <1>1, <1>5, <1>6, <1>10 DEF Records
<1>13. /\ r.pc = step /\ r.open = c.open /\ r.node = c.node /\ r.size = c.size
       /\ r.opened = c.opened /\ r.conf_size = left /\ r.buffer_size = Chunk(p)
       /\ r.offset = c.offset + sent /\ r.buffer = filled
  BY <1>1 DEF Records
<1>14. r.lossless = all
  BY <1>1, Zenon DEF Records
<1> HIDE DEF r
<1>15. /\ copy' \in [Procs -> Records] /\ copy'[p] = r
       /\ \A q \in Procs \ {p} : copy'[q] = copy[q]
  BY <1>1, <1>11, <1>12 DEF TypeOK, Records
<1>16. r.lossless => c.lossless /\ sent = Chunk(p)
  BY <1>14 DEF all
<1>17. OpenInv(p)'
  BY <1>2, <1>13, <1>15 DEF OpenInv, At, step
<1>18. LoopInv(p)'
  <2>1. ~MayLose => r.lossless
    BY <1>2, <1>8, <1>14 DEF all
  <2>2. CASE LastChunk(p)
    BY <1>2, <1>13, <1>15, <2>1, <2>2 DEF LoopInv, At, step
  <2>3. CASE ~LastChunk(p)
    <3>1. r.lossless => r.offset = r.size - r.conf_size
      BY <1>2, <1>3, <1>5, <1>13, <1>16, <2>3 DEF left, read
    <3> QED
      BY <1>2, <1>5, <1>10, <1>13, <1>15, <2>1, <2>3, <3>1 DEF LoopInv, At, step
  <2> QED
    BY <2>2, <2>3
<1>19. BufferInv(p)'
  <2>1. CASE LastChunk(p)
    BY <1>13, <1>15, <2>1 DEF BufferInv, At, step
  <2>2. CASE ~LastChunk(p)
    <3>1. r.size - r.conf_size = read + Buffer /\ read + Buffer >= Buffer
          /\ read + Buffer # 0 /\ read + Buffer - Buffer = read
      BY <1>3, <1>4, <1>5, <1>13, <2>2 DEF left, read
    <3>2. Fits(filled, c.opened, read)
      BY <1>5, <1>6, <2>2 DEF Fits
    <3>3. /\ copy'[p].pc = "copy" /\ copy'[p].buffer = filled /\ copy'[p].opened = c.opened
          /\ copy'[p].size - copy'[p].conf_size = read + Buffer
      BY <1>13, <1>15, <2>2, <3>1 DEF step
    <3>4. copy'[p].size - copy'[p].conf_size - Buffer = read
      BY <1>3, <1>4, <3>1, <3>3
    <3>5. Fits(copy'[p].buffer, copy'[p].opened, copy'[p].size - copy'[p].conf_size - Buffer)
      BY <3>2, <3>3, <3>4
    <3> QED
      BY <3>1, <3>3, <3>5 DEF BufferInv, At
  <2> QED
    BY <2>1, <2>2
<1>20. FileInv(p)'
  <2>1. SUFFICES ASSUME clean'[p], r.lossless
                 PROVE  /\ Holds(remote'[c.node], c.opened, r.offset)
                        /\ LastChunk(p) => r.offset = c.size
    BY <1>13, <1>15 DEF FileInv, At, Untouched, step
  <2>2. clean[p]
    BY <1>7, <2>1, Zenon DEF Write
  <2>3. /\ c.lossless /\ sent = Chunk(p) /\ c.offset = read
        /\ Holds(remote[c.node], c.opened, c.offset)
    BY <1>1, <1>2, <1>16, <2>1, <2>2 DEF IInv, ProcInv, FileInv, At, c
  <2>4. Holds(file, c.opened, read + sent)
    BY <1>3, <1>4, <1>8, <1>9, <2>3, OverwriteAppends DEF file
  <2>5. remote'[c.node] = file
    BY <1>1, <1>3, <1>7 DEF Write, TypeOK, c, file, cells
  <2> QED
    BY <1>3, <1>4, <1>5, <1>13, <2>3, <2>4, <2>5
<1>21. file \in Seq(Cells) /\ (~MayLose => InPlace(file))
  <2>1. file \in Seq(Cells)
    BY <1>3, <1>9, OverwriteType DEF file
  <2>2. ASSUME ~MayLose PROVE InPlace(file)
    <3>1. InPlace(remote[c.node]) /\ c.offset = read
      BY <1>2, <1>3, <2>2 DEF IInv, BytesInPlace, InPlace
    <3> QED
      BY <1>2, <1>3, <1>4, <1>9, <3>1, OverwriteInPlace DEF file
  <2> QED
    BY <2>1, <2>2
<1> QED
  BY <1>7, <1>15, <1>17, <1>18, <1>19, <1>20, <1>21, Rest DEF ProcInv, file, cells

LEMMA CloseHolds ==
  ASSUME IInv, NEW p \in Procs, Close(p)
  PROVE  IInv'
<1>1. /\ TypeOK /\ At(p, "close") /\ Local /\ CS_OK \in Codes
      /\ Return(p, CS_OK, {"source", "dest", "sftp", "session"})
  BY DEF IInv, Close, Codes
<1>2. /\ copy' \in [Procs -> Records]
      /\ \A q \in Procs \ {p} : copy'[q] = copy[q]
      /\ copy'[p].pc = "idle"
      /\ copy'[p].open = copy[p].open \ {"source", "dest", "sftp", "session"}
      /\ copy'[p].rc = CS_OK /\ copy'[p].offset = 0
      /\ copy'[p].node = copy[p].node /\ copy'[p].size = copy[p].size
      /\ copy'[p].opened = copy[p].opened /\ copy'[p].lossless = copy[p].lossless
      /\ copy'[p].last = copy[p].pc /\ copy'[p].buffer = Unread
  BY <1>1, ReturnShape
<1>3. OpenInv(p)' /\ LoopInv(p)' /\ BufferInv(p)'
  BY <1>1, <1>2 DEF IInv, ProcInv, OpenInv, LoopInv, BufferInv, At, Handles
<1>4. FileInv(p)'
  BY <1>1, <1>2 DEF IInv, ProcInv, FileInv, At, Local, Untouched
<1> QED
  BY <1>1, <1>2, <1>3, <1>4, Rest DEF ProcInv

-----------------------------------------------------------------------------
(* The theorems                                                            *)

\* What is open follows from the step, and the file of an undisturbed copy is what
\* its loop has written: this holds at the start and is kept by every step.
THEOREM Inductive == Spec => []IInv
<1>1. IInv /\ [Next]_vars => IInv'
  <2> SUFFICES ASSUME IInv, [Next]_vars PROVE IInv'
    OBVIOUS
  <2>1. CASE Edit
    <3>1. template' \in Sizes \cup {Missing} /\ UNCHANGED <<remote, copy, base, clean>>
      BY <2>1 DEF Edit
    <3>2. TypeOK'
      BY <3>1 DEF IInv, TypeOK
    <3>3. ASSUME NEW p \in Procs PROVE ProcInv(p)'
      BY <3>1 DEF IInv, ProcInv, OpenInv, LoopInv, BufferInv, FileInv, At
    <3> QED
      BY <3>1, <3>2, <3>3 DEF IInv, BytesInPlace
  <2>2. CASE UNCHANGED vars
    BY <2>2 DEF vars, IInv, TypeOK, BytesInPlace, ProcInv, OpenInv, LoopInv, BufferInv, FileInv, At
  <2>3. ASSUME NEW p \in Procs, Step(p) PROVE IInv'
    BY <2>3, NewSessionHolds, ConnectHolds, StatHolds, SftpNewHolds, SftpInitHolds, OpenDestHolds,
       OpenSourceHolds, CopyChunkHolds, CloseHolds DEF Step
  <2> QED
    BY <2>1, <2>2, <2>3, CallHolds DEF Next
<1> QED
  BY <1>1, InitHolds, PTL DEF Spec

\* Every reachable state is typed; in particular the size_t that counts the
\* bytes still to copy never goes below zero.
THEOREM TypeCorrect == Spec => []TypeOK
  BY Inductive, PTL DEF IInv

LEMMA CopiedIs ==
  ASSUME TypeOK, NEW p \in Procs
  PROVE  Copied(p) <=> Holds(remote[copy[p].node], copy[p].opened, copy[p].size)
<1>1. remote[copy[p].node] \in Seq(Cells)
  BY DEF TypeOK
<1>2. DOMAIN remote[copy[p].node] = 1 .. Len(remote[copy[p].node])
  BY <1>1, LenProperties
<1>3. \A i \in 1 .. Len(remote[copy[p].node]) : 0 + i = i
  BY <1>1, LenProperties
<1> QED
  BY <1>2, <1>3 DEF Copied, Holds, Fits

\* An undisturbed copy that sends all it is given and returns CS_OK has left
\* the bytes of one version, whatever the sizes of template and buffer.
THEOREM ExactCopy == Spec => []CopyExact
<1>1. IInv => CopyExact
  BY CopiedIs DEF IInv, ProcInv, FileInv, CopyExact, Returned
<1> QED
  BY <1>1, Inductive, PTL

\* An undisturbed copy that fails has left the old file or an empty one.
THEOREM AllOrNothing == Spec => []ErrorLeavesOldOrEmpty
<1>1. IInv => ErrorLeavesOldOrEmpty
  BY DEF IInv, ProcInv, FileInv, ErrorLeavesOldOrEmpty, Returned
<1> QED
  BY <1>1, Inductive, PTL

\* The one thing a call can leave open is an sftp session, and it does so exactly if
\* it failed at sftp_init.
THEOREM LeaksOnlyThere == Spec => []OnlyInitFailureLeaks
<1>1. IInv => OnlyInitFailureLeaks
  BY DEF IInv, ProcInv, OpenInv, OnlyInitFailureLeaks
<1> QED
  BY <1>1, Inductive, PTL

\* However many copies overlap, if no write is cut every byte of a version is at its
\* place, as far as that version goes.
THEOREM PlacesKept == Spec => []BytesInPlace
  BY Inductive, PTL DEF IInv
=============================================================================
