# A verification project for ctc, the corosync test client

`ctc` (`src/corosync-client/src/main/*.c`) is a command line client with which
one operates and disturbs a small corosync cluster: it starts and stops the
daemon of a node over ssh, takes a node's ring interface down and up, copies
configuration templates to nodes, changes quorum votes, and prints or monitors
membership and quorum. It keeps no state of its own between two runs; what it
changes is the state of services that other `ctc` processes, and anything else
on the cluster, use at the same time. Its functions are sequences of requests,
each of which may fail, so the questions are: what does a call leave behind
when one request of several fails, what do two calls do to each other when
their requests interleave, what may a caller conclude from the code it gets,
and does every call come back.

## Inventory

| Component | State | Operations | Talks to |
|---|---|---|---|
| Quorum manager (`quorum_manager.c`, `cluster_manager.c`) | a votequorum connection per running function; locals read by one request and used by a later one | `get_quorum_info`, `get_votequorum_info`, `get_votes`, `get_expected_votes`, `set_votes`, `set_expected_votes`, `set_votes_and_adjust`, `get_local_nodeid` | votequorum, cfg |
| cmap keys (`client_cmapctl.c` 1-195) | a cmap connection; the type and length found by the probe | `set_cmap_value`, `get_cmap_value`, `delete_cmap_value` | cmap |
| Membership listing (`client_cmapctl.c` 197-304, `print_manager.c`) | an array sized by one iteration and filled by another | `get_member_count`, `get_members`, `print_membership`, `print_quorum` | cmap, cfg, quorum manager |
| Remote commands (`ssh_manager.c`) | ssh session and channel of a call | `start_corosync`, `stop_corosync`, `kill_conn`, `start_conn`, `restart_corosync` | sshd of a node, its daemon, its interface eth1 |
| Configuration copy (`sftp_manager.c`) | ssh and sftp session, two open files, size left | `copy_conf`, `sftp_conf` | sshd and file system of a node |
| Monitor (`monitor.c`) | four connections, a queue of notifications per connection, globals set by callbacks | `monitor_status`, two callbacks, the dispatch loop | cmap, quorum, votequorum, cfg, printing |
| Client (`client.c`) | the task and arguments of the command line | `client_*_option`, `client_ssh_command`, `client_change_votes` | all of the above |
| Reference shell (`Agile and Other Materials/corosync_example.c`) | handles and flags of three connections in global variables, detached dispatch threads | connect, disconnect, four vote commands, `node_show` | cmap, quorum, votequorum |
| Errors, time (`client_errors.c`, `time_manager.c`) | none | texts of codes, printing the clock | - |

Hard behaviour, and what makes each component correct:

* **Quorum manager** - `set_votes_and_adjust` is a read-modify-write over two
  pieces of cluster state in four requests and three nested calls, each with a
  connection of its own. Correct: connections never outlive a call; the call
  moves expected votes by what it moves the node's votes by; a failure never
  touches expected votes; each call looks atomic to a process that is alone.
* **cmap keys** - the probe and the fetch are separate requests, and so are the
  fetch and the delete. Correct: every call acts on cmap at one instant; what it
  stores has the shape its type says; an error has changed nothing.
* **Remote commands** - any of six libssh calls may fail, links are lost at any
  time (also by `kill_conn` itself), the daemon stops asynchronously, answers are
  lost after the command has run, and the command may fail at the node, whose exit
  status nobody asks for. Correct: the code a call returns tells whether its
  commands were executed, and each was executed once at most; an error leaves the node
  as it was; error paths free what was made; calls that avoid the ring interface come
  back.
* **Configuration copy** - the size is taken first, truncation comes before the
  template is opened, the copy runs in chunks beside other copies, and an editor
  may replace the template meanwhile. Correct: an undisturbed success is an exact
  copy for every size, of one version of the template; a failure never leaves part
  of a template.
* **Membership listing** - an array is sized by one listing of the keys and
  filled by another, nodes join in between, errors inside a listing end it like its
  last key, and a monitor lists again and again, over memory it has freed. Correct: the
  array is not overrun unless a node joined in between or the count was cut short; no
  line mixes two nodes or shows a status its node never had, unless a request was
  refused; an undisturbed listing prints every member once.
* **Monitor** - four connections opened one after the other, notifications that
  queue up while it prints, `using_votequorum` asked twice and read in two ways.
  Correct: every way out closes everything; what is on the screen is as new as the
  last notification; the loop does not wait for what will never come.
* **Client** - composes the above over several addresses and goes on after every
  failure. Correct: from the lines it prints a user can tell what happened at each
  node; no address is skipped; a line is carried out to its end.
* **Reference shell** - handles in global variables, used by the threads that
  dispatch them and overwritten by the next connect; vote commands that decide on
  votes read by an earlier request; a table filled by index and printed by count.
  Correct: what it says is so; a failure leaves votes alone; only a connect over a
  connection loses it, or gives it two threads; `node_show` leaves out no node without
  a reason.

The hazards, each at its line and with the properties aimed at it, are listed in
`PROJECT.json`.

## Modules

| Module | Is |
|---|---|
| `QuorumManager` | the quorum functions, one action per request |
| `QuorumLedger` | what they promise a process that is alone: one step per call |
| `QuorumManagerProofs` | theorems about `QuorumManager`, among them that it implements `QuorumLedger` |
| `CmapCtl` | the three cmap functions, one action per request |
| `CmapRegisters` | what they promise under interference: each call one step on one key |
| `CmapCtlProofs` | theorems about `CmapCtl`, among them that it implements `CmapRegisters` |
| `SshManager` | the remote commands, one action per libssh call, with nodes, daemons and links |
| `RemoteCommands` | what they promise their caller, and the nodes they act on |
| `SshManagerProofs` | theorems about `SshManager`, among them that it implements `RemoteCommands` |
| `SftpManager` | the configuration copy, one action per libssh call and loop turn |
| `SftpManagerProofs` | theorems about `SftpManager` |
| `Membership` | the membership listing, one action per request, while nodes join and leave |
| `MembershipProofs` | theorems about `Membership` |
| `Monitor` | `monitor_status`, one action per request, while membership changes |
| `MonitorProofs` | theorems about `Monitor` |
| `Ctc` | runs of `ctc`: its command line, and `client_ssh_command` on `SshManager` and `SftpManager` |
| `CtcProofs` | theorems about `Ctc`, from those about `SshManager` and `SftpManager` |
| `ReferenceShell` | the reference shell, one action per request, with its dispatch threads |
| `ReferenceShellProofs` | theorems about `ReferenceShell` |
| `MC*` | instances of the above for TLC: constants and symmetry |

Operators commented with `Fault:` are plausible bugs, each a variant of the
definition that follows it. They are not part of any specification; replacing a
definition by its fault must make TLC report the property it is paired with in
`PROJECT.json`.

### QuorumManager

A process (a run of `ctc`, or another program linked with the file) is in the
step `pc[c]` of the innermost running function `fn[c]`. The only function that
calls others is `set_votes_and_adjust`; `resume[c]` says where it goes on. Every
request to a service is one action, so requests of different processes
interleave and each may be refused (`MayFail`). `locate` is
`get_local_nodeid` where its error is checked, `open` the
`votequorum_initialize`, `request` the one request of the six simple functions
together with the `votequorum_finalize` that every path behind it goes through.
`votes` and `expected` are the service's. `Modulus` stands for 2^32.
`get_quorum_info` asks about node 1 whatever the local node is, as in the code.

The history variables `base` and `clean` record the ledger when a call began and
whether another process has written since. They restrict no step. `Alone` is the
process where there is only one; `Ledger` maps its state to `QuorumLedger`, which sees
the two writes of `set_votes_and_adjust` when the function returns.

### CmapCtl

Same scheme. An entry is a type and a datum; `Width` gives the length of an
entry of each type, which `cmap_get` compares with the length the probe found.
The string type is fetched with `cmap_get_string`, which yields a pointer;
everything else is copied as bytes: `shape` keeps that distinction, because the
caller frees one and not the other. `want` is whether the caller passed a
pointer for the value. `done` is the completed call.

### RemoteCommands and SshManager

`RemoteCommands` is the view of a caller: a node has a daemon (`down`, `up`,
`stopping`) and an interface eth1; a call is a function that executes one command,
or two for `restart_corosync`, each at one instant (`Take`); `CS_OK` is returned
only when all of them have been executed, and after an error the one it got to has
not been, except perhaps after `CL_SSH_COMMAND_EXEC_FAIL`. The commands are those of
the four functions of the file. Executed is not obeyed: `corosync` does not start on an
empty configuration file, `ifup` may find no device, and since the functions read the
output to its end and never ask for the exit status (`ssh_manager.c:59-74`), no code tells.
So `Execute` is `Obey` or nothing, for every command.

In `SshManager` a call is a record `call[c]`: the function, which of the four is
running, its next step, the address, what it holds and whether its TCP connection
lives. `start_corosync`, `stop_corosync`, `kill_conn` and `start_conn` are copies of
one procedure that differ in the command they execute, so there is one action per
libssh call. A session over a ring address travels over eth1, one over the
alternative address does not. A cut link lets a read wait until the TCP connection
is given up (`LoseLink`), which may never happen. `nbytes` is an unsigned int, so the
comparison that ends the read loop is made on the wrapped value. `KeepsPromise`
says that this is `RemoteCommands` under the mapping of `Promise`, in which only `busy`
computes anything.

What a code tells about the node is `CodeTellsNode`. `obeyed` is history: did the node do
what each command of the call is for? `CS_OK` means that the effect is there if it did, and
that the node is as it was if it did not; an error means that the node is as it was, with
two exceptions the property names: the answer of the exec request may be lost, and a restart
that fails may have stopped the daemon. The daemon may take longer than the second that
`restart_corosync` sleeps; a start that comes too early is one that is not obeyed.

### SftpManager

The remote file is a sequence of cells that tell which byte of which version of
the template they are; versions are known by their size. `Edit` replaces the
template at any moment: the number of bytes copied is that of `stat`, the bytes are
those of the version `fopen` found (an open file stays what it was). `buffer` is the
256 bytes of `sftp_conf`: a read that goes past the end of the file fills its beginning
(`Filled`) and leaves the rest, which is what the turn before read or what the stack held
(`Stack`), and all of it is written. `CopyExact` and `BytesInPlace` tell such bytes
(`Stale`) from bytes of a version at their place. Every process writes at its own
offset. `ssh_new`, `ssh_connect` and `ssh_userauth_password` are a step each, and `last`
records from which step a call returned, so that `OnlyInitFailureLeaks` can say that
`sftp_init` is the only one that leaves something open. `sent` is how much of a chunk `sftp_write` sent, which the code does not
look at. When the template does not exist, `st.st_size` is an arbitrary value of the
stack (`0 .. Buffer` here).

### Ctc

A command line is a sequence of tokens; `Permuted` is the order in which argp hands
them to `parse_opt`, which takes the options before the arguments. `run[p]` is
where a process is in `main` and the functions it calls. For `-c` it goes through the
addresses; `client_ssh_command` calls a function of `SshManager` or `SftpManager`, whose
steps (`RemoteStep`, `CopyStep`) interleave with those of other processes and with
the daemons', until it is idle again. `lines` are the lines about the address it did
last. An address that does not resolve ends in the error of a function that had no
effect. `set_votes`, the print functions and a monitor are one step each, and
what they do in detail is the subject of the other modules. The templates are not
edited (`sftp` has that), and nodes are named by their alternative addresses and links
are not lost: `ssh_lost` shows what happens otherwise. A command may fail at the node
here too, for instance a start on the empty file that a failed `reset_conf` has left,
so `LinesTrue` and `ResetOutcome` say what the lines tell with and without `obeyed`: a
printed failure means that the daemon is as it was, "node started" without one means
that it is up only if the node obeyed.

### ReferenceShell

`handle`, `connected` and `our_nodeid` are the global variables. The handles of the
connect number `g` are `g`. `start_dispatch` creates a thread that reads the global
variable only when it begins to run (`Dispatch`), which may be after the next
connect or disconnect. A vote command is the requests it makes, between which
another client may set votes.

`node_show` is its requests too: `cmap_iter_init`, one turn of the loop for each index of
the nodelist in any order (`NextNode`), whose id is read or refused, the end of the loop at
the last key or at an error (`ListEnds`), and one request of votes for each row
(`ShowRow`). `nodes` is the table, filled by the index of the nodelist and printed from row
0 up to the number of ids that were read, so a gap in the indices, or an id that was
refused, leaves out nodes at the end and prints the id 0 (`ShowsEveryNode`). The index is
not compared with the size of the table: a shell that has written beyond it is at the step
`overran`, and what follows is not modelled. The names of the nodes, which go to the same
rows, are left out, and the nodelist, which the reload of a configuration changes, is the
same during one command.

### Membership

The keys of the member nodes are numbered in the order cmap lists them: `2n-1` is
`members.<n>.ip`, `2n` is `members.<n>.status`. The other keys under the prefix
(`config_version`, `join_count`) would only repeat the test for a new node. `arr`
is the array `print_membership` allocates. A row that malloc returns is one of `Garbage`:
`Call` is the listing of a new process (`ctc -p`), whose heap holds nothing of an earlier
one, and `Again` that of a monitor, where `memory` has the statuses of the rows freed so
far, since `free` overwrites only the first bytes of a row and the memsets of
`client_cmapctl.c` (271, 279, 289), called with two arguments exchanged, clear nothing.
`had` records, for each node, the statuses it had during the call. `Unset` values may
compare equal to anything. `get_cmap_value` is one step, as
the refinement of `CmapRegisters` allows, and so is `get_votes`. `grown`, `quiet`,
`flawless`, `short` and `overrun` are history variables; a write past the array may
kill the process (`crash`) or corrupt other memory (the call goes on, and the process is
not followed beyond it).

### Monitor

A membership change first shows in cmap (`members`), then votequorum takes it over
(`ring`) and notifies the connections that track changes (`queue`). The module
keeps which change each part of the screen shows (`shown_ring`, `shown_members`).
`print_quorum` asks `get_quorum_info`, hence about node 1, which votequorum knows
only if there ever was one (`node_one`). The loop dispatches only the votequorum
connection, so `quorum_notification_fn` never runs and has no action.

## Runs

| Run | Instance | Shows |
|---|---|---|
| `quorum_alone` | 1 process, 3 node ids of which 2 exist, votes {0,1,3}, unsigned ints mod 4, refusals | types, no leak, refinement of `QuorumLedger` (exact adjustment, footprint of failures), every call returns |
| `quorum_two` | 2 processes, 1 node, `set_votes` and `set_votes_and_adjust`, refusals | exact adjustment and footprint under interference |
| `cmap_race` | 2 processes, 1 key, 3 types, 2 data, refusals | types, no leak, shape follows type, refinement of `CmapRegisters`, an undisturbed delete returns its victim |
| `ssh` | 2 processes, 1 node, one with all 5 functions and one that stops the daemon and cuts the interface, both addresses, failures of libssh and of the commands at the node, lost links | refinement of `RemoteCommands`, leaks only after a failed authentication, what a code tells about the node and what not |
| `ssh_lost` | 1 process, lost links, under fairness | **violation**: a lost link is not reported |
| `sftp` | 2 processes, 1 node, a template of 0.5, 1 or 1.5 buffers or missing, edited at any time, failures | what an undisturbed copy leaves on success and on failure, bytes at their offsets when copies overlap and stale bytes of the buffer only past the end of a version, one leak at one step |
| `sftp_lossy` | 1 process, cut writes | **violation**: success without a copy |
| `members` | 2 nodes joining and leaving, refusals, listings in new processes and in one that goes on | types, no leak, the array is overrun only after growth or a count cut short, each line has the ip of its node and a status it had in the meantime unless a request was refused, all members when undisturbed, every listing ends |
| `monitor_loop` | 4 membership changes, every provider and type of quorum, refusals | everything is closed on every way out, no wait on an untracked connection, the screen is current, notified changes are shown |
| `monitor_ends` | 2 changes, nothing refused | **violation**: the monitor ends by itself |
| `ctc` | 2 processes, 1 node and 1 address that does not resolve, 20 command lines, failures of libssh and at the node, cut writes | what the printed lines mean, in particular for `reset_conf`; every address is handled; every line is carried out |
| `shell` | 2 connects, 2 kinds of dispatch threads, refusals, another client, a table of 3 rows and node lists without a gap, with one, and with an index beyond the table, unsigned ints mod 3 | what the shell says, what it leaves after a failure, which thread dispatches what, what reconnecting loses, which nodes `node_show` leaves out |

**Bounds.** Every model is finite without a state constraint: a process runs one
call at a time, and vote counts wrap. Two processes suffice for interference:
each property speaks of one process, and the steps of all others affect it only
through the shared state, which one other process can drive through all its
values between any two of its steps. One key, one node and one file suffice for
the same reason, since calls on different ones share nothing (`quorum_alone` has
two nodes and an unknown third, because the adjustment relates one node to the
cluster). `Modulus` 4 lets both wrap-arounds happen (3 in
`shell`, where only the lower end wraps). `Buffer` 2 with sizes 1, 2 and 3 covers less than a
buffer, a multiple and a remainder, and an edit between `stat` and `fopen` makes the loop read
past the end of the version it opened or stop before it; `sftp_lossy` has the empty
template. `UintValues` 4 keeps -1 apart from the chunk counts. `MaxOutput` 0 drops only
repeated turns of the read loop. In `ctc` one process has every kind of line and
the other one of the three that interfere; a template of one buffer is enough
there, since what the copy does is checked in `sftp`. Two connects in `shell` are
what it takes to overwrite a handle and to have two threads of one kind; `node_show` is
typed after one connect at most (`LastShow`), since what it does depends on whether cmap
and votequorum are connected and on nothing else a second connect changes. `TableSize` 3
leaves a row that no node of the two lists without index 3 fills. Only
`quorum_two` uses symmetry, and checks invariants only. Two nodes in `members` let the
array overrun, let rows be left out and let one row take what another left; `Join` and `Leave` are unbounded, since a
status is all they change. Four changes in `monitor_loop` let notifications queue
up behind a slow print. Deadlock is checked in every run but `ctc`, where each
process runs one line and stops.

**Fairness.** `FairSpec` asks weak fairness of the steps of each process that is
in a call (and, in `SshManager`, of a daemon that was told to stop). The monitor
may wait in `votequorum_dispatch` for ever while nothing is queued (`Waits`): not
even a failure of the dispatch is certain then. No step of a
call waits for another process, so the operating system's scheduler is enough.
New calls are not fair, nor is noticing a lost link; a read on a cut link may
wait for ever, which is why `RunEnds` (in `Ctc`) speaks of runs that use the
alternative addresses. There a run is fair unless it monitors, since a monitor need not end.

### Disagreements

With a run each:

1. A link lost during `ssh_channel_read` makes the four commands spin
   (`nbytes` is unsigned), in contrast to `ssh_manager.h:19`.
2. `copy_conf` returns `CS_OK` when writes were cut or failed.
3. `get_quorum_info` asks about node 1 (`quorum_manager.c:17`), so in a cluster
   without one the monitor ends at the first membership change, in contrast to
   `how_everything_works.txt:63`.

Met while modelling, and expressed in the models without a run of their own:

4. `set_votes_and_adjust` loses updates (`quorum_manager.c:165-179`): two
   overlapping adjustments both start from the same expected votes. `AdjustExact` is
   stated for undisturbed calls for this reason. No command of `ctc` reaches it.
5. `delete_cmap_value` may hand back another value than the one it deletes, in
   contrast to `client_cmapctl.h:45`: `QuietDeleteReturnsVictim` needs its condition.
6. `ssh_manager.h:19` promises 0 on success; the functions return `CS_OK`, 1.
7. `print_membership` ignores the error of `get_members` and prints rows nobody
   wrote (`print_manager.c:21`), in a monitor with what an earlier listing left in them;
   `PrintsMembers` says that they come last, and only after a refusal.
8. `reset_conf` prints `corosync.conf reset to ...` whatever happened, and stops the
   daemon of a node whose configuration it may just have emptied (`client.c:73-82`);
   `ResetOutcome` says what can be concluded from the lines before.
9. A template replaced between `stat` and `fopen` is cut, or followed by bytes of
   the buffer (`sftp_manager.c:19`, `38`): the second case of `CopyExact`.
10. `reset_conf` without a template crashes `ctc` (`client.c:203`), and so does
    `set_votes` without a count (`client.c:178`), before anything is done.
11. The shell's `node_show` is to "Display all the nodes" (`corosync_example.c:404`);
    with a gap in the node list, or an id it could not read, it stops before the last ones
    (line 470): `ShowsEveryNode`.
12. `mark_ineligible` of the shell lowers expected votes and may then fail, or wrap
    them when they are 0 (lines 350-353): `SaidIsTrue`.

13. `ctc` prints "node started" of a node where corosync did not start, and nothing else
    (`client.c:49-53`): the exit status of the command is never asked for
    (`ssh_manager.c:59-74`). `CodeTellsNode` and `LinesTrue` need the condition `obeyed`.

## Proofs

Every invariant that a run checks, the action property of `CmapCtl` and the three
refinements are proved for every value of the constants, from the assumptions that the
modules state and TLC evaluates in every run:

| Module | Theorems, and the properties they establish |
|---|---|
| `QuorumManagerProofs` | `TypeCorrect` `TypeOK`, `NoLeak` `NoHandleLeak`, `AdjustCorrect` `AdjustExact`, `FootprintCorrect` `FailedAdjustFootprint`, `Implements` `LedgerSpec` |
| `CmapCtlProofs` | `TypeCorrect` `TypeOK`, `NoLeak` `NoHandleLeak`, `ShapeCorrect` `ShapeFollowsType`, `DeleteCorrect` `QuietDeleteReturnsVictim`, `Implements` `RegistersSpec` |
| `SshManagerProofs` | `TypeCorrect` `TypeOK`, `LeaksOnlyThere` `OnlyAuthFailureLeaks`, `CodeCorrect` `CodeTellsNode`, `Implements` `KeepsPromise` |
| `SftpManagerProofs` | `TypeCorrect` `TypeOK`, `ExactCopy` `CopyExact`, `AllOrNothing` `ErrorLeavesOldOrEmpty`, `LeaksOnlyThere` `OnlyInitFailureLeaks`, `PlacesKept` `BytesInPlace` |
| `MembershipProofs` | `TypeCorrect` `TypeOK`, `NoLeak` `NoHandleLeak`, `OverrunsOnlyThen` `OverrunOnlyByGrowth`, `PrintsRight` `PrintsMembers`, `PrintsAll` `PrintsAllMembers` |
| `MonitorProofs` | `TypeCorrect` `TypeOK`, `ClosesAll` `NothingLeftOpen`, `WaitsTracked` `NeverWaitsUntracked`, `ScreenCurrent` `ShownIsCurrent` |
| `CtcProofs` | `ResetRight` `ResetOutcome`, `LinesRight` `LinesTrue`, `HandlesAll` `EveryAddressHandled` |
| `ReferenceShellProofs` | `TypeCorrect` `TypeOK`, `SaysTheTruth` `SaidIsTrue`, `LosesOnlyThere` `LostByReconnect`, `DispatchesItsOwn` `OneDispatcherEach`, `ShowsAll` `ShowsEveryNode` |

Most of these properties speak of processes between two calls, so they are not
inductive. Each module has an inductive invariant `IInv` that says what is known of a
process at any step, and a theorem `Inductive` that it always holds; TLC checked each
`IInv` on the instances of the runs before it was proved. What they have in common is a
part about the shared state that is conditional on nobody having disturbed the call,
and a frame argument: the step of another process leaves the call's variables alone and
either leaves the shared state alone or clears the history variable.

### QuorumManager

`IInv` says, for a process at any step, where control can be and how many connections
are open there (`ControlInv`: one for a `set_votes_and_adjust` beyond its `open`, one
more while a nested request is pending), and, while nobody has disturbed it, what is
known of the ledger (`LedgerInv`: nothing has changed before the write; after the first
read `cur_votes` is the base's, after the second `expected_votes` too; after the write
the node has the new votes and `expected_votes` holds the target).

`Implements` is about a cluster with one process (`Clients = {Alone}`; with two,
`set_votes_and_adjust` is not atomic). Its `AloneInv` adds that the arguments of a call
stay those it was given, and that after the write `cur_votes` still is what was
overwritten: that is what makes the settled ledger the old one until the function
returns. A request that returns into `set_votes_and_adjust` is a stutter
(`ReturnsInside`, `Unsettled`), one that returns to the caller a step of the ledger
(`Settles`, `Refuses`).

### CmapCtl

`ControlInv` ties the connection to the step; `HeldInv` says what the probe and the
fetch have found, and that an undisturbed call still finds it in cmap: this is why
`cmap_get` cannot meet another length than the one it was given, and why a delete hands
back what it removes. `Implements` has one case per action: only the last request of a
call that succeeds changes the registers, at its answer.

### SshManager

`HeldInv` lists what a call holds at each step; the session that a failed authentication
leaks is the one exception. `NodeInv` says what is known of a node nobody else commands:
untouched before the command is executed, and after it if the node did not obey
(`RunningInv`), changed as the command says if it did; of a restart, which is two calls,
that no daemon is up that was not before, until the second command. `ReturnedInv` is the
same after the return, and `CodeTellsNode` follows from it. `Implements` maps a call to its
function, its node, the number of commands done and its code: executing the command is
`Take`, a failing libssh call `Fail`, and an answer to the exec request that is lost is a
`Fail` with the command executed; everything else is a stutter (`QuietStep`).

### SftpManager

`LoopInv` is the invariant of the copy loop, `offset = size - conf_size` while every
write has sent all it was given; `FileInv` says that the file of an undisturbed copy then
is the first `offset` bytes of the version that was opened, as far as that version goes,
and then bytes of the buffer (`Fits`). `BufferInv` is why no others can follow: between two
turns the buffer holds the last `Buffer` bytes that were asked for, so what a read past the
end leaves in it (`FilledFits`) is `Stale`, one of the last bytes of the version or of the
stack. `OverwriteAppends` and the lemmas around it say what a write at an offset does to a
file. The proof of `BytesInPlace`
needs `MayLose` to be false altogether: a cut write of a copy that is over leaves
bytes out of place in the file, and so does one to another node. The property was first stated
for states in which no process has had a cut write, and is not true then with two
nodes; one node, as in the run `sftp`, does not show it.

### Membership

`LoopInv` says that the loops are at key `pos` of member `prev` and that no counter is
ahead of `prev`; `CountInv` that what was counted is the number of a set of members with an
id up to `prev`, and of all of them if nobody has joined. An array is overrun only by a member
that was not counted (`OverrunOnlyByGrowth`). `FillInv`, `RowsInv` and `PrintInv` follow the
rows from `get_members` to the screen; they need that the rows are in the order of the
ids, which is the order in which cmap lists the keys, and `HadInv`, that a status read
during the call is one the node had during it.

### Monitor

The invariant has three parts, which together are inductive:

* `ConnectionInv`: nothing is open between two runs; a votequorum connection is there
  only with votequorum as the provider. That is why the second `using_votequorum`
  of the loop, whose error counts as yes, can only lead to a wait on a connection
  that is open and tracked: without one, `votequorum_trackstart` fails.
* `ClusterInv`: votequorum is at most one change behind cmap and has queued at most
  one notification per change, which bounds the queue.
* `ScreenInv`: while the loop is at its dispatch, what it showed last is current or a
  notification is queued; members printed without a refusal are no older than the ring
  the screen shows. Both are needed for `ShownIsCurrent`, which speaks only of an empty
  queue.

A step that ends a run is one of `Return` (lemma `StepToIdle`), so what each failure
leaves is proved once, in `ReturnStep`.

### Ctc

`Ctc` is composed of two modules, and so is its proof. Every behaviour of `Ctc` is one of
`SftpManager` in which nobody edits the template (`IsSftp`), and, since the node that
`reset_conf` stops is that of its copy, one of `SshManager` (`IsSsh`). So their theorems,
instantiated, give their invariants in every state of `Ctc` (`SftpCorrect`, `SshCorrect`),
and what remains is the client's own:

* `LoopInv`: the addresses handled are those before the one the loop is at, in order;
* `CallInv`: while the loop waits, `call` or `copy` is the call for that address;
* `AfterInv`: the lines about the last address are those that follow from the codes of
  the calls that `call` and `copy` still describe.

A step of a manager changes neither the function nor the node of its call and touches no
other process (`StepShape` in both managers' modules, `OthersUntouched`). `ResetRight`
and `LinesRight` then join `AfterInv` with what the managers know of the node, be it obeyed or
not. That copies overlap is part of it: `ResetRight` covers any number of processes, while in
`ctc` only one resets nodes (`sftp` has two copies to one node).

`CtcAssumption` says what a command line is. It includes that `Options(line)` and
`Plain(line)`, which are selections from the line, are sequences: that is so for
`SelectSeq` of any sequence, but only an induction shows it.

### ReferenceShell

`SaidIsTrue` follows from `VoteInv`, what a vote command has found and changed at each
step. For the threads, `CreatedInv` says that one that has not begun to run will find its
own handle unless connect was typed meanwhile, and `PendingInv` that a kind the running
connect has still to open is closed and without such threads, or its loss is already
recorded in `lost` or `late`. `ListInv` says of `node_show` that there are as many rows as
ids read, each at its index, and a line or a refusal for each of them before the next row;
if all indices up to one were read there are more rows than that, so its line was printed
(`LeftOut`).

### Only model-checked

The liveness properties `CallsReturn`, `PrintReturns`, `ChangeIsShown` and `RunEnds`
(TLAPS does not handle liveness under fairness), and the three violations.

## Plan

Every part of `ctc` that changes state is modelled, and every safety property and
refinement that a run checks is proved. What could be added:

1. The print functions, the monitor and `set_votes` are one step each in `Ctc`: as actions
   of `Membership`, `Monitor` and `QuorumManager` composed with it, the runs would
   show what a vote change of one process does to the screen of another.
2. The premises of the liveness arguments, as theorems: a bound on the steps of a call
   that every step of it decreases.

Assumed throughout: a request that is refused has had no effect, except the exec
request of ssh and the opening of a remote file, whose answers may be lost.

## Not modelled

* Key name generation (`client_cmapctl.c`): string formatting nobody calls.
* Error texts and time (`client_errors.c`, `time_manager.c`): pure formatting.
* What a command does at a node beyond the daemon and eth1, and why it fails there.
* The tests: short sequences of the calls that `CmapCtl` and `SshManager` model.
* Of the reference shell, what it only prints: the quorum status, the counters and
  texts of notifications, the names of the cluster and the nodes, the help; and a shell
  that has written beyond its table of nodes.
* The notifications of the quorum connection, which the monitor never dispatches, pile
  up in the library (`monitor.c:225`).
* The headers under `inc/corosync`, `inc/libqb`, `inc/libssh` and `inc/minunit`: third-party
  code, which is most of the repository's lines. What `ctc` uses of these libraries is
  modelled from its calls; their own data structures are not part of this system.
