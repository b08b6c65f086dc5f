# momail in TLA+

momail is a FidoNet mailer: it exchanges files with other systems over the
binkp protocol, from an outbound directory of packets and flow files into an
inbound directory.  This directory holds TLA+ models of its code (`src/`), the
TLC configurations that check them, and proofs that TLAPS checks.

1. The system and its parts
2. The modules
3. What the runs check
4. What is proved
5. Where code and documentation part
6. What is not modelled

## 1. The system and its parts

| part | code | state | modules |
|---|---|---|---|
| File transfer | `binkp/session.go`: `Run`, `fileSender`, `fileReader`, `sendFiles`, `handle*`, `finishCurrentFile` | the connection, `sentFileMap`, `weSentEOB`, `theySentEOB`, the file being received, spool and inbound directory | `StoreAndForward`, `BinkpSession` |
| Handshake | `session.go`: `sendHandshake`, `performHandshake` | `remoteSentADR`, `authDone`, `pwdSent`, `activeLink` | `Handshake` |
| File requests | `session.go`: `handleGet`, the loop over `requestedFiles` | `requestedFiles`, `sentFileMap` | `FileRequest` |
| Inbound directories | `session.go`: `handleFile`, `handleData`, `finishCurrentFile`, `executeTriggers` | temporary, secure and insecure directory, `pendingCommands` | `Inbound` |
| Outbound queue | `session.go`: `FindFlowFiles`, `processFlowFile`, `processNetmail`; `scheduler.go`: `scanOutbound`, `getBsoBase` | `.?ut` and `.?lo` files, the lines of flow files | `Bso`, `FlowExt`, `FlowFiles` |
| Scheduler | `scheduler/scheduler.go` | `failureCounts`, `lastAttemptTime`, `triggerScan`, `.bsy` and `.hld` files | `Scheduler` |
| Server, client | `binkp/server.go`, `binkp/client.go` | the listener | `Lifecycle`, `Scheduler` |
| Lifecycle, cron | `main.go`, `signals_*.go`, `cron/cron.go` | `reloadChan`, the services that run, contexts | `Lifecycle` |
| Monitor | `monitor/monitor.go`, `session.go`: `updateMonitor` | active sessions, history, mute flag | `Monitor` |
| Log stream | `logstream/hub.go` | clients and their channels | `LogHub` |
| Log file | `logutil/writer.go` | the open file, its size, `.old` | `LogFile` |
| Nodelist | `nodelist/nodelist.go`; `scheduler.go`: `Start`, `findLink` | files, caches, `globalNodelist` | `Nodelist`, `NodelistStore`, `Lookup` |
| Addresses | `ftn/address.go` | none | `Address` |
| HTTP API | `api/server.go` | none of its own | its effects, in the modules of what it changes |
| Triggers | `session.go`: `checkTriggers`, `executeTriggers`; `binkp/command_*.go` | pending commands | `Inbound` |
| Configuration | `config/config.go` | none that changes | `Lifecycle` (loads that fail), `Lookup` (links) |
| Generated client, dashboard, tools | `openapi/`, `api/dashboard.html`, `analyze_logs.py` | none in the daemon | none |

The scheduler (or the command line) calls `Dial`, the listener accepts; each
makes a `Session`, which reads the outbound directory by itself, registers with
the monitor, and at its end calls `OnSessionEnd`, which asks the scheduler for
another scan.  The HTTP API and other programs (a tosser) change the same
directories meanwhile.  A reload stops all this and starts it anew, without
waiting for goroutines to end.  Nothing but the file system outlives a process.

What is hard here, and what correctness means:

* Two goroutines per session share a connection; TCP accepts bytes long before
  the peer's program has them, drops them at a close, and reports failures
  late.  Mail must not be destroyed, nor a partial file tossed, and a session
  must end.
* Both sides of a handshake decide by themselves when it is over.  A password
  must protect both ends, and no frame may fall between handshake and transfer.
* Flag files, flow files, temporary files and logs are shared by sessions,
  processes and other programs, by check-then-act.  No mail may be forgotten,
  no node locked for ever, none called too often.
* A reload overlaps with everything: with another reload, with calls, with
  services that have not ended.
* Channels have bounds, peers stall, and processes die between any two steps.

`PROJECT.json` lists the hazards at their lines, with the properties that
notice them.

## 2. The modules

`Proofs` modules are described in section 4.  Modules named `MC...` instantiate
the others for TLC: a variable `part` chooses, in the initial state, which
instance a behaviour is about; the variables of the others stand still.  Each
property of an MC module is one of a module it instantiates, in that part.

### StoreAndForward, BinkpSession

`StoreAndForward` is the promise of a transfer, without a protocol: `store[n]`,
the files n still has, and `arrived[n]`, those that reached the other side.

`BinkpSession` is the transfer phase between two momail nodes, several sessions
one after the other.  `chan[n]` is the stream n writes, one element per frame;
`closed`, `reset` and `lost` are the state of the TCP connection; `disk`, `flow`
and `inbox` are the spool, the flow file and the inbound directory, which
outlive a session.  `sender[n]` and `reader[n]` are the program points of the
two goroutines:

| action | code |
|---|---|
| `StatFile`, `SendHeader`, `OpenFile`, `SendData`, `FileSent` | `sendFile`: stat and entry in `sentFileMap`, M_FILE, open, one block, end of file |
| `RemoveFlow` | the end of `processFlowFile` |
| `SendEob`, `FlagEob`, `SendRefusal`, `SendError`, `CloseOnError` | `sendFiles` and `fileSender` |
| `ReceiveCommand`, `ReceiveData`, `ReceiveGot`, `ReceiveSkip`, `ReadEnd` | `fileReader`, `handleCommand`, `handleData`, `handleGot` |
| `FinishFile`, `Confirm` | `finishCurrentFile`: the rename, then the M_GOT |
| `HandleFile`, `SendSkip`, `HandleEob` | `handleFile`, `handleEOB` |
| `EndSession` | `Run` after `wg.Wait` |
| `Crash`, `Cut`, `Redial` | the process dies; the network fails; `NewSession` on both sides once more |

A handler is split wherever another goroutine, or a crash, can see the
difference: before and after each write, each change of a directory and each
use of a shared flag.

TCP.  A write returns when the bytes are in a buffer; `Window` frames fit into
one direction.  Bytes for a side that has closed are dropped, and answered with
an RST; a close with unread bytes does the same.  When a `Read` meets the RST,
some systems first hand out the bytes that arrived before it and some do not;
the model allows both.  A failed network drops a suffix of every stream.

Data.  A file's content is as many blocks as `Size` says, each named after its
file; a file that changes while it is sent is not modelled.  A packet's random
8.3 name is the packet and the number of the session.  A node has one flow file
for its peer, standing for the four flavours that are processed one after the
other in the same way.  Empty lines, comments, progress output and statistics
are left out.

Faults.  `"cut"`: the network fails.  `"timeout"`: a read deadline passes though
the peer is alive.  `"disk"`: a create, write, read, rename or remove fails.
`"crash"`: a process dies; this includes the Go runtime's abort when the two
goroutines use `sentFileMap` at once, which the code does not prevent.

### Handshake

`performHandshake` of a caller and an answering node, from `Greet`
(`sendHandshake`) through one action per frame type, to the first frames of the
transfer, which is kept to one file and M_EOB.  `link[n]` is n's configuration
of the other side: a password, none, or no link; every pair is an initial
state, with and without mail on each side, and with an answering side that
offers CRAM-MD5 or does not (other mailers).  A digest is as good as the
password it is made from.  M_BSY, which momail never sends, is left out.

### FileRequest

One session with a peer that sends M_GET.  `HandleGet` and `AppendRequest` are
the two halves of `handleGet` around its append, so that the sender may look in
between; `StartRange` is the moment in which `sendFiles` evaluates the length
of `requestedFiles`, `SendRequested` one turn of the loop, `SendMail` one file
of the outbound queue.  The peer (`Ask`, `PeerReads`) asks whenever it likes,
once for each file, and for the rest of files of which it has a part.  A frame
M_FILE stands for the file with its data.

### Inbound

The receiving half of several sessions of one momail.  All of them write to one
temporary directory and rename into two inbound directories.  `disk` has names
and inodes, so a session goes on writing to a file that another has renamed.
`rx[s]` is the `Session` (open file, offset, pending commands, phase), `tx[s]`
the peer, which sends each file until it is confirmed.  `HandleFile`,
`HandleData`, `HandleEOB` are the handlers, `Finish` and `FinishOpen` are
`finishCurrentFile` with its trigger, `Ending` and `RunPending` the way out of
`Run`.  `Cut` breaks a connection, `Crash` momail.

### FlowExt, Bso, FlowFiles

`FlowExt` has the extensions: flavour, priority, state.  `Bso` has names: where
momail puts the files of an address (`BsoFile`, `PollExt`), what a session
sends to it (`SentTo`) and what the scan reads from a name (`IsScanned`,
`Scanned`, `Queue`, `QueuedFlavor`), each written from its own code.  Its state
is the set of names in the directory and the polls asked for.  `FlowFiles` has
the contents of one address's flow files: `OpenFlow`, `Fill`, `ScanEnds`,
`SendLine`, `RemoveFlow` are `processFlowFile` with the buffer of its scanner,
which takes some of what the file has by then.  `ScanFails` is a `Scan()` that
is false before the end, for a read error or a line over 64 KB: nobody looks at
`Err()`, and the loop ends as it does at the end of the file.  `SendFails` is
the end of a session in the middle, `Toss` the tosser, and `QueuePoll`,
`SetFlavor` and DELETE are the API.  A DELETE is several steps: `DeleteFind`
looks for the flow files, `DeleteFiles` reads one and removes what it lists
(with `delete_files`), `DeleteFlow` removes one by its name; sessions and the
tosser may come in between.  A file is an inode here too.

### Scheduler

Processes that share an outbound directory.  `WakeUp` is the timer or the
trigger with the scan, `Visit` (`SkipNode`, `CheckNode`) one turn of the loop
over the queue up to writing the `.bsy` file, `Dial` and `Connect` the call,
`CallFails` and `CallSucceeds` its end with the failure count and the `.hld`
file, `ForgetUnseen` the end of `ScanAndPoll`.  Time is abstracted to what is
compared: an attempt is recent or not (`AttemptAges`), a flag file fresh or old
(`FlagAges`).  The environment is `Edit` (mail comes and goes), `SetSuspended`
and `SetMuted` (API), `Incoming` sessions, `PollNow` (`momail -p`, which looks
at no flag file) and `Crash`.  `orphan`, `unheld` and `rested` are history.

### Lifecycle

`runDaemon`: `SetUp`, `StartServices`, `TakeReload`, `CronStopped`, `Load`,
`TakeDone`, `WgDone` of the main goroutine, with the watcher, the signal handlers
(`Hup`, `HandleHup`, `Shutdown`) and the API (`ApiReload`), which all write to
`reloadChan`, a channel of one.  Each start is a generation with a scheduler
(`WakeUp`, `Call`, `CallOver`, `ScanOver`, `Quits`) and servers (`Listen`,
`CloseServer`), which end some time after they are told to.

The file has been read when a behaviour begins.  There is a watcher only with -w
(`WatchConfig`), and it begins in `SetUp`: it adds the directory (`WatchAdd`) or
gives up (`WatchFails`), and then reads events (`Watch`).  An edit makes an
event only when the directory has been added, and not even then if the system
loses events (`WatchFaults`).  `asked` is history: whether the daemon was told
of the file as it is, by an event, a SIGHUP or the API.

`MCLifecycle` has two parts.  "config" is for `LatestConfigUsed`: main, the
sources of requests, cron and the API's servers; the schedulers, BinkP servers
and the shutdown stand still, for nothing in a request or a reload waits for
them but `ctxDone`, and the property says nothing of a daemon that shuts down.
"shutdown" is the whole daemon without the API, with one event.

### Monitor, LogHub, LogFile

`Monitor` is the registry: the two goroutines of each session write to it
(`updateMonitor` is part of each action), `Unregister` removes, and the
scheduler's `Check` looks, before it dials.  `LogHub` is the hub's loop
(`Register`, `Unregister`, `Broadcast`, `Cut`), the goroutines of each client
(`ServeWs`, `Start`, `Take`, `Written`, `WriterEnds`, `ReadFails`,
`ReaderEnds`) and peers that leave or stall.  `Logged` puts a line into the
hub's channel, which is dropped when there is no room, and is part of every
action that logs.  `LogFile` is a writer's `Write` (`Write`, `Rename`,
`Reopen`, `Put`), the writers that share a file, failing renames and openings,
and kills.

### Nodelist, NodelistStore, Lookup, Address

`Nodelist` reads a list line by line (`ReadZone`, `ReadRegion`, `ReadHost`,
`ReadNode`, `SkipLine`, `EndOfFile`); its reference is the address an entry has
by the structure of the whole list.  `NodelistStore` is which file is loaded,
from its text or its cache (`Find`, `Open`, `Parse`, `Create`, `Encode`,
`Merge`), against lists that are issued, corrected and removed, a clock that
may stand still, and kills.  `Lookup` is `findLink` and what `Dial` makes of
it, for every combination of sources.  `Address` is `ParseFidoAddress` and
`String`, against a reference by spellings.

## 3. What the runs check

| run | instance | properties |
|---|---|---|
| `session_safety` | `BinkpSession`, two sessions, a packet one way and a two-block file the other. "sending": cuts; "crashing": processes die; "refusing": beta has `refuse_insecure_sending` and cuts, crashes, timeouts and disk errors happen | `TypeOK`; `DeletedOnlyIfDelivered`: no mail is destroyed; `InboundComplete`: nothing partial is tossed; `EobAfterFiles`: a side that has handled M_EOB has all files announced before it; `RefusingKeepsMail`; `ImplementsStoreAndForward`: the sessions refine `StoreAndForward` |
| `session_live` | `Handshake` for every pair of links, two passwords, with deadlines that pass only when both sides wait, and (for safety) at any time; `BinkpSession` for a batch of a packet, a large, an empty and a missing file over `Window = 1` | `PasswordProtects`, `NoTransferFrameDropped`; `MatchingSidesExchange`, `HandshakesEnd`, `TransfersEnd` |
| `scheduler` | "live": one mailer and node, mail of three flavours; "nodes": two nodes; "two": two mailers and `momail -p`; crashes, incoming calls, suspensions, mutes and edits, two setbacks (one in "two") | `SuspendAfterMax`: failures lead to a hold file in time; `NoBusyLeft`: no `.bsy` file outlives a call; `RetryDelay`; `DueMailCalled`: mail that is due gets its node called |
| `outbound` | `FlowFiles`, two mails, two flavours, two setbacks: calls with scanners that fail and both kinds of DELETE, and calls with incoming sessions, failing scanners, polls, new flavours and DELETE; `Bso`, eight addresses at the edges of their digits, ten foreign names, two files in the directory | `CallsForgetOnlyUnread`: wherever calls fail, all they make forgotten are lines that a failed scanner did not reach; `QueueDrains`; `PollsQueued`: what momail writes its scan reads back, with its flavour; `OneAddressee` |
| `inbound` | `Inbound`, two peers, empty and two-block files, two cuts, one trigger that waits for the end of its session; the same with a crash or a cut, for liveness; `FileRequest` with two public files, one that vanishes, one that does not exist, and rests of files | `InboundWhole`, `ConfirmedKept`: what a peer may delete reaches its trigger; `InboundNotWritten`; `RecoveredFilesTaken`; `EarlyAnswered` |
| `daemon` | `Lifecycle`, three contents of the file, one that cannot be loaded, two events, with a watcher that may fail or lose events, and without -w and with the API as a server and a source of requests; `Monitor`, an incoming session and calls to one node, four sessions; `LogFile`, one writer with failing renames and kills, three with failing openings | `CurrentServices`; `NoChangeMissed`: a change the daemon was told of is on its way to main; `NoGhost`, `CallsInactive`; `LogIntact` |
| `daemon_live` | `Lifecycle`, "config": three contents, one that cannot be loaded, three events, a watcher that may lose some, and the API; "shutdown": the whole daemon without the API, one event | `LatestConfigUsed`: the last state of the file that the daemon was told of comes into force; `ShutdownEnds` |
| `logstream` | `LogHub`, two clients, channels of one line, three lines | `NoPanic`, `Contiguous`: no gap between two lines a client gets, of those that got into the hub's channel; `HubServes`, `CutEnds` |
| `nodes` | `NodelistStore`, two lists, three texts, two ticks, three starts; `Nodelist`, every list of four lines without hubs and independent nodes; `Lookup`, every combination; `Address`, every input of seven tokens | `EntriesFound`; `FirstThatKnows`: the host is that of the first source that has one; `ParsesSpellings`, `CacheCurrent`, `RoundTrip` |

Three runs are expected to find a violation, of what a comment says:

| run | what it finds |
|---|---|
| `session_flow` | the flow file is removed when its lines are written to the connection, not when they are confirmed; a cut loses the lines that were not delivered |
| `inbound_resume` | a resume that does not fit starts an empty file and the peer goes on from its offset; the file is confirmed and tossed without its beginning |
| `lifecycle_port` | a reload does not wait for the old listener: the new one does not get the port, and momail answers no calls from then on |

**Bounds.**  Two nodes are all a session has, and two sessions the smallest
number in which something left by one meets another; likewise two peers in one
temporary directory, two mailers in one outbound directory, two clients of the
hub, and two reloads, the second in the middle of the first; three events are
an edit while another is loaded, and a third after the broken file between them.
A two-block file
is the smallest that can be cut in the middle.  `Window = 2` lets a stream hold
a frame while another is written, `Window = 1` makes every second write wait.
Two passwords are the smallest number of which one is wrong.  Channels of one
line are full as soon as possible; the channel of `Lifecycle` has the code's
size.  `MaxDialAttempts = 2` is the smallest that tells a first failure from the
last.  Four lines of a nodelist are a zone, a net and two nodes, or two nets
with a node each; seven tokens are the longest spelling of an address.  The
counters that bound a run (`MaxSessions`, `MaxSetbacks`, `MaxCuts`, `MaxEvents`,
`MaxLines`, `MaxFiles`, `MaxTime`, `MaxTexts`, `MaxStarts`) are constants of the
modules, marked "bound", and appear in guards only.

**Fairness.**  Goroutines run: weak fairness of each sender, reader, scan, hub
action and step of the main goroutine.  TCP on a working network delivers, and
reads have deadlines (`SetReadDeadline` is set before every read), so calls and
sessions end.  `select` passes nobody over for ever, hence strong fairness where
two of its channels are ready.  A process that died is started again by its
supervisor (`WakeUp`), time passes (`AttemptAges`, `FlagAges`), peers that have
mail try again.  Faults, edits, signals and new mail are never forced.  Each run
has fairness for the parts its liveness properties are about, and no other.

**Where a check stops.**  `TransfersEnd` is about a batch in one direction.
`finishCurrentFile` writes M_GOT from the goroutine that reads, without a
deadline, so with both directions full two nodes can block each other for as
long as TCP keeps the connection; the property does not hold of the code there.
`EobAfterFiles` leaves out disks that fail: a file that cannot be renamed is lost
to the inbound directory, and M_EOB handled after it.  `DueMailCalled` leaves
out nodes whose flavour is Hold, and sessions that come in one after the other,
overlapping, for ever.  `NoChangeMissed` and `LatestConfigUsed` are about changes
that the daemon was told of, which is not every change, even with -w
(`EveryChangeWatched`, section 5).  `FirstThatKnows` leaves out entries of the
nodelist without a host (`HostKnown`).  `Contiguous` is about lines that got
into the hub's channel; when that is full, `Hub.Write` drops a line, for all
clients.  `CacheCurrent` assumes that a file's time is when it was put there:
with a nodelist unpacked with its old time the cache may be of the one before.
What other properties leave out is in section 5.

`CHECK_DEADLOCK FALSE` is set where a behaviour ends: all sessions are over, the
daemon has exited, an input is parsed.  `scheduler` and the
runs of sessions are checked for deadlock; sessions and handshakes that are over
step in place (`Terminated`).

## 4. What is proved

TLAPS checks, for all values of the constants that meet the named assumptions
of the modules.  A theorem about a run's parts (`MCSpec`) is for all constants
that the MC module declares; what it gives as a literal in an `INSTANCE`, such as
the faults of a part, is as in the run.

* `BinkpSessionProofs`, for any files, queues, buffers, sessions and faults:
  `MailSafe` (a file that is gone from its node is in the peer's inbound
  directory), `NothingPartial` (what is in an inbound directory is whole),
  `SessionsRefine` (the sessions implement `StoreAndForward`, step by step) and
  `NoMailLost`, which follows with `NoLoss`, the invariant of `StoreAndForward`,
  inductive as it stands.  None of the others is inductive: whether a file may be
  deleted depends on a frame sent long before.  The invariant `IInv` says of the
  frames on their way that they lead from the reader's place to the sender's
  (`Stream`: after an M_FILE come the blocks of that file, in order, without a
  gap, and a reader has written the blocks up to the one it waits for), and of
  each M_GOT that the file it names is in the inbound directory, and that the
  reader is not writing to that file at the moment (`Gots`).  A sender that
  still has to send a file waits for no M_GOT of it (`Sending`), and
  `sentFileMap` has what is in the queue (`Entries`).  Two hypotheses are named.
  `DistinctQueues`: no two files of a queue have the same base name, without
  which the code does lose mail (section 5).  `EmptyFilesDistinct`, of the
  refinement alone: no two empty files have the same name at both nodes, since
  an empty file is nothing but its name.
* `BinkpSessionProofs!EobComesLast`: when M_EOB is read, every file of the peer that
  was announced has been received.  Adds `EobLast`, all announced names are ahead
  of each M_EOB on its way, to the invariant; for disks that do not fail, as the
  run has it.
* `BinkpSessionProofs!TypeCorrect`: `TypeOK` for any files, queues, buffers,
  number of sessions and faults.  The types alone are not inductive:
  `SendHeader` sends the entry at the sender's position, `Confirm` the name of a
  file in reception, `HandleFile` the fields of a frame.  `TypeOK` therefore
  carries `SenderPoint` and `ReaderPoint`, what each goroutine holds at each
  point of its program.  `RefusalKeeps`: a node that refuses a session keeps all
  its mail.  The reason is that nothing has begun (`Waits`): its sender is not
  past the wait that ends with the refusal, its `sentFileMap` is empty, it has
  no M_FILE on its way and the peer's reader has no file open.
* `SessionRunProofs` carries these to the parts of `session_safety`:
  `EobOvertakesNone`, `RefuserKeepsMail` and `AllPartsDeliver`.  It instantiates
  `BinkpSessionProofs` with the faults and the refusing node of a part, shows
  that the instance meets the assumptions (`BetaAssumption`: the node that
  refuses is a node) and that the part's steps are the instance's, action by
  action.
* `HandshakeProofs!PasswordsProtect` and `NoneDropped`, for any passwords.
  Neither property is inductive: what a loop does depends on the order of the
  frames it has yet to read.  `IInv` says so of the streams.  `AdrFirst`: M_ADR
  is ahead of a password and of the transfer, so the answering side knows its
  link when it reads M_PWD.  `OkMeansMatch`: an M_OK on its way stands for equal
  passwords.  `OkFirst`: it is ahead of the transfer.  `ServerFirst`: the
  answering side's loop is over before the caller sends.
* `InboundProofs`, for any number of peers, files and connections, any triggers
  and cuts: `WholeFiles`, `FilesNotWritten` and `ConfirmedFilesKept`.  What a
  session renames is what is under a name by then, and it finishes a file of any
  length, so that it is a whole one depends on what the peer wrote before.
  `IInv` says where the two ends of each connection are in its stream
  (`Stream`: the temporary file has the blocks up to the one that comes next),
  that no M_GOT names a file the peer still has to write out (`Gots`), so that
  it never deletes one in the middle (`Begun`), and that an inode has one name
  (`Directories`).  The sessions have nothing in common but the directories, and
  a handler writes under names of its own peer only (`Spares`).  For
  `ConfirmedKept` it is joined by `Told`: a file that is confirmed, or whose
  M_GOT is on its way, is with a tosser or waits for its trigger.  `Orderly` is
  the hypothesis: a peer has one connection at a time, no two files that come
  have one base name, no transfer is resumed.  Without any of the three the code
  does leave pieces or mixed files (section 5 and `inbound_resume`), and so it
  does not keep what it confirmed if it crashes before a trigger that was put
  off; `ConfirmedFilesKept` therefore takes crashes or such triggers, not both,
  which are the two instances that `inbound` checks.  `TypeCorrect` needs no
  hypothesis.  That there is always an inode for a new file (`FreeInode`) is
  a count: each one in use has a name in a directory or is open in a session.
* `InboundProofs!QueuedAnswered`, for any public files, requests and mail, of
  `FileRequest`.  `RequestInv` relates the queue, which the reader appends to, to
  the sender's counters: what was queued early is within the part that the sender
  has seen (`Seen`), it has sent what is before its place, and it leaves the loop
  behind the last one it has seen.
* `OutboundProofs`, for any addresses of four 16-bit numbers and any names that
  other programs use.  `OneReceiver`: the name of a flow file or packet, with
  point and zone, gives the address back, digit by digit; no induction is needed,
  for numbers have four digits at most (`HexFour`).  `PollsFound`: what
  `QueuePoll` and `SetFlavor` make is in the directory as long as no session has
  sent it (`PollsThere`), and the scan reads its address back and takes an extension at least as urgent.
  `ZonesFit` is its hypothesis: zones are below 4096.  A larger one has four
  digits in `%03x`, and the scan does not find its directory (section 5).
* `OutboundProofs!CallsKeepMail`, an action property, for any mail, flavours and
  setbacks, of `FlowFiles` where momail calls, scanners fail, and the API deletes.
  A call's `RemoveFlow` takes a name, so that it forgets nothing depends on which
  file that is and what was read of it.  `OwnFile`: while the name the call is at
  stands for a file, it is the one the call has open, for its `.bsy` file keeps
  the tosser from making another.  `Progress`: of its lines those
  that are read are sent, withdrawn or in the scanner's buffer, which is empty
  when the loop ends; at the end of the file all are read, and where the scanner
  failed the others are `Unread`.
* `SchedulerProofs`, for any number of processes and nodes, any extensions and
  maximum: `SuspendedInTime`, from `Counted`: the failed calls since the last
  hold file are at most those in `failureCounts`, which the types keep below the
  maximum, and none while there is a hold file.
  `BusyRemoved`: `NoBusyLeft` is inductive with the types.  `RetriesDelayed`, an
  action property, from `Remembered`: a node whose last call is not long ago has
  a recent attempt in `lastAttemptTime`; a node that a scan has found is seen or
  still to be visited, so the clean-up at the end of the scan does not forget it.
* `DaemonProofs!NothingMissed` and `ServicesCurrent`, for any versions and
  any number of events, with and without -w, whatever becomes of the watcher.
  `NoChangeMissed` is inductive: `asked` is forgotten by an edit of which there is
  no event, and an event, once read, is in `reloadChan`.  `CurrentServices` needs
  `EnoughGens` (there is a generation for each request on its way), `Stopped`
  (all generations before the one being started were told to end) and
  `UsesConfig`.
* `LogHubProofs!NeverPanics`, for any number of clients and any buffer: clients
  the hub knows are not closed, those it is cutting are among them, and one that
  has not yet registered is neither.  `Unregister` and `Cut` may both come to a
  client; each looks whether the hub still has it.  `NoGaps`, for any number of
  lines: `Streams` says that the hub's channel ends at the line logged last, and
  what a client has got at the line of it that the hub has sent last, so the next one
  follows; a client that had no room for it is in `cutting`.
* `DaemonProofs!NoGhosts`, for any sessions and ids: the sender writes to the
  registry only while its reader is in the transfer or waits for it, because
  `Run` joins it before it unregisters (`RegistryInv`).
* `DaemonProofs!NoSecondCall`, an action property, for any sessions and addresses
  that meet `OneEach`: connections have remote ends of their own, and a node is
  called by the address it presents first.  Without the first a session may take
  over the entry of another, without the second `updateMonitor` registers an
  address that nobody looks for (section 5).  `Entered`: a session past its
  handshake is in the registry, under the address that it presented.
* `DaemonProofs!LogKept`, for any sizes, writers and numbers of lines.  One
  writer (`AloneInv`): it has the current file open, or none; it renames a file
  only when that is too large, and the two files are not one, so what the rename
  replaces is the oldest file and what remains is more than a file's worth.
  Several (`SharedInv`): a file has its lines and those that are `Pending`, of
  writers that have looked at its size or are about to open it, one each; the
  sum stays within the limit and the number of writers, though each looks at
  another file's size than the one that has the name.

The other properties are model-checked only.  Liveness is out of the provers'
reach (they do not reason about fairness and ENABLED).  `EntriesFound`,
`ParsesSpellings` and `RoundTrip` are about every input of a bounded size, and a
proof would need induction over sequences, which they cannot do either.
`FirstThatKnows` is a choice between a few cases, of which the run takes all.
`CacheCurrent` depends on the order of the times of files, and on which texts may
replace which; it is checked on the instance only.
## 5. Where code and documentation part

These properties are stated in the modules and quote what a comment, the sample
configuration or the API's description says.  The code does not do it; TLC finds
a counterexample when a run's configuration is changed as given here.  The three
runs above are of this kind as well.

| property | violated with | what the code does |
|---|---|---|
| `BinkpSession!DeletedOnlyIfDelivered` | two lines of `Flow` with one base name | `sentFileMap` is keyed by base name; the M_GOT of the first file deletes the second, unsent (session.go:1051, against :103) |
| `BinkpSession!ShutdownStopsSender` | `Faults = {"timeout"}` | nothing reads the channel `shutdown`: the sender goes on after the reader has ended (session.go:352, against :351) |
| `BinkpSession!SuccessMeansSent` | `Faults = {"crash"}` | the peer dies, the sender fails, and the session reports success (session.go:389, against :50) |
| `BinkpSession!RefusalStillReceives` | `Refuse = {beta}`, no faults | refusing to send closes the connection on what the peer is sending (session.go:868, against config.yaml.dist:109) |
| `Handshake!LenientServerAccepts` | every link | the answering side does not wait for M_PWD when it asks for none; the transfer reads and ignores it, and the caller gives up (session.go:220, against :246) |
| `FileRequest!RequestsAnswered` | the part "requests" | a request that arrives while the sender is at work is queued and never answered (session.go:871, against :611) |
| `FileRequest!ResumesAnswered` | the part "requests" | the same of a request for the rest of an outbound file (session.go:584, against :103) |
| `Inbound!InboundNotWritten`, `ConfirmedKept` | two peers that send a file of one name | they write to one temporary file, and rename over each other (session.go:697, :796, against :664, :806) |
| `Inbound!InboundWhole` | two connections of one peer | the second session truncates the file the first receives, which is then confirmed (session.go:697, against :799) |
| `Inbound!ConfirmedKept` | `Env = {"crash"}` with a name in `Later` | triggers that wait for the end of the session are lost with the process (session.go:825, against config.yaml.dist:160) |
| `FlowFiles!NoneForgotten` | `Faults = {"scan"}`, no edits | the loop over the lines ends with any `Scan()` that is false; after an error the flow file is removed with the lines not read (session.go:1008, :1035, against :1033) |
| `FlowFiles!NoneForgotten` | `Edits = {"delete_files"}`, no faults | the API reads the lines and then removes the file by its name, without a look at `.bsy`; a line tossed in between is gone, and its file stays (server.go:134, :156, against dashboard.html:222) |
| `FlowFiles!NoneForgotten` | `Edits = {"queue_poll"}` or `{"flavor"}` | `queue_poll` truncates a flow file that is there; a new flavour renames one flow file over another (server.go:344, :204, against openapi.yaml) |
| `FlowFiles!RemovedOnlyIfProcessed` | an incoming session (`Calling = {}`), no faults and no edits | the flow file is removed by name; an incoming session has no `.bsy` file to keep the tosser away (session.go:1035, against :1033) |
| `Bso!PollsQueued` | an address with a zone from 4096 on | the name of its directory has four digits, and the scan does not look into it (scheduler.go:353) |
| `Bso!OutboundAgrees` | the foreign names of `outbound` | the scan queues `.fut`, upper-case names and `outbound.ZZZ` of the own zone; no session sends them, and the node is called for ever (scheduler.go:348, against config.yaml.dist:119) |
| `Scheduler!OneCaller` | two mailers | `.bsy` is written after a check, without O_EXCL (scheduler.go:249, against config.yaml.dist:102) |
| `Scheduler!PollPickedUp` | `Ext = {".hlo", ".flo"}` | the flavour of a node is that of its most urgent file, and Hold is more urgent than Normal (scheduler.go:319, against README.md:91) |
| `Scheduler!OnlyDialsSuspend` | any call that connects and fails | failed sessions count like failed dials, and so do calls that momail itself refuses when muted (scheduler.go:260, against config.yaml.dist:96) |
| `Lifecycle!EveryChangeWatched` | `WatchConfig = TRUE`, one event | the file is read at main.go:100, and the watcher adds its directory at main.go:313: an edit in between makes no event, and nobody looks at the file again; likewise when `watcher.Add` fails or events are lost, which is only logged (main.go:314, :342, against README.md:154) |
| `Lifecycle!OneScheduler` | one reload | the scheduler of before the reload goes on with its scan (main.go:259, against :257) |
| `Lifecycle!GracefulExit` | a shutdown | nobody waits for the scheduler and the sessions; a `.bsy` file may stay (main.go:290, against :291) |
| `Lifecycle!VersionShown` | one reload | `cfg.Version` is set for the first configuration only (main.go:276, against session.go:443) |
| `Monitor!AllShown` | two calls to one host and port | they share an entry (session.go:133, against openapi.yaml:14) |
| `Monitor!CallsInactive` | a peer that presents several addresses | only the first is registered, and the node is called while it is in a session (session.go:1172, against scheduler.go:192) |
| `LogFile!RotatedWhenFull` | two writers, `MaxSize = 1` | the second rotation overwrites the full log with a nearly empty one (writer.go:44, against config.yaml.dist:65) |
| `LogFile!KeepsWriting` | `Faults = {"open"}` | a writer whose reopening fails once never writes again (writer.go:56, against :46) |
| `LogHub!CutEnds` | `Stalled = Client` | a write has no deadline; the goroutines of a stalled client stay (hub.go:119, against :73) |
| `Nodelist!EntriesFound` | `"hub"` in `Keyword`; `Independents = TRUE` | a hub's number becomes the net of what follows, and a region's nodes go to the net before it (nodelist.go:130, :125, against openapi.yaml:122) |
| `NodelistStore!LatestFound` | `Day` that goes over New Year | the extension is the day of the year, and the highest counts (nodelist.go:212, against scheduler.go:72) |
| `NodelistStore!CacheCurrent` | `ReplaceAny = TRUE` | a file replaced while it is parsed is older than its cache, which has the text before (nodelist.go:68, against :44) |
| `NodelistStore!NoMapRace` | `Overlap = TRUE` | the map is filled after it was published, while goroutines of before the reload look into it (scheduler.go:58, against README.md:146) |
| `Lookup!HostKnown` | the part "lookup" | a nodelist entry with IBN and no INA counts as found; the local system is called (scheduler.go:492, against config.yaml.dist:52) |
| `Lookup!FlagPort` | the part "lookup" | the port of an IBN flag is not used (nodelist.go:165, against :161) |
| `Lookup!ResolvedDialed` | the part "lookup" | an IPv6 address is joined to the port without brackets (scheduler.go:533, against README.md:26) |

Seen while modelling, and in no module: `working_time` and `nodelist_file` are
read and not used; `README.md:159` gives a form of the reload command that the
API does not take; a negative `rescan_period` in a reloaded file ends momail in
`time.NewTicker`; main.go:106 gives the node's address to the monitor at the
first start only.

## 6. What is not modelled

* The generated API client, the dashboard, the log analyser: not part of the
  daemon.
* The HTTP layer of `api/server.go`: routing, the API key, the JSON, `run_task`.
  What its handlers change is in the modules of what they change.
* The defaults of `config.go` and the text of the log: no state depends on them.
* Time as a number.  The modules have what the code compares: recent or not,
  fresh or old, a deadline that passes.
* The library of cron: when a task is due.  Errors of the scheduler's own files
  (`CreateHoldFile` ignores its error: on a read-only directory a node is never
  suspended).
* The outputs of `io.MultiWriter` other than the log file.
* CRAM-MD5 itself, file contents, and the check that a requested name stays
  under the public directory, which is whether there is such a file.
* Two directions of large files at once, for liveness (section 3).
* `BinkpSession` reads its flow file to the end: what a failing scanner does is
  in `FlowFiles`.  There, one DELETE is under way at a time, and each flow file
  is read, and what it lists removed, in one step.
* A SIGHUP before `setupSignalHandler` has run, which ends the process.

## Running

    tlc -config session_safety.cfg MCBinkpSession.tla
    tlc -config session_live.cfg MCHandshake.tla
    tlc -config scheduler.cfg MCScheduler.tla
    tlapm SchedulerProofs.tla

`PROJECT.json` names the module and the configuration of every run.
