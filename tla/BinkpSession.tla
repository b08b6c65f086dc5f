---------------------------- MODULE BinkpSession ----------------------------
(***************************************************************************)
(* The file-transfer phase of binkp/session.go between two momail nodes.   *)
(* Each node runs Session.Run after the handshake: a goroutine fileSender  *)
(* (sendFiles) and the goroutine fileReader share one TCP connection, the  *)
(* map of sent files and the two end-of-batch flags.  A node's spool and   *)
(* inbound directories outlive the session; a later session between the    *)
(* same nodes starts from what the earlier ones left on disk.              *)
(*                                                                         *)
(* A frame is what readFrame returns.  File contents are sequences of      *)
(* 4096-byte blocks, a block being named after the file it was read from.  *)
(***************************************************************************)
EXTENDS Integers, Sequences, FiniteSets

CONSTANTS
  Node,         \* the two systems
  Peer,         \* Peer[n]: the system at the other end of n's connection
  File,         \* files on disk (paths)
  Name,         \* base names of files
  NameOf,       \* NameOf[f]: filepath.Base of the file's path
  Size,         \* Size[f]: blocks of 4096 bytes in the file; 0 if empty
  Spool,        \* Spool[n]: the files on n's disk at the start
  Netmail,      \* Netmail[n]: n's ?ut packets for the peer, in sending order
  Flow,         \* Flow[n]: lines of n's ?lo file for the peer, in order
  Refuse,       \* nodes with refuse_insecure_sending and no link to the peer
  Window,       \* frames TCP buffers in one direction before Write blocks
  MaxSessions,  \* bound: sessions between the two nodes
  Faults,       \* which failures may happen
  None          \* no file being received, no frame being handled

AllFaults == {"cut", "timeout", "disk", "crash"}

\* A line of a flow file: the path, and whether "^" asks to delete it.
FlowLine == [file : File, del : BOOLEAN]

ASSUME PeerAssumption ==
  /\ Peer \in [Node -> Node]
  /\ \A n \in Node : Peer[n] # n /\ Peer[Peer[n]] = n

ASSUME FileAssumption ==
  /\ NameOf \in [File -> Name]
  /\ Size \in [File -> Nat]

ASSUME QueueAssumption ==
  /\ Spool \in [Node -> SUBSET File]
  /\ Netmail \in [Node -> Seq(File)]
  /\ Flow \in [Node -> Seq(FlowLine)]
  /\ Refuse \subseteq Node

ASSUME BoundAssumption ==
  /\ Window \in Nat \ {0}
  /\ MaxSessions \in Nat \ {0}
  /\ Faults \subseteq AllFaults

-----------------------------------------------------------------------------
(* Names, frames and records.                                              *)

\* A packet travels under a random 8.3 name, drawn anew in every session.
PacketName == File \X (1 .. MaxSessions)
WireName == Name \cup PacketName

\* What sendFile is asked to send, and what it keeps in sentFileMap.
Entry == [file : File, name : WireName, del : BOOLEAN]

Frame ==
  [t : {"FILE"}, name : WireName, size : Nat]
    \cup [t : {"DATA"}, block : File]
    \cup [t : {"GOT", "SKIP"}, name : WireName]
    \cup [t : {"EOB"}]

\* The file being received: currentFile, recvName, recvSize and its content.
Incoming == [name : WireName, size : Nat, content : Seq(File)]

\* A file in the inbound directory.
Received == [name : WireName, content : Seq(File)]

Content(f) == [i \in 1 .. Size[f] |-> f]

\* None is neither a file nor a frame.
ASSUME NoneAssumption == None \notin Incoming /\ None \notin Frame

ReaderState ==
  [pc : {"read", "handle", "confirm", "skip", "ok", "err"},
   cur : Incoming \cup {None},
   held : Frame \cup {None}]

SenderState ==
  [pc : {"refuse", "stat", "header", "open", "data", "eob", "flag", "fail", "done"},
   pos : Nat \ {0},
   sent : Nat]

\* In a directory, and in the map of sent files, a second item of the same
\* name replaces the first.
Put(items, e) == {x \in items : x.name # e.name} \cup {e}

-----------------------------------------------------------------------------
VARIABLES
  disk,         \* disk[n]: files on n's disk
  flow,         \* flow[n]: n's flow file for the peer exists
  inbox,        \* inbox[n]: files in n's inbound directory
  chan,         \* chan[n]: frames n wrote that the peer has not read yet
  closed,       \* closed[n]: n called Close on its connection
  reset,        \* reset[n]: n's connection got an RST or timed out in TCP
  lost,         \* the network carries nothing any more
  sentFileMap,  \* sentFileMap[n]: entries by name, at most one per name
  weSentEOB,    \* weSentEOB[n]
  theySentEOB,  \* theySentEOB[n]
  reader,       \* reader[n]: the goroutine fileReader
  sender,       \* sender[n]: the goroutine fileSender
  state,        \* state[n]: what Run reported, "open" while it runs
  sessions      \* sessions started so far

spoolVars == <<disk, flow>>
tcpVars == <<chan, closed, reset, lost>>
eobVars == <<weSentEOB, theySentEOB>>
vars == <<disk, flow, inbox, chan, closed, reset, lost, sentFileMap,
          weSentEOB, theySentEOB, reader, sender, state, sessions>>

NewReader == [pc |-> "read", cur |-> None, held |-> None]

\* Mutant of NewSender: refuse_insecure_sending is not looked at.
NewSenderIgnoresRefusal(n) == [pc |-> "stat", pos |-> 1, sent |-> 0]

\* sendFiles first decides whether this session may send at all.
NewSender(n) == [pc |-> IF n \in Refuse THEN "refuse" ELSE "stat", pos |-> 1, sent |-> 0]

Init ==
  /\ disk = Spool
  /\ flow = [n \in Node |-> Flow[n] # <<>>]
  /\ inbox = [n \in Node |-> {}]
  /\ chan = [n \in Node |-> <<>>]
  /\ closed = [n \in Node |-> FALSE]
  /\ reset = [n \in Node |-> FALSE]
  /\ lost = FALSE
  /\ sentFileMap = [n \in Node |-> {}]
  /\ weSentEOB = [n \in Node |-> FALSE]
  /\ theySentEOB = [n \in Node |-> FALSE]
  /\ reader = [n \in Node |-> NewReader]
  /\ sender = [n \in Node |-> NewSender(n)]
  /\ state = [n \in Node |-> "open"]
  /\ sessions = 1

-----------------------------------------------------------------------------
(* The connection: net.Conn as session.go uses it.                         *)

\* Nothing n writes reaches its peer's program.
Dead(n) == lost \/ closed[Peer[n]]

\* Write returned nil.  TCP either queues the frame, or, with nobody left to
\* read it, drops it and learns of that later.
Write(n, m) ==
  /\ ~closed[n]
  /\ \/ /\ ~Dead(n)
        /\ Len(chan[n]) < Window
        /\ chan' = [chan EXCEPT ![n] = Append(@, m)]
        /\ UNCHANGED reset
     \/ /\ Dead(n)
        /\ reset' = [reset EXCEPT ![n] = TRUE]
        /\ UNCHANGED chan
  /\ UNCHANGED <<closed, lost>>

\* Write returned an error.
WriteError(n) == (closed[n] \/ reset[n]) /\ UNCHANGED tcpVars

\* Close; TCP answers what it holds unread, or gets later, with an RST.  The
\* peer's bytes may all be in the bufio.Reader, and then there is no RST.
Close(n) ==
  /\ closed' = [closed EXCEPT ![n] = TRUE]
  /\ \/ UNCHANGED reset
     \/ /\ ~closed[n] /\ chan[Peer[n]] # <<>>
        /\ reset' = [reset EXCEPT ![Peer[n]] = TRUE]
  /\ UNCHANGED <<chan, lost>>

\* The next frame for n, and readFrame taking it off the connection.
NextFrame(n) == Head(chan[Peer[n]])

Read(n, types) ==
  /\ chan[Peer[n]] # <<>>
  /\ NextFrame(n).t \in types
  /\ chan' = [chan EXCEPT ![Peer[n]] = Tail(@)]
  /\ UNCHANGED <<closed, reset, lost>>

-----------------------------------------------------------------------------
(* fileSender and sendFiles.                                               *)

\* What sendFiles walks through: the packets, then the flow file's lines.  A
\* flow file exists until it is processed, which is the walk's last step.
Work(n) ==
  [i \in 1 .. Len(Netmail[n]) |->
     [file |-> Netmail[n][i], name |-> <<Netmail[n][i], sessions>>, del |-> TRUE]]
  \o IF flow[n]
     THEN [i \in 1 .. Len(Flow[n]) |->
             [file |-> Flow[n][i].file, name |-> NameOf[Flow[n][i].file],
              del |-> Flow[n][i].del]]
     ELSE <<>>

Current(n) == Work(n)[sender[n].pos]

SenderAt(n, pc) == state[n] = "open" /\ sender[n].pc = pc

SenderGoto(n, pc) == sender' = [sender EXCEPT ![n].pc = pc]

NextFile(n) == sender' = [sender EXCEPT ![n] = [pc |-> "stat", pos |-> @.pos + 1, sent |-> 0]]

\* sendFile up to the M_FILE: os.Stat and the entry in sentFileMap.
StatFile(n) ==
  /\ SenderAt(n, "stat")
  /\ sender[n].pos <= Len(Work(n))
  /\ \/ /\ Current(n).file \in disk[n]
        /\ sentFileMap' = [sentFileMap EXCEPT ![n] = Put(@, Current(n))]
        /\ SenderGoto(n, "header")
     \/ /\ Current(n).file \notin disk[n]
        /\ NextFile(n)
        /\ UNCHANGED sentFileMap
  /\ UNCHANGED <<spoolVars, inbox, tcpVars, eobVars, reader, state, sessions>>

SendHeader(n) ==
  /\ SenderAt(n, "header")
  /\ Write(n, [t |-> "FILE", name |-> Current(n).name, size |-> Size[Current(n).file]])
  /\ SenderGoto(n, "open")
  /\ UNCHANGED <<spoolVars, inbox, sentFileMap, eobVars, reader, state, sessions>>

\* os.Open after the header is out; a file gone by now is skipped.
OpenFile(n) ==
  /\ SenderAt(n, "open")
  /\ IF Current(n).file \in disk[n] THEN SenderGoto(n, "data") ELSE NextFile(n)
  /\ UNCHANGED <<spoolVars, inbox, tcpVars, sentFileMap, eobVars, reader, state, sessions>>

SendData(n) ==
  /\ SenderAt(n, "data")
  /\ sender[n].sent < Size[Current(n).file]
  /\ Write(n, [t |-> "DATA", block |-> Current(n).file])
  /\ sender' = [sender EXCEPT ![n].sent = @ + 1]
  /\ UNCHANGED <<spoolVars, inbox, sentFileMap, eobVars, reader, state, sessions>>

\* Mutant of FileSent: any short read ends the file.
FileSentShort(n) ==
  /\ SenderAt(n, "data")
  /\ NextFile(n)
  /\ UNCHANGED <<spoolVars, inbox, tcpVars, sentFileMap, eobVars, reader, state, sessions>>

\* io.EOF of the file: sendFile returns nil.
FileSent(n) ==
  /\ SenderAt(n, "data")
  /\ sender[n].sent = Size[Current(n).file]
  /\ NextFile(n)
  /\ UNCHANGED <<spoolVars, inbox, tcpVars, sentFileMap, eobVars, reader, state, sessions>>

\* All lines processed: processFlowFile removes the flow file, and does not
\* look whether that worked.
RemoveFlow(n) ==
  /\ SenderAt(n, "stat")
  /\ sender[n].pos > Len(Work(n))
  /\ \/ flow' = [flow EXCEPT ![n] = FALSE]
     \/ "disk" \in Faults /\ UNCHANGED flow
  /\ SenderGoto(n, "eob")
  /\ UNCHANGED <<disk, inbox, tcpVars, sentFileMap, eobVars, reader, state, sessions>>

\* Mutant of SendEob: what is sent is deleted without waiting for M_GOT.
SendEobDeletes(n) ==
  /\ SenderAt(n, "eob")
  /\ Write(n, [t |-> "EOB"])
  /\ SenderGoto(n, "flag")
  /\ disk' = [disk EXCEPT ![n] = @ \ {e.file : e \in {e \in sentFileMap[n] : e.del}}]
  /\ UNCHANGED <<flow, inbox, sentFileMap, eobVars, reader, state, sessions>>

SendEob(n) ==
  /\ SenderAt(n, "eob")
  /\ Write(n, [t |-> "EOB"])
  /\ SenderGoto(n, "flag")
  /\ UNCHANGED <<spoolVars, inbox, sentFileMap, eobVars, reader, state, sessions>>

\* weSentEOB is set after M_EOB is out; if the peer's came first, the
\* connection is closed here.
FlagEob(n) ==
  /\ SenderAt(n, "flag")
  /\ weSentEOB' = [weSentEOB EXCEPT ![n] = TRUE]
  /\ IF theySentEOB[n] THEN Close(n) ELSE UNCHANGED tcpVars
  /\ SenderGoto(n, "done")
  /\ UNCHANGED <<spoolVars, inbox, sentFileMap, theySentEOB, reader, state, sessions>>

\* refuse_insecure_sending: M_EOB, and then an error from sendFiles.
SendRefusal(n) ==
  /\ SenderAt(n, "refuse")
  /\ Write(n, [t |-> "EOB"])
  /\ SenderGoto(n, "fail")
  /\ UNCHANGED <<spoolVars, inbox, sentFileMap, eobVars, reader, state, sessions>>

\* A write of sendFiles fails, or the disk does under sendFile.
SendError(n) ==
  /\ state[n] = "open"
  /\ \/ /\ \/ sender[n].pc \in {"refuse", "header", "eob"}
           \/ sender[n].pc = "data" /\ sender[n].sent < Size[Current(n).file]
        /\ WriteError(n)
     \/ /\ "disk" \in Faults
        /\ sender[n].pc \in {"stat", "open", "data"} /\ sender[n].pos <= Len(Work(n))
        /\ UNCHANGED tcpVars
  /\ SenderGoto(n, "fail")
  /\ UNCHANGED <<spoolVars, inbox, sentFileMap, eobVars, reader, state, sessions>>

\* fileSender closes the connection to force the reader out.
CloseOnError(n) ==
  /\ SenderAt(n, "fail")
  /\ Close(n)
  /\ SenderGoto(n, "done")
  /\ UNCHANGED <<spoolVars, inbox, sentFileMap, eobVars, reader, state, sessions>>

Sender(n) ==
  \/ StatFile(n) \/ SendHeader(n) \/ OpenFile(n) \/ SendData(n) \/ FileSent(n)
  \/ RemoveFlow(n) \/ SendEob(n) \/ FlagEob(n)
  \/ SendRefusal(n) \/ SendError(n) \/ CloseOnError(n)

-----------------------------------------------------------------------------
(* fileReader, handleCommand and the handlers.                             *)

ReaderAt(n, pc) == state[n] = "open" /\ reader[n].pc = pc

ReaderGoto(n, pc) == reader' = [reader EXCEPT ![n].pc = pc]

\* M_FILE and M_EOB first finish the file being received.
ReceiveCommand(n) ==
  /\ ReaderAt(n, "read")
  /\ Read(n, {"FILE", "EOB"})
  /\ reader' = [reader EXCEPT ![n].pc = "handle", ![n].held = NextFrame(n)]
  /\ UNCHANGED <<spoolVars, inbox, sentFileMap, eobVars, sender, state, sessions>>

\* The file being received with the next block written to it.
Extended(n) == [reader[n].cur EXCEPT !.content = Append(@, NextFrame(n).block)]

\* Mutant of ReceiveData: the file is finished one block early.
ReceiveDataFinishesEarly(n) ==
  /\ ReaderAt(n, "read")
  /\ Read(n, {"DATA"})
  /\ IF reader[n].cur = None
     THEN UNCHANGED reader
     ELSE LET cur == Extended(n)
          IN  reader' = [reader EXCEPT
                ![n].cur = cur,
                ![n].pc = IF cur.size > 0 /\ Len(cur.content) >= cur.size - 1
                          THEN "handle" ELSE "read"]
  /\ UNCHANGED <<spoolVars, inbox, sentFileMap, eobVars, sender, state, sessions>>

\* handleData: ignored without an open file; the last expected block of a
\* file of known size finishes it.  A block that cannot be written ends the
\* session.
ReceiveData(n) ==
  /\ ReaderAt(n, "read")
  /\ Read(n, {"DATA"})
  /\ \/ reader[n].cur = None /\ UNCHANGED reader
     \/ /\ reader[n].cur # None
        /\ LET cur == Extended(n)
           IN  reader' = [reader EXCEPT
                 ![n].cur = cur,
                 ![n].pc = IF cur.size > 0 /\ Len(cur.content) >= cur.size
                           THEN "handle" ELSE "read"]
     \/ reader[n].cur # None /\ "disk" \in Faults /\ ReaderGoto(n, "err")
  /\ UNCHANGED <<spoolVars, inbox, sentFileMap, eobVars, sender, state, sessions>>

\* handleGot: the original is removed if its entry says so and the disk lets
\* it.
ReceiveGot(n) ==
  /\ ReaderAt(n, "read")
  /\ Read(n, {"GOT"})
  /\ LET confirmed == {e \in sentFileMap[n] : e.name = NextFrame(n).name /\ e.del}
     IN  \/ disk' = [disk EXCEPT ![n] = @ \ {e.file : e \in confirmed}]
         \/ "disk" \in Faults /\ UNCHANGED disk
  /\ UNCHANGED <<flow, inbox, sentFileMap, eobVars, reader, sender, state, sessions>>

\* M_SKIP is an unexpected command: logged only.
ReceiveSkip(n) ==
  /\ ReaderAt(n, "read")
  /\ Read(n, {"SKIP"})
  /\ UNCHANGED <<spoolVars, inbox, sentFileMap, eobVars, reader, sender, state, sessions>>

\* The file being received, as it will lie in the inbound directory.
InboxItem(n) == [name |-> reader[n].cur.name, content |-> reader[n].cur.content]

\* The file is done with: back to the frame that finished it, if it was one.
AfterFile(n) == IF reader[n].held = None THEN "read" ELSE "handle"

\* Mutant of FinishFile: M_GOT is sent even when the rename failed.
FinishFileAlwaysConfirms(n) ==
  /\ ReaderAt(n, "handle")
  /\ reader[n].cur # None
  /\ \/ inbox' = [inbox EXCEPT ![n] = Put(@, InboxItem(n))]
     \/ "disk" \in Faults /\ UNCHANGED inbox
  /\ ReaderGoto(n, "confirm")
  /\ UNCHANGED <<spoolVars, tcpVars, sentFileMap, eobVars, sender, state, sessions>>

\* finishCurrentFile: the rename to the inbound directory replaces a file of
\* the same name.  When the rename fails the error is logged, and no M_GOT
\* follows; a directory that cannot be made is the session's error.
FinishFile(n) ==
  /\ ReaderAt(n, "handle")
  /\ reader[n].cur # None
  /\ \/ /\ inbox' = [inbox EXCEPT ![n] = Put(@, InboxItem(n))]
        /\ ReaderGoto(n, "confirm")
     \/ /\ "disk" \in Faults
        /\ \E pc \in {AfterFile(n), "err"} :
             reader' = [reader EXCEPT ![n].cur = None, ![n].pc = pc]
        /\ UNCHANGED inbox
  /\ UNCHANGED <<spoolVars, tcpVars, sentFileMap, eobVars, sender, state, sessions>>

\* Mutant of Confirm: always goes on to a command, the last block's file too.
ConfirmKeepsHandling(n) ==
  /\ ReaderAt(n, "confirm")
  /\ \/ /\ Write(n, [t |-> "GOT", name |-> reader[n].cur.name])
        /\ reader' = [reader EXCEPT ![n].cur = None, ![n].pc = "handle"]
     \/ /\ WriteError(n)
        /\ reader' = [reader EXCEPT ![n].cur = None, ![n].pc = "err"]
  /\ UNCHANGED <<spoolVars, inbox, sentFileMap, eobVars, sender, state, sessions>>

\* finishCurrentFile's M_GOT.
Confirm(n) ==
  /\ ReaderAt(n, "confirm")
  /\ \/ /\ Write(n, [t |-> "GOT", name |-> reader[n].cur.name])
        /\ reader' = [reader EXCEPT ![n].cur = None, ![n].pc = AfterFile(n)]
     \/ /\ WriteError(n)
        /\ reader' = [reader EXCEPT ![n].cur = None, ![n].pc = "err"]
  /\ UNCHANGED <<spoolVars, inbox, sentFileMap, eobVars, sender, state, sessions>>

\* handleFile: create the file in the temporary directory, or refuse it; the
\* directory may be missing and not be made.
HandleFile(n) ==
  /\ ReaderAt(n, "handle")
  /\ reader[n].cur = None
  /\ reader[n].held.t = "FILE"
  /\ \/ reader' = [reader EXCEPT ![n] =
          [pc |-> "read", held |-> None,
           cur |-> [name |-> @.held.name, size |-> @.held.size, content |-> <<>>]]]
     \/ "disk" \in Faults /\ \E pc \in {"skip", "err"} : ReaderGoto(n, pc)
  /\ UNCHANGED <<spoolVars, inbox, tcpVars, sentFileMap, eobVars, sender, state, sessions>>

\* The file could not be created: M_SKIP, and then an error all the same.
SendSkip(n) ==
  /\ ReaderAt(n, "skip")
  /\ Write(n, [t |-> "SKIP", name |-> reader[n].held.name]) \/ WriteError(n)
  /\ reader' = [reader EXCEPT ![n].held = None, ![n].pc = "err"]
  /\ UNCHANGED <<spoolVars, inbox, sentFileMap, eobVars, sender, state, sessions>>

\* Mutant of HandleEob: the frame is never done with.
HandleEobKeepsFrame(n) ==
  /\ ReaderAt(n, "handle")
  /\ reader[n].cur = None
  /\ reader[n].held.t = "EOB"
  /\ theySentEOB' = [theySentEOB EXCEPT ![n] = TRUE]
  /\ UNCHANGED <<spoolVars, inbox, tcpVars, sentFileMap, weSentEOB, reader, sender, state, sessions>>

\* handleEOB.
HandleEob(n) ==
  /\ ReaderAt(n, "handle")
  /\ reader[n].cur = None
  /\ reader[n].held.t = "EOB"
  /\ theySentEOB' = [theySentEOB EXCEPT ![n] = TRUE]
  /\ reader' = [reader EXCEPT ![n].held = None,
                              ![n].pc = IF weSentEOB[n] THEN "ok" ELSE "read"]
  /\ UNCHANGED <<spoolVars, inbox, tcpVars, sentFileMap, weSentEOB, sender, state, sessions>>

\* readFrame fails.  io.EOF ends the reader without an error, and so does the
\* own Close once both sides sent M_EOB; anything else is the session's error.
ReadEnd(n) ==
  /\ ReaderAt(n, "read")
  /\ \/ /\ closed[Peer[n]] /\ chan[Peer[n]] = <<>> /\ ~closed[n] /\ ~lost
        /\ ReaderGoto(n, "ok")
     \/ /\ closed[n]
        /\ ReaderGoto(n, IF weSentEOB[n] /\ theySentEOB[n] THEN "ok" ELSE "err")
     \/ /\ reset[n] /\ ~closed[n]
        /\ ReaderGoto(n, "err")
     \/ /\ lost \/ "timeout" \in Faults
        /\ chan[Peer[n]] = <<>> /\ ~closed[n]
        /\ ReaderGoto(n, "err")
  /\ UNCHANGED <<spoolVars, inbox, tcpVars, sentFileMap, eobVars, sender, state, sessions>>

Reader(n) ==
  \/ ReceiveCommand(n) \/ ReceiveData(n) \/ ReceiveGot(n) \/ ReceiveSkip(n)
  \/ FinishFile(n) \/ Confirm(n) \/ HandleFile(n) \/ SendSkip(n) \/ HandleEob(n)
  \/ ReadEnd(n)

-----------------------------------------------------------------------------
(* Run, the environment and later sessions.                                *)

\* Run after wg.Wait: the connection is closed whatever happened, and only
\* the reader's error makes the session's result.
EndSession(n) ==
  /\ state[n] = "open"
  /\ reader[n].pc \in {"ok", "err"}
  /\ sender[n].pc = "done"
  /\ Close(n)
  /\ state' = [state EXCEPT ![n] = IF reader[n].pc = "ok" THEN "Finished" ELSE "Error"]
  /\ UNCHANGED <<spoolVars, inbox, sentFileMap, eobVars, reader, sender, sessions>>

\* The process dies (or the Go runtime aborts it for a concurrent access to
\* sentFileMap): its memory is gone, the kernel closes the connection, the
\* disk stays.
Crash(n) ==
  /\ "crash" \in Faults
  /\ state[n] = "open"
  /\ Close(n)
  /\ state' = [state EXCEPT ![n] = "Crashed"]
  /\ sentFileMap' = [sentFileMap EXCEPT ![n] = {}]
  /\ weSentEOB' = [weSentEOB EXCEPT ![n] = FALSE]
  /\ theySentEOB' = [theySentEOB EXCEPT ![n] = FALSE]
  /\ reader' = [reader EXCEPT ![n] = NewReader]
  /\ sender' = [sender EXCEPT ![n] = NewSender(n)]
  /\ UNCHANGED <<spoolVars, inbox, sessions>>

\* The network fails, and what is in flight is lost.
Cut ==
  /\ "cut" \in Faults
  /\ ~lost
  /\ lost' = TRUE
  /\ \E kept \in [Node -> 0 .. Window] :
       /\ \A n \in Node : kept[n] <= Len(chan[n])
       /\ chan' = [n \in Node |-> SubSeq(chan[n], 1, kept[n])]
  /\ UNCHANGED <<spoolVars, inbox, closed, reset, sentFileMap, eobVars, reader, sender,
                 state, sessions>>

\* A new session between the same nodes: NewSession on both sides.
Redial ==
  /\ \A n \in Node : state[n] # "open"
  /\ sessions < MaxSessions
  /\ sessions' = sessions + 1
  /\ chan' = [n \in Node |-> <<>>]
  /\ closed' = [n \in Node |-> FALSE]
  /\ reset' = [n \in Node |-> FALSE]
  /\ lost' = FALSE
  /\ sentFileMap' = [n \in Node |-> {}]
  /\ weSentEOB' = [n \in Node |-> FALSE]
  /\ theySentEOB' = [n \in Node |-> FALSE]
  /\ reader' = [n \in Node |-> NewReader]
  /\ sender' = [n \in Node |-> NewSender(n)]
  /\ state' = [n \in Node |-> "open"]
  /\ UNCHANGED <<spoolVars, inbox>>

\* The last session is over.
Terminated ==
  /\ \A n \in Node : state[n] # "open"
  /\ sessions = MaxSessions
  /\ UNCHANGED vars

Next ==
  \/ \E n \in Node : Sender(n) \/ Reader(n) \/ EndSession(n) \/ Crash(n)
  \/ Cut \/ Redial \/ Terminated

\* Both goroutines of a session are scheduled for ever; nothing makes the
\* network fail, a process die or a node dial again.
Fairness == \A n \in Node : WF_vars(Sender(n)) /\ WF_vars(Reader(n)) /\ WF_vars(EndSession(n))

Spec == Init /\ [][Next]_vars

FairSpec == Spec /\ Fairness

-----------------------------------------------------------------------------
(* Properties.                                                             *)

\* What a goroutine holds at each point of its program: the entry it sends,
\* the file it receives, the frame that finished that file.
SenderPoint(n) ==
  /\ sender[n].pc \in {"header", "open", "data"} => sender[n].pos <= Len(Work(n))
  /\ sender[n].pc \in {"stat", "header", "open"} => sender[n].sent = 0
  /\ sender[n].pc = "data" => sender[n].sent <= Size[Current(n).file]

ReaderPoint(n) ==
  /\ reader[n].pc = "handle" /\ reader[n].cur = None => reader[n].held # None
  /\ reader[n].pc = "confirm" => reader[n].cur # None
  /\ reader[n].pc = "skip" => reader[n].held # None /\ reader[n].held.t = "FILE"

TypeOK ==
  /\ disk \in [Node -> SUBSET File]
  /\ flow \in [Node -> BOOLEAN]
  /\ inbox \in [Node -> SUBSET Received]
  /\ chan \in [Node -> Seq(Frame)]
  /\ closed \in [Node -> BOOLEAN]
  /\ reset \in [Node -> BOOLEAN]
  /\ lost \in BOOLEAN
  /\ sentFileMap \in [Node -> SUBSET Entry]
  /\ weSentEOB \in [Node -> BOOLEAN]
  /\ theySentEOB \in [Node -> BOOLEAN]
  /\ reader \in [Node -> ReaderState]
  /\ sender \in [Node -> SenderState]
  /\ state \in [Node -> {"open", "Finished", "Error", "Crashed"}]
  /\ sessions \in 1 .. MaxSessions
  /\ \A n \in Node : SenderPoint(n) /\ ReaderPoint(n)

\* The names file f of node n may have on the wire.
NamesOf(f) == {NameOf[f]} \cup ({f} \X (1 .. MaxSessions))

\* The whole of n's file f is in the peer's inbound directory.
Arrived(n, f) ==
  \E r \in inbox[Peer[n]] : r.name \in NamesOf(f) /\ r.content = Content(f)

\* No mail is destroyed: a file gone from the spool of its sender (handleGot
\* removed it) is complete in the receiver's inbound directory, whatever
\* failed, in whichever session.
DeletedOnlyIfDelivered ==
  \A n \in Node : \A f \in Spool[n] \ disk[n] : Arrived(n, f)

\* Nothing partial is tossed: every file finishCurrentFile put in the inbound
\* directory is a file of the peer with all its blocks, in order, although
\* handleFile and handleEOB finish a file of any length, and cuts and
\* crashes interrupt transfers anywhere.
InboundComplete ==
  \A n \in Node : \A r \in inbox[n] :
    \E f \in Spool[Peer[n]] : r.name \in NamesOf(f) /\ r.content = Content(f)

\* M_EOB arrives last: when handleEOB has run, every file the peer's sendFiles
\* announced (its sentFileMap) is in the inbound directory.
EobMeansAllReceived ==
  \A n \in Node : theySentEOB[n] =>
    \A e \in sentFileMap[Peer[n]] : Arrived(Peer[n], e.file)

\* refuse_insecure_sending: nothing of a refusing node is sent, and its mail
\* and its flow file wait for a session with a link.
RefusedMailStays ==
  \A n \in Refuse :
    disk[n] = Spool[n] /\ flow[n] = (Flow[n] # <<>>) /\ inbox[Peer[n]] = {}

\* Sessions implement StoreAndForward: a file arrives once and for all when
\* its last block is renamed into the inbound directory, and is removed later.
Mail == INSTANCE StoreAndForward WITH
  store <- disk,
  arrived <- [n \in Node |-> {f \in Spool[n] : Arrived(n, f)}]

ImplementsStoreAndForward == Mail!Spec

\* A session that saw no failure ends on both sides: Close, M_EOB and the
\* readers' end of file bring every goroutine to its end.
SessionsEnd == <>(\A n \in Node : state[n] # "open")
-----------------------------------------------------------------------------
(* What comments and the documentation say, and the code does not do.      *)

\* session.go:1033, "If we processed the whole file without network error,
\* delete the flow file": when a session ends in an error, a flow file that is
\* gone has no line left to send.
FlowOutlivesFailure ==
  \A n \in Node : state[n] = "Error" /\ ~flow[n] =>
    \A i \in 1 .. Len(Flow[n]) :
      Flow[n][i].file \in Spool[n] => Arrived(n, Flow[n][i].file)

\* session.go:351, "Signal sender to stop and wait for it to finish": once
\* the reader is out of its loop, sendFiles announces no further file.
ShutdownStopsSender ==
  [][\A n \in Node : reader[n].pc \in {"ok", "err"} => sentFileMap'[n] \subseteq sentFileMap[n]]_vars

\* session.go:49, "success is true if the session completed without error":
\* fileSender's errors count.
SuccessMeansSent == \A n \in Node : state[n] = "Finished" => weSentEOB[n]

\* config.yaml.dist:109, "Directory for incoming files from unauthenticated
\* (insecure) sessions": a node that refuses to send still receives.
RefusalStillReceives ==
  \A n \in Node : n \in Refuse /\ state[n] # "open" =>
    \A i \in 1 .. Len(Netmail[Peer[n]]) : Arrived(Peer[n], Netmail[Peer[n]][i])
=============================================================================
