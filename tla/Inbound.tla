------------------------------- MODULE Inbound -------------------------------
(***************************************************************************)
(* What several sessions of one momail receive (handleFile, handleData,    *)
(* handleEOB, finishCurrentFile, executeTriggers of binkp/session.go):     *)
(* all write to one temporary directory, rename into the same inbound      *)
(* directories, and start the triggers that hand the files on.  The peers  *)
(* send their files until each is confirmed, through cut connections.      *)
(*                                                                         *)
(* A file on disk is an inode, so a rename does not disturb a session that *)
(* has it open.  Contents are sequences of blocks named after the file     *)
(* they come from.                                                         *)
(***************************************************************************)
EXTENDS Integers, FiniteSets, SequencesExt, FiniteSetsExt

CONSTANTS
  Peer,
  Slot,         \* connections: goroutines that may run Session.Run at a time
  PeerOf,       \* PeerOf[s]: the peer that uses the connection
  File, Name,
  NameOf,       \* NameOf[f]: the base name the file is sent as
  Size,         \* Size[f]: its blocks
  Files,        \* Files[p]: the files p has to send, in order
  Secure,       \* the peers that gave a link's password, or whose link has none
  Later,        \* the names whose trigger has run_after_session
  Env,          \* what else may happen: a subset of {"resume", "crash"}
  MaxCuts,      \* bound: connections that are cut, and crashes
  None

ASSUME PeerAssumption == PeerOf \in [Slot -> Peer] /\ Secure \subseteq Peer
ASSUME FileAssumption ==
  /\ NameOf \in [File -> Name] /\ Size \in [File -> Nat]
  /\ Files \in [Peer -> Seq(File)] /\ Later \subseteq Name /\ None \notin File
ASSUME BoundAssumption == MaxCuts \in Nat
ASSUME FiniteAssumption == IsFiniteSet(Name) /\ IsFiniteSet(Slot)

VARIABLES
  disk,       \* the directories, the contents of inodes, and what triggers have taken
  rx,         \* rx[s]: the Session of a connection
  tx,         \* tx[s]: the peer's end of it
  chan,       \* chan[s]: frames on their way
  gots,       \* gots[s]: names in M_GOT frames on their way
  confirmed,  \* the files whose M_GOT has arrived, which the peer has deleted
  reached,    \* reached[f]: how much of f the peer sent before the connection broke
  cuts        \* cuts and crashes that may still come

vars == <<disk, rx, tx, chan, gots, confirmed, reached, cuts>>

Dir == {"secure", "insecure"}
Inode == 1 .. 3 * Cardinality(Name) + Cardinality(Slot)
ASSUME NoneAssumption == None \notin Inode
Block == [file : File \cup {None}, no : Nat]
Hole == [file |-> None, no |-> 0]
Path == [dir : Dir, name : Name]

Frame ==
  [type : {"FILE"}, file : File, offset : Nat] \cup [type : {"EOB"}]
    \cup [type : {"DATA"}, file : File, no : Nat]

Whole(f) == [k \in 1 .. Size[f] |-> [file |-> f, no |-> k]]

\* A session that has not begun, and one that has just been accepted.
Closed == [phase |-> "free", fd |-> None, name |-> None, offset |-> 0, size |-> 0,
           bytes |-> 0, pending |-> <<>>]

Disk ==
  [temp : [Name -> Inode \cup {None}], inbound : [Dir -> [Name -> Inode \cup {None}]],
   data : [Inode -> Seq(Block)], taken : SUBSET [dir : Dir, data : Seq(Block)]]

Reader ==
  [phase : {"free", "up", "ending"}, fd : Inode \cup {None}, name : Name \cup {None},
   offset : Nat, size : Nat, bytes : Nat, pending : Seq(Path)]

Sender == [up : BOOLEAN, todo : Seq(File), sent : Nat \cup {-1}, eob : BOOLEAN]

TypeOK ==
  /\ disk \in Disk
  /\ rx \in [Slot -> Reader] /\ tx \in [Slot -> Sender]
  /\ \A s \in Slot : rx[s].fd # None => rx[s].phase = "up" /\ rx[s].name \in Name
  /\ chan \in [Slot -> Seq(Frame)] /\ gots \in [Slot -> Seq(Name)]
  /\ confirmed \subseteq File /\ reached \in [File -> Nat]
  /\ cuts \in 0 .. MaxCuts

Init ==
  /\ disk = [temp |-> [n \in Name |-> None],
             inbound |-> [d \in Dir |-> [n \in Name |-> None]],
             data |-> [i \in Inode |-> <<>>], taken |-> {}]
  /\ rx = [s \in Slot |-> Closed]
  /\ tx = [s \in Slot |-> [up |-> FALSE, todo |-> <<>>, sent |-> -1, eob |-> FALSE]]
  /\ chan = [s \in Slot |-> <<>>]
  /\ gots = [s \in Slot |-> <<>>]
  /\ confirmed = {}
  /\ reached = [f \in File |-> 0]
  /\ cuts = MaxCuts

-----------------------------------------------------------------------------
(* Directories.                                                             *)

Free(d) ==
  {i \in Inode : /\ \A n \in Name : d.temp[n] # i /\ \A x \in Dir : d.inbound[x][n] # i
                 /\ \A s \in Slot : rx[s].fd # i}

\* os.Create: an inode that has the name is emptied, and stays open elsewhere.
Create(d, n) ==
  LET i == IF d.temp[n] # None THEN d.temp[n] ELSE CHOOSE k \in Free(d) : TRUE
  IN [d EXCEPT !.temp[n] = i, !.data[i] = <<>>]

\* Write at an offset: a gap before it reads as zeros.
Written(content, offset, block) ==
  [k \in 1 .. Max({Len(content), offset + 1}) |->
     IF k = offset + 1 THEN block ELSE IF k <= Len(content) THEN content[k] ELSE Hole]

\* The trigger's command takes a file away; one that is gone is an error of the command.
Taken(d, p) ==
  LET i == d.inbound[p.dir][p.name] IN
  IF i = None THEN d
  ELSE [d EXCEPT !.inbound[p.dir][p.name] = None,
                 !.taken = @ \cup {[dir |-> p.dir, data |-> d.data[i]]}]

\* os.Rename: what is under the name by now goes over what is in the inbound directory.
Renamed(d, p) ==
  [d EXCEPT !.temp[p.name] = None, !.inbound[p.dir][p.name] = d.temp[p.name]]

DestDir(s) == IF PeerOf[s] \in Secure THEN "secure" ELSE "insecure"

\* finishCurrentFile: the file is renamed, its triggers run or wait for the end of the
\* session, and it is confirmed.
Finish(d, r, s) ==
  LET n == r.name
      p == [dir |-> DestDir(s), name |-> n]
      moved == Renamed(d, p)
      closed == [r EXCEPT !.fd = None]
  IN IF d.temp[n] = None THEN [disk |-> d, rx |-> closed, gots |-> <<>>]
     ELSE IF n \in Later
     THEN [disk |-> moved, rx |-> [closed EXCEPT !.pending = Append(@, p)], gots |-> <<n>>]
     ELSE [disk |-> Taken(moved, p), rx |-> closed, gots |-> <<n>>]

\* Mutant of FinishOpen: only a file that is complete is finished.
FinishOpenNever(d, r, s) == [disk |-> d, rx |-> [r EXCEPT !.fd = None], gots |-> <<>>]

\* M_FILE and M_EOB finish the file that is open, whatever there is of it.
FinishOpen(d, r, s) ==
  IF r.fd # None THEN Finish(d, r, s) ELSE [disk |-> d, rx |-> r, gots |-> <<>>]

\* What a handler leaves: the frame is used up, and M_GOT is written, into a connection that
\* may be gone.
Handled(s, result) ==
  /\ \E r \in {result} :
       /\ disk' = r.disk
       /\ rx' = [rx EXCEPT ![s] = r.rx]
       /\ gots' = IF tx[s].up THEN [gots EXCEPT ![s] = @ \o r.gots] ELSE gots
  /\ chan' = [chan EXCEPT ![s] = Tail(@)]
  /\ UNCHANGED <<tx, confirmed, reached, cuts>>

Reads(s, type) == rx[s].phase = "up" /\ chan[s] # <<>> /\ Head(chan[s]).type = type

-----------------------------------------------------------------------------
(* The receiving session.                                                   *)

CanResume(d, n, offset) == offset > 0 /\ d.temp[n] # None /\ Len(d.data[d.temp[n]]) = offset

\* The file the frame announces is opened, after the last one was finished.
Opened(s, m, done) ==
  LET n == NameOf[m.file]
      resume == CanResume(done.disk, n, m.offset)
      offset == IF resume THEN m.offset ELSE 0
      d == IF resume THEN done.disk ELSE Create(done.disk, n)
  IN [disk |-> d, gots |-> done.gots,
      rx |-> [done.rx EXCEPT !.fd = d.temp[n], !.name = n, !.offset = offset,
                             !.bytes = offset, !.size = Size[m.file]]]

HandleFile(s) ==
  /\ Reads(s, "FILE")
  /\ \E done \in {FinishOpen(disk, rx[s], s)} : Handled(s, Opened(s, Head(chan[s]), done))

\* Mutant of HandleData: the file is moved a block early.
HandleDataMoves(s) ==
  LET m == Head(chan[s])
      r == [rx[s] EXCEPT !.offset = @ + 1, !.bytes = @ + 1]
      block == [file |-> m.file, no |-> m.no]
      d == [disk EXCEPT !.data[r.fd] = Written(@, rx[s].offset, block)]
  IN /\ Reads(s, "DATA") /\ rx[s].fd # None
     /\ Handled(s, IF r.bytes + 1 >= r.size THEN [Finish(d, r, s) EXCEPT !.rx.fd = r.fd]
                   ELSE [disk |-> d, rx |-> r, gots |-> <<>>])

\* The file is finished when recvSize bytes are there; an empty one is not finished here.
HandleData(s) ==
  LET m == Head(chan[s])
      r == [rx[s] EXCEPT !.offset = @ + 1, !.bytes = @ + 1]
      block == [file |-> m.file, no |-> m.no]
      d == [disk EXCEPT !.data[r.fd] = Written(@, rx[s].offset, block)]
  IN /\ Reads(s, "DATA")
     /\ Handled(s, IF rx[s].fd = None THEN [disk |-> disk, rx |-> rx[s], gots |-> <<>>]
                   ELSE IF r.size > 0 /\ r.bytes >= r.size THEN Finish(d, r, s)
                   ELSE [disk |-> d, rx |-> r, gots |-> <<>>])

\* Mutant of Ending: what is received when the connection breaks is taken for the file.
EndingFinishes(s) ==
  LET done == FinishOpen(disk, rx[s], s)
  IN /\ disk' = done.disk
     /\ rx' = [rx EXCEPT ![s] = [done.rx EXCEPT !.phase = "ending"]]

\* Mutant of Ending: a session that breaks forgets its triggers.
EndingForgets(s) ==
  rx' = [rx EXCEPT ![s] = [Closed EXCEPT !.phase = "ending"]] /\ UNCHANGED disk

\* The deferred function of Run closes the file that is open and leaves it where it is.
Ending(s) == rx' = [rx EXCEPT ![s].phase = "ending", ![s].fd = None] /\ UNCHANGED disk

\* The peer's M_EOB ends the session here: what this side has to send is in BinkpSession.
HandleEOB(s) ==
  LET done == FinishOpen(disk, rx[s], s)
  IN /\ Reads(s, "EOB")
     /\ Handled(s, [done EXCEPT !.rx.phase = "ending"])

ReadFails(s) ==
  /\ rx[s].phase = "up" /\ chan[s] = <<>> /\ ~tx[s].up
  /\ Ending(s)
  /\ UNCHANGED <<tx, chan, gots, confirmed, reached, cuts>>

\* executePendingTriggers, one command after the other, then the session is over.
RunPending(s) ==
  /\ rx[s].phase = "ending"
  /\ IF rx[s].pending = <<>>
     THEN rx' = [rx EXCEPT ![s] = Closed] /\ UNCHANGED disk
     ELSE /\ disk' = Taken(disk, Head(rx[s].pending))
          /\ rx' = [rx EXCEPT ![s].pending = Tail(@)]
  /\ UNCHANGED <<tx, chan, gots, confirmed, reached, cuts>>

\* The process dies with all its sessions, and is started again.
Crash ==
  /\ "crash" \in Env /\ cuts > 0 /\ cuts' = cuts - 1
  /\ rx' = [s \in Slot |-> Closed]
  /\ tx' = [s \in Slot |-> [tx[s] EXCEPT !.up = FALSE]]
  /\ chan' = [s \in Slot |-> <<>>]
  /\ gots' = [s \in Slot |-> <<>>]
  /\ UNCHANGED <<disk, confirmed, reached>>

-----------------------------------------------------------------------------
(* The peers.                                                               *)

Connect(s) ==
  /\ rx[s].phase = "free" /\ ~tx[s].up
  /\ \E f \in ToSet(Files[PeerOf[s]]) : f \notin confirmed
  /\ rx' = [rx EXCEPT ![s].phase = "up"]
  /\ tx' = [tx EXCEPT ![s] = [up |-> TRUE, todo |-> Files[PeerOf[s]], sent |-> -1,
                             eob |-> FALSE]]
  /\ chan' = [chan EXCEPT ![s] = <<>>]
  /\ gots' = [gots EXCEPT ![s] = <<>>]
  /\ UNCHANGED <<disk, confirmed, reached, cuts>>

Put(s, m) == Len(chan[s]) < 2 /\ chan' = [chan EXCEPT ![s] = Append(@, m)]
NextFile(s) == tx' = [tx EXCEPT ![s].todo = Tail(@), ![s].sent = -1] /\ UNCHANGED chan

\* sendFile of the peer.  A file that was deleted meanwhile, because another session has
\* delivered it, is passed over, also when its M_FILE has gone out already.
PeerSends(s) ==
  LET f == Head(tx[s].todo)
      offset == IF "resume" \in Env /\ reached[f] < Size[f] THEN reached[f] ELSE 0
  IN /\ tx[s].up /\ tx[s].todo # <<>>
     /\ \/ /\ tx[s].sent = -1 /\ f \notin confirmed
           /\ Put(s, [type |-> "FILE", file |-> f, offset |-> offset])
           /\ tx' = [tx EXCEPT ![s].sent = offset]
           /\ UNCHANGED reached
        \/ /\ \/ tx[s].sent = Size[f]
              \/ tx[s].sent \in {-1, 0} /\ f \in confirmed
           /\ NextFile(s) /\ UNCHANGED reached
        \/ /\ tx[s].sent \in 0 .. Size[f] - 1
           /\ tx[s].sent = 0 => f \notin confirmed
           /\ Put(s, [type |-> "DATA", file |-> f, no |-> tx[s].sent + 1])
           /\ tx' = [tx EXCEPT ![s].sent = @ + 1]
           /\ reached' = IF "resume" \in Env THEN [reached EXCEPT ![f] = tx[s].sent + 1] ELSE reached
  /\ UNCHANGED <<disk, rx, gots, confirmed, cuts>>

PeerSendsEOB(s) ==
  /\ tx[s].up /\ tx[s].todo = <<>> /\ ~tx[s].eob
  /\ Put(s, [type |-> "EOB"])
  /\ tx' = [tx EXCEPT ![s].eob = TRUE]
  /\ UNCHANGED <<disk, rx, gots, confirmed, reached, cuts>>

\* M_GOT names a file of this session.
PeerGot(s) ==
  /\ tx[s].up /\ gots[s] # <<>>
  /\ gots' = [gots EXCEPT ![s] = Tail(@)]
  /\ confirmed' = confirmed \cup {f \in ToSet(Files[PeerOf[s]]) : NameOf[f] = Head(gots[s])}
  /\ UNCHANGED <<disk, rx, tx, chan, reached, cuts>>

PeerCloses(s) ==
  /\ tx[s].up /\ tx[s].eob /\ rx[s].phase = "free" /\ gots[s] = <<>>
  /\ tx' = [tx EXCEPT ![s].up = FALSE]
  /\ UNCHANGED <<disk, rx, chan, gots, confirmed, reached, cuts>>

\* What is on its way to momail may still arrive, what is on its way back may not.
Cut(s) ==
  /\ tx[s].up /\ cuts > 0 /\ cuts' = cuts - 1
  /\ tx' = [tx EXCEPT ![s].up = FALSE]
  /\ \E k \in 0 .. Len(chan[s]) : chan' = [chan EXCEPT ![s] = SubSeq(@, 1, k)]
  /\ gots' = [gots EXCEPT ![s] = <<>>]
  /\ UNCHANGED <<disk, rx, confirmed, reached>>

-----------------------------------------------------------------------------
Step(s) ==
  \/ HandleFile(s) \/ HandleData(s) \/ HandleEOB(s) \/ ReadFails(s) \/ RunPending(s)
  \/ Connect(s) \/ PeerSends(s) \/ PeerSendsEOB(s) \/ PeerGot(s) \/ PeerCloses(s)

Next == (\E s \in Slot : Step(s) \/ Cut(s)) \/ Crash

Spec == Init /\ [][Next]_vars

\* Goroutines run, peers do their part and try again.
FairSpec == Spec /\ \A s \in Slot : WF_vars(Step(s))

-----------------------------------------------------------------------------
(* Properties.                                                              *)

\* What is in an inbound directory, and what a trigger took from there, is a file of a peer,
\* whole, in the directory for the peer's kind of session: not one that broke off, nor
\* pieces of two (finishCurrentFile renames what is there under a name by then).
Right(dir, content) ==
  \E p \in Peer : /\ dir = (IF p \in Secure THEN "secure" ELSE "insecure")
                  /\ \E f \in ToSet(Files[p]) : content = Whole(f)

InboundWhole ==
  /\ \A p \in Path : disk.inbound[p.dir][p.name] # None
                       => Right(p.dir, disk.data[disk.inbound[p.dir][p.name]])
  /\ \A t \in disk.taken : Right(t.dir, t.data)

\* A file its sender was told to delete is with the tosser, or will be: a session that is
\* not over has its trigger waiting (session.go:806, "Send M_GOT to confirm receipt").
Waiting(f) ==
  \E s \in Slot : \E p \in ToSet(rx[s].pending) :
    disk.inbound[p.dir][p.name] # None /\ disk.data[disk.inbound[p.dir][p.name]] = Whole(f)

ConfirmedKept ==
  \A f \in confirmed : (\E t \in disk.taken : t.data = Whole(f)) \/ Waiting(f)

\* A file in an inbound directory is not written to (session.go:664, "Ensure we only write to
\* the temp directory"): a tosser may be reading it.
InboundNotWritten ==
  [][\A p \in Path : LET i == disk.inbound[p.dir][p.name] IN
       i # None /\ disk'.inbound[p.dir][p.name] = i => disk'.data[i] = disk.data[i]]_vars

\* Every file arrives in the end, however often the connection breaks.
AllTaken == \A f \in File : <>(\E t \in disk.taken : t.data = Whole(f))
=============================================================================
