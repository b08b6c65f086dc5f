------------------------------ MODULE FlowFiles ------------------------------
(***************************************************************************)
(* The flow files of one address, one per flavour: lists of files to send. *)
(* Sessions read and remove them (FindFlowFiles, processFlowFile), the     *)
(* tosser appends to them, and the API creates, renames and deletes them.  *)
(* A file is an inode: a session that has it open goes on reading it       *)
(* whatever becomes of its name.  A line is written as a whole; one DELETE *)
(* request is under way at a time, and it may stop anywhere.               *)
(***************************************************************************)
EXTENDS Naturals, FiniteSets, SequencesExt

CONSTANTS
  Mail,         \* files to send, each named by one line
  Flavors,      \* the extensions in use, the most urgent first: a sequence
  Session,
  Calling,      \* the sessions momail has called for, which hold the address's .bsy file
  Edits,        \* what the API is used for: some of "queue_poll", "flavor", and DELETE
                \* without and with delete_files, "delete" and "delete_files"
  Faults,       \* {"scan"}: Scan() may be false for an error, or a line over 64 KB; or {}
  MaxSetbacks,  \* bound: sessions and scanners that fail and edits, all in all
  None

Ext == ToSet(Flavors)

ASSUME FlavorAssumption == Flavors \in Seq(STRING)
ASSUME CallingAssumption == Calling \subseteq Session
ASSUME FaultsAssumption == Faults \subseteq {"scan"}
ASSUME BoundAssumption == MaxSetbacks \in Nat
ASSUME NoneAssumption == None \notin Mail \cup Nat

VARIABLES
  inode,      \* inode[ext]: the file of that name, or None
  lines,      \* lines[i]: the lines of inode i
  todo,       \* todo[s]: the flow files s has still to process
  fd,         \* fd[s]: the inode s has open, or None
  pos,        \* pos[s]: how many of its lines the scanner has read into its buffer
  buf,        \* buf[s]: the scanner's buffer
  pc,         \* pc[s]: "idle", "open", "read", "remove", or "cut": to remove, and the
              \* scanner's Err() is set, which nobody looks at
  del,        \* the DELETE request: the flow files it has still to read, and to remove
  setbacks,   \* failures and edits that may still come
  posted, sent, withdrawn   \* history: mail handed over, sent, its file deleted by the API

session == <<todo, fd, pos, buf, pc>>
vars == <<inode, lines, todo, fd, pos, buf, pc, del, setbacks, posted, sent, withdrawn>>

\* Enough for every name and every open file, and one more.
Inode == 1 .. Len(Flavors) + 3

TypeOK ==
  /\ inode \in [Ext -> Inode \cup {None}]
  /\ lines \in [Inode -> Seq(Mail)]
  /\ \A s \in Session :
       /\ todo[s] \in Seq(Ext) /\ buf[s] \in Seq(Mail)
       /\ fd[s] \in Inode \cup {None}
       /\ pc[s] \in {"read", "remove", "cut"} => fd[s] # None /\ todo[s] # <<>>
       /\ fd[s] = None => buf[s] = <<>>
       /\ pos[s] \in 0 .. Cardinality(Mail)
  /\ del \in [read : Seq(Ext), remove : Seq(Ext)]
  /\ sent \subseteq posted /\ withdrawn \subseteq posted

NoDelete == [read |-> <<>>, remove |-> <<>>]

\* FindFlowFiles: the names there are, in order of priority.
Found == SelectSeq(Flavors, LAMBDA e : inode[e] # None)

Linked == {i \in Inode : \E e \in Ext : inode[e] = i}
Free == {i \in Inode : i \notin Linked /\ \A s \in Session : fd[s] # i}
NewInode == CHOOSE i \in Free : TRUE

Init ==
  /\ inode = [e \in Ext |-> None]
  /\ lines = [i \in Inode |-> <<>>]
  /\ todo = [s \in Session |-> <<>>]
  /\ fd = [s \in Session |-> None]
  /\ pos = [s \in Session |-> 0]
  /\ buf = [s \in Session |-> <<>>]
  /\ pc = [s \in Session |-> "idle"]
  /\ del = NoDelete
  /\ setbacks = MaxSetbacks
  /\ posted = {} /\ sent = {} /\ withdrawn = {}

Setback == setbacks > 0 /\ setbacks' = setbacks - 1

-----------------------------------------------------------------------------
(* A session.                                                               *)

FindFlowFiles(s) ==
  /\ pc[s] = "idle" /\ Found # <<>>
  /\ todo' = [todo EXCEPT ![s] = Found]
  /\ pc' = [pc EXCEPT ![s] = "open"]
  /\ UNCHANGED <<inode, lines, fd, pos, buf, del, setbacks, posted, sent, withdrawn>>

\* processFlowFile opens the name; one that is gone is passed over.
OpenFlow(s) ==
  /\ pc[s] = "open" /\ todo[s] # <<>>
  /\ IF inode[Head(todo[s])] = None
     THEN todo' = [todo EXCEPT ![s] = Tail(@)] /\ UNCHANGED <<fd, pos, pc>>
     ELSE /\ fd' = [fd EXCEPT ![s] = inode[Head(todo[s])]]
          /\ pos' = [pos EXCEPT ![s] = 0]
          /\ pc' = [pc EXCEPT ![s] = "read"]
          /\ UNCHANGED todo
  /\ UNCHANGED <<inode, lines, buf, del, setbacks, posted, sent, withdrawn>>

\* The scanner's buffer is empty: it reads some of what the file has by now.
Fill(s) ==
  LET content == lines[fd[s]] IN
  /\ pc[s] = "read" /\ buf[s] = <<>>
  /\ \E k \in pos[s] + 1 .. Len(content) :
       /\ buf' = [buf EXCEPT ![s] = SubSeq(content, pos[s] + 1, k)]
       /\ pos' = [pos EXCEPT ![s] = k]
  /\ UNCHANGED <<inode, lines, todo, fd, pc, del, setbacks, posted, sent, withdrawn>>

\* The end of the file, and of the loop.
ScanEnds(s) ==
  /\ pc[s] = "read" /\ buf[s] = <<>>
  /\ Len(lines[fd[s]]) <= pos[s]
  /\ pc' = [pc EXCEPT ![s] = "remove"]
  /\ UNCHANGED <<inode, lines, todo, fd, pos, buf, del, setbacks, posted, sent, withdrawn>>

\* Scan() is false, though this is not the end of the file: the loop ends as it does there.
ScanFails(s) ==
  /\ "scan" \in Faults /\ Setback
  /\ pc[s] = "read" /\ buf[s] = <<>>
  /\ pc' = [pc EXCEPT ![s] = "cut"]
  /\ UNCHANGED <<inode, lines, todo, fd, pos, buf, del, posted, sent, withdrawn>>

\* A file that is gone is passed over, any other one is sent.
SendLine(s) ==
  /\ pc[s] = "read" /\ buf[s] # <<>>
  /\ sent' = sent \cup ({Head(buf[s])} \ withdrawn)
  /\ buf' = [buf EXCEPT ![s] = Tail(@)]
  /\ UNCHANGED <<inode, lines, todo, fd, pos, pc, del, setbacks, posted, withdrawn>>

\* The file is closed; a scanner belongs to one file.
Reset(s, newPc, rest) ==
  /\ fd' = [fd EXCEPT ![s] = None]
  /\ pos' = [pos EXCEPT ![s] = 0]
  /\ buf' = [buf EXCEPT ![s] = <<>>]
  /\ pc' = [pc EXCEPT ![s] = newPc]
  /\ todo' = [todo EXCEPT ![s] = rest]

\* Mutant of SendFails: the flow file goes though a line failed.
SendFailsRemoves(s) ==
  /\ pc[s] = "read" /\ Setback
  /\ inode' = [inode EXCEPT ![Head(todo[s])] = None]
  /\ Reset(s, "idle", <<>>)
  /\ UNCHANGED <<lines, del, posted, sent, withdrawn>>

\* A line that cannot be sent, or a process that dies: the flow files that are left stay.
SendFails(s) ==
  /\ pc[s] \in {"open", "read", "remove", "cut"} /\ Setback
  /\ Reset(s, "idle", <<>>)
  /\ UNCHANGED <<inode, lines, del, posted, sent, withdrawn>>

\* Mutant of RemoveFlow: the flow file is kept for next time.
RemoveFlowNever(s) ==
  /\ pc[s] \in {"remove", "cut"}
  /\ Reset(s, "open", Tail(todo[s]))
  /\ UNCHANGED <<inode, lines, del, setbacks, posted, sent, withdrawn>>

\* The end of processFlowFile: the name is removed, whatever file it stands for by now and
\* whyever the loop has ended.
RemoveFlow(s) ==
  /\ pc[s] \in {"remove", "cut"}
  /\ inode' = [inode EXCEPT ![Head(todo[s])] = None]
  /\ Reset(s, "open", Tail(todo[s]))
  /\ UNCHANGED <<lines, del, setbacks, posted, sent, withdrawn>>

EndSession(s) ==
  /\ pc[s] = "open" /\ todo[s] = <<>>
  /\ pc' = [pc EXCEPT ![s] = "idle"]
  /\ UNCHANGED <<inode, lines, todo, fd, pos, buf, del, setbacks, posted, sent, withdrawn>>

-----------------------------------------------------------------------------
(* The others.                                                              *)

\* A tosser that respects .bsy appends a line, and creates the file if need be.
Toss(m, e) ==
  /\ m \notin posted
  /\ \A s \in Calling : pc[s] = "idle"
  /\ posted' = posted \cup {m}
  /\ IF inode[e] = None
     THEN /\ inode' = [inode EXCEPT ![e] = NewInode]
          /\ lines' = [lines EXCEPT ![NewInode] = <<m>>]
     ELSE /\ lines' = [lines EXCEPT ![inode[e]] = Append(@, m)]
          /\ UNCHANGED inode
  /\ UNCHANGED <<session, del, setbacks, sent, withdrawn>>

\* queue_poll, and momail -q: os.Create empties a file that is there.
QueuePoll(e) ==
  /\ "queue_poll" \in Edits /\ Setback
  /\ LET i == IF inode[e] = None THEN NewInode ELSE inode[e]
     IN /\ inode' = [inode EXCEPT ![e] = i]
        /\ lines' = [lines EXCEPT ![i] = <<>>]
  /\ UNCHANGED <<session, del, posted, sent, withdrawn>>

\* PATCH: each flow file is renamed to the new flavour in turn; the last one remains.
SetFlavor(e) ==
  LET others == SelectSeq(Flavors, LAMBDA x : x # e /\ inode[x] # None)
  IN /\ "flavor" \in Edits /\ Setback
     /\ others # <<>>
     /\ inode' = [x \in Ext |-> IF x = e THEN inode[Last(others)] ELSE None]
     /\ UNCHANGED <<lines, session, del, posted, sent, withdrawn>>

\* DELETE: the flow files there are; with delete_files they will be read first.
DeleteFind ==
  /\ del = NoDelete /\ Setback
  /\ Found # <<>>
  /\ \/ "delete" \in Edits /\ del' = [NoDelete EXCEPT !.remove = Found]
     \/ "delete_files" \in Edits /\ del' = [read |-> Found, remove |-> Found]
  /\ UNCHANGED <<inode, lines, session, posted, sent, withdrawn>>

\* delete_files: what a flow file lists is removed, as far as the scanner gets.
DeleteFiles ==
  /\ del.read # <<>>
  /\ del' = [del EXCEPT !.read = Tail(@)]
  /\ LET i == inode[Head(del.read)]
         q == IF i = None THEN <<>> ELSE lines[i]
     IN \E k \in 0 .. Len(q) :
          /\ k = Len(q) \/ "scan" \in Faults
          /\ withdrawn' = withdrawn \cup ToSet(SubSeq(q, 1, k))
  /\ UNCHANGED <<inode, lines, session, setbacks, posted, sent>>

\* Then the flow files, by name: there is no look at .bsy, nor at what was added since.
DeleteFlow ==
  /\ del.read = <<>> /\ del.remove # <<>>
  /\ inode' = [inode EXCEPT ![Head(del.remove)] = None]
  /\ del' = [del EXCEPT !.remove = Tail(@)]
  /\ UNCHANGED <<lines, session, setbacks, posted, sent, withdrawn>>

-----------------------------------------------------------------------------
Step(s) ==
  OpenFlow(s) \/ Fill(s) \/ ScanEnds(s) \/ SendLine(s) \/ RemoveFlow(s) \/ EndSession(s)

Next ==
  \/ \E s \in Session : FindFlowFiles(s) \/ Step(s) \/ ScanFails(s) \/ SendFails(s)
  \/ \E m \in Mail, e \in Ext : Toss(m, e)
  \/ \E e \in Ext : QueuePoll(e) \/ SetFlavor(e)
  \/ DeleteFind \/ DeleteFiles \/ DeleteFlow

Spec == Init /\ [][Next]_vars

\* Sessions run, and there is another one as long as there are flow files (MailCalled of
\* Scheduler says that there is).
FairSpec == Spec /\ \A s \in Session : WF_vars(Step(s)) /\ WF_vars(FindFlowFiles(s))

-----------------------------------------------------------------------------
(* Properties.                                                              *)

Listed == UNION {ToSet(lines[i]) : i \in Linked}

\* Mail that waits in no flow file, though it was neither sent nor withdrawn.
Forgotten == posted \ (sent \cup withdrawn \cup Listed)

\* The lines of the file s has open that the scanner has not reached.
Unread(s) == ToSet(SubSeq(lines[fd[s]], pos[s] + 1, Len(lines[fd[s]])))

\* No mail is forgotten: what was put into a flow file and is neither sent nor withdrawn is
\* in a flow file, through sessions that fail in the middle of one.
NoneForgotten == Forgotten = {}

\* A session removes a flow file only when every line of that file was sent: not one that
\* got a line, or a name, in between (session.go:1033, "If we processed the whole file").
RemovedOnlyIfProcessed ==
  [][\A s \in Session, e \in Ext :
       RemoveFlow(s) /\ e = Head(todo[s]) /\ inode[e] # None
       => ToSet(lines[inode[e]]) \subseteq sent \cup withdrawn]_vars

\* The queue drains: flow files of mail that is sent do not stay for ever.
QueueDrains == posted = Mail ~> Linked = {}
=============================================================================
