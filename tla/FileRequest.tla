----------------------------- MODULE FileRequest -----------------------------
(***************************************************************************)
(* Requests of the peer (M_GET) in one session: for a file of the public   *)
(* directory, or for the rest of a file that is being sent.  The goroutine *)
(* that reads queues them (handleGet), the goroutine that sends (sendFiles)*)
(* looks at the queue once, before the outbound mail.  A frame M_FILE      *)
(* stands for the file with its data.                                      *)
(***************************************************************************)
EXTENDS Naturals, FiniteSets, SequencesExt

CONSTANTS
  Public,     \* files in freq_dir
  Mail,       \* the outbound files for the peer: a sequence
  Partial,    \* files of which the peer holds a part: it asks for the rest
  Asked,      \* the files the peer asks for, once each; some may not exist
  Vanish      \* public files that may be removed meanwhile

Known == Public \cup ToSet(Mail) \cup Asked

FileAssumption ==
  Public \cap ToSet(Mail) = {} /\ Vanish \subseteq Public /\ Mail \in Seq(ToSet(Mail))

VARIABLES
  disk,       \* files of momail
  toMomail, toPeer,   \* frames on their way
  reading,    \* the request the reader is about to append to requestedFiles, or none
  requestedFiles,
  sentFileMap,        \* the files in the map
  snd,        \* the sender: pc, how long requestedFiles was, and what it has sent of it, of Mail
  unasked,    \* what the peer has still to ask for
  received,   \* what the peer has received whole
  closed,     \* the connection is closed, or the process has died
  early       \* history: what was queued before the sender started

vars == <<disk, toMomail, toPeer, reading, requestedFiles, sentFileMap, snd, unasked,
          received, closed, early>>

Request == [file : Known, offset : {0, 1}, deleteAfter : BOOLEAN]
ToMomail == [type : {"GET"}, file : Known, offset : {0, 1}] \cup [type : {"GOT"}, file : Known]
ToPeer == [type : {"FILE"}, file : Known, offset : {0, 1}] \cup [type : {"EOB"}]

TypeOK ==
  /\ disk \subseteq Known /\ sentFileMap \subseteq Known /\ received \subseteq Known
  /\ early \subseteq Known
  /\ unasked \subseteq Asked
  /\ toMomail \in Seq(ToMomail) /\ toPeer \in Seq(ToPeer)
  /\ requestedFiles \in Seq(Request) /\ Len(reading) <= 1 /\ reading \in Seq(Request)
  /\ snd.pc \in {"start", "requested", "mail", "done"}
  /\ snd.next \in 1 .. snd.upTo + 1 /\ snd.upTo <= Len(requestedFiles)
  /\ snd.mail \in 1 .. Len(Mail) + 1
  /\ sentFileMap \subseteq {requestedFiles[i].file : i \in 1 .. snd.upTo} \cup ToSet(Mail)

Init ==
  /\ disk = Public \cup ToSet(Mail)
  /\ toMomail = <<>> /\ toPeer = <<>>
  /\ reading = <<>> /\ requestedFiles = <<>>
  /\ sentFileMap = {}
  /\ snd = [pc |-> "start", upTo |-> 0, next |-> 1, mail |-> 1, queued |-> 0]
  /\ unasked = Asked
  /\ received = {} /\ early = {}
  /\ closed = FALSE

-----------------------------------------------------------------------------
(* The goroutine that reads.                                                *)

\* A file that was sent in this session, or is public: one that is neither, or is gone, is not
\* queued.
Queued(m) ==
  IF m.file \in disk /\ m.file \in sentFileMap \cup Public
  THEN <<[file |-> m.file, offset |-> m.offset, deleteAfter |-> m.file \in sentFileMap \ Public]>>
  ELSE <<>>

HandleGet ==
  /\ ~closed /\ reading = <<>>
  /\ toMomail # <<>> /\ Head(toMomail).type = "GET"
  /\ toMomail' = Tail(toMomail)
  /\ reading' = Queued(Head(toMomail))
  /\ UNCHANGED <<disk, toPeer, requestedFiles, sentFileMap, snd, unasked, received, closed, early>>

AppendRequest ==
  /\ ~closed /\ reading # <<>>
  /\ requestedFiles' = requestedFiles \o reading
  /\ reading' = <<>>
  /\ early' = IF snd.pc = "start" THEN early \cup {reading[1].file} ELSE early
  /\ UNCHANGED <<disk, toMomail, toPeer, sentFileMap, snd, unasked, received, closed>>

\* A file in the map is deleted if it was sent with deleteAfter: mail is, public files are not.
Deleted(f) ==
  {f} \cap (ToSet(Mail) \cup {requestedFiles[i].file :
              i \in {j \in 1 .. snd.upTo : requestedFiles[j].deleteAfter}})

HandleGot ==
  /\ ~closed /\ reading = <<>>
  /\ toMomail # <<>> /\ Head(toMomail).type = "GOT"
  /\ toMomail' = Tail(toMomail)
  /\ disk' = disk \ (Deleted(Head(toMomail).file) \cap sentFileMap)
  /\ UNCHANGED <<toPeer, reading, requestedFiles, sentFileMap, snd, unasked, received, closed, early>>

-----------------------------------------------------------------------------
(* The goroutine that sends.                                                *)

Close == closed' = TRUE /\ UNCHANGED <<toPeer, sentFileMap, snd>>

SendFile(f, offset, next) ==
  /\ toPeer' = Append(toPeer, [type |-> "FILE", file |-> f, offset |-> offset])
  /\ sentFileMap' = sentFileMap \cup {f}
  /\ snd' = next
  /\ UNCHANGED closed

\* Mutant of StartRange: the queue is looked at before anything could arrive.
StartRangeEarly ==
  /\ ~closed /\ snd.pc = "start"
  /\ snd' = [snd EXCEPT !.pc = "requested"]
  /\ UNCHANGED <<disk, toMomail, toPeer, reading, requestedFiles, sentFileMap, unasked,
                 received, closed, early>>

\* range takes the slice as it is now.  It is not locked: read while the other goroutine writes
\* it, it may be a pointer and a length that do not belong together, which ends the process.
StartRange ==
  /\ ~closed /\ snd.pc = "start"
  /\ \/ /\ snd' = [snd EXCEPT !.pc = "requested", !.upTo = Len(requestedFiles)]
        /\ UNCHANGED <<toPeer, sentFileMap, closed, early>>
     \/ reading # <<>> /\ Close
  /\ UNCHANGED <<disk, toMomail, reading, requestedFiles, unasked, received, early>>

\* The next request; a file that is gone fails the session.
SendRequested ==
  LET r == requestedFiles[snd.next]
      next == [snd EXCEPT !.next = @ + 1]
  IN /\ ~closed /\ snd.pc = "requested" /\ snd.next <= snd.upTo
     /\ IF r.file \in disk THEN SendFile(r.file, r.offset, next) ELSE Close
     /\ UNCHANGED <<disk, toMomail, reading, requestedFiles, unasked, received, early>>

RequestsDone ==
  /\ ~closed /\ snd.pc = "requested" /\ snd.next > snd.upTo
  /\ snd' = [snd EXCEPT !.pc = "mail"]
  /\ UNCHANGED <<disk, toMomail, toPeer, reading, requestedFiles, sentFileMap, unasked,
                 received, closed, early>>

SendMail ==
  /\ ~closed /\ snd.pc = "mail" /\ snd.mail <= Len(Mail)
  /\ SendFile(Mail[snd.mail], 0, [snd EXCEPT !.mail = @ + 1])
  /\ UNCHANGED <<disk, toMomail, reading, requestedFiles, unasked, received, early>>

SendEOB ==
  /\ ~closed /\ snd.pc = "mail" /\ snd.mail > Len(Mail)
  /\ toPeer' = Append(toPeer, [type |-> "EOB"])
  /\ snd' = [snd EXCEPT !.pc = "done", !.queued = Len(requestedFiles)]
  /\ UNCHANGED <<disk, toMomail, reading, requestedFiles, sentFileMap, unasked, received, closed, early>>

-----------------------------------------------------------------------------
(* The peer, and the public directory.                                      *)

Ask(f) ==
  /\ f \in unasked /\ ~closed
  /\ unasked' = unasked \ {f}
  /\ toMomail' = Append(toMomail, [type |-> "GET", file |-> f, offset |-> 0])
  /\ UNCHANGED <<disk, toPeer, reading, requestedFiles, sentFileMap, snd, received, closed, early>>

\* A file that starts at the beginning though the peer has a part of it is not taken: the peer
\* asks for the rest, and drops what comes until that M_FILE.
PeerReads ==
  /\ toPeer # <<>> /\ ~closed
  /\ toPeer' = Tail(toPeer)
  /\ LET m == Head(toPeer) IN
       \/ m.type = "EOB" /\ UNCHANGED <<toMomail, received>>
       \/ /\ m.type = "FILE" /\ m.file \in Partial /\ m.offset = 0
          /\ toMomail' = Append(toMomail, [type |-> "GET", file |-> m.file, offset |-> 1])
          /\ UNCHANGED received
       \/ /\ m.type = "FILE" /\ (m.file \notin Partial \/ m.offset = 1)
          /\ received' = received \cup {m.file}
          /\ toMomail' = Append(toMomail, [type |-> "GOT", file |-> m.file])
  /\ UNCHANGED <<disk, reading, requestedFiles, sentFileMap, snd, unasked, closed, early>>

RemovePublic(f) ==
  /\ f \in Vanish /\ f \in disk
  /\ disk' = disk \ {f}
  /\ UNCHANGED <<toMomail, toPeer, reading, requestedFiles, sentFileMap, snd, unasked,
                 received, closed, early>>

-----------------------------------------------------------------------------
Next ==
  \/ HandleGet \/ AppendRequest \/ HandleGot
  \/ StartRange \/ SendRequested \/ RequestsDone \/ SendMail \/ SendEOB
  \/ PeerReads \/ \E f \in Known : Ask(f) \/ RemovePublic(f)

Spec == Init /\ [][Next]_vars

-----------------------------------------------------------------------------
(* Properties.                                                              *)

\* A request that was queued when the sender started is answered before the mail (unless the
\* file is gone, which ends the session).
EarlyAnswered == snd.pc \in {"mail", "done"} => early \subseteq sentFileMap

\* A request that was queued before M_EOB is answered (session.go:611, "Queuing requested file").
RequestsAnswered == snd.pc = "done" => snd.queued <= snd.upTo

\* The same of requests for the rest of a file (session.go:103, "to handle resumes (M_GET)").
ResumesAnswered ==
  snd.pc = "done" =>
    \A i \in 1 .. snd.queued : requestedFiles[i].offset > 0 => i <= snd.upTo
=============================================================================
