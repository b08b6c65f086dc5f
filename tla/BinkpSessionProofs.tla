-------------------------- MODULE BinkpSessionProofs --------------------------
(***************************************************************************)
(* Proofs about BinkpSession, for any files, queues, buffers, faults and   *)
(* number of sessions: its types, and that a node which refuses a session  *)
(* keeps its mail; that the transfer destroys no mail, puts only whole     *)
(* files into the inbound directory, implements StoreAndForward, and lets  *)
(* M_EOB overtake no file.                                                 *)
(*                                                                         *)
(* The theorems on delivery need DistinctQueues: the files a node has for  *)
(* its peer have base names of their own, and each is listed once.         *)
(* Otherwise they are not true of the code: sentFileMap and the inbound    *)
(* directory are keyed by name, so that one file's M_GOT removes another.  *)
(***************************************************************************)
EXTENDS BinkpSession, SequenceTheorems, TLAPS

-----------------------------------------------------------------------------
(* The work of a sender.                                                   *)

\* A function on 1 .. k is a sequence of length k.
LEMMA FunctionIsSeq ==
  ASSUME NEW S, NEW k \in Nat, NEW s \in [1 .. k -> S]
  PROVE  s \in Seq(S) /\ Len(s) = k
<1>1. s \in Seq(S)
  BY SeqDef
<1>2. Len(s) \in Nat /\ DOMAIN s = 1 .. Len(s) /\ DOMAIN s = 1 .. k
  BY <1>1, LenProperties
<1> QED BY <1>1, <1>2

\* Every item of work is an entry.
LEMMA WorkType ==
  ASSUME NEW n \in Node, sessions \in 1 .. MaxSessions
  PROVE  Work(n) \in Seq(Entry)
<1> DEFINE packets == [i \in 1 .. Len(Netmail[n]) |->
             [file |-> Netmail[n][i], name |-> <<Netmail[n][i], sessions>>, del |-> TRUE]]
           lines == [i \in 1 .. Len(Flow[n]) |->
             [file |-> Flow[n][i].file, name |-> NameOf[Flow[n][i].file], del |-> Flow[n][i].del]]
<1>1. packets \in Seq(Entry)
  <2>1. Netmail[n] \in Seq(File)
    BY QueueAssumption
  <2>2. \A i \in 1 .. Len(Netmail[n]) : packets[i] \in Entry
    BY <2>1, ElementOfSeq DEF Entry, WireName, PacketName
  <2>3. Len(Netmail[n]) \in Nat
    BY <2>1, LenProperties
  <2> QED BY <2>2, <2>3, FunctionIsSeq
<1>2. lines \in Seq(Entry)
  <2>1. Flow[n] \in Seq(FlowLine)
    BY QueueAssumption
  <2>2. \A i \in 1 .. Len(Flow[n]) : Flow[n][i] \in FlowLine
    BY <2>1, ElementOfSeq
  <2>3. \A i \in 1 .. Len(Flow[n]) : lines[i] \in Entry
    BY <2>2, FileAssumption DEF Entry, WireName, FlowLine
  <2>4. Len(Flow[n]) \in Nat
    BY <2>1, LenProperties
  <2> QED BY <2>3, <2>4, FunctionIsSeq
<1>3. <<>> \in Seq(Entry)
  BY EmptySeq
<1> QED BY <1>1, <1>2, <1>3, ConcatProperties DEF Work

\* So is the item a sender is at.
LEMMA CurrentType ==
  ASSUME NEW n \in Node, TypeOK, sender[n].pos <= Len(Work(n))
  PROVE  Current(n) \in Entry
<1>1. Work(n) \in Seq(Entry)
  BY WorkType DEF TypeOK
<1>2. sender[n].pos \in 1 .. Len(Work(n))
  BY <1>1, LenProperties DEF TypeOK, SenderState
<1> QED BY <1>1, <1>2, ElementOfSeq DEF Current

-----------------------------------------------------------------------------
(* The connection.                                                         *)

\* Write leaves a well-typed connection.
LEMMA WriteType ==
  ASSUME NEW n \in Node, NEW m \in Frame, TypeOK, Write(n, m)
  PROVE  /\ chan' \in [Node -> Seq(Frame)]
         /\ reset' \in [Node -> BOOLEAN]
         /\ closed' = closed /\ lost' = lost
<1>1. Append(chan[n], m) \in Seq(Frame)
  BY AppendProperties DEF TypeOK
<1> QED BY <1>1 DEF TypeOK, Write

\* readFrame takes the first frame off and returns it.
LEMMA ReadType ==
  ASSUME NEW n \in Node, NEW types, TypeOK, Read(n, types)
  PROVE  /\ NextFrame(n) \in Frame
         /\ NextFrame(n).t \in types
         /\ chan' \in [Node -> Seq(Frame)]
         /\ closed' = closed /\ reset' = reset /\ lost' = lost
<1>1. Peer[n] \in Node
  BY PeerAssumption
<1>2. chan[Peer[n]] \in Seq(Frame) /\ chan[Peer[n]] # <<>>
  BY <1>1 DEF TypeOK, Read
<1>3. Head(chan[Peer[n]]) \in Frame /\ Tail(chan[Peer[n]]) \in Seq(Frame)
  BY <1>2, HeadTailProperties
<1> QED BY <1>1, <1>3 DEF TypeOK, Read, NextFrame

\* Close leaves a well-typed connection.
LEMMA CloseType ==
  ASSUME NEW n \in Node, TypeOK, Close(n)
  PROVE  /\ closed' \in [Node -> BOOLEAN]
         /\ reset' \in [Node -> BOOLEAN]
         /\ chan' = chan /\ lost' = lost
BY PeerAssumption DEF TypeOK, Close

-----------------------------------------------------------------------------
(* The goroutines.                                                         *)

\* A fresh pair of goroutines.
LEMMA NewType ==
  ASSUME NEW n \in Node
  PROVE  NewReader \in ReaderState /\ NewSender(n) \in SenderState
BY DEF NewReader, NewSender, ReaderState, SenderState

\* A goroutine's state after a step of its own.
LEMMA SenderGotoType ==
  ASSUME NEW n \in Node, NEW pc, sender \in [Node -> SenderState], SenderGoto(n, pc),
         pc \in {"refuse", "stat", "header", "open", "data", "eob", "flag", "fail", "done"}
  PROVE  /\ sender' \in [Node -> SenderState]
         /\ sender'[n].pc = pc
         /\ sender'[n].pos = sender[n].pos
         /\ sender'[n].sent = sender[n].sent
         /\ \A m \in Node \ {n} : sender'[m] = sender[m]
BY DEF SenderState, SenderGoto

\* The sender at its next file.
LEMMA NextFileType ==
  ASSUME NEW n \in Node, sender \in [Node -> SenderState], NextFile(n)
  PROVE  /\ sender' \in [Node -> SenderState]
         /\ sender'[n].pc = "stat" /\ sender'[n].sent = 0
         /\ \A m \in Node \ {n} : sender'[m] = sender[m]
BY DEF SenderState, NextFile

\* The reader at its next point.
LEMMA ReaderGotoType ==
  ASSUME NEW n \in Node, NEW pc, reader \in [Node -> ReaderState], ReaderGoto(n, pc),
         pc \in {"read", "handle", "confirm", "skip", "ok", "err"}
  PROVE  /\ reader' \in [Node -> ReaderState]
         /\ reader'[n].pc = pc
         /\ reader'[n].cur = reader[n].cur
         /\ reader'[n].held = reader[n].held
         /\ \A m \in Node \ {n} : reader'[m] = reader[m]
BY DEF ReaderState, ReaderGoto

\* The work of a session changes only with the flow file.
LEMMA WorkKept ==
  ASSUME NEW n \in Node, flow'[n] = flow[n], sessions' = sessions
  PROVE  Work(n)' = Work(n)
BY DEF Work

\* What a goroutine holds is its own.
LEMMA SenderPointKept ==
  ASSUME NEW n \in Node, SenderPoint(n), sender'[n] = sender[n], flow'[n] = flow[n],
         sessions' = sessions
  PROVE  SenderPoint(n)'
BY DEF SenderPoint, Current, Work

\* What the reader holds is its own.
LEMMA ReaderPointKept ==
  ASSUME NEW n \in Node, ReaderPoint(n), reader'[n] = reader[n]
  PROVE  ReaderPoint(n)'
BY DEF ReaderPoint

-----------------------------------------------------------------------------
(* Type correctness.                                                       *)

\* NewSession's values have their types.
LEMMA InitType == Init => TypeOK
<1> SUFFICES ASSUME Init PROVE TypeOK
  OBVIOUS
<1>1. chan \in [Node -> Seq(Frame)]
  BY EmptySeq DEF Init
<1>2. /\ disk \in [Node -> SUBSET File]
      /\ flow \in [Node -> BOOLEAN]
      /\ inbox \in [Node -> SUBSET Received]
      /\ sentFileMap \in [Node -> SUBSET Entry]
  BY QueueAssumption DEF Init
<1>3. /\ closed \in [Node -> BOOLEAN]
      /\ reset \in [Node -> BOOLEAN]
      /\ lost \in BOOLEAN
      /\ weSentEOB \in [Node -> BOOLEAN]
      /\ theySentEOB \in [Node -> BOOLEAN]
  BY DEF Init
<1>4. /\ state \in [Node -> {"open", "Finished", "Error", "Crashed"}]
      /\ sessions \in 1 .. MaxSessions
  BY BoundAssumption DEF Init
<1>5. reader \in [Node -> ReaderState] /\ sender \in [Node -> SenderState]
  BY NewType DEF Init
<1>6. ASSUME NEW n \in Node PROVE SenderPoint(n) /\ ReaderPoint(n)
  BY DEF Init, NewReader, NewSender, SenderPoint, ReaderPoint
<1> QED BY <1>1, <1>2, <1>3, <1>4, <1>5, <1>6 DEF TypeOK

\* A step of n's sender leaves the other goroutines alone.
LEMMA SenderStepType ==
  ASSUME TypeOK, NEW n \in Node,
         /\ sender' \in [Node -> SenderState]
         /\ \A m \in Node \ {n} : sender'[m] = sender[m]
         /\ SenderPoint(n)',
         /\ chan' \in [Node -> Seq(Frame)]
         /\ closed' \in [Node -> BOOLEAN]
         /\ reset' \in [Node -> BOOLEAN]
         /\ lost' = lost
         /\ sentFileMap' \in [Node -> SUBSET Entry]
         /\ weSentEOB' \in [Node -> BOOLEAN],
         /\ flow' \in [Node -> BOOLEAN]
         /\ \A m \in Node \ {n} : flow'[m] = flow[m],
         UNCHANGED <<disk, inbox, theySentEOB, reader, state, sessions>>
  PROVE  TypeOK'
<1>1. ASSUME NEW m \in Node PROVE (SenderPoint(m) /\ ReaderPoint(m))'
  <2>1. ReaderPoint(m)'
    BY ReaderPointKept DEF TypeOK
  <2>2. CASE m # n
    BY <2>1, <2>2, SenderPointKept DEF TypeOK
  <2> QED BY <2>1, <2>2
<1> QED BY <1>1 DEF TypeOK

\* A step of n's reader leaves the other goroutines alone.
LEMMA ReaderStepType ==
  ASSUME TypeOK, NEW n \in Node,
         /\ reader' \in [Node -> ReaderState]
         /\ \A m \in Node \ {n} : reader'[m] = reader[m]
         /\ ReaderPoint(n)',
         /\ chan' \in [Node -> Seq(Frame)]
         /\ reset' \in [Node -> BOOLEAN]
         /\ closed' = closed
         /\ lost' = lost,
         /\ disk' \in [Node -> SUBSET File]
         /\ inbox' \in [Node -> SUBSET Received]
         /\ theySentEOB' \in [Node -> BOOLEAN],
         UNCHANGED <<flow, sentFileMap, weSentEOB, sender, state, sessions>>
  PROVE  TypeOK'
<1>1. ASSUME NEW m \in Node PROVE (SenderPoint(m) /\ ReaderPoint(m))'
  <2>1. SenderPoint(m)'
    BY SenderPointKept DEF TypeOK
  <2>2. CASE m # n
    BY <2>1, <2>2, ReaderPointKept DEF TypeOK
  <2> QED BY <2>1, <2>2
<1> QED BY <1>1 DEF TypeOK

\* One step per action.
LEMMA NextType == TypeOK /\ [Next]_vars => TypeOK'
<1> SUFFICES ASSUME TypeOK, [Next]_vars PROVE TypeOK'
  OBVIOUS
<1> USE DEF spoolVars, tcpVars, eobVars
<1>0. CASE UNCHANGED vars
  <2>1. \A n \in Node : (SenderPoint(n) /\ ReaderPoint(n))'
    BY <1>0, SenderPointKept, ReaderPointKept DEF vars, TypeOK
  <2> QED BY <1>0, <2>1 DEF vars, TypeOK
<1> USE DEF SenderAt, ReaderAt
<1>1. ASSUME NEW n \in Node, StatFile(n) PROVE TypeOK'
  <2>1. /\ sender \in [Node -> SenderState] /\ sentFileMap \in [Node -> SUBSET Entry]
        /\ sender[n].sent = 0
    BY <1>1 DEF TypeOK, StatFile, SenderPoint
  <2>2. sender[n].pos <= Len(Work(n))
    BY <1>1 DEF StatFile
  <2>3. Put(sentFileMap[n], Current(n)) \in SUBSET Entry
    BY <2>1, <2>2, CurrentType DEF Put
  <2>4. /\ sentFileMap' \in [Node -> SUBSET Entry]
        /\ sender' \in [Node -> SenderState]
        /\ \A m \in Node \ {n} : sender'[m] = sender[m]
        /\ sender'[n].sent = 0
        /\ \/ sender'[n].pc = "stat"
           \/ sender'[n].pc = "header" /\ sender'[n].pos = sender[n].pos
    <3>1. CASE SenderGoto(n, "header")
               /\ sentFileMap' = [sentFileMap EXCEPT ![n] = Put(@, Current(n))]
      BY <2>1, <2>3, <3>1, SenderGotoType
    <3>2. CASE NextFile(n) /\ UNCHANGED sentFileMap
      BY <2>1, <3>2, NextFileType
    <3> QED BY <1>1, <3>1, <3>2 DEF StatFile
  <2>5. SenderPoint(n)'
    BY <1>1, <2>2, <2>4, WorkKept DEF StatFile, SenderPoint
  <2> QED BY <1>1, <2>4, <2>5, SenderStepType DEF TypeOK, StatFile
<1>2. ASSUME NEW n \in Node, SendHeader(n) PROVE TypeOK'
  <2>1. sender \in [Node -> SenderState] /\ sender[n].pos <= Len(Work(n)) /\ sender[n].sent = 0
    BY <1>2 DEF TypeOK, SenderPoint, SendHeader
  <2>2. [t |-> "FILE", name |-> Current(n).name, size |-> Size[Current(n).file]] \in Frame
    BY <2>1, CurrentType, FileAssumption DEF Entry, Frame
  <2>3. SenderPoint(n)'
    BY <1>2, <2>1, SenderGotoType, WorkKept DEF SendHeader, SenderPoint
  <2> QED BY <1>2, <2>1, <2>2, <2>3, WriteType, SenderGotoType, SenderStepType
      DEF TypeOK, SendHeader
<1>3. ASSUME NEW n \in Node, OpenFile(n) PROVE TypeOK'
  <2>1. sender \in [Node -> SenderState] /\ sender[n].pos <= Len(Work(n)) /\ sender[n].sent = 0
    BY <1>3 DEF TypeOK, SenderPoint, OpenFile
  <2>2. Current(n) \in Entry
    BY <2>1, CurrentType
  <2>3. CASE NextFile(n)
    <3>1. SenderPoint(n)'
      BY <2>1, <2>3, NextFileType DEF SenderPoint
    <3> QED BY <1>3, <2>1, <2>3, <3>1, NextFileType, SenderStepType DEF TypeOK, OpenFile
  <2>4. CASE SenderGoto(n, "data")
    <3>1. SenderPoint(n)'
      <4>1. Work(n)' = Work(n)
        BY <1>3, WorkKept DEF OpenFile
      <4>2. sender'[n].pc = "data" /\ sender'[n].pos = sender[n].pos /\ sender'[n].sent = 0
        BY <2>1, <2>4, SenderGotoType
      <4>3. Current(n)' = Current(n)
        BY <4>1, <4>2 DEF Current
      <4>4. 0 <= Size[Current(n).file]
        BY <2>2, FileAssumption DEF Entry
      <4> QED BY <2>1, <4>1, <4>2, <4>3, <4>4 DEF SenderPoint
    <3> QED BY <1>3, <2>1, <2>4, <3>1, SenderGotoType, SenderStepType DEF TypeOK, OpenFile
  <2> QED BY <1>3, <2>3, <2>4 DEF OpenFile
<1>4. ASSUME NEW n \in Node, SendData(n) PROVE TypeOK'
  <2>1. sender \in [Node -> SenderState] /\ sender[n].pos <= Len(Work(n))
    BY <1>4 DEF TypeOK, SenderPoint, SendData
  <2>2. Current(n) \in Entry
    BY <2>1, CurrentType
  <2>3. [t |-> "DATA", block |-> Current(n).file] \in Frame
    BY <2>2 DEF Entry, Frame
  <2>4. /\ sender' \in [Node -> SenderState]
        /\ sender'[n].pc = "data" /\ sender'[n].pos = sender[n].pos
        /\ sender'[n].sent = sender[n].sent + 1
        /\ \A m \in Node \ {n} : sender'[m] = sender[m]
    BY <1>4, <2>1 DEF SendData, SenderState
  <2>5. SenderPoint(n)'
    <3>1. Work(n)' = Work(n)
      BY <1>4, WorkKept DEF SendData
    <3>2. Current(n)' = Current(n)
      BY <2>4, <3>1 DEF Current
    <3>3. sender[n].sent + 1 <= Size[Current(n).file]
      BY <1>4, <2>1, <2>2, FileAssumption DEF SendData, Entry, SenderState
    <3> QED BY <2>1, <2>4, <3>1, <3>2, <3>3 DEF SenderPoint
  <2> QED BY <1>4, <2>3, <2>4, <2>5, WriteType, SenderStepType DEF TypeOK, SendData
<1>5. ASSUME NEW n \in Node, FileSent(n) PROVE TypeOK'
  <2>1. sender \in [Node -> SenderState]
    BY DEF TypeOK
  <2>2. SenderPoint(n)'
    BY <1>5, <2>1, NextFileType DEF FileSent, SenderPoint
  <2> QED BY <1>5, <2>1, <2>2, NextFileType, SenderStepType DEF TypeOK, FileSent
<1>6. ASSUME NEW n \in Node, RemoveFlow(n) PROVE TypeOK'
  <2>1. sender \in [Node -> SenderState] /\ SenderGoto(n, "eob")
    BY <1>6 DEF TypeOK, RemoveFlow
  <2>2. SenderPoint(n)'
    BY <2>1, SenderGotoType DEF SenderPoint
  <2>3. flow' \in [Node -> BOOLEAN] /\ \A m \in Node \ {n} : flow'[m] = flow[m]
    BY <1>6 DEF TypeOK, RemoveFlow
  <2> QED BY <1>6, <2>1, <2>2, <2>3, SenderGotoType, SenderStepType DEF TypeOK, RemoveFlow
<1>7. ASSUME NEW n \in Node, SendEob(n) \/ SendRefusal(n) PROVE TypeOK'
  <2>1. [t |-> "EOB"] \in Frame
    BY DEF Frame
  <2>2. sender \in [Node -> SenderState] /\ (SenderGoto(n, "flag") \/ SenderGoto(n, "fail"))
    BY <1>7 DEF TypeOK, SendEob, SendRefusal
  <2>3. /\ sender' \in [Node -> SenderState]
        /\ sender'[n].pc \in {"flag", "fail"}
        /\ \A m \in Node \ {n} : sender'[m] = sender[m]
    BY <2>2, SenderGotoType
  <2>4. SenderPoint(n)'
    BY <2>3 DEF SenderPoint
  <2> QED BY <1>7, <2>1, <2>3, <2>4, WriteType, SenderStepType DEF TypeOK, SendEob, SendRefusal
<1>8. ASSUME NEW n \in Node, FlagEob(n) PROVE TypeOK'
  <2>1. sender \in [Node -> SenderState] /\ SenderGoto(n, "done")
    BY <1>8 DEF TypeOK, FlagEob
  <2>2. SenderPoint(n)'
    BY <2>1, SenderGotoType DEF SenderPoint
  <2>3. /\ closed' \in [Node -> BOOLEAN] /\ reset' \in [Node -> BOOLEAN]
        /\ chan' = chan /\ lost' = lost
    BY <1>8, CloseType DEF TypeOK, FlagEob
  <2>4. weSentEOB' \in [Node -> BOOLEAN]
    BY <1>8 DEF TypeOK, FlagEob
  <2> QED BY <1>8, <2>1, <2>2, <2>3, <2>4, SenderGotoType, SenderStepType DEF TypeOK, FlagEob
<1>9. ASSUME NEW n \in Node, SendError(n) PROVE TypeOK'
  <2>1. sender \in [Node -> SenderState] /\ SenderGoto(n, "fail")
    BY <1>9 DEF TypeOK, SendError
  <2>2. SenderPoint(n)'
    BY <2>1, SenderGotoType DEF SenderPoint
  <2> QED BY <1>9, <2>1, <2>2, SenderGotoType, SenderStepType DEF TypeOK, SendError, WriteError
<1>10. ASSUME NEW n \in Node, CloseOnError(n) PROVE TypeOK'
  <2>1. sender \in [Node -> SenderState] /\ SenderGoto(n, "done")
    BY <1>10 DEF TypeOK, CloseOnError
  <2>2. SenderPoint(n)'
    BY <2>1, SenderGotoType DEF SenderPoint
  <2> QED BY <1>10, <2>1, <2>2, CloseType, SenderGotoType, SenderStepType DEF TypeOK, CloseOnError
<1>11. ASSUME NEW n \in Node, ReceiveCommand(n) PROVE TypeOK'
  <2>1. reader \in [Node -> ReaderState] /\ NextFrame(n) \in Frame
    BY <1>11, ReadType DEF TypeOK, ReceiveCommand
  <2>2. /\ reader' \in [Node -> ReaderState]
        /\ reader'[n].pc = "handle" /\ reader'[n].held = NextFrame(n)
        /\ \A m \in Node \ {n} : reader'[m] = reader[m]
    BY <1>11, <2>1 DEF ReceiveCommand, ReaderState
  <2>3. ReaderPoint(n)'
    BY <2>1, <2>2, NoneAssumption DEF ReaderPoint
  <2> QED BY <1>11, <2>2, <2>3, ReadType, ReaderStepType DEF TypeOK, ReceiveCommand
<1>12. ASSUME NEW n \in Node, ReceiveData(n) PROVE TypeOK'
  <2>1. Read(n, {"DATA"}) /\ reader \in [Node -> ReaderState]
    BY <1>12 DEF TypeOK, ReceiveData
  <2>2. /\ NextFrame(n) \in Frame /\ NextFrame(n).t \in {"DATA"}
        /\ chan' \in [Node -> Seq(Frame)]
        /\ closed' = closed /\ reset' = reset /\ lost' = lost
    BY <2>1, ReadType
  <2>3. CASE reader[n].cur = None
    <3>1. reader' = reader
      BY <1>12, <2>3 DEF ReceiveData
    <3>2. ReaderPoint(n)'
      BY <3>1, ReaderPointKept DEF TypeOK
    <3> QED BY <1>12, <2>1, <2>2, <3>1, <3>2, ReaderStepType DEF TypeOK, ReceiveData
  <2>4. CASE reader[n].cur # None
    <3>1. reader[n].cur \in Incoming
      BY <2>1, <2>4 DEF ReaderState
    <3>2. NextFrame(n).block \in File
      BY <2>2 DEF Frame
    <3>3. Append(reader[n].cur.content, NextFrame(n).block) \in Seq(File)
      BY <3>1, <3>2, AppendProperties DEF Incoming
    <3>4. Extended(n) \in Incoming
      BY <3>1, <3>3 DEF Incoming, Extended
    <3>5. CASE ReaderGoto(n, "err")
      <4>1. ReaderPoint(n)'
        BY <2>1, <3>5, ReaderGotoType DEF ReaderPoint
      <4> QED BY <1>12, <2>1, <2>2, <3>5, <4>1, ReaderGotoType, ReaderStepType DEF TypeOK, ReceiveData
    <3>6. CASE ~ReaderGoto(n, "err")
      <4>1. /\ reader' \in [Node -> ReaderState]
            /\ reader'[n].pc \in {"read", "handle"} /\ reader'[n].cur = Extended(n)
            /\ \A m \in Node \ {n} : reader'[m] = reader[m]
        BY <1>12, <2>1, <2>4, <3>4, <3>6 DEF ReceiveData, ReaderState
      <4>2. ReaderPoint(n)'
        BY <3>4, <4>1, NoneAssumption DEF ReaderPoint
      <4> QED BY <1>12, <2>2, <4>1, <4>2, ReaderStepType DEF TypeOK, ReceiveData
    <3> QED BY <3>5, <3>6
  <2> QED BY <2>3, <2>4
<1>13. ASSUME NEW n \in Node, ReceiveGot(n) PROVE TypeOK'
  <2>1. Read(n, {"GOT"})
    BY <1>13 DEF ReceiveGot
  <2>2. disk' \in [Node -> SUBSET File]
    BY <1>13 DEF TypeOK, ReceiveGot
  <2>3. ReaderPoint(n)'
    BY <1>13, ReaderPointKept DEF TypeOK, ReceiveGot
  <2> QED BY <1>13, <2>1, <2>2, <2>3, ReadType, ReaderStepType DEF TypeOK, ReceiveGot
<1>14. ASSUME NEW n \in Node, ReceiveSkip(n) PROVE TypeOK'
  <2>1. Read(n, {"SKIP"})
    BY <1>14 DEF ReceiveSkip
  <2>2. ReaderPoint(n)'
    BY <1>14, ReaderPointKept DEF TypeOK, ReceiveSkip
  <2> QED BY <1>14, <2>1, <2>2, ReadType, ReaderStepType DEF TypeOK, ReceiveSkip
<1>15. ASSUME NEW n \in Node, FinishFile(n) PROVE TypeOK'
  <2>1. reader \in [Node -> ReaderState] /\ reader[n].cur \in Incoming
    BY <1>15 DEF TypeOK, FinishFile, ReaderState
  <2>2. InboxItem(n) \in Received
    BY <2>1 DEF Incoming, Received, InboxItem
  <2>3. inbox' \in [Node -> SUBSET Received]
    <3>1. inbox \in [Node -> SUBSET Received]
      BY DEF TypeOK
    <3>2. Put(inbox[n], InboxItem(n)) \in SUBSET Received
      BY <2>2, <3>1 DEF Put
    <3> QED BY <1>15, <3>1, <3>2 DEF FinishFile
  <2>4. CASE ReaderGoto(n, "confirm")
    <3>1. ReaderPoint(n)'
      BY <1>15, <2>1, <2>4, ReaderGotoType DEF FinishFile, ReaderPoint
    <3> QED BY <1>15, <2>1, <2>3, <2>4, <3>1, ReaderGotoType, ReaderStepType DEF TypeOK, FinishFile
  <2>5. CASE ~ReaderGoto(n, "confirm")
    <3>1. PICK pc \in {AfterFile(n), "err"} :
            reader' = [reader EXCEPT ![n].cur = None, ![n].pc = pc]
      BY <1>15, <2>5 DEF FinishFile
    <3>2. /\ reader' \in [Node -> ReaderState]
          /\ reader'[n].pc \in {AfterFile(n), "err"}
          /\ reader'[n].held = reader[n].held
          /\ \A m \in Node \ {n} : reader'[m] = reader[m]
      BY <2>1, <3>1 DEF ReaderState, AfterFile
    <3>3. ReaderPoint(n)'
      BY <3>2 DEF ReaderPoint, AfterFile
    <3> QED BY <1>15, <2>3, <3>2, <3>3, ReaderStepType DEF TypeOK, FinishFile
  <2> QED BY <2>4, <2>5
<1>16. ASSUME NEW n \in Node, Confirm(n) PROVE TypeOK'
  <2>1. reader \in [Node -> ReaderState] /\ reader[n].cur \in Incoming
    BY <1>16 DEF TypeOK, Confirm, ReaderPoint, ReaderState
  <2>2. [t |-> "GOT", name |-> reader[n].cur.name] \in Frame
    BY <2>1 DEF Incoming, Frame
  <2>3. /\ chan' \in [Node -> Seq(Frame)] /\ reset' \in [Node -> BOOLEAN]
        /\ closed' = closed /\ lost' = lost
    BY <1>16, <2>2, WriteType DEF TypeOK, Confirm, WriteError
  <2>4. /\ reader' \in [Node -> ReaderState]
        /\ reader'[n].pc \in {AfterFile(n), "err"}
        /\ reader'[n].held = reader[n].held
        /\ \A m \in Node \ {n} : reader'[m] = reader[m]
    BY <1>16, <2>1 DEF Confirm, ReaderState, AfterFile
  <2>5. ReaderPoint(n)'
    BY <2>4 DEF ReaderPoint, AfterFile
  <2> QED BY <1>16, <2>3, <2>4, <2>5, ReaderStepType DEF TypeOK, Confirm
<1>17. ASSUME NEW n \in Node, HandleFile(n) PROVE TypeOK'
  <2>1. /\ reader \in [Node -> ReaderState]
        /\ reader[n].held \in Frame /\ reader[n].held.t = "FILE"
    BY <1>17 DEF TypeOK, HandleFile, ReaderPoint, ReaderState
  <2>2. CASE ReaderGoto(n, "skip") \/ ReaderGoto(n, "err")
    <3>1. ReaderPoint(n)'
      BY <2>1, <2>2, NoneAssumption, ReaderGotoType DEF ReaderPoint
    <3> QED BY <1>17, <2>1, <2>2, <3>1, ReaderGotoType, ReaderStepType DEF TypeOK, HandleFile
  <2>3. CASE ~(ReaderGoto(n, "skip") \/ ReaderGoto(n, "err"))
    <3> DEFINE cur == [name |-> reader[n].held.name, size |-> reader[n].held.size, content |-> <<>>]
    <3>1. cur \in Incoming
      BY <2>1, EmptySeq DEF Frame, Incoming
    <3>2. reader' = [reader EXCEPT ![n] = [pc |-> "read", held |-> None, cur |-> cur]]
      BY <1>17, <2>3 DEF HandleFile
    <3>3. /\ reader' \in [Node -> ReaderState] /\ reader'[n].pc = "read"
          /\ \A m \in Node \ {n} : reader'[m] = reader[m]
      BY <2>1, <3>1, <3>2 DEF ReaderState
    <3>4. ReaderPoint(n)'
      BY <3>3 DEF ReaderPoint
    <3> QED BY <1>17, <3>3, <3>4, ReaderStepType DEF TypeOK, HandleFile
  <2> QED BY <2>2, <2>3
<1>18. ASSUME NEW n \in Node, SendSkip(n) PROVE TypeOK'
  <2>1. /\ reader \in [Node -> ReaderState]
        /\ reader[n].held \in Frame /\ reader[n].held.t = "FILE"
    BY <1>18 DEF TypeOK, SendSkip, ReaderPoint, ReaderState
  <2>2. [t |-> "SKIP", name |-> reader[n].held.name] \in Frame
    BY <2>1 DEF Frame
  <2>3. /\ chan' \in [Node -> Seq(Frame)] /\ reset' \in [Node -> BOOLEAN]
        /\ closed' = closed /\ lost' = lost
    BY <1>18, <2>2, WriteType DEF TypeOK, SendSkip, WriteError
  <2>4. /\ reader' \in [Node -> ReaderState] /\ reader'[n].pc = "err"
        /\ \A m \in Node \ {n} : reader'[m] = reader[m]
    BY <1>18, <2>1 DEF SendSkip, ReaderState
  <2>5. ReaderPoint(n)'
    BY <2>4 DEF ReaderPoint
  <2> QED BY <1>18, <2>3, <2>4, <2>5, ReaderStepType DEF TypeOK, SendSkip
<1>19. ASSUME NEW n \in Node, HandleEob(n) PROVE TypeOK'
  <2>1. reader \in [Node -> ReaderState] /\ theySentEOB' \in [Node -> BOOLEAN]
    BY <1>19 DEF TypeOK, HandleEob
  <2>2. /\ reader' \in [Node -> ReaderState] /\ reader'[n].pc \in {"ok", "read"}
        /\ \A m \in Node \ {n} : reader'[m] = reader[m]
    BY <1>19, <2>1 DEF HandleEob, ReaderState
  <2>3. ReaderPoint(n)'
    BY <2>2 DEF ReaderPoint
  <2> QED BY <1>19, <2>1, <2>2, <2>3, ReaderStepType DEF TypeOK, HandleEob
<1>20. ASSUME NEW n \in Node, ReadEnd(n) PROVE TypeOK'
  <2>1. reader \in [Node -> ReaderState] /\ (ReaderGoto(n, "ok") \/ ReaderGoto(n, "err"))
    BY <1>20 DEF TypeOK, ReadEnd
  <2>2. /\ reader' \in [Node -> ReaderState] /\ reader'[n].pc \in {"ok", "err"}
        /\ \A m \in Node \ {n} : reader'[m] = reader[m]
    BY <2>1, ReaderGotoType
  <2>3. ReaderPoint(n)'
    BY <2>2 DEF ReaderPoint
  <2> QED BY <1>20, <2>2, <2>3, ReaderStepType DEF TypeOK, ReadEnd
<1>21. ASSUME NEW n \in Node, EndSession(n) PROVE TypeOK'
  <2>1. \A m \in Node : (SenderPoint(m) /\ ReaderPoint(m))'
    BY <1>21, SenderPointKept, ReaderPointKept DEF TypeOK, EndSession
  <2> QED BY <1>21, <2>1, CloseType DEF TypeOK, EndSession
<1>22. ASSUME NEW n \in Node, Crash(n) PROVE TypeOK'
  <2>1. reader' \in [Node -> ReaderState] /\ sender' \in [Node -> SenderState]
    BY <1>22, NewType DEF TypeOK, Crash
  <2>2. /\ sentFileMap' \in [Node -> SUBSET Entry]
        /\ weSentEOB' \in [Node -> BOOLEAN] /\ theySentEOB' \in [Node -> BOOLEAN]
        /\ state' \in [Node -> {"open", "Finished", "Error", "Crashed"}]
    BY <1>22 DEF TypeOK, Crash
  <2>3. ASSUME NEW m \in Node PROVE (SenderPoint(m) /\ ReaderPoint(m))'
    <3>1. CASE m = n
      BY <1>22, <3>1 DEF TypeOK, Crash, NewReader, NewSender, SenderPoint, ReaderPoint
    <3>2. CASE m # n
      BY <1>22, <3>2, SenderPointKept, ReaderPointKept DEF TypeOK, Crash
    <3> QED BY <3>1, <3>2
  <2> QED BY <1>22, <2>1, <2>2, <2>3, CloseType DEF TypeOK, Crash
<1>23. ASSUME Cut PROVE TypeOK'
  <2>1. PICK kept \in [Node -> 0 .. Window] :
          /\ \A n \in Node : kept[n] <= Len(chan[n])
          /\ chan' = [n \in Node |-> SubSeq(chan[n], 1, kept[n])]
    BY <1>23 DEF Cut
  <2>2. ASSUME NEW n \in Node PROVE SubSeq(chan[n], 1, kept[n]) \in Seq(Frame)
    <3>1. chan[n] \in Seq(Frame) /\ kept[n] \in Nat /\ kept[n] <= Len(chan[n])
      BY <2>1, BoundAssumption DEF TypeOK
    <3>2. \A i \in 1 .. kept[n] : chan[n][i] \in Frame
      BY <3>1, ElementOfSeq, LenProperties
    <3> QED BY <3>1, <3>2, SubSeqProperties
  <2>3. \A m \in Node : (SenderPoint(m) /\ ReaderPoint(m))'
    BY <1>23, SenderPointKept, ReaderPointKept DEF TypeOK, Cut
  <2> QED BY <1>23, <2>1, <2>2, <2>3 DEF TypeOK, Cut
<1>24. ASSUME Redial PROVE TypeOK'
  <2>1. chan' \in [Node -> Seq(Frame)]
    BY <1>24, EmptySeq DEF Redial
  <2>2. reader' \in [Node -> ReaderState] /\ sender' \in [Node -> SenderState]
    BY <1>24, NewType DEF Redial
  <2>3. /\ closed' \in [Node -> BOOLEAN] /\ reset' \in [Node -> BOOLEAN] /\ lost' \in BOOLEAN
        /\ sentFileMap' \in [Node -> SUBSET Entry]
        /\ weSentEOB' \in [Node -> BOOLEAN] /\ theySentEOB' \in [Node -> BOOLEAN]
        /\ state' \in [Node -> {"open", "Finished", "Error", "Crashed"}]
    BY <1>24 DEF Redial
  <2>4. sessions' \in 1 .. MaxSessions
    BY <1>24, BoundAssumption DEF TypeOK, Redial
  <2>5. ASSUME NEW n \in Node PROVE (SenderPoint(n) /\ ReaderPoint(n))'
    BY <1>24 DEF Redial, NewReader, NewSender, SenderPoint, ReaderPoint
  <2> QED BY <1>24, <2>1, <2>2, <2>3, <2>4, <2>5 DEF TypeOK, Redial
<1> QED
  BY <1>0, <1>1, <1>2, <1>3, <1>4, <1>5, <1>6, <1>7, <1>8, <1>9, <1>10, <1>11, <1>12, <1>13,
     <1>14, <1>15, <1>16, <1>17, <1>18, <1>19, <1>20, <1>21, <1>22, <1>23, <1>24
  DEF Next, Sender, Reader, Terminated

\* The variables keep their types, and each goroutine holds what its place in
\* the program needs: sendFile its entry and block count, finishCurrentFile a
\* file, handleFile and handleEOB the frame.
THEOREM TypeCorrect == Spec => []TypeOK
<1> QED BY InitType, NextType, PTL DEF Spec
-----------------------------------------------------------------------------
(* refuse_insecure_sending.                                                *)

\* None of the frames q announces a file.
NoFile(q) == \A i \in 1 .. Len(q) : q[i].t # "FILE"

\* What n has for its peer is where it was, ...
Untouched(n) ==
  /\ disk[n] = Spool[n] /\ flow[n] = (Flow[n] # <<>>)
  /\ sentFileMap[n] = {}
  /\ sender[n].pc \in {"refuse", "fail", "done"}

\* ... and the peer has received none of it.
NotReceived(n) ==
  /\ inbox[Peer[n]] = {}
  /\ reader[Peer[n]].cur = None
  /\ reader[Peer[n]].held # None => reader[Peer[n]].held.t # "FILE"

Waits(n) == Untouched(n) /\ NotReceived(n) /\ NoFile(chan[n])

\* No file is announced by frames that are fewer, ...
LEMMA NoFileTail ==
  ASSUME NEW q \in Seq(Frame), q # <<>>, NoFile(q)
  PROVE  NoFile(Tail(q)) /\ Head(q).t # "FILE"
<1>1. PICK k \in Nat : k = Len(q)
  BY LenProperties
<1>2. k # 0
  BY <1>1, EmptySeq
<1>3. Len(Tail(q)) = k - 1 /\ \A i \in 1 .. Len(Tail(q)) : Tail(q)[i] = q[i + 1]
  BY <1>1, HeadTailProperties
<1>4. \A i \in 1 .. k - 1 : i + 1 \in 1 .. k
  BY <1>1
<1>5. 1 \in 1 .. k /\ Head(q) = q[1]
  BY <1>1, <1>2
<1> QED BY <1>1, <1>3, <1>4, <1>5 DEF NoFile

\* ... or one more of another kind.
LEMMA NoFileAppend ==
  ASSUME NEW q \in Seq(Frame), NEW fr \in Frame, fr.t # "FILE", NoFile(q)
  PROVE  NoFile(Append(q, fr))
<1>1. PICK k \in Nat : k = Len(q)
  BY LenProperties
<1>2. /\ Len(Append(q, fr)) = k + 1 /\ Append(q, fr)[k + 1] = fr
      /\ \A i \in 1 .. k : Append(q, fr)[i] = q[i]
  BY <1>1, AppendProperties
<1>3. \A i \in 1 .. k + 1 : i \in 1 .. k \/ i = k + 1
  BY <1>1
<1> QED BY <1>1, <1>2, <1>3 DEF NoFile

\* Steps of n's peer and of others do not touch n's mail.
LEMMA UntouchedKept ==
  ASSUME NEW n \in Node, Untouched(n), disk'[n] = disk[n], flow'[n] = flow[n],
         sentFileMap'[n] = sentFileMap[n], sender'[n] = sender[n]
  PROVE  Untouched(n)'
BY DEF Untouched

\* Steps of n do not make its peer receive anything.
LEMMA NotReceivedKept ==
  ASSUME NEW n \in Node, NotReceived(n), inbox'[Peer[n]] = inbox[Peer[n]],
         reader'[Peer[n]] = reader[Peer[n]]
  PROVE  NotReceived(n)'
BY DEF NotReceived

\* The senders: that of a refusing node writes M_EOB at most.
LEMMA SenderLeavesMail ==
  ASSUME TypeOK, NEW n \in Refuse, Waits(n), NEW m \in Node, Sender(m)
  PROVE  Waits(n)'
<1> USE DEF spoolVars, tcpVars, eobVars, SenderAt
<1>1. n \in Node /\ Peer[n] \in Node /\ Peer[n] # n
  BY QueueAssumption, PeerAssumption
<1>2. NotReceived(n)'
  <2>1. UNCHANGED <<inbox, reader>>
    BY DEF Sender, StatFile, SendHeader, OpenFile, SendData, FileSent, RemoveFlow, SendEob,
       FlagEob, SendRefusal, SendError, CloseOnError
  <2> QED BY <2>1, NotReceivedKept, <1>1 DEF Waits
<1>3. CASE m # n
  <2>1. disk'[n] = disk[n] /\ flow'[n] = flow[n] /\ sentFileMap'[n] = sentFileMap[n]
    BY <1>1, <1>3 DEF TypeOK, Sender, StatFile, SendHeader, OpenFile, SendData, FileSent,
       RemoveFlow, SendEob, FlagEob, SendRefusal, SendError, CloseOnError
  <2>2. sender'[n] = sender[n]
    BY <1>1, <1>3 DEF TypeOK, Sender, StatFile, SendHeader, OpenFile, SendData, FileSent,
       RemoveFlow, SendEob, FlagEob, SendRefusal, SendError, CloseOnError, SenderGoto, NextFile
  <2>3. chan'[n] = chan[n]
    BY <1>1, <1>3 DEF TypeOK, Sender, StatFile, SendHeader, OpenFile, SendData, FileSent,
       RemoveFlow, SendEob, FlagEob, SendRefusal, SendError, CloseOnError, Write, WriteError,
       Close
  <2> QED BY <1>1, <1>2, <2>1, <2>2, <2>3, UntouchedKept DEF Waits
<1>4. CASE m = n
  <2>1. SendRefusal(n) \/ SendError(n) \/ CloseOnError(n)
    BY <1>4 DEF Waits, Untouched, Sender, StatFile, SendHeader, OpenFile, SendData, FileSent,
       RemoveFlow, SendEob, FlagEob
  <2>2. UNCHANGED <<disk, flow, sentFileMap>>
    BY <2>1 DEF SendRefusal, SendError, CloseOnError
  <2>3. sender'[n].pc \in {"fail", "done"}
    BY <1>1, <2>1, SenderGotoType DEF TypeOK, SendRefusal, SendError, CloseOnError
  <2>4. NoFile(chan'[n])
    <3>1. CASE chan' = chan
      BY <3>1 DEF Waits
    <3>2. CASE Write(n, [t |-> "EOB"])
      <4>1. [t |-> "EOB"] \in Frame
        BY DEF Frame
      <4>2. chan'[n] = chan[n] \/ chan'[n] = Append(chan[n], [t |-> "EOB"])
        BY <1>1, <3>2 DEF TypeOK, Write
      <4> QED BY <1>1, <4>1, <4>2, NoFileAppend DEF TypeOK, Waits
    <3> QED BY <2>1, <3>1, <3>2 DEF SendRefusal, SendError, CloseOnError, WriteError, Close
  <2> QED BY <1>2, <2>2, <2>3, <2>4 DEF Waits, Untouched
<1> QED BY <1>3, <1>4

\* The readers: that of a refusing node has nothing to remove, that of its peer
\* no file to finish.
LEMMA ReaderLeavesMail ==
  ASSUME TypeOK, NEW n \in Refuse, Waits(n), NEW m \in Node, Reader(m)
  PROVE  Waits(n)'
<1> USE DEF spoolVars, tcpVars, eobVars, ReaderAt
<1>1. n \in Node /\ Peer[n] \in Node /\ Peer[n] # n /\ Peer[Peer[n]] = n
  BY QueueAssumption, PeerAssumption
<1>2. UNCHANGED <<flow, sentFileMap, sender>>
  BY DEF Reader, ReceiveCommand, ReceiveData, ReceiveGot, ReceiveSkip, FinishFile, Confirm,
     HandleFile, SendSkip, HandleEob, ReadEnd
<1>3. disk'[n] = disk[n]
  <2>1. CASE ReceiveGot(m)
    <3>1. PICK gone : /\ gone = {e.file : e \in {e \in sentFileMap[m] :
                                                e.name = NextFrame(m).name /\ e.del}}
                      /\ disk' = disk \/ disk' = [disk EXCEPT ![m] = @ \ gone]
      BY <2>1 DEF ReceiveGot
    <3>2. m = n => gone = {}
      BY <3>1 DEF Waits, Untouched
    <3>3. disk \in [Node -> SUBSET File]
      BY DEF TypeOK
    <3>4. CASE m = n
      BY <1>1, <3>1, <3>2, <3>3, <3>4
    <3>5. CASE m # n
      BY <1>1, <3>1, <3>3, <3>5
    <3> QED BY <3>4, <3>5
  <2>2. CASE ~ReceiveGot(m)
    BY <2>2 DEF Reader, ReceiveCommand, ReceiveData, ReceiveSkip, FinishFile, Confirm,
       HandleFile, SendSkip, HandleEob, ReadEnd
  <2> QED BY <2>1, <2>2
<1>4. Untouched(n)'
  BY <1>1, <1>2, <1>3, UntouchedKept DEF Waits
<1>5. CASE m = Peer[n]
  <2>1. /\ reader[m].cur = None /\ (reader[m].held # None => reader[m].held.t # "FILE")
        /\ ReaderPoint(m) /\ m \in Node /\ Peer[m] = n /\ NoFile(chan[n])
        /\ chan[n] \in Seq(Frame)
    BY <1>1, <1>5 DEF Waits, NotReceived, TypeOK
  <2>2. ~FinishFile(m) /\ ~Confirm(m) /\ ~HandleFile(m) /\ ~SendSkip(m)
    BY <2>1 DEF FinishFile, Confirm, HandleFile, SendSkip, ReaderPoint
  <2>3. inbox' = inbox
    BY <2>2 DEF Reader, ReceiveCommand, ReceiveData, ReceiveGot, ReceiveSkip, HandleEob, ReadEnd
  <2>4. NoFile(chan'[n])
    <3>1. chan'[n] = chan[n] \/ (chan[n] # <<>> /\ chan'[n] = Tail(chan[n]))
      BY <1>1, <2>1, <2>2 DEF TypeOK, Reader, ReceiveCommand, ReceiveData, ReceiveGot,
         ReceiveSkip, HandleEob, ReadEnd, Read
    <3> QED BY <2>1, <3>1, NoFileTail
  <2>5. /\ reader'[m].cur = None
        /\ reader'[m].held # None => reader'[m].held.t # "FILE"
    <3>1. CASE ReceiveCommand(m)
      <4>1. NextFrame(m).t # "FILE"
        BY <2>1, <3>1, NoFileTail DEF ReceiveCommand, Read, NextFrame
      <4>2. reader'[m].held = NextFrame(m) /\ reader'[m].cur = reader[m].cur
        BY <2>1, <3>1 DEF ReceiveCommand, TypeOK, ReaderState
      <4> QED BY <2>1, <4>1, <4>2
    <3>2. CASE HandleEob(m)
      BY <2>1, <3>2 DEF HandleEob, TypeOK, ReaderState
    <3>3. CASE ReceiveData(m) \/ ReceiveGot(m) \/ ReceiveSkip(m)
      BY <2>1, <3>3 DEF ReceiveData, ReceiveGot, ReceiveSkip
    <3>4. CASE ReadEnd(m)
      <4>1. PICK pc \in {"ok", "err"} : ReaderGoto(m, pc)
        BY <3>4 DEF ReadEnd
      <4>2. pc \in {"read", "handle", "confirm", "skip", "ok", "err"}
        OBVIOUS
      <4>3. reader'[m].cur = reader[m].cur /\ reader'[m].held = reader[m].held
        BY <2>1, <4>1, <4>2, ReaderGotoType DEF TypeOK
      <4> QED BY <2>1, <4>3
    <3> QED BY <2>2, <3>1, <3>2, <3>3, <3>4 DEF Reader
  <2> QED BY <1>4, <1>5, <2>3, <2>4, <2>5 DEF Waits, NotReceived
<1>6. CASE m # Peer[n]
  <2>1. inbox'[Peer[n]] = inbox[Peer[n]]
    BY <1>1, <1>6 DEF TypeOK, Reader, ReceiveCommand, ReceiveData, ReceiveGot, ReceiveSkip,
       FinishFile, Confirm, HandleFile, SendSkip, HandleEob, ReadEnd
  <2>2. reader'[Peer[n]] = reader[Peer[n]]
    BY <1>1, <1>6 DEF TypeOK, Reader, ReceiveCommand, ReceiveData, ReceiveGot, ReceiveSkip,
       FinishFile, Confirm, HandleFile, SendSkip, HandleEob, ReadEnd, ReaderGoto
  <2>3. NotReceived(n)'
    BY <1>1, <2>1, <2>2, NotReceivedKept DEF Waits
  <2>4. NoFile(chan'[n])
    <3>1. Peer[m] # n
      BY <1>1, <1>6, PeerAssumption
    <3>2. CASE Confirm(m) \/ SendSkip(m)
      <4>1. PICK fr \in Frame : /\ fr.t # "FILE"
                                /\ \/ chan' = chan
                                   \/ chan' = [chan EXCEPT ![m] = Append(@, fr)]
        <5>1. CASE Confirm(m)
          <6>1. reader[m].cur.name \in WireName
            BY <5>1 DEF Confirm, TypeOK, ReaderPoint, ReaderState, Incoming
          <6>2. [t |-> "GOT", name |-> reader[m].cur.name] \in Frame
            BY <6>1 DEF Frame
          <6> QED BY <5>1, <6>2 DEF Confirm, Write, WriteError
        <5>2. CASE SendSkip(m)
          <6>1. reader[m].held.name \in WireName
            BY <5>2 DEF SendSkip, TypeOK, ReaderPoint, ReaderState, Frame
          <6>2. [t |-> "SKIP", name |-> reader[m].held.name] \in Frame
            BY <6>1 DEF Frame
          <6> QED BY <5>2, <6>2 DEF SendSkip, Write, WriteError
        <5> QED BY <3>2, <5>1, <5>2
      <4>2. chan'[n] = chan[n] \/ chan'[n] = Append(chan[n], fr)
        BY <1>1, <4>1 DEF TypeOK
      <4>3. chan[n] \in Seq(Frame) /\ NoFile(chan[n])
        BY <1>1 DEF TypeOK, Waits
      <4> QED BY <4>1, <4>2, <4>3, NoFileAppend
    <3>3. CASE ~(Confirm(m) \/ SendSkip(m))
      <4>1. chan'[n] = chan[n]
        BY <1>1, <3>1, <3>3 DEF TypeOK, Reader, ReceiveCommand, ReceiveData, ReceiveGot,
           ReceiveSkip, FinishFile, HandleFile, HandleEob, ReadEnd, Read
      <4> QED BY <4>1 DEF Waits
    <3> QED BY <3>2, <3>3
  <2> QED BY <1>4, <2>3, <2>4 DEF Waits
<1> QED BY <1>5, <1>6

\* Everything else: ends, crashes, cuts and new sessions.
LEMMA NextLeavesMail ==
  ASSUME TypeOK, NEW n \in Refuse, Waits(n), [Next]_vars
  PROVE  Waits(n)'
<1> USE DEF spoolVars, eobVars
<1>1. n \in Node /\ Peer[n] \in Node
  BY QueueAssumption, PeerAssumption
<1>2. CASE UNCHANGED vars
  BY <1>2 DEF vars, Waits, Untouched, NotReceived
<1>3. ASSUME NEW m \in Node, EndSession(m) PROVE Waits(n)'
  BY <1>3 DEF EndSession, Close, Waits, Untouched, NotReceived
<1>4. ASSUME NEW m \in Node, Crash(m) PROVE Waits(n)'
  <2>1. UNCHANGED <<disk, flow, inbox, chan>>
    BY <1>4 DEF Crash, Close
  <2>2. sentFileMap'[n] = {} /\ (sender'[n] = sender[n] \/ sender'[n].pc = "refuse")
    BY <1>1, <1>4 DEF Crash, TypeOK, Waits, Untouched, NewSender
  <2>3. reader'[Peer[n]] = reader[Peer[n]] \/ reader'[Peer[n]] = NewReader
    BY <1>1, <1>4 DEF Crash, TypeOK
  <2> QED BY <2>1, <2>2, <2>3 DEF Waits, Untouched, NotReceived, NewReader
<1>5. CASE Cut
  <2>1. PICK k \in Nat : k <= Len(chan[n]) /\ chan'[n] = SubSeq(chan[n], 1, k)
    BY <1>1, <1>5 DEF Cut
  <2>2. PICK l \in Nat : l = Len(chan[n])
    BY <1>1, LenProperties DEF TypeOK
  <2>3. Len(chan'[n]) = k /\ \A i \in 1 .. k : chan'[n][i] = chan[n][i]
    BY <1>1, <2>1, <2>2, SubSeqProperties DEF TypeOK
  <2>4. \A i \in 1 .. k : i \in 1 .. l
    BY <2>1, <2>2
  <2>5. NoFile(chan'[n])
    BY <2>2, <2>3, <2>4 DEF Waits, NoFile
  <2> QED BY <1>5, <2>5 DEF Cut, Waits, Untouched, NotReceived
<1>6. CASE Redial
  <2>1. NoFile(chan'[n])
    BY <1>1, <1>6 DEF Redial, NoFile
  <2> QED BY <1>1, <1>6, <2>1 DEF Redial, Waits, Untouched, NotReceived, NewReader, NewSender
<1> QED BY <1>2, <1>3, <1>4, <1>5, <1>6, SenderLeavesMail, ReaderLeavesMail DEF Next, Terminated

\* With refuse_insecure_sending and no link to the peer sendFiles sends nothing,
\* and no handler touches the node's mail, whatever fails and however often the
\* two nodes call each other: packets and flow file wait for a session with a
\* link.
THEOREM RefusalKeeps == Spec => []RefusedMailStays
<1> DEFINE Inv == TypeOK /\ \A n \in Refuse : Waits(n)
<1>1. Init => Inv
  <2> SUFFICES ASSUME Init, NEW n \in Refuse PROVE Waits(n)
    BY InitType
  <2> QED
    BY QueueAssumption, PeerAssumption
    DEF Init, Waits, Untouched, NotReceived, NoFile, NewSender, NewReader
<1>2. Inv /\ [Next]_vars => Inv'
  BY NextType, NextLeavesMail
<1>3. Inv => RefusedMailStays
  BY DEF Waits, Untouched, NotReceived, RefusedMailStays
<1> QED BY <1>1, <1>2, <1>3, PTL DEF Spec

-----------------------------------------------------------------------------
(* Names and places.                                                       *)

\* The files that n sends, in order.
Queue(n) == Netmail[n] \o [i \in 1 .. Len(Flow[n]) |-> Flow[n][i].file]

\* No two of them can have one name on the wire.
DistinctQueues ==
  \A n \in Node : \A i, j \in 1 .. Len(Queue(n)) :
    i # j => NamesOf(Queue(n)[i]) \cap NamesOf(Queue(n)[j]) = {}

\* Those that were there at the start.
Sends(n) == {f \in Spool[n] : \E i \in 1 .. Len(Queue(n)) : f = Queue(n)[i]}

\* A place in a stream of frames: how many blocks are to come of which file.
Place == [file : File \cup {None}, name : WireName \cup {None}, left : Nat]

\* In what follows, P is the set of names whose files are not written out yet.
\* M_FILE fr of n leads to place a.
Announces(n, fr, a, P) ==
  /\ a.file \in Sends(n) /\ a.name = fr.name /\ fr.name \in NamesOf(a.file)
  /\ fr.size = Size[a.file] /\ a.left = fr.size
  /\ a.left = 0 => fr.name \notin P

\* Frame fr of n leads from place a to b.
Leads(n, a, fr, b, P) ==
  /\ fr.t = "FILE" => a.left = 0 /\ Announces(n, fr, b, P)
  /\ fr.t = "DATA" => /\ a.left > 0 /\ fr.block = a.file
                      /\ b = [a EXCEPT !.left = @ - 1]
                      /\ b.left = 0 => a.name \notin P
  /\ fr.t = "EOB" => a.left = 0 /\ b = a
  /\ fr.t \in {"GOT", "SKIP"} => b = a

\* The frames q of n lead from place a to b.
Path(n, q, a, b, P) ==
  \E at \in [0 .. Len(q) -> Place] :
    /\ at[0] = a /\ at[Len(q)] = b
    /\ \A i \in 1 .. Len(q) : Leads(n, at[i - 1], q[i], at[i], P)

\* All of a file of n has been received.
Whole(n, c, P) ==
  /\ \E f \in Sends(n) : c.name \in NamesOf(f) /\ c.content = Content(f)
  /\ c.name \notin P

\* So much of a file of n has been received as place a says.
Begun(n, c, a) ==
  /\ a.file \in Sends(n) /\ c.name = a.name /\ a.name \in NamesOf(a.file)
  /\ c.size = Size[a.file]
  /\ Len(c.content) + a.left = Size[a.file]
  /\ \A i \in 1 .. Len(c.content) : c.content[i] = a.file

\* What reader r of n's stream has at place a: between frames, ...
Reads(n, r, a, P) ==
  r.pc = "read" =>
    /\ r.held = None
    /\ a.left > 0 => r.cur # None /\ Begun(n, r.cur, a)
    /\ a.left = 0 /\ r.cur # None => Whole(n, r.cur, P)

\* ... and with a frame to handle or a file to finish; I are the names in the
\* inbound directory.
Handles(n, r, a, P, I) ==
  /\ r.pc \in {"handle", "confirm"} =>
       /\ r.cur # None => Whole(n, r.cur, P)
       /\ r.held # None => r.held.t \in {"FILE", "EOB"}
       /\ IF r.held # None /\ r.held.t = "FILE" THEN Announces(n, r.held, a, P) ELSE a.left = 0
  /\ r.pc = "confirm" => r.cur.name \in I

\* Sender s, at entry c, is at place a.
Writes(s, c, a) ==
  /\ s.pc \in {"refuse", "stat", "header", "eob"} => a.left = 0
  /\ s.pc \in {"open", "data"} =>
       /\ a.left = Size[c.file] - s.sent
       /\ a.left > 0 => a.file = c.file /\ a.name = c.name

\* Each M_GOT in q names a file in the inbound directory, written out before.
Confirms(q, I, P) ==
  \A i \in 1 .. Len(q) : q[i].t = "GOT" => q[i].name \in I /\ q[i].name \notin P

-----------------------------------------------------------------------------
(* The inductive invariant.                                                *)

\* The items of n's work that are not written out; the one the sender is at is
\* one of them until its last block is.
Unwritten(n) ==
  {i \in 1 .. Len(Work(n)) :
     /\ sender[n].pc \in {"stat", "header", "open", "data"}
     /\ \/ i > sender[n].pos
        \/ /\ i = sender[n].pos
           /\ \/ sender[n].pc \in {"stat", "header"}
              \/ sender[n].sent < Size[Current(n).file]}

\* Their names.
Pending(n) == {x \in WireName : state[n] = "open" /\ \E i \in Unwritten(n) : Work(n)[i].name = x}

\* The names in the inbound directory of n's peer.
NamesIn(n) == {r.name : r \in inbox[Peer[n]]}

ReaderIsAt(n, a) ==
  state[Peer[n]] = "open" =>
    /\ Reads(n, reader[Peer[n]], a, Pending(n))
    /\ Handles(n, reader[Peer[n]], a, Pending(n), NamesIn(n))

\* The sender is where its stream ends, unless nothing that it writes arrives.
SenderIsAt(n, a) == state[n] = "open" /\ ~Dead(n) => Writes(sender[n], Current(n), a)

\* The frames on their way lead from the reader to the sender.
Stream(n) ==
  \E a, b \in Place :
    ReaderIsAt(n, a) /\ Path(n, chan[n], a, b, Pending(n)) /\ SenderIsAt(n, b)

\* What has an M_GOT on its way to n is in the inbound directory.
Gots(n) == Confirms(chan[Peer[n]], NamesIn(n), Pending(n))

\* sentFileMap has files that n sends, under their names.
Entries(n) == \A e \in sentFileMap[n] : e.file \in Sends(n) /\ e.name \in NamesOf(e.file)

\* They are those the sender has begun, and its present one is there until it
\* is written out.
Sending(n) ==
  state[n] = "open" /\ sender[n].pc \in {"stat", "header", "open", "data"} =>
    /\ \A e \in sentFileMap[n] : \E i \in 1 .. Len(Work(n)) :
         e = Work(n)[i] /\ i <= sender[n].pos /\ (sender[n].pc = "stat" => i # sender[n].pos)
    /\ sender[n].pc \in {"header", "open", "data"} => Current(n).file \in Sends(n)
    /\ sender[n].pc \in {"header", "open"} /\ sender[n].pos \in Unwritten(n) =>
         Current(n).file \in disk[n]

\* Files in the inbound directory are whole.
Inbox(n) ==
  \A r \in inbox[Peer[n]] : \E f \in Sends(n) : r.name \in NamesOf(f) /\ r.content = Content(f)

\* Files are removed only when they have arrived.
Kept(n) == disk[n] \subseteq Spool[n] /\ \A f \in Spool[n] \ disk[n] : Arrived(n, f)

Delivery(n) == Kept(n) /\ Inbox(n) /\ Entries(n) /\ Sending(n) /\ Gots(n) /\ Stream(n)

IInv == TypeOK /\ \A n \in Node : Delivery(n)
-----------------------------------------------------------------------------
(* Names and contents.                                                      *)

\* A name tells the file, among those a node sends.
LEMMA SameName ==
  ASSUME DistinctQueues, NEW n \in Node, NEW f \in Sends(n), NEW g \in Sends(n), NEW x,
         x \in NamesOf(f), x \in NamesOf(g)
  PROVE  f = g
BY DEF DistinctQueues, Sends

\* The blocks of a file, one by one.
LEMMA ContentIs ==
  ASSUME NEW f \in File, NEW c \in Seq(File), Len(c) = Size[f],
         \A i \in 1 .. Len(c) : c[i] = f
  PROVE  c = Content(f)
<1>1. Size[f] \in Nat
  BY FileAssumption
<1>2. Content(f) \in [1 .. Size[f] -> File]
  BY DEF Content
<1>3. Content(f) \in Seq(File) /\ Len(Content(f)) = Size[f]
  BY <1>1, <1>2, FunctionIsSeq
<1>4. \A i \in 1 .. Len(c) : c[i] = Content(f)[i]
  BY DEF Content
<1> QED BY <1>3, <1>4, SeqEqual

\* An item of work is a file of the queue, under one of its names.
LEMMA WorkItem ==
  ASSUME TypeOK, NEW n \in Node, NEW i \in 1 .. Len(Work(n))
  PROVE  /\ i \in 1 .. Len(Queue(n)) /\ Work(n)[i].file = Queue(n)[i]
         /\ Work(n)[i].name \in NamesOf(Work(n)[i].file)
         /\ Work(n)[i] \in Entry /\ Len(Work(n)) \in Nat
<1> DEFINE packets == [j \in 1 .. Len(Netmail[n]) |->
             [file |-> Netmail[n][j], name |-> <<Netmail[n][j], sessions>>, del |-> TRUE]]
           lines == [j \in 1 .. Len(Flow[n]) |->
             [file |-> Flow[n][j].file, name |-> NameOf[Flow[n][j].file], del |-> Flow[n][j].del]]
           files == [j \in 1 .. Len(Flow[n]) |-> Flow[n][j].file]
           work == IF flow[n] THEN lines ELSE <<>>
<1>1. sessions \in 1 .. MaxSessions
  BY DEF TypeOK
<1>2. Netmail[n] \in Seq(File) /\ Flow[n] \in Seq(FlowLine)
  BY QueueAssumption
<1>3. Len(Netmail[n]) \in Nat /\ Len(Flow[n]) \in Nat
  BY <1>2, LenProperties
<1>4. /\ \A j \in 1 .. Len(Netmail[n]) : Netmail[n][j] \in File
      /\ \A j \in 1 .. Len(Flow[n]) : Flow[n][j] \in FlowLine
  BY <1>2, ElementOfSeq
<1>5. packets \in Seq(Entry) /\ Len(packets) = Len(Netmail[n])
  BY <1>1, <1>3, <1>4, FunctionIsSeq DEF Entry, WireName, PacketName
<1>6. lines \in Seq(Entry) /\ Len(lines) = Len(Flow[n])
  BY <1>3, <1>4, FileAssumption, FunctionIsSeq DEF Entry, WireName, FlowLine
<1>7. files \in Seq(File) /\ Len(files) = Len(Flow[n])
  BY <1>3, <1>4, FunctionIsSeq DEF FlowLine
<1>8. work \in Seq(Entry) /\ Len(work) <= Len(Flow[n]) /\ Len(work) \in Nat
      /\ \A j \in 1 .. Len(work) : work[j] = lines[j] /\ j <= Len(lines)
  BY <1>3, <1>6, EmptySeq, LenProperties
<1>9. Work(n) = packets \o work /\ Queue(n) = Netmail[n] \o files
  BY DEF Work, Queue
<1>10. /\ \A j \in 1 .. Len(Netmail[n]) :
            packets[j].file = Netmail[n][j] /\ packets[j].name = <<Netmail[n][j], sessions>>
       /\ \A j \in 1 .. Len(Flow[n]) :
            /\ lines[j].file = files[j] /\ files[j] \in File
            /\ lines[j].name = NameOf[files[j]]
  BY <1>4 DEF FlowLine
<1> HIDE DEF packets, lines, files, work
<1>11. /\ Work(n) \in Seq(Entry) /\ Len(Work(n)) = Len(packets) + Len(work)
       /\ Work(n)[i] = IF i <= Len(packets) THEN packets[i] ELSE work[i - Len(packets)]
  <2>1. packets \o work \in Seq(Entry) /\ Len(packets \o work) = Len(packets) + Len(work)
    BY <1>5, <1>8, ConcatProperties
  <2>2. i \in 1 .. Len(packets) + Len(work)
    BY <1>9, <2>1
  <2>3. (packets \o work)[i] = IF i <= Len(packets) THEN packets[i] ELSE work[i - Len(packets)]
    BY <1>5, <1>8, <2>2, ConcatProperties
  <2> QED BY <1>9, <2>1, <2>3
<1>12. Len(Work(n)) \in Nat /\ i \in Nat /\ i >= 1 /\ i <= Len(Work(n)) /\ Work(n)[i] \in Entry
  BY <1>11, LenProperties, ElementOfSeq
<1> DEFINE p == Len(Netmail[n])
           q == Len(Flow[n])
           w == Len(work)
           k == Len(Work(n))
<1>13. /\ p \in Nat /\ q \in Nat /\ w \in Nat /\ w <= q /\ k = p + w
       /\ i \in Nat /\ i >= 1 /\ i <= k /\ Len(files) = q
  BY <1>3, <1>5, <1>7, <1>8, <1>11, <1>12
<1> HIDE DEF p, q, w, k
<1>14. /\ i \in 1 .. Len(Queue(n))
       /\ Queue(n)[i] = IF i <= Len(Netmail[n]) THEN Netmail[n][i] ELSE files[i - Len(Netmail[n])]
  <2>1. Len(Netmail[n] \o files) = Len(Netmail[n]) + Len(files)
    BY <1>2, <1>7, ConcatProperties
  <2>2. i \in 1 .. Len(Netmail[n]) + Len(files)
    <3>1. i \in 1 .. p + q
      BY <1>13
    <3> QED BY <1>13, <3>1 DEF p
  <2>3. (Netmail[n] \o files)[i]
          = IF i <= Len(Netmail[n]) THEN Netmail[n][i] ELSE files[i - Len(Netmail[n])]
    BY <1>2, <1>7, <2>2, ConcatProperties
  <2> QED BY <1>9, <2>1, <2>2, <2>3
<1>15. CASE i <= Len(Netmail[n])
  <2>1. i \in 1 .. Len(Netmail[n])
    BY <1>15, <1>13 DEF p
  <2>2. Work(n)[i] = packets[i] /\ Queue(n)[i] = Netmail[n][i]
    BY <1>5, <1>11, <1>14, <1>15
  <2>3. Netmail[n][i] \in File
    BY <1>4, <2>1
  <2>4. <<Netmail[n][i], sessions>> \in NamesOf(Netmail[n][i])
    BY <1>1 DEF NamesOf
  <2>5. Work(n)[i].file = Netmail[n][i] /\ Work(n)[i].name = <<Netmail[n][i], sessions>>
    BY <1>10, <2>1, <2>2
  <2> QED BY <1>12, <1>14, <2>2, <2>4, <2>5
<1>16. CASE ~(i <= Len(Netmail[n]))
  <2> DEFINE j == i - Len(Netmail[n])
  <2>1. j \in 1 .. Len(work) /\ j \in 1 .. Len(Flow[n])
    <3>1. i - p \in 1 .. w /\ i - p \in 1 .. q
      BY <1>16, <1>13 DEF p
    <3> QED BY <3>1 DEF p, q, w
  <2>2. Work(n)[i] = work[j] /\ Queue(n)[i] = files[j]
    BY <1>5, <1>11, <1>14, <1>16
  <2>3. Work(n)[i] = lines[j]
    BY <1>8, <2>1, <2>2
  <2> QED BY <1>10, <1>12, <1>14, <2>1, <2>2, <2>3 DEF NamesOf
<1> QED BY <1>15, <1>16

\* Different items of work have no name in common, and are different files.
LEMMA WorkDistinct ==
  ASSUME DistinctQueues, TypeOK, NEW n \in Node,
         NEW i \in 1 .. Len(Work(n)), NEW j \in 1 .. Len(Work(n)), i # j
  PROVE  Work(n)[i].name # Work(n)[j].name /\ Work(n)[i].file # Work(n)[j].file
<1>1. /\ i \in 1 .. Len(Queue(n)) /\ Work(n)[i].file = Queue(n)[i]
      /\ Work(n)[i].name \in NamesOf(Work(n)[i].file)
  BY WorkItem
<1>2. /\ j \in 1 .. Len(Queue(n)) /\ Work(n)[j].file = Queue(n)[j]
      /\ Work(n)[j].name \in NamesOf(Work(n)[j].file)
  BY WorkItem
<1>3. NamesOf(Queue(n)[i]) \cap NamesOf(Queue(n)[j]) = {}
  BY <1>1, <1>2 DEF DistinctQueues
<1> QED BY <1>1, <1>2, <1>3

-----------------------------------------------------------------------------
(* Paths.                                                                  *)

\* Fewer names to come: M_FILE leads where it did.
LEMMA AnnouncesLess ==
  ASSUME NEW n, NEW fr, NEW a, NEW P, NEW Q, Q \subseteq P, Announces(n, fr, a, P)
  PROVE  Announces(n, fr, a, Q)
BY DEF Announces

\* So does every frame.
LEMMA LeadsLess ==
  ASSUME NEW n, NEW a, NEW fr, NEW b, NEW P, NEW Q, Q \subseteq P, Leads(n, a, fr, b, P)
  PROVE  Leads(n, a, fr, b, Q)
BY AnnouncesLess DEF Leads

\* So do all together.
LEMMA PathLess ==
  ASSUME NEW n, NEW q, NEW a, NEW b, NEW P, NEW Q, Q \subseteq P, Path(n, q, a, b, P)
  PROVE  Path(n, q, a, b, Q)
<1>1. PICK at \in [0 .. Len(q) -> Place] :
        /\ at[0] = a /\ at[Len(q)] = b
        /\ \A i \in 1 .. Len(q) : Leads(n, at[i - 1], q[i], at[i], P)
  BY DEF Path
<1>2. \A i \in 1 .. Len(q) : Leads(n, at[i - 1], q[i], at[i], Q)
  BY <1>1, LeadsLess
<1> QED BY <1>1, <1>2 DEF Path

\* No frames lead nowhere.
LEMMA PathEmpty ==
  ASSUME NEW n, NEW P, NEW a \in Place
  PROVE  Path(n, <<>>, a, a, P)
<1> DEFINE at == [i \in 0 .. 0 |-> a]
<1>1. Len(<<>>) = 0
  BY EmptySeq
<1>2. at \in [0 .. 0 -> Place] /\ at[0] = a
  OBVIOUS
<1>3. \A i \in 1 .. 0 : FALSE
  OBVIOUS
<1> QED BY <1>1, <1>2, <1>3 DEF Path

\* One more frame.
LEMMA PathAppend ==
  ASSUME NEW n, NEW P, NEW q \in Seq(Frame), NEW fr \in Frame,
         NEW a \in Place, NEW b \in Place, NEW c \in Place,
         Path(n, q, a, b, P), Leads(n, b, fr, c, P)
  PROVE  Path(n, Append(q, fr), a, c, P)
<1>1. PICK at \in [0 .. Len(q) -> Place] :
        /\ at[0] = a /\ at[Len(q)] = b
        /\ \A i \in 1 .. Len(q) : Leads(n, at[i - 1], q[i], at[i], P)
  BY DEF Path
<1>2. PICK k \in Nat : k = Len(q)
  BY LenProperties
<1>3. PICK s : s = Append(q, fr)
  OBVIOUS
<1>4. /\ Len(s) = k + 1 /\ s[k + 1] = fr
      /\ \A i \in 1 .. k : s[i] = q[i]
  BY <1>2, <1>3, AppendProperties
<1> DEFINE to == [i \in 0 .. k + 1 |-> IF i = k + 1 THEN c ELSE at[i]]
<1>5. /\ to \in [0 .. k + 1 -> Place] /\ to[k + 1] = c
      /\ \A i \in 0 .. k : to[i] = at[i]
  BY <1>1, <1>2
<1> HIDE DEF to
<1>6. to[0] = a /\ to[k] = b
  BY <1>1, <1>2, <1>5
<1>7. ASSUME NEW i \in 1 .. k + 1
      PROVE  Leads(n, to[i - 1], s[i], to[i], P)
  <2>1. CASE i = k + 1
    <3>1. i - 1 = k
      BY <2>1, <1>2
    <3> QED BY <1>4, <1>5, <1>6, <2>1, <3>1
  <2>2. CASE i # k + 1
    <3>1. i \in 1 .. k /\ i - 1 \in 0 .. k /\ i \in 0 .. k
      BY <1>2, <2>2
    <3>2. Leads(n, at[i - 1], q[i], at[i], P)
      BY <1>1, <1>2, <3>1
    <3>3. to[i - 1] = at[i - 1] /\ to[i] = at[i] /\ s[i] = q[i]
      BY <1>4, <1>5, <3>1
    <3> QED BY <3>2, <3>3
  <2> QED BY <2>1, <2>2
<1>8. Path(n, s, a, c, P)
  BY <1>4, <1>5, <1>6, <1>7 DEF Path
<1> QED BY <1>3, <1>8

\* The first frame leads to where the others start.
LEMMA PathTail ==
  ASSUME NEW n, NEW P, NEW q \in Seq(Frame), q # <<>>, NEW a, NEW b, Path(n, q, a, b, P)
  PROVE  \E c \in Place : Leads(n, a, Head(q), c, P) /\ Path(n, Tail(q), c, b, P)
<1>1. PICK at \in [0 .. Len(q) -> Place] :
        /\ at[0] = a /\ at[Len(q)] = b
        /\ \A i \in 1 .. Len(q) : Leads(n, at[i - 1], q[i], at[i], P)
  BY DEF Path
<1>2. PICK k \in Nat \ {0} : k = Len(q)
  BY EmptySeq
<1>3. PICK s : s = Tail(q)
  OBVIOUS
<1>4. /\ Len(s) = k - 1 /\ Head(q) = q[1]
      /\ \A i \in 1 .. k - 1 : s[i] = q[i + 1]
  BY <1>2, <1>3, HeadTailProperties
<1> DEFINE to == [i \in 0 .. k - 1 |-> at[i + 1]]
<1>5. /\ to \in [0 .. k - 1 -> Place]
      /\ \A i \in 0 .. k - 1 : to[i] = at[i + 1]
  BY <1>1, <1>2
<1> HIDE DEF to
<1>6. to[0] = at[1] /\ to[k - 1] = b /\ at[1] \in Place /\ at[1 - 1] = a
  <2>1. k - 1 \in 0 .. k - 1 /\ (k - 1) + 1 = k /\ 0 \in 0 .. k - 1 /\ 1 \in 0 .. k /\ 1 - 1 = 0
    BY <1>2
  <2> QED BY <1>1, <1>2, <1>5, <2>1
<1>7. ASSUME NEW i \in 1 .. k - 1
      PROVE  Leads(n, to[i - 1], s[i], to[i], P)
  <2>1. i + 1 \in 1 .. k /\ i - 1 \in 0 .. k - 1 /\ i \in 0 .. k - 1 /\ (i + 1) - 1 = i
        /\ (i - 1) + 1 = i
    BY <1>2
  <2>2. Leads(n, at[(i + 1) - 1], q[i + 1], at[i + 1], P)
    BY <1>1, <1>2, <2>1
  <2>3. to[i - 1] = at[i] /\ to[i] = at[i + 1] /\ s[i] = q[i + 1]
    BY <1>4, <1>5, <2>1
  <2> QED BY <2>1, <2>2, <2>3
<1>8. Path(n, s, at[1], b, P)
  BY <1>4, <1>5, <1>6, <1>7 DEF Path
<1>9. Leads(n, a, Head(q), at[1], P)
  <2>1. 1 \in 1 .. k
    BY <1>2
  <2>2. Leads(n, at[1 - 1], q[1], at[1], P)
    BY <1>1, <1>2, <2>1
  <2> QED BY <1>4, <1>6, <2>2
<1> QED BY <1>3, <1>6, <1>8, <1>9

\* The first frames lead somewhere.
LEMMA PathCut ==
  ASSUME NEW n, NEW P, NEW q \in Seq(Frame), NEW k \in Nat, k <= Len(q),
         NEW a, NEW b, Path(n, q, a, b, P)
  PROVE  \E c \in Place : Path(n, SubSeq(q, 1, k), a, c, P)
<1>1. PICK at \in [0 .. Len(q) -> Place] :
        /\ at[0] = a /\ at[Len(q)] = b
        /\ \A i \in 1 .. Len(q) : Leads(n, at[i - 1], q[i], at[i], P)
  BY DEF Path
<1>2. PICK m \in Nat : m = Len(q)
  BY LenProperties
<1>3. PICK s : s = SubSeq(q, 1, k)
  OBVIOUS
<1>4. Len(s) = k /\ \A i \in 1 .. k : s[i] = q[i]
  <2>1. \A i \in 1 .. k : q[i] \in Frame
    BY <1>2, ElementOfSeq
  <2> QED BY <1>2, <1>3, <2>1, SubSeqProperties
<1> DEFINE to == [i \in 0 .. k |-> at[i]]
<1>5. to \in [0 .. k -> Place] /\ \A i \in 0 .. k : to[i] = at[i]
  BY <1>1, <1>2
<1> HIDE DEF to
<1>6. to[0] = a /\ to[k] \in Place
  BY <1>1, <1>5
<1>7. ASSUME NEW i \in 1 .. k
      PROVE  Leads(n, to[i - 1], s[i], to[i], P)
  <2>1. i - 1 \in 0 .. k /\ i \in 0 .. k /\ i \in 1 .. m
    BY <1>2
  <2>2. Leads(n, at[i - 1], q[i], at[i], P)
    BY <1>1, <1>2, <2>1
  <2>3. to[i - 1] = at[i - 1] /\ to[i] = at[i] /\ s[i] = q[i]
    BY <1>4, <1>5, <2>1
  <2> QED BY <2>2, <2>3
<1>8. Path(n, s, a, to[k], P)
  BY <1>4, <1>5, <1>6, <1>7 DEF Path
<1> QED BY <1>3, <1>6, <1>8

-----------------------------------------------------------------------------
(* Steps that change little.                                               *)

\* Nodes are in pairs.
LEMMA Peers ==
  ASSUME NEW m \in Node, NEW n \in Node
  PROVE  /\ Peer[n] \in Node /\ Peer[n] # n /\ Peer[Peer[n]] = n
         /\ Peer[n] = m <=> n = Peer[m]
BY PeerAssumption

\* A sender that does not move has no more to write.
LEMMA PendingKept ==
  ASSUME NEW n \in Node, sender'[n] = sender[n], flow'[n] = flow[n], sessions' = sessions,
         state'[n] = "open" => state[n] = "open"
  PROVE  Pending(n)' \subseteq Pending(n)
BY DEF Pending, Unwritten, Current, Work

\* With fewer names to come, a reader between frames stays right, ...
LEMMA ReadsLess ==
  ASSUME NEW n, NEW r, NEW a, NEW P, NEW Q, Q \subseteq P, Reads(n, r, a, P)
  PROVE  Reads(n, r, a, Q)
BY DEF Reads, Whole

\* ... and so does one with a frame to handle, with more names in the inbound
\* directory.
LEMMA HandlesLess ==
  ASSUME NEW n, NEW r, NEW a, NEW P, NEW Q, NEW I, NEW J, Q \subseteq P, I \subseteq J,
         Handles(n, r, a, P, I)
  PROVE  Handles(n, r, a, Q, J)
BY AnnouncesLess DEF Handles, Whole

\* A reader that does not move stays where it is in the stream.
LEMMA ReaderStays ==
  ASSUME NEW n \in Node, NEW a, ReaderIsAt(n, a), reader'[Peer[n]] = reader[Peer[n]],
         state'[Peer[n]] = "open" => state[Peer[n]] = "open",
         Pending(n)' \subseteq Pending(n), NamesIn(n) \subseteq NamesIn(n)'
  PROVE  ReaderIsAt(n, a)'
<1>1. ASSUME state'[Peer[n]] = "open"
      PROVE  /\ Reads(n, reader[Peer[n]], a, Pending(n)')
             /\ Handles(n, reader[Peer[n]], a, Pending(n)', NamesIn(n)')
  BY <1>1, ReadsLess, HandlesLess DEF ReaderIsAt
<1> QED BY <1>1 DEF ReaderIsAt

\* So does a sender.
LEMMA SenderStays ==
  ASSUME NEW n \in Node, NEW a, SenderIsAt(n, a), sender'[n] = sender[n],
         flow'[n] = flow[n], sessions' = sessions,
         state'[n] = "open" => state[n] = "open", Dead(n) => Dead(n)'
  PROVE  SenderIsAt(n, a)'
<1>1. Current(n)' = Current(n)
  BY DEF Current, Work
<1> QED BY <1>1 DEF SenderIsAt

\* M_GOTs on their way stay good.
LEMMA ConfirmsLess ==
  ASSUME NEW q, NEW P, NEW Q, NEW I, NEW J, Q \subseteq P, I \subseteq J, Confirms(q, I, P)
  PROVE  Confirms(q, J, Q)
BY DEF Confirms

\* One more M_GOT, for a name that has arrived.
LEMMA ConfirmsAppend ==
  ASSUME NEW q \in Seq(Frame), NEW fr \in Frame, NEW I, NEW P, Confirms(q, I, P),
         fr.t = "GOT" => fr.name \in I /\ fr.name \notin P
  PROVE  Confirms(Append(q, fr), I, P)
<1>1. PICK k \in Nat : k = Len(q)
  BY LenProperties
<1>2. PICK s : s = Append(q, fr)
  OBVIOUS
<1>3. Len(s) = k + 1 /\ s[k + 1] = fr /\ \A i \in 1 .. k : s[i] = q[i]
  BY <1>1, <1>2, AppendProperties
<1>4. ASSUME NEW i \in 1 .. k + 1, s[i].t = "GOT"
      PROVE  s[i].name \in I /\ s[i].name \notin P
  <2>1. CASE i = k + 1
    BY <1>3, <1>4, <2>1
  <2>2. CASE i # k + 1
    <3>1. i \in 1 .. k
      BY <1>1, <2>2
    <3> QED BY <1>1, <1>3, <1>4, <3>1 DEF Confirms
  <2> QED BY <2>1, <2>2
<1>5. Confirms(s, I, P)
  BY <1>3, <1>4 DEF Confirms
<1> QED BY <1>2, <1>5

\* The first M_GOT read.
LEMMA ConfirmsTail ==
  ASSUME NEW q \in Seq(Frame), q # <<>>, NEW I, NEW P, Confirms(q, I, P)
  PROVE  /\ Confirms(Tail(q), I, P)
         /\ Head(q).t = "GOT" => Head(q).name \in I /\ Head(q).name \notin P
<1>1. PICK k \in Nat \ {0} : k = Len(q)
  BY EmptySeq
<1>2. PICK s : s = Tail(q)
  OBVIOUS
<1>3. Len(s) = k - 1 /\ Head(q) = q[1] /\ \A i \in 1 .. k - 1 : s[i] = q[i + 1]
  BY <1>1, <1>2, HeadTailProperties
<1>4. ASSUME NEW i \in 1 .. k - 1, s[i].t = "GOT"
      PROVE  s[i].name \in I /\ s[i].name \notin P
  <2>1. i + 1 \in 1 .. k
    BY <1>1
  <2> QED BY <1>1, <1>3, <1>4, <2>1 DEF Confirms
<1>5. Confirms(s, I, P)
  BY <1>3, <1>4 DEF Confirms
<1>6. 1 \in 1 .. k
  BY <1>1
<1> QED BY <1>1, <1>2, <1>3, <1>5, <1>6 DEF Confirms

\* Some of the last ones lost.
LEMMA ConfirmsCut ==
  ASSUME NEW q \in Seq(Frame), NEW k \in Nat, k <= Len(q), NEW I, NEW P, Confirms(q, I, P)
  PROVE  Confirms(SubSeq(q, 1, k), I, P)
<1>1. PICK m \in Nat : m = Len(q)
  BY LenProperties
<1>2. PICK s : s = SubSeq(q, 1, k)
  OBVIOUS
<1>3. Len(s) = k /\ \A i \in 1 .. k : s[i] = q[i] /\ i \in 1 .. m
  <2>1. \A i \in 1 .. k : q[i] \in Frame
    BY <1>1, ElementOfSeq
  <2> QED BY <1>1, <1>2, <2>1, SubSeqProperties
<1>4. \A i \in 1 .. k : s[i].t = "GOT" => s[i].name \in I /\ s[i].name \notin P
  BY <1>1, <1>3 DEF Confirms
<1> QED BY <1>2, <1>3, <1>4 DEF Confirms

\* Steps of other nodes, and steps that change nothing.
LEMMA Bystander ==
  ASSUME NEW n \in Node, Delivery(n),
         disk'[n] = disk[n], inbox'[Peer[n]] = inbox[Peer[n]],
         chan'[n] = chan[n], chan'[Peer[n]] = chan[Peer[n]],
         sentFileMap'[n] = sentFileMap[n], sender'[n] = sender[n], flow'[n] = flow[n],
         reader'[Peer[n]] = reader[Peer[n]], state'[n] = state[n],
         state'[Peer[n]] = state[Peer[n]], sessions' = sessions, Dead(n) => Dead(n)'
  PROVE  Delivery(n)'
<1>1. NamesIn(n)' = NamesIn(n) /\ Pending(n)' \subseteq Pending(n)
  BY PendingKept DEF NamesIn
<1>2. Kept(n)' /\ Inbox(n)' /\ Entries(n)' /\ Sending(n)'
  <2>1. Kept(n)'
    BY DEF Delivery, Kept, Arrived
  <2>2. Inbox(n)' /\ Entries(n)'
    BY DEF Delivery, Inbox, Entries
  <2>3. Work(n)' = Work(n)
    BY WorkKept
  <2>4. Unwritten(n)' = Unwritten(n) /\ Current(n)' = Current(n)
    BY <2>3 DEF Unwritten, Current
  <2>5. Sending(n)'
    BY <2>3, <2>4 DEF Delivery, Sending
  <2> QED BY <2>1, <2>2, <2>5
<1>3. Gots(n)'
  BY <1>1, ConfirmsLess DEF Delivery, Gots
<1>4. PICK a \in Place, b \in Place :
        ReaderIsAt(n, a) /\ Path(n, chan[n], a, b, Pending(n)) /\ SenderIsAt(n, b)
  BY DEF Delivery, Stream
<1>5. ReaderIsAt(n, a)' /\ SenderIsAt(n, b)'
  BY <1>1, <1>4, ReaderStays, SenderStays
<1>6. Path(n, chan'[n], a, b, Pending(n)')
  BY <1>1, <1>4, PathLess
<1> QED BY <1>2, <1>3, <1>5, <1>6 DEF Delivery, Stream
-----------------------------------------------------------------------------
(* Streams.                                                                *)

\* The stream of n when nothing is written to it or read from it.
LEMMA StreamStays ==
  ASSUME NEW n \in Node, Stream(n), chan'[n] = chan[n], Pending(n)' \subseteq Pending(n),
         \A a \in Place : ReaderIsAt(n, a) => ReaderIsAt(n, a)',
         \A b \in Place : SenderIsAt(n, b) => SenderIsAt(n, b)'
  PROVE  Stream(n)'
<1>1. PICK a \in Place, b \in Place :
        ReaderIsAt(n, a) /\ Path(n, chan[n], a, b, Pending(n)) /\ SenderIsAt(n, b)
  BY DEF Stream
<1>2. Path(n, chan'[n], a, b, Pending(n)')
  BY <1>1, PathLess
<1> QED BY <1>1, <1>2 DEF Stream

\* The stream of n when frame fr is written to it.
LEMMA StreamWritten ==
  ASSUME NEW n \in Node, NEW fr \in Frame, TypeOK, Stream(n), Write(n, fr),
         Pending(n)' \subseteq Pending(n),
         \A a \in Place : ReaderIsAt(n, a) => ReaderIsAt(n, a)',
         \A b \in Place : SenderIsAt(n, b) /\ ~Dead(n) =>
           \E c \in Place : Leads(n, b, fr, c, Pending(n)') /\ SenderIsAt(n, c)'
  PROVE  Stream(n)'
<1>1. PICK a \in Place, b \in Place :
        ReaderIsAt(n, a) /\ Path(n, chan[n], a, b, Pending(n)) /\ SenderIsAt(n, b)
  BY DEF Stream
<1>2. chan \in [Node -> Seq(Frame)] /\ chan[n] \in Seq(Frame)
  BY DEF TypeOK
<1>3. Path(n, chan[n], a, b, Pending(n)')
  BY <1>1, PathLess
<1>4. CASE Dead(n) /\ chan' = chan
  <2>1. Dead(n)'
    BY <1>4 DEF Write, Dead
  <2>2. SenderIsAt(n, b)'
    BY <2>1 DEF SenderIsAt
  <2> QED BY <1>1, <1>3, <1>4, <2>2 DEF Stream
<1>5. CASE ~Dead(n) /\ chan' = [chan EXCEPT ![n] = Append(@, fr)]
  <2>1. PICK c \in Place : Leads(n, b, fr, c, Pending(n)') /\ SenderIsAt(n, c)'
    BY <1>1, <1>5
  <2>2. Path(n, Append(chan[n], fr), a, c, Pending(n)')
    BY <1>2, <1>3, <2>1, PathAppend
  <2>3. chan'[n] = Append(chan[n], fr)
    BY <1>2, <1>5
  <2>4. Path(n, chan'[n], a, c, Pending(n)')
    BY <2>2, <2>3
  <2> QED BY <1>1, <2>1, <2>4 DEF Stream
<1> QED BY <1>4, <1>5 DEF Write

\* The stream of n when its first frame is read.
LEMMA StreamRead ==
  ASSUME NEW n \in Node, TypeOK, Stream(n), chan[n] # <<>>, chan'[n] = Tail(chan[n]),
         Pending(n)' \subseteq Pending(n),
         \A a, c \in Place :
           ReaderIsAt(n, a) /\ Leads(n, a, Head(chan[n]), c, Pending(n)) => ReaderIsAt(n, c)',
         \A b \in Place : SenderIsAt(n, b) => SenderIsAt(n, b)'
  PROVE  Stream(n)'
<1>1. PICK a \in Place, b \in Place :
        ReaderIsAt(n, a) /\ Path(n, chan[n], a, b, Pending(n)) /\ SenderIsAt(n, b)
  BY DEF Stream
<1>2. chan[n] \in Seq(Frame)
  BY DEF TypeOK
<1>3. PICK c \in Place :
        Leads(n, a, Head(chan[n]), c, Pending(n)) /\ Path(n, Tail(chan[n]), c, b, Pending(n))
  BY <1>1, <1>2, PathTail
<1>4. Path(n, chan'[n], c, b, Pending(n)')
  BY <1>3, PathLess
<1> QED BY <1>1, <1>3, <1>4 DEF Stream

-----------------------------------------------------------------------------
(* Steps of the sender.                                                    *)

\* What a step of m's sender leaves of the invariant, for all nodes.
LEMMA SenderStep ==
  ASSUME NEW m \in Node, IInv,
         UNCHANGED <<disk, inbox, lost, reader, state, sessions>>,
         \A k \in Node \ {m} : /\ chan'[k] = chan[k] /\ sender'[k] = sender[k]
                               /\ flow'[k] = flow[k] /\ sentFileMap'[k] = sentFileMap[k],
         \A k \in Node : closed[k] => closed'[k],
         \/ chan'[m] = chan[m]
         \/ \E fr \in Frame : fr.t # "GOT" /\ chan'[m] = Append(chan[m], fr),
         Pending(m)' \subseteq Pending(m), Entries(m)', Sending(m)', Stream(m)'
  PROVE  \A n \in Node : Delivery(n)'
<1> SUFFICES ASSUME NEW n \in Node PROVE Delivery(n)'
  OBVIOUS
<1>1. /\ Peer[n] \in Node /\ Peer[n] # n /\ Peer[Peer[n]] = n
      /\ Delivery(n) /\ TypeOK
  BY Peers DEF IInv
<1>2. /\ NamesIn(n)' = NamesIn(n) /\ Kept(n)' /\ Inbox(n)'
      /\ Dead(n) => Dead(n)'
  BY <1>1 DEF NamesIn, Delivery, Kept, Arrived, Inbox, Dead
<1>3. CASE n = m
  <2>1. chan'[Peer[n]] = chan[Peer[n]]
    BY <1>1, <1>3
  <2>2. Gots(n)'
    BY <1>1, <1>2, <1>3, <2>1, ConfirmsLess DEF Delivery, Gots
  <2> QED BY <1>2, <1>3, <2>2 DEF Delivery
<1>4. CASE n = Peer[m]
  <2>1. Peer[n] = m /\ n # m
    BY <1>4, Peers
  <2>2. Pending(n)' \subseteq Pending(n)
    BY <2>1, PendingKept
  <2>3. Entries(n)' /\ Sending(n)'
    <3>1. Work(n)' = Work(n)
      BY <2>1, WorkKept
    <3>2. Unwritten(n)' = Unwritten(n) /\ Current(n)' = Current(n)
      BY <2>1, <3>1 DEF Unwritten, Current
    <3> QED BY <1>1, <2>1, <3>1, <3>2 DEF Delivery, Entries, Sending
  <2>4. Gots(n)'
    <3>1. Confirms(chan[m], NamesIn(n)', Pending(n)')
      BY <1>1, <1>2, <2>1, <2>2, ConfirmsLess DEF Delivery, Gots
    <3>2. CASE chan'[m] = chan[m]
      BY <2>1, <3>1, <3>2 DEF Gots
    <3>3. ASSUME NEW fr \in Frame, fr.t # "GOT", chan'[m] = Append(chan[m], fr)
          PROVE  Gots(n)'
      <4>1. chan[m] \in Seq(Frame)
        BY <1>1 DEF TypeOK
      <4>2. Confirms(Append(chan[m], fr), NamesIn(n)', Pending(n)')
        BY <3>1, <3>3, <4>1, ConfirmsAppend
      <4> QED BY <2>1, <3>3, <4>2 DEF Gots
    <3> QED BY <3>2, <3>3
  <2>5. Stream(n)'
    <3>1. chan'[n] = chan[n] /\ Stream(n)
      BY <1>1, <2>1 DEF Delivery
    <3>2. \A a \in Place : ReaderIsAt(n, a) => ReaderIsAt(n, a)'
      BY <1>2, <2>2, ReaderStays
    <3>3. \A b \in Place : SenderIsAt(n, b) => SenderIsAt(n, b)'
      BY <1>2, <2>1, SenderStays
    <3> QED BY <2>2, <3>1, <3>2, <3>3, StreamStays
  <2> QED BY <1>2, <2>3, <2>4, <2>5 DEF Delivery
<1>5. CASE n # m /\ n # Peer[m]
  <2>1. Peer[n] # m
    BY <1>5, Peers
  <2> QED BY <1>1, <1>2, <1>5, <2>1, Bystander
<1> QED BY <1>3, <1>4, <1>5

\* A sender that has walked through its work writes no more files.
LEMMA SenderOver ==
  ASSUME NEW m \in Node, sender'[m].pc \in {"eob", "flag", "fail", "done"}
  PROVE  Pending(m)' = {} /\ Sending(m)'
BY DEF Pending, Unwritten, Sending

\* The next file is one of those that were to come.
LEMMA NextFilePending ==
  ASSUME NEW m \in Node, TypeOK, NextFile(m), sender[m].pc \in {"stat", "open", "data"},
         UNCHANGED <<disk, flow, sentFileMap, state, sessions>>, Sending(m)
  PROVE  /\ Pending(m)' \subseteq Pending(m) /\ Sending(m)'
         /\ sender'[m].pc = "stat"
<1>1. Work(m)' = Work(m)
  BY WorkKept
<1>2. /\ sender'[m] = [pc |-> "stat", pos |-> sender[m].pos + 1, sent |-> 0]
      /\ sender[m].pos \in Nat /\ sender'[m].pos \in Nat
  BY DEF TypeOK, SenderState, NextFile
<1>3. Len(Work(m)) \in Nat
  BY WorkType, LenProperties DEF TypeOK
<1>4. \A i \in Unwritten(m)' : i \in Unwritten(m)
  <2>1. \A i \in Unwritten(m)' : i \in 1 .. Len(Work(m)) /\ (i > sender'[m].pos \/ i = sender'[m].pos)
    BY <1>1 DEF Unwritten
  <2>2. \A i \in 1 .. Len(Work(m)) :
          i > sender'[m].pos \/ i = sender'[m].pos => i > sender[m].pos
    BY <1>2, <1>3
  <2> QED BY <2>1, <2>2 DEF Unwritten
<1>5. Pending(m)' \subseteq Pending(m)
  BY <1>1, <1>4 DEF Pending
<1>6. Sending(m)'
  <2>1. CASE state[m] = "open"
    <3>1. \A e \in sentFileMap[m] : \E i \in 1 .. Len(Work(m)) : e = Work(m)[i] /\ i <= sender[m].pos
      BY <2>1 DEF Sending
    <3>2. \A i \in 1 .. Len(Work(m)) : i <= sender[m].pos =>
            i <= sender[m].pos + 1 /\ i # sender[m].pos + 1
      BY <1>2, <1>3
    <3> QED BY <1>1, <1>2, <3>1, <3>2 DEF Sending
  <2>2. CASE state[m] # "open"
    BY <2>2 DEF Sending
  <2> QED BY <2>1, <2>2
<1> QED BY <1>2, <1>5, <1>6

\* A sender that stays at its item has no more to write than before, ...
LEMMA SameItemPending ==
  ASSUME NEW m \in Node, UNCHANGED <<flow, state, sessions>>,
         sender'[m].pos = sender[m].pos, sender[m].pc \in {"stat", "header", "open", "data"},
         sender[m].pos \in Unwritten(m)' => sender[m].pos \in Unwritten(m)
  PROVE  Pending(m)' \subseteq Pending(m) /\ Work(m)' = Work(m) /\ Current(m)' = Current(m)
<1>1. Work(m)' = Work(m)
  BY WorkKept
<1>2. \A i \in Unwritten(m)' : i \in Unwritten(m)
  <2> SUFFICES ASSUME NEW i \in Unwritten(m)', i # sender[m].pos PROVE i \in Unwritten(m)
    OBVIOUS
  <2> QED BY <1>1 DEF Unwritten
<1> QED BY <1>1, <1>2 DEF Pending, Current

\* ... and once the item is written out, its name is no longer to come.
LEMMA ItemWritten ==
  ASSUME NEW m \in Node, DistinctQueues, TypeOK, UNCHANGED <<flow, state, sessions>>,
         sender'[m].pos = sender[m].pos, sender[m].pos \in 1 .. Len(Work(m)),
         sender[m].pos \notin Unwritten(m)'
  PROVE  Current(m).name \notin Pending(m)'
<1>1. Work(m)' = Work(m)
  BY WorkKept
<1>2. \A i \in Unwritten(m)' : i \in 1 .. Len(Work(m)) /\ i # sender[m].pos
  BY <1>1 DEF Unwritten
<1>3. \A i \in Unwritten(m)' : Work(m)[i].name # Current(m).name
  BY <1>2, WorkDistinct DEF Current
<1> QED BY <1>1, <1>3 DEF Pending

\* Where the reader of n's stream is does not depend on what the sender does.
LEMMA SenderLeavesReader ==
  ASSUME NEW n \in Node, UNCHANGED <<inbox, reader, state>>, Pending(n)' \subseteq Pending(n)
  PROVE  \A a \in Place : ReaderIsAt(n, a) => ReaderIsAt(n, a)'
BY ReaderStays DEF NamesIn

\* What write does to the connection.
LEMMA WriteEffect ==
  ASSUME NEW m \in Node, NEW fr \in Frame, TypeOK, Write(m, fr)
  PROVE  /\ \A k \in Node \ {m} : chan'[k] = chan[k]
         /\ chan'[m] = chan[m] \/ chan'[m] = Append(chan[m], fr)
         /\ closed' = closed /\ lost' = lost
         /\ \A k \in Node : Dead(k)' = Dead(k)
BY DEF TypeOK, Write, Dead

\* StatFile: the item is an entry of the map, and still to be written out.
LEMMA StatFileDelivers ==
  ASSUME NEW m \in Node, DistinctQueues, IInv, StatFile(m)
  PROVE  \A n \in Node : Delivery(n)'
<1> USE DEF spoolVars, tcpVars, eobVars, SenderAt
<1>1. TypeOK /\ Delivery(m) /\ sender[m].pc = "stat" /\ state[m] = "open"
      /\ sender \in [Node -> SenderState] /\ sentFileMap \in [Node -> SUBSET Entry]
  BY DEF IInv, StatFile, TypeOK
<1>2. UNCHANGED <<disk, inbox, chan, closed, lost, flow, reader, state, sessions>>
  BY DEF StatFile
<1>3. /\ \A k \in Node \ {m} : sender'[k] = sender[k] /\ sentFileMap'[k] = sentFileMap[k]
      /\ sender'[m].pc \in {"stat", "header"}
  BY <1>1 DEF StatFile, SenderGoto, NextFile, SenderState
<1>4. Pending(m)' \subseteq Pending(m) /\ Entries(m)' /\ Sending(m)'
  <2>1. CASE NextFile(m) /\ sentFileMap' = sentFileMap
    BY <1>1, <1>2, <2>1, NextFilePending DEF Delivery, Entries
  <2>2. CASE /\ Current(m).file \in disk[m]
             /\ sentFileMap' = [sentFileMap EXCEPT ![m] = Put(@, Current(m))]
             /\ SenderGoto(m, "header")
    <3>1. sender'[m].pc = "header" /\ sender'[m].pos = sender[m].pos
      BY <1>1, <2>2, SenderGotoType
    <3>2. sender[m].pos \in 1 .. Len(Work(m))
      <4>1. sender[m].pos <= Len(Work(m)) /\ sender[m].pos \in Nat \ {0}
        BY <1>1 DEF StatFile, SenderState
      <4>2. Len(Work(m)) \in Nat
        BY <1>1, WorkType, LenProperties DEF TypeOK
      <4> QED BY <4>1, <4>2
    <3>3. sender[m].pos \in Unwritten(m)
      BY <1>1, <3>2 DEF Unwritten
    <3>4. Pending(m)' \subseteq Pending(m) /\ Work(m)' = Work(m) /\ Current(m)' = Current(m)
      BY <1>1, <1>2, <3>1, <3>3, SameItemPending
    <3>5. Current(m).file \in Sends(m) /\ Current(m).name \in NamesOf(Current(m).file)
      BY <1>1, <2>2, <3>2, WorkItem DEF Delivery, Kept, Sends, Current
    <3>6. \A e \in sentFileMap'[m] : e = Current(m) \/ e \in sentFileMap[m]
      BY <1>1, <2>2 DEF Put
    <3>7. Entries(m)'
      BY <1>1, <3>5, <3>6 DEF Delivery, Entries
    <3>8. \A e \in sentFileMap'[m] : \E i \in 1 .. Len(Work(m)) : e = Work(m)[i] /\ i <= sender[m].pos
      <4>1. sender[m].pos <= sender[m].pos
        BY <3>2
      <4>2. \A e \in sentFileMap[m] : \E i \in 1 .. Len(Work(m)) : e = Work(m)[i] /\ i <= sender[m].pos
        BY <1>1 DEF Delivery, Sending
      <4> QED BY <3>2, <3>6, <4>1, <4>2 DEF Current
    <3>9. Sending(m)'
      BY <1>2, <2>2, <3>1, <3>4, <3>5, <3>8 DEF Sending
    <3> QED BY <3>4, <3>7, <3>9
  <2> QED BY <2>1, <2>2 DEF StatFile
<1>5. Stream(m)'
  <2>1. \A b \in Place : SenderIsAt(m, b) => SenderIsAt(m, b)'
    BY <1>1, <1>2, <1>3 DEF SenderIsAt, Writes, Dead
  <2> QED BY <1>1, <1>2, <1>4, <2>1, SenderLeavesReader, StreamStays DEF Delivery
<1> QED BY <1>2, <1>3, <1>4, <1>5, SenderStep

\* SendHeader: the stream leads on to the first block of the item.
LEMMA SendHeaderDelivers ==
  ASSUME NEW m \in Node, DistinctQueues, IInv, SendHeader(m)
  PROVE  \A n \in Node : Delivery(n)'
<1> USE DEF spoolVars, eobVars, SenderAt
<1> DEFINE fr == [t |-> "FILE", name |-> Current(m).name, size |-> Size[Current(m).file]]
<1>1. /\ TypeOK /\ Delivery(m) /\ sender[m].pc = "header" /\ state[m] = "open"
      /\ sender \in [Node -> SenderState] /\ sender[m].sent = 0
      /\ sender[m].pos \in 1 .. Len(Work(m))
  <2>1. TypeOK /\ Delivery(m) /\ sender[m].pc = "header" /\ state[m] = "open"
    BY DEF IInv, SendHeader
  <2>2. /\ sender \in [Node -> SenderState] /\ sender[m].sent = 0
        /\ sender[m].pos <= Len(Work(m)) /\ sender[m].pos \in Nat \ {0}
    BY <2>1 DEF TypeOK, SenderPoint, SenderState
  <2>3. Len(Work(m)) \in Nat
    BY <2>1, WorkType, LenProperties DEF TypeOK
  <2> QED BY <2>1, <2>2, <2>3
<1>2. UNCHANGED <<disk, inbox, flow, sentFileMap, reader, state, sessions>>
  BY DEF SendHeader
<1>3. Current(m) \in Entry /\ Size[Current(m).file] \in Nat /\ fr \in Frame
      /\ Current(m).file \in File /\ Current(m).name \in WireName
      /\ Current(m).name \in NamesOf(Current(m).file)
  <2>1. Current(m) \in Entry /\ Current(m).name \in NamesOf(Current(m).file)
    BY <1>1, WorkItem DEF Current
  <2> QED BY <2>1, FileAssumption DEF Entry, Frame
<1> HIDE DEF fr
<1>4. /\ sender'[m].pc = "open" /\ sender'[m].pos = sender[m].pos /\ sender'[m].sent = 0
      /\ \A k \in Node \ {m} : sender'[k] = sender[k]
  BY <1>1, SenderGotoType DEF SendHeader
<1>5. sender[m].pos \in Unwritten(m)
  BY <1>1 DEF Unwritten
<1>6. Pending(m)' \subseteq Pending(m) /\ Work(m)' = Work(m) /\ Current(m)' = Current(m)
  BY <1>1, <1>2, <1>4, <1>5, SameItemPending
<1>7. Entries(m)' /\ Sending(m)'
  BY <1>1, <1>2, <1>4, <1>5, <1>6 DEF Delivery, Entries, Sending
<1>8. Write(m, fr)
  BY DEF SendHeader, fr
<1>9. Stream(m)'
  <2>1. ASSUME NEW b \in Place, SenderIsAt(m, b), ~Dead(m)
        PROVE  \E c \in Place : Leads(m, b, fr, c, Pending(m)') /\ SenderIsAt(m, c)'
    <3>1. PICK c \in Place : c = [file |-> Current(m).file, name |-> Current(m).name,
                                 left |-> Size[Current(m).file]]
      BY <1>3 DEF Place
    <3>2. b.left = 0
      BY <1>1, <2>1 DEF SenderIsAt, Writes
    <3>3. c.left = 0 => Current(m).name \notin Pending(m)'
      <4>1. c.left = 0 => sender[m].pos \notin Unwritten(m)'
        BY <1>4, <1>6, <3>1 DEF Unwritten
      <4> QED BY <1>1, <1>2, <1>4, <4>1, ItemWritten
    <3>4. Current(m).file \in Sends(m)
      BY <1>1 DEF Delivery, Sending
    <3>5. Leads(m, b, fr, c, Pending(m)')
      BY <1>3, <3>1, <3>2, <3>3, <3>4 DEF Leads, Announces, fr
    <3>6. SenderIsAt(m, c)'
      BY <1>3, <1>4, <1>6, <3>1 DEF SenderIsAt, Writes
    <3> QED BY <3>1, <3>5, <3>6
  <2> QED BY <1>1, <1>2, <1>3, <1>6, <1>8, <2>1, SenderLeavesReader, StreamWritten DEF Delivery
<1>10. /\ chan'[m] = chan[m] \/ (fr.t # "GOT" /\ chan'[m] = Append(chan[m], fr))
       /\ lost' = lost /\ closed' = closed
       /\ \A k \in Node \ {m} : chan'[k] = chan[k]
  BY <1>1, <1>3, <1>8, WriteEffect DEF fr
<1> QED BY <1>2, <1>3, <1>4, <1>6, <1>7, <1>9, <1>10, SenderStep

\* The item a sender is at.
LEMMA ItemFacts ==
  ASSUME NEW m \in Node, TypeOK, sender[m].pc \in {"header", "open", "data"}
  PROVE  /\ sender[m].pos \in 1 .. Len(Work(m))
         /\ Current(m) \in Entry /\ Current(m).file \in File /\ Size[Current(m).file] \in Nat
         /\ sender \in [Node -> SenderState] /\ sender[m].sent \in Nat
         /\ sender[m].sent <= Size[Current(m).file]
<1>1. /\ sender[m].pos <= Len(Work(m)) /\ sender[m].pos \in Nat \ {0}
      /\ sender \in [Node -> SenderState] /\ sender[m].sent \in Nat
  BY DEF TypeOK, SenderPoint, SenderState
<1>2. Len(Work(m)) \in Nat
  BY WorkType, LenProperties DEF TypeOK
<1>3. Current(m) \in Entry
  BY <1>1, CurrentType
<1>4. Current(m).file \in File /\ Size[Current(m).file] \in Nat
  BY <1>3, FileAssumption DEF Entry
<1>5. sender[m].sent <= Size[Current(m).file]
  BY <1>1, <1>4 DEF TypeOK, SenderPoint
<1> QED BY <1>1, <1>2, <1>3, <1>4, <1>5

\* OpenFile: a file that is gone by now was empty, and is written out.
LEMMA OpenFileDelivers ==
  ASSUME NEW m \in Node, IInv, OpenFile(m)
  PROVE  \A n \in Node : Delivery(n)'
<1> USE DEF spoolVars, tcpVars, eobVars, SenderAt
<1>1. /\ TypeOK /\ Delivery(m) /\ sender[m].pc = "open" /\ state[m] = "open"
      /\ UNCHANGED <<disk, inbox, chan, closed, lost, flow, sentFileMap, reader, state, sessions>>
  BY DEF IInv, OpenFile
<1>2. /\ sender[m].pos \in 1 .. Len(Work(m)) /\ Size[Current(m).file] \in Nat
      /\ sender \in [Node -> SenderState] /\ sender[m].sent = 0
  BY <1>1, ItemFacts DEF TypeOK, SenderPoint
<1>3. CASE SenderGoto(m, "data")
  <2>1. /\ sender'[m].pc = "data" /\ sender'[m].pos = sender[m].pos /\ sender'[m].sent = 0
        /\ \A k \in Node \ {m} : sender'[k] = sender[k]
    BY <1>2, <1>3, SenderGotoType
  <2>2. sender[m].pos \in Unwritten(m)' => sender[m].pos \in Unwritten(m)
    <3>1. Work(m)' = Work(m)
      BY <1>1, WorkKept
    <3>2. Current(m)' = Current(m)
      BY <2>1, <3>1 DEF Current
    <3> QED BY <1>1, <1>2, <2>1, <3>1, <3>2 DEF Unwritten
  <2>3. Pending(m)' \subseteq Pending(m) /\ Work(m)' = Work(m) /\ Current(m)' = Current(m)
    BY <1>1, <2>1, <2>2, SameItemPending
  <2>4. Entries(m)' /\ Sending(m)'
    BY <1>1, <2>1, <2>3 DEF Delivery, Entries, Sending
  <2>5. \A b \in Place : SenderIsAt(m, b) => SenderIsAt(m, b)'
    BY <1>1, <1>2, <2>1, <2>3 DEF SenderIsAt, Writes, Dead
  <2>6. Stream(m)'
    BY <1>1, <2>3, <2>5, SenderLeavesReader, StreamStays DEF Delivery
  <2> QED BY <1>1, <2>1, <2>3, <2>4, <2>6, SenderStep
<1>4. CASE Current(m).file \notin disk[m] /\ NextFile(m)
  <2>1. Pending(m)' \subseteq Pending(m) /\ Sending(m)' /\ sender'[m].pc = "stat"
    BY <1>1, <1>4, NextFilePending DEF Delivery
  <2>2. Entries(m)' /\ \A k \in Node \ {m} : sender'[k] = sender[k]
    BY <1>1, <1>2, <1>4, NextFileType DEF Delivery, Entries
  <2>3. Size[Current(m).file] = 0
    <3>1. sender[m].pos \notin Unwritten(m)
      BY <1>1, <1>4 DEF Delivery, Sending
    <3> QED BY <1>1, <1>2, <3>1 DEF Unwritten
  <2>4. \A b \in Place : SenderIsAt(m, b) => SenderIsAt(m, b)'
    BY <1>1, <1>2, <2>1, <2>3 DEF SenderIsAt, Writes, Dead
  <2>5. Stream(m)'
    BY <1>1, <2>1, <2>4, SenderLeavesReader, StreamStays DEF Delivery
  <2> QED BY <1>1, <2>1, <2>2, <2>5, SenderStep
<1> QED BY <1>3, <1>4 DEF OpenFile

\* FileSent: on to the next item, from the end of this one.
LEMMA FileSentDelivers ==
  ASSUME NEW m \in Node, IInv, FileSent(m)
  PROVE  \A n \in Node : Delivery(n)'
<1> USE DEF spoolVars, tcpVars, eobVars, SenderAt
<1>1. /\ TypeOK /\ Delivery(m) /\ sender[m].pc = "data" /\ state[m] = "open" /\ NextFile(m)
      /\ sender[m].sent = Size[Current(m).file]
      /\ UNCHANGED <<disk, inbox, chan, closed, lost, flow, sentFileMap, reader, state, sessions>>
  BY DEF IInv, FileSent
<1>2. Pending(m)' \subseteq Pending(m) /\ Sending(m)' /\ sender'[m].pc = "stat"
  BY <1>1, NextFilePending DEF Delivery
<1>3. Entries(m)' /\ \A k \in Node \ {m} : sender'[k] = sender[k]
  BY <1>1, NextFileType DEF Delivery, Entries, TypeOK
<1>4. \A b \in Place : SenderIsAt(m, b) => SenderIsAt(m, b)'
  <2>1. Size[Current(m).file] \in Nat
    BY <1>1, ItemFacts
  <2> QED BY <1>1, <1>2, <2>1 DEF SenderIsAt, Writes, Dead
<1>5. Stream(m)'
  BY <1>1, <1>2, <1>4, SenderLeavesReader, StreamStays DEF Delivery
<1> QED BY <1>1, <1>2, <1>3, <1>5, SenderStep

\* SendData: the stream leads one block further.
LEMMA SendDataDelivers ==
  ASSUME NEW m \in Node, DistinctQueues, IInv, SendData(m)
  PROVE  \A n \in Node : Delivery(n)'
<1> USE DEF spoolVars, eobVars, SenderAt
<1>1. /\ TypeOK /\ Delivery(m) /\ sender[m].pc = "data" /\ state[m] = "open"
      /\ sender[m].sent < Size[Current(m).file]
      /\ UNCHANGED <<disk, inbox, flow, sentFileMap, reader, state, sessions>>
  BY DEF IInv, SendData
<1>2. /\ sender[m].pos \in 1 .. Len(Work(m)) /\ Size[Current(m).file] \in Nat
      /\ sender \in [Node -> SenderState] /\ sender[m].sent \in Nat
      /\ Current(m).file \in File
  BY <1>1, ItemFacts
<1>3. PICK fr \in Frame : fr = [t |-> "DATA", block |-> Current(m).file]
  BY <1>2 DEF Frame
<1>4. /\ sender'[m].pc = "data" /\ sender'[m].pos = sender[m].pos
      /\ sender'[m].sent = sender[m].sent + 1
      /\ \A k \in Node \ {m} : sender'[k] = sender[k]
  BY <1>2 DEF SendData, SenderState
<1>5. sender[m].pos \in Unwritten(m)
  BY <1>1, <1>2 DEF Unwritten
<1>6. Pending(m)' \subseteq Pending(m) /\ Work(m)' = Work(m) /\ Current(m)' = Current(m)
  BY <1>1, <1>4, <1>5, SameItemPending
<1>7. Entries(m)' /\ Sending(m)'
  BY <1>1, <1>4, <1>6 DEF Delivery, Entries, Sending
<1>8. Write(m, fr)
  BY <1>3 DEF SendData
<1>9. Stream(m)'
  <2>1. ASSUME NEW b \in Place, SenderIsAt(m, b), ~Dead(m)
        PROVE  \E c \in Place : Leads(m, b, fr, c, Pending(m)') /\ SenderIsAt(m, c)'
    <3>1. /\ b.left = Size[Current(m).file] - sender[m].sent /\ b.left > 0 /\ b.left \in Nat
          /\ b.file = Current(m).file /\ b.name = Current(m).name
      BY <1>1, <1>2, <2>1 DEF SenderIsAt, Writes
    <3>2. PICK c \in Place : c = [b EXCEPT !.left = @ - 1]
      <4>1. b.left - 1 \in Nat
        BY <3>1
      <4>2. [b EXCEPT !.left = @ - 1] \in Place
        BY <4>1 DEF Place
      <4> QED BY <4>2
    <3>3. /\ c.left = Size[Current(m).file] - (sender[m].sent + 1)
          /\ c.file = Current(m).file /\ c.name = Current(m).name
      BY <1>2, <3>1, <3>2 DEF Place
    <3>4. c.left = 0 => Current(m).name \notin Pending(m)'
      <4>1. c.left = 0 => sender[m].pos \notin Unwritten(m)'
        BY <1>2, <1>4, <1>6, <3>3 DEF Unwritten
      <4> QED BY <1>1, <1>2, <1>4, <4>1, ItemWritten
    <3>5. Leads(m, b, fr, c, Pending(m)')
      BY <1>3, <3>1, <3>2, <3>4 DEF Leads
    <3>6. SenderIsAt(m, c)'
      BY <1>4, <1>6, <3>3 DEF SenderIsAt, Writes
    <3> QED BY <3>5, <3>6
  <2> QED BY <1>1, <1>6, <1>8, <2>1, SenderLeavesReader, StreamWritten DEF Delivery
<1>10. /\ chan'[m] = chan[m] \/ (fr.t # "GOT" /\ chan'[m] = Append(chan[m], fr))
       /\ lost' = lost /\ closed' = closed
       /\ \A k \in Node \ {m} : chan'[k] = chan[k]
  BY <1>1, <1>3, <1>8, WriteEffect
<1> QED BY <1>1, <1>4, <1>6, <1>7, <1>9, <1>10, SenderStep

\* RemoveFlow: nothing was left of the work, whatever becomes of the flow file.
LEMMA RemoveFlowDelivers ==
  ASSUME NEW m \in Node, IInv, RemoveFlow(m)
  PROVE  \A n \in Node : Delivery(n)'
<1> USE DEF spoolVars, tcpVars, eobVars, SenderAt
<1>1. /\ TypeOK /\ Delivery(m) /\ sender[m].pc = "stat" /\ state[m] = "open"
      /\ SenderGoto(m, "eob")
      /\ UNCHANGED <<disk, inbox, chan, closed, lost, sentFileMap, reader, state, sessions>>
      /\ \A k \in Node \ {m} : flow'[k] = flow[k]
  BY DEF IInv, RemoveFlow, TypeOK
<1>2. sender'[m].pc = "eob" /\ \A k \in Node \ {m} : sender'[k] = sender[k]
  BY <1>1, SenderGotoType DEF TypeOK
<1>3. Pending(m)' = {} /\ Sending(m)' /\ Entries(m)'
  BY <1>1, <1>2, SenderOver DEF Delivery, Entries
<1>4. \A b \in Place : SenderIsAt(m, b) => SenderIsAt(m, b)'
  BY <1>1, <1>2 DEF SenderIsAt, Writes, Dead
<1>5. Stream(m)'
  BY <1>1, <1>3, <1>4, SenderLeavesReader, StreamStays DEF Delivery
<1> QED BY <1>1, <1>2, <1>3, <1>5, SenderStep

\* SendEob and SendRefusal: M_EOB is written between files.
LEMMA SendEobDelivers ==
  ASSUME NEW m \in Node, IInv, SendEob(m) \/ SendRefusal(m)
  PROVE  \A n \in Node : Delivery(n)'
<1> USE DEF spoolVars, eobVars, SenderAt
<1>1. PICK fr \in Frame : fr = [t |-> "EOB"]
  BY DEF Frame
<1>2. /\ TypeOK /\ Delivery(m) /\ sender[m].pc \in {"eob", "refuse"} /\ state[m] = "open"
      /\ Write(m, fr) /\ (SenderGoto(m, "flag") \/ SenderGoto(m, "fail"))
      /\ UNCHANGED <<disk, inbox, flow, sentFileMap, reader, state, sessions>>
  BY <1>1 DEF IInv, SendEob, SendRefusal
<1>3. sender'[m].pc \in {"flag", "fail"} /\ \A k \in Node \ {m} : sender'[k] = sender[k]
  BY <1>2, SenderGotoType DEF TypeOK
<1>4. Pending(m)' = {} /\ Sending(m)' /\ Entries(m)'
  BY <1>2, <1>3, SenderOver DEF Delivery, Entries
<1>5. Stream(m)'
  <2>1. ASSUME NEW b \in Place, SenderIsAt(m, b), ~Dead(m)
        PROVE  Leads(m, b, fr, b, Pending(m)') /\ SenderIsAt(m, b)'
    BY <1>1, <1>2, <1>3, <2>1 DEF SenderIsAt, Writes, Leads
  <2> QED BY <1>2, <1>4, <2>1, SenderLeavesReader, StreamWritten DEF Delivery
<1>6. /\ chan'[m] = chan[m] \/ (fr.t # "GOT" /\ chan'[m] = Append(chan[m], fr))
      /\ lost' = lost /\ closed' = closed
      /\ \A k \in Node \ {m} : chan'[k] = chan[k]
  BY <1>1, <1>2, WriteEffect
<1> QED BY <1>2, <1>3, <1>4, <1>5, <1>6, SenderStep

\* Steps in which the sender comes to its end without writing.
LEMMA SenderEnds ==
  ASSUME NEW m \in Node, IInv, FlagEob(m) \/ SendError(m) \/ CloseOnError(m)
  PROVE  \A n \in Node : Delivery(n)'
<1> USE DEF spoolVars, tcpVars, eobVars, SenderAt
<1>1. /\ TypeOK /\ Delivery(m) /\ (SenderGoto(m, "done") \/ SenderGoto(m, "fail"))
      /\ UNCHANGED <<disk, inbox, flow, sentFileMap, reader, state, sessions>>
  BY DEF IInv, FlagEob, SendError, CloseOnError
<1>2. /\ chan' = chan /\ lost' = lost
      /\ \A k \in Node : closed[k] => closed'[k]
  BY DEF FlagEob, SendError, CloseOnError, Close, WriteError, TypeOK, IInv
<1>3. sender'[m].pc \in {"done", "fail"} /\ \A k \in Node \ {m} : sender'[k] = sender[k]
  BY <1>1, SenderGotoType DEF TypeOK
<1>4. Pending(m)' = {} /\ Sending(m)' /\ Entries(m)'
  BY <1>1, <1>3, SenderOver DEF Delivery, Entries
<1>5. Stream(m)'
  <2>1. \A b \in Place : SenderIsAt(m, b)'
    BY <1>3 DEF SenderIsAt, Writes
  <2> QED BY <1>1, <1>2, <1>4, <2>1, SenderLeavesReader, StreamStays DEF Delivery
<1> QED BY <1>1, <1>2, <1>3, <1>4, <1>5, SenderStep

-----------------------------------------------------------------------------
(* Steps of the reader.                                                    *)

\* What a step of m's reader leaves of the invariant, for all nodes.
LEMMA ReaderStep ==
  ASSUME NEW m \in Node, IInv,
         UNCHANGED <<flow, closed, lost, sentFileMap, sender, state, sessions>>,
         \A k \in Node \ {m} : /\ disk'[k] = disk[k] /\ inbox'[k] = inbox[k]
                               /\ reader'[k] = reader[k],
         \A k \in Node \ {m, Peer[m]} : chan'[k] = chan[k],
         Kept(m)', Sending(m)', Gots(m)', Stream(m)',
         Kept(Peer[m])', Inbox(Peer[m])', Gots(Peer[m])', Stream(Peer[m])'
  PROVE  \A n \in Node : Delivery(n)'
<1> SUFFICES ASSUME NEW n \in Node PROVE Delivery(n)'
  OBVIOUS
<1>1. /\ Peer[n] \in Node /\ Peer[n] # n /\ Peer[Peer[n]] = n
      /\ Delivery(n) /\ TypeOK
  BY Peers DEF IInv
<1>2. Entries(n)' /\ Dead(n)' = Dead(n)
  BY <1>1 DEF Delivery, Entries, Dead
<1>3. CASE n = m
  <2>1. Inbox(n)'
    BY <1>1, <1>3 DEF Delivery, Inbox
  <2> QED BY <1>2, <1>3, <2>1 DEF Delivery
<1>4. CASE n = Peer[m]
  <2>1. n # m
    BY <1>4, Peers
  <2>2. Work(n)' = Work(n)
    BY WorkKept
  <2>3. Unwritten(n)' = Unwritten(n) /\ Current(n)' = Current(n)
    BY <2>2 DEF Unwritten, Current
  <2>4. Sending(n)'
    BY <1>1, <2>1, <2>2, <2>3 DEF Delivery, Sending
  <2> QED BY <1>2, <1>4, <2>4 DEF Delivery
<1>5. CASE n # m /\ n # Peer[m]
  <2>1. Peer[n] # m /\ Peer[n] # Peer[m]
    BY <1>5, Peers
  <2> QED BY <1>1, <1>2, <1>5, <2>1, Bystander
<1> QED BY <1>3, <1>4, <1>5

\* m's reader reads a frame.
LEMMA ReaderReads ==
  ASSUME NEW m \in Node, IInv, NEW types, Read(m, types),
         UNCHANGED <<inbox, flow, sentFileMap, sender, state, sessions>>,
         \A k \in Node \ {m} : disk'[k] = disk[k] /\ reader'[k] = reader[k],
         Kept(m)', Sending(m)',
         \A a, c \in Place :
           ReaderIsAt(Peer[m], a) /\ Leads(Peer[m], a, NextFrame(m), c, Pending(Peer[m]))
             => ReaderIsAt(Peer[m], c)'
  PROVE  \A n \in Node : Delivery(n)'
<1>1. PICK p \in Node : p = Peer[m]
  BY Peers
<1>2. p # m /\ Peer[p] = m /\ Delivery(m) /\ Delivery(p) /\ TypeOK
  BY <1>1, Peers DEF IInv
<1>3. /\ chan[p] # <<>> /\ chan'[p] = Tail(chan[p]) /\ chan[p] \in Seq(Frame)
      /\ \A k \in Node \ {p} : chan'[k] = chan[k]
      /\ closed' = closed /\ lost' = lost
  BY <1>1, <1>2 DEF Read, TypeOK
<1>4. \A k \in Node : /\ Pending(k)' \subseteq Pending(k) /\ NamesIn(k)' = NamesIn(k)
                      /\ Dead(k)' = Dead(k)
  BY <1>3, PendingKept DEF NamesIn, Dead
<1>5. \A k \in Node : \A b \in Place : SenderIsAt(k, b) => SenderIsAt(k, b)'
  BY <1>4, SenderStays
<1>6. Gots(m)'
  <2>1. Confirms(Tail(chan[p]), NamesIn(m), Pending(m))
    BY <1>1, <1>2, <1>3, ConfirmsTail DEF Delivery, Gots
  <2> QED BY <1>1, <1>3, <1>4, <2>1, ConfirmsLess DEF Gots
<1>7. Stream(m)'
  <2>1. \A a \in Place : ReaderIsAt(m, a) => ReaderIsAt(m, a)'
    BY <1>1, <1>2, <1>4, ReaderStays
  <2> QED BY <1>2, <1>3, <1>4, <1>5, <2>1, StreamStays DEF Delivery
<1>8. Kept(p)' /\ Inbox(p)'
  BY <1>2 DEF Delivery, Kept, Arrived, Inbox
<1>9. Gots(p)'
  BY <1>2, <1>3, <1>4, ConfirmsLess DEF Delivery, Gots
<1>10. Stream(p)'
  <2>1. \A a, c \in Place :
          ReaderIsAt(p, a) /\ Leads(p, a, Head(chan[p]), c, Pending(p)) => ReaderIsAt(p, c)'
    BY <1>1 DEF NextFrame
  <2> QED BY <1>2, <1>3, <1>4, <1>5, <2>1, StreamRead DEF Delivery
<1> QED BY <1>1, <1>3, <1>6, <1>7, <1>8, <1>9, <1>10, ReaderStep

\* m's reader neither reads nor writes.
LEMMA ReaderMoves ==
  ASSUME NEW m \in Node, IInv,
         UNCHANGED <<disk, flow, chan, closed, lost, sentFileMap, sender, state, sessions>>,
         \A k \in Node \ {m} : inbox'[k] = inbox[k] /\ reader'[k] = reader[k],
         Kept(Peer[m])', Inbox(Peer[m])', NamesIn(Peer[m]) \subseteq NamesIn(Peer[m])',
         \A a \in Place : ReaderIsAt(Peer[m], a) => ReaderIsAt(Peer[m], a)'
  PROVE  \A n \in Node : Delivery(n)'
<1>1. PICK p \in Node : p = Peer[m]
  BY Peers
<1>2. p # m /\ Peer[p] = m /\ Delivery(m) /\ Delivery(p) /\ TypeOK
  BY <1>1, Peers DEF IInv
<1>3. \A k \in Node : Pending(k)' \subseteq Pending(k) /\ Dead(k)' = Dead(k)
  BY PendingKept DEF Dead
<1>4. \A k \in Node : \A b \in Place : SenderIsAt(k, b) => SenderIsAt(k, b)'
  BY <1>3, SenderStays
<1>5. NamesIn(m)' = NamesIn(m)
  BY <1>1, <1>2 DEF NamesIn
<1>6. Kept(m)' /\ Sending(m)' /\ Gots(m)'
  <2>1. Kept(m)'
    BY <1>1, <1>2 DEF Delivery, Kept, Arrived
  <2>2. Work(m)' = Work(m)
    BY WorkKept
  <2>3. Unwritten(m)' = Unwritten(m) /\ Current(m)' = Current(m)
    BY <2>2 DEF Unwritten, Current
  <2>4. Sending(m)'
    BY <1>2, <2>2, <2>3 DEF Delivery, Sending
  <2>5. Gots(m)'
    BY <1>2, <1>3, <1>5, ConfirmsLess DEF Delivery, Gots
  <2> QED BY <2>1, <2>4, <2>5
<1>7. Stream(m)'
  <2>1. \A a \in Place : ReaderIsAt(m, a) => ReaderIsAt(m, a)'
    BY <1>1, <1>2, <1>3, <1>5, ReaderStays
  <2> QED BY <1>2, <1>3, <1>4, <2>1, StreamStays DEF Delivery
<1>8. Gots(p)' /\ Stream(p)'
  BY <1>1, <1>2, <1>3, <1>4, ConfirmsLess, StreamStays DEF Delivery, Gots
<1> QED BY <1>1, <1>6, <1>7, <1>8, ReaderStep

\* m's reader writes a frame.
LEMMA ReaderWrites ==
  ASSUME NEW m \in Node, IInv, NEW fr \in Frame, Write(m, fr), fr.t \in {"GOT", "SKIP"},
         fr.t = "GOT" => fr.name \in NamesIn(Peer[m]) /\ fr.name \notin Pending(Peer[m]),
         UNCHANGED <<disk, inbox, flow, sentFileMap, sender, state, sessions>>,
         \A k \in Node \ {m} : reader'[k] = reader[k],
         \A a \in Place : ReaderIsAt(Peer[m], a) => ReaderIsAt(Peer[m], a)'
  PROVE  \A n \in Node : Delivery(n)'
<1>1. PICK p \in Node : p = Peer[m]
  BY Peers
<1>2. p # m /\ Peer[p] = m /\ Delivery(m) /\ Delivery(p) /\ TypeOK
  BY <1>1, Peers DEF IInv
<1>3. /\ \A k \in Node \ {m} : chan'[k] = chan[k]
      /\ chan'[m] = chan[m] \/ chan'[m] = Append(chan[m], fr)
      /\ closed' = closed /\ lost' = lost
      /\ \A k \in Node : Dead(k)' = Dead(k)
  BY <1>2, WriteEffect
<1>4. \A k \in Node : Pending(k)' \subseteq Pending(k) /\ NamesIn(k)' = NamesIn(k)
  BY PendingKept DEF NamesIn
<1>5. \A k \in Node : \A b \in Place : SenderIsAt(k, b) => SenderIsAt(k, b)'
  BY <1>3, <1>4, SenderStays
<1>6. Kept(m)' /\ Sending(m)' /\ Gots(m)'
  <2>1. Kept(m)'
    BY <1>2 DEF Delivery, Kept, Arrived
  <2>2. Work(m)' = Work(m)
    BY WorkKept
  <2>3. Unwritten(m)' = Unwritten(m) /\ Current(m)' = Current(m)
    BY <2>2 DEF Unwritten, Current
  <2>4. Sending(m)'
    BY <1>2, <2>2, <2>3 DEF Delivery, Sending
  <2>5. Gots(m)'
    BY <1>1, <1>2, <1>3, <1>4, ConfirmsLess DEF Delivery, Gots
  <2> QED BY <2>1, <2>4, <2>5
<1>7. Stream(m)'
  <2>1. \A a \in Place : ReaderIsAt(m, a) => ReaderIsAt(m, a)'
    BY <1>1, <1>2, <1>4, ReaderStays
  <2>2. \A b \in Place : Leads(m, b, fr, b, Pending(m)')
    BY DEF Leads
  <2> QED BY <1>2, <1>4, <1>5, <2>1, <2>2, StreamWritten DEF Delivery
<1>8. Kept(p)' /\ Inbox(p)'
  BY <1>2 DEF Delivery, Kept, Arrived, Inbox
<1>9. Stream(p)'
  BY <1>1, <1>2, <1>3, <1>4, <1>5, StreamStays DEF Delivery
<1>10. Gots(p)'
  <2>1. chan[m] \in Seq(Frame) /\ Confirms(chan[m], NamesIn(p), Pending(p))
    BY <1>2 DEF TypeOK, Delivery, Gots
  <2>2. Confirms(Append(chan[m], fr), NamesIn(p), Pending(p))
    BY <1>1, <2>1, ConfirmsAppend
  <2> QED BY <1>2, <1>3, <1>4, <2>1, <2>2, ConfirmsLess DEF Gots
<1> QED BY <1>1, <1>3, <1>6, <1>7, <1>8, <1>9, <1>10, ReaderStep

\* A reader r that is right for the place a before the frame fr, and s after.
LEMMA CommandRead ==
  ASSUME NEW n \in Node, NEW r, NEW s, NEW fr \in Frame, NEW a \in Place, NEW c \in Place,
         NEW P, NEW I, Reads(n, r, a, P), Leads(n, a, fr, c, P),
         r.pc = "read", fr.t \in {"FILE", "EOB"},
         s.pc = "handle", s.cur = r.cur, s.held = fr
  PROVE  Reads(n, s, c, P) /\ Handles(n, s, c, P, I)
<1>1. fr # None
  BY NoneAssumption
<1>2. a.left = 0 /\ (r.cur # None => Whole(n, r.cur, P))
  BY DEF Leads, Reads
<1>3. IF fr.t = "FILE" THEN Announces(n, fr, c, P) ELSE c.left = 0
  BY <1>2 DEF Leads
<1> QED BY <1>1, <1>2, <1>3 DEF Reads, Handles

\* The block that fr brings is the next one of the file.
LEMMA DataRead ==
  ASSUME NEW n \in Node, NEW r, NEW s, NEW fr \in Frame, NEW a \in Place, NEW c \in Place,
         NEW P, NEW I, Reads(n, r, a, P), Leads(n, a, fr, c, P),
         r.pc = "read", fr.t = "DATA", r.cur \in Incoming \cup {None},
         r.cur # None => s.cur = [r.cur EXCEPT !.content = Append(@, fr.block)],
         s.held = r.held,
         s.pc = IF s.cur.size > 0 /\ Len(s.cur.content) >= s.cur.size THEN "handle" ELSE "read"
  PROVE  r.cur # None /\ Reads(n, s, c, P) /\ Handles(n, s, c, P, I)
<1>1. /\ a.left \in Nat /\ a.left > 0 /\ fr.block = a.file
      /\ c.left \in Nat /\ c.left = a.left - 1 /\ c.file = a.file /\ c.name = a.name
      /\ c.left = 0 => a.name \notin P
  BY DEF Leads, Place
<1>2. /\ r.cur # None /\ r.cur \in Incoming /\ Begun(n, r.cur, a) /\ r.held = None
  BY <1>1 DEF Reads
<1>3. a.file \in Sends(n) /\ a.file \in File
  BY <1>2, QueueAssumption DEF Begun, Sends
<1>4. PICK q \in Seq(File) : q = r.cur.content
  BY <1>2 DEF Incoming
<1>5. PICK x \in Seq(File) : x = Append(q, a.file)
  BY <1>3, AppendProperties
<1>6. /\ Len(q) \in Nat /\ Len(x) = Len(q) + 1
      /\ \A i \in 1 .. Len(x) : x[i] = a.file
  <2>1. PICK k \in Nat : k = Len(q)
    BY LenProperties
  <2>2. /\ Len(x) = k + 1 /\ x[k + 1] = a.file
        /\ \A i \in 1 .. k : x[i] = q[i]
    BY <1>3, <1>5, <2>1, AppendProperties
  <2>3. \A i \in 1 .. k : q[i] = a.file
    BY <1>2, <1>4, <2>1 DEF Begun
  <2>4. \A i \in 1 .. k + 1 : i = k + 1 \/ i \in 1 .. k
    BY <2>1
  <2> QED BY <2>1, <2>2, <2>3, <2>4
<1>7. s.cur = [r.cur EXCEPT !.content = x]
  BY <1>1, <1>2, <1>4, <1>5
<1>8. /\ s.cur.content = x /\ s.cur.name = a.name /\ s.cur.size = Size[a.file]
      /\ s.cur \in Incoming
  BY <1>2, <1>7 DEF Incoming, Begun
<1>9. Size[a.file] = Len(q) + a.left /\ Size[a.file] \in Nat
  BY <1>2, <1>3, <1>4, FileAssumption DEF Begun
<1>10. Begun(n, s.cur, c)
  <2>1. Len(x) + c.left = Size[a.file]
    <3>1. PICK k \in Nat, j \in Nat : k = Len(q) /\ j = a.left
      BY <1>1, <1>6
    <3>2. Len(x) = k + 1
      BY <1>6, <3>1
    <3>3. c.left = j - 1
      BY <1>1, <3>1
    <3>4. Size[a.file] = k + j
      BY <1>9, <3>1
    <3>5. k + 1 + (j - 1) = k + j
      OBVIOUS
    <3> QED BY <3>2, <3>3, <3>4, <3>5
  <2> QED BY <1>1, <1>2, <1>6, <1>8, <2>1 DEF Begun
<1>11. s.cur # None
  BY <1>8, NoneAssumption
<1>12. CASE c.left = 0
  <2>1. Len(x) = Size[a.file] /\ Size[a.file] > 0
    BY <1>1, <1>6, <1>9, <1>12
  <2>2. s.pc = "handle"
    BY <1>8, <2>1, <1>9
  <2>3. x = Content(a.file)
    BY <1>3, <1>6, <2>1, ContentIs
  <2>4. Whole(n, s.cur, P)
    BY <1>1, <1>2, <1>3, <1>8, <1>12, <2>3 DEF Whole, Begun
  <2> QED BY <1>2, <1>12, <2>2, <2>4 DEF Reads, Handles
<1>13. CASE c.left # 0
  <2>1. c.left > 0 /\ Len(x) < Size[a.file]
    BY <1>1, <1>6, <1>9, <1>13
  <2>2. s.pc = "read"
    BY <1>6, <1>8, <1>9, <2>1
  <2> QED BY <1>2, <1>10, <1>11, <2>1, <2>2 DEF Reads, Handles
<1> QED BY <1>2, <1>12, <1>13

\* Between frames M_GOT and M_SKIP change nothing.
LEMMA ReplyRead ==
  ASSUME NEW n, NEW r, NEW a, NEW fr, NEW c, NEW P, NEW I,
         Reads(n, r, a, P), Handles(n, r, a, P, I), Leads(n, a, fr, c, P),
         fr.t \in {"GOT", "SKIP"}
  PROVE  Reads(n, r, c, P) /\ Handles(n, r, c, P, I)
BY DEF Leads

\* The reader of n's stream with r as its state is at place a.
LEMMA ReaderArrives ==
  ASSUME NEW n \in Node, NEW r, NEW a, NEW I, reader'[Peer[n]] = r,
         Reads(n, r, a, Pending(n)), Handles(n, r, a, Pending(n), I),
         Pending(n)' \subseteq Pending(n), I \subseteq NamesIn(n)'
  PROVE  ReaderIsAt(n, a)'
BY ReadsLess, HandlesLess DEF ReaderIsAt

\* What the reader has when it is at its program's point r.pc.
LEMMA ReaderHas ==
  ASSUME NEW m \in Node, NEW p \in Node, p = Peer[m], NEW a, ReaderIsAt(p, a), state[m] = "open"
  PROVE  Reads(p, reader[m], a, Pending(p)) /\ Handles(p, reader[m], a, Pending(p), NamesIn(p))
<1>1. Peer[p] = m
  BY Peers
<1> QED BY <1>1 DEF ReaderIsAt

\* What a node sends stays when its disk does.
LEMMA OwnSideKept ==
  ASSUME NEW m \in Node, Delivery(m),
         UNCHANGED <<disk, inbox, flow, sentFileMap, sender, state, sessions>>
  PROVE  Kept(m)' /\ Sending(m)'
<1>1. Kept(m)'
  BY DEF Delivery, Kept, Arrived
<1>2. Work(m)' = Work(m)
  BY WorkKept
<1>3. Unwritten(m)' = Unwritten(m) /\ Current(m)' = Current(m)
  BY <1>2 DEF Unwritten, Current
<1> QED BY <1>1, <1>2, <1>3 DEF Delivery, Sending

\* ReceiveCommand: the reader holds M_FILE or M_EOB, and the file before it is
\* whole.
LEMMA ReceiveCommandDelivers ==
  ASSUME NEW m \in Node, IInv, ReceiveCommand(m)
  PROVE  \A n \in Node : Delivery(n)'
<1> USE DEF spoolVars, eobVars, ReaderAt
<1>1. PICK p \in Node : p = Peer[m]
  BY Peers
<1>2. /\ p # m /\ Peer[p] = m /\ Delivery(m) /\ TypeOK /\ reader \in [Node -> ReaderState]
      /\ reader[m].pc = "read" /\ state[m] = "open" /\ Read(m, {"FILE", "EOB"})
      /\ UNCHANGED <<disk, inbox, flow, sentFileMap, sender, state, sessions>>
  BY <1>1, Peers DEF IInv, TypeOK, ReceiveCommand
<1>3. NextFrame(m) \in Frame /\ NextFrame(m).t \in {"FILE", "EOB"}
  BY <1>2, ReadType
<1>4. PICK s : s = reader'[m]
  OBVIOUS
<1>5. /\ s.pc = "handle" /\ s.cur = reader[m].cur /\ s.held = NextFrame(m)
      /\ \A k \in Node \ {m} : reader'[k] = reader[k]
  BY <1>2, <1>4 DEF ReceiveCommand, ReaderState
<1>6. ASSUME NEW a \in Place, NEW c \in Place, ReaderIsAt(p, a),
             Leads(p, a, NextFrame(m), c, Pending(p))
      PROVE  ReaderIsAt(p, c)'
  <2>1. Reads(p, reader[m], a, Pending(p))
    BY <1>1, <1>2, <1>6, ReaderHas
  <2>2. Reads(p, s, c, Pending(p)) /\ Handles(p, s, c, Pending(p), NamesIn(p))
    BY <1>2, <1>3, <1>5, <1>6, <2>1, CommandRead
  <2>3. Pending(p)' \subseteq Pending(p) /\ NamesIn(p) \subseteq NamesIn(p)'
    BY <1>2, PendingKept DEF NamesIn
  <2> QED BY <1>2, <1>4, <2>2, <2>3, ReaderArrives
<1>7. Kept(m)' /\ Sending(m)'
  BY <1>2, OwnSideKept
<1> QED BY <1>1, <1>2, <1>5, <1>6, <1>7, ReaderReads

\* ReceiveData: one more block of the file in reception, maybe the last.
LEMMA ReceiveDataDelivers ==
  ASSUME NEW m \in Node, IInv, ReceiveData(m)
  PROVE  \A n \in Node : Delivery(n)'
<1> USE DEF spoolVars, eobVars, ReaderAt
<1>1. PICK p \in Node : p = Peer[m]
  BY Peers
<1>2. /\ p # m /\ Peer[p] = m /\ Delivery(m) /\ TypeOK /\ reader \in [Node -> ReaderState]
      /\ reader[m].pc = "read" /\ state[m] = "open" /\ Read(m, {"DATA"})
      /\ UNCHANGED <<disk, inbox, flow, sentFileMap, sender, state, sessions>>
  BY <1>1, Peers DEF IInv, TypeOK, ReceiveData
<1>3. NextFrame(m) \in Frame /\ NextFrame(m).t = "DATA"
  BY <1>2, ReadType
<1>4. \A k \in Node \ {m} : reader'[k] = reader[k]
  BY <1>2 DEF ReceiveData, ReaderGoto
<1>5. reader[m].cur \in Incoming \cup {None}
  BY <1>2 DEF ReaderState
<1>6. PICK s : s = reader'[m]
  OBVIOUS
<1>7. ASSUME NEW a \in Place, NEW c \in Place, ReaderIsAt(p, a),
             Leads(p, a, NextFrame(m), c, Pending(p))
      PROVE  ReaderIsAt(p, c)'
  <2>1. Reads(p, reader[m], a, Pending(p))
    BY <1>1, <1>2, <1>7, ReaderHas
  <2>2. reader[m].cur # None
    BY <1>2, <1>3, <2>1, <1>7 DEF Leads, Reads
  <2>3. Reads(p, s, c, Pending(p)) /\ Handles(p, s, c, Pending(p), NamesIn(p))
    <3>1. CASE s.pc = "err"
      BY <3>1 DEF Reads, Handles
    <3>2. CASE s.pc # "err"
      <4>1. /\ s.cur = Extended(m) /\ s.held = reader[m].held
            /\ s.pc = IF s.cur.size > 0 /\ Len(s.cur.content) >= s.cur.size
                      THEN "handle" ELSE "read"
        BY <1>2, <1>6, <2>2, <3>2 DEF ReceiveData, ReaderGoto, ReaderState
      <4> QED BY <1>2, <1>3, <1>5, <1>7, <2>1, <4>1, DataRead DEF Extended
    <3> QED BY <3>1, <3>2
  <2>4. Pending(p)' \subseteq Pending(p) /\ NamesIn(p) \subseteq NamesIn(p)'
    BY <1>2, PendingKept DEF NamesIn
  <2> QED BY <1>2, <1>6, <2>3, <2>4, ReaderArrives
<1>8. Kept(m)' /\ Sending(m)'
  BY <1>2, OwnSideKept
<1> QED BY <1>1, <1>2, <1>4, <1>7, <1>8, ReaderReads

\* ReceiveSkip: nothing but the frame is gone.
LEMMA ReceiveSkipDelivers ==
  ASSUME NEW m \in Node, IInv, ReceiveSkip(m)
  PROVE  \A n \in Node : Delivery(n)'
<1> USE DEF spoolVars, eobVars, ReaderAt
<1>1. PICK p \in Node : p = Peer[m]
  BY Peers
<1>2. /\ p # m /\ Peer[p] = m /\ Delivery(m) /\ TypeOK /\ state[m] = "open" /\ Read(m, {"SKIP"})
      /\ UNCHANGED <<disk, inbox, flow, sentFileMap, reader, sender, state, sessions>>
  BY <1>1, Peers DEF IInv, ReceiveSkip
<1>3. NextFrame(m).t = "SKIP"
  BY <1>2, ReadType
<1>4. ASSUME NEW a \in Place, NEW c \in Place, ReaderIsAt(p, a),
             Leads(p, a, NextFrame(m), c, Pending(p))
      PROVE  ReaderIsAt(p, c)'
  <2>1. c = a
    BY <1>3, <1>4 DEF Leads
  <2>2. Pending(p)' \subseteq Pending(p) /\ NamesIn(p) \subseteq NamesIn(p)'
    BY <1>2, PendingKept DEF NamesIn
  <2> QED BY <1>2, <1>4, <2>1, <2>2, ReaderStays
<1>5. Kept(m)' /\ Sending(m)'
  BY <1>2, OwnSideKept
<1> QED BY <1>1, <1>2, <1>4, <1>5, ReaderReads

\* A file that sentFileMap has is what the inbound directory has under its name.
LEMMA EntryArrived ==
  ASSUME NEW m \in Node, DistinctQueues, Delivery(m),
         NEW e \in sentFileMap[m], e.name \in NamesIn(m)
  PROVE  Arrived(m, e.file)
<1>1. PICK r \in inbox[Peer[m]] : r.name = e.name
  BY DEF NamesIn
<1>2. PICK f \in Sends(m) : r.name \in NamesOf(f) /\ r.content = Content(f)
  BY <1>1 DEF Delivery, Inbox
<1>3. e.file \in Sends(m) /\ e.name \in NamesOf(e.file)
  BY DEF Delivery, Entries
<1>4. f = e.file
  BY <1>1, <1>2, <1>3, SameName
<1> QED BY <1>1, <1>2, <1>4 DEF Arrived

\* What M_GOT removes has arrived, and is not the file being sent.
LEMMA ReceiveGotDelivers ==
  ASSUME NEW m \in Node, DistinctQueues, IInv, ReceiveGot(m)
  PROVE  \A n \in Node : Delivery(n)'
<1> USE DEF spoolVars, eobVars, ReaderAt
<1>1. PICK p \in Node : p = Peer[m]
  BY Peers
<1>2. /\ p # m /\ Peer[p] = m /\ Delivery(m) /\ TypeOK /\ state[m] = "open" /\ Read(m, {"GOT"})
      /\ UNCHANGED <<inbox, flow, sentFileMap, reader, sender, state, sessions>>
      /\ \A k \in Node \ {m} : disk'[k] = disk[k]
  BY <1>1, Peers DEF IInv, ReceiveGot, TypeOK
<1>3. NextFrame(m).t = "GOT"
  BY <1>2, ReadType
<1>4. ASSUME NEW a \in Place, NEW c \in Place, ReaderIsAt(p, a),
             Leads(p, a, NextFrame(m), c, Pending(p))
      PROVE  ReaderIsAt(p, c)'
  <2>1. c = a
    BY <1>3, <1>4 DEF Leads
  <2>2. Pending(p)' \subseteq Pending(p) /\ NamesIn(p) \subseteq NamesIn(p)'
    BY <1>2, PendingKept DEF NamesIn
  <2> QED BY <1>2, <1>4, <2>1, <2>2, ReaderStays
<1>5. NextFrame(m).name \in NamesIn(m) /\ NextFrame(m).name \notin Pending(m)
  <2>1. chan[p] \in Seq(Frame) /\ chan[p] # <<>>
    BY <1>1, <1>2 DEF TypeOK, Read
  <2> QED BY <1>1, <1>2, <1>3, <2>1, ConfirmsTail DEF NextFrame, Delivery, Gots
<1>6. /\ disk'[m] \subseteq disk[m]
      /\ \A f \in disk[m] \ disk'[m] : \E e \in sentFileMap[m] : e.name = NextFrame(m).name /\ f = e.file
  BY <1>2 DEF ReceiveGot, TypeOK
<1>7. Kept(m)'
  <2>1. \A f \in Spool[m] \ disk'[m] : Arrived(m, f)
    BY <1>2, <1>5, <1>6, EntryArrived DEF Delivery, Kept
  <2> QED BY <1>2, <1>6, <2>1 DEF Delivery, Kept, Arrived
<1>8. Sending(m)'
  <2>1. Work(m)' = Work(m)
    BY <1>2, WorkKept
  <2>2. Unwritten(m)' = Unwritten(m) /\ Current(m)' = Current(m)
    BY <1>2, <2>1 DEF Unwritten, Current
  <2>3. ASSUME sender[m].pc \in {"header", "open"}, sender[m].pos \in Unwritten(m)
        PROVE  Current(m).file \in disk'[m]
    <3>1. Current(m).file \in disk[m]
      BY <1>2, <2>3 DEF Delivery, Sending
    <3>2. /\ sender[m].pos \in 1 .. Len(Work(m)) /\ Current(m) = Work(m)[sender[m].pos]
          /\ Current(m).name \in Pending(m)
      <4>1. sender[m].pos \in 1 .. Len(Work(m)) /\ Current(m) \in Entry
        BY <1>2, <2>3, ItemFacts
      <4> QED BY <1>2, <2>3, <4>1 DEF Pending, Current, Entry
    <3>3. ASSUME NEW e \in sentFileMap[m], e.name = NextFrame(m).name
          PROVE  e.file # Current(m).file
      <4>1. PICK i \in 1 .. Len(Work(m)) : e = Work(m)[i]
        BY <1>2, <2>3 DEF Delivery, Sending
      <4>2. i # sender[m].pos
        BY <1>5, <3>2, <3>3, <4>1
      <4> QED BY <1>2, <3>2, <4>1, <4>2, WorkDistinct
    <3> QED BY <1>6, <3>1, <3>3
  <2> QED BY <1>2, <2>1, <2>2, <2>3 DEF Delivery, Sending
<1> QED BY <1>1, <1>2, <1>4, <1>7, <1>8, ReaderReads

\* A file that has been received whole.
LEMMA ReceivedWhole ==
  ASSUME NEW m \in Node, NEW p \in Node, p = Peer[m], Delivery(p), state[m] = "open",
         reader[m].pc \in {"handle", "confirm"}, reader[m].cur # None
  PROVE  /\ Whole(p, reader[m].cur, Pending(p))
         /\ reader[m].pc = "confirm" => reader[m].cur.name \in NamesIn(p)
<1>1. PICK a \in Place : ReaderIsAt(p, a)
  BY DEF Delivery, Stream
<1> QED BY <1>1, ReaderHas DEF Handles

\* Renaming it into the inbound directory replaces nothing but itself.
LEMMA PutKeeps ==
  ASSUME NEW m \in Node, NEW p \in Node, p = Peer[m], DistinctQueues, TypeOK, Inbox(p),
         NEW P, Whole(p, reader[m].cur, P)
  PROVE  /\ inbox[m] \subseteq Put(inbox[m], InboxItem(m))
         /\ \A r \in Put(inbox[m], InboxItem(m)) :
              \E f \in Sends(p) : r.name \in NamesOf(f) /\ r.content = Content(f)
<1>1. Peer[p] = m
  BY Peers
<1>2. PICK f \in Sends(p) :
        InboxItem(m).name \in NamesOf(f) /\ InboxItem(m).content = Content(f)
  BY DEF Whole, InboxItem
<1>3. ASSUME NEW r \in inbox[m], r.name = InboxItem(m).name
      PROVE  r = InboxItem(m)
  <2>1. PICK g \in Sends(p) : r.name \in NamesOf(g) /\ r.content = Content(g)
    BY <1>1 DEF Inbox
  <2>2. g = f
    BY <1>2, <1>3, <2>1, SameName
  <2>3. r.content = InboxItem(m).content /\ r \in Received
    BY <1>2, <1>3, <2>1, <2>2 DEF TypeOK
  <2> QED BY <1>3, <2>3 DEF Received, InboxItem
<1> QED BY <1>1, <1>2, <1>3 DEF Put, Inbox

\* FinishFile: a whole file is in the inbound directory, or dropped.
LEMMA FinishFileDelivers ==
  ASSUME NEW m \in Node, DistinctQueues, IInv, FinishFile(m)
  PROVE  \A n \in Node : Delivery(n)'
<1> USE DEF spoolVars, tcpVars, eobVars, ReaderAt
<1>1. PICK p \in Node : p = Peer[m]
  BY Peers
<1>2. /\ p # m /\ Peer[p] = m /\ Delivery(p) /\ TypeOK /\ reader \in [Node -> ReaderState]
      /\ reader[m].pc = "handle" /\ reader[m].cur # None /\ state[m] = "open"
      /\ UNCHANGED <<disk, flow, chan, closed, lost, sentFileMap, sender, state, sessions>>
  BY <1>1, Peers DEF IInv, TypeOK, FinishFile
<1>3. Whole(p, reader[m].cur, Pending(p))
  BY <1>1, <1>2, ReceivedWhole
<1>4. PICK s : s = reader'[m]
  OBVIOUS
<1>5. /\ \/ /\ inbox' = [inbox EXCEPT ![m] = Put(@, InboxItem(m))]
            /\ s.pc = "confirm" /\ s.cur = reader[m].cur /\ s.held = reader[m].held
         \/ /\ inbox' = inbox
            /\ s.pc \in {AfterFile(m), "err"} /\ s.cur = None /\ s.held = reader[m].held
      /\ \A k \in Node \ {m} : reader'[k] = reader[k]
  BY <1>2, <1>4 DEF FinishFile, ReaderGoto, ReaderState
<1>6. /\ \A k \in Node \ {m} : inbox'[k] = inbox[k]
      /\ inbox'[m] = inbox[m] \/ inbox'[m] = Put(inbox[m], InboxItem(m))
  BY <1>2, <1>5 DEF TypeOK
<1>7. inbox[m] \subseteq inbox'[m] /\ Inbox(p)'
  BY <1>1, <1>2, <1>3, <1>6, PutKeeps DEF Delivery, Inbox
<1>8. Kept(p)' /\ NamesIn(p) \subseteq NamesIn(p)'
  BY <1>2, <1>7 DEF Delivery, Kept, Arrived, NamesIn
<1>9. ASSUME NEW a \in Place, ReaderIsAt(p, a)
      PROVE  ReaderIsAt(p, a)'
  <2>1. Handles(p, reader[m], a, Pending(p), NamesIn(p))
    BY <1>1, <1>2, <1>9, ReaderHas
  <2>2. s.pc = "confirm" => s.cur.name \in NamesIn(p)'
    <3>1. ASSUME s.pc = "confirm" PROVE s.cur.name \in NamesIn(p)'
      <4>1. inbox' = [inbox EXCEPT ![m] = Put(@, InboxItem(m))] /\ s.cur = reader[m].cur
        BY <1>5, <3>1 DEF AfterFile
      <4>2. InboxItem(m) \in inbox'[m] /\ InboxItem(m).name = s.cur.name
        BY <1>2, <4>1 DEF TypeOK, Put, InboxItem
      <4> QED BY <1>2, <4>2 DEF NamesIn
    <3> QED BY <3>1
  <2>3. Reads(p, s, a, Pending(p)) /\ Handles(p, s, a, Pending(p), NamesIn(p)')
    BY <1>2, <1>3, <1>5, <2>1, <2>2 DEF Reads, Handles, AfterFile
  <2>4. Pending(p)' \subseteq Pending(p)
    BY <1>2, PendingKept
  <2> QED BY <1>2, <1>4, <2>3, <2>4, ReaderArrives
<1> QED BY <1>1, <1>2, <1>5, <1>6, <1>7, <1>8, <1>9, ReaderMoves

\* Where the reader is after a step that neither reads nor renames.
LEMMA ReaderGoes ==
  ASSUME NEW m \in Node, NEW p \in Node, p = Peer[m], NEW s, s = reader'[m], state[m] = "open",
         UNCHANGED <<inbox, flow, sender, state, sessions>>,
         \A a \in Place :
           Reads(p, reader[m], a, Pending(p)) /\ Handles(p, reader[m], a, Pending(p), NamesIn(p))
             => Reads(p, s, a, Pending(p)) /\ Handles(p, s, a, Pending(p), NamesIn(p))
  PROVE  \A a \in Place : ReaderIsAt(p, a) => ReaderIsAt(p, a)'
<1>1. Peer[p] = m
  BY Peers
<1>2. Pending(p)' \subseteq Pending(p) /\ NamesIn(p) \subseteq NamesIn(p)'
  BY PendingKept DEF NamesIn
<1> QED BY <1>1, <1>2, ReaderHas, ReaderArrives

\* The other node's files stay where they are.
LEMMA OtherSideKept ==
  ASSUME NEW p \in Node, Delivery(p), UNCHANGED <<disk, inbox>>
  PROVE  Kept(p)' /\ Inbox(p)' /\ NamesIn(p)' = NamesIn(p)
BY DEF Delivery, Kept, Arrived, Inbox, NamesIn

\* Confirm: M_GOT names a file in the inbound directory.
LEMMA ConfirmDelivers ==
  ASSUME NEW m \in Node, IInv, Confirm(m)
  PROVE  \A n \in Node : Delivery(n)'
<1> USE DEF spoolVars, tcpVars, eobVars, ReaderAt
<1>1. PICK p \in Node : p = Peer[m]
  BY Peers
<1>2. /\ p # m /\ Peer[p] = m /\ Delivery(p) /\ TypeOK /\ reader \in [Node -> ReaderState]
      /\ reader[m].pc = "confirm" /\ reader[m].cur # None /\ state[m] = "open"
      /\ UNCHANGED <<disk, inbox, flow, sentFileMap, sender, state, sessions>>
  BY <1>1, Peers DEF IInv, TypeOK, ReaderPoint, Confirm
<1>3. /\ Whole(p, reader[m].cur, Pending(p)) /\ reader[m].cur.name \in NamesIn(p)
      /\ reader[m].cur \in Incoming
  BY <1>1, <1>2, ReceivedWhole DEF ReaderState
<1>4. PICK fr \in Frame : fr = [t |-> "GOT", name |-> reader[m].cur.name]
  BY <1>3 DEF Frame, Incoming
<1>5. PICK s : s = reader'[m]
  OBVIOUS
<1>6. /\ s.cur = None /\ s.held = reader[m].held /\ s.pc \in {AfterFile(m), "err"}
      /\ \A k \in Node \ {m} : reader'[k] = reader[k]
  BY <1>2, <1>5 DEF Confirm, ReaderState
<1>7. \A a \in Place : ReaderIsAt(p, a) => ReaderIsAt(p, a)'
  <2>1. ASSUME NEW a \in Place, Handles(p, reader[m], a, Pending(p), NamesIn(p))
        PROVE  Reads(p, s, a, Pending(p)) /\ Handles(p, s, a, Pending(p), NamesIn(p))
    BY <1>2, <1>6, <2>1 DEF Reads, Handles, AfterFile
  <2> QED BY <1>1, <1>2, <1>5, <2>1, ReaderGoes
<1>8. CASE Write(m, fr)
  <2>1. fr.t = "GOT" /\ fr.name \in NamesIn(p) /\ fr.name \notin Pending(p)
    BY <1>3, <1>4 DEF Whole
  <2> QED BY <1>1, <1>2, <1>6, <1>7, <1>8, <2>1, ReaderWrites
<1>9. CASE WriteError(m)
  BY <1>1, <1>2, <1>6, <1>7, <1>9, OtherSideKept, ReaderMoves DEF WriteError
<1> QED BY <1>4, <1>8, <1>9 DEF Confirm

\* HandleFile: a file is begun where its M_FILE leads, or the reader ends.
LEMMA HandleFileDelivers ==
  ASSUME NEW m \in Node, IInv, HandleFile(m)
  PROVE  \A n \in Node : Delivery(n)'
<1> USE DEF spoolVars, tcpVars, eobVars, ReaderAt
<1>1. PICK p \in Node : p = Peer[m]
  BY Peers
<1>2. /\ p # m /\ Peer[p] = m /\ Delivery(p) /\ TypeOK /\ reader \in [Node -> ReaderState]
      /\ reader[m].pc = "handle" /\ reader[m].cur = None /\ state[m] = "open"
      /\ reader[m].held # None /\ reader[m].held.t = "FILE" /\ reader[m].held \in Frame
      /\ UNCHANGED <<disk, inbox, flow, chan, closed, lost, sentFileMap, sender, state, sessions>>
  BY <1>1, Peers DEF IInv, TypeOK, ReaderPoint, ReaderState, HandleFile
<1>3. PICK s : s = reader'[m]
  OBVIOUS
<1>4. /\ \/ s.pc \in {"skip", "err"}
         \/ /\ s.pc = "read" /\ s.held = None
            /\ s.cur = [name |-> reader[m].held.name, size |-> reader[m].held.size,
                        content |-> <<>>]
      /\ \A k \in Node \ {m} : reader'[k] = reader[k]
  BY <1>2, <1>3 DEF HandleFile, ReaderGoto, ReaderState
<1>5. \A a \in Place : ReaderIsAt(p, a) => ReaderIsAt(p, a)'
  <2>1. ASSUME NEW a \in Place, Handles(p, reader[m], a, Pending(p), NamesIn(p))
        PROVE  Reads(p, s, a, Pending(p)) /\ Handles(p, s, a, Pending(p), NamesIn(p))
    <3>1. CASE s.pc \in {"skip", "err"}
      BY <3>1 DEF Reads, Handles
    <3>2. CASE /\ s.pc = "read" /\ s.held = None
               /\ s.cur = [name |-> reader[m].held.name, size |-> reader[m].held.size,
                           content |-> <<>>]
      <4>1. Announces(p, reader[m].held, a, Pending(p))
        BY <1>2, <2>1 DEF Handles
      <4>2. s.cur # None
        <5>1. s.cur \in Incoming
          BY <1>2, <3>2, EmptySeq DEF Frame, Incoming
        <5> QED BY <5>1, NoneAssumption
      <4>3. /\ a.file \in Sends(p) /\ a.file \in File /\ Size[a.file] \in Nat
            /\ a.left = Size[a.file] /\ s.cur.content = <<>> /\ Len(<<>>) = 0
            /\ s.cur.name = a.name /\ a.name \in NamesOf(a.file) /\ s.cur.size = Size[a.file]
            /\ a.left = 0 => s.cur.name \notin Pending(p)
        BY <3>2, <4>1, EmptySeq, QueueAssumption, FileAssumption DEF Announces, Sends
      <4>4. Begun(p, s.cur, a)
        <5>1. Len(<<>>) + a.left = Size[a.file]
          BY <4>3
        <5>2. \A i \in 1 .. Len(<<>>) : FALSE
          BY <4>3
        <5> QED BY <4>3, <5>1, <5>2 DEF Begun
      <4>5. a.left = 0 => Whole(p, s.cur, Pending(p))
        <5>1. ASSUME a.left = 0 PROVE s.cur.content = Content(a.file)
          <6>1. <<>> \in Seq(File) /\ Len(<<>>) = Size[a.file] /\ \A i \in 1 .. Len(<<>>) : FALSE
            BY <4>3, <5>1, EmptySeq
          <6> QED BY <4>3, <6>1, ContentIs
        <5> QED BY <4>3, <5>1 DEF Whole
      <4> QED BY <3>2, <4>2, <4>4, <4>5 DEF Reads, Handles
    <3> QED BY <1>4, <3>1, <3>2
  <2> QED BY <1>1, <1>2, <1>3, <2>1, ReaderGoes
<1> QED BY <1>1, <1>2, <1>4, <1>5, OtherSideKept, ReaderMoves

\* SendSkip: the reader ends.
LEMMA SendSkipDelivers ==
  ASSUME NEW m \in Node, IInv, SendSkip(m)
  PROVE  \A n \in Node : Delivery(n)'
<1> USE DEF spoolVars, tcpVars, eobVars, ReaderAt
<1>1. PICK p \in Node : p = Peer[m]
  BY Peers
<1>2. /\ p # m /\ Peer[p] = m /\ Delivery(p) /\ TypeOK /\ reader \in [Node -> ReaderState]
      /\ state[m] = "open"
      /\ reader[m].held # None /\ reader[m].held.t = "FILE" /\ reader[m].held \in Frame
      /\ UNCHANGED <<disk, inbox, flow, sentFileMap, sender, state, sessions>>
  BY <1>1, Peers DEF IInv, TypeOK, ReaderPoint, ReaderState, SendSkip
<1>3. PICK fr \in Frame : fr = [t |-> "SKIP", name |-> reader[m].held.name]
  BY <1>2 DEF Frame
<1>4. PICK s : s = reader'[m]
  OBVIOUS
<1>5. s.pc = "err" /\ \A k \in Node \ {m} : reader'[k] = reader[k]
  BY <1>2, <1>4 DEF SendSkip, ReaderState
<1>6. \A a \in Place : ReaderIsAt(p, a) => ReaderIsAt(p, a)'
  <2>1. \A a \in Place : Reads(p, s, a, Pending(p)) /\ Handles(p, s, a, Pending(p), NamesIn(p))
    BY <1>5 DEF Reads, Handles
  <2> QED BY <1>1, <1>2, <1>4, <2>1, ReaderGoes
<1>7. CASE Write(m, fr)
  BY <1>1, <1>2, <1>3, <1>5, <1>6, <1>7, ReaderWrites
<1>8. CASE WriteError(m)
  BY <1>1, <1>2, <1>5, <1>6, <1>8, OtherSideKept, ReaderMoves DEF WriteError
<1> QED BY <1>3, <1>7, <1>8 DEF SendSkip

\* Steps in which the reader is done with M_EOB, or ends.
LEMMA ReaderEnds ==
  ASSUME NEW m \in Node, IInv, HandleEob(m) \/ ReadEnd(m)
  PROVE  \A n \in Node : Delivery(n)'
<1> USE DEF spoolVars, tcpVars, eobVars, ReaderAt
<1>1. PICK p \in Node : p = Peer[m]
  BY Peers
<1>2. /\ p # m /\ Peer[p] = m /\ Delivery(p) /\ TypeOK /\ reader \in [Node -> ReaderState]
      /\ state[m] = "open"
      /\ UNCHANGED <<disk, inbox, flow, chan, closed, lost, sentFileMap, sender, state, sessions>>
  BY <1>1, Peers DEF IInv, TypeOK, HandleEob, ReadEnd
<1>3. PICK s : s = reader'[m]
  OBVIOUS
<1>4. /\ \/ s.pc \in {"ok", "err"}
         \/ /\ s.pc = "read" /\ s.held = None /\ s.cur = None
            /\ reader[m].pc = "handle" /\ reader[m].held.t = "EOB"
      /\ \A k \in Node \ {m} : reader'[k] = reader[k]
  BY <1>2, <1>3 DEF HandleEob, ReadEnd, ReaderGoto, ReaderState
<1>5. \A a \in Place : ReaderIsAt(p, a) => ReaderIsAt(p, a)'
  <2>1. ASSUME NEW a \in Place, Handles(p, reader[m], a, Pending(p), NamesIn(p))
        PROVE  Reads(p, s, a, Pending(p)) /\ Handles(p, s, a, Pending(p), NamesIn(p))
    BY <1>4, <2>1 DEF Reads, Handles
  <2> QED BY <1>1, <1>2, <1>3, <2>1, ReaderGoes
<1> QED BY <1>1, <1>2, <1>4, <1>5, OtherSideKept, ReaderMoves

-----------------------------------------------------------------------------
(* Ends, failures and beginnings of sessions.                              *)

\* The session of a node is over: nothing is asked of its reader and its sender.
LEMMA OverDelivers ==
  ASSUME NEW m \in Node, IInv, EndSession(m) \/ Crash(m)
  PROVE  \A n \in Node : Delivery(n)'
<1> USE DEF spoolVars, tcpVars, eobVars
<1> SUFFICES ASSUME NEW n \in Node PROVE Delivery(n)'
  OBVIOUS
<1>1. /\ UNCHANGED <<disk, inbox, flow, chan, lost, sessions>>
      /\ \A k \in Node : closed[k] => closed'[k]
      /\ \A k \in Node \ {m} : reader'[k] = reader[k] /\ sender'[k] = sender[k] /\ state'[k] = state[k]
      /\ \A k \in Node : sentFileMap'[k] = sentFileMap[k] \/ (k = m /\ sentFileMap'[k] = {})
      /\ state'[m] # "open"
  BY DEF IInv, TypeOK, EndSession, Crash, Close
<1>2. Delivery(n) /\ Peer[n] \in Node /\ TypeOK
  BY Peers DEF IInv
<1>3. Kept(n)' /\ Inbox(n)' /\ NamesIn(n)' = NamesIn(n)
  BY <1>1, <1>2, OtherSideKept
<1>4. Entries(n)'
  BY <1>1, <1>2 DEF Delivery, Entries
<1>5. Pending(n)' \subseteq Pending(n)
  <2>1. CASE n = m
    BY <1>1, <2>1 DEF Pending
  <2>2. CASE n # m
    BY <1>1, <2>2, PendingKept
  <2> QED BY <2>1, <2>2
<1>6. Sending(n)'
  <2>1. CASE n = m
    BY <1>1, <2>1 DEF Sending
  <2>2. CASE n # m
    <3>1. Work(n)' = Work(n)
      BY <1>1, WorkKept
    <3>2. Unwritten(n)' = Unwritten(n) /\ Current(n)' = Current(n)
      BY <1>1, <2>2, <3>1 DEF Unwritten, Current
    <3> QED BY <1>1, <1>2, <2>2, <3>1, <3>2 DEF Delivery, Sending
  <2> QED BY <2>1, <2>2
<1>7. Gots(n)'
  BY <1>1, <1>2, <1>3, <1>5, ConfirmsLess DEF Delivery, Gots
<1>8. \A a \in Place : ReaderIsAt(n, a) => ReaderIsAt(n, a)'
  <2>1. CASE Peer[n] = m
    BY <1>1, <2>1 DEF ReaderIsAt
  <2>2. CASE Peer[n] # m
    BY <1>1, <1>2, <1>3, <1>5, <2>2, ReaderStays
  <2> QED BY <2>1, <2>2
<1>9. \A b \in Place : SenderIsAt(n, b) => SenderIsAt(n, b)'
  <2>1. CASE n = m
    BY <1>1, <2>1 DEF SenderIsAt
  <2>2. CASE n # m
    <3>1. Dead(n) => Dead(n)'
      BY <1>1, <1>2 DEF Dead
    <3> QED BY <1>1, <2>2, <3>1, SenderStays
  <2> QED BY <2>1, <2>2
<1>10. Stream(n)'
  BY <1>1, <1>2, <1>5, <1>8, <1>9, StreamStays DEF Delivery
<1> QED BY <1>3, <1>4, <1>6, <1>7, <1>10 DEF Delivery

\* The network keeps some first frames of each stream.
LEMMA CutDelivers ==
  ASSUME IInv, Cut
  PROVE  \A n \in Node : Delivery(n)'
<1> USE DEF spoolVars, eobVars
<1>1. PICK kept \in [Node -> 0 .. Window] :
        /\ \A n \in Node : kept[n] <= Len(chan[n])
        /\ chan' = [n \in Node |-> SubSeq(chan[n], 1, kept[n])]
  BY DEF Cut
<1>2. UNCHANGED <<disk, inbox, flow, closed, sentFileMap, reader, sender, state, sessions>> /\ lost'
  BY DEF Cut
<1> SUFFICES ASSUME NEW n \in Node PROVE Delivery(n)'
  OBVIOUS
<1>3. Delivery(n) /\ Peer[n] \in Node /\ TypeOK
  BY Peers DEF IInv
<1>4. \A k \in Node : /\ chan[k] \in Seq(Frame) /\ kept[k] \in Nat /\ kept[k] <= Len(chan[k])
                      /\ chan'[k] = SubSeq(chan[k], 1, kept[k])
  BY <1>1, <1>3, BoundAssumption DEF TypeOK
<1>5. Kept(n)' /\ Inbox(n)' /\ NamesIn(n)' = NamesIn(n) /\ Sending(n)'
  BY <1>2, <1>3, OtherSideKept, OwnSideKept
<1>6. Entries(n)' /\ Pending(n)' \subseteq Pending(n)
  BY <1>2, <1>3, PendingKept DEF Delivery, Entries
<1>7. Gots(n)'
  <2>1. Confirms(SubSeq(chan[Peer[n]], 1, kept[Peer[n]]), NamesIn(n), Pending(n))
    BY <1>3, <1>4, ConfirmsCut DEF Delivery, Gots
  <2> QED BY <1>3, <1>4, <1>5, <1>6, <2>1, ConfirmsLess DEF Gots
<1>8. Stream(n)'
  <2>1. PICK a \in Place, b \in Place : ReaderIsAt(n, a) /\ Path(n, chan[n], a, b, Pending(n))
    BY <1>3 DEF Delivery, Stream
  <2>2. PICK c \in Place : Path(n, SubSeq(chan[n], 1, kept[n]), a, c, Pending(n))
    BY <1>4, <2>1, PathCut
  <2>3. Path(n, chan'[n], a, c, Pending(n)')
    BY <1>4, <1>6, <2>2, PathLess
  <2>4. ReaderIsAt(n, a)'
    BY <1>2, <1>5, <1>6, <2>1, ReaderStays
  <2>5. SenderIsAt(n, c)'
    BY <1>2 DEF SenderIsAt, Dead
  <2> QED BY <2>3, <2>4, <2>5 DEF Stream
<1> QED BY <1>5, <1>6, <1>7, <1>8 DEF Delivery

\* A session starts where no file has been begun.
LEMMA StartPlace ==
  \E a \in Place : \A n \in Node : \A P, I, c :
    /\ Reads(n, NewReader, a, P) /\ Handles(n, NewReader, a, P, I) /\ Writes(NewSender(n), c, a)
    /\ Path(n, <<>>, a, a, P) /\ Confirms(<<>>, I, P)
<1>1. PICK a \in Place : a = [file |-> None, name |-> None, left |-> 0]
  BY DEF Place
<1>2. a.left = 0
  BY <1>1
<1>3. ASSUME NEW n \in Node, NEW P, NEW I, NEW c
      PROVE  /\ Reads(n, NewReader, a, P) /\ Handles(n, NewReader, a, P, I)
             /\ Writes(NewSender(n), c, a)
  BY <1>2 DEF Reads, Handles, Writes, NewReader, NewSender
<1>4. ASSUME NEW n \in Node, NEW P, NEW I
      PROVE  Path(n, <<>>, a, a, P) /\ Confirms(<<>>, I, P)
  <2>1. Len(<<>>) = 0 /\ \A i \in 1 .. 0 : FALSE
    BY EmptySeq
  <2> QED BY <2>1, PathEmpty DEF Confirms
<1> QED BY <1>3, <1>4

\* Redial: streams start anew, at both ends.
LEMMA RedialDelivers ==
  ASSUME IInv, Redial
  PROVE  \A n \in Node : Delivery(n)'
<1> USE DEF spoolVars
<1> SUFFICES ASSUME NEW n \in Node PROVE Delivery(n)'
  OBVIOUS
<1>1. Delivery(n) /\ Peer[n] \in Node
  BY Peers DEF IInv
<1>2. /\ UNCHANGED <<disk, inbox, flow>>
      /\ chan'[n] = <<>> /\ chan'[Peer[n]] = <<>> /\ sentFileMap'[n] = {}
      /\ reader'[Peer[n]] = NewReader /\ sender'[n] = NewSender(n)
  BY <1>1 DEF Redial
<1>3. Kept(n)' /\ Inbox(n)'
  BY <1>1, <1>2, OtherSideKept
<1>4. Entries(n)' /\ Sending(n)'
  BY <1>2 DEF Entries, Sending, NewSender
<1>5. Gots(n)' /\ Stream(n)'
  BY <1>2, StartPlace DEF Gots, Stream, ReaderIsAt, SenderIsAt
<1> QED BY <1>3, <1>4, <1>5 DEF Delivery

\* The first session does too.
LEMMA InitDelivers == Init => IInv
<1> SUFFICES ASSUME Init PROVE IInv
  OBVIOUS
<1> SUFFICES ASSUME NEW n \in Node PROVE Delivery(n)
  BY InitType DEF IInv
<1>1. Peer[n] \in Node
  BY Peers
<1>2. /\ disk[n] = Spool[n] /\ inbox[Peer[n]] = {}
      /\ chan[n] = <<>> /\ chan[Peer[n]] = <<>> /\ sentFileMap[n] = {}
      /\ reader[Peer[n]] = NewReader /\ sender[n] = NewSender(n)
  BY <1>1 DEF Init
<1>3. Kept(n) /\ Inbox(n) /\ Entries(n) /\ Sending(n)
  BY <1>2 DEF Kept, Inbox, Entries, Sending, NewSender
<1>4. Gots(n) /\ Stream(n)
  BY <1>2, StartPlace DEF Gots, Stream, ReaderIsAt, SenderIsAt
<1> QED BY <1>3, <1>4 DEF Delivery

\* One step per action.
LEMMA NextDelivers ==
  ASSUME DistinctQueues, IInv, [Next]_vars
  PROVE  IInv'
<1>1. TypeOK'
  BY NextType DEF IInv
<1>2. CASE UNCHANGED vars
  <2>1. ASSUME NEW n \in Node PROVE Delivery(n)'
    <3>1. Delivery(n) /\ (Dead(n) => Dead(n)')
      BY <1>2 DEF IInv, Dead, vars
    <3> QED BY <1>2, <3>1, Bystander DEF vars
  <2> QED BY <1>1, <2>1 DEF IInv
<1>3. ASSUME NEW m \in Node, Sender(m) PROVE \A n \in Node : Delivery(n)'
  BY <1>3, StatFileDelivers, SendHeaderDelivers, OpenFileDelivers, SendDataDelivers,
     FileSentDelivers, RemoveFlowDelivers, SendEobDelivers, SenderEnds DEF Sender
<1>4. ASSUME NEW m \in Node, Reader(m) PROVE \A n \in Node : Delivery(n)'
  BY <1>4, ReceiveCommandDelivers, ReceiveDataDelivers, ReceiveGotDelivers, ReceiveSkipDelivers,
     FinishFileDelivers, ConfirmDelivers, HandleFileDelivers, SendSkipDelivers, ReaderEnds
  DEF Reader
<1>5. CASE Next
  <2>1. CASE Terminated
    BY <1>2, <2>1 DEF Terminated
  <2>2. CASE ~Terminated
    BY <1>1, <1>3, <1>4, <1>5, <2>2, OverDelivers, CutDelivers, RedialDelivers DEF Next, IInv
  <2> QED BY <2>1, <2>2
<1> QED BY <1>2, <1>5

\* The invariant holds of every state.
LEMMA AlwaysDelivers ==
  ASSUME DistinctQueues
  PROVE  Spec => []IInv
<1>1. IInv /\ [Next]_vars => IInv'
  BY NextDelivers
<1> QED BY <1>1, InitDelivers, PTL DEF Spec

-----------------------------------------------------------------------------
(* Theorems.                                                               *)

\* handleGot removes a file only when finishCurrentFile of the peer has put
\* all of it into the inbound directory, in whichever session, through any
\* cuts, timeouts, disk errors and crashes: no mail is destroyed.
THEOREM MailSafe ==
  ASSUME DistinctQueues
  PROVE  Spec => []DeletedOnlyIfDelivered
<1>1. IInv => DeletedOnlyIfDelivered
  BY DEF IInv, Delivery, Kept, DeletedOnlyIfDelivered
<1> QED BY <1>1, AlwaysDelivers, PTL

\* What lies in the inbound directory is a file of the peer with all its
\* blocks, although handleFile and handleEOB finish a file of any length.
THEOREM NothingPartial ==
  ASSUME DistinctQueues
  PROVE  Spec => []InboundComplete
<1>1. IInv => InboundComplete
  <2> SUFFICES ASSUME IInv, NEW n \in Node, NEW r \in inbox[n]
               PROVE  \E f \in Spool[Peer[n]] : r.name \in NamesOf(f) /\ r.content = Content(f)
    BY DEF InboundComplete
  <2>1. Peer[n] \in Node /\ Peer[Peer[n]] = n
    BY Peers
  <2> QED BY <2>1 DEF IInv, Delivery, Inbox, Sends
<1> QED BY <1>1, AlwaysDelivers, PTL

-----------------------------------------------------------------------------
(* The refinement.                                                         *)

\* Two empty files in one spool have names of their own: received, they are
\* nothing but their names.
EmptyFilesDistinct ==
  \A n \in Node : \A f, g \in Spool[n] :
    f # g /\ Size[f] = 0 /\ Size[g] = 0 => NamesOf(f) \cap NamesOf(g) = {}

\* The files of n at the other side.
Came(n) == {f \in Spool[n] : Arrived(n, f)}

\* What a name and a content say of a file.
LEMMA SameFile ==
  ASSUME EmptyFilesDistinct, NEW n \in Node, NEW f \in Spool[n], NEW g \in Spool[n], NEW x,
         x \in NamesOf(f), x \in NamesOf(g), Content(f) = Content(g)
  PROVE  f = g
<1>1. Size[f] \in Nat /\ Size[g] \in Nat
  BY FileAssumption, QueueAssumption
<1>2. DOMAIN Content(f) = 1 .. Size[f] /\ DOMAIN Content(g) = 1 .. Size[g]
  BY DEF Content
<1>3. CASE Size[f] = 0
  <2>1. Size[g] = 0
    BY <1>1, <1>2, <1>3
  <2> QED BY <1>3, <2>1 DEF EmptyFilesDistinct
<1>4. CASE Size[f] > 0
  <2>1. 1 \in 1 .. Size[f] /\ 1 \in 1 .. Size[g]
    BY <1>1, <1>2, <1>4
  <2>2. Content(f)[1] = f /\ Content(g)[1] = g
    BY <2>1 DEF Content
  <2> QED BY <2>2
<1> QED BY <1>1, <1>3, <1>4

\* A step of the sessions that leaves spools and inbound directories alone.
LEMMA RefinesIdle ==
  ASSUME UNCHANGED <<disk, inbox>>
  PROVE  [Mail!Next]_(Mail!vars)
<1>1. \A n, f : Arrived(n, f)' = Arrived(n, f)
  BY DEF Arrived
<1> QED BY <1>1 DEF Mail!vars

\* finishCurrentFile's rename is the arrival of a file.
LEMMA RefinesFinish ==
  ASSUME DistinctQueues, EmptyFilesDistinct, IInv, NEW m \in Node, FinishFile(m)
  PROVE  [Mail!Next]_(Mail!vars)
<1> USE DEF ReaderAt, spoolVars
<1>1. CASE inbox' = inbox
  BY <1>1, RefinesIdle DEF FinishFile
<1>2. CASE inbox' = [inbox EXCEPT ![m] = Put(@, InboxItem(m))]
  <2>1. PICK p \in Node : p = Peer[m]
    BY Peers
  <2>2. /\ p # m /\ Peer[p] = m /\ Delivery(p) /\ TypeOK
        /\ \A k \in Node \ {p} : Peer[k] # m /\ Peer[k] \in Node
        /\ reader[m].pc = "handle" /\ reader[m].cur # None /\ state[m] = "open" /\ disk' = disk
    BY <2>1, Peers DEF IInv, FinishFile
  <2>3. Whole(p, reader[m].cur, Pending(p))
    BY <2>1, <2>2, ReceivedWhole
  <2>4. PICK f \in Sends(p) :
          InboxItem(m).name \in NamesOf(f) /\ InboxItem(m).content = Content(f)
    BY <2>3 DEF Whole, InboxItem
  <2>5. inbox[m] \subseteq inbox'[m] /\ InboxItem(m) \in inbox'[m]
        /\ \A r \in inbox'[m] : r \in inbox[m] \/ r = InboxItem(m)
    <3>1. inbox'[m] = Put(inbox[m], InboxItem(m))
      BY <1>2, <2>2 DEF TypeOK
    <3> QED BY <2>1, <2>2, <2>3, <3>1, PutKeeps DEF Delivery, Put
  <2>6. f \in Spool[p]
    BY DEF Sends
  <2>7. \A g \in Spool[p] : Arrived(p, g)' <=> (Arrived(p, g) \/ g = f)
    <3>1. ASSUME NEW g \in Spool[p], Arrived(p, g)', ~Arrived(p, g) PROVE g = f
      BY <2>2, <2>4, <2>5, <2>6, <3>1, SameFile DEF Arrived
    <3>2. Arrived(p, f)'
      BY <2>2, <2>4, <2>5 DEF Arrived
    <3>3. ASSUME NEW g \in Spool[p], Arrived(p, g) PROVE Arrived(p, g)'
      BY <2>2, <2>5, <3>3 DEF Arrived
    <3> QED BY <3>1, <3>2, <3>3
  <2>8. Came(p)' = Came(p) \cup {f}
    BY <2>6, <2>7 DEF Came
  <2>9. \A k \in Node \ {p} : Came(k)' = Came(k)
    <3>1. \A k \in Node \ {p} : inbox'[Peer[k]] = inbox[Peer[k]]
      BY <1>2, <2>2 DEF TypeOK
    <3> QED BY <3>1 DEF Came, Arrived
  <2>10. CASE f \in Came(p)
    <3>1. \A k \in Node : Came(k)' = Came(k)
      BY <2>8, <2>9, <2>10
    <3> QED BY <2>2, <3>1 DEF Mail!vars, Came
  <2>11. CASE f \notin Came(p)
    <3>1. f \in disk[p]
      BY <2>2, <2>6, <2>11 DEF Delivery, Kept, Came
    <3>2. [k \in Node |-> Came(k)]' = [[k \in Node |-> Came(k)] EXCEPT ![p] = @ \cup {f}]
      BY <2>8, <2>9
    <3>3. Mail!Arrive(p)
      BY <2>2, <2>11, <3>1, <3>2 DEF Mail!Arrive, Came
    <3> QED BY <3>3 DEF Mail!Next
  <2> QED BY <2>10, <2>11
<1> QED BY <1>1, <1>2 DEF FinishFile

\* handleGot's removal of the original is the removal of a file that arrived.
LEMMA RefinesGot ==
  ASSUME DistinctQueues, IInv, NEW m \in Node, ReceiveGot(m)
  PROVE  [Mail!Next]_(Mail!vars)
<1> USE DEF ReaderAt
<1>1. CASE disk' = disk
  BY <1>1, RefinesIdle DEF ReceiveGot
<1>2. CASE disk' # disk
  <2> DEFINE confirmed == {e \in sentFileMap[m] : e.name = NextFrame(m).name /\ e.del}
  <2>1. disk' = [disk EXCEPT ![m] = @ \ {e.file : e \in confirmed}] /\ inbox' = inbox
    BY <1>2 DEF ReceiveGot
  <2>2. Delivery(m) /\ Peer[m] \in Node /\ Peer[Peer[m]] = m /\ TypeOK /\ Read(m, {"GOT"})
    BY Peers DEF IInv, ReceiveGot
  <2>3. PICK e \in confirmed : e.file \in disk[m]
    BY <1>2, <2>1, <2>2 DEF TypeOK
  <2>4. \A d \in confirmed : d.file = e.file
    BY <2>2, SameName DEF Delivery, Entries
  <2>5. disk' = [disk EXCEPT ![m] = @ \ {e.file}]
    BY <2>1, <2>4
  <2>6. NextFrame(m).name \in NamesIn(m)
    <3>1. chan[Peer[m]] \in Seq(Frame) /\ chan[Peer[m]] # <<>> /\ NextFrame(m).t = "GOT"
      BY <2>2 DEF TypeOK, Read
    <3> QED BY <2>2, <3>1, ConfirmsTail DEF NextFrame, Delivery, Gots
  <2>7. Arrived(m, e.file) /\ e.file \in Spool[m]
    BY <2>2, <2>3, <2>6, EntryArrived DEF Delivery, Kept
  <2>8. \A n, f : Arrived(n, f)' = Arrived(n, f)
    BY <2>1 DEF Arrived
  <2>9. Mail!Remove(m)
    BY <2>3, <2>5, <2>7, <2>8 DEF Mail!Remove
  <2> QED BY <2>9 DEF Mail!Next
<1> QED BY <1>1, <1>2

\* Every step of the sessions is one of StoreAndForward or none.
LEMMA NextRefines ==
  ASSUME DistinctQueues, EmptyFilesDistinct, IInv, [Next]_vars
  PROVE  [Mail!Next]_(Mail!vars)
<1> USE DEF spoolVars
<1>1. CASE UNCHANGED <<disk, inbox>>
  BY <1>1, RefinesIdle
<1>2. CASE ~(UNCHANGED <<disk, inbox>>)
  <2>1. ASSUME NEW m \in Node, Sender(m) PROVE FALSE
    BY <1>2, <2>1 DEF Sender, StatFile, SendHeader, OpenFile, SendData, FileSent, RemoveFlow,
       SendEob, FlagEob, SendRefusal, SendError, CloseOnError
  <2>2. ASSUME NEW m \in Node, Reader(m) PROVE FinishFile(m) \/ ReceiveGot(m)
    BY <1>2, <2>2 DEF Reader, ReceiveCommand, ReceiveData, ReceiveSkip, Confirm, HandleFile,
       SendSkip, HandleEob, ReadEnd
  <2>3. \E m \in Node : Sender(m) \/ Reader(m)
    BY <1>2 DEF Next, vars, EndSession, Crash, Cut, Redial, Terminated
  <2> QED BY <2>1, <2>2, <2>3, RefinesFinish, RefinesGot
<1> QED BY <1>1, <1>2

\* At the start nothing has arrived.
LEMMA InitRefines ==
  ASSUME Init
  PROVE  Mail!Init
<1>1. \A n \in Node : \A f : ~Arrived(n, f)
  BY Peers DEF Init, Arrived
<1> QED BY <1>1 DEF Init, Mail!Init

\* Seen from the spools and the inbound directories, sessions do nothing but
\* let a file arrive, once and for all, and remove a file that arrived.
THEOREM SessionsRefine ==
  ASSUME DistinctQueues, EmptyFilesDistinct
  PROVE  Spec => ImplementsStoreAndForward
<1>1. Init => Mail!Init
  BY InitRefines
<1>2. IInv /\ [Next]_vars => [Mail!Next]_(Mail!vars)
  BY NextRefines
<1> QED BY <1>1, <1>2, AlwaysDelivers, PTL DEF Spec, ImplementsStoreAndForward, Mail!Spec

\* What StoreAndForward promises: between its sender's spool and the other side
\* no file is ever lost.
THEOREM NoLoss == Mail!Spec => []Mail!NothingLost
<1>1. Mail!Init => Mail!NothingLost
  BY DEF Mail!Init, Mail!NothingLost
<1>2. Mail!NothingLost /\ [Mail!Next]_(Mail!vars) => Mail!NothingLost'
  <2> SUFFICES ASSUME Mail!NothingLost, [Mail!Next]_(Mail!vars) PROVE Mail!NothingLost'
    OBVIOUS
  <2>1. CASE UNCHANGED Mail!vars
    BY <2>1 DEF Mail!NothingLost, Mail!vars
  <2>2. ASSUME NEW n \in Node, Mail!Arrive(n) PROVE Mail!NothingLost'
    BY <2>2 DEF Mail!Arrive, Mail!NothingLost
  <2>3. ASSUME NEW n \in Node, Mail!Remove(n) PROVE Mail!NothingLost'
    BY <2>3 DEF Mail!Remove, Mail!NothingLost
  <2> QED BY <2>1, <2>2, <2>3 DEF Mail!Next
<1> QED BY <1>1, <1>2, PTL DEF Mail!Spec

\* Nor by the sessions, which implement it.
COROLLARY NoMailLost ==
  ASSUME DistinctQueues, EmptyFilesDistinct
  PROVE  Spec => []Mail!NothingLost
BY SessionsRefine, NoLoss, PTL DEF ImplementsStoreAndForward

-----------------------------------------------------------------------------
(* M_EOB comes last.                                                       *)

\* The names in n's sentFileMap.
Announced(n) == {e.name : e \in sentFileMap[n]}

\* The reader r of n's files has the file x, or its M_FILE.
Has(r, x) ==
  \/ r.cur # None /\ r.cur.name = x
  \/ r.held # None /\ r.held.t = "FILE" /\ r.held.name = x

\* File x of n is in the inbound directory, at the reader, or announced in the
\* first i frames on their way.
Ahead(n, x, i) ==
  \/ x \in NamesIn(n)
  \/ Has(reader[Peer[n]], x)
  \/ \E j \in 1 .. Len(chan[n]) : j <= i /\ chan[n][j].t = "FILE" /\ chan[n][j].name = x

\* n's sender has not yet written M_EOB, and may still.
BeforeEob(n) ==
  state[n] = "open" /\ sender[n].pc \in {"refuse", "stat", "header", "open", "data", "eob"}

\* Then none is under way.
NoEobYet(n) ==
  BeforeEob(n) =>
    /\ ~theySentEOB[Peer[n]]
    /\ reader[Peer[n]].held # None => reader[Peer[n]].held.t # "EOB"
    /\ \A i \in 1 .. Len(chan[n]) : chan[n][i].t # "EOB"

\* What the sender has announced is under way, the file it is about to
\* announce apart, if anything it writes arrives.
SentAhead(n) ==
  BeforeEob(n) /\ ~Dead(n) =>
    \A x \in Announced(n) :
      Ahead(n, x, Len(chan[n])) \/ (sender[n].pc = "header" /\ x = Current(n).name)

\* All of it is ahead of each M_EOB on its way, ...
ChanEob(n) ==
  state[Peer[n]] = "open" =>
    \A i \in 1 .. Len(chan[n]) : chan[n][i].t = "EOB" =>
      \A x \in Announced(n) : Ahead(n, x, i)

\* ... of the one that the reader has, ...
HeldEob(n) ==
  state[Peer[n]] = "open" /\ reader[Peer[n]].held # None /\ reader[Peer[n]].held.t = "EOB" =>
    \A x \in Announced(n) : x \in NamesIn(n) \/ Has(reader[Peer[n]], x)

\* ... and of the one that was handled.
HandledEob(n) == theySentEOB[Peer[n]] => Announced(n) \subseteq NamesIn(n)

EobLast(n) ==
  /\ reader[Peer[n]].pc # "skip"
  /\ NoEobYet(n) /\ SentAhead(n) /\ ChanEob(n) /\ HeldEob(n) /\ HandledEob(n)

\* What came ahead still does when n writes.
LEMMA AheadGrows ==
  ASSUME NEW n \in Node, TypeOK, inbox'[Peer[n]] = inbox[Peer[n]],
         reader'[Peer[n]] = reader[Peer[n]],
         \/ chan'[n] = chan[n]
         \/ \E fr \in Frame : chan'[n] = Append(chan[n], fr)
  PROVE  \A x : \A i \in Nat : Ahead(n, x, i) => Ahead(n, x, i)'
<1>1. CASE chan'[n] = chan[n]
  BY <1>1 DEF Ahead, NamesIn
<1>2. ASSUME NEW fr \in Frame, chan'[n] = Append(chan[n], fr)
      PROVE  \A x : \A i \in Nat : Ahead(n, x, i) => Ahead(n, x, i)'
  <2>1. PICK k \in Nat : k = Len(chan[n])
    BY LenProperties DEF TypeOK
  <2>2. /\ Len(chan'[n]) = k + 1
        /\ \A i \in 1 .. k : chan'[n][i] = chan[n][i]
    BY <1>2, <2>1, AppendProperties DEF TypeOK
  <2>3. \A i \in 1 .. k : i \in 1 .. k + 1
    BY <2>1
  <2> QED BY <2>1, <2>2, <2>3 DEF Ahead, NamesIn
<1> QED BY <1>1, <1>2

\* Steps that do not concern n's files.
LEMMA EobElsewhere ==
  ASSUME NEW n \in Node, EobLast(n),
         inbox'[Peer[n]] = inbox[Peer[n]], chan'[n] = chan[n],
         sentFileMap'[n] = sentFileMap[n], sender'[n] = sender[n], flow'[n] = flow[n],
         reader'[Peer[n]] = reader[Peer[n]], theySentEOB'[Peer[n]] = theySentEOB[Peer[n]],
         state'[n] = state[n], state'[Peer[n]] = state[Peer[n]], sessions' = sessions,
         Dead(n) => Dead(n)'
  PROVE  EobLast(n)'
<1>1. Announced(n)' = Announced(n) /\ NamesIn(n)' = NamesIn(n) /\ BeforeEob(n)' = BeforeEob(n)
  BY DEF Announced, NamesIn, BeforeEob
<1>2. \A x, i : Ahead(n, x, i)' = Ahead(n, x, i)
  BY <1>1 DEF Ahead
<1>3. Current(n)' = Current(n)
  BY WorkKept DEF Current
<1>4. NoEobYet(n)' /\ SentAhead(n)'
  BY <1>1, <1>2, <1>3 DEF EobLast, NoEobYet, SentAhead
<1>5. ChanEob(n)' /\ HeldEob(n)' /\ HandledEob(n)'
  BY <1>1, <1>2 DEF EobLast, ChanEob, HeldEob, HandledEob
<1> QED BY <1>4, <1>5 DEF EobLast

\* A step of n's goroutines that announces nothing: M_EOB goes out when all that
\* was announced is under way.
LEMMA EobWritten ==
  ASSUME NEW n \in Node, TypeOK, EobLast(n),
         inbox'[Peer[n]] = inbox[Peer[n]], reader'[Peer[n]] = reader[Peer[n]],
         theySentEOB'[Peer[n]] = theySentEOB[Peer[n]], state' = state,
         sentFileMap'[n] = sentFileMap[n], BeforeEob(n)' => BeforeEob(n),
         \/ chan'[n] = chan[n]
         \/ \E fr \in Frame :
              /\ chan'[n] = Append(chan[n], fr)
              /\ fr.t = "EOB" => /\ BeforeEob(n) /\ ~BeforeEob(n)' /\ ~Dead(n)
                                 /\ sender[n].pc # "header",
         SentAhead(n)'
  PROVE  EobLast(n)'
<1>1. Announced(n)' = Announced(n) /\ NamesIn(n)' = NamesIn(n)
  BY DEF Announced, NamesIn
<1>2. \A x : \A i \in Nat : Ahead(n, x, i) => Ahead(n, x, i)'
  BY AheadGrows
<1>3. HeldEob(n)' /\ HandledEob(n)'
  BY <1>1 DEF EobLast, HeldEob, HandledEob
<1>4. CASE chan'[n] = chan[n]
  <2>1. NoEobYet(n)'
    BY <1>4 DEF EobLast, NoEobYet
  <2>2. ChanEob(n)'
    <3>1. Len(chan[n]) \in Nat
      BY LenProperties DEF TypeOK
    <3>2. \A i \in 1 .. Len(chan[n]) : i \in Nat
      BY <3>1
    <3> QED BY <1>1, <1>2, <1>4, <3>2 DEF EobLast, ChanEob
  <2> QED BY <1>3, <2>1, <2>2 DEF EobLast
<1>5. ASSUME NEW fr \in Frame, chan'[n] = Append(chan[n], fr),
             fr.t = "EOB" => BeforeEob(n) /\ ~BeforeEob(n)' /\ ~Dead(n) /\ sender[n].pc # "header"
      PROVE  EobLast(n)'
  <2>1. PICK k \in Nat : k = Len(chan[n])
    BY LenProperties DEF TypeOK
  <2>2. /\ Len(chan'[n]) = k + 1 /\ chan'[n][k + 1] = fr
        /\ \A i \in 1 .. k : chan'[n][i] = chan[n][i]
    BY <1>5, <2>1, AppendProperties DEF TypeOK
  <2>3. \A i \in 1 .. k + 1 : i \in Nat /\ (i \in 1 .. k \/ i = k + 1)
    BY <2>1
  <2>4. NoEobYet(n)'
    BY <1>5, <2>1, <2>2, <2>3 DEF EobLast, NoEobYet
  <2>5. ChanEob(n)'
    <3> SUFFICES ASSUME state[Peer[n]] = "open", NEW i \in 1 .. k + 1, chan'[n][i].t = "EOB",
                        NEW x \in Announced(n)
                 PROVE  Ahead(n, x, i)'
      BY <1>1, <2>2 DEF ChanEob
    <3>1. CASE i \in 1 .. k
      BY <1>2, <2>1, <2>2, <2>3, <3>1 DEF EobLast, ChanEob
    <3>2. CASE i = k + 1
      <4>1. Ahead(n, x, k)
        BY <1>5, <2>1, <2>2, <3>2 DEF EobLast, SentAhead
      <4>2. \A j \in 1 .. k : j <= k + 1
        BY <2>1
      <4>3. Ahead(n, x, k + 1)
        BY <2>1, <4>1, <4>2 DEF Ahead
      <4> QED BY <1>2, <2>3, <3>2, <4>3
    <3> QED BY <2>3, <3>1, <3>2
  <2> QED BY <1>3, <2>4, <2>5 DEF EobLast
<1> QED BY <1>4, <1>5

\* Frames r are q without the first d.
Without(q, d, r) == Len(q) = Len(r) + d /\ \A i \in 1 .. Len(r) : r[i] = q[i + d]

\* A step of the reader of n's stream: it takes d frames, the file that it has
\* stays with it or comes into the inbound directory, and M_EOB is handled when
\* there is none.
LEMMA EobRead ==
  ASSUME NEW n \in Node, NEW p \in Node, p = Peer[n], TypeOK, EobLast(n), state[p] = "open",
         sentFileMap'[n] = sentFileMap[n], sender'[n] = sender[n], flow'[n] = flow[n],
         state' = state, sessions' = sessions, Dead(n)' = Dead(n),
         NEW d \in {0, 1}, chan'[n] \in Seq(Frame), Without(chan[n], d, chan'[n]),
         NamesIn(n) \subseteq NamesIn(n)',
         \A x : Has(reader[p], x) => x \in NamesIn(n)' \/ Has(reader'[p], x),
         d = 1 => /\ chan[n][1].t = "FILE" => Has(reader'[p], chan[n][1].name)
                  /\ reader[p].held = None,
         reader'[p].held # None /\ reader'[p].held.t = "EOB" =>
           \/ reader[p].held # None /\ reader[p].held.t = "EOB"
           \/ d = 1 /\ chan[n][1].t = "EOB",
         theySentEOB'[p] =>
           \/ theySentEOB[p]
           \/ reader[p].held # None /\ reader[p].held.t = "EOB" /\ reader[p].cur = None,
         reader'[p].pc # "skip"
  PROVE  EobLast(n)'
<1>1. PICK k \in Nat, l \in Nat :
        /\ k = Len(chan[n]) /\ l = Len(chan'[n]) /\ k = l + d
        /\ \A i \in 1 .. l : chan'[n][i] = chan[n][i + d]
  BY LenProperties DEF TypeOK, Without
<1>2. Announced(n)' = Announced(n) /\ BeforeEob(n)' = BeforeEob(n) /\ Current(n)' = Current(n)
  BY WorkKept DEF Announced, BeforeEob, Current
<1>3. ASSUME NEW x, NEW i \in Nat, Ahead(n, x, i + d) PROVE Ahead(n, x, i)'
  <2>1. CASE x \in NamesIn(n) \/ Has(reader[p], x)
    BY <2>1 DEF Ahead
  <2>2. ASSUME NEW j \in 1 .. k, j <= i + d, chan[n][j].t = "FILE", chan[n][j].name = x
        PROVE  Ahead(n, x, i)'
    <3>1. CASE d = 1 /\ j = 1
      BY <1>1, <2>2, <3>1 DEF Ahead
    <3>2. CASE ~(d = 1 /\ j = 1)
      <4>1. PICK h \in 1 .. l : h + d = j /\ h <= i
        <5>1. j - d \in 1 .. l /\ (j - d) + d = j /\ j - d <= i
          BY <1>1, <2>2, <3>2
        <5> QED BY <5>1
      <4>2. chan'[n][h] = chan[n][j]
        BY <1>1, <4>1
      <4> QED BY <1>1, <2>2, <4>1, <4>2 DEF Ahead
    <3> QED BY <3>1, <3>2
  <2> QED BY <1>1, <1>3, <2>1, <2>2 DEF Ahead
<1>4. \A i \in 1 .. l : i \in Nat /\ i + d \in 1 .. k
  BY <1>1
<1>5. NoEobYet(n)'
  <2>1. d = 1 => 1 \in 1 .. k
    BY <1>1
  <2> QED BY <1>1, <1>2, <1>4, <2>1 DEF EobLast, NoEobYet
<1>6. SentAhead(n)'
  BY <1>1, <1>2, <1>3 DEF EobLast, SentAhead
<1>7. ChanEob(n)'
  BY <1>1, <1>2, <1>3, <1>4 DEF EobLast, ChanEob
<1>8. HeldEob(n)'
  <2> SUFFICES ASSUME reader'[p].held # None, reader'[p].held.t = "EOB", NEW x \in Announced(n)
               PROVE  x \in NamesIn(n)' \/ Has(reader'[p], x)
    BY <1>2 DEF HeldEob
  <2>1. CASE reader[p].held # None /\ reader[p].held.t = "EOB"
    BY <2>1 DEF EobLast, HeldEob
  <2>2. CASE d = 1 /\ chan[n][1].t = "EOB"
    <3>1. 1 \in 1 .. k /\ \A j \in 1 .. k : j <= 1 => j = 1
      BY <1>1, <2>2
    <3>2. Ahead(n, x, 1)
      BY <1>1, <2>2, <3>1 DEF EobLast, ChanEob
    <3>3. x \in NamesIn(n) \/ Has(reader[p], x)
      BY <1>1, <2>2, <3>1, <3>2 DEF Ahead
    <3> QED BY <3>3
  <2> QED BY <2>1, <2>2
<1>9. HandledEob(n)'
  <2>1. CASE theySentEOB[p]
    BY <1>2, <2>1 DEF EobLast, HandledEob
  <2>2. CASE reader[p].held # None /\ reader[p].held.t = "EOB" /\ reader[p].cur = None
    <3>1. \A x \in Announced(n) : x \in NamesIn(n)
      BY <2>2 DEF EobLast, HeldEob, Has
    <3> QED BY <1>2, <3>1 DEF HandledEob
  <2> QED BY <2>1, <2>2 DEF HandledEob
<1> QED BY <1>5, <1>6, <1>7, <1>8, <1>9 DEF EobLast

\* What was announced stays ahead while nothing more is.
LEMMA SentAheadKept ==
  ASSUME NEW n \in Node, TypeOK, SentAhead(n), inbox'[Peer[n]] = inbox[Peer[n]],
         reader'[Peer[n]] = reader[Peer[n]],
         \/ chan'[n] = chan[n]
         \/ \E fr \in Frame : chan'[n] = Append(chan[n], fr),
         sentFileMap'[n] = sentFileMap[n], BeforeEob(n)' => BeforeEob(n), Dead(n) => Dead(n)',
         BeforeEob(n)' /\ sender[n].pc = "header" =>
           sender'[n].pc = "header" /\ Current(n)' = Current(n)
  PROVE  SentAhead(n)'
<1>1. PICK k \in Nat : k = Len(chan[n])
  BY LenProperties DEF TypeOK
<1>2. Len(chan'[n]) = k \/ Len(chan'[n]) = k + 1
  BY <1>1, AppendProperties DEF TypeOK
<1>3. \A x : Ahead(n, x, k) => Ahead(n, x, k)'
  BY AheadGrows
<1>4. \A x : Ahead(n, x, k)' => Ahead(n, x, Len(chan[n]))'
  <2>1. PICK l \in Nat : l = Len(chan'[n])
    BY <1>1, <1>2
  <2>2. \A j \in 1 .. l : j <= k => j <= l
    OBVIOUS
  <2> QED BY <2>1, <2>2 DEF Ahead
<1>5. Announced(n)' = Announced(n)
  BY DEF Announced
<1> QED BY <1>1, <1>3, <1>4, <1>5 DEF SentAhead

\* The senders' steps that announce nothing.
LEMMA SenderEobMoves ==
  ASSUME NEW m \in Node, TypeOK, EobLast(m), Sender(m), ~SendHeader(m),
         sender'[m].pc # "header"
  PROVE  EobLast(m)'
<1> USE DEF spoolVars, tcpVars, eobVars, SenderAt
<1>1. /\ UNCHANGED <<inbox, reader, state>>
      /\ theySentEOB' = theySentEOB /\ lost' = lost
  BY DEF Sender, StatFile, OpenFile, SendData, FileSent, RemoveFlow, SendEob,
     FlagEob, SendRefusal, SendError, CloseOnError, Write, WriteError, Close
<1>2. Peer[m] \in Node /\ Peer[m] # m
  BY Peers
<1>3. ASSUME StatFile(m) PROVE NextFile(m) /\ sentFileMap' = sentFileMap
  <2>1. ~SenderGoto(m, "header")
    BY SenderGotoType DEF TypeOK
  <2> QED BY <1>3, <2>1 DEF StatFile
<1>4. Dead(m)' = Dead(m)
  BY <1>1, <1>2 DEF TypeOK, Dead, Sender, StatFile, OpenFile, SendData, FileSent, RemoveFlow,
     SendEob, FlagEob, SendRefusal, SendError, CloseOnError, Write, WriteError, Close
<1>5. /\ sender'[m].pc \in {"stat", "open", "data", "eob", "flag", "fail", "done"}
      /\ BeforeEob(m)' => BeforeEob(m) /\ sender[m].pc # "header"
  <2>1. CASE StatFile(m) \/ FileSent(m)
    <3>1. sender'[m].pc = "stat" /\ sender[m].pc \in {"stat", "data"} /\ state[m] = "open"
      BY <1>3, <2>1, NextFileType DEF StatFile, FileSent, TypeOK
    <3> QED BY <3>1 DEF BeforeEob
  <2>2. CASE OpenFile(m)
    <3>1. sender'[m].pc \in {"stat", "data"} /\ sender[m].pc = "open" /\ state[m] = "open"
      BY <2>2, NextFileType, SenderGotoType DEF OpenFile, TypeOK
    <3> QED BY <3>1 DEF BeforeEob
  <2>3. CASE SendData(m)
    <3>1. sender'[m].pc = sender[m].pc /\ sender[m].pc = "data" /\ state[m] = "open"
      BY <2>3 DEF SendData, TypeOK, SenderState
    <3> QED BY <3>1 DEF BeforeEob
  <2>4. CASE RemoveFlow(m)
    <3>1. sender'[m].pc = "eob" /\ sender[m].pc = "stat" /\ state[m] = "open"
      BY <2>4, SenderGotoType DEF RemoveFlow, TypeOK
    <3> QED BY <3>1 DEF BeforeEob
  <2>5. CASE SendEob(m) \/ FlagEob(m) \/ SendRefusal(m) \/ SendError(m) \/ CloseOnError(m)
    <3>1. sender'[m].pc \in {"flag", "fail", "done"}
      BY <2>5, SenderGotoType DEF SendEob, FlagEob, SendRefusal, SendError, CloseOnError, TypeOK
    <3> QED BY <3>1 DEF BeforeEob
  <2> QED BY <2>1, <2>2, <2>3, <2>4, <2>5 DEF Sender
<1>6. \/ chan'[m] = chan[m]
      \/ \E fr \in Frame :
           /\ chan'[m] = Append(chan[m], fr)
           /\ fr.t = "EOB" => /\ BeforeEob(m) /\ ~BeforeEob(m)' /\ ~Dead(m)
                              /\ sender[m].pc # "header"
  <2>1. CASE SendEob(m) \/ SendRefusal(m)
    <3>1. PICK fr \in Frame : fr = [t |-> "EOB"]
      BY DEF Frame
    <3>2. chan'[m] = chan[m] \/ (~Dead(m) /\ chan'[m] = Append(chan[m], fr))
      BY <2>1, <3>1 DEF SendEob, SendRefusal, Write, TypeOK
    <3>3. BeforeEob(m) /\ sender[m].pc # "header"
      BY <2>1 DEF SendEob, SendRefusal, BeforeEob
    <3>4. sender'[m].pc \in {"flag", "fail"}
      BY <2>1, SenderGotoType DEF SendEob, SendRefusal, TypeOK
    <3>5. ~BeforeEob(m)'
      BY <3>4 DEF BeforeEob
    <3> QED BY <3>2, <3>3, <3>5
  <2>2. CASE SendData(m)
    <3>1. Current(m).file \in File
      BY <2>2, CurrentType DEF SendData, TypeOK, SenderPoint, Entry
    <3>2. PICK fr \in Frame : fr = [t |-> "DATA", block |-> Current(m).file]
      BY <3>1 DEF Frame
    <3>3. chan'[m] = chan[m] \/ chan'[m] = Append(chan[m], fr)
      BY <2>2, <3>2 DEF SendData, Write, TypeOK
    <3>4. fr.t # "EOB"
      BY <3>2
    <3> QED BY <3>3, <3>4
  <2>3. CASE ~(SendEob(m) \/ SendRefusal(m) \/ SendData(m))
    BY <2>3 DEF Sender, StatFile, OpenFile, FileSent, RemoveFlow, FlagEob, SendError,
       CloseOnError, WriteError, Close
  <2> QED BY <2>1, <2>2, <2>3
<1>7. sentFileMap' = sentFileMap
  BY <1>3 DEF Sender, OpenFile, SendData, FileSent, RemoveFlow, SendEob, FlagEob, SendRefusal,
     SendError, CloseOnError
<1>8. SentAhead(m)'
  <2>1. chan'[m] = chan[m] \/ \E fr \in Frame : chan'[m] = Append(chan[m], fr)
    BY <1>6
  <2> QED BY <1>1, <1>4, <1>5, <1>7, <2>1, SentAheadKept DEF EobLast
<1> QED BY <1>1, <1>5, <1>6, <1>7, <1>8, EobWritten

\* StatFile announces nothing yet: the name is new in the map, and M_EOB is not
\* written.
LEMMA StatFileEob ==
  ASSUME NEW m \in Node, TypeOK, EobLast(m), StatFile(m), sender'[m].pc = "header"
  PROVE  EobLast(m)'
<1> USE DEF spoolVars, tcpVars, eobVars, SenderAt
<1>1. ~NextFile(m)
  BY NextFileType DEF TypeOK
<1>2. /\ UNCHANGED <<inbox, reader, state, chan, closed, lost, theySentEOB>>
      /\ SenderGoto(m, "header") /\ flow' = flow /\ sessions' = sessions
      /\ sentFileMap' = [sentFileMap EXCEPT ![m] = Put(@, Current(m))]
      /\ BeforeEob(m)
  BY <1>1 DEF StatFile, BeforeEob
<1>3. sender'[m].pc = "header" /\ sender'[m].pos = sender[m].pos
  BY <1>2, SenderGotoType DEF TypeOK
<1>4. Current(m)' = Current(m)
  BY <1>2, <1>3, WorkKept DEF Current
<1>5. Announced(m)' \subseteq Announced(m) \cup {Current(m).name}
  <2>1. sentFileMap'[m] \subseteq sentFileMap[m] \cup {Current(m)}
    BY <1>2 DEF TypeOK, Put
  <2> QED BY <2>1 DEF Announced
<1>6. BeforeEob(m)'
  BY <1>2, <1>3 DEF BeforeEob
<1>7. NoEobYet(m)'
  BY <1>2, <1>6 DEF EobLast, NoEobYet
<1>8. SentAhead(m)'
  <2>1. \A x : Ahead(m, x, Len(chan[m]))' = Ahead(m, x, Len(chan[m]))
    BY <1>2 DEF Ahead, NamesIn
  <2>2. Dead(m)' = Dead(m) /\ sender[m].pc = "stat"
    BY <1>2 DEF Dead, StatFile
  <2>3. \A x \in Announced(m) : ~Dead(m) => Ahead(m, x, Len(chan[m]))
    BY <1>2, <2>2 DEF EobLast, SentAhead
  <2> QED BY <1>3, <1>4, <1>5, <2>1, <2>2, <2>3 DEF SentAhead
<1>9. ChanEob(m)' /\ HeldEob(m)' /\ HandledEob(m)'
  BY <1>2, <1>6, <1>7 DEF EobLast, NoEobYet, ChanEob, HeldEob, HandledEob
<1> QED BY <1>2, <1>7, <1>8, <1>9 DEF EobLast

\* SendHeader announces it.
LEMMA SendHeaderEob ==
  ASSUME NEW m \in Node, TypeOK, EobLast(m), SendHeader(m)
  PROVE  EobLast(m)'
<1> USE DEF spoolVars, eobVars, SenderAt
<1>1. /\ UNCHANGED <<inbox, reader, state, theySentEOB, sentFileMap>>
      /\ BeforeEob(m) /\ SenderGoto(m, "open")
  BY DEF SendHeader, BeforeEob
<1>2. Current(m) \in Entry
  BY CurrentType DEF SendHeader, TypeOK, SenderPoint
<1>3. PICK fr \in Frame :
        fr = [t |-> "FILE", name |-> Current(m).name, size |-> Size[Current(m).file]]
  BY <1>2, FileAssumption DEF Frame, Entry
<1>4. Write(m, fr)
  BY <1>3 DEF SendHeader
<1>5. /\ chan'[m] = chan[m] \/ chan'[m] = Append(chan[m], fr)
      /\ Dead(m)' = Dead(m)
  BY <1>4, WriteEffect
<1>6. fr.t # "EOB" /\ fr.t = "FILE" /\ fr.name = Current(m).name
  BY <1>3
<1>7. sender'[m].pc = "open"
  BY <1>1, SenderGotoType DEF TypeOK
<1>8. SentAhead(m)'
  <2> SUFFICES ASSUME ~Dead(m), NEW x \in Announced(m)
               PROVE  Ahead(m, x, Len(chan[m]))'
    BY <1>1, <1>5 DEF SentAhead, Announced
  <2>1. chan'[m] = Append(chan[m], fr)
    BY <1>4 DEF Write, TypeOK
  <2>2. PICK k \in Nat : k = Len(chan[m])
    BY LenProperties DEF TypeOK
  <2>3. Len(chan'[m]) = k + 1 /\ chan'[m][k + 1] = fr /\ k + 1 \in 1 .. k + 1
    BY <2>1, <2>2, AppendProperties DEF TypeOK
  <2>4. CASE x = Current(m).name
    BY <1>6, <2>3, <2>4 DEF Ahead
  <2>5. CASE x # Current(m).name
    <3>1. Ahead(m, x, k)
      BY <1>1, <2>2, <2>5 DEF EobLast, SentAhead
    <3>2. Ahead(m, x, k)'
      BY <1>1, <2>1, <3>1, AheadGrows
    <3>3. \A j \in 1 .. k + 1 : j <= k + 1
      BY <2>2
    <3> QED BY <2>3, <3>2, <3>3 DEF Ahead
  <2> QED BY <2>4, <2>5
<1>9. BeforeEob(m)'
  BY <1>1, <1>7 DEF BeforeEob
<1> QED BY <1>1, <1>5, <1>6, <1>8, <1>9, EobWritten

\* No step of a sender lets M_EOB overtake a file.
LEMMA SenderEob ==
  ASSUME NEW m \in Node, TypeOK, \A n \in Node : EobLast(n), Sender(m)
  PROVE  \A n \in Node : EobLast(n)'
<1> USE DEF spoolVars, tcpVars, eobVars, SenderAt
<1>1. EobLast(m)'
  <2>1. CASE sender'[m].pc # "header" /\ ~SendHeader(m)
    BY <2>1, SenderEobMoves
  <2>2. CASE sender'[m].pc = "header" /\ ~SendHeader(m)
    <3>1. sender \in [Node -> SenderState]
      BY DEF TypeOK
    <3>2. StatFile(m)
      BY <2>2, <3>1, SenderGotoType, NextFileType
      DEF Sender, OpenFile, SendData, FileSent, RemoveFlow, SendEob, FlagEob,
          SendRefusal, SendError, CloseOnError, SenderState
    <3> QED BY <2>2, <3>2, StatFileEob
  <2> QED BY <2>1, <2>2, SendHeaderEob
<1>2. ASSUME NEW n \in Node, n # m PROVE EobLast(n)'
  <2>1. Peer[n] \in Node /\ Peer[n] # n
    BY Peers
  <2>2. /\ UNCHANGED <<inbox, reader, state, sessions, theySentEOB>>
        /\ flow'[n] = flow[n] /\ sentFileMap'[n] = sentFileMap[n] /\ sender'[n] = sender[n]
    BY <1>2 DEF TypeOK, Sender, StatFile, SendHeader, OpenFile, SendData, FileSent,
       RemoveFlow, SendEob, FlagEob, SendRefusal, SendError, CloseOnError, SenderGoto, NextFile
  <2>3. chan'[n] = chan[n] /\ (Dead(n) => Dead(n)')
    BY <1>2, <2>1 DEF TypeOK, Sender, StatFile, SendHeader, OpenFile, SendData, FileSent,
       RemoveFlow, SendEob, FlagEob, SendRefusal, SendError, CloseOnError, Write, WriteError,
       Close, Dead
  <2> QED BY <2>2, <2>3, EobElsewhere
<1> QED BY <1>1, <1>2

\* The reader takes a frame.
LEMMA EobTake ==
  ASSUME NEW m \in Node, NEW p \in Node, p = Peer[m], TypeOK, EobLast(p), state[m] = "open",
         NEW types, Read(m, types),
         UNCHANGED <<inbox, flow, sentFileMap, theySentEOB, sender, state, sessions>>,
         reader[m].held = None,
         \A x : Has(reader[m], x) => Has(reader'[m], x),
         NextFrame(m).t = "FILE" => Has(reader'[m], NextFrame(m).name),
         reader'[m].held # None /\ reader'[m].held.t = "EOB" => NextFrame(m).t = "EOB",
         reader'[m].pc # "skip"
  PROVE  EobLast(p)'
<1>1. Peer[p] = m
  BY Peers
<1>2. /\ chan[p] \in Seq(Frame) /\ chan[p] # <<>> /\ chan'[p] = Tail(chan[p])
      /\ closed' = closed /\ lost' = lost /\ NextFrame(m) = Head(chan[p])
  BY DEF TypeOK, Read, NextFrame
<1>3. /\ chan'[p] \in Seq(Frame) /\ NextFrame(m) = chan[p][1]
      /\ Len(chan'[p]) = Len(chan[p]) - 1
      /\ \A i \in 1 .. Len(chan'[p]) : chan'[p][i] = chan[p][i + 1]
  BY <1>2, HeadTailProperties
<1>4. PICK d \in {0, 1} : d = 1
  OBVIOUS
<1>5. Without(chan[p], d, chan'[p])
  <2>1. PICK k \in Nat : k = Len(chan[p])
    BY <1>2, LenProperties
  <2>2. Len(chan[p]) = Len(chan'[p]) + 1
    BY <1>3, <2>1
  <2> QED BY <1>3, <1>4, <2>2 DEF Without
<1>6. NamesIn(p)' = NamesIn(p) /\ Dead(p)' = Dead(p)
  BY <1>2 DEF NamesIn, Dead
<1>7. /\ chan[p][1].t = "FILE" => Has(reader'[m], chan[p][1].name)
      /\ reader'[m].held # None /\ reader'[m].held.t = "EOB" => chan[p][1].t = "EOB"
  BY <1>3
<1> QED BY <1>1, <1>3, <1>4, <1>5, <1>6, <1>7, EobRead

\* The reader takes none.
LEMMA EobStay ==
  ASSUME NEW m \in Node, NEW p \in Node, p = Peer[m], TypeOK, EobLast(p), state[m] = "open",
         chan'[p] = chan[p], Dead(p)' = Dead(p),
         UNCHANGED <<flow, sentFileMap, sender, state, sessions>>,
         NamesIn(p) \subseteq NamesIn(p)',
         \A x : Has(reader[m], x) => x \in NamesIn(p)' \/ Has(reader'[m], x),
         reader'[m].held # None /\ reader'[m].held.t = "EOB" =>
           reader[m].held # None /\ reader[m].held.t = "EOB",
         theySentEOB'[m] =>
           \/ theySentEOB[m]
           \/ reader[m].held # None /\ reader[m].held.t = "EOB" /\ reader[m].cur = None,
         reader'[m].pc # "skip"
  PROVE  EobLast(p)'
<1>1. Peer[p] = m
  BY Peers
<1>2. PICK d \in {0, 1} : d = 0
  OBVIOUS
<1>3. chan[p] \in Seq(Frame)
  BY DEF TypeOK
<1>4. Without(chan[p], d, chan'[p])
  <2>1. PICK k \in Nat : k = Len(chan[p])
    BY <1>3, LenProperties
  <2>2. k + d = k /\ \A i \in 1 .. k : i + d = i
    BY <1>2
  <2> QED BY <2>1, <2>2 DEF Without
<1> QED BY <1>1, <1>2, <1>3, <1>4, EobRead

\* Between frames the reader holds none.
LEMMA NothingHeld ==
  ASSUME NEW m \in Node, IInv, ReaderAt(m, "read")
  PROVE  reader[m].held = None
<1>1. PICK p \in Node : p = Peer[m]
  BY Peers
<1>2. PICK a \in Place : ReaderIsAt(p, a)
  BY DEF IInv, Delivery, Stream
<1> QED BY <1>1, <1>2, ReaderHas DEF Reads, ReaderAt

\* The handlers: a reader takes M_EOB when it has no frame, and handles it when
\* it has no file, which the disk took.
LEMMA PeerEob ==
  ASSUME NEW m \in Node, NEW p \in Node, p = Peer[m], IInv, EobLast(p), Reader(m),
         "disk" \notin Faults
  PROVE  EobLast(p)'
<1> USE DEF spoolVars, tcpVars, eobVars, ReaderAt
<1>1. /\ state[m] = "open" /\ UNCHANGED <<flow, sentFileMap, sender, state, sessions>>
      /\ TypeOK /\ reader \in [Node -> ReaderState] /\ Peer[p] = m /\ p # m
      /\ reader[m] \in ReaderState /\ ReaderPoint(m) /\ Delivery(p)
  BY Peers DEF IInv, TypeOK, Reader, ReceiveCommand, ReceiveData, ReceiveGot, ReceiveSkip,
     FinishFile, Confirm, HandleFile, SendSkip, HandleEob, ReadEnd
<1>2. reader[m].pc # "skip"
  BY <1>1 DEF EobLast
<1>3. CASE ReceiveCommand(m)
  <2>1. /\ Read(m, {"FILE", "EOB"}) /\ reader[m].held = None
        /\ UNCHANGED <<inbox, theySentEOB>>
    BY <1>3, NothingHeld DEF ReceiveCommand
  <2>2. /\ reader'[m].held = NextFrame(m) /\ reader'[m].cur = reader[m].cur
        /\ reader'[m].pc = "handle"
    BY <1>1, <1>3 DEF ReceiveCommand, ReaderState
  <2>3. NextFrame(m) \in Frame /\ NextFrame(m) # None
    BY <1>1, <2>1, ReadType, NoneAssumption
  <2>4. \A x : Has(reader[m], x) => Has(reader'[m], x)
    BY <2>1, <2>2 DEF Has
  <2>5. NextFrame(m).t = "FILE" => Has(reader'[m], NextFrame(m).name)
    BY <2>2, <2>3 DEF Has
  <2> QED BY <1>1, <2>1, <2>2, <2>4, <2>5, EobTake
<1>4. CASE ReceiveData(m)
  <2>1. /\ Read(m, {"DATA"}) /\ reader[m].held = None /\ reader[m].pc = "read"
        /\ UNCHANGED <<inbox, theySentEOB>>
    BY <1>4, NothingHeld DEF ReceiveData
  <2>2. NextFrame(m) \in Frame /\ NextFrame(m).t = "DATA"
    BY <1>1, <2>1, ReadType
  <2>3. /\ reader'[m].held = None /\ reader'[m].pc # "skip"
        /\ \A x : Has(reader[m], x) => Has(reader'[m], x)
    <3>1. CASE reader[m].cur = None
      BY <1>4, <2>1, <3>1 DEF ReceiveData
    <3>2. CASE reader[m].cur # None
      <4>1. PICK c : c = Extended(m)
        OBVIOUS
      <4>2. reader[m].cur \in Incoming /\ NextFrame(m).block \in File
        BY <1>1, <2>2, <3>2 DEF ReaderState, Frame
      <4>3. c \in Incoming /\ c.name = reader[m].cur.name
        BY <4>1, <4>2, AppendProperties DEF Incoming, Extended
      <4>4. /\ reader'[m].cur = c /\ reader'[m].held = None
            /\ reader'[m].pc \in {"read", "handle"}
        BY <1>1, <1>4, <2>1, <3>2, <4>1 DEF ReceiveData, ReaderState
      <4> QED BY <2>1, <4>3, <4>4, NoneAssumption DEF Has
    <3> QED BY <3>1, <3>2
  <2> QED BY <1>1, <2>1, <2>2, <2>3, EobTake
<1>5. CASE ReceiveGot(m) \/ ReceiveSkip(m)
  <2>1. PICK types \in {{"GOT"}, {"SKIP"}} : Read(m, types)
    BY <1>5 DEF ReceiveGot, ReceiveSkip
  <2>2. /\ UNCHANGED <<inbox, theySentEOB, reader>> /\ reader[m].held = None
    BY <1>5, NothingHeld DEF ReceiveGot, ReceiveSkip
  <2>3. NextFrame(m).t \in types
    BY <2>1 DEF Read
  <2> QED BY <1>1, <1>2, <2>1, <2>2, <2>3, EobTake
<1>6. CASE FinishFile(m)
  <2>1. /\ inbox' = [inbox EXCEPT ![m] = Put(@, InboxItem(m))] /\ ReaderGoto(m, "confirm")
        /\ UNCHANGED <<chan, closed, lost, theySentEOB>>
    BY <1>6 DEF FinishFile
  <2>2. /\ reader'[m].pc = "confirm" /\ reader'[m].cur = reader[m].cur
        /\ reader'[m].held = reader[m].held
    BY <1>1, <2>1, ReaderGotoType
  <2>3. inbox'[m] = Put(inbox[m], InboxItem(m))
    BY <1>1, <2>1 DEF TypeOK
  <2>4. NamesIn(p) \subseteq NamesIn(p)'
    BY <1>1, <2>3 DEF NamesIn, Put
  <2>5. \A x : Has(reader[m], x) => Has(reader'[m], x)
    BY <2>2 DEF Has
  <2> QED BY <1>1, <2>1, <2>2, <2>4, <2>5, EobStay DEF Dead
<1>7. CASE Confirm(m)
  <2>1. /\ UNCHANGED <<inbox, theySentEOB>> /\ reader[m].pc = "confirm"
        /\ reader[m].cur # None
    BY <1>1, <1>7 DEF Confirm, ReaderPoint
  <2>2. reader[m].cur.name \in NamesIn(p) /\ NamesIn(p)' = NamesIn(p)
    BY <1>1, <2>1, ReceivedWhole DEF NamesIn
  <2>3. /\ reader'[m].cur = None /\ reader'[m].held = reader[m].held
        /\ reader'[m].pc # "skip"
    BY <1>1, <1>7 DEF Confirm, ReaderState, AfterFile
  <2>4. chan'[p] = chan[p] /\ Dead(p)' = Dead(p)
    BY <1>1, <1>7 DEF Confirm, Write, WriteError, TypeOK, Dead
  <2>5. \A x : Has(reader[m], x) => x \in NamesIn(p)' \/ Has(reader'[m], x)
    BY <2>2, <2>3 DEF Has
  <2> QED BY <1>1, <2>1, <2>2, <2>3, <2>4, <2>5, EobStay
<1>8. CASE HandleFile(m)
  <2>1. PICK c : c = [name |-> reader[m].held.name, size |-> reader[m].held.size,
                      content |-> <<>>]
    OBVIOUS
  <2>2. /\ reader'[m] = [pc |-> "read", held |-> None, cur |-> c]
        /\ reader[m].cur = None /\ reader[m].held.t = "FILE" /\ reader[m].held # None
        /\ UNCHANGED <<inbox, chan, closed, lost, theySentEOB>>
    BY <1>1, <1>8, <2>1 DEF HandleFile, ReaderPoint
  <2>3. c \in Incoming
    <3>1. reader[m].held \in Frame
      BY <1>1, <2>2 DEF ReaderState
    <3>2. reader[m].held.name \in WireName /\ reader[m].held.size \in Nat
      BY <2>2, <3>1 DEF Frame
    <3> QED BY <2>1, <3>2, EmptySeq DEF Incoming
  <2>4. \A x : Has(reader[m], x) => Has(reader'[m], x)
    BY <2>1, <2>2, <2>3, NoneAssumption DEF Has
  <2>5. NamesIn(p)' = NamesIn(p) /\ Dead(p)' = Dead(p)
    BY <2>2 DEF NamesIn, Dead
  <2> QED BY <1>1, <2>2, <2>4, <2>5, EobStay
<1>9. CASE HandleEob(m)
  <2>1. /\ reader[m].cur = None /\ reader[m].held.t = "EOB" /\ reader[m].held # None
        /\ UNCHANGED <<inbox, chan, closed, lost>>
    BY <1>1, <1>9 DEF HandleEob, ReaderPoint
  <2>2. reader'[m].held = None /\ reader'[m].pc # "skip"
    BY <1>1, <1>9 DEF HandleEob, ReaderState
  <2>3. \A x : ~Has(reader[m], x)
    BY <2>1 DEF Has
  <2>4. NamesIn(p)' = NamesIn(p) /\ Dead(p)' = Dead(p)
    BY <2>1 DEF NamesIn, Dead
  <2> QED BY <1>1, <2>1, <2>2, <2>3, <2>4, EobStay
<1>10. CASE ReadEnd(m)
  <2>1. PICK pc \in {"ok", "err"} : ReaderGoto(m, pc)
    BY <1>10 DEF ReadEnd
  <2>2. pc \in {"read", "handle", "confirm", "skip", "ok", "err"} /\ pc # "skip"
    OBVIOUS
  <2>3. /\ reader'[m].pc # "skip" /\ reader'[m].cur = reader[m].cur
        /\ reader'[m].held = reader[m].held
    BY <1>1, <2>1, <2>2, ReaderGotoType
  <2>4. UNCHANGED <<inbox, chan, closed, lost, theySentEOB>>
    BY <1>10 DEF ReadEnd
  <2>5. \A x : Has(reader[m], x) => Has(reader'[m], x)
    BY <2>3 DEF Has
  <2>6. NamesIn(p)' = NamesIn(p) /\ Dead(p)' = Dead(p)
    BY <2>4 DEF NamesIn, Dead
  <2> QED BY <1>1, <2>3, <2>4, <2>5, <2>6, EobStay
<1>11. ~SendSkip(m)
  BY <1>2 DEF SendSkip
<1> QED BY <1>3, <1>4, <1>5, <1>6, <1>7, <1>8, <1>9, <1>10, <1>11 DEF Reader

\* No step of a reader does.
LEMMA ReaderEob ==
  ASSUME NEW m \in Node, IInv, \A n \in Node : EobLast(n), Reader(m), "disk" \notin Faults
  PROVE  \A n \in Node : EobLast(n)'
<1> USE DEF spoolVars, tcpVars, eobVars, ReaderAt
<1>1. TypeOK /\ UNCHANGED <<flow, sentFileMap, sender, state, sessions>>
  BY DEF IInv, Reader, ReceiveCommand, ReceiveData, ReceiveGot, ReceiveSkip, FinishFile, Confirm,
     HandleFile, SendSkip, HandleEob, ReadEnd
<1>2. ASSUME NEW n \in Node, n # Peer[m]
      PROVE  /\ inbox'[Peer[n]] = inbox[Peer[n]] /\ reader'[Peer[n]] = reader[Peer[n]]
             /\ theySentEOB'[Peer[n]] = theySentEOB[Peer[n]] /\ Dead(n)' = Dead(n)
  <2>1. Peer[n] \in Node /\ Peer[n] # m
    BY <1>2, Peers
  <2>2. inbox'[Peer[n]] = inbox[Peer[n]] /\ theySentEOB'[Peer[n]] = theySentEOB[Peer[n]]
    BY <1>1, <2>1 DEF TypeOK, Reader, ReceiveCommand, ReceiveData, ReceiveGot, ReceiveSkip,
       FinishFile, Confirm, HandleFile, SendSkip, HandleEob, ReadEnd
  <2>3. reader'[Peer[n]] = reader[Peer[n]]
    BY <1>1, <2>1 DEF TypeOK, Reader, ReceiveCommand, ReceiveData, ReceiveGot, ReceiveSkip,
       FinishFile, Confirm, HandleFile, SendSkip, HandleEob, ReadEnd, ReaderGoto
  <2>4. closed' = closed /\ lost' = lost
    BY DEF Reader, ReceiveCommand, ReceiveData, ReceiveGot, ReceiveSkip, FinishFile, Confirm,
       HandleFile, SendSkip, HandleEob, ReadEnd, Read, Write, WriteError
  <2> QED BY <2>2, <2>3, <2>4 DEF Dead
<1>3. EobLast(m)'
  <2>1. m # Peer[m] /\ Peer[Peer[m]] = m /\ Peer[m] \in Node
    BY Peers
  <2>2. \/ chan'[m] = chan[m]
        \/ \E fr \in Frame : chan'[m] = Append(chan[m], fr) /\ fr.t # "EOB"
    <3>1. CASE Confirm(m)
      <4>1. PICK fr \in Frame : fr = [t |-> "GOT", name |-> reader[m].cur.name]
        BY <1>1, <3>1 DEF Confirm, TypeOK, ReaderPoint, ReaderState, Incoming, Frame
      <4>2. chan'[m] = chan[m] \/ chan'[m] = Append(chan[m], fr)
        BY <1>1, <3>1, <4>1 DEF Confirm, Write, WriteError, TypeOK
      <4> QED BY <4>1, <4>2
    <3>2. CASE SendSkip(m)
      <4>1. reader[m].held.name \in WireName
        BY <1>1, <3>2 DEF SendSkip, TypeOK, ReaderPoint, ReaderState, Frame
      <4>2. PICK fr \in Frame : fr = [t |-> "SKIP", name |-> reader[m].held.name]
        BY <4>1 DEF Frame
      <4>3. chan'[m] = chan[m] \/ chan'[m] = Append(chan[m], fr)
        BY <1>1, <3>2, <4>2 DEF SendSkip, Write, WriteError, TypeOK
      <4> QED BY <4>2, <4>3
    <3>3. CASE ~(Confirm(m) \/ SendSkip(m))
      BY <1>1, <2>1, <3>3 DEF TypeOK, Reader, ReceiveCommand, ReceiveData, ReceiveGot,
         ReceiveSkip, FinishFile, HandleFile, HandleEob, ReadEnd, Read
    <3> QED BY <3>1, <3>2, <3>3
  <2>3. Current(m)' = Current(m) /\ BeforeEob(m)' = BeforeEob(m)
    BY <1>1, WorkKept DEF Current, BeforeEob
  <2>4. chan'[m] = chan[m] \/ \E fr \in Frame : chan'[m] = Append(chan[m], fr)
    BY <2>2
  <2>5. SentAhead(m)'
    BY <1>1, <1>2, <2>1, <2>3, <2>4, SentAheadKept DEF EobLast
  <2> QED BY <1>1, <1>2, <2>1, <2>2, <2>3, <2>5, EobWritten
<1>4. EobLast(Peer[m])'
  BY Peers, PeerEob
<1>5. ASSUME NEW n \in Node, n # m, n # Peer[m] PROVE EobLast(n)'
  <2>1. Peer[m] # n /\ Peer[m] \in Node
    BY <1>5, Peers
  <2>2. chan'[n] = chan[n]
    BY <1>1, <1>5, <2>1 DEF TypeOK, Reader, ReceiveCommand, ReceiveData, ReceiveGot, ReceiveSkip,
       FinishFile, Confirm, HandleFile, SendSkip, HandleEob, ReadEnd, Read, Write, WriteError
  <2> QED BY <1>1, <1>2, <1>5, <2>2, EobElsewhere
<1> QED BY <1>3, <1>4, <1>5

\* The session of a node ends, or its process dies.
LEMMA OverEob ==
  ASSUME NEW m \in Node, TypeOK, \A n \in Node : EobLast(n), EndSession(m) \/ Crash(m)
  PROVE  \A n \in Node : EobLast(n)'
<1> USE DEF spoolVars, eobVars
<1>1. /\ UNCHANGED <<inbox, chan, lost, flow, sessions>>
      /\ closed' = [closed EXCEPT ![m] = TRUE]
      /\ state'[m] # "open" /\ \A k \in Node \ {m} : state'[k] = state[k]
  BY DEF EndSession, Crash, Close, TypeOK
<1>2. \A k \in Node \ {m} : /\ reader'[k] = reader[k] /\ sender'[k] = sender[k]
                            /\ theySentEOB'[k] = theySentEOB[k]
                            /\ sentFileMap'[k] = sentFileMap[k]
  BY DEF EndSession, Crash, TypeOK
<1>3. /\ reader'[m] = reader[m] \/ reader'[m] = NewReader
      /\ theySentEOB'[m] = theySentEOB[m] \/ theySentEOB'[m] = FALSE
      /\ sentFileMap'[m] = sentFileMap[m] \/ sentFileMap'[m] = {}
  BY DEF EndSession, Crash, TypeOK
<1>4. closed'[m] = TRUE /\ \A k \in Node : closed[k] => closed'[k]
  BY <1>1 DEF TypeOK
<1>5. EobLast(m)'
  <2>1. Peer[m] \in Node \ {m}
    BY Peers
  <2>2. Announced(m)' \subseteq Announced(m) /\ ~BeforeEob(m)' /\ NamesIn(m)' = NamesIn(m)
    BY <1>1, <1>3 DEF Announced, BeforeEob, NamesIn
  <2>3. \A x, i : Ahead(m, x, i)' = Ahead(m, x, i)
    BY <1>1, <1>2, <2>1, <2>2 DEF Ahead
  <2> QED BY <1>1, <1>2, <2>1, <2>2, <2>3
          DEF EobLast, NoEobYet, SentAhead, ChanEob, HeldEob, HandledEob
<1>6. ASSUME NEW n \in Node, Peer[n] = m PROVE EobLast(n)'
  <2>1. n # m
    BY <1>6, Peers
  <2>2. Announced(n)' = Announced(n) /\ BeforeEob(n)' = BeforeEob(n) /\ NamesIn(n)' = NamesIn(n)
    BY <1>1, <1>2, <2>1 DEF Announced, BeforeEob, NamesIn
  <2>3. Dead(n)'
    BY <1>4, <1>6 DEF Dead
  <2> QED BY <1>1, <1>3, <1>6, <2>2, <2>3
          DEF EobLast, NoEobYet, SentAhead, ChanEob, HeldEob, HandledEob, NewReader
<1>7. ASSUME NEW n \in Node, n # m, Peer[n] # m PROVE EobLast(n)'
  <2>1. Peer[n] \in Node
    BY Peers
  <2>2. Dead(n) => Dead(n)'
    BY <1>1, <1>4, <2>1 DEF Dead
  <2> QED BY <1>1, <1>2, <1>7, <2>1, <2>2, EobElsewhere
<1> QED BY <1>5, <1>6, <1>7

\* The network keeps some first frames of each stream, and what was ahead of
\* them still is.
LEMMA CutEob ==
  ASSUME TypeOK, \A n \in Node : EobLast(n), Cut
  PROVE  \A n \in Node : EobLast(n)'
<1> SUFFICES ASSUME NEW n \in Node PROVE EobLast(n)'
  OBVIOUS
<1> USE DEF spoolVars, eobVars
<1>1. lost' /\ UNCHANGED <<inbox, sentFileMap, theySentEOB, reader, sender, state>>
  BY DEF Cut
<1>2. PICK k \in Nat, l \in Nat :
        k <= l /\ l = Len(chan[n]) /\ chan'[n] = SubSeq(chan[n], 1, k)
  <2>1. Len(chan[n]) \in Nat
    BY LenProperties DEF TypeOK
  <2> QED BY <2>1 DEF Cut
<1>3. Len(chan'[n]) = k /\ \A i \in 1 .. k : chan'[n][i] = chan[n][i]
  BY <1>2, SubSeqProperties DEF TypeOK
<1>4. \A i \in 1 .. k : i \in 1 .. l /\ \A j \in 1 .. l : j <= i => j \in 1 .. k
  BY <1>2
<1>5. /\ Announced(n)' = Announced(n) /\ BeforeEob(n)' = BeforeEob(n)
      /\ NamesIn(n)' = NamesIn(n) /\ Dead(n)'
  BY <1>1 DEF Announced, BeforeEob, NamesIn, Dead
<1>6. \A x : \A i \in 1 .. k : Ahead(n, x, i) => Ahead(n, x, i)'
  BY <1>1, <1>2, <1>3, <1>4, <1>5 DEF Ahead
<1>7. NoEobYet(n)' /\ SentAhead(n)'
  BY <1>1, <1>2, <1>3, <1>4, <1>5 DEF EobLast, NoEobYet, SentAhead
<1>8. ChanEob(n)'
  BY <1>1, <1>2, <1>3, <1>4, <1>5, <1>6 DEF EobLast, ChanEob
<1>9. HeldEob(n)' /\ HandledEob(n)'
  BY <1>1, <1>5 DEF EobLast, HeldEob, HandledEob
<1> QED BY <1>1, <1>7, <1>8, <1>9 DEF EobLast

\* A session begins with nothing announced.
LEMMA StartEob ==
  ASSUME NEW n \in Node, chan[n] = <<>>, sentFileMap[n] = {}, theySentEOB[Peer[n]] = FALSE,
         reader[Peer[n]] = NewReader
  PROVE  EobLast(n)
BY DEF EobLast, NoEobYet, SentAhead, ChanEob, HeldEob, HandledEob, NewReader, Announced

\* One step per action.
LEMMA NextEob ==
  ASSUME IInv, \A n \in Node : EobLast(n), [Next]_vars, "disk" \notin Faults
  PROVE  \A n \in Node : EobLast(n)'
<1>1. TypeOK /\ \A n \in Node : Peer[n] \in Node
  BY Peers DEF IInv
<1>2. CASE UNCHANGED vars
  <2>1. ASSUME NEW n \in Node PROVE EobLast(n)'
    BY <1>2, EobElsewhere DEF vars, Dead
  <2> QED BY <2>1
<1>3. CASE Redial
  <2>1. ASSUME NEW n \in Node PROVE EobLast(n)'
    <3>1. /\ chan'[n] = <<>> /\ sentFileMap'[n] = {} /\ theySentEOB'[Peer[n]] = FALSE
          /\ reader'[Peer[n]] = NewReader
      BY <1>1, <1>3 DEF Redial
    <3> QED BY <3>1
            DEF EobLast, NoEobYet, SentAhead, ChanEob, HeldEob, HandledEob, NewReader, Announced
  <2> QED BY <2>1
<1> QED BY <1>1, <1>2, <1>3, SenderEob, ReaderEob, OverEob, CutEob DEF Next, Terminated

\* When handleEOB has run, every file that the peer's sendFiles announced is in
\* the inbound directory: M_EOB overtakes no file, through cuts, timeouts,
\* crashes and further sessions, as long as the disk takes what is received.
THEOREM EobComesLast ==
  ASSUME DistinctQueues, "disk" \notin Faults
  PROVE  Spec => []EobMeansAllReceived
<1> DEFINE Inv == IInv /\ \A n \in Node : EobLast(n)
<1>1. Init => Inv
  <2> SUFFICES ASSUME Init, NEW n \in Node PROVE EobLast(n)
    BY InitDelivers
  <2>1. Peer[n] \in Node
    BY Peers
  <2> QED BY <2>1, StartEob DEF Init
<1>2. Inv /\ [Next]_vars => Inv'
  BY NextDelivers, NextEob
<1>3. Inv => EobMeansAllReceived
  <2> SUFFICES ASSUME Inv, NEW n \in Node, theySentEOB[n], NEW e \in sentFileMap[Peer[n]]
               PROVE  Arrived(Peer[n], e.file)
    BY DEF EobMeansAllReceived
  <2>1. Peer[n] \in Node /\ Peer[Peer[n]] = n
    BY Peers
  <2>2. e.name \in NamesIn(Peer[n])
    BY <2>1 DEF EobLast, HandledEob, Announced
  <2> QED BY <2>1, <2>2, EntryArrived DEF IInv
<1> QED BY <1>1, <1>2, <1>3, PTL DEF Spec
=============================================================================
