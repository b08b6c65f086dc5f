--------------------------- MODULE SessionRunProofs ---------------------------
(***************************************************************************)
(* What BinkpSessionProofs proves of sessions, carried over to the parts   *)
(* that MCBinkpSession puts together, each with refusing nodes and faults  *)
(* of its own.  The theorems are instantiated for the part with crashes    *)
(* and the part with a node that refuses; the steps of each part are the   *)
(* steps of the instance.                                                  *)
(***************************************************************************)
EXTENDS BinkpSessionProofs, MCBinkpSession

Crashes == INSTANCE BinkpSessionProofs WITH Faults <- {"crash"}

Refusal == INSTANCE BinkpSessionProofs WITH Refuse <- {beta}, Faults <- AllFaults

-----------------------------------------------------------------------------
(* The instances.                                                          *)

\* Their constants are as the theorems assume.
LEMMA CrashesAssumptions ==
  /\ Crashes!PeerAssumption /\ Crashes!FileAssumption /\ Crashes!QueueAssumption
  /\ Crashes!BoundAssumption /\ Crashes!NoneAssumption
<1>1. Crashes!PeerAssumption /\ Crashes!FileAssumption
  BY PeerAssumption, FileAssumption
<1>2. Crashes!QueueAssumption /\ Crashes!BoundAssumption
  BY QueueAssumption, BoundAssumption
  DEF Crashes!QueueAssumption, Crashes!BoundAssumption, Crashes!FlowLine, FlowLine,
      Crashes!AllFaults, AllFaults
<1>3. Crashes!NoneAssumption
  BY NoneAssumption
  DEF Crashes!NoneAssumption, Crashes!Incoming, Incoming, Crashes!Frame, Frame,
      Crashes!WireName, WireName, Crashes!PacketName, PacketName
<1> QED BY <1>1, <1>2, <1>3

LEMMA RefusalAssumptions ==
  /\ Refusal!PeerAssumption /\ Refusal!FileAssumption /\ Refusal!QueueAssumption
  /\ Refusal!BoundAssumption /\ Refusal!NoneAssumption
<1>1. Refusal!PeerAssumption /\ Refusal!FileAssumption
  BY PeerAssumption, FileAssumption
<1>2. Refusal!QueueAssumption /\ Refusal!BoundAssumption
  BY QueueAssumption, BoundAssumption, BetaAssumption
  DEF Refusal!QueueAssumption, Refusal!BoundAssumption, Refusal!FlowLine, FlowLine,
      Refusal!AllFaults, AllFaults
<1>3. Refusal!NoneAssumption
  BY NoneAssumption
  DEF Refusal!NoneAssumption, Refusal!Incoming, Incoming, Refusal!Frame, Frame,
      Refusal!WireName, WireName, Refusal!PacketName, PacketName
<1> QED BY <1>1, <1>2, <1>3

\* The hypothesis on the queues is the same for all.
LEMMA SameQueues == DistinctQueues => Crashes!DistinctQueues /\ Refusal!DistinctQueues
<1>1. \A n \in Node : Crashes!Queue(n) = Queue(n) /\ Refusal!Queue(n) = Queue(n)
  BY DEF Crashes!Queue, Refusal!Queue, Queue
<1>2. \A f : Crashes!NamesOf(f) = NamesOf(f) /\ Refusal!NamesOf(f) = NamesOf(f)
  BY DEF Crashes!NamesOf, Refusal!NamesOf, NamesOf
<1> QED BY <1>1, <1>2 DEF DistinctQueues, Crashes!DistinctQueues, Refusal!DistinctQueues

\* What the run does in the part with crashes is what the theorems are about:
\* the definitions of one instance are those of the other.
LEMMA CrashingSteps ==
  /\ Crashing!Init => Crashes!Init
  /\ [Crashing!Next]_vars => [Crashes!Next]_(Crashes!vars)
<1>1. Crashing!Init => Crashes!Init
  BY DEF Crashing!Init, Crashes!Init, Crashing!NewReader, Crashes!NewReader,
         Crashing!NewSender, Crashes!NewSender
<1>2. ASSUME NEW n \in Node PROVE Crashing!Sender(n) => Crashes!Sender(n)
  <2> USE DEF Crashing!SenderAt, Crashes!SenderAt, Crashing!Work, Crashes!Work, Crashing!Current,
              Crashes!Current, Crashing!Put, Crashes!Put, Crashing!SenderGoto, Crashes!SenderGoto,
              Crashing!NextFile, Crashes!NextFile, Crashing!spoolVars, Crashes!spoolVars,
              Crashing!tcpVars, Crashes!tcpVars, Crashing!eobVars, Crashes!eobVars, Crashing!Write,
              Crashes!Write, Crashing!Dead, Crashes!Dead, Crashing!Close, Crashes!Close,
              Crashing!WriteError, Crashes!WriteError
  <2>1. Crashing!StatFile(n) => Crashes!StatFile(n)
    BY Zenon DEF Crashing!StatFile, Crashes!StatFile
  <2>2. Crashing!SendHeader(n) => Crashes!SendHeader(n)
    BY Zenon DEF Crashing!SendHeader, Crashes!SendHeader
  <2>3. Crashing!OpenFile(n) => Crashes!OpenFile(n)
    BY Zenon DEF Crashing!OpenFile, Crashes!OpenFile
  <2>4. Crashing!SendData(n) => Crashes!SendData(n)
    BY Zenon DEF Crashing!SendData, Crashes!SendData
  <2>5. Crashing!FileSent(n) => Crashes!FileSent(n)
    BY Zenon DEF Crashing!FileSent, Crashes!FileSent
  <2>6. Crashing!RemoveFlow(n) => Crashes!RemoveFlow(n)
    BY Zenon DEF Crashing!RemoveFlow, Crashes!RemoveFlow
  <2>7. Crashing!SendEob(n) => Crashes!SendEob(n)
    BY Zenon DEF Crashing!SendEob, Crashes!SendEob
  <2>8. Crashing!FlagEob(n) => Crashes!FlagEob(n)
    BY Zenon DEF Crashing!FlagEob, Crashes!FlagEob
  <2>9. Crashing!SendRefusal(n) => Crashes!SendRefusal(n)
    BY Zenon DEF Crashing!SendRefusal, Crashes!SendRefusal
  <2>10. Crashing!SendError(n) => Crashes!SendError(n)
    BY Zenon DEF Crashing!SendError, Crashes!SendError
  <2>11. Crashing!CloseOnError(n) => Crashes!CloseOnError(n)
    BY Zenon DEF Crashing!CloseOnError, Crashes!CloseOnError
  <2> QED
    BY Zenon, <2>1, <2>2, <2>3, <2>4, <2>5, <2>6, <2>7, <2>8, <2>9, <2>10, <2>11 DEF
       Crashing!Sender, Crashes!Sender
<1>3. ASSUME NEW n \in Node PROVE Crashing!Reader(n) => Crashes!Reader(n)
  <2> USE DEF Crashing!ReaderAt, Crashes!ReaderAt, Crashing!Read, Crashes!Read, Crashing!NextFrame,
              Crashes!NextFrame, Crashing!spoolVars, Crashes!spoolVars, Crashing!eobVars,
              Crashes!eobVars, Crashing!Extended, Crashes!Extended, Crashing!ReaderGoto,
              Crashes!ReaderGoto, Crashing!Put, Crashes!Put, Crashing!InboxItem, Crashes!InboxItem,
              Crashing!AfterFile, Crashes!AfterFile, Crashing!tcpVars, Crashes!tcpVars,
              Crashing!Write, Crashes!Write, Crashing!Dead, Crashes!Dead, Crashing!WriteError,
              Crashes!WriteError
  <2>1. Crashing!ReceiveCommand(n) => Crashes!ReceiveCommand(n)
    BY Zenon DEF Crashing!ReceiveCommand, Crashes!ReceiveCommand
  <2>2. Crashing!ReceiveData(n) => Crashes!ReceiveData(n)
    BY Zenon DEF Crashing!ReceiveData, Crashes!ReceiveData
  <2>3. Crashing!ReceiveGot(n) => Crashes!ReceiveGot(n)
    BY Zenon DEF Crashing!ReceiveGot, Crashes!ReceiveGot
  <2>4. Crashing!ReceiveSkip(n) => Crashes!ReceiveSkip(n)
    BY Zenon DEF Crashing!ReceiveSkip, Crashes!ReceiveSkip
  <2>5. Crashing!FinishFile(n) => Crashes!FinishFile(n)
    BY Zenon DEF Crashing!FinishFile, Crashes!FinishFile
  <2>6. Crashing!Confirm(n) => Crashes!Confirm(n)
    BY Zenon DEF Crashing!Confirm, Crashes!Confirm
  <2>7. Crashing!HandleFile(n) => Crashes!HandleFile(n)
    BY Zenon DEF Crashing!HandleFile, Crashes!HandleFile
  <2>8. Crashing!SendSkip(n) => Crashes!SendSkip(n)
    BY Zenon DEF Crashing!SendSkip, Crashes!SendSkip
  <2>9. Crashing!HandleEob(n) => Crashes!HandleEob(n)
    BY Zenon DEF Crashing!HandleEob, Crashes!HandleEob
  <2>10. Crashing!ReadEnd(n) => Crashes!ReadEnd(n)
    BY Zenon DEF Crashing!ReadEnd, Crashes!ReadEnd
  <2> QED
    BY Zenon, <2>1, <2>2, <2>3, <2>4, <2>5, <2>6, <2>7, <2>8, <2>9, <2>10 DEF Crashing!Reader,
       Crashes!Reader
<1>4. ASSUME NEW n \in Node
      PROVE  Crashing!EndSession(n) \/ Crashing!Crash(n)
             => Crashes!EndSession(n) \/ Crashes!Crash(n)
  BY DEF Crashing!EndSession, Crashes!EndSession, Crashing!Close, Crashes!Close,
         Crashing!spoolVars, Crashes!spoolVars, Crashing!eobVars, Crashes!eobVars,
         Crashing!Crash, Crashes!Crash, Crashing!NewReader, Crashes!NewReader,
         Crashing!NewSender, Crashes!NewSender
<1>5. Crashing!Cut \/ Crashing!Redial \/ Crashing!Terminated
      => Crashes!Cut \/ Crashes!Redial \/ Crashes!Terminated
  BY DEF Crashing!Cut, Crashes!Cut, Crashing!spoolVars, Crashes!spoolVars, Crashing!eobVars,
         Crashes!eobVars, Crashing!Redial, Crashes!Redial, Crashing!NewReader,
         Crashes!NewReader, Crashing!NewSender, Crashes!NewSender, Crashing!Terminated,
         Crashes!Terminated, Crashing!vars, Crashes!vars
<1>6. Crashing!Next => Crashes!Next
  BY <1>2, <1>3, <1>4, <1>5 DEF Crashing!Next, Crashes!Next
<1> QED BY <1>1, <1>6 DEF vars, Crashes!vars

\* The same for the part with a node that refuses.
LEMMA RefusingSteps ==
  /\ Refusing!Init => Refusal!Init
  /\ [Refusing!Next]_vars => [Refusal!Next]_(Refusal!vars)
<1>1. Refusing!Init => Refusal!Init
  BY DEF Refusing!Init, Refusal!Init, Refusing!NewReader, Refusal!NewReader,
         Refusing!NewSender, Refusal!NewSender
<1>2. ASSUME NEW n \in Node PROVE Refusing!Sender(n) => Refusal!Sender(n)
  <2> USE DEF Refusing!SenderAt, Refusal!SenderAt, Refusing!Work, Refusal!Work, Refusing!Current,
              Refusal!Current, Refusing!Put, Refusal!Put, Refusing!SenderGoto, Refusal!SenderGoto,
              Refusing!NextFile, Refusal!NextFile, Refusing!spoolVars, Refusal!spoolVars,
              Refusing!tcpVars, Refusal!tcpVars, Refusing!eobVars, Refusal!eobVars, Refusing!Write,
              Refusal!Write, Refusing!Dead, Refusal!Dead, Refusing!Close, Refusal!Close,
              Refusing!WriteError, Refusal!WriteError
  <2>1. Refusing!StatFile(n) => Refusal!StatFile(n)
    BY Zenon DEF Refusing!StatFile, Refusal!StatFile
  <2>2. Refusing!SendHeader(n) => Refusal!SendHeader(n)
    BY Zenon DEF Refusing!SendHeader, Refusal!SendHeader
  <2>3. Refusing!OpenFile(n) => Refusal!OpenFile(n)
    BY Zenon DEF Refusing!OpenFile, Refusal!OpenFile
  <2>4. Refusing!SendData(n) => Refusal!SendData(n)
    BY Zenon DEF Refusing!SendData, Refusal!SendData
  <2>5. Refusing!FileSent(n) => Refusal!FileSent(n)
    BY Zenon DEF Refusing!FileSent, Refusal!FileSent
  <2>6. Refusing!RemoveFlow(n) => Refusal!RemoveFlow(n)
    BY Zenon DEF Refusing!RemoveFlow, Refusal!RemoveFlow
  <2>7. Refusing!SendEob(n) => Refusal!SendEob(n)
    BY Zenon DEF Refusing!SendEob, Refusal!SendEob
  <2>8. Refusing!FlagEob(n) => Refusal!FlagEob(n)
    BY Zenon DEF Refusing!FlagEob, Refusal!FlagEob
  <2>9. Refusing!SendRefusal(n) => Refusal!SendRefusal(n)
    BY Zenon DEF Refusing!SendRefusal, Refusal!SendRefusal
  <2>10. Refusing!SendError(n) => Refusal!SendError(n)
    BY Zenon DEF Refusing!SendError, Refusal!SendError
  <2>11. Refusing!CloseOnError(n) => Refusal!CloseOnError(n)
    BY Zenon DEF Refusing!CloseOnError, Refusal!CloseOnError
  <2> QED
    BY Zenon, <2>1, <2>2, <2>3, <2>4, <2>5, <2>6, <2>7, <2>8, <2>9, <2>10, <2>11 DEF
       Refusing!Sender, Refusal!Sender
<1>3. ASSUME NEW n \in Node PROVE Refusing!Reader(n) => Refusal!Reader(n)
  <2> USE DEF Refusing!ReaderAt, Refusal!ReaderAt, Refusing!Read, Refusal!Read, Refusing!NextFrame,
              Refusal!NextFrame, Refusing!spoolVars, Refusal!spoolVars, Refusing!eobVars,
              Refusal!eobVars, Refusing!Extended, Refusal!Extended, Refusing!ReaderGoto,
              Refusal!ReaderGoto, Refusing!Put, Refusal!Put, Refusing!InboxItem, Refusal!InboxItem,
              Refusing!AfterFile, Refusal!AfterFile, Refusing!tcpVars, Refusal!tcpVars,
              Refusing!Write, Refusal!Write, Refusing!Dead, Refusal!Dead, Refusing!WriteError,
              Refusal!WriteError
  <2>1. Refusing!ReceiveCommand(n) => Refusal!ReceiveCommand(n)
    BY Zenon DEF Refusing!ReceiveCommand, Refusal!ReceiveCommand
  <2>2. Refusing!ReceiveData(n) => Refusal!ReceiveData(n)
    BY Zenon DEF Refusing!ReceiveData, Refusal!ReceiveData
  <2>3. Refusing!ReceiveGot(n) => Refusal!ReceiveGot(n)
    BY Zenon DEF Refusing!ReceiveGot, Refusal!ReceiveGot
  <2>4. Refusing!ReceiveSkip(n) => Refusal!ReceiveSkip(n)
    BY Zenon DEF Refusing!ReceiveSkip, Refusal!ReceiveSkip
  <2>5. Refusing!FinishFile(n) => Refusal!FinishFile(n)
    BY Zenon DEF Refusing!FinishFile, Refusal!FinishFile
  <2>6. Refusing!Confirm(n) => Refusal!Confirm(n)
    BY Zenon DEF Refusing!Confirm, Refusal!Confirm
  <2>7. Refusing!HandleFile(n) => Refusal!HandleFile(n)
    BY Zenon DEF Refusing!HandleFile, Refusal!HandleFile
  <2>8. Refusing!SendSkip(n) => Refusal!SendSkip(n)
    BY Zenon DEF Refusing!SendSkip, Refusal!SendSkip
  <2>9. Refusing!HandleEob(n) => Refusal!HandleEob(n)
    BY Zenon DEF Refusing!HandleEob, Refusal!HandleEob
  <2>10. Refusing!ReadEnd(n) => Refusal!ReadEnd(n)
    BY Zenon DEF Refusing!ReadEnd, Refusal!ReadEnd
  <2> QED
    BY Zenon, <2>1, <2>2, <2>3, <2>4, <2>5, <2>6, <2>7, <2>8, <2>9, <2>10 DEF Refusing!Reader,
       Refusal!Reader
<1>4. ASSUME NEW n \in Node
      PROVE  Refusing!EndSession(n) \/ Refusing!Crash(n)
             => Refusal!EndSession(n) \/ Refusal!Crash(n)
  BY DEF Refusing!EndSession, Refusal!EndSession, Refusing!Close, Refusal!Close,
         Refusing!spoolVars, Refusal!spoolVars, Refusing!eobVars, Refusal!eobVars,
         Refusing!Crash, Refusal!Crash, Refusing!NewReader, Refusal!NewReader,
         Refusing!NewSender, Refusal!NewSender
<1>5. Refusing!Cut \/ Refusing!Redial \/ Refusing!Terminated
      => Refusal!Cut \/ Refusal!Redial \/ Refusal!Terminated
  BY DEF Refusing!Cut, Refusal!Cut, Refusing!spoolVars, Refusal!spoolVars, Refusing!eobVars,
         Refusal!eobVars, Refusing!Redial, Refusal!Redial, Refusing!NewReader,
         Refusal!NewReader, Refusing!NewSender, Refusal!NewSender, Refusing!Terminated,
         Refusal!Terminated, Refusing!vars, Refusal!vars
<1>6. Refusing!Next => Refusal!Next
  BY <1>2, <1>3, <1>4, <1>5 DEF Refusing!Next, Refusal!Next
<1> QED BY <1>1, <1>6 DEF vars, Refusal!vars

-----------------------------------------------------------------------------
(* The parts.                                                              *)

\* A behaviour of the run is one of a single part.
LEMMA OnePart ==
  /\ MCInit => part = "sending" \/ part = "crashing" \/ part = "refusing"
  /\ MCSpec /\ part = "sending" => Spec /\ [](part = "sending")
  /\ MCSpec /\ part = "crashing" => Crashes!Spec /\ [](part = "crashing")
  /\ MCSpec /\ part = "refusing" => Refusal!Spec /\ [](part = "refusing")
<1>1. MCInit => part = "sending" \/ part = "crashing" \/ part = "refusing"
  BY DEF MCInit
<1>2. MCSpec /\ part = "sending" => Spec /\ [](part = "sending")
  <2>1. MCInit /\ part = "sending" => Init
    BY DEF MCInit
  <2>2. part = "sending" /\ [MCNext]_<<vars, part>> => [Next]_vars /\ (part = "sending")'
    BY DEF MCNext
  <2> QED BY <2>1, <2>2, PTL DEF MCSpec, Spec
<1>3. MCSpec /\ part = "crashing" => Crashes!Spec /\ [](part = "crashing")
  <2>1. MCInit /\ part = "crashing" => Crashes!Init
    BY CrashingSteps
    DEF MCInit, Init, Crashing!Init, NewReader, Crashing!NewReader, NewSender, Crashing!NewSender
  <2>2. /\ part = "crashing" /\ [MCNext]_<<vars, part>>
        => [Crashes!Next]_(Crashes!vars) /\ (part = "crashing")'
    BY CrashingSteps DEF MCNext
  <2> QED BY <2>1, <2>2, PTL DEF MCSpec, Crashes!Spec
<1>4. MCSpec /\ part = "refusing" => Refusal!Spec /\ [](part = "refusing")
  <2>1. MCInit /\ part = "refusing" => Refusal!Init
    BY RefusingSteps DEF MCInit
  <2>2. /\ part = "refusing" /\ [MCNext]_<<vars, part>>
        => [Refusal!Next]_(Refusal!vars) /\ (part = "refusing")'
    BY RefusingSteps DEF MCNext
  <2> QED BY <2>1, <2>2, PTL DEF MCSpec, Refusal!Spec
<1> QED BY <1>1, <1>2, <1>3, <1>4

-----------------------------------------------------------------------------
(* Theorems.                                                               *)

\* In every part whose disks take what is received, handleEOB runs after all
\* files that the peer announced are in the inbound directory: M_EOB overtakes
\* none of them, through cuts, crashes and further sessions.
THEOREM EobOvertakesNone ==
  ASSUME DistinctQueues, "disk" \notin Faults
  PROVE  MCSpec => []EobAfterFiles
<1>1. Spec => []EobMeansAllReceived
  BY EobComesLast
<1>2. Crashes!Spec => []Crashes!EobMeansAllReceived
  BY CrashesAssumptions, SameQueues, Crashes!EobComesLast, "disk" \notin {"crash"}, PTL
<1>3. Crashes!EobMeansAllReceived => EobMeansAllReceived
  BY DEF Crashes!EobMeansAllReceived, EobMeansAllReceived, Crashes!Arrived, Arrived,
         Crashes!NamesOf, NamesOf, Crashes!PacketName, PacketName, Crashes!Content, Content
<1>4. /\ EobMeansAllReceived => EobAfterFiles
      /\ part = "refusing" => EobAfterFiles
  BY DEF EobAfterFiles
<1> QED BY <1>1, <1>2, <1>3, <1>4, OnePart, PTL DEF MCSpec

\* A node with refuse_insecure_sending and no link to its peer keeps its packets
\* and its flow file, whatever fails and however often the two call each other.
THEOREM RefuserKeepsMail == MCSpec => []RefusingKeepsMail
<1>1. Refusal!Spec => []Refusal!RefusedMailStays
  BY RefusalAssumptions, Refusal!RefusalKeeps, PTL
<1>2. Refusal!RefusedMailStays => RefusingKeepsMail
  BY DEF Refusal!RefusedMailStays, RefusingKeepsMail, Refusing!RefusedMailStays
<1>3. part = "sending" \/ part = "crashing" => RefusingKeepsMail
  BY DEF RefusingKeepsMail
<1> QED BY <1>1, <1>2, <1>3, OnePart, PTL DEF MCSpec

\* In all parts a file that is gone from its sender's spool is in the peer's
\* inbound directory, and what is there is whole.
THEOREM AllPartsDeliver ==
  ASSUME DistinctQueues
  PROVE  MCSpec => [](DeletedOnlyIfDelivered /\ InboundComplete)
<1>1. Spec => [](DeletedOnlyIfDelivered /\ InboundComplete)
  BY MailSafe, NothingPartial, PTL
<1>2. Crashes!Spec => [](Crashes!DeletedOnlyIfDelivered /\ Crashes!InboundComplete)
  BY CrashesAssumptions, SameQueues, Crashes!MailSafe, Crashes!NothingPartial, PTL
<1>3. Refusal!Spec => [](Refusal!DeletedOnlyIfDelivered /\ Refusal!InboundComplete)
  BY RefusalAssumptions, SameQueues, Refusal!MailSafe, Refusal!NothingPartial, PTL
<1>4. /\ Crashes!DeletedOnlyIfDelivered /\ Crashes!InboundComplete
        => DeletedOnlyIfDelivered /\ InboundComplete
      /\ Refusal!DeletedOnlyIfDelivered /\ Refusal!InboundComplete
        => DeletedOnlyIfDelivered /\ InboundComplete
  BY DEF DeletedOnlyIfDelivered, Crashes!DeletedOnlyIfDelivered, Refusal!DeletedOnlyIfDelivered,
         InboundComplete, Crashes!InboundComplete, Refusal!InboundComplete,
         Arrived, Crashes!Arrived, Refusal!Arrived, NamesOf, Crashes!NamesOf, Refusal!NamesOf,
         PacketName, Crashes!PacketName, Refusal!PacketName,
         Content, Crashes!Content, Refusal!Content
<1> QED BY <1>1, <1>2, <1>3, <1>4, OnePart, PTL DEF MCSpec
=============================================================================
