----------------------------- MODULE LogHubProofs -----------------------------
(***************************************************************************)
(* Proofs about the live log, for any number of clients and any room in    *)
(* the channels: the hub never closes a channel twice, nor writes to one   *)
(* that is closed, and a client gets lines without gaps.                   *)
(***************************************************************************)
EXTENDS LogHub, SequenceTheorems, TLAPS

\* The hub cuts clients it has only; a client registers once, before anything is closed.
IInv ==
  /\ reader \in [Client -> {"off", "register", "start", "reading", "unregister", "close", "over"}]
  /\ cutting \subseteq clients /\ clients \cup closed \subseteq Client
  /\ \A c \in clients \cup closed : reader[c] \notin {"off", "register"}
  /\ NoPanic

LEMMA IInvInit == Init => IInv
BY DEF Init, IInv, NoPanic

\* A goroutine of a client that moves on, without going back.
LEMMA ReaderMoves ==
  ASSUME IInv, NEW c \in Client, UNCHANGED <<clients, cutting, closed, panic>>,
         \/ UNCHANGED reader
         \/ \E to \in {"reading", "unregister", "over"} : reader' = [reader EXCEPT ![c] = to]
         \/ c \notin clients \cup closed /\ reader' = [reader EXCEPT ![c] = "register"]
  PROVE  IInv'
BY DEF IInv, NoPanic

LEMMA HubStep ==
  ASSUME IInv, Hub
  PROVE  IInv'
<1>1. CASE Broadcast
  BY <1>1 DEF Broadcast, IInv, NoPanic
<1>2. ASSUME NEW c \in Client, Register(c)
      PROVE  IInv'
  BY <1>2 DEF Register, IInv, NoPanic
<1>3. ASSUME NEW c \in Client, Unregister(c)
      PROVE  IInv'
  <2>1. CASE c \in clients
    BY <1>3, <2>1 DEF Unregister, Close, IInv, NoPanic
  <2>2. CASE c \notin clients
    BY <1>3, <2>2 DEF Unregister, IInv, NoPanic
  <2> QED
    BY <2>1, <2>2
<1>4. ASSUME NEW c \in Client, Cut(c)
      PROVE  IInv'
  BY <1>4 DEF Cut, Close, IInv, NoPanic
<1> QED
  BY <1>1, <1>2, <1>3, <1>4 DEF Hub

LEMMA PumpStep ==
  ASSUME IInv, NEW c \in Client, Pumps(c) \/ PeerLeaves(c)
  PROVE  IInv'
<1>1. UNCHANGED <<clients, cutting, closed, panic>>
  BY DEF Pumps, PeerLeaves, ServeWs, Start, Take, Written, WriterEnds, ReadFails, ReaderEnds
<1>2. CASE ServeWs(c)
  <2>1. c \notin clients \cup closed
    BY <1>2 DEF ServeWs, IInv
  <2> QED
    BY <1>1, <1>2, <2>1, ReaderMoves DEF ServeWs
<1>3. CASE Start(c) \/ ReadFails(c) \/ ReaderEnds(c)
  BY <1>1, <1>3, ReaderMoves DEF Start, ReadFails, ReaderEnds
<1>4. CASE Take(c) \/ Written(c) \/ WriterEnds(c) \/ PeerLeaves(c)
  BY <1>1, <1>4, ReaderMoves DEF Take, Written, WriterEnds, PeerLeaves
<1> QED
  BY <1>2, <1>3, <1>4 DEF Pumps

LEMMA IInvStep ==
  ASSUME IInv, [Next]_vars
  PROVE  IInv'
<1>1. CASE Log
  BY <1>1 DEF Log, IInv, NoPanic
<1>2. CASE UNCHANGED vars
  BY <1>2 DEF vars, IInv, NoPanic
<1> QED
  BY <1>1, <1>2, HubStep, PumpStep DEF Next

\* No client's channel is closed twice, by the hub that cuts the client and by the hub that hears
\* of its end, or written to when it is closed (Run of logstream/hub.go).
THEOREM NeverPanics == Spec => []NoPanic
<1>1. IInv => NoPanic
  BY DEF IInv
<1> QED
  BY IInvInit, IInvStep, <1>1, PTL DEF Spec

-----------------------------------------------------------------------------
(* Lines without gaps.                                                      *)

\* Numbers that follow one another, the last of them n.
EndsAt(s, n) == \A i \in 1 .. Len(s) : s[i] = n - Len(s) + i

\* The line that the hub has sent last.
Sent == lines - Len(broadcast)

All(c) == taken[c] \o send[c]

Queues ==
  /\ lines \in Nat /\ broadcast \in Seq(Nat)
  /\ send \in [Client -> Seq(Nat)] /\ taken \in [Client -> Seq(Nat)]
  /\ \A c \in Client : Len(send[c]) <= Buffer

\* What a client gets ends at the line sent last while the hub has it, and it had nothing before.
Streams ==
  /\ Queues
  /\ EndsAt(broadcast, lines)
  /\ \A c \in Client :
       /\ \E n \in Int : EndsAt(All(c), n)
       /\ c \in clients \ cutting => EndsAt(All(c), Sent)
       /\ c \notin clients \cup closed => send[c] = <<>> /\ taken[c] = <<>>

LEMMA EndsAtAppend ==
  ASSUME NEW s \in Seq(Nat), NEW n \in Int, EndsAt(s, n), n + 1 \in Nat
  PROVE  EndsAt(Append(s, n + 1), n + 1)
BY DEF EndsAt

LEMMA EndsAtTail ==
  ASSUME NEW s \in Seq(Nat), NEW n \in Int, EndsAt(s, n), s # <<>>
  PROVE  EndsAt(Tail(s), n) /\ Head(s) = n - Len(s) + 1
BY DEF EndsAt

\* A line that is logged goes to the end of the hub's channel.
LEMMA LoggedStreams ==
  ASSUME Queues, EndsAt(broadcast, lines), Logged
  PROVE  /\ lines' \in Nat /\ broadcast' \in Seq(Nat)
         /\ EndsAt(broadcast', lines') /\ Sent' = Sent
<1>1. CASE UNCHANGED <<broadcast, lines>>
  BY <1>1 DEF Queues, Sent
<1>2. CASE broadcast' = Append(broadcast, lines + 1) /\ lines' = lines + 1
  BY <1>2, EndsAtAppend DEF Queues, Sent
<1> QED
  BY <1>1, <1>2 DEF Logged

LEMMA StreamsInit == Init => Streams
<1> SUFFICES ASSUME Init PROVE Streams
  OBVIOUS
<1>1. Queues
  BY BufferAssumption DEF Init, Queues
<1>2. ASSUME NEW c \in Client PROVE All(c) = <<>>
  BY DEF Init, All
<1> QED
  BY <1>1, <1>2 DEF Init, Streams, EndsAt

\* Actions that log, or do nothing with lines, and register no client.
LEMMA StreamsKept ==
  ASSUME IInv, Streams, Logged \/ UNCHANGED <<broadcast, lines>>, UNCHANGED <<send, taken>>,
         clients' \ cutting' \subseteq clients \ cutting, clients \cup closed \subseteq clients' \cup closed'
  PROVE  Streams'
<1>1. /\ lines' \in Nat /\ broadcast' \in Seq(Nat) /\ EndsAt(broadcast', lines') /\ Sent' = Sent
  <2>1. CASE UNCHANGED <<broadcast, lines>>
    BY <2>1 DEF Streams, Queues, Sent
  <2> QED
    BY <2>1, LoggedStreams DEF Streams
<1>2. \A c \in Client : All(c)' = All(c)
  BY DEF All
<1>3. Queues'
  BY <1>1 DEF Streams, Queues
<1> QED
  BY <1>1, <1>2, <1>3 DEF Streams

LEMMA StreamsRegister ==
  ASSUME IInv, Streams, NEW c \in Client, Register(c)
  PROVE  Streams'
<1>1. Queues' /\ Sent' = Sent /\ EndsAt(broadcast', lines')
  BY DEF Register, Streams, Queues, Sent
<1>2. \A d \in Client : All(d)' = All(d)
  BY DEF Register, All
<1>3. All(c) = <<>>
  BY DEF Register, IInv, Streams, All
<1>4. EndsAt(All(c), Sent)
  BY <1>3 DEF EndsAt
<1> QED
  BY <1>1, <1>2, <1>4 DEF Register, Streams

LEMMA StreamsBroadcast ==
  ASSUME IInv, Streams, Broadcast
  PROVE  Streams'
<1>1. /\ broadcast' \in Seq(Nat) /\ EndsAt(broadcast', lines')
      /\ Head(broadcast) = Sent + 1 /\ Sent' = Sent + 1 /\ Sent \in Int /\ Head(broadcast) \in Nat
  BY EndsAtTail DEF Broadcast, Streams, Queues, Sent
<1>2. ASSUME NEW c \in Client
      PROVE  /\ send'[c] \in Seq(Nat) /\ Len(send'[c]) <= Buffer
             /\ \E n \in Int : EndsAt(All(c)', n)
             /\ c \in clients' \ cutting' => EndsAt(All(c)', Sent')
             /\ c \notin clients' \cup closed' => send'[c] = <<>> /\ taken'[c] = <<>>
  <2>1. CASE c \in clients /\ Len(send[c]) < Buffer
    <3>1. send'[c] = Append(send[c], Head(broadcast)) /\ taken'[c] = taken[c]
      BY <2>1 DEF Broadcast
    <3>2. All(c)' = Append(All(c), Head(broadcast)) /\ All(c) \in Seq(Nat)
      <4> DEFINE t == taken[c]
                 s == send[c]
                 h == Head(broadcast)
      <4>1. t \in Seq(Nat) /\ s \in Seq(Nat) /\ h \in Nat
        BY <1>1 DEF Streams, Queues
      <4> HIDE DEF t, s, h
      <4>2. t \o Append(s, h) = Append(t \o s, h) /\ t \o s \in Seq(Nat)
        BY <4>1
      <4> QED
        BY <3>1, <4>2 DEF All, t, s, h
    <3>3. EndsAt(All(c), Sent)
      BY <2>1 DEF Broadcast, Streams
    <3>4. EndsAt(All(c)', Sent')
      BY <1>1, <3>2, <3>3, EndsAtAppend
    <3>5. c \in clients'
      BY <2>1 DEF Broadcast
    <3>6. Len(send'[c]) <= Buffer
      BY <2>1, <3>1, BufferAssumption DEF Streams, Queues
    <3> QED
      BY <1>1, <3>1, <3>4, <3>5, <3>6 DEF Streams, Queues
  <2>2. CASE ~(c \in clients /\ Len(send[c]) < Buffer)
    <3>1. send'[c] = send[c] /\ taken'[c] = taken[c] /\ All(c)' = All(c)
      BY <2>2 DEF Broadcast, All
    <3>2. c \in clients' => Len(send[c]) = Buffer
      <4>1. Len(send[c]) <= Buffer
        BY DEF Streams, Queues
      <4> QED
        BY <2>2, <4>1, BufferAssumption DEF Broadcast, Streams, Queues
    <3>3. c \notin clients' \ cutting'
      BY <3>2 DEF Broadcast
    <3> QED
      BY <3>1, <3>3 DEF Broadcast, Streams, Queues
  <2> QED
    BY <2>1, <2>2
<1>3. Queues'
  BY <1>1, <1>2 DEF Broadcast, Streams, Queues
<1> QED
  BY <1>1, <1>2, <1>3 DEF Streams

LEMMA StreamsTake ==
  ASSUME IInv, Streams, NEW c \in Client, Take(c)
  PROVE  Streams'
<1>1. /\ send'[c] = Tail(send[c]) /\ taken'[c] = Append(taken[c], Head(send[c]))
      /\ \A d \in Client \ {c} : send'[d] = send[d] /\ taken'[d] = taken[d]
  BY DEF Take, Streams, Queues
<1>2. Queues' /\ Sent' = Sent
  <2>1. Len(send'[c]) <= Buffer
    <3> DEFINE s == send[c]
    <3>1. s \in Seq(Nat) /\ s # <<>> /\ Len(s) <= Buffer
      BY DEF Take, Streams, Queues
    <3> HIDE DEF s
    <3>2. Len(Tail(s)) <= Buffer
      BY <3>1, BufferAssumption
    <3> QED
      BY <1>1, <3>2 DEF s
  <2>2. \A d \in Client : Len(send'[d]) <= Buffer
    BY <1>1, <2>1 DEF Streams, Queues
  <2>3. send' \in [Client -> Seq(Nat)] /\ taken' \in [Client -> Seq(Nat)]
    BY DEF Take, Streams, Queues
  <2> QED
    BY <2>2, <2>3 DEF Take, Streams, Queues, Sent
<1>3. All(c)' = All(c)
  <2> DEFINE t == taken[c]
             s == send[c]
  <2>1. t \in Seq(Nat) /\ s \in Seq(Nat) /\ s # <<>>
    BY DEF Take, Streams, Queues
  <2> HIDE DEF t, s
  <2>2. Append(t, Head(s)) \o Tail(s) = t \o s
    BY <2>1
  <2> QED
    BY <1>1, <2>2 DEF All, t, s
<1>4. \A d \in Client : All(d)' = All(d)
  BY <1>1, <1>3 DEF All
<1>5. c \in clients \cup closed
  BY DEF Take, Streams
<1> QED
  BY <1>1, <1>2, <1>4, <1>5 DEF Take, Streams

LEMMA StreamsStep ==
  ASSUME IInv, Streams, [Next]_vars
  PROVE  Streams'
<1>1. CASE UNCHANGED vars
  BY <1>1, StreamsKept DEF vars
<1>2. CASE Log
  BY <1>2, StreamsKept DEF Log
<1>3. CASE Broadcast
  BY <1>3, StreamsBroadcast
<1>4. ASSUME NEW c \in Client, Register(c)
      PROVE  Streams'
  BY <1>4, StreamsRegister
<1>5. ASSUME NEW c \in Client, Unregister(c)
      PROVE  Streams'
  BY <1>5, StreamsKept DEF Unregister, Close
<1>6. ASSUME NEW c \in Client, Cut(c)
      PROVE  Streams'
  BY <1>6, StreamsKept DEF Cut, Close
<1>7. ASSUME NEW c \in Client, Take(c)
      PROVE  Streams'
  BY <1>7, StreamsTake
<1>8. ASSUME NEW c \in Client, ServeWs(c) \/ Start(c) \/ Written(c) \/ WriterEnds(c)
                              \/ ReadFails(c) \/ ReaderEnds(c) \/ PeerLeaves(c)
      PROVE  Streams'
  BY <1>8, StreamsKept
  DEF ServeWs, Start, Written, WriterEnds, ReadFails, ReaderEnds, PeerLeaves
<1> QED
  BY <1>1, <1>2, <1>3, <1>4, <1>5, <1>6, <1>7, <1>8 DEF Next, Hub, Pumps

\* A client that the hub keeps misses no line: between two lines that it gets there is none that
\* it did not get, however it falls behind and whoever is cut (Run of logstream/hub.go).
THEOREM NoGaps == Spec => []Contiguous
<1>1. Streams => Contiguous
  <2> SUFFICES ASSUME Streams, NEW c \in Client
               PROVE  \A i \in 1 .. Len(All(c)) - 1 : All(c)[i + 1] = All(c)[i] + 1
    BY DEF Contiguous, All
  <2>1. PICK n \in Int : EndsAt(All(c), n)
    BY DEF Streams
  <2>2. Len(All(c)) \in Nat
    BY DEF Streams, Queues, All
  <2> QED
    BY <2>1, <2>2 DEF EndsAt
<1> QED
  BY IInvInit, StreamsInit, IInvStep, StreamsStep, <1>1, PTL DEF Spec
=============================================================================
