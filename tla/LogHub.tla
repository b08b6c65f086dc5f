------------------------------- MODULE LogHub -------------------------------
(***************************************************************************)
(* The live log (logstream/hub.go): whoever logs puts the line into the    *)
(* channel of the hub, the hub copies it into the channels of its clients, *)
(* and the two goroutines of each client write to its connection and wait  *)
(* for its end.                                                            *)
(***************************************************************************)
EXTENDS Naturals, SequencesExt

CONSTANTS
  Client,    \* connections, each made once
  Stalled,   \* those whose peer stays and may cease to read
  Buffer,    \* the room of a channel: 256 in the code
  MaxLines   \* bound: lines logged

ASSUME BufferAssumption == Buffer \in Nat \ {0} /\ MaxLines \in Nat
ASSUME StalledAssumption == Stalled \subseteq Client

VARIABLES
  clients,    \* the clients the hub sends to
  cutting,    \* those of them that had no room for the line the hub is at
  broadcast,  \* the hub's channel
  lines,      \* lines that got into it, numbered
  send,       \* send[c]: the channel of the client
  closed,     \* the channels that have been closed
  panic,      \* whether a closed channel was used
  conn,       \* conn[c]: "none", "open", "broken" by the peer, or "closed" by momail
  reader,     \* reader[c]: where readPump is (ServeWs before)
  writer,     \* writer[c]: where writePump is
  taken       \* taken[c]: the lines that writePump has taken, to write them

vars == <<clients, cutting, broadcast, lines, send, closed, panic, conn, reader, writer, taken>>

TypeOK ==
  /\ clients \subseteq Client /\ cutting \subseteq clients /\ closed \subseteq Client
  /\ broadcast \in Seq(1 .. MaxLines) /\ Len(broadcast) <= Buffer
  /\ lines \in 0 .. MaxLines /\ panic \in BOOLEAN
  /\ send \in [Client -> Seq(1 .. MaxLines)] /\ \A c \in Client : Len(send[c]) <= Buffer
  /\ conn \in [Client -> {"none", "open", "broken", "closed"}]
  /\ reader \in [Client -> {"off", "register", "start", "reading", "unregister", "close", "over"}]
  /\ writer \in [Client -> {"off", "waiting", "writing", "over"}]
  /\ taken \in [Client -> Seq(1 .. MaxLines)]

Init ==
  /\ clients = {} /\ cutting = {} /\ broadcast = <<>> /\ lines = 0
  /\ send = [c \in Client |-> <<>>]
  /\ closed = {} /\ panic = FALSE
  /\ conn = [c \in Client |-> "none"]
  /\ reader = [c \in Client |-> "off"]
  /\ writer = [c \in Client |-> "off"]
  /\ taken = [c \in Client |-> <<>>]

-----------------------------------------------------------------------------
(* Lines.                                                                   *)

\* Mutant of Logged: the line is put into the channel when it has room.
LoggedBlocking ==
  /\ Len(broadcast) < Buffer
  /\ broadcast' = IF lines < MaxLines THEN Append(broadcast, lines + 1) ELSE broadcast
  /\ lines' = IF lines < MaxLines THEN lines + 1 ELSE lines

\* Hub.Write, by any goroutine, the hub's own too: no room, no line.
Logged ==
  IF Len(broadcast) < Buffer /\ lines < MaxLines
  THEN broadcast' = Append(broadcast, lines + 1) /\ lines' = lines + 1
  ELSE UNCHANGED <<broadcast, lines>>

Log ==
  /\ lines < MaxLines /\ Logged
  /\ UNCHANGED <<clients, cutting, send, closed, panic, conn, reader, writer, taken>>

-----------------------------------------------------------------------------
(* The hub.  It serves a channel at a time; a goroutine that writes to an   *)
(* unbuffered one moves on with it.                                         *)

Register(c) ==
  /\ cutting = {}
  /\ reader[c] = "register" /\ reader' = [reader EXCEPT ![c] = "start"]
  /\ clients' = clients \cup {c}
  /\ UNCHANGED <<cutting, broadcast, lines, send, closed, panic, conn, writer, taken>>

\* A client's channel is closed, and the client removed.
Close(c) ==
  /\ clients' = clients \ {c}
  /\ closed' = closed \cup {c}
  /\ panic' = (panic \/ c \in closed)

\* Mutant of Unregister: the hub does not look whether the client is still there.
UnregisterUnseen(c) ==
  /\ cutting = {}
  /\ reader[c] = "unregister" /\ reader' = [reader EXCEPT ![c] = "close"]
  /\ Close(c)
  /\ UNCHANGED <<cutting, broadcast, lines, send, conn, writer, taken>>

\* readPump's client, unless the hub has removed it already.
Unregister(c) ==
  /\ cutting = {}
  /\ reader[c] = "unregister" /\ reader' = [reader EXCEPT ![c] = "close"]
  /\ IF c \in clients THEN Close(c) ELSE UNCHANGED <<clients, closed, panic>>
  /\ UNCHANGED <<cutting, broadcast, lines, send, conn, writer, taken>>

\* Mutant of Broadcast: a client without room misses the line, and stays.
BroadcastSkips ==
  /\ cutting = {} /\ broadcast # <<>> /\ broadcast' = Tail(broadcast)
  /\ send' = [c \in Client |-> IF c \in clients /\ Len(send[c]) < Buffer
                               THEN Append(send[c], Head(broadcast)) ELSE send[c]]
  /\ UNCHANGED <<clients, cutting, lines, closed, panic, conn, reader, writer, taken>>

\* One line for each client that has room.
Broadcast ==
  /\ cutting = {} /\ broadcast # <<>> /\ broadcast' = Tail(broadcast)
  /\ send' = [c \in Client |-> IF c \in clients /\ Len(send[c]) < Buffer
                               THEN Append(send[c], Head(broadcast)) ELSE send[c]]
  /\ cutting' = {c \in clients : Len(send[c]) = Buffer}
  /\ UNCHANGED <<clients, lines, closed, panic, conn, reader, writer, taken>>

\* The others go, and the hub logs that.
Cut(c) ==
  /\ c \in cutting /\ cutting' = cutting \ {c}
  /\ Logged /\ Close(c)
  /\ UNCHANGED <<send, conn, reader, writer, taken>>

-----------------------------------------------------------------------------
(* The goroutines of a client.                                              *)

\* ServeWs has upgraded the connection.
ServeWs(c) ==
  /\ reader[c] = "off" /\ reader' = [reader EXCEPT ![c] = "register"]
  /\ conn' = [conn EXCEPT ![c] = "open"]
  /\ UNCHANGED <<clients, cutting, broadcast, lines, send, closed, panic, writer, taken>>

\* ServeWs logs, and starts the two.
Start(c) ==
  /\ reader[c] = "start" /\ reader' = [reader EXCEPT ![c] = "reading"]
  /\ writer' = [writer EXCEPT ![c] = "waiting"]
  /\ Logged
  /\ UNCHANGED <<clients, cutting, send, closed, panic, conn, taken>>

\* writePump takes a line, and writes it.
Take(c) ==
  /\ writer[c] = "waiting" /\ send[c] # <<>>
  /\ writer' = [writer EXCEPT ![c] = "writing"]
  /\ send' = [send EXCEPT ![c] = Tail(@)]
  /\ taken' = [taken EXCEPT ![c] = Append(@, Head(send[c]))]
  /\ UNCHANGED <<clients, cutting, broadcast, lines, closed, panic, conn, reader>>

\* The peer reads on.  There is no deadline for that.
Written(c) ==
  /\ writer[c] = "writing" /\ conn[c] = "open"
  /\ writer' = [writer EXCEPT ![c] = "waiting"]
  /\ UNCHANGED <<clients, cutting, broadcast, lines, send, closed, panic, conn, reader, taken>>

\* Mutant of WriterEnds: the closed channel is not noticed.
WriterEndsOnError(c) ==
  /\ writer[c] = "writing" /\ conn[c] # "open"
  /\ writer' = [writer EXCEPT ![c] = "over"]
  /\ conn' = [conn EXCEPT ![c] = "closed"]
  /\ UNCHANGED <<clients, cutting, broadcast, lines, send, closed, panic, reader, taken>>

\* writePump ends, on an error or as its channel is closed and empty, and closes the connection.
WriterEnds(c) ==
  /\ \/ writer[c] = "writing" /\ conn[c] # "open"
     \/ writer[c] = "waiting" /\ c \in closed /\ send[c] = <<>>
  /\ writer' = [writer EXCEPT ![c] = "over"]
  /\ conn' = [conn EXCEPT ![c] = "closed"]
  /\ UNCHANGED <<clients, cutting, broadcast, lines, send, closed, panic, reader, taken>>

PeerLeaves(c) ==
  /\ conn[c] = "open" /\ conn' = [conn EXCEPT ![c] = "broken"]
  /\ UNCHANGED <<clients, cutting, broadcast, lines, send, closed, panic, reader, writer, taken>>

\* readPump's read fails; it logs, and writes to the hub's channel.
ReadFails(c) ==
  /\ reader[c] = "reading" /\ conn[c] # "open"
  /\ reader' = [reader EXCEPT ![c] = "unregister"]
  /\ Logged
  /\ UNCHANGED <<clients, cutting, send, closed, panic, conn, writer, taken>>

ReaderEnds(c) ==
  /\ reader[c] = "close" /\ reader' = [reader EXCEPT ![c] = "over"]
  /\ conn' = [conn EXCEPT ![c] = "closed"]
  /\ UNCHANGED <<clients, cutting, broadcast, lines, send, closed, panic, writer, taken>>

-----------------------------------------------------------------------------
Hub == Broadcast \/ \E c \in Client : Register(c) \/ Unregister(c) \/ Cut(c)

Pumps(c) == ServeWs(c) \/ Start(c) \/ Take(c) \/ Written(c) \/ WriterEnds(c) \/ ReadFails(c) \/ ReaderEnds(c)

Next == Log \/ Hub \/ \E c \in Client : Pumps(c) \/ PeerLeaves(c)

Spec == Init /\ [][Next]_vars

\* The hub and the goroutines of the clients run, and the hub's select passes nobody over; a
\* peer that does not stall reads.
Fairness ==
  /\ WF_vars(Broadcast)
  /\ \A c \in Client :
       /\ WF_vars(Register(c)) /\ WF_vars(Unregister(c)) /\ WF_vars(Cut(c))
       /\ WF_vars(Start(c)) /\ WF_vars(Take(c)) /\ WF_vars(WriterEnds(c))
       /\ WF_vars(ReadFails(c)) /\ WF_vars(ReaderEnds(c))
  /\ \A c \in Client \ Stalled : WF_vars(Written(c))

FairSpec == Spec /\ Fairness

-----------------------------------------------------------------------------
(* Properties.                                                              *)

\* No channel is closed twice, by the hub that cuts a client and the one that hears of its end,
\* and none is written to after that: either is the end of momail.
NoPanic == ~panic /\ clients \cap closed = {}

\* A client misses no line between two that it gets: rather than that it is cut.  This is about
\* the lines that got into the hub's channel; those that Hub.Write drops have no number.
Contiguous ==
  \A c \in Client : LET all == taken[c] \o send[c] IN
    \A i \in 1 .. Len(all) - 1 : all[i + 1] = all[i] + 1

\* The hub always gets to the next client and to one that has ended: its own lines and the full
\* channels of others do not hold it up ("Buffered to prevent deadlock when Hub logs", hub.go:42).
HubServes == \A c \in Client : reader[c] \in {"register", "unregister"} ~> reader[c] \in {"start", "close"}

\* A client that is cut ends ("Close the channel to signal writePump to exit", hub.go:73).
CutEnds == \A c \in Client : c \in closed ~> writer[c] = "over"
=============================================================================
