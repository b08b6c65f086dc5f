----------------------------- MODULE InboundProofs -----------------------------
(***************************************************************************)
(* Proofs that what several sessions put into the inbound directories is   *)
(* whole, is not written to any more, and is not lost once it is           *)
(* confirmed, for any peers, files, triggers, cuts and crashes.            *)
(*                                                                         *)
(* The theorems need Orderly: a peer has one connection at a time, no two  *)
(* files that come have one base name, and no transfer is resumed.         *)
(* Otherwise they are not true of the code: the temporary files are keyed  *)
(* by name, whoever writes them, and a resume that does not fit starts an  *)
(* empty file without telling the peer.                                    *)
(***************************************************************************)
EXTENDS MCInbound, SequenceTheorems, FiniteSetTheorems, TLAPS

-----------------------------------------------------------------------------
(* Hypotheses.                                                             *)

OneSession == \A s, t \in Slot : PeerOf[s] = PeerOf[t] => s = t

DistinctNames ==
  \A p, q \in Peer : \A i \in DOMAIN Files[p], j \in DOMAIN Files[q] :
    NameOf[Files[p][i]] = NameOf[Files[q][j]] => p = q /\ i = j

Orderly == OneSession /\ DistinctNames /\ "resume" \notin Env

\* The files that may come through a connection, and their names.
MailOf(s) == ToSet(Files[PeerOf[s]])
Names(s) == {NameOf[f] : f \in MailOf(s)}

-----------------------------------------------------------------------------
(* The stream of a connection, as operators of its parts.                  *)

\* The first blocks of a file.
Prefix(f, k) == [i \in 1 .. k |-> [file |-> f, no |-> i]]

\* How far a transfer is: so many blocks of a file, or no file begun.
Place == [file : File \cup {None}, no : Nat]
Start == [file |-> None, no |-> 0]

\* The place at which a file is complete, or none begun.
Over(pl) == pl.file = None \/ pl.no = Size[pl.file]

\* The place after a frame.
Mark(m) ==
  IF m.type = "EOB" THEN Start
  ELSE [file |-> m.file, no |-> IF m.type = "FILE" THEN 0 ELSE m.no]

\* The frames that may follow at a place.
Continues(pl, m, M) ==
  /\ m.type = "DATA" => m.file = pl.file /\ m.no = pl.no + 1 /\ m.no <= Size[m.file]
  /\ m.type # "DATA" => Over(pl)
  /\ m.type = "FILE" => m.offset = 0 /\ m.file \in M

Chain(pl, q, M) ==
  /\ q # <<>> => Continues(pl, q[1], M)
  /\ \A i \in 1 .. Len(q) - 1 : Continues(Mark(q[i]), q[i + 1], M)

End(pl, q) == IF q = <<>> THEN pl ELSE Mark(q[Len(q)])

\* The files that a peer has not written out, with T its end of the connection.
Unsent(T) ==
  {T.todo[i] : i \in {j \in DOMAIN T.todo : j = 1 => T.sent # Size[T.todo[1]]}}

\* What is complete at a place of the stream has been written out.
Passed(pl, q, U) ==
  /\ Over(pl) => pl.file \notin U
  /\ \A i \in 1 .. Len(q) : Over(Mark(q[i])) => Mark(q[i]).file \notin U

\* Where the two ends are in the stream.
SenderAt(T, pl) ==
  IF T.todo # <<>> /\ T.sent >= 0 /\ T.sent # Size[Head(T.todo)]
  THEN pl = [file |-> Head(T.todo), no |-> T.sent]
  ELSE Over(pl)

ReaderAt(d, r, pl, M) ==
  IF r.fd = None THEN pl = Start
  ELSE /\ pl.file \in M /\ NameOf[pl.file] = r.name /\ r.size = Size[pl.file]
       /\ pl.no = r.bytes /\ pl.no = r.offset
       /\ d.temp[r.name] = r.fd /\ d.data[r.fd] = Prefix(pl.file, pl.no)

Stream(s) ==
  rx[s].phase = "up" =>
    \E pl \in Place :
      /\ ReaderAt(disk, rx[s], pl, MailOf(s))
      /\ Chain(pl, chan[s], MailOf(s))
      /\ Passed(pl, chan[s], Unsent(tx[s]))
      /\ tx[s].up => SenderAt(tx[s], End(pl, chan[s]))

-----------------------------------------------------------------------------
(* The inductive invariant.                                                *)

\* A peer goes through its files in order, each once.
Todo(s) ==
  /\ \A i \in DOMAIN tx[s].todo : tx[s].todo[i] \in MailOf(s)
  /\ \A i, j \in DOMAIN tx[s].todo : tx[s].todo[i] = tx[s].todo[j] => i = j
  /\ tx[s].todo = <<>> => tx[s].sent = -1
  /\ tx[s].todo # <<>> => tx[s].sent <= Size[Head(tx[s].todo)]

\* It does not delete a file while it sends it, ...
Begun(s) ==
  tx[s].up /\ tx[s].todo # <<>> /\ tx[s].sent >= 0 /\ tx[s].sent # Size[Head(tx[s].todo)]
    => Head(tx[s].todo) \notin confirmed

\* ... for it is told of files only that it has written out.
Gots(s) ==
  \A i \in DOMAIN gots[s] :
    \E f \in MailOf(s) : NameOf[f] = gots[s][i] /\ f \notin Unsent(tx[s])

\* A content that may be under a name of an inbound directory.
Holds(dir, name, content) ==
  \E p \in Peer : /\ dir = (IF p \in Secure THEN "secure" ELSE "insecure")
                  /\ \E f \in ToSet(Files[p]) : NameOf[f] = name /\ content = Whole(f)

\* An inode has one name, and those in the inbound directories hold whole files.
Directories(d) ==
  /\ \A m, n \in Name : d.temp[m] = d.temp[n] /\ d.temp[m] # None => m = n
  /\ \A m \in Name, p \in Path : d.temp[m] = d.inbound[p.dir][p.name] => d.temp[m] = None
  /\ \A p \in Path : d.inbound[p.dir][p.name] # None
       => Holds(p.dir, p.name, d.data[d.inbound[p.dir][p.name]])
  /\ \A t \in d.taken : Right(t.dir, t.data)

IInv ==
  /\ TypeOK
  /\ Directories(disk)
  /\ \A s \in Slot : Todo(s) /\ Begun(s) /\ Gots(s) /\ Stream(s)

\* A file that a peer was told of is with a tosser, or waits for its trigger.
Given(f) == (\E t \in disk.taken : t.data = Whole(f)) \/ Waiting(f)

Told ==
  /\ \A f \in confirmed : Given(f)
  /\ \A s \in Slot : \A i \in DOMAIN gots[s] : \A f \in MailOf(s) :
       NameOf[f] = gots[s][i] => Given(f)
  /\ \A s \in Slot : \A p \in ToSet(rx[s].pending) : p.name \in Later
-----------------------------------------------------------------------------
(* The stream.                                                             *)

\* A frame leads to a place, which is that of its file unless it is M_EOB.
LEMMA MarkPlace ==
  ASSUME NEW m \in Frame
  PROVE  /\ Mark(m) \in Place
         /\ m.type # "EOB" => m.file \in File /\ Mark(m).file = m.file
         /\ m.type = "FILE" => Mark(m).no = 0 /\ m.offset \in Nat
         /\ m.type = "DATA" => Mark(m).no = m.no /\ m.no \in Nat
         /\ m.type \in {"FILE", "DATA", "EOB"}
         /\ m.type = "EOB" => Mark(m) = Start
BY DEF Mark, Place, Start, Frame

\* The reader takes the first frame.
LEMMA StreamTail ==
  ASSUME NEW pl \in Place, NEW q \in Seq(Frame), NEW M, NEW U, q # <<>>,
         Chain(pl, q, M), Passed(pl, q, U)
  PROVE  /\ Head(q) \in Frame /\ Tail(q) \in Seq(Frame)
         /\ Continues(pl, Head(q), M)
         /\ Chain(Mark(Head(q)), Tail(q), M)
         /\ Passed(Mark(Head(q)), Tail(q), U)
         /\ End(Mark(Head(q)), Tail(q)) = End(pl, q)
<1>1. PICK k \in Nat : k = Len(q)
  BY LenProperties
<1>2. k # 0
  BY <1>1, EmptySeq
<1>3. /\ Tail(q) \in Seq(Frame) /\ Len(Tail(q)) = k - 1 /\ Head(q) \in Frame
      /\ \A i \in 1 .. Len(Tail(q)) : Tail(q)[i] = q[i + 1]
  BY <1>1, HeadTailProperties
<1>4. 1 \in 1 .. k /\ Head(q) = q[1]
  BY <1>1, <1>2
<1>5. \A i \in 1 .. k - 1 : i + 1 \in 1 .. k
  BY <1>1
<1>6. Continues(pl, Head(q), M)
  BY <1>4 DEF Chain
<1>7. Chain(Mark(Head(q)), Tail(q), M)
  <2>1. ASSUME Tail(q) # <<>>  PROVE Continues(Mark(Head(q)), Tail(q)[1], M)
    <3>1. k - 1 # 0
      BY <2>1, <1>1, <1>3, EmptySeq
    <3>2. 1 \in 1 .. k - 1 /\ 1 + 1 = 2
      BY <3>1, <1>2
    <3>3. Tail(q)[1] = q[1 + 1]
      BY <3>2, <1>3
    <3> QED BY <3>2, <3>3, <1>1, <1>4 DEF Chain
  <2>2. ASSUME NEW i \in 1 .. (k - 1) - 1
        PROVE  Continues(Mark(Tail(q)[i]), Tail(q)[i + 1], M)
    <3>1. i \in 1 .. k - 1 /\ i + 1 \in 1 .. k - 1
      OBVIOUS
    <3>2. Tail(q)[i] = q[i + 1] /\ Tail(q)[i + 1] = q[(i + 1) + 1]
      BY <3>1, <1>3
    <3> QED BY <3>1, <3>2, <1>1 DEF Chain
  <2> QED BY <2>1, <2>2, <1>3 DEF Chain
<1>8. Passed(Mark(Head(q)), Tail(q), U)
  BY <1>1, <1>3, <1>4, <1>5 DEF Passed
<1>9. End(Mark(Head(q)), Tail(q)) = End(pl, q)
  <2>1. CASE Tail(q) = <<>>
    <3>1. k - 1 = 0
      BY <2>1, <1>3
    <3>2. k = 1
      BY <3>1, <1>2
    <3> QED BY <2>1, <3>2, <1>1, <1>4 DEF End
  <2>2. CASE Tail(q) # <<>>
    <3>1. k - 1 # 0
      BY <2>2, <1>1, <1>3, EmptySeq
    <3>2. k - 1 \in 1 .. k - 1 /\ (k - 1) + 1 = k
      BY <3>1, <1>2
    <3>3. Tail(q)[k - 1] = q[k]
      BY <3>2, <1>3
    <3> QED BY <2>2, <3>3, <1>1, <1>3 DEF End
  <2> QED BY <2>1, <2>2
<1> QED BY <1>3, <1>6, <1>7, <1>8, <1>9

\* The peer writes a frame.
LEMMA StreamAppend ==
  ASSUME NEW pl \in Place, NEW q \in Seq(Frame), NEW m \in Frame, NEW M, NEW U,
         Chain(pl, q, M), Passed(pl, q, U), Continues(End(pl, q), m, M),
         Over(Mark(m)) => Mark(m).file \notin U
  PROVE  /\ Append(q, m) \in Seq(Frame)
         /\ Chain(pl, Append(q, m), M)
         /\ Passed(pl, Append(q, m), U)
         /\ End(pl, Append(q, m)) = Mark(m)
<1>1. PICK k \in Nat : k = Len(q)
  BY LenProperties
<1>2. /\ Append(q, m) \in Seq(Frame) /\ Append(q, m) # <<>>
      /\ Len(Append(q, m)) = k + 1 /\ Append(q, m)[k + 1] = m
      /\ \A i \in 1 .. k : Append(q, m)[i] = q[i]
  BY <1>1, AppendProperties
<1>3. \A i \in 1 .. k + 1 : i \in 1 .. k \/ i = k + 1
  BY <1>1
<1>4. q = <<>> <=> k = 0
  BY <1>1, EmptySeq
<1>5. Continues(pl, Append(q, m)[1], M)
  <2>1. CASE k = 0
    BY <2>1, <1>2, <1>4 DEF End
  <2>2. CASE k # 0
    <3>1. 1 \in 1 .. k
      BY <2>2
    <3> QED BY <2>2, <3>1, <1>2, <1>4 DEF Chain
  <2> QED BY <2>1, <2>2
<1>6. ASSUME NEW i \in 1 .. (k + 1) - 1
      PROVE  Continues(Mark(Append(q, m)[i]), Append(q, m)[i + 1], M)
  <2>1. i \in 1 .. k /\ (i = k \/ i \in 1 .. k - 1)
    BY <1>1
  <2>2. CASE i = k
    <3>1. k # 0
      BY <2>1
    <3> QED BY <2>1, <2>2, <3>1, <1>1, <1>2, <1>4 DEF End
  <2>3. CASE i \in 1 .. k - 1
    <3>1. i + 1 \in 1 .. k
      BY <2>3
    <3> QED BY <2>1, <2>3, <3>1, <1>1, <1>2 DEF Chain
  <2> QED BY <2>1, <2>2, <2>3
<1>7. Chain(pl, Append(q, m), M)
  BY <1>2, <1>5, <1>6 DEF Chain
<1>8. Passed(pl, Append(q, m), U)
  BY <1>1, <1>2, <1>3 DEF Passed
<1> QED BY <1>2, <1>7, <1>8 DEF End

\* The connection is cut behind some frame.
LEMMA StreamCut ==
  ASSUME NEW pl \in Place, NEW q \in Seq(Frame), NEW k \in 0 .. Len(q), NEW M, NEW U,
         Chain(pl, q, M), Passed(pl, q, U)
  PROVE  /\ SubSeq(q, 1, k) \in Seq(Frame)
         /\ Chain(pl, SubSeq(q, 1, k), M) /\ Passed(pl, SubSeq(q, 1, k), U)
<1>1. PICK l \in Nat : l = Len(q)
  BY LenProperties
<1>2. k \in Nat /\ k <= l
  BY <1>1
<1>3. /\ SubSeq(q, 1, k) \in Seq(Frame) /\ Len(SubSeq(q, 1, k)) = k
      /\ \A i \in 1 .. k : SubSeq(q, 1, k)[i] = q[i]
  <2>1. 1 \in 1 .. l + 1 /\ k \in 0 .. l
    BY <1>2
  <2>2. IF 1 <= k THEN k - 1 + 1 = k ELSE k = 0
    BY <1>2
  <2>3. \A i \in 1 .. k : i \in 1 .. k - 1 + 1 /\ 1 + i - 1 = i /\ i \in 1 .. l
    BY <1>2
  <2>4. SubSeq(q, 1, k) = [i \in 1 .. (k - 1 + 1) |-> q[1 + i - 1]]
    BY DEF SubSeq
  <2>5. SubSeq(q, 1, k) = [i \in 1 .. k |-> q[i]]
    <3>1. 1 .. (k - 1 + 1) = 1 .. k
      BY <1>2
    <3> QED BY <2>3, <2>4, <3>1
  <2>6. \A i \in 1 .. k : q[i] \in Frame
    BY <2>3, <1>1, ElementOfSeq
  <2> QED BY <2>5, <2>6, <1>2
<1>4. \A i \in 1 .. k : i \in 1 .. l
  BY <1>2
<1>5. \A i \in 1 .. k - 1 : i \in 1 .. k /\ i + 1 \in 1 .. k /\ i \in 1 .. l - 1
  BY <1>2
<1>6. SubSeq(q, 1, k) # <<>> => 1 \in 1 .. k /\ q # <<>>
  <2>1. k = 0 => SubSeq(q, 1, k) = <<>>
    BY <1>3, EmptySeq
  <2>2. q = <<>> => l = 0
    BY <1>1
  <2> QED BY <2>1, <2>2, <1>2
<1> QED BY <1>1, <1>3, <1>4, <1>5, <1>6 DEF Chain, Passed

\* A file that is complete is over: what follows may as well follow the start.
LEMMA StreamRestart ==
  ASSUME NEW pl \in Place, NEW q \in Seq(Frame), NEW M, NEW U, NEW T \in Sender,
         Over(pl), None \notin U, Chain(pl, q, M), Passed(pl, q, U)
  PROVE  /\ Start \in Place /\ Chain(Start, q, M) /\ Passed(Start, q, U)
         /\ SenderAt(T, End(pl, q)) => SenderAt(T, End(Start, q))
<1>1. Start \in Place /\ Over(Start) /\ Start.file = None
  BY DEF Start, Place, Over
<1>2. ASSUME q # <<>>  PROVE Continues(Start, q[1], M)
  <2>1. q[1] \in Frame
    <3>1. PICK k \in Nat : k = Len(q)
      BY LenProperties
    <3>2. 1 \in 1 .. k
      BY <3>1, <1>2, EmptySeq
    <3> QED BY <3>1, <3>2, ElementOfSeq
  <2>2. Continues(pl, q[1], M)
    BY <1>2 DEF Chain
  <2>3. q[1].type # "DATA"
    <3>1. SUFFICES ASSUME q[1].type = "DATA"  PROVE FALSE
      OBVIOUS
    <3>2. q[1].file = pl.file /\ q[1].no = pl.no + 1 /\ q[1].no <= Size[q[1].file]
      BY <3>1, <2>2 DEF Continues
    <3>3. pl.file \in File
      BY <3>1, <3>2, <2>1, MarkPlace
    <3>4. pl.no = Size[pl.file] /\ Size[pl.file] \in Nat
      BY <3>3, FileAssumption DEF Over
    <3> QED BY <3>2, <3>4
  <2> QED BY <2>2, <2>3, <1>1 DEF Continues
<1>3. Chain(Start, q, M) /\ Passed(Start, q, U)
  BY <1>1, <1>2 DEF Chain, Passed
<1>4. SenderAt(T, End(pl, q)) => SenderAt(T, End(Start, q))
  <2>1. CASE q # <<>>
    BY <2>1 DEF End
  <2>2. CASE q = <<>>
    <3>1. SUFFICES ASSUME SenderAt(T, pl)  PROVE SenderAt(T, Start)
      BY <2>2 DEF End
    <3>2. CASE T.todo # <<>> /\ T.sent >= 0 /\ T.sent # Size[Head(T.todo)]
      <4>1. Head(T.todo) \in File
        BY <3>2, HeadTailProperties DEF Sender
      <4>2. pl.file = Head(T.todo) /\ pl.no = T.sent
        BY <3>1, <3>2 DEF SenderAt
      <4> QED BY <3>2, <4>1, <4>2, FileAssumption DEF Over
    <3>3. CASE ~(T.todo # <<>> /\ T.sent >= 0 /\ T.sent # Size[Head(T.todo)])
      BY <3>3, <1>1 DEF SenderAt
    <3> QED BY <3>2, <3>3
  <2> QED BY <2>1, <2>2
<1> QED BY <1>1, <1>3, <1>4

\* The peer has fewer files left.
LEMMA PassedFewer ==
  ASSUME NEW pl, NEW q, NEW U, NEW V \in SUBSET U, Passed(pl, q, U)
  PROVE  Passed(pl, q, V)
BY DEF Passed
-----------------------------------------------------------------------------
(* Contents and names.                                                     *)

\* Blocks that are written one after the other.
LEMMA PartBlocks ==
  ASSUME NEW f \in File, NEW k \in Nat
  PROVE  /\ Prefix(f, k) \in Seq(Block) /\ Len(Prefix(f, k)) = k
         /\ Prefix(f, 0) = <<>>
         /\ Prefix(f, Size[f]) = Whole(f)
<1>1. \A i \in 1 .. k : [file |-> f, no |-> i] \in Block
  BY DEF Block
<1>2. Prefix(f, k) \in [1 .. k -> Block] /\ DOMAIN Prefix(f, k) = 1 .. k
  BY <1>1 DEF Prefix
<1>3. Prefix(f, k) \in Seq(Block) /\ Len(Prefix(f, k)) = k
  BY <1>2
<1>4. Prefix(f, 0) = <<>>
  <2>1. Prefix(f, 0) \in Seq(Block) /\ Len(Prefix(f, 0)) = 0
    BY DEF Prefix
  <2> QED BY <2>1, EmptySeq
<1>5. Prefix(f, Size[f]) = Whole(f)
  BY DEF Prefix, Whole
<1> QED BY <1>3, <1>4, <1>5

\* A write at the end makes a file longer by its block.
LEMMA WrittenNext ==
  ASSUME NEW f \in File, NEW k \in Nat
  PROVE  Written(Prefix(f, k), k, [file |-> f, no |-> k + 1]) = Prefix(f, k + 1)
<1>1. Max({k, k + 1}) = k + 1
  BY DEF Max
<1>2. \A i \in 1 .. k + 1 : i # k + 1 => i <= k /\ i \in 1 .. k
  OBVIOUS
<1>3. Len(Prefix(f, k)) = k /\ \A i \in 1 .. k : Prefix(f, k)[i] = [file |-> f, no |-> i]
  BY PartBlocks DEF Prefix
<1>4. Prefix(f, k + 1) = [i \in 1 .. k + 1 |-> [file |-> f, no |-> i]]
  BY DEF Prefix
<1>5. Written(Prefix(f, k), k, [file |-> f, no |-> k + 1])
        = [i \in 1 .. k + 1 |->
             IF i = k + 1 THEN [file |-> f, no |-> k + 1]
             ELSE IF i <= k THEN Prefix(f, k)[i] ELSE Hole]
  BY <1>1, <1>3 DEF Written
<1> QED BY <1>2, <1>3, <1>4, <1>5

\* Whatever is written wherever, a content is a sequence of blocks.
LEMMA WrittenType ==
  ASSUME NEW c \in Seq(Block), NEW k \in Nat, NEW b \in Block
  PROVE  Written(c, k, b) \in Seq(Block)
<1>1. PICK l \in Nat : l = Len(c)
  BY LenProperties
<1>2. PICK h \in Nat : h = Max({l, k + 1})
  <2>1. \E m \in {l, k + 1} : \A y \in {l, k + 1} : m >= y
    BY <1>1
  <2>2. Max({l, k + 1}) \in {l, k + 1}
    BY <2>1 DEF Max
  <2> QED BY <2>2
<1>3. Hole \in Block
  BY DEF Hole, Block
<1>4. \A i \in 1 .. h : i <= l => c[i] \in Block
  BY <1>1, ElementOfSeq
<1>5. Written(c, k, b) \in [1 .. h -> Block]
  BY <1>1, <1>2, <1>3, <1>4 DEF Written
<1> QED BY <1>5

\* A name tells the file and the peer it comes from.
LEMMA SameName ==
  ASSUME DistinctNames, NEW p \in Peer, NEW q \in Peer, NEW f \in ToSet(Files[p]),
         NEW g \in ToSet(Files[q]), NameOf[f] = NameOf[g]
  PROVE  f = g /\ p = q
BY DEF DistinctNames, ToSet

\* Files that come are files, with names.
LEMMA MailType ==
  ASSUME NEW p \in Peer, NEW f \in ToSet(Files[p])
  PROVE  f \in File /\ NameOf[f] \in Name /\ Size[f] \in Nat
<1>1. Files[p] \in Seq(File)
  BY FileAssumption
<1>2. PICK i \in DOMAIN Files[p] : f = Files[p][i]
  BY DEF ToSet
<1>3. f \in File
  BY <1>1, <1>2, ElementOfSeq
<1> QED BY <1>3, FileAssumption

LEMMA SlotMail ==
  ASSUME NEW s \in Slot, NEW f \in MailOf(s)
  PROVE  /\ PeerOf[s] \in Peer /\ f \in ToSet(Files[PeerOf[s]])
         /\ f \in File /\ f # None /\ NameOf[f] \in Name /\ Size[f] \in Nat
         /\ NameOf[f] \in Names(s)
BY PeerAssumption, MailType, FileAssumption DEF MailOf, Names

\* Connections have nothing in common.
LEMMA OtherNames ==
  ASSUME Orderly, NEW s \in Slot, NEW t \in Slot, s # t, NEW f \in MailOf(s), NEW g \in MailOf(t)
  PROVE  f # g /\ NameOf[f] # NameOf[g] /\ NameOf[g] \notin Names(s)
<1>1. PeerOf[s] # PeerOf[t]
  BY DEF Orderly, OneSession
<1>2. \A h \in MailOf(s) : NameOf[h] # NameOf[g]
  BY <1>1, SameName, SlotMail DEF Orderly
<1> QED BY <1>2 DEF Names

-----------------------------------------------------------------------------
(* What a peer has left.                                                   *)

\* The first file, until it is written out, and all others.
LEMMA UnsentFiles ==
  ASSUME NEW T \in Sender
  PROVE  /\ Unsent(T) \subseteq File /\ None \notin Unsent(T)
         /\ T.todo # <<>> => Head(T.todo) \in File /\ Head(T.todo) = T.todo[1]
                             /\ 1 \in DOMAIN T.todo
         /\ T.todo # <<>> /\ T.sent # Size[Head(T.todo)] => Head(T.todo) \in Unsent(T)
<1>1. T.todo \in Seq(File)
  BY DEF Sender
<1>2. \A i \in DOMAIN T.todo : T.todo[i] \in File
  BY <1>1, ElementOfSeq
<1>3. ASSUME T.todo # <<>>
      PROVE  Head(T.todo) \in File /\ Head(T.todo) = T.todo[1] /\ 1 \in DOMAIN T.todo
  <2>1. PICK k \in Nat : k = Len(T.todo)
    BY <1>1, LenProperties
  <2>2. k # 0 /\ DOMAIN T.todo = 1 .. k
    BY <1>1, <1>3, <2>1, EmptySeq, LenProperties
  <2>3. 1 \in DOMAIN T.todo
    BY <2>2
  <2> QED BY <1>2, <2>3
<1> QED BY <1>2, <1>3, FileAssumption DEF Unsent

\* More of the first file, or the next one.
LEMMA UnsentSent ==
  ASSUME NEW T \in Sender, NEW S \in Sender, S.todo = T.todo, T.todo # <<>>,
         T.sent # Size[Head(T.todo)]
  PROVE  Unsent(S) \subseteq Unsent(T)
<1>1. Head(T.todo) = T.todo[1]
  BY UnsentFiles
<1> QED BY <1>1 DEF Unsent

LEMMA UnsentNext ==
  ASSUME NEW T \in Sender, NEW S \in Sender, T.todo # <<>>, S.todo = Tail(T.todo)
  PROVE  /\ Unsent(S) \subseteq Unsent(T)
         /\ \A i \in DOMAIN S.todo : i + 1 \in DOMAIN T.todo /\ S.todo[i] = T.todo[i + 1]
                                     /\ i \in Nat
<1>1. PICK k \in Nat : k = Len(T.todo)
  BY LenProperties DEF Sender
<1>2. k # 0 /\ DOMAIN T.todo = 1 .. k
  BY <1>1, EmptySeq, LenProperties DEF Sender
<1>3. /\ Len(S.todo) = k - 1
      /\ \A i \in 1 .. Len(S.todo) : S.todo[i] = T.todo[i + 1]
  BY <1>1, HeadTailProperties DEF Sender
<1>4. DOMAIN S.todo = 1 .. k - 1
  BY <1>3, LenProperties DEF Sender
<1>5. \A i \in 1 .. k - 1 : i + 1 \in 1 .. k /\ i + 1 # 1 /\ i \in Nat
  BY <1>1
<1> QED BY <1>2, <1>3, <1>4, <1>5 DEF Unsent

\* A file that has been written out is not among those left.
LEMMA UnsentOut ==
  ASSUME NEW T \in Sender, T.todo # <<>>, T.sent = Size[Head(T.todo)],
         \A i, j \in DOMAIN T.todo : T.todo[i] = T.todo[j] => i = j
  PROVE  Head(T.todo) \notin Unsent(T)
<1>1. Head(T.todo) = T.todo[1] /\ 1 \in DOMAIN T.todo
  BY UnsentFiles
<1> QED BY <1>1 DEF Unsent
-----------------------------------------------------------------------------
(* The directories.                                                        *)

\* The inodes of a directory are at most as many as its names.
LEMMA ImageSize ==
  ASSUME NEW S, IsFiniteSet(S), NEW X, NEW g \in [S -> X], NEW T, T = {g[x] : x \in S}
  PROVE  /\ IsFiniteSet(T) /\ Cardinality(T) \in Nat
         /\ Cardinality(T) <= Cardinality(S)
<1>1. g \in Surjection(S, T)
  BY DEF Surjection
<1>2. IsFiniteSet(T) /\ Cardinality(T) <= Cardinality(S)
  BY <1>1, FS_Surjection
<1> QED BY <1>2, FS_CardinalityType

LEMMA UnionSize ==
  ASSUME NEW S, NEW T, IsFiniteSet(S), IsFiniteSet(T)
  PROVE  /\ IsFiniteSet(S \cup T) /\ Cardinality(S \cup T) \in Nat
         /\ Cardinality(S \cup T) <= Cardinality(S) + Cardinality(T)
<1>1. Cardinality(S) \in Nat /\ Cardinality(T) \in Nat
  BY FS_CardinalityType
<1>2. IsFiniteSet(S \cup T) /\ IsFiniteSet(S \cap T)
  BY FS_Union, FS_Subset
<1>3. Cardinality(S \cup T) \in Nat /\ Cardinality(S \cap T) \in Nat
  BY <1>2, FS_CardinalityType
<1>4. Cardinality(S \cup T) = Cardinality(S) + Cardinality(T) - Cardinality(S \cap T)
  BY FS_Union
<1> QED BY <1>1, <1>2, <1>3, <1>4

\* There is an inode for a name that has none: each other one has a name in the temporary
\* directory, in an inbound directory, or a session that has it open.
LEMMA FreeInode ==
  ASSUME TypeOK, NEW d \in Disk, NEW n \in Name, d.temp[n] = None
  PROVE  \E i \in Inode : i \in Free(d)
<1>1. PICK c \in Nat : c = Cardinality(Name) /\ c # 0
  BY FiniteAssumption, FS_CardinalityType, FS_EmptySet
<1>2. PICK e \in Nat : e = Cardinality(Slot)
  BY FiniteAssumption, FS_CardinalityType
<1>3. PICK other : other = Name \ {n}
  OBVIOUS
<1>4. IsFiniteSet(other) /\ Cardinality(other) = c - 1
  BY <1>1, <1>3, FiniteAssumption, FS_RemoveElement
<1>5. PICK A : /\ A = {d.temp[x] : x \in other} /\ IsFiniteSet(A)
               /\ Cardinality(A) \in Nat /\ Cardinality(A) <= c - 1
  <2>1. PICK g : g = [x \in other |-> d.temp[x]]
    OBVIOUS
  <2>2. g \in [other -> Inode \cup {None}]
    BY <1>3, <2>1 DEF Disk
  <2>3. PICK T : T = {g[x] : x \in other}
    OBVIOUS
  <2>4. IsFiniteSet(T) /\ Cardinality(T) \in Nat /\ Cardinality(T) <= c - 1
    <3>1. IsFiniteSet(other)
      BY <1>4
    <3>2. PICK X : X = Inode \cup {None}
      OBVIOUS
    <3>3. g \in [other -> X]
      BY <2>2, <3>2
    <3>4. /\ IsFiniteSet(T) /\ Cardinality(T) \in Nat
          /\ Cardinality(T) <= Cardinality(other)
      BY <2>3, <3>1, <3>3, ImageSize
    <3> QED
      BY <1>4, <3>4
  <2>5. T = {d.temp[x] : x \in other}
    BY <2>1, <2>3
  <2> QED BY <2>4, <2>5
<1>6. ASSUME NEW y \in Dir
      PROVE  \E B : /\ B = {d.inbound[y][x] : x \in Name} /\ IsFiniteSet(B)
                   /\ Cardinality(B) \in Nat /\ Cardinality(B) <= c
  <2>1. PICK g : g = d.inbound[y]
    OBVIOUS
  <2>2. g \in [Name -> Inode \cup {None}]
    BY <2>1 DEF Disk
  <2>3. PICK T : T = {g[x] : x \in Name}
    OBVIOUS
  <2>4. IsFiniteSet(T) /\ Cardinality(T) \in Nat /\ Cardinality(T) <= c
    BY <1>1, <2>2, <2>3, FiniteAssumption, ImageSize
  <2> QED BY <2>1, <2>3, <2>4
<1>7. PICK B : /\ B = {d.inbound["secure"][x] : x \in Name} /\ IsFiniteSet(B)
               /\ Cardinality(B) \in Nat /\ Cardinality(B) <= c
  BY <1>6 DEF Dir
<1>8. PICK C : /\ C = {d.inbound["insecure"][x] : x \in Name} /\ IsFiniteSet(C)
               /\ Cardinality(C) \in Nat /\ Cardinality(C) <= c
  BY <1>6 DEF Dir
<1>9. PICK D : /\ D = {rx[s].fd : s \in Slot} /\ IsFiniteSet(D)
               /\ Cardinality(D) \in Nat /\ Cardinality(D) <= e
  <2>1. PICK g : g = [s \in Slot |-> rx[s].fd]
    OBVIOUS
  <2>2. g \in [Slot -> Inode \cup {None}]
    BY <2>1 DEF TypeOK, Reader
  <2>3. PICK T : T = {g[s] : s \in Slot}
    OBVIOUS
  <2>4. IsFiniteSet(T) /\ Cardinality(T) \in Nat /\ Cardinality(T) <= e
    BY <1>2, <2>2, <2>3, FiniteAssumption, ImageSize
  <2>5. T = {rx[s].fd : s \in Slot}
    BY <2>1, <2>3
  <2> QED BY <2>4, <2>5
<1>10. SUFFICES ASSUME \A i \in Inode : i \notin Free(d)  PROVE FALSE
  OBVIOUS
<1>11. ASSUME NEW i \in Inode  PROVE i \in (A \cup B) \cup (C \cup D)
  <2>1. i # None
    BY NoneAssumption
  <2>2. \/ \E x \in Name : d.temp[x] = i
        \/ \E x \in Name, y \in Dir : d.inbound[y][x] = i
        \/ \E s \in Slot : rx[s].fd = i
    BY <1>10 DEF Free
  <2>3. ASSUME NEW x \in Name, d.temp[x] = i  PROVE i \in A
    <3>1. x \in other
      BY <1>3, <2>1, <2>3
    <3> QED BY <1>5, <2>3, <3>1
  <2>4. ASSUME NEW x \in Name, NEW y \in Dir, d.inbound[y][x] = i  PROVE i \in B \/ i \in C
    <3>1. CASE y = "secure"
      BY <1>7, <2>4, <3>1
    <3>2. CASE y = "insecure"
      BY <1>8, <2>4, <3>2
    <3> QED BY <3>1, <3>2 DEF Dir
  <2>5. ASSUME NEW s \in Slot, rx[s].fd = i  PROVE i \in D
    BY <1>9, <2>5
  <2> QED BY <2>2, <2>3, <2>4, <2>5
<1>12. /\ IsFiniteSet(A \cup B) /\ Cardinality(A \cup B) \in Nat
       /\ Cardinality(A \cup B) <= (c - 1) + c
  <2>1. /\ IsFiniteSet(A \cup B) /\ Cardinality(A \cup B) \in Nat
        /\ Cardinality(A \cup B) <= Cardinality(A) + Cardinality(B)
    BY <1>5, <1>7, UnionSize
  <2> QED BY <1>5, <1>7, <2>1
<1>13. /\ IsFiniteSet(C \cup D) /\ Cardinality(C \cup D) \in Nat
       /\ Cardinality(C \cup D) <= c + e
  <2>1. /\ IsFiniteSet(C \cup D) /\ Cardinality(C \cup D) \in Nat
        /\ Cardinality(C \cup D) <= Cardinality(C) + Cardinality(D)
    BY <1>8, <1>9, UnionSize
  <2> QED BY <1>8, <1>9, <2>1
<1>14. PICK U : U = (A \cup B) \cup (C \cup D)
  OBVIOUS
<1>15. IsFiniteSet(U) /\ Cardinality(U) \in Nat /\ Cardinality(U) <= 3 * c + e - 1
  <2>1. /\ IsFiniteSet(U) /\ Cardinality(U) \in Nat
        /\ Cardinality(U) <= Cardinality(A \cup B) + Cardinality(C \cup D)
    BY <1>12, <1>13, <1>14, UnionSize
  <2> QED BY <1>12, <1>13, <2>1
<1>16. Cardinality(Inode) = 3 * c + e
  <2>1. 1 \in Int /\ 3 * c + e \in Int /\ ~(1 > 3 * c + e)
    BY <1>1
  <2>2. Cardinality(1 .. 3 * c + e) = 3 * c + e - 1 + 1
    BY <2>1, FS_Interval
  <2>3. Cardinality(1 .. 3 * c + e) = 3 * c + e
    BY <2>2
  <2>4. Inode = 1 .. 3 * c + e
    BY <1>1, <1>2 DEF Inode
  <2> QED BY <2>3, <2>4
<1>17. Cardinality(Inode) <= Cardinality(U)
  <2>1. Inode \in SUBSET U
    BY <1>11, <1>14
  <2> QED BY <1>15, <2>1, FS_Subset
<1> QED BY <1>15, <1>16, <1>17

\* os.Create gives the name an empty inode, its own or a free one.
LEMMA CreateParts ==
  ASSUME TypeOK, NEW d \in Disk, NEW n \in Name, NEW e, e = Create(d, n)
  PROVE  /\ e \in Disk /\ e.temp[n] \in Inode /\ e.temp[n] # None
         /\ e.data[e.temp[n]] = <<>> /\ e.inbound = d.inbound /\ e.taken = d.taken
         /\ \A m \in Name \ {n} : e.temp[m] = d.temp[m]
         /\ \A i \in Inode : i # e.temp[n] => e.data[i] = d.data[i]
         /\ d.temp[n] # None => e.temp[n] = d.temp[n]
         /\ d.temp[n] = None => e.temp[n] \in Free(d)
<1>1. PICK i : i = IF d.temp[n] # None THEN d.temp[n] ELSE CHOOSE k \in Free(d) : TRUE
  OBVIOUS
<1>2. i \in Inode /\ i # None
  BY <1>1, FreeInode, NoneAssumption DEF Free, Disk
<1>3. e = [d EXCEPT !.temp[n] = i, !.data[i] = <<>>]
  BY <1>1 DEF Create
<1>4. /\ e.temp = [d.temp EXCEPT ![n] = i] /\ e.data = [d.data EXCEPT ![i] = <<>>]
      /\ e.inbound = d.inbound /\ e.taken = d.taken
  BY <1>3 DEF Disk
<1>5. e \in Disk
  <2>1. <<>> \in Seq(Block)
    OBVIOUS
  <2>2. [d.temp EXCEPT ![n] = i] \in [Name -> Inode \cup {None}]
    BY <1>2 DEF Disk
  <2>3. [d.data EXCEPT ![i] = <<>>] \in [Inode -> Seq(Block)]
    BY <1>2, <2>1 DEF Disk
  <2> QED BY <1>3, <2>2, <2>3 DEF Disk
<1>6. e.temp[n] = i /\ e.data[i] = <<>>
  BY <1>2, <1>4 DEF Disk
<1>7. \A m \in Name \ {n} : e.temp[m] = d.temp[m]
  BY <1>4 DEF Disk
<1>8. \A k \in Inode : k # i => e.data[k] = d.data[k]
  BY <1>4 DEF Disk
<1>9. d.temp[n] = None => i \in Free(d)
  BY <1>1, FreeInode
<1> QED BY <1>1, <1>2, <1>4, <1>5, <1>6, <1>7, <1>8, <1>9

-----------------------------------------------------------------------------
(* Files that are moved and taken.                                         *)

\* A content that was in an inbound directory is there still, or was taken.
Found(d, p, c) ==
  \/ d.inbound[p.dir][p.name] # None /\ d.data[d.inbound[p.dir][p.name]] = c
  \/ \E t \in d.taken : t.data = c

Onward(d, e) ==
  /\ d.taken \subseteq e.taken
  /\ \A p \in Path : d.inbound[p.dir][p.name] # None
       => Found(e, p, d.data[d.inbound[p.dir][p.name]])

\* What is found is found later.
LEMMA FoundOnward ==
  ASSUME NEW d, NEW e, Onward(d, e), NEW p \in Path, NEW c, Found(d, p, c)
  PROVE  Found(e, p, c)
BY DEF Found, Onward

LEMMA OnwardOnward ==
  ASSUME NEW c, NEW d, NEW e, Onward(c, d), Onward(d, e)
  PROVE  Onward(c, e)
<1>1. ASSUME NEW p \in Path, c.inbound[p.dir][p.name] # None
      PROVE  Found(e, p, c.data[c.inbound[p.dir][p.name]])
  BY <1>1, FoundOnward DEF Onward
<1> QED BY <1>1 DEF Onward

LEMMA OnwardSame ==
  ASSUME NEW d, NEW e, e.inbound = d.inbound, e.taken = d.taken,
         \A p \in Path : d.inbound[p.dir][p.name] # None
           => e.data[d.inbound[p.dir][p.name]] = d.data[d.inbound[p.dir][p.name]]
  PROVE  Onward(d, e)
BY DEF Onward, Found

LEMMA PathType ==
  /\ \A p \in Path : p.dir \in Dir /\ p.name \in Name
  /\ \A s \in Slot : DestDir(s) \in Dir
  /\ \A n \in Name, s \in Slot : [dir |-> DestDir(s), name |-> n] \in Path
BY DEF Path, DestDir, Dir

\* A new file has an inode that no other name has.
LEMMA CreateOpens ==
  ASSUME TypeOK, NEW d \in Disk, Directories(d), NEW n \in Name, NEW e, e = Create(d, n)
  PROVE  /\ \A m \in Name \ {n} : d.temp[m] # e.temp[n]
         /\ \A p \in Path : d.inbound[p.dir][p.name] # e.temp[n]
         /\ Directories(e) /\ Onward(d, e)
<1>1. /\ e \in Disk /\ e.temp[n] \in Inode /\ e.temp[n] # None
      /\ e.inbound = d.inbound /\ e.taken = d.taken
      /\ \A m \in Name \ {n} : e.temp[m] = d.temp[m]
      /\ \A i \in Inode : i # e.temp[n] => e.data[i] = d.data[i]
      /\ d.temp[n] # None => e.temp[n] = d.temp[n]
      /\ d.temp[n] = None => e.temp[n] \in Free(d)
  BY CreateParts
<1>2. (\A m \in Name \ {n} : d.temp[m] # e.temp[n])
      /\ \A p \in Path : d.inbound[p.dir][p.name] # e.temp[n]
  <2>1. CASE d.temp[n] # None
    BY <2>1, <1>1 DEF Directories
  <2>2. CASE d.temp[n] = None
    BY <2>2, <1>1 DEF Free, Path
  <2> QED BY <2>1, <2>2
<1>3. \A p \in Path : d.inbound[p.dir][p.name] # None
        => e.data[d.inbound[p.dir][p.name]] = d.data[d.inbound[p.dir][p.name]]
  BY <1>1, <1>2, PathType DEF Disk
<1>4. Onward(d, e)
  BY <1>1, <1>3, OnwardSame
<1>5. Directories(e)
  <2>1. \A k, m \in Name : e.temp[k] = e.temp[m] /\ e.temp[k] # None => k = m
    BY <1>1, <1>2 DEF Directories
  <2>2. \A m \in Name, p \in Path : e.temp[m] = e.inbound[p.dir][p.name] => e.temp[m] = None
    BY <1>1, <1>2 DEF Directories
  <2>3. \A p \in Path : e.inbound[p.dir][p.name] # None
          => Holds(p.dir, p.name, e.data[e.inbound[p.dir][p.name]])
    BY <1>1, <1>3 DEF Directories
  <2> QED BY <1>1, <2>1, <2>2, <2>3 DEF Directories
<1> QED BY <1>2, <1>4, <1>5

\* The command of a trigger.
LEMMA TakenParts ==
  ASSUME NEW d \in Disk, NEW p \in Path, d.inbound[p.dir][p.name] # None,
         NEW e, e = Taken(d, p)
  PROVE  /\ e \in Disk /\ e.temp = d.temp /\ e.data = d.data
         /\ e.taken = d.taken \cup {[dir |-> p.dir, data |-> d.data[d.inbound[p.dir][p.name]]]}
         /\ \A q \in Path : e.inbound[q.dir][q.name]
                              = IF q = p THEN None ELSE d.inbound[q.dir][q.name]
<1>1. PICK i : i = d.inbound[p.dir][p.name]
  OBVIOUS
<1>2. p.dir \in Dir /\ p.name \in Name /\ i \in Inode
  BY <1>1, PathType DEF Disk
<1>3. PICK t : t = [dir |-> p.dir, data |-> d.data[i]]
  OBVIOUS
<1>4. t \in [dir : Dir, data : Seq(Block)]
  BY <1>2, <1>3 DEF Disk
<1>5. e = [d EXCEPT !.inbound[p.dir][p.name] = None, !.taken = @ \cup {t}]
  BY <1>1, <1>3 DEF Taken
<1>6. PICK j : j = [d.inbound EXCEPT ![p.dir][p.name] = None]
  OBVIOUS
<1>7. e \in Disk
  <2>1. PICK k : k = d.taken \cup {t}
    OBVIOUS
  <2>2. k \in SUBSET [dir : Dir, data : Seq(Block)]
    BY <1>4, <2>1 DEF Disk
  <2>3. j \in [Dir -> [Name -> Inode \cup {None}]]
    BY <1>2, <1>6 DEF Disk
  <2>4. e = [d EXCEPT !.inbound = j, !.taken = k]
    BY <1>5, <1>6, <2>1 DEF Disk
  <2> QED BY <2>2, <2>3, <2>4 DEF Disk
<1>8. /\ e.temp = d.temp /\ e.data = d.data /\ e.taken = d.taken \cup {t}
      /\ e.inbound = [d.inbound EXCEPT ![p.dir][p.name] = None]
  BY <1>5 DEF Disk
<1>9. ASSUME NEW q \in Path
      PROVE  e.inbound[q.dir][q.name] = IF q = p THEN None ELSE d.inbound[q.dir][q.name]
  <2>1. q = p <=> q.dir = p.dir /\ q.name = p.name
    BY DEF Path
  <2>2. q.dir \in Dir /\ q.name \in Name
    BY PathType
  <2> QED BY <1>2, <1>8, <2>1, <2>2 DEF Disk
<1> QED BY <1>1, <1>3, <1>7, <1>8, <1>9

LEMMA TakenKeeps ==
  ASSUME NEW d \in Disk, Directories(d), NEW p \in Path, NEW e, e = Taken(d, p)
  PROVE  /\ e \in Disk /\ Directories(e) /\ e.temp = d.temp /\ e.data = d.data
         /\ Onward(d, e)
         /\ d.inbound[p.dir][p.name] # None
              => \E t \in e.taken : t.data = d.data[d.inbound[p.dir][p.name]]
<1>1. CASE d.inbound[p.dir][p.name] = None
  BY <1>1 DEF Taken, Onward, Found
<1>2. CASE d.inbound[p.dir][p.name] # None
  <2>1. PICK t : t = [dir |-> p.dir, data |-> d.data[d.inbound[p.dir][p.name]]]
    OBVIOUS
  <2>2. /\ e \in Disk /\ e.temp = d.temp /\ e.data = d.data /\ e.taken = d.taken \cup {t}
        /\ \A q \in Path : e.inbound[q.dir][q.name]
                             = IF q = p THEN None ELSE d.inbound[q.dir][q.name]
    BY <1>2, <2>1, TakenParts
  <2>3. Right(t.dir, t.data)
    <3>1. Holds(p.dir, p.name, d.data[d.inbound[p.dir][p.name]])
      BY <1>2 DEF Directories
    <3> QED BY <2>1, <3>1 DEF Holds, Right
  <2>4. Directories(e)
    BY <2>2, <2>3 DEF Directories
  <2>5. Onward(d, e)
    BY <2>1, <2>2 DEF Onward, Found
  <2> QED BY <1>2, <2>1, <2>2, <2>4, <2>5
<1> QED BY <1>1, <1>2

LEMMA TakenType ==
  ASSUME NEW d \in Disk, NEW p \in Path
  PROVE  Taken(d, p) \in Disk
<1>1. CASE d.inbound[p.dir][p.name] = None
  BY <1>1 DEF Taken
<1>2. CASE d.inbound[p.dir][p.name] # None
  BY <1>2, TakenParts
<1> QED BY <1>1, <1>2

\* The rename.
LEMMA Moved ==
  ASSUME NEW d \in Disk, NEW p \in Path,
         NEW e, e = Renamed(d, p)
  PROVE  /\ e \in Disk /\ e.data = d.data /\ e.taken = d.taken
         /\ \A m \in Name : e.temp[m] = IF m = p.name THEN None ELSE d.temp[m]
         /\ \A q \in Path : e.inbound[q.dir][q.name]
                              = IF q = p THEN d.temp[p.name] ELSE d.inbound[q.dir][q.name]
<1>1. p.dir \in Dir /\ p.name \in Name /\ d.temp[p.name] \in Inode \cup {None}
  BY PathType DEF Disk
<1>2. [d.temp EXCEPT ![p.name] = None] \in [Name -> Inode \cup {None}]
  BY <1>1 DEF Disk
<1>3. [d.inbound EXCEPT ![p.dir][p.name] = d.temp[p.name]]
        \in [Dir -> [Name -> Inode \cup {None}]]
  BY <1>1 DEF Disk
<1>4. e \in Disk
  BY <1>2, <1>3 DEF Disk, Renamed
<1>5. /\ e.data = d.data /\ e.taken = d.taken
      /\ e.temp = [d.temp EXCEPT ![p.name] = None]
      /\ e.inbound = [d.inbound EXCEPT ![p.dir][p.name] = d.temp[p.name]]
  BY DEF Disk, Renamed
<1>6. \A m \in Name : e.temp[m] = IF m = p.name THEN None ELSE d.temp[m]
  BY <1>5 DEF Disk
<1>7. ASSUME NEW q \in Path
      PROVE  e.inbound[q.dir][q.name]
               = IF q = p THEN d.temp[p.name] ELSE d.inbound[q.dir][q.name]
  <2>1. q = p <=> q.dir = p.dir /\ q.name = p.name
    BY DEF Path
  <2>2. q.dir \in Dir /\ q.name \in Name
    BY PathType
  <2> QED BY <1>1, <1>5, <2>1, <2>2 DEF Disk
<1> QED BY <1>4, <1>5, <1>6, <1>7

\* Under its old name there is, if anything, the same file.
LEMMA MovedKeeps ==
  ASSUME DistinctNames, NEW d \in Disk, Directories(d), NEW s \in Slot, NEW f \in MailOf(s),
         d.temp[NameOf[f]] # None, d.data[d.temp[NameOf[f]]] = Whole(f),
         NEW p \in Path, p.dir = DestDir(s), p.name = NameOf[f],
         NEW e, e = Renamed(d, p)
  PROVE  /\ e \in Disk /\ Directories(e) /\ e.data = d.data /\ Onward(d, e)
         /\ \A m \in Name : e.temp[m] = IF m = p.name THEN None ELSE d.temp[m]
         /\ e.inbound[p.dir][p.name] = d.temp[p.name]
<1>1. p.name \in Name /\ p.name = NameOf[f] /\ p.dir = DestDir(s)
  BY PathType
<1>2. /\ e \in Disk /\ e.data = d.data /\ e.taken = d.taken
      /\ \A m \in Name : e.temp[m] = IF m = p.name THEN None ELSE d.temp[m]
      /\ \A q \in Path : e.inbound[q.dir][q.name]
                           = IF q = p THEN d.temp[p.name] ELSE d.inbound[q.dir][q.name]
  BY Moved
<1>3. PICK i : i = d.temp[p.name] /\ i # None /\ d.data[i] = Whole(f)
  BY <1>1
<1>4. Holds(p.dir, p.name, Whole(f))
  BY <1>1, SlotMail DEF Holds, DestDir
<1>5. Directories(e)
  <2>1. \A m, n \in Name : e.temp[m] = e.temp[n] /\ e.temp[m] # None => m = n
    BY <1>2 DEF Directories
  <2>2. ASSUME NEW m \in Name, NEW q \in Path, e.temp[m] = e.inbound[q.dir][q.name]
        PROVE  e.temp[m] = None
    BY <1>1, <1>2, <2>2 DEF Directories
  <2>3. ASSUME NEW q \in Path, e.inbound[q.dir][q.name] # None
        PROVE  Holds(q.dir, q.name, e.data[e.inbound[q.dir][q.name]])
    BY <1>2, <1>3, <1>4, <2>3 DEF Directories
  <2> QED BY <1>2, <2>1, <2>2, <2>3 DEF Directories
<1>6. Onward(d, e)
  <2>1. ASSUME NEW q \in Path, d.inbound[q.dir][q.name] # None
        PROVE  Found(e, q, d.data[d.inbound[q.dir][q.name]])
    <3>1. CASE q # p
      BY <1>2, <2>1, <3>1 DEF Found
    <3>2. CASE q = p
      <4>1. Holds(p.dir, p.name, d.data[d.inbound[p.dir][p.name]])
        BY <2>1, <3>2 DEF Directories
      <4>2. PICK o \in Peer : \E g \in ToSet(Files[o]) :
              NameOf[g] = NameOf[f] /\ d.data[d.inbound[p.dir][p.name]] = Whole(g)
        BY <1>1, <4>1 DEF Holds
      <4>3. d.data[d.inbound[p.dir][p.name]] = Whole(f)
        BY <4>2, SameName, SlotMail
      <4> QED BY <1>1, <1>2, <1>3, <3>2, <4>3 DEF Found
    <3> QED BY <3>1, <3>2
  <2> QED BY <1>2, <2>1 DEF Onward
<1> QED BY <1>1, <1>2, <1>5, <1>6
\* A trigger that is put off.
LEMMA AppendSet ==
  ASSUME NEW S, NEW q \in Seq(S), NEW x \in S
  PROVE  /\ \A y \in ToSet(q) : y \in ToSet(Append(q, x))
         /\ \A y \in ToSet(Append(q, x)) : y \in ToSet(q) \/ y = x
         /\ x \in ToSet(Append(q, x))
<1>1. PICK k \in Nat : k = Len(q)
  BY LenProperties
<1>2. /\ Append(q, x) \in Seq(S) /\ Len(Append(q, x)) = k + 1 /\ Append(q, x)[k + 1] = x
      /\ \A i \in 1 .. k : Append(q, x)[i] = q[i]
  BY <1>1, AppendProperties
<1>3. DOMAIN q = 1 .. k /\ DOMAIN Append(q, x) = 1 .. k + 1
  BY <1>1, <1>2, LenProperties
<1>4. \A i \in 1 .. k + 1 : i \in 1 .. k \/ i = k + 1
  BY <1>1
<1>5. k + 1 \in 1 .. k + 1 /\ \A i \in 1 .. k : i \in 1 .. k + 1
  BY <1>1
<1> QED BY <1>2, <1>3, <1>4, <1>5 DEF ToSet

\* The file is closed, and its trigger put off.
Shut(r) == [r EXCEPT !.fd = None]
PutOff(r, p) == [r EXCEPT !.pending = Append(@, p)]

LEMMA ReaderCloses ==
  ASSUME NEW r \in Reader, NEW c, c = Shut(r), NEW p \in Path, NEW w, w = PutOff(c, p)
  PROVE  /\ c \in Reader /\ c.fd = None /\ c.phase = r.phase /\ c.pending = r.pending
         /\ w \in Reader /\ w.fd = None /\ w.phase = r.phase
         /\ w.pending = Append(r.pending, p) /\ w.pending \in Seq(Path)
<1>1. c \in Reader /\ c.fd = None /\ c.phase = r.phase /\ c.pending = r.pending
  BY DEF Reader, Shut
<1>2. Append(r.pending, p) \in Seq(Path)
  BY AppendProperties DEF Reader
<1>3. w \in Reader /\ w.fd = None /\ w.phase = c.phase /\ w.pending = Append(r.pending, p)
  BY <1>1, <1>2 DEF Reader, PutOff
<1> QED BY <1>1, <1>2, <1>3

\* A file is finished, whatever there is of it.
LEMMA FinishType ==
  ASSUME NEW d \in Disk, NEW s \in Slot, NEW r \in Reader, r.name \in Name,
         NEW g, g = Finish(d, r, s)
  PROVE  /\ g.disk \in Disk /\ g.rx \in Reader /\ g.gots \in Seq(Name)
         /\ g.rx.fd = None /\ g.rx.phase = r.phase
<1>1. PICK p : p = [dir |-> DestDir(s), name |-> r.name]
  OBVIOUS
<1>2. p \in Path
  BY <1>1, PathType
<1>3. PICK m : m = Renamed(d, p)
  OBVIOUS
<1>4. m \in Disk /\ Taken(m, p) \in Disk
  BY <1>2, <1>3, Moved, TakenType
<1>5. PICK c : c = Shut(r)
  OBVIOUS
<1>6. PICK w : w = PutOff(c, p)
  OBVIOUS
<1>7. /\ c \in Reader /\ c.fd = None /\ c.phase = r.phase
      /\ w \in Reader /\ w.fd = None /\ w.phase = r.phase
  BY <1>2, <1>5, <1>6, ReaderCloses
<1>8. <<>> \in Seq(Name) /\ <<r.name>> \in Seq(Name)
  OBVIOUS
<1>9. CASE d.temp[r.name] = None
  <2>1. g = [disk |-> d, rx |-> c, gots |-> <<>>]
    BY <1>5, <1>9 DEF Finish, Shut, PutOff
  <2> QED BY <1>7, <1>8, <2>1
<1>10. CASE d.temp[r.name] # None /\ r.name \in Later
  <2>1. g = [disk |-> m, rx |-> w, gots |-> <<r.name>>]
    BY <1>1, <1>3, <1>5, <1>6, <1>10 DEF Finish, Shut, PutOff
  <2> QED BY <1>4, <1>7, <1>8, <2>1
<1>11. CASE d.temp[r.name] # None /\ r.name \notin Later
  <2>1. g = [disk |-> Taken(m, p), rx |-> c, gots |-> <<r.name>>]
    BY <1>1, <1>3, <1>5, <1>11 DEF Finish, Shut, PutOff
  <2> QED BY <1>4, <1>7, <1>8, <2>1
<1> QED BY <1>9, <1>10, <1>11

\* A file is with a tosser, or the session has a trigger for it.
Provided(d, r, f) ==
  \/ \E t \in d.taken : t.data = Whole(f)
  \/ \E p \in ToSet(r.pending) : p \in Path /\ Found(d, p, Whole(f))

\* Triggers are not forgotten.
Defers(r, q) ==
  /\ \A p \in ToSet(r.pending) : p \in ToSet(q.pending)
  /\ \A p \in ToSet(q.pending) : p \in ToSet(r.pending) \/ p.name \in Later

FinishesWell(d, r, f, g) ==
  /\ g.disk \in Disk /\ Directories(g.disk) /\ Onward(d, g.disk)
  /\ g.disk.data = d.data
  /\ \A m \in Name : g.disk.temp[m] = IF m = r.name THEN None ELSE d.temp[m]
  /\ g.gots = <<r.name>> /\ g.rx.fd = None /\ g.rx.phase = r.phase
  /\ Defers(r, g.rx) /\ Provided(g.disk, g.rx, f)

\* A whole file is finished: it comes into its inbound directory or to its trigger.
LEMMA FinishMoves ==
  ASSUME DistinctNames, NEW d \in Disk, Directories(d), NEW s \in Slot, NEW f \in MailOf(s),
         NEW r \in Reader, r.name = NameOf[f], d.temp[r.name] # None,
         d.data[d.temp[r.name]] = Whole(f), NEW g, g = Finish(d, r, s)
  PROVE  FinishesWell(d, r, f, g)
<1>1. PICK p : p = [dir |-> DestDir(s), name |-> r.name]
  OBVIOUS
<1>2. p \in Path /\ p.dir = DestDir(s) /\ p.name = NameOf[f] /\ p.name = r.name
  BY <1>1, PathType, SlotMail
<1>3. PICK m : m = Renamed(d, p)
  OBVIOUS
<1>4. /\ m \in Disk /\ Directories(m) /\ m.data = d.data /\ Onward(d, m)
      /\ \A n \in Name : m.temp[n] = IF n = p.name THEN None ELSE d.temp[n]
      /\ m.inbound[p.dir][p.name] = d.temp[p.name]
  BY <1>2, <1>3, MovedKeeps
<1>5. m.inbound[p.dir][p.name] # None /\ m.data[m.inbound[p.dir][p.name]] = Whole(f)
  BY <1>2, <1>4
<1>6. PICK c : c = Shut(r)
  OBVIOUS
<1>7. PICK w : w = PutOff(c, p)
  OBVIOUS
<1>8. /\ c.fd = None /\ c.phase = r.phase /\ c.pending = r.pending
       /\ w.fd = None /\ w.phase = r.phase /\ w.pending = Append(r.pending, p)
  BY <1>2, <1>6, <1>7, ReaderCloses
<1>9. CASE r.name \in Later
  <2>1. g = [disk |-> m, rx |-> w, gots |-> <<r.name>>]
    BY <1>1, <1>3, <1>6, <1>7, <1>9 DEF Finish, Shut, PutOff
  <2>2. /\ g.disk = m /\ g.gots = <<r.name>> /\ g.rx.fd = None /\ g.rx.phase = r.phase
        /\ g.rx.pending = Append(r.pending, p)
    BY <1>8, <2>1
  <2>3. /\ \A y \in ToSet(r.pending) : y \in ToSet(g.rx.pending)
        /\ \A y \in ToSet(g.rx.pending) : y \in ToSet(r.pending) \/ y = p
        /\ p \in ToSet(g.rx.pending)
    BY <1>2, <2>2, AppendSet DEF Reader
  <2>4. Found(m, p, Whole(f))
    BY <1>5 DEF Found
  <2> QED BY <1>2, <1>4, <1>9, <2>2, <2>3, <2>4 DEF FinishesWell, Defers, Provided
<1>10. CASE r.name \notin Later
  <2>1. g = [disk |-> Taken(m, p), rx |-> c, gots |-> <<r.name>>]
    BY <1>1, <1>3, <1>6, <1>10 DEF Finish, Shut, PutOff
  <2>2. PICK e : e = Taken(m, p)
    OBVIOUS
  <2>3. /\ g.disk = e /\ g.gots = <<r.name>> /\ g.rx.fd = None /\ g.rx.phase = r.phase
        /\ g.rx.pending = r.pending
    BY <1>8, <2>1, <2>2
  <2>4. /\ e \in Disk /\ Directories(e) /\ e.temp = m.temp /\ e.data = m.data /\ Onward(m, e)
        /\ m.inbound[p.dir][p.name] # None
             => \E t \in e.taken : t.data = m.data[m.inbound[p.dir][p.name]]
    BY <1>2, <1>4, <2>2, TakenKeeps
  <2>5. \E t \in e.taken : t.data = Whole(f)
    BY <1>5, <2>4
  <2>6. Onward(d, e)
    BY <1>4, <2>4, OnwardOnward
  <2> QED BY <1>2, <1>4, <2>3, <2>4, <2>5, <2>6 DEF FinishesWell, Defers, Provided
<1> QED BY <1>9, <1>10
-----------------------------------------------------------------------------
(* Type correctness.                                                       *)

\* A session opens a file.
Opens(r, i, n, o, z) ==
  [r EXCEPT !.fd = i, !.name = n, !.offset = o, !.bytes = o, !.size = z]

LEMMA OpensParts ==
  ASSUME NEW r \in Reader, NEW i \in Inode, NEW n \in Name, NEW o \in Nat, NEW z \in Nat,
         NEW q, q = Opens(r, i, n, o, z)
  PROVE  /\ q \in Reader /\ q.fd = i /\ q.name = n /\ q.offset = o /\ q.bytes = o /\ q.size = z
         /\ q.phase = r.phase /\ q.pending = r.pending
<1>1. q \in Reader
  BY DEF Opens, Reader
<1>2. q.fd = i /\ q.name = n /\ q.offset = o /\ q.bytes = o /\ q.size = z
  BY DEF Opens, Reader
<1>3. q.phase = r.phase /\ q.pending = r.pending
  BY DEF Opens, Reader
<1> QED BY <1>1, <1>2, <1>3

\* What M_FILE leaves.
LEMMA OpenedType ==
  ASSUME TypeOK, NEW s \in Slot, NEW m \in Frame, m.type = "FILE", NEW done,
         done.disk \in Disk, done.rx \in Reader, done.gots \in Seq(Name),
         NEW g, g = Opened(s, m, done)
  PROVE  /\ g.disk \in Disk /\ g.rx \in Reader /\ g.gots \in Seq(Name)
         /\ g.rx.phase = done.rx.phase /\ g.rx.name \in Name
<1>1. PICK n : n = NameOf[m.file]
  OBVIOUS
<1>2. m.file \in File /\ m.offset \in Nat /\ n \in Name /\ Size[m.file] \in Nat
  BY <1>1, MarkPlace, FileAssumption
<1>3. PICK e : e = Create(done.disk, n)
  OBVIOUS
<1>4. e \in Disk /\ e.temp[n] \in Inode
  BY <1>2, <1>3, CreateParts
<1>5. CASE CanResume(done.disk, n, m.offset)
  <2>1. done.disk.temp[n] \in Inode
    BY <1>2, <1>5 DEF CanResume, Disk
  <2>2. g = [disk |-> done.disk, gots |-> done.gots,
             rx |-> Opens(done.rx, done.disk.temp[n], n, m.offset, Size[m.file])]
    BY <1>1, <1>5 DEF Opened, Opens
  <2>3. PICK q : q = Opens(done.rx, done.disk.temp[n], n, m.offset, Size[m.file])
    OBVIOUS
  <2>4. q \in Reader /\ q.phase = done.rx.phase /\ q.name = n
    BY <1>2, <2>1, <2>3, OpensParts
  <2> QED BY <1>2, <2>2, <2>3, <2>4
<1>6. CASE ~CanResume(done.disk, n, m.offset)
  <2>1. g = [disk |-> e, gots |-> done.gots,
             rx |-> Opens(done.rx, e.temp[n], n, 0, Size[m.file])]
    BY <1>1, <1>3, <1>6 DEF Opened, Opens
  <2>2. PICK q : q = Opens(done.rx, e.temp[n], n, 0, Size[m.file])
    OBVIOUS
  <2>3. q \in Reader /\ q.phase = done.rx.phase /\ q.name = n
    BY <1>2, <1>4, <2>2, OpensParts
  <2> QED BY <1>2, <1>4, <2>1, <2>2, <2>3
<1> QED BY <1>5, <1>6

\* What a handler leaves is of the types.
LEMMA HandledType ==
  ASSUME TypeOK, NEW s \in Slot, chan[s] # <<>>, NEW g, g.disk \in Disk, g.rx \in Reader,
         g.gots \in Seq(Name), g.rx.fd # None => g.rx.phase = "up" /\ g.rx.name \in Name,
         Handled(s, g)
  PROVE  TypeOK'
<1>1. /\ disk' = g.disk /\ rx' = [rx EXCEPT ![s] = g.rx]
      /\ gots' = IF tx[s].up THEN [gots EXCEPT ![s] = @ \o g.gots] ELSE gots
      /\ chan' = [chan EXCEPT ![s] = Tail(@)]
      /\ UNCHANGED <<tx, confirmed, reached, cuts>>
  BY DEF Handled
<1>2. rx' \in [Slot -> Reader]
  BY <1>1 DEF TypeOK
<1>3. Tail(chan[s]) \in Seq(Frame) /\ gots[s] \o g.gots \in Seq(Name)
  BY HeadTailProperties, ConcatProperties DEF TypeOK
<1>4. chan' \in [Slot -> Seq(Frame)] /\ gots' \in [Slot -> Seq(Name)]
  BY <1>1, <1>3 DEF TypeOK
<1>5. \A t \in Slot : rx'[t].fd # None => rx'[t].phase = "up" /\ rx'[t].name \in Name
  BY <1>1 DEF TypeOK
<1> QED BY <1>1, <1>2, <1>4, <1>5 DEF TypeOK

\* What is left of the file that is open.
LEMMA FinishOpenType ==
  ASSUME TypeOK, NEW s \in Slot, NEW g, g = FinishOpen(disk, rx[s], s)
  PROVE  /\ g.disk \in Disk /\ g.rx \in Reader /\ g.gots \in Seq(Name)
         /\ g.rx.fd = None /\ g.rx.phase = rx[s].phase
<1>1. rx[s] \in Reader /\ disk \in Disk /\ (rx[s].fd # None => rx[s].name \in Name)
  BY DEF TypeOK
<1>2. CASE rx[s].fd # None
  BY <1>1, <1>2, FinishType DEF FinishOpen
<1>3. CASE rx[s].fd = None
  <2>1. g = [disk |-> disk, rx |-> rx[s], gots |-> <<>>]
    BY <1>3 DEF FinishOpen
  <2> QED BY <1>1, <1>3, <2>1
<1> QED BY <1>2, <1>3

\* A block is written.
Gets(s, m) ==
  [disk EXCEPT !.data[rx[s].fd] = Written(@, rx[s].offset, [file |-> m.file, no |-> m.no])]
More(r) == [r EXCEPT !.offset = @ + 1, !.bytes = @ + 1]

LEMMA MoreParts ==
  ASSUME NEW r \in Reader, NEW q, q = More(r)
  PROVE  /\ q \in Reader /\ q.fd = r.fd /\ q.phase = r.phase /\ q.name = r.name
         /\ q.size = r.size /\ q.pending = r.pending
         /\ q.offset = r.offset + 1 /\ q.bytes = r.bytes + 1
<1>1. r.offset \in Nat /\ r.bytes \in Nat
  BY DEF Reader
<1>2. PICK o \in Nat : o = r.offset + 1
  BY <1>1
<1>3. PICK b \in Nat : b = r.bytes + 1
  BY <1>1
<1>4. q = [r EXCEPT !.offset = o, !.bytes = b]
  BY <1>2, <1>3 DEF More
<1>5. q \in Reader
  BY <1>4 DEF Reader
<1>6. /\ q.fd = r.fd /\ q.phase = r.phase /\ q.name = r.name
      /\ q.size = r.size /\ q.pending = r.pending
  BY <1>4 DEF Reader
<1>7. q.offset = o /\ q.bytes = b
  BY <1>4 DEF Reader
<1> QED BY <1>2, <1>3, <1>5, <1>6, <1>7

LEMMA GetsParts ==
  ASSUME TypeOK, NEW s \in Slot, rx[s].fd # None, NEW m \in Frame, m.type = "DATA",
         NEW d, d = Gets(s, m)
  PROVE  /\ d \in Disk /\ d.temp = disk.temp /\ d.inbound = disk.inbound /\ d.taken = disk.taken
         /\ d.data[rx[s].fd] = Written(disk.data[rx[s].fd], rx[s].offset,
                                       [file |-> m.file, no |-> m.no])
         /\ \A i \in Inode : i # rx[s].fd => d.data[i] = disk.data[i]
<1>1. rx[s].fd \in Inode /\ rx[s].offset \in Nat /\ disk \in Disk
  BY DEF TypeOK, Reader
<1>2. m.file \in File /\ m.no \in Nat
  BY MarkPlace
<1>3. [file |-> m.file, no |-> m.no] \in Block
  BY <1>2 DEF Block
<1>4. PICK c : c = Written(disk.data[rx[s].fd], rx[s].offset, [file |-> m.file, no |-> m.no])
  OBVIOUS
<1>5. c \in Seq(Block)
  <2>1. disk.data[rx[s].fd] \in Seq(Block)
    BY <1>1 DEF Disk
  <2> QED BY <1>1, <1>3, <1>4, <2>1, WrittenType
<1>6. d = [disk EXCEPT !.data[rx[s].fd] = c]
  BY <1>4 DEF Gets
<1>7. d \in Disk
  BY <1>1, <1>5, <1>6 DEF Disk
<1>8. d.temp = disk.temp /\ d.inbound = disk.inbound /\ d.taken = disk.taken
  BY <1>1, <1>6 DEF Disk
<1>9. d.data[rx[s].fd] = c /\ \A i \in Inode : i # rx[s].fd => d.data[i] = disk.data[i]
  BY <1>1, <1>6 DEF Disk
<1> QED BY <1>4, <1>7, <1>8, <1>9
Fed(s, m) ==
  IF rx[s].fd = None THEN [disk |-> disk, rx |-> rx[s], gots |-> <<>>]
  ELSE IF rx[s].size > 0 /\ More(rx[s]).bytes >= rx[s].size
       THEN Finish(Gets(s, m), More(rx[s]), s)
       ELSE [disk |-> Gets(s, m), rx |-> More(rx[s]), gots |-> <<>>]

LEMMA HandleDataFeeds ==
  ASSUME TypeOK, NEW s \in Slot, HandleData(s)
  PROVE  Reads(s, "DATA") /\ Handled(s, Fed(s, Head(chan[s])))
<1>1. More(rx[s]).size = rx[s].size /\ More(rx[s]).fd = rx[s].fd
  BY MoreParts DEF TypeOK
<1> QED BY <1>1 DEF HandleData, Fed, Gets, More

\* A frame that is read.
LEMMA HeadFrame ==
  ASSUME TypeOK, NEW s \in Slot, NEW type, Reads(s, type)
  PROVE  /\ Head(chan[s]) \in Frame /\ Head(chan[s]).type = type /\ chan[s] # <<>>
         /\ chan[s] \in Seq(Frame) /\ Tail(chan[s]) \in Seq(Frame)
         /\ rx[s].phase = "up" /\ rx[s] \in Reader /\ disk \in Disk
BY HeadTailProperties DEF Reads, TypeOK

\* The handlers of momail ...
LEMMA HandlersType ==
  ASSUME TypeOK, NEW s \in Slot, HandleFile(s) \/ HandleData(s) \/ HandleEOB(s)
  PROVE  TypeOK'
<1>1. CASE HandleFile(s)
  <2>1. PICK m : m = Head(chan[s])
    OBVIOUS
  <2>2. m \in Frame /\ m.type = "FILE" /\ chan[s] # <<>> /\ rx[s].phase = "up"
    BY <1>1, <2>1, HeadFrame DEF HandleFile
  <2>3. PICK done : done = FinishOpen(disk, rx[s], s)
    OBVIOUS
  <2>4. /\ done.disk \in Disk /\ done.rx \in Reader /\ done.gots \in Seq(Name)
        /\ done.rx.phase = "up"
    BY <2>2, <2>3, FinishOpenType
  <2>5. PICK g : g = Opened(s, m, done)
    OBVIOUS
  <2>6. /\ g.disk \in Disk /\ g.rx \in Reader /\ g.gots \in Seq(Name)
        /\ g.rx.phase = "up" /\ g.rx.name \in Name
    BY <2>2, <2>4, <2>5, OpenedType
  <2>7. Handled(s, g)
    BY <1>1, <2>1, <2>3, <2>5 DEF HandleFile
  <2> QED BY <2>2, <2>6, <2>7, HandledType
<1>2. CASE HandleData(s)
  <2>1. PICK m : m = Head(chan[s])
    OBVIOUS
  <2>2. /\ m \in Frame /\ m.type = "DATA" /\ chan[s] # <<>> /\ rx[s].phase = "up"
        /\ rx[s] \in Reader /\ disk \in Disk
    BY <1>2, <2>1, HandleDataFeeds, HeadFrame
  <2>3. PICK g : g = Fed(s, m)
    OBVIOUS
  <2>4. Handled(s, g)
    BY <1>2, <2>1, <2>3, HandleDataFeeds
  <2>5. <<>> \in Seq(Name)
    OBVIOUS
  <2>6. CASE rx[s].fd = None
    <3>1. g = [disk |-> disk, rx |-> rx[s], gots |-> <<>>]
      BY <2>3, <2>6 DEF Fed
    <3> QED BY <2>2, <2>4, <2>5, <2>6, <3>1, HandledType
  <2>7. CASE rx[s].fd # None
    <3>1. PICK d : d = Gets(s, m)
      OBVIOUS
    <3>2. PICK r : r = More(rx[s])
      OBVIOUS
    <3>3. d \in Disk
      BY <2>2, <2>7, <3>1, GetsParts
    <3>4. r \in Reader /\ r.phase = "up" /\ r.name \in Name
      <4>1. rx[s].name \in Name
        BY <2>7 DEF TypeOK
      <4> QED BY <2>2, <3>2, <4>1, MoreParts
    <3>5. CASE rx[s].size > 0 /\ r.bytes >= rx[s].size
      <4>1. g = Finish(d, r, s)
        BY <2>3, <2>7, <3>1, <3>2, <3>5 DEF Fed
      <4>2. g.disk \in Disk /\ g.rx \in Reader /\ g.gots \in Seq(Name) /\ g.rx.fd = None
        BY <3>3, <3>4, <4>1, FinishType
      <4> QED BY <2>2, <2>4, <4>2, HandledType
    <3>6. CASE ~(rx[s].size > 0 /\ r.bytes >= rx[s].size)
      <4>1. g = [disk |-> d, rx |-> r, gots |-> <<>>]
        BY <2>3, <2>7, <3>1, <3>2, <3>6 DEF Fed
      <4>2. /\ g.disk \in Disk /\ g.rx \in Reader /\ g.gots \in Seq(Name)
            /\ g.rx.phase = "up" /\ g.rx.name \in Name
        BY <2>5, <3>3, <3>4, <4>1
      <4> QED BY <2>2, <2>4, <4>2, HandledType
    <3> QED BY <3>5, <3>6
  <2> QED BY <2>6, <2>7
<1>3. CASE HandleEOB(s)
  <2>1. PICK done : done = FinishOpen(disk, rx[s], s)
    OBVIOUS
  <2>2. PICK g : g = [done EXCEPT !.rx.phase = "ending"]
    OBVIOUS
  <2>3. chan[s] # <<>> /\ Handled(s, g)
    BY <1>3, <2>1, <2>2, HeadFrame DEF HandleEOB
  <2>4. /\ done.disk \in Disk /\ done.rx \in Reader /\ done.gots \in Seq(Name)
        /\ done.rx.fd = None
    BY <2>1, FinishOpenType
  <2>5. g.disk \in Disk /\ g.rx \in Reader /\ g.gots \in Seq(Name) /\ g.rx.fd = None
    <3>1. done = [disk |-> done.disk, rx |-> done.rx, gots |-> done.gots]
      BY <2>1 DEF FinishOpen, Finish
    <3>2. PICK q : q = [done.rx EXCEPT !.phase = "ending"]
      OBVIOUS
    <3>3. q \in Reader /\ q.fd = None
      BY <2>4, <3>2 DEF Reader
    <3>4. g = [disk |-> done.disk, rx |-> q, gots |-> done.gots]
      BY <2>2, <3>1, <3>2
    <3> QED BY <2>4, <3>3, <3>4
  <2> QED BY <2>3, <2>5, HandledType
<1> QED BY <1>1, <1>2, <1>3

\* ... and all else.
LEMMA OthersType ==
  ASSUME TypeOK, NEW s \in Slot,
         ReadFails(s) \/ RunPending(s) \/ Connect(s) \/ PeerSends(s) \/ PeerSendsEOB(s)
           \/ PeerGot(s) \/ PeerCloses(s) \/ Cut(s)
  PROVE  TypeOK'
<1>1. rx[s] \in Reader /\ tx[s] \in Sender /\ chan[s] \in Seq(Frame) /\ gots[s] \in Seq(Name)
  BY DEF TypeOK
<1>2. CASE ReadFails(s)
  <2>1. [rx[s] EXCEPT !.phase = "ending", !.fd = None] \in Reader
    BY <1>1 DEF Reader
  <2> QED BY <1>2, <2>1 DEF TypeOK, ReadFails, Ending
<1>3. CASE RunPending(s)
  <2>1. CASE rx[s].pending = <<>>
    <3>1. Closed \in Reader /\ Closed.fd = None
      BY DEF Closed, Reader
    <3>2. disk' = disk /\ rx' = [rx EXCEPT ![s] = Closed]
          /\ UNCHANGED <<tx, chan, gots, confirmed, reached, cuts>>
      BY <1>3, <2>1 DEF RunPending
    <3> QED BY <3>1, <3>2 DEF TypeOK
  <2>2. CASE rx[s].pending # <<>>
    <3>1. Head(rx[s].pending) \in Path /\ Tail(rx[s].pending) \in Seq(Path)
      BY <1>1, <2>2, HeadTailProperties DEF Reader
    <3>2. disk' \in Disk
      BY <1>3, <2>2, <3>1, TakenType DEF RunPending, TypeOK
    <3>3. PICK q : q = [rx[s] EXCEPT !.pending = Tail(@)]
      OBVIOUS
    <3>4. q \in Reader /\ q.fd = rx[s].fd /\ q.phase = rx[s].phase /\ q.name = rx[s].name
      BY <1>1, <3>1, <3>3 DEF Reader
    <3>5. rx' = [rx EXCEPT ![s] = q] /\ UNCHANGED <<tx, chan, gots, confirmed, reached, cuts>>
      BY <1>3, <2>2, <3>3 DEF RunPending
    <3> QED BY <3>2, <3>4, <3>5 DEF TypeOK
  <2> QED BY <2>1, <2>2
<1>4. CASE Connect(s)
  <2>1. PICK q : q = [rx[s] EXCEPT !.phase = "up"]
    OBVIOUS
  <2>2. q \in Reader /\ q.fd = rx[s].fd /\ q.phase = "up" /\ q.name = rx[s].name
    BY <1>1, <2>1 DEF Reader
  <2>3. PICK w : w = [up |-> TRUE, todo |-> Files[PeerOf[s]], sent |-> -1, eob |-> FALSE]
    OBVIOUS
  <2>4. w \in Sender
    BY <2>3, FileAssumption, PeerAssumption DEF Sender
  <2>5. /\ rx' = [rx EXCEPT ![s] = q] /\ tx' = [tx EXCEPT ![s] = w]
        /\ chan' = [chan EXCEPT ![s] = <<>>] /\ gots' = [gots EXCEPT ![s] = <<>>]
        /\ UNCHANGED <<disk, confirmed, reached, cuts>>
    BY <1>4, <2>1, <2>3 DEF Connect
  <2>6. rx' \in [Slot -> Reader] /\ tx' \in [Slot -> Sender]
        /\ chan' \in [Slot -> Seq(Frame)] /\ gots' \in [Slot -> Seq(Name)]
    BY <2>2, <2>4, <2>5 DEF TypeOK
  <2>7. \A t \in Slot : rx'[t].fd # None => rx'[t].phase = "up" /\ rx'[t].name \in Name
    BY <2>2, <2>5 DEF TypeOK
  <2> QED BY <2>5, <2>6, <2>7 DEF TypeOK
<1>5. CASE PeerSends(s)
  <2>1. PICK f : f = Head(tx[s].todo)
    OBVIOUS
  <2>2. f \in File /\ Tail(tx[s].todo) \in Seq(File) /\ Size[f] \in Nat /\ tx[s].todo # <<>>
    BY <1>1, <1>5, <2>1, HeadTailProperties, FileAssumption DEF PeerSends, Sender
  <2>3. UNCHANGED <<disk, rx, gots, confirmed, cuts>>
    BY <1>5 DEF PeerSends
  <2>4. SUFFICES tx' \in [Slot -> Sender] /\ chan' \in [Slot -> Seq(Frame)]
                 /\ reached' \in [File -> Nat]
    BY <2>3 DEF TypeOK
  <2>5. PICK o : o = IF "resume" \in Env /\ reached[f] < Size[f] THEN reached[f] ELSE 0
    OBVIOUS
  <2>6. o \in Nat
    BY <2>2, <2>5 DEF TypeOK
  <2>7. \/ /\ Put(s, [type |-> "FILE", file |-> f, offset |-> o])
           /\ tx' = [tx EXCEPT ![s].sent = o] /\ reached' = reached
        \/ NextFile(s) /\ reached' = reached
        \/ /\ tx[s].sent \in 0 .. Size[f] - 1
           /\ Put(s, [type |-> "DATA", file |-> f, no |-> tx[s].sent + 1])
           /\ tx' = [tx EXCEPT ![s].sent = @ + 1]
           /\ reached' = IF "resume" \in Env THEN [reached EXCEPT ![f] = tx[s].sent + 1]
                         ELSE reached
    BY <1>5, <2>1, <2>5 DEF PeerSends
  <2>8. CASE /\ Put(s, [type |-> "FILE", file |-> f, offset |-> o])
             /\ tx' = [tx EXCEPT ![s].sent = o] /\ reached' = reached
    <3>1. [type |-> "FILE", file |-> f, offset |-> o] \in Frame
      BY <2>2, <2>6 DEF Frame
    <3>2. Append(chan[s], [type |-> "FILE", file |-> f, offset |-> o]) \in Seq(Frame)
      BY <1>1, <3>1, AppendProperties
    <3>3. [tx[s] EXCEPT !.sent = o] \in Sender
      BY <1>1, <2>6 DEF Sender
    <3> QED BY <2>8, <3>2, <3>3 DEF Put, TypeOK
  <2>9. CASE NextFile(s) /\ reached' = reached
    <3>1. [tx[s] EXCEPT !.todo = Tail(@), !.sent = -1] \in Sender
      BY <1>1, <2>2 DEF Sender
    <3> QED BY <2>9, <3>1 DEF NextFile, TypeOK
  <2>10. CASE /\ tx[s].sent \in 0 .. Size[f] - 1
              /\ Put(s, [type |-> "DATA", file |-> f, no |-> tx[s].sent + 1])
              /\ tx' = [tx EXCEPT ![s].sent = @ + 1]
              /\ reached' = IF "resume" \in Env THEN [reached EXCEPT ![f] = tx[s].sent + 1]
                            ELSE reached
    <3>1. tx[s].sent + 1 \in Nat
      BY <2>10, <2>2
    <3>2. [type |-> "DATA", file |-> f, no |-> tx[s].sent + 1] \in Frame
      BY <2>2, <3>1 DEF Frame
    <3>3. Append(chan[s], [type |-> "DATA", file |-> f, no |-> tx[s].sent + 1]) \in Seq(Frame)
      BY <1>1, <3>2, AppendProperties
    <3>4. [tx[s] EXCEPT !.sent = @ + 1] \in Sender
      BY <1>1, <3>1 DEF Sender
    <3>5. reached' \in [File -> Nat]
      BY <2>2, <2>10, <3>1 DEF TypeOK
    <3> QED BY <2>10, <3>3, <3>4, <3>5 DEF Put, TypeOK
  <2> QED BY <2>7, <2>8, <2>9, <2>10
<1>6. CASE PeerSendsEOB(s)
  <2>1. [type |-> "EOB"] \in Frame
    BY DEF Frame
  <2>2. Append(chan[s], [type |-> "EOB"]) \in Seq(Frame)
    BY <1>1, <2>1, AppendProperties
  <2>3. [tx[s] EXCEPT !.eob = TRUE] \in Sender
    BY <1>1 DEF Sender
  <2> QED BY <1>6, <2>2, <2>3 DEF PeerSendsEOB, Put, TypeOK
<1>7. CASE PeerGot(s)
  <2>1. Tail(gots[s]) \in Seq(Name)
    BY <1>1, <1>7, HeadTailProperties DEF PeerGot
  <2>2. \A f \in ToSet(Files[PeerOf[s]]) : f \in File
    BY PeerAssumption, MailType
  <2> QED BY <1>7, <2>1, <2>2 DEF PeerGot, TypeOK
<1>8. CASE PeerCloses(s)
  <2>1. [tx[s] EXCEPT !.up = FALSE] \in Sender
    BY <1>1 DEF Sender
  <2> QED BY <1>8, <2>1 DEF PeerCloses, TypeOK
<1>9. CASE Cut(s)
  <2>1. [tx[s] EXCEPT !.up = FALSE] \in Sender
    BY <1>1 DEF Sender
  <2>2. \A k \in 0 .. Len(chan[s]) : SubSeq(chan[s], 1, k) \in Seq(Frame)
    BY <1>1, SubSeqProperties
  <2>3. <<>> \in Seq(Name)
    OBVIOUS
  <2>4. cuts' \in 0 .. MaxCuts
    BY <1>9, BoundAssumption DEF Cut, TypeOK
  <2> QED BY <1>9, <2>1, <2>2, <2>3, <2>4 DEF Cut, TypeOK
<1> QED BY <1>2, <1>3, <1>4, <1>5, <1>6, <1>7, <1>8, <1>9

LEMMA CrashType ==
  ASSUME TypeOK, Crash
  PROVE  TypeOK'
<1>1. Closed \in Reader /\ Closed.fd = None
  BY DEF Closed, Reader
<1>2. \A s \in Slot : [tx[s] EXCEPT !.up = FALSE] \in Sender
  BY DEF Sender, TypeOK
<1>3. cuts' \in 0 .. MaxCuts
  BY BoundAssumption DEF Crash, TypeOK
<1> QED BY <1>1, <1>2, <1>3 DEF Crash, TypeOK

LEMMA InitType == ASSUME Init PROVE TypeOK
<1>1. Closed \in Reader /\ Closed.fd = None
  BY DEF Closed, Reader
<1>2. disk \in Disk
  BY DEF Init, Disk
<1>3. [up |-> FALSE, todo |-> <<>>, sent |-> -1, eob |-> FALSE] \in Sender
  BY DEF Sender
<1> QED BY <1>1, <1>2, <1>3, BoundAssumption DEF Init, TypeOK

LEMMA StutterType ==
  ASSUME TypeOK, UNCHANGED vars
  PROVE  TypeOK'
BY DEF TypeOK, vars

\* The state is of its types, whatever the files, names and connections are: a session has
\* a file open only while it is up, and there is always an inode for a new one.
THEOREM TypeCorrect == Spec => []TypeOK
<1>1. Init => TypeOK
  BY InitType
<1>2. TypeOK /\ [Next]_vars => TypeOK'
  BY HandlersType, OthersType, CrashType, StutterType DEF Next, Step
<1> QED BY <1>1, <1>2, PTL DEF Spec

-----------------------------------------------------------------------------
(* What a handler leaves.                                                  *)

\* The temporary files of other names are left alone, ...
Spares(d, e, N) ==
  \A m \in Name \ N :
    /\ e.temp[m] = d.temp[m]
    /\ d.temp[m] # None => e.data[d.temp[m]] = d.data[d.temp[m]]

\* ... and the files of the inbound directories.
Settled(d, e) ==
  \A p \in Path : d.inbound[p.dir][p.name] # None
                  /\ e.inbound[p.dir][p.name] = d.inbound[p.dir][p.name]
    => e.data[d.inbound[p.dir][p.name]] = d.data[d.inbound[p.dir][p.name]]

\* M_GOT is sent of files that are written out and with the tosser.
Announces(s, g) ==
  \A i \in DOMAIN g.gots : \E f \in MailOf(s) :
    NameOf[f] = g.gots[i] /\ f \notin Unsent(tx[s]) /\ Provided(g.disk, g.rx, f)

\* The session is at a place of what is left of the stream.
Follows(s, g) ==
  g.rx.phase = "up" =>
    \E pl \in Place :
      /\ ReaderAt(g.disk, g.rx, pl, MailOf(s))
      /\ Chain(pl, Tail(chan[s]), MailOf(s))
      /\ Passed(pl, Tail(chan[s]), Unsent(tx[s]))
      /\ tx[s].up => SenderAt(tx[s], End(pl, Tail(chan[s])))

Outcome(s, g) ==
  /\ g.disk \in Disk /\ Directories(g.disk)
  /\ Spares(disk, g.disk, Names(s)) /\ Settled(disk, g.disk) /\ Onward(disk, g.disk)
  /\ Defers(rx[s], g.rx) /\ g.gots \in Seq(Name) /\ Announces(s, g) /\ Follows(s, g)

\* What there is of the file that is open, when M_FILE or M_EOB comes, is all of it.
LEMMA FinishOpenMoves ==
  ASSUME Orderly, TypeOK, Directories(disk), NEW s \in Slot, NEW pl \in Place,
         ReaderAt(disk, rx[s], pl, MailOf(s)), Over(pl), pl.file \notin Unsent(tx[s]),
         NEW g, g = FinishOpen(disk, rx[s], s)
  PROVE  /\ g.disk \in Disk /\ Directories(g.disk) /\ g.disk.data = disk.data
         /\ Onward(disk, g.disk) /\ Spares(disk, g.disk, Names(s))
         /\ Defers(rx[s], g.rx) /\ Announces(s, g)
<1>1. rx[s] \in Reader /\ disk \in Disk /\ DistinctNames
  BY DEF TypeOK, Orderly
<1>2. CASE rx[s].fd = None
  <2>1. g = [disk |-> disk, rx |-> rx[s], gots |-> <<>>]
    BY <1>2 DEF FinishOpen
  <2>2. g.disk = disk /\ g.rx = rx[s] /\ g.gots = <<>>
    BY <2>1
  <2>3. Onward(disk, disk)
    BY OnwardSame
  <2> QED BY <1>1, <2>2, <2>3 DEF Spares, Defers, Announces
<1>3. CASE rx[s].fd # None
  <2>1. /\ pl.file \in MailOf(s) /\ NameOf[pl.file] = rx[s].name
        /\ disk.temp[rx[s].name] = rx[s].fd /\ disk.data[rx[s].fd] = Prefix(pl.file, pl.no)
    BY <1>3 DEF ReaderAt
  <2>2. disk.data[rx[s].fd] = Whole(pl.file)
    <3>1. pl.no = Size[pl.file] /\ pl.file \in File
      BY <2>1, SlotMail DEF Over
    <3> QED BY <2>1, <3>1 DEF Prefix, Whole
  <2>3. g = Finish(disk, rx[s], s)
    BY <1>3 DEF FinishOpen
  <2>4. PICK r : r = rx[s]
    OBVIOUS
  <2>5. FinishesWell(disk, r, pl.file, g)
    <3>1. r \in Reader /\ r.name = NameOf[pl.file] /\ disk.temp[r.name] # None
          /\ disk.data[disk.temp[r.name]] = Whole(pl.file) /\ g = Finish(disk, r, s)
      BY <1>1, <1>3, <2>1, <2>2, <2>3, <2>4
    <3> QED BY <1>1, <2>1, <3>1, FinishMoves
  <2>6. Spares(disk, g.disk, Names(s))
    <3>1. r.name \in Names(s)
      BY <2>1, <2>4, SlotMail
    <3> QED BY <2>5, <3>1 DEF Spares, FinishesWell
  <2>7. Provided(g.disk, g.rx, pl.file)
    BY <2>5 DEF FinishesWell
  <2>8. Announces(s, g)
    <3>1. \A i \in DOMAIN g.gots : g.gots[i] = NameOf[pl.file]
      BY <2>1, <2>4, <2>5 DEF FinishesWell
    <3> QED BY <2>1, <2>7, <3>1 DEF Announces
  <2> QED BY <2>4, <2>5, <2>6, <2>8 DEF FinishesWell
<1> QED BY <1>2, <1>3

\* The reader is at a place, and the frame it has read goes on from there.
LEMMA ReadsAt ==
  ASSUME IInv, NEW s \in Slot, NEW type, Reads(s, type), NEW m, m = Head(chan[s])
  PROVE  \E pl \in Place :
           /\ ReaderAt(disk, rx[s], pl, MailOf(s))
           /\ Passed(pl, chan[s], Unsent(tx[s]))
           /\ m \in Frame /\ m.type = type /\ Continues(pl, m, MailOf(s))
           /\ Mark(m) \in Place
           /\ Tail(chan[s]) \in Seq(Frame)
           /\ Chain(Mark(m), Tail(chan[s]), MailOf(s))
           /\ Passed(Mark(m), Tail(chan[s]), Unsent(tx[s]))
           /\ tx[s].up => SenderAt(tx[s], End(Mark(m), Tail(chan[s])))
<1>1. TypeOK /\ Stream(s)
  BY DEF IInv
<1>2. /\ m \in Frame /\ m.type = type /\ chan[s] # <<>>
      /\ chan[s] \in Seq(Frame) /\ Tail(chan[s]) \in Seq(Frame) /\ rx[s].phase = "up"
  BY <1>1, HeadFrame
<1>3. PICK pl \in Place :
        /\ ReaderAt(disk, rx[s], pl, MailOf(s)) /\ Chain(pl, chan[s], MailOf(s))
        /\ Passed(pl, chan[s], Unsent(tx[s]))
        /\ tx[s].up => SenderAt(tx[s], End(pl, chan[s]))
  BY <1>1, <1>2 DEF Stream
<1>4. /\ Continues(pl, m, MailOf(s)) /\ Chain(Mark(m), Tail(chan[s]), MailOf(s))
      /\ Passed(Mark(m), Tail(chan[s]), Unsent(tx[s]))
      /\ End(Mark(m), Tail(chan[s])) = End(pl, chan[s])
  BY <1>2, <1>3, StreamTail
<1>5. Mark(m) \in Place
  BY <1>2, MarkPlace
<1>6. tx[s].up => SenderAt(tx[s], End(Mark(m), Tail(chan[s])))
  BY <1>3, <1>4
<1> WITNESS pl \in Place
<1> QED BY <1>2, <1>3, <1>4, <1>5, <1>6

\* What a session has provided is provided later.
LEMMA ProvidedOnward ==
  ASSUME NEW d, NEW e, NEW r, NEW q, NEW f, Onward(d, e), Provided(d, r, f),
         \A p \in ToSet(r.pending) : p \in ToSet(q.pending)
  PROVE  Provided(e, q, f)
<1>1. CASE \E t \in d.taken : t.data = Whole(f)
  BY <1>1 DEF Provided, Onward
<1>2. CASE \E p \in ToSet(r.pending) : p \in Path /\ Found(d, p, Whole(f))
  BY <1>2, FoundOnward DEF Provided
<1> QED BY <1>1, <1>2 DEF Provided

\* M_FILE.
LEMMA FileOutcome ==
  ASSUME Orderly, IInv, NEW s \in Slot, HandleFile(s)
  PROVE  \E g : Handled(s, g) /\ Outcome(s, g)
<1>1. TypeOK /\ Directories(disk) /\ Reads(s, "FILE") /\ disk \in Disk
  BY DEF IInv, HandleFile, TypeOK
<1>2. PICK m : m = Head(chan[s])
  OBVIOUS
<1>3. PICK pl \in Place :
        /\ ReaderAt(disk, rx[s], pl, MailOf(s))
        /\ Passed(pl, chan[s], Unsent(tx[s]))
        /\ m \in Frame /\ m.type = "FILE" /\ Continues(pl, m, MailOf(s))
        /\ Mark(m) \in Place
        /\ Tail(chan[s]) \in Seq(Frame)
        /\ Chain(Mark(m), Tail(chan[s]), MailOf(s))
        /\ Passed(Mark(m), Tail(chan[s]), Unsent(tx[s]))
        /\ tx[s].up => SenderAt(tx[s], End(Mark(m), Tail(chan[s])))
  BY <1>1, <1>2, ReadsAt
<1>4. Over(pl) /\ pl.file \notin Unsent(tx[s]) /\ m.offset = 0 /\ m.file \in MailOf(s)
  BY <1>3 DEF Continues, Passed
<1>5. PICK done : done = FinishOpen(disk, rx[s], s)
  OBVIOUS
<1>6. PICK d : d = done.disk
  OBVIOUS
<1>7. /\ d \in Disk /\ Directories(d) /\ d.data = disk.data
      /\ Onward(disk, d) /\ Spares(disk, d, Names(s))
      /\ Defers(rx[s], done.rx) /\ Announces(s, done)
  BY <1>1, <1>3, <1>4, <1>5, <1>6, FinishOpenMoves
<1>8. done.rx \in Reader /\ done.gots \in Seq(Name)
  BY <1>1, <1>5, FinishOpenType
<1>9. PICK n : n = NameOf[m.file]
  OBVIOUS
<1>10. /\ m.file \in File /\ n \in Name /\ n \in Names(s) /\ Size[m.file] \in Nat
  BY <1>4, <1>9, SlotMail
<1>11. PICK e : e = Create(d, n)
  OBVIOUS
<1>12. /\ e \in Disk /\ e.temp[n] \in Inode /\ e.temp[n] # None
       /\ e.data[e.temp[n]] = <<>> /\ e.inbound = d.inbound
       /\ \A k \in Name \ {n} : e.temp[k] = d.temp[k]
       /\ \A i \in Inode : i # e.temp[n] => e.data[i] = d.data[i]
  BY <1>1, <1>7, <1>10, <1>11, CreateParts
<1>13. /\ \A k \in Name \ {n} : d.temp[k] # e.temp[n]
       /\ \A p \in Path : d.inbound[p.dir][p.name] # e.temp[n]
       /\ Directories(e) /\ Onward(d, e)
  BY <1>1, <1>7, <1>10, <1>11, CreateOpens
<1>14. PICK q : q = Opens(done.rx, e.temp[n], n, 0, Size[m.file])
  OBVIOUS
<1>15. /\ q \in Reader /\ q.fd = e.temp[n] /\ q.name = n /\ q.offset = 0 /\ q.bytes = 0
       /\ q.size = Size[m.file] /\ q.pending = done.rx.pending
  BY <1>8, <1>10, <1>12, <1>14, OpensParts
<1>16. PICK g : g = Opened(s, m, done)
  OBVIOUS
<1>17. g.disk = e /\ g.rx = q /\ g.gots = done.gots
  <2>1. ~CanResume(d, n, m.offset)
    BY <1>4 DEF CanResume
  <2>2. g = [disk |-> e, gots |-> done.gots, rx |-> q]
    BY <1>6, <1>9, <1>11, <1>14, <1>16, <2>1 DEF Opened, Opens
  <2> QED BY <2>2
<1>18. Handled(s, g)
  BY <1>2, <1>5, <1>16 DEF HandleFile
<1>19. Spares(disk, e, Names(s))
  <2>1. ASSUME NEW k \in Name \ Names(s)
        PROVE  /\ e.temp[k] = disk.temp[k]
               /\ disk.temp[k] # None => e.data[disk.temp[k]] = disk.data[disk.temp[k]]
    <3>1. k # n /\ d.temp[k] = disk.temp[k]
      BY <1>7, <1>10 DEF Spares
    <3>2. disk.temp[k] # None => disk.temp[k] \in Inode
      BY <1>1 DEF Disk
    <3> QED BY <1>7, <1>12, <1>13, <3>1, <3>2
  <2> QED BY <2>1 DEF Spares
<1>20. Settled(disk, e)
  <2>1. ASSUME NEW p \in Path, disk.inbound[p.dir][p.name] # None,
               e.inbound[p.dir][p.name] = disk.inbound[p.dir][p.name]
        PROVE  e.data[disk.inbound[p.dir][p.name]] = disk.data[disk.inbound[p.dir][p.name]]
    <3>1. disk.inbound[p.dir][p.name] \in Inode
      BY <1>1, <2>1, PathType DEF Disk
    <3> QED BY <1>7, <1>12, <1>13, <2>1, <3>1
  <2> QED BY <2>1 DEF Settled
<1>21. Onward(disk, e)
  BY <1>7, <1>13, OnwardOnward
<1>22. Announces(s, g)
  <2>1. ASSUME NEW i \in DOMAIN g.gots
        PROVE  \E f \in MailOf(s) :
                 NameOf[f] = g.gots[i] /\ f \notin Unsent(tx[s]) /\ Provided(g.disk, g.rx, f)
    <3>1. PICK f \in MailOf(s) : NameOf[f] = g.gots[i] /\ f \notin Unsent(tx[s])
                               /\ Provided(d, done.rx, f)
      BY <1>6, <1>7, <1>17 DEF Announces
    <3>2. Provided(e, q, f)
      BY <1>13, <1>15, <3>1, ProvidedOnward
    <3> QED BY <1>17, <3>1, <3>2
  <2> QED BY <2>1 DEF Announces
<1>23. Follows(s, g)
  <2>1. Mark(m).file = m.file /\ Mark(m).no = 0
    BY <1>3, MarkPlace
  <2>2. e.data[q.fd] = Prefix(m.file, 0)
    BY <1>10, <1>12, <1>15, PartBlocks
  <2>3. ReaderAt(g.disk, g.rx, Mark(m), MailOf(s))
    BY <1>4, <1>9, <1>12, <1>15, <1>17, <2>1, <2>2 DEF ReaderAt
  <2> QED BY <1>3, <2>3 DEF Follows
<1>24. Defers(rx[s], q)
  BY <1>7, <1>15 DEF Defers
<1>25. Outcome(s, g)
  BY <1>8, <1>12, <1>13, <1>17, <1>19, <1>20, <1>21, <1>22, <1>23, <1>24 DEF Outcome
<1> QED BY <1>18, <1>25

\* M_EOB.
LEMMA EobOutcome ==
  ASSUME Orderly, IInv, NEW s \in Slot, HandleEOB(s)
  PROVE  \E g : Handled(s, g) /\ Outcome(s, g)
<1>1. TypeOK /\ Directories(disk) /\ Reads(s, "EOB") /\ disk \in Disk
  BY DEF IInv, HandleEOB, TypeOK
<1>2. PICK m : m = Head(chan[s])
  OBVIOUS
<1>3. PICK pl \in Place :
        /\ ReaderAt(disk, rx[s], pl, MailOf(s))
        /\ Passed(pl, chan[s], Unsent(tx[s]))
        /\ m.type = "EOB" /\ Continues(pl, m, MailOf(s))
  BY <1>1, <1>2, ReadsAt
<1>4. Over(pl) /\ pl.file \notin Unsent(tx[s])
  BY <1>3 DEF Continues, Passed
<1>5. PICK done : done = FinishOpen(disk, rx[s], s)
  OBVIOUS
<1>6. /\ done.disk \in Disk /\ Directories(done.disk) /\ done.disk.data = disk.data
      /\ Onward(disk, done.disk) /\ Spares(disk, done.disk, Names(s))
      /\ Defers(rx[s], done.rx) /\ Announces(s, done)
  BY <1>1, <1>3, <1>4, <1>5, FinishOpenMoves
<1>7. done.rx \in Reader /\ done.gots \in Seq(Name)
  BY <1>1, <1>5, FinishOpenType
<1>8. PICK q : q = [done.rx EXCEPT !.phase = "ending"]
  OBVIOUS
<1>9. q.phase = "ending" /\ q.pending = done.rx.pending
  BY <1>7, <1>8 DEF Reader
<1>10. PICK g : g = [done EXCEPT !.rx.phase = "ending"]
  OBVIOUS
<1>11. g.disk = done.disk /\ g.rx = q /\ g.gots = done.gots
  <2>1. done = [disk |-> done.disk, rx |-> done.rx, gots |-> done.gots]
    BY <1>5 DEF FinishOpen, Finish
  <2>2. g = [disk |-> done.disk, rx |-> q, gots |-> done.gots]
    BY <1>8, <1>10, <2>1
  <2> QED BY <2>2
<1>12. Handled(s, g)
  BY <1>5, <1>10 DEF HandleEOB
<1>13. Settled(disk, done.disk)
  BY <1>6 DEF Settled
<1>14. Announces(s, g)
  BY <1>6, <1>9, <1>11 DEF Announces, Provided
<1>15. Follows(s, g)
  BY <1>9, <1>11 DEF Follows
<1>16. Defers(rx[s], q)
  BY <1>6, <1>9 DEF Defers
<1>17. Outcome(s, g)
  BY <1>6, <1>7, <1>11, <1>13, <1>14, <1>15, <1>16 DEF Outcome
<1> QED BY <1>12, <1>17

\* M_DATA: the block that comes next.
LEMMA GetsNext ==
  ASSUME TypeOK, Directories(disk), NEW s \in Slot, NEW pl \in Place, NEW m \in Frame,
         ReaderAt(disk, rx[s], pl, MailOf(s)), m.type = "DATA", Continues(pl, m, MailOf(s)),
         NEW d, d = Gets(s, m)
  PROVE  /\ rx[s].fd # None /\ rx[s].name \in Name
         /\ m.file \in MailOf(s) /\ rx[s].name = NameOf[m.file] /\ m.no \in Nat
         /\ rx[s].size = Size[m.file] /\ m.no <= Size[m.file] /\ m.no > 0
         /\ rx[s].bytes + 1 = m.no /\ rx[s].offset + 1 = m.no
         /\ disk.temp[rx[s].name] = rx[s].fd /\ d.temp[rx[s].name] = rx[s].fd
         /\ d.data[rx[s].fd] = Prefix(m.file, m.no)
         /\ d \in Disk /\ Directories(d)
         /\ Spares(disk, d, Names(s)) /\ Settled(disk, d) /\ Onward(disk, d)
<1>1. disk \in Disk /\ rx[s] \in Reader /\ m.file \in File /\ m.no \in Nat
  BY MarkPlace DEF TypeOK
<1>2. m.file = pl.file /\ m.no = pl.no + 1 /\ m.no <= Size[m.file] /\ pl.no \in Nat
  BY DEF Continues, Place
<1>3. rx[s].fd # None
  <2>1. m.file # None
    BY <1>1, FileAssumption
  <2> QED BY <1>2, <2>1 DEF ReaderAt, Start
<1>4. /\ m.file \in MailOf(s) /\ NameOf[m.file] = rx[s].name /\ rx[s].size = Size[m.file]
      /\ pl.no = rx[s].bytes /\ pl.no = rx[s].offset
      /\ disk.temp[rx[s].name] = rx[s].fd /\ disk.data[rx[s].fd] = Prefix(m.file, pl.no)
  BY <1>2, <1>3 DEF ReaderAt
<1>5. PICK i : i = rx[s].fd
  OBVIOUS
<1>6. i \in Inode /\ i # None /\ rx[s].name \in Name /\ rx[s].name \in Names(s)
  BY <1>1, <1>3, <1>4, <1>5, SlotMail DEF Reader
<1>7. /\ d \in Disk /\ d.temp = disk.temp /\ d.inbound = disk.inbound /\ d.taken = disk.taken
      /\ d.data[i] = Written(disk.data[i], rx[s].offset, [file |-> m.file, no |-> m.no])
      /\ \A k \in Inode : k # i => d.data[k] = disk.data[k]
  BY <1>3, <1>5, GetsParts
<1>8. d.data[i] = Prefix(m.file, m.no)
  BY <1>1, <1>2, <1>4, <1>5, <1>7, WrittenNext
<1>9. \A p \in Path : disk.inbound[p.dir][p.name] # i
  BY <1>4, <1>5, <1>6 DEF Directories
<1>10. \A p \in Path : disk.inbound[p.dir][p.name] # None
         => d.data[disk.inbound[p.dir][p.name]] = disk.data[disk.inbound[p.dir][p.name]]
  BY <1>1, <1>7, <1>9, PathType DEF Disk
<1>11. Onward(disk, d)
  BY <1>7, <1>10, OnwardSame
<1>12. Settled(disk, d)
  BY <1>10 DEF Settled
<1>13. Directories(d)
  BY <1>7, <1>10 DEF Directories
<1>14. Spares(disk, d, Names(s))
  <2>1. ASSUME NEW k \in Name \ Names(s), disk.temp[k] # None
        PROVE  d.data[disk.temp[k]] = disk.data[disk.temp[k]]
    <3>1. disk.temp[k] \in Inode
      BY <1>1, <2>1 DEF Disk
    <3>2. disk.temp[k] # i
      BY <1>4, <1>5, <1>6, <2>1 DEF Directories
    <3> QED BY <1>7, <3>1, <3>2
  <2> QED BY <1>7, <2>1 DEF Spares
<1>15. m.no > 0 /\ rx[s].bytes + 1 = m.no /\ rx[s].offset + 1 = m.no
  BY <1>2, <1>4
<1> QED BY <1>1, <1>2, <1>3, <1>4, <1>5, <1>6, <1>7, <1>8, <1>11, <1>12, <1>13, <1>14, <1>15

LEMMA DataOutcome ==
  ASSUME Orderly, IInv, NEW s \in Slot, HandleData(s)
  PROVE  \E g : Handled(s, g) /\ Outcome(s, g)
<1>1. TypeOK /\ Directories(disk) /\ Reads(s, "DATA") /\ disk \in Disk /\ rx[s] \in Reader
      /\ tx[s] \in Sender /\ DistinctNames
  BY HandleDataFeeds DEF IInv, TypeOK, Orderly
<1>2. PICK m : m = Head(chan[s])
  OBVIOUS
<1>3. PICK pl \in Place :
        /\ ReaderAt(disk, rx[s], pl, MailOf(s))
        /\ m \in Frame /\ m.type = "DATA" /\ Continues(pl, m, MailOf(s))
        /\ Mark(m) \in Place
        /\ Tail(chan[s]) \in Seq(Frame)
        /\ Chain(Mark(m), Tail(chan[s]), MailOf(s))
        /\ Passed(Mark(m), Tail(chan[s]), Unsent(tx[s]))
        /\ tx[s].up => SenderAt(tx[s], End(Mark(m), Tail(chan[s])))
  BY <1>1, <1>2, ReadsAt
<1>4. PICK d : d = Gets(s, m)
  OBVIOUS
<1>5. /\ rx[s].fd # None /\ rx[s].name \in Name
      /\ m.file \in MailOf(s) /\ rx[s].name = NameOf[m.file] /\ m.no \in Nat
      /\ rx[s].size = Size[m.file] /\ m.no <= Size[m.file] /\ m.no > 0
      /\ rx[s].bytes + 1 = m.no /\ rx[s].offset + 1 = m.no
      /\ d.temp[rx[s].name] = rx[s].fd
      /\ d.data[rx[s].fd] = Prefix(m.file, m.no)
      /\ d \in Disk /\ Directories(d)
      /\ Spares(disk, d, Names(s)) /\ Settled(disk, d) /\ Onward(disk, d)
  BY <1>1, <1>3, <1>4, GetsNext
<1>6. PICK r : r = More(rx[s])
  OBVIOUS
<1>7. /\ r \in Reader /\ r.fd = rx[s].fd /\ r.phase = rx[s].phase /\ r.name = rx[s].name
      /\ r.size = rx[s].size /\ r.pending = rx[s].pending
      /\ r.offset = m.no /\ r.bytes = m.no
  BY <1>1, <1>5, <1>6, MoreParts
<1>8. PICK g : g = Fed(s, m)
  OBVIOUS
<1>9. Handled(s, g)
  BY <1>1, <1>2, <1>8, HandleDataFeeds
<1>10. Mark(m).file = m.file /\ Mark(m).no = m.no /\ m.file \in File /\ m.file # None
       /\ Size[m.file] \in Nat
  BY <1>3, <1>5, MarkPlace, SlotMail
<1>11. CASE m.no = Size[m.file]
  <2>1. g = Finish(d, r, s)
    BY <1>4, <1>5, <1>6, <1>7, <1>8, <1>10, <1>11 DEF Fed
  <2>2. FinishesWell(d, r, m.file, g)
    <3>1. d.data[d.temp[r.name]] = Whole(m.file)
      BY <1>5, <1>7, <1>11 DEF Prefix, Whole
    <3>2. d.temp[r.name] # None /\ r.name = NameOf[m.file]
      BY <1>5, <1>7
    <3> QED BY <1>1, <1>5, <1>7, <2>1, <3>1, <3>2, FinishMoves
  <2>3. Spares(disk, g.disk, Names(s))
    <3>1. r.name \in Names(s)
      BY <1>5, <1>7, SlotMail
    <3> QED BY <1>5, <2>2, <3>1 DEF Spares, FinishesWell
  <2>4. Settled(disk, g.disk)
    <3>1. \A p \in Path : disk.inbound[p.dir][p.name] # None
            => d.data[disk.inbound[p.dir][p.name]] = disk.data[disk.inbound[p.dir][p.name]]
      <4>1. d.inbound = disk.inbound
        BY <1>1, <1>3, <1>4, <1>5, GetsParts
      <4> QED BY <1>5, <4>1 DEF Settled
    <3> QED BY <2>2, <3>1 DEF Settled, FinishesWell
  <2>5. Onward(disk, g.disk)
    BY <1>5, <2>2, OnwardOnward DEF FinishesWell
  <2>6. Over(Mark(m)) /\ m.file \notin Unsent(tx[s])
    BY <1>3, <1>10, <1>11 DEF Over, Passed
  <2>7. Announces(s, g) /\ g.gots \in Seq(Name)
    <3>1. g.gots = <<NameOf[m.file]>> /\ NameOf[m.file] \in Name
      BY <1>5, <1>7, <2>2 DEF FinishesWell
    <3>2. \A i \in DOMAIN g.gots : g.gots[i] = NameOf[m.file]
      BY <3>1
    <3> QED BY <1>5, <2>2, <2>6, <3>1, <3>2 DEF Announces, FinishesWell
  <2>8. Follows(s, g)
    <3>1. None \notin Unsent(tx[s])
      BY <1>1, UnsentFiles
    <3>2. /\ Start \in Place /\ Chain(Start, Tail(chan[s]), MailOf(s))
          /\ Passed(Start, Tail(chan[s]), Unsent(tx[s]))
          /\ SenderAt(tx[s], End(Mark(m), Tail(chan[s])))
               => SenderAt(tx[s], End(Start, Tail(chan[s])))
      BY <1>1, <1>3, <2>6, <3>1, StreamRestart
    <3>3. ReaderAt(g.disk, g.rx, Start, MailOf(s))
      BY <2>2 DEF ReaderAt, FinishesWell
    <3> QED BY <1>3, <3>2, <3>3 DEF Follows
  <2>9. Defers(rx[s], g.rx)
    BY <1>7, <2>2 DEF Defers, FinishesWell
  <2> QED BY <1>9, <2>2, <2>3, <2>4, <2>5, <2>7, <2>8, <2>9 DEF Outcome, FinishesWell
<1>12. CASE m.no # Size[m.file]
  <2>1. g = [disk |-> d, rx |-> r, gots |-> <<>>]
    <3>1. ~(m.no >= Size[m.file])
      BY <1>5, <1>10, <1>12
    <3> QED BY <1>4, <1>5, <1>6, <1>7, <1>8, <3>1 DEF Fed
  <2>2. g.disk = d /\ g.rx = r /\ g.gots = <<>> /\ g.gots \in Seq(Name)
    BY <2>1
  <2>3. ReaderAt(d, r, Mark(m), MailOf(s))
    BY <1>5, <1>7, <1>10 DEF ReaderAt
  <2>4. Follows(s, g)
    BY <1>3, <2>2, <2>3 DEF Follows
  <2>5. Announces(s, g) /\ Defers(rx[s], r)
    BY <1>7, <2>2 DEF Announces, Defers
  <2> QED BY <1>5, <1>9, <2>2, <2>4, <2>5 DEF Outcome
<1> QED BY <1>11, <1>12

-----------------------------------------------------------------------------
(* The invariant is inductive.                                             *)

Session(s) == Todo(s) /\ Begun(s) /\ Gots(s) /\ Stream(s)

\* A step of another connection does not touch a session.
LEMMA OthersStay ==
  ASSUME Orderly, TypeOK, NEW s \in Slot, NEW t \in Slot, t # s, Session(t),
         rx'[t] = rx[t], tx'[t] = tx[t], chan'[t] = chan[t], gots'[t] = gots[t],
         Spares(disk, disk', Names(s)), \A f \in confirmed' : f \in confirmed \/ f \in MailOf(s)
  PROVE  Session(t)'
<1>1. Todo(t)' /\ Gots(t)'
  BY DEF Session, Todo, Gots
<1>2. Begun(t)'
  <2>1. SUFFICES ASSUME tx[t].up, tx[t].todo # <<>>, tx[t].sent >= 0,
                        tx[t].sent # Size[Head(tx[t].todo)]
                 PROVE  Head(tx[t].todo) \notin confirmed'
    BY DEF Begun
  <2>2. Head(tx[t].todo) \notin confirmed
    BY <2>1 DEF Session, Begun
  <2>3. Head(tx[t].todo) \in MailOf(t)
    BY <2>1, UnsentFiles DEF Session, Todo, TypeOK
  <2> QED BY <2>2, <2>3, OtherNames
<1>3. Stream(t)'
  <2>1. SUFFICES ASSUME rx[t].phase = "up"
                 PROVE  \E pl \in Place :
                          /\ ReaderAt(disk', rx[t], pl, MailOf(t))
                          /\ Chain(pl, chan[t], MailOf(t))
                          /\ Passed(pl, chan[t], Unsent(tx[t]))
                          /\ tx[t].up => SenderAt(tx[t], End(pl, chan[t]))
    BY DEF Stream
  <2>2. PICK pl \in Place :
          /\ ReaderAt(disk, rx[t], pl, MailOf(t))
          /\ Chain(pl, chan[t], MailOf(t))
          /\ Passed(pl, chan[t], Unsent(tx[t]))
          /\ tx[t].up => SenderAt(tx[t], End(pl, chan[t]))
    BY <2>1 DEF Session, Stream
  <2>3. ReaderAt(disk', rx[t], pl, MailOf(t))
    <3>1. CASE rx[t].fd = None
      BY <2>2, <3>1 DEF ReaderAt
    <3>2. CASE rx[t].fd # None
      <4>1. /\ pl.file \in MailOf(t) /\ NameOf[pl.file] = rx[t].name
            /\ rx[t].size = Size[pl.file]
            /\ pl.no = rx[t].bytes /\ pl.no = rx[t].offset
            /\ disk.temp[rx[t].name] = rx[t].fd /\ disk.data[rx[t].fd] = Prefix(pl.file, pl.no)
        BY <2>2, <3>2 DEF ReaderAt
      <4>2. rx[t].name \in Name
        BY <4>1, SlotMail
      <4>3. rx[t].name \notin Names(s)
        BY <4>1, OtherNames DEF Names
      <4>4. disk'.temp[rx[t].name] = rx[t].fd /\ disk'.data[rx[t].fd] = Prefix(pl.file, pl.no)
        BY <3>2, <4>1, <4>2, <4>3 DEF Spares
      <4> QED BY <3>2, <4>1, <4>4 DEF ReaderAt
    <3> QED BY <3>1, <3>2
  <2> WITNESS pl \in Place
  <2> QED BY <2>2, <2>3
<1> QED BY <1>1, <1>2, <1>3 DEF Session

LEMMA SparesSame ==
  ASSUME NEW d, NEW e, NEW N, e.temp = d.temp, e.data = d.data
  PROVE  Spares(d, e, N)
BY DEF Spares

\* What is told of in addition.
Comes(r, p, q) ==
  \A i \in DOMAIN r : (\E j \in DOMAIN p : r[i] = p[j]) \/ (\E j \in DOMAIN q : r[i] = q[j])

LEMMA ConcatElements ==
  ASSUME NEW S, NEW p \in Seq(S), NEW q \in Seq(S)
  PROVE  Comes(p \o q, p, q)
<1>1. PICK k \in Nat : k = Len(p)
  BY LenProperties
<1>2. PICK l \in Nat : l = Len(q)
  BY LenProperties
<1>3. /\ Len(p \o q) = k + l /\ p \o q \in Seq(S)
      /\ \A j \in 1 .. k + l : (p \o q)[j] = IF j <= k THEN p[j] ELSE q[j - k]
  BY <1>1, <1>2, ConcatProperties
<1>4. DOMAIN (p \o q) = 1 .. k + l /\ DOMAIN p = 1 .. k /\ DOMAIN q = 1 .. l
  BY <1>1, <1>2, <1>3, LenProperties
<1>5. ASSUME NEW i \in 1 .. k + l
      PROVE  (\E j \in 1 .. k : (p \o q)[i] = p[j]) \/ (\E j \in 1 .. l : (p \o q)[i] = q[j])
  <2>1. CASE i <= k
    <3>1. i \in 1 .. k
      BY <2>1
    <3> QED BY <1>3, <2>1, <3>1
  <2>2. CASE ~(i <= k)
    <3>1. i - k \in 1 .. l
      BY <2>2
    <3> QED BY <1>3, <2>2, <3>1
  <2> QED BY <2>1, <2>2
<1> QED BY <1>4, <1>5 DEF Comes

\* The handlers.
LEMMA HandledKeeps ==
  ASSUME Orderly, IInv, TypeOK', NEW s \in Slot, NEW g, Handled(s, g), Outcome(s, g)
  PROVE  IInv'
<1>1. /\ disk' = g.disk /\ rx' = [rx EXCEPT ![s] = g.rx]
      /\ gots' = IF tx[s].up THEN [gots EXCEPT ![s] = @ \o g.gots] ELSE gots
      /\ chan' = [chan EXCEPT ![s] = Tail(@)]
      /\ UNCHANGED <<tx, confirmed, reached, cuts>>
  BY DEF Handled
<1>2. TypeOK /\ \A t \in Slot : Session(t)
  BY DEF IInv, Session
<1>3. Directories(disk')
  BY <1>1 DEF Outcome
<1>4. ASSUME NEW t \in Slot, t # s
      PROVE  Session(t)'
  <2>1. rx'[t] = rx[t] /\ tx'[t] = tx[t] /\ chan'[t] = chan[t] /\ gots'[t] = gots[t]
    BY <1>1, <1>2, <1>4 DEF TypeOK
  <2>2. Spares(disk, disk', Names(s)) /\ \A f \in confirmed' : f \in confirmed
    BY <1>1 DEF Outcome
  <2> QED BY <1>2, <1>4, <2>1, <2>2, OthersStay
<1>5. Session(s)'
  <2>1. rx'[s] = g.rx /\ tx'[s] = tx[s] /\ chan'[s] = Tail(chan[s]) /\ confirmed' = confirmed
    BY <1>1, <1>2 DEF TypeOK
  <2>2. Todo(s)' /\ Begun(s)'
    BY <1>2, <2>1 DEF Session, Todo, Begun
  <2>3. Stream(s)'
    BY <1>1, <2>1 DEF Outcome, Follows, Stream
  <2>4. Gots(s)'
    <3>1. Comes(gots'[s], gots[s], g.gots)
      <4>1. CASE tx[s].up
        <5>1. gots'[s] = gots[s] \o g.gots
          BY <1>1, <1>2, <4>1 DEF TypeOK
        <5>2. gots[s] \in Seq(Name) /\ g.gots \in Seq(Name)
          BY <1>2 DEF TypeOK, Outcome
        <5> QED BY <5>1, <5>2, ConcatElements
      <4>2. CASE ~tx[s].up
        BY <1>1, <4>2 DEF Comes
      <4> QED BY <4>1, <4>2
    <3>2. \A j \in DOMAIN gots[s] :
            \E f \in MailOf(s) : NameOf[f] = gots[s][j] /\ f \notin Unsent(tx[s])
      BY <1>2 DEF Session, Gots
    <3>3. \A j \in DOMAIN g.gots :
            \E f \in MailOf(s) : NameOf[f] = g.gots[j] /\ f \notin Unsent(tx[s])
      BY DEF Outcome, Announces
    <3> QED BY <2>1, <3>1, <3>2, <3>3 DEF Gots, Comes
  <2> QED BY <2>2, <2>3, <2>4 DEF Session
<1> QED BY <1>3, <1>4, <1>5 DEF IInv, Session

\* One connection makes a step.
LEMMA StepKeeps ==
  ASSUME Orderly, IInv, TypeOK', NEW s \in Slot, Directories(disk'), Session(s)',
         Spares(disk, disk', Names(s)), \A f \in confirmed' : f \in confirmed \/ f \in MailOf(s),
         \A t \in Slot : t # s => rx'[t] = rx[t] /\ tx'[t] = tx[t] /\ chan'[t] = chan[t]
                                  /\ gots'[t] = gots[t]
  PROVE  IInv'
<1>1. TypeOK /\ \A t \in Slot : Session(t)
  BY DEF IInv, Session
<1>2. \A t \in Slot : t # s => Session(t)'
  BY <1>1, OthersStay
<1> QED BY <1>2 DEF IInv, Session

\* The peer has written out more.
LEMMA GotsStay ==
  ASSUME NEW s \in Slot, Gots(s), gots'[s] = gots[s], Unsent(tx[s])' \subseteq Unsent(tx[s])
  PROVE  Gots(s)'
BY DEF Gots

\* The peer writes a frame.
LEMMA StreamGrows ==
  ASSUME NEW s \in Slot, Stream(s), tx[s].up, chan[s] \in Seq(Frame), NEW m \in Frame,
         NEW T, T = tx'[s], chan'[s] = Append(chan[s], m), UNCHANGED <<disk, rx>>,
         Unsent(T) \subseteq Unsent(tx[s]),
         \A pl \in Place : SenderAt(tx[s], pl) => Continues(pl, m, MailOf(s)),
         Over(Mark(m)) => Mark(m).file \notin Unsent(T), SenderAt(T, Mark(m))
  PROVE  Stream(s)'
<1>1. SUFFICES ASSUME rx[s].phase = "up"
               PROVE  \E pl \in Place :
                        /\ ReaderAt(disk, rx[s], pl, MailOf(s))
                        /\ Chain(pl, chan'[s], MailOf(s))
                        /\ Passed(pl, chan'[s], Unsent(T))
                        /\ SenderAt(T, End(pl, chan'[s]))
  BY DEF Stream
<1>2. PICK pl \in Place :
        /\ ReaderAt(disk, rx[s], pl, MailOf(s)) /\ Chain(pl, chan[s], MailOf(s))
        /\ Passed(pl, chan[s], Unsent(tx[s])) /\ SenderAt(tx[s], End(pl, chan[s]))
  BY <1>1 DEF Stream
<1>3. Passed(pl, chan[s], Unsent(T))
  BY <1>2, PassedFewer
<1>4. End(pl, chan[s]) \in Place
  <2>1. CASE chan[s] = <<>>
    BY <2>1 DEF End
  <2>2. CASE chan[s] # <<>>
    <3>1. PICK k \in Nat : k = Len(chan[s])
      BY LenProperties
    <3>2. k \in 1 .. k
      BY <2>2, <3>1, EmptySeq
    <3>3. chan[s][k] \in Frame
      BY <3>1, <3>2, ElementOfSeq
    <3> QED BY <2>2, <3>1, <3>3, MarkPlace DEF End
  <2> QED BY <2>1, <2>2
<1>5. Continues(End(pl, chan[s]), m, MailOf(s))
  BY <1>2, <1>4
<1>6. /\ Chain(pl, Append(chan[s], m), MailOf(s))
      /\ Passed(pl, Append(chan[s], m), Unsent(T))
      /\ End(pl, Append(chan[s], m)) = Mark(m)
  BY <1>2, <1>3, <1>5, StreamAppend
<1> WITNESS pl \in Place
<1> QED BY <1>2, <1>6

\* It goes on to the next file.
LEMMA NextKeeps ==
  ASSUME TypeOK, TypeOK', NEW s \in Slot, Session(s), tx[s].up, tx[s].todo # <<>>, NextFile(s),
         \/ tx[s].sent = Size[Head(tx[s].todo)]
         \/ tx[s].sent \in {-1, 0} /\ Head(tx[s].todo) \in confirmed,
         UNCHANGED <<disk, rx, gots, confirmed>>
  PROVE  Session(s)'
<1>1. PICK T : T = tx[s]
  OBVIOUS
<1>2. PICK S : S = tx'[s]
  OBVIOUS
<1>3. T \in Sender /\ S \in Sender /\ T.todo # <<>>
  BY <1>1, <1>2 DEF TypeOK
<1>4. S.todo = Tail(T.todo) /\ S.sent = -1 /\ S.up = T.up /\ chan' = chan
  <2>1. S = [T EXCEPT !.todo = Tail(@), !.sent = -1] /\ chan' = chan
    BY <1>1, <1>2 DEF NextFile, TypeOK
  <2> QED BY <1>3, <2>1 DEF Sender
<1>5. /\ Unsent(S) \subseteq Unsent(T)
      /\ \A i \in DOMAIN S.todo : i + 1 \in DOMAIN T.todo /\ S.todo[i] = T.todo[i + 1]
                                  /\ i \in Nat
  BY <1>3, <1>4, UnsentNext
<1>6. Todo(s)'
  <2>1. \A i \in DOMAIN T.todo : T.todo[i] \in MailOf(s)
    BY <1>1 DEF Session, Todo
  <2>2. \A i \in DOMAIN S.todo : S.todo[i] \in MailOf(s)
    BY <1>5, <2>1
  <2>3. ASSUME NEW i \in DOMAIN S.todo, NEW j \in DOMAIN S.todo, S.todo[i] = S.todo[j]
        PROVE  i = j
    <3>1. i + 1 = j + 1
      BY <1>1, <1>5, <2>3 DEF Session, Todo
    <3>2. i \in Nat /\ j \in Nat
      BY <1>5
    <3> QED BY <3>1, <3>2
  <2>4. S.todo # <<>> => S.sent <= Size[Head(S.todo)]
    <3>1. S.todo # <<>> => Size[Head(S.todo)] \in Nat
      BY <1>3, UnsentFiles, FileAssumption
    <3> QED BY <1>4, <3>1
  <2> QED BY <1>2, <1>4, <2>2, <2>3, <2>4 DEF Todo
<1>7. Begun(s)'
  BY <1>2, <1>4 DEF Begun
<1>8. Gots(s)'
  BY <1>1, <1>2, <1>5, GotsStay DEF Session
<1>9. Stream(s)'
  <2>1. ASSUME NEW pl, SenderAt(T, pl)
        PROVE  SenderAt(S, pl)
    <3>1. ~(T.sent >= 0 /\ T.sent # Size[Head(T.todo)])
      BY <1>1 DEF Session, Begun
    <3>2. Over(pl)
      BY <2>1, <3>1 DEF SenderAt
    <3> QED BY <1>4, <3>2 DEF SenderAt
  <2>2. \A pl : Passed(pl, chan[s], Unsent(T)) => Passed(pl, chan[s], Unsent(S))
    BY <1>5, PassedFewer
  <2>3. rx' = rx /\ disk' = disk /\ chan' = chan /\ Stream(s)
    BY <1>4 DEF Session
  <2> QED BY <1>1, <1>2, <1>4, <2>1, <2>2, <2>3 DEF Stream
<1> QED BY <1>6, <1>7, <1>8, <1>9 DEF Session

\* It sends M_FILE, or a block.
LEMMA SendKeeps ==
  ASSUME Orderly, TypeOK, TypeOK', NEW s \in Slot, Session(s), tx[s].up, tx[s].todo # <<>>,
         NEW f, f = Head(tx[s].todo), NEW m, Put(s, m),
         \/ /\ tx[s].sent = -1 /\ f \notin confirmed
            /\ m = [type |-> "FILE", file |-> f, offset |-> 0]
            /\ tx' = [tx EXCEPT ![s].sent = 0]
         \/ /\ tx[s].sent \in 0 .. Size[f] - 1
            /\ m = [type |-> "DATA", file |-> f, no |-> tx[s].sent + 1]
            /\ tx' = [tx EXCEPT ![s].sent = @ + 1],
         UNCHANGED <<disk, rx, gots, confirmed>>
  PROVE  Session(s)'
<1>1. PICK T : T = tx[s]
  OBVIOUS
<1>2. PICK S : S = tx'[s]
  OBVIOUS
<1>3. T \in Sender /\ S \in Sender /\ T.todo # <<>> /\ chan[s] \in Seq(Frame)
  BY <1>1, <1>2 DEF TypeOK
<1>4. f = Head(T.todo) /\ f = T.todo[1] /\ 1 \in DOMAIN T.todo /\ f \in File /\ Size[f] \in Nat
  BY <1>1, <1>3, UnsentFiles, FileAssumption
<1>5. f \in MailOf(s)
  BY <1>1, <1>4 DEF Session, Todo
<1>6. T.sent # Size[f]
  BY <1>1, <1>4
<1>7. /\ S.todo = T.todo /\ S.up = T.up /\ S.up /\ S.sent \in Nat /\ S.sent <= Size[f]
      /\ \/ T.sent = -1 /\ S.sent = 0
         \/ T.sent \in Nat /\ S.sent = T.sent + 1
  <2>1. CASE T.sent = -1 /\ tx' = [tx EXCEPT ![s].sent = 0]
    <3>1. S = [T EXCEPT !.sent = 0]
      BY <1>1, <1>2, <2>1 DEF TypeOK
    <3>2. S.todo = T.todo /\ S.up = T.up /\ S.sent = 0
      BY <1>3, <3>1 DEF Sender
    <3>3. 0 \in Nat /\ 0 <= Size[f] /\ S.up
      BY <1>1, <1>4, <3>2
    <3> QED BY <2>1, <3>2, <3>3
  <2>2. CASE T.sent \in 0 .. Size[f] - 1 /\ tx' = [tx EXCEPT ![s].sent = @ + 1]
    <3>1. S = [T EXCEPT !.sent = @ + 1]
      BY <1>1, <1>2, <2>2 DEF TypeOK
    <3>2. S.todo = T.todo /\ S.up = T.up /\ S.sent = T.sent + 1
      BY <1>3, <3>1 DEF Sender
    <3>3. T.sent \in Nat /\ T.sent + 1 \in Nat /\ T.sent + 1 <= Size[f]
      BY <1>4, <2>2
    <3>4. S.sent \in Nat /\ S.sent <= Size[f] /\ S.up
      BY <1>1, <3>2, <3>3
    <3> QED BY <3>2, <3>3, <3>4
  <2> QED BY <1>1, <2>1, <2>2
<1>8. Unsent(S) \subseteq Unsent(T)
  BY <1>3, <1>4, <1>6, <1>7, UnsentSent
<1>9. Todo(s)'
  BY <1>1, <1>2, <1>4, <1>7 DEF Session, Todo
<1>10. Begun(s)'
  <2>1. f \notin confirmed
    BY <1>1, <1>4, <1>6 DEF Session, Begun
  <2> QED BY <1>2, <1>4, <1>7, <2>1 DEF Begun
<1>11. Gots(s)'
  BY <1>1, <1>2, <1>8, GotsStay DEF Session
<1>12. /\ m \in Frame /\ m.type \in {"FILE", "DATA"} /\ m.file = f
       /\ m.type = "FILE" => m.offset = 0 /\ T.sent = -1
       /\ m.type = "DATA" => m.no = S.sent /\ S.sent = T.sent + 1 /\ T.sent \in Nat
       /\ Mark(m) = [file |-> f, no |-> S.sent]
  <2>1. CASE T.sent = -1
    <3>1. m = [type |-> "FILE", file |-> f, offset |-> 0] /\ S.sent = 0
      BY <1>1, <1>7, <2>1
    <3>2. [type |-> "FILE", file |-> f, offset |-> 0] \in Frame
      BY <1>4 DEF Frame
    <3>3. Mark(m) = [file |-> f, no |-> 0]
      BY <3>1 DEF Mark
    <3> QED BY <2>1, <3>1, <3>2, <3>3
  <2>2. CASE T.sent # -1
    <3>1. m = [type |-> "DATA", file |-> f, no |-> S.sent] /\ S.sent = T.sent + 1
          /\ T.sent \in Nat
      BY <1>1, <1>7, <2>2
    <3>2. [type |-> "DATA", file |-> f, no |-> S.sent] \in Frame
      BY <1>4, <1>7 DEF Frame
    <3>3. Mark(m) = [file |-> f, no |-> S.sent]
      BY <3>1 DEF Mark
    <3> QED BY <3>1, <3>2, <3>3
  <2> QED BY <2>1, <2>2
<1>13. Stream(s)'
  <2>1. chan'[s] = Append(chan[s], m)
    BY DEF Put, TypeOK
  <2>2. ASSUME NEW pl \in Place, SenderAt(T, pl)
        PROVE  Continues(pl, m, MailOf(s))
    <3>1. CASE m.type = "FILE"
      <4>1. Over(pl)
        BY <1>12, <2>2, <3>1 DEF SenderAt
      <4> QED BY <1>5, <1>12, <3>1, <4>1 DEF Continues
    <3>2. CASE m.type = "DATA"
      <4>1. T.sent \in Nat /\ S.sent = T.sent + 1 /\ m.no = S.sent
        BY <1>12, <3>2
      <4>2. pl = [file |-> f, no |-> T.sent]
        BY <1>3, <1>4, <1>6, <2>2, <4>1 DEF SenderAt
      <4>3. pl.file = f /\ pl.no = T.sent
        BY <4>2
      <4> QED BY <1>7, <1>12, <3>2, <4>1, <4>3 DEF Continues
    <3> QED BY <1>12, <3>1, <3>2
  <2>3. Mark(m).file = f /\ Mark(m).no = S.sent /\ f # None
    BY <1>4, <1>12, FileAssumption
  <2>4. ASSUME Over(Mark(m))  PROVE Mark(m).file \notin Unsent(S)
    <3>1. S.sent = Size[Head(S.todo)] /\ S.todo # <<>> /\ f = Head(S.todo)
      BY <1>3, <1>4, <1>7, <2>3, <2>4 DEF Over
    <3>2. \A i, j \in DOMAIN S.todo : S.todo[i] = S.todo[j] => i = j
      BY <1>1, <1>7 DEF Session, Todo
    <3> QED BY <1>3, <2>3, <3>1, <3>2, UnsentOut
  <2>5. SenderAt(S, Mark(m))
    <3>1. CASE S.sent = Size[f]
      BY <1>4, <1>7, <2>3, <3>1 DEF SenderAt, Over
    <3>2. CASE S.sent # Size[f]
      BY <1>3, <1>4, <1>7, <1>12, <3>2 DEF SenderAt
    <3> QED BY <3>1, <3>2
  <2> QED BY <1>1, <1>2, <1>3, <1>8, <1>12, <2>1, <2>2, <2>4, <2>5, StreamGrows DEF Session
<1> QED BY <1>9, <1>10, <1>11, <1>13 DEF Session

\* The steps of a session that has no file open from then on.
LEMMA ClosesKeeps ==
  ASSUME Orderly, IInv, TypeOK', NEW s \in Slot, Directories(disk'),
         Spares(disk, disk', Names(s)), rx'[s].phase # "up",
         \A t \in Slot : t # s => rx'[t] = rx[t], UNCHANGED <<tx, chan, gots, confirmed>>
  PROVE  IInv'
<1>1. Session(s)
  BY DEF IInv, Session
<1>2. Session(s)'
  BY <1>1 DEF Session, Todo, Begun, Gots, Stream
<1> QED BY <1>2, StepKeeps

LEMMA ReadFailsKeeps ==
  ASSUME Orderly, IInv, TypeOK', NEW s \in Slot, ReadFails(s)
  PROVE  IInv'
<1>1. /\ rx' = [rx EXCEPT ![s].phase = "ending", ![s].fd = None]
      /\ UNCHANGED <<disk, tx, chan, gots, confirmed>>
  BY DEF ReadFails, Ending
<1>2. rx'[s].phase = "ending" /\ \A t \in Slot : t # s => rx'[t] = rx[t]
  <2>1. rx[s] \in Reader /\ rx \in [Slot -> Reader]
    BY DEF IInv, TypeOK
  <2> QED BY <1>1, <2>1 DEF Reader
<1>3. Directories(disk') /\ Spares(disk, disk', Names(s))
  BY <1>1, SparesSame DEF IInv
<1> QED BY <1>1, <1>2, <1>3, ClosesKeeps

\* What a session does with the next of its triggers.
LEMMA PendingParts ==
  ASSUME IInv, NEW s \in Slot, RunPending(s)
  PROVE  /\ rx'[s].phase # "up" /\ \A t \in Slot : t # s => rx'[t] = rx[t]
         /\ UNCHANGED <<tx, chan, gots, confirmed>>
         /\ Directories(disk') /\ disk'.temp = disk.temp /\ disk'.data = disk.data
         /\ Onward(disk, disk')
<1>1. /\ rx[s].phase = "ending" /\ rx[s] \in Reader /\ rx \in [Slot -> Reader]
      /\ disk \in Disk /\ Directories(disk)
      /\ UNCHANGED <<tx, chan, gots, confirmed>>
  BY DEF IInv, TypeOK, RunPending
<1>2. CASE rx[s].pending = <<>>
  <2>1. rx' = [rx EXCEPT ![s] = Closed] /\ disk' = disk
    BY <1>2 DEF RunPending
  <2>2. Onward(disk, disk)
    BY OnwardSame
  <2> QED BY <1>1, <2>1, <2>2 DEF Closed
<1>3. CASE rx[s].pending # <<>>
  <2>1. PICK p : p = Head(rx[s].pending)
    OBVIOUS
  <2>2. p \in Path
    BY <1>1, <1>3, <2>1, HeadTailProperties DEF Reader
  <2>3. disk' = Taken(disk, p) /\ rx' = [rx EXCEPT ![s].pending = Tail(@)]
    BY <1>3, <2>1 DEF RunPending
  <2>4. /\ Directories(disk') /\ disk'.temp = disk.temp /\ disk'.data = disk.data
        /\ Onward(disk, disk')
    BY <1>1, <2>2, <2>3, TakenKeeps
  <2>5. rx'[s].phase = rx[s].phase /\ \A t \in Slot : t # s => rx'[t] = rx[t]
    BY <1>1, <2>3 DEF Reader
  <2> QED BY <1>1, <2>4, <2>5
<1> QED BY <1>2, <1>3

LEMMA RunPendingKeeps ==
  ASSUME Orderly, IInv, TypeOK', NEW s \in Slot, RunPending(s)
  PROVE  IInv'
<1>1. /\ rx'[s].phase # "up" /\ \A t \in Slot : t # s => rx'[t] = rx[t]
      /\ UNCHANGED <<tx, chan, gots, confirmed>>
      /\ Directories(disk') /\ Spares(disk, disk', Names(s))
  BY PendingParts, SparesSame
<1> QED BY <1>1, ClosesKeeps

\* A connection begins with all files of its peer.
LEMMA ConnectKeeps ==
  ASSUME Orderly, IInv, TypeOK', NEW s \in Slot, Connect(s)
  PROVE  IInv'
<1>1. TypeOK /\ Directories(disk) /\ DistinctNames
  BY DEF IInv, Orderly
<1>2. PICK w : w = [up |-> TRUE, todo |-> Files[PeerOf[s]], sent |-> -1, eob |-> FALSE]
  OBVIOUS
<1>3. /\ rx[s].phase = "free" /\ rx' = [rx EXCEPT ![s].phase = "up"]
      /\ tx' = [tx EXCEPT ![s] = w]
      /\ chan' = [chan EXCEPT ![s] = <<>>] /\ gots' = [gots EXCEPT ![s] = <<>>]
      /\ UNCHANGED <<disk, confirmed>>
  BY <1>2 DEF Connect
<1>4. /\ rx'[s].fd = rx[s].fd /\ tx'[s] = w /\ chan'[s] = <<>> /\ gots'[s] = <<>>
      /\ \A t \in Slot : t # s => /\ rx'[t] = rx[t] /\ tx'[t] = tx[t] /\ chan'[t] = chan[t]
                                  /\ gots'[t] = gots[t]
  <2>1. rx[s] \in Reader
    BY <1>1 DEF TypeOK
  <2>2. rx'[s] = [rx[s] EXCEPT !.phase = "up"]
    BY <1>1, <1>3 DEF TypeOK
  <2>3. rx'[s].fd = rx[s].fd
    BY <2>1, <2>2 DEF Reader
  <2> QED BY <1>1, <1>3, <2>3 DEF TypeOK
<1>5. rx'[s].fd = None
  BY <1>1, <1>3, <1>4 DEF TypeOK
<1>6. PICK p \in Peer : p = PeerOf[s]
  BY PeerAssumption
<1>7. w.todo = Files[p] /\ w.sent = -1 /\ Files[p] \in Seq(File)
  BY <1>2, <1>6, FileAssumption
<1>8. Todo(s)'
  <2>1. \A i \in DOMAIN w.todo : w.todo[i] \in MailOf(s)
    BY <1>6, <1>7 DEF MailOf, ToSet
  <2>2. \A i, j \in DOMAIN w.todo : w.todo[i] = w.todo[j] => i = j
    BY <1>1, <1>7 DEF DistinctNames
  <2>3. w.todo # <<>> => w.sent <= Size[Head(w.todo)]
    <3>1. w.todo # <<>> => Head(w.todo) \in File
      BY <1>7, HeadTailProperties
    <3>2. w.todo # <<>> => Size[Head(w.todo)] \in Nat
      BY <3>1, FileAssumption
    <3> QED BY <1>7, <3>2
  <2> QED BY <1>4, <1>7, <2>1, <2>2, <2>3 DEF Todo
<1>9. Begun(s)' /\ Gots(s)'
  BY <1>4, <1>7 DEF Begun, Gots
<1>10. Stream(s)'
  <2>1. Start \in Place /\ Over(Start) /\ Start.file = None
    BY DEF Start, Place, Over
  <2>2. Chain(Start, <<>>, MailOf(s)) /\ End(Start, <<>>) = Start
    BY DEF Chain, End
  <2>3. Passed(Start, <<>>, Unsent(w))
    <3>1. w \in Sender
      BY <1>4 DEF TypeOK
    <3>2. None \notin Unsent(w)
      BY <3>1, UnsentFiles
    <3> QED BY <2>1, <3>2 DEF Passed
  <2>4. SenderAt(w, Start)
    BY <1>7, <2>1 DEF SenderAt
  <2>5. ReaderAt(disk', rx'[s], Start, MailOf(s))
    BY <1>5 DEF ReaderAt
  <2> QED BY <1>4, <2>1, <2>2, <2>3, <2>4, <2>5 DEF Stream
<1>11. Spares(disk, disk', Names(s)) /\ Directories(disk')
  BY <1>1, <1>3, SparesSame
<1>12. Session(s)'
  BY <1>8, <1>9, <1>10 DEF Session
<1> QED BY <1>3, <1>4, <1>11, <1>12, StepKeeps

\* Only the peer's end of one connection changes.
LEMMA PeerKeeps ==
  ASSUME Orderly, IInv, TypeOK', NEW s \in Slot, Session(s)', UNCHANGED <<disk, rx>>,
         \A f \in confirmed' : f \in confirmed \/ f \in MailOf(s),
         \A t \in Slot : t # s => tx'[t] = tx[t] /\ chan'[t] = chan[t] /\ gots'[t] = gots[t]
  PROVE  IInv'
<1>1. Directories(disk') /\ Spares(disk, disk', Names(s))
  BY SparesSame DEF IInv
<1> QED BY <1>1, StepKeeps

LEMMA PeerSendsKeeps ==
  ASSUME Orderly, IInv, TypeOK', NEW s \in Slot, PeerSends(s)
  PROVE  IInv'
<1>1. TypeOK /\ Session(s) /\ tx[s].up /\ tx[s].todo # <<>>
      /\ UNCHANGED <<disk, rx, gots, confirmed>>
  BY DEF IInv, Session, PeerSends
<1>2. PICK f : f = Head(tx[s].todo)
  OBVIOUS
<1>3. \/ /\ tx[s].sent = -1 /\ f \notin confirmed
         /\ Put(s, [type |-> "FILE", file |-> f, offset |-> 0])
         /\ tx' = [tx EXCEPT ![s].sent = 0]
      \/ /\ \/ tx[s].sent = Size[f]
            \/ tx[s].sent \in {-1, 0} /\ f \in confirmed
         /\ NextFile(s)
      \/ /\ tx[s].sent \in 0 .. Size[f] - 1
         /\ Put(s, [type |-> "DATA", file |-> f, no |-> tx[s].sent + 1])
         /\ tx' = [tx EXCEPT ![s].sent = @ + 1]
  BY <1>2 DEF PeerSends, Orderly
<1>4. Session(s)'
  <2>1. CASE /\ tx[s].sent = -1 /\ f \notin confirmed
             /\ Put(s, [type |-> "FILE", file |-> f, offset |-> 0])
             /\ tx' = [tx EXCEPT ![s].sent = 0]
    BY <1>1, <1>2, <2>1, SendKeeps
  <2>2. CASE /\ \/ tx[s].sent = Size[f]
                \/ tx[s].sent \in {-1, 0} /\ f \in confirmed
             /\ NextFile(s)
    BY <1>1, <1>2, <2>2, NextKeeps
  <2>3. CASE /\ tx[s].sent \in 0 .. Size[f] - 1
             /\ Put(s, [type |-> "DATA", file |-> f, no |-> tx[s].sent + 1])
             /\ tx' = [tx EXCEPT ![s].sent = @ + 1]
    BY <1>1, <1>2, <2>3, SendKeeps
  <2> QED BY <1>3, <2>1, <2>2, <2>3
<1>5. \A t \in Slot : t # s => tx'[t] = tx[t] /\ chan'[t] = chan[t]
  BY <1>1, <1>3 DEF Put, NextFile, TypeOK
<1> QED BY <1>1, <1>4, <1>5, PeerKeeps

LEMMA PeerSendsEOBKeeps ==
  ASSUME Orderly, IInv, TypeOK', NEW s \in Slot, PeerSendsEOB(s)
  PROVE  IInv'
<1>1. /\ TypeOK /\ Session(s) /\ tx[s].up /\ tx[s].todo = <<>>
      /\ tx' = [tx EXCEPT ![s].eob = TRUE]
      /\ chan' = [chan EXCEPT ![s] = Append(@, [type |-> "EOB"])]
      /\ UNCHANGED <<disk, rx, gots, confirmed>>
  BY DEF IInv, Session, PeerSendsEOB, Put
<1>2. PICK T : T = tx'[s]
  OBVIOUS
<1>3. T.todo = tx[s].todo /\ T.sent = tx[s].sent /\ T.up = tx[s].up
  <2>1. T = [tx[s] EXCEPT !.eob = TRUE] /\ tx[s] \in Sender
    BY <1>1, <1>2 DEF TypeOK
  <2> QED BY <2>1 DEF Sender
<1>4. Unsent(T) = Unsent(tx[s])
  BY <1>3 DEF Unsent
<1>5. PICK m : m = [type |-> "EOB"]
  OBVIOUS
<1>6. m \in Frame /\ m.type = "EOB" /\ Mark(m) = Start
  BY <1>5 DEF Frame, Mark
<1>7. Over(Start) /\ Start.file = None
  BY DEF Over, Start
<1>8. \A pl \in Place : SenderAt(tx[s], pl) => Continues(pl, m, MailOf(s))
  BY <1>1, <1>6 DEF SenderAt, Continues
<1>9. SenderAt(T, Mark(m))
  BY <1>1, <1>3, <1>6, <1>7 DEF SenderAt
<1>10. Mark(m).file \notin Unsent(T)
  <2>1. None \notin Unsent(tx[s])
    BY <1>1, UnsentFiles DEF TypeOK
  <2> QED BY <1>4, <1>6, <1>7, <2>1
<1>11. chan'[s] = Append(chan[s], m) /\ chan[s] \in Seq(Frame)
  BY <1>1, <1>5 DEF TypeOK
<1>12. Stream(s)'
  BY <1>1, <1>2, <1>4, <1>6, <1>8, <1>9, <1>10, <1>11, StreamGrows DEF Session
<1>13. Session(s)'
  <2>1. Todo(s)'
    BY <1>1, <1>2, <1>3 DEF Session, Todo
  <2>2. Begun(s)'
    BY <1>1, <1>2, <1>3 DEF Begun
  <2>3. Gots(s)'
    BY <1>1, <1>2, <1>4, GotsStay DEF Session
  <2> QED BY <1>12, <2>1, <2>2, <2>3 DEF Session
<1>14. \A t \in Slot : t # s => tx'[t] = tx[t] /\ chan'[t] = chan[t]
  BY <1>1 DEF TypeOK
<1> QED BY <1>1, <1>13, <1>14, PeerKeeps

\* The first of several, and the others.
LEMMA HeadTailAt ==
  ASSUME NEW S, NEW q \in Seq(S), q # <<>>
  PROVE  /\ Head(q) = q[1] /\ Head(q) \in S /\ 1 \in DOMAIN q
         /\ \A i \in DOMAIN Tail(q) : i + 1 \in DOMAIN q /\ Tail(q)[i] = q[i + 1]
         /\ \A j \in DOMAIN q : j = 1 \/ (j - 1 \in DOMAIN Tail(q) /\ Tail(q)[j - 1] = q[j])
<1>1. PICK k \in Nat : k = Len(q)
  BY LenProperties
<1>2. k # 0 /\ DOMAIN q = 1 .. k
  BY <1>1, EmptySeq, LenProperties
<1>3. /\ Tail(q) \in Seq(S) /\ Len(Tail(q)) = k - 1 /\ Head(q) \in S
      /\ \A i \in 1 .. Len(Tail(q)) : Tail(q)[i] = q[i + 1]
  BY <1>1, HeadTailProperties
<1>4. DOMAIN Tail(q) = 1 .. k - 1
  BY <1>3, LenProperties
<1>5. 1 \in 1 .. k /\ \A i \in 1 .. k - 1 : i + 1 \in 1 .. k
  BY <1>2
<1>6. ASSUME NEW j \in 1 .. k, j # 1
      PROVE  j - 1 \in 1 .. k - 1 /\ Tail(q)[j - 1] = q[j]
  <2>1. PICK i \in 1 .. k - 1 : i + 1 = j /\ i = j - 1
    BY <1>6
  <2> QED BY <1>3, <2>1
<1> QED BY <1>2, <1>3, <1>4, <1>5, <1>6

LEMMA HeadTailSet ==
  ASSUME NEW S, NEW q \in Seq(S), q # <<>>
  PROVE  /\ Head(q) \in S
         /\ \A y : y \in ToSet(q) <=> y = Head(q) \/ y \in ToSet(Tail(q))
<1>1. /\ Head(q) = q[1] /\ Head(q) \in S /\ 1 \in DOMAIN q
      /\ \A i \in DOMAIN Tail(q) : i + 1 \in DOMAIN q /\ Tail(q)[i] = q[i + 1]
      /\ \A j \in DOMAIN q : j = 1 \/ (j - 1 \in DOMAIN Tail(q) /\ Tail(q)[j - 1] = q[j])
  BY HeadTailAt
<1>2. ASSUME NEW y \in ToSet(q)
      PROVE  y = Head(q) \/ y \in ToSet(Tail(q))
  <2>1. PICK j \in DOMAIN q : y = q[j]
    BY DEF ToSet
  <2>2. CASE j # 1
    <3>1. PICK i : i = j - 1
      OBVIOUS
    <3>2. i \in DOMAIN Tail(q) /\ Tail(q)[i] = y
      BY <1>1, <2>1, <2>2, <3>1
    <3> QED BY <3>2 DEF ToSet
  <2> QED BY <1>1, <2>1, <2>2
<1>3. ASSUME NEW y \in ToSet(Tail(q))
      PROVE  y \in ToSet(q)
  <2>1. PICK i \in DOMAIN Tail(q) : y = Tail(q)[i]
    BY DEF ToSet
  <2>2. PICK j : j = i + 1
    OBVIOUS
  <2>3. j \in DOMAIN q /\ y = q[j]
    BY <1>1, <2>1, <2>2
  <2> QED BY <2>3 DEF ToSet
<1>4. Head(q) \in ToSet(q)
  BY <1>1 DEF ToSet
<1> QED BY <1>1, <1>2, <1>3, <1>4

\* M_GOT arrives, for a file that has been written out.
LEMMA PeerGotKeeps ==
  ASSUME Orderly, IInv, TypeOK', NEW s \in Slot, PeerGot(s)
  PROVE  IInv'
<1>1. /\ TypeOK /\ Session(s) /\ gots[s] # <<>> /\ gots[s] \in Seq(Name)
      /\ gots' = [gots EXCEPT ![s] = Tail(@)]
      /\ confirmed' = confirmed \cup {f \in MailOf(s) : NameOf[f] = Head(gots[s])}
      /\ UNCHANGED <<disk, rx, tx, chan>>
  BY DEF IInv, Session, PeerGot, TypeOK, MailOf
<1>2. /\ Head(gots[s]) = gots[s][1] /\ 1 \in DOMAIN gots[s]
      /\ \A i \in DOMAIN Tail(gots[s]) : i + 1 \in DOMAIN gots[s]
                                         /\ Tail(gots[s])[i] = gots[s][i + 1]
  BY <1>1, HeadTailAt
<1>3. gots'[s] = Tail(gots[s])
  BY <1>1 DEF TypeOK
<1>4. PICK g \in MailOf(s) : NameOf[g] = Head(gots[s]) /\ g \notin Unsent(tx[s])
  BY <1>1, <1>2 DEF Session, Gots
<1>5. \A f \in MailOf(s) : NameOf[f] = Head(gots[s]) => f = g
  BY <1>4, SlotMail, SameName DEF Orderly
<1>6. Begun(s)'
  <2>1. SUFFICES ASSUME tx[s].up, tx[s].todo # <<>>, tx[s].sent >= 0,
                        tx[s].sent # Size[Head(tx[s].todo)]
                 PROVE  Head(tx[s].todo) \notin confirmed'
    BY <1>1 DEF Begun
  <2>2. Head(tx[s].todo) \notin confirmed
    BY <1>1, <2>1 DEF Session, Begun
  <2>3. Head(tx[s].todo) \in Unsent(tx[s])
    BY <1>1, <2>1, UnsentFiles DEF TypeOK
  <2> QED BY <1>1, <1>4, <1>5, <2>2, <2>3
<1>7. Gots(s)' /\ Todo(s)' /\ Stream(s)'
  <2>1. Gots(s)'
    BY <1>1, <1>2, <1>3 DEF Session, Gots
  <2>2. Todo(s)'
    BY <1>1 DEF Session, Todo
  <2>3. Stream(s)'
    BY <1>1 DEF Session, Stream
  <2> QED BY <2>1, <2>2, <2>3
<1>8. Session(s)'
  BY <1>6, <1>7 DEF Session
<1>9. \A t \in Slot : t # s => gots'[t] = gots[t]
  BY <1>1 DEF TypeOK
<1> QED BY <1>1, <1>8, <1>9, PeerKeeps

\* The connection is closed, or cut.
LEMMA DownKeeps ==
  ASSUME TypeOK, NEW s \in Slot, Session(s), tx'[s] = [tx[s] EXCEPT !.up = FALSE],
         \/ chan'[s] = chan[s]
         \/ \E k \in 0 .. Len(chan[s]) : chan'[s] = SubSeq(chan[s], 1, k),
         gots'[s] = gots[s] \/ gots'[s] = <<>>, UNCHANGED <<disk, rx, confirmed>>
  PROVE  Session(s)'
<1>1. PICK T : T = tx'[s]
  OBVIOUS
<1>2. T.todo = tx[s].todo /\ T.sent = tx[s].sent /\ T.up = FALSE
  <2>1. tx[s] \in Sender
    BY DEF TypeOK
  <2> QED BY <1>1, <2>1 DEF Sender
<1>3. Unsent(T) = Unsent(tx[s])
  BY <1>2 DEF Unsent
<1>4. Todo(s)' /\ Begun(s)'
  BY <1>1, <1>2 DEF Session, Todo, Begun
<1>5. Gots(s)'
  BY <1>1, <1>3 DEF Session, Gots
<1>6. Stream(s)'
  <2>1. SUFFICES ASSUME rx[s].phase = "up"
                 PROVE  \E pl \in Place :
                          /\ ReaderAt(disk, rx[s], pl, MailOf(s))
                          /\ Chain(pl, chan'[s], MailOf(s))
                          /\ Passed(pl, chan'[s], Unsent(tx[s]))
    BY <1>1, <1>2, <1>3 DEF Stream
  <2>2. PICK pl \in Place :
          /\ ReaderAt(disk, rx[s], pl, MailOf(s)) /\ Chain(pl, chan[s], MailOf(s))
          /\ Passed(pl, chan[s], Unsent(tx[s]))
    BY <2>1 DEF Session, Stream
  <2>3. Chain(pl, chan'[s], MailOf(s)) /\ Passed(pl, chan'[s], Unsent(tx[s]))
    <3>1. chan[s] \in Seq(Frame)
      BY DEF TypeOK
    <3>2. CASE chan'[s] = chan[s]
      BY <2>2, <3>2
    <3>3. CASE \E k \in 0 .. Len(chan[s]) : chan'[s] = SubSeq(chan[s], 1, k)
      <4>1. PICK k \in 0 .. Len(chan[s]) : chan'[s] = SubSeq(chan[s], 1, k)
        BY <3>3
      <4> QED BY <2>2, <3>1, <4>1, StreamCut
    <3> QED BY <3>2, <3>3
  <2> QED BY <2>2, <2>3
<1> QED BY <1>4, <1>5, <1>6 DEF Session

LEMMA PeerClosesKeeps ==
  ASSUME Orderly, IInv, TypeOK', NEW s \in Slot, PeerCloses(s) \/ Cut(s)
  PROVE  IInv'
<1>1. TypeOK /\ Session(s) /\ UNCHANGED <<disk, rx, confirmed>>
      /\ tx' = [tx EXCEPT ![s].up = FALSE]
  BY DEF IInv, Session, PeerCloses, Cut
<1>2. \/ chan' = chan /\ gots' = gots
      \/ /\ \E k \in 0 .. Len(chan[s]) : chan' = [chan EXCEPT ![s] = SubSeq(@, 1, k)]
         /\ gots' = [gots EXCEPT ![s] = <<>>]
  BY DEF PeerCloses, Cut
<1>3. /\ tx'[s] = [tx[s] EXCEPT !.up = FALSE]
      /\ \A t \in Slot : t # s => tx'[t] = tx[t] /\ chan'[t] = chan[t] /\ gots'[t] = gots[t]
  BY <1>1, <1>2 DEF TypeOK
<1>4. /\ \/ chan'[s] = chan[s]
         \/ \E k \in 0 .. Len(chan[s]) : chan'[s] = SubSeq(chan[s], 1, k)
      /\ gots'[s] = gots[s] \/ gots'[s] = <<>>
  BY <1>1, <1>2 DEF TypeOK
<1>5. Session(s)'
  BY <1>1, <1>3, <1>4, DownKeeps
<1> QED BY <1>1, <1>3, <1>5, PeerKeeps

\* The process dies, and all sessions with it.
LEMMA CrashKeeps ==
  ASSUME IInv, TypeOK', Crash
  PROVE  IInv'
<1>1. ASSUME NEW s \in Slot
      PROVE  Session(s)'
  <2>1. /\ rx'[s].phase = "free" /\ tx'[s] = [tx[s] EXCEPT !.up = FALSE] /\ gots'[s] = <<>>
        /\ confirmed' = confirmed
    BY DEF Crash, Closed
  <2>2. tx[s] \in Sender /\ Todo(s)
    BY DEF IInv, TypeOK
  <2>3. tx'[s].todo = tx[s].todo /\ tx'[s].sent = tx[s].sent /\ tx'[s].up = FALSE
    BY <2>1, <2>2 DEF Sender
  <2>4. Stream(s)'
    BY <2>1 DEF Stream
  <2> QED BY <2>1, <2>2, <2>3, <2>4 DEF Session, Todo, Begun, Gots
<1>2. Directories(disk')
  BY DEF IInv, Crash
<1> QED BY <1>1, <1>2 DEF IInv, Session

\* The steps of the model.
LEMMA NextKeepsIInv ==
  ASSUME Orderly, IInv, [Next]_vars
  PROVE  IInv'
<1>1. TypeOK'
  BY HandlersType, OthersType, CrashType, StutterType DEF Next, Step, IInv
<1>2. ASSUME NEW s \in Slot, HandleFile(s) \/ HandleData(s) \/ HandleEOB(s)
      PROVE  IInv'
  BY <1>1, <1>2, FileOutcome, DataOutcome, EobOutcome, HandledKeeps
<1>3. ASSUME NEW s \in Slot, ReadFails(s) \/ RunPending(s) \/ Connect(s)
      PROVE  IInv'
  BY <1>1, <1>3, ReadFailsKeeps, RunPendingKeeps, ConnectKeeps
<1>4. ASSUME NEW s \in Slot,
             PeerSends(s) \/ PeerSendsEOB(s) \/ PeerGot(s) \/ PeerCloses(s) \/ Cut(s)
      PROVE  IInv'
  BY <1>1, <1>4, PeerSendsKeeps, PeerSendsEOBKeeps, PeerGotKeeps, PeerClosesKeeps
<1>5. CASE Crash
  BY <1>1, <1>5, CrashKeeps
<1>6. CASE UNCHANGED vars
  BY <1>1, <1>6 DEF vars, IInv, Todo, Begun, Gots, Stream
<1> QED BY <1>2, <1>3, <1>4, <1>5, <1>6 DEF Next, Step

LEMMA InitIInv == ASSUME Init PROVE IInv
<1>1. TypeOK
  BY InitType
<1>2. Directories(disk)
  <2>1. \A p \in Path : p.dir \in Dir /\ p.name \in Name
    BY PathType
  <2> QED BY <2>1 DEF Init, Directories
<1>3. ASSUME NEW s \in Slot
      PROVE  Todo(s) /\ Begun(s) /\ Gots(s) /\ Stream(s)
  <2>1. /\ rx[s].phase = "free" /\ gots[s] = <<>>
        /\ tx[s] = [up |-> FALSE, todo |-> <<>>, sent |-> -1, eob |-> FALSE]
    BY DEF Init, Closed
  <2>2. tx[s].todo = <<>> /\ tx[s].sent = -1 /\ tx[s].up = FALSE
    BY <2>1
  <2> QED BY <2>1, <2>2 DEF Todo, Begun, Gots, Stream
<1> QED BY <1>1, <1>2, <1>3 DEF IInv

\* Under Orderly, whatever is in an inbound directory or was taken from one is a file of a
\* peer, whole, in the directory for the peer's kind of session, through any cuts and crashes
\* (finishCurrentFile renames only what has been written to its end).
THEOREM WholeFiles ==
  ASSUME Orderly
  PROVE  Spec => []InboundWhole
<1>1. Init => IInv
  BY InitIInv
<1>2. IInv /\ [Next]_vars => IInv'
  BY NextKeepsIInv
<1>3. IInv => InboundWhole
  <2>1. SUFFICES ASSUME Directories(disk)  PROVE InboundWhole
    BY DEF IInv
  <2>2. \A dir, n, c : Holds(dir, n, c) => Right(dir, c)
    BY DEF Holds, Right
  <2> QED BY <2>1, <2>2 DEF Directories, InboundWhole
<1> QED BY <1>1, <1>2, <1>3, PTL DEF Spec

\* Under Orderly, no step writes to a file that stays in an inbound directory, where a tosser
\* may be reading it (session.go:664: only the temporary directory is written to).
THEOREM FilesNotWritten ==
  ASSUME Orderly
  PROVE  Spec => InboundNotWritten
<1>1. Init => IInv
  BY InitIInv
<1>2. IInv /\ [Next]_vars => IInv'
  BY NextKeepsIInv
<1>3. IInv /\ [Next]_vars => Settled(disk, disk')
  <2>1. SUFFICES ASSUME IInv, [Next]_vars  PROVE Settled(disk, disk')
    OBVIOUS
  <2>2. ASSUME NEW s \in Slot, HandleFile(s) \/ HandleData(s) \/ HandleEOB(s)
        PROVE  Settled(disk, disk')
    <3>1. PICK g : Handled(s, g) /\ Outcome(s, g)
      BY <2>1, <2>2, FileOutcome, DataOutcome, EobOutcome
    <3> QED BY <3>1 DEF Handled, Outcome
  <2>3. ASSUME NEW s \in Slot, RunPending(s)
        PROVE  Settled(disk, disk')
    BY <2>1, <2>3, PendingParts DEF Settled
  <2>4. ASSUME disk' = disk
        PROVE  Settled(disk, disk')
    BY <2>4 DEF Settled
  <2>5. ASSUME NEW s \in Slot,
               ReadFails(s) \/ Connect(s) \/ PeerSends(s) \/ PeerSendsEOB(s) \/ PeerGot(s)
                 \/ PeerCloses(s) \/ Cut(s)
        PROVE  disk' = disk
    BY <2>5 DEF ReadFails, Ending, Connect, PeerSends, PeerSendsEOB, PeerGot, PeerCloses, Cut
  <2>6. CASE Crash
    BY <2>4, <2>6 DEF Crash
  <2>7. CASE UNCHANGED vars
    BY <2>4, <2>7 DEF vars
  <2> QED BY <2>1, <2>2, <2>3, <2>4, <2>5, <2>6, <2>7 DEF Next, Step
<1>4. IInv /\ [Next]_vars =>
        [\A p \in Path : LET i == disk.inbound[p.dir][p.name] IN
           i # None /\ disk'.inbound[p.dir][p.name] = i => disk'.data[i] = disk.data[i]]_vars
  BY <1>3 DEF Settled
<1> QED BY <1>1, <1>2, <1>4, PTL DEF Spec, InboundNotWritten
-----------------------------------------------------------------------------
(* What a peer was told of.                                                *)

\* The triggers that wait are of files in the inbound directories.
LEMMA PendingPaths ==
  ASSUME TypeOK, NEW s \in Slot, NEW p \in ToSet(rx[s].pending)
  PROVE  p \in Path
<1>1. rx[s].pending \in Seq(Path)
  BY DEF TypeOK, Reader
<1>2. PICK i \in DOMAIN rx[s].pending : p = rx[s].pending[i]
  BY DEF ToSet
<1> QED BY <1>1, <1>2, ElementOfSeq

\* Files that a tosser has or that wait for a trigger do so later, if the triggers do.
LEMMA GivenStays ==
  ASSUME TypeOK, Onward(disk, disk'), NEW f, Given(f),
         \A s \in Slot : \A p \in ToSet(rx[s].pending) :
           \/ p \in ToSet(rx'[s].pending)
           \/ disk.inbound[p.dir][p.name] # None
                => \E t \in disk'.taken : t.data = disk.data[disk.inbound[p.dir][p.name]]
  PROVE  Given(f)'
<1>1. CASE \E t \in disk.taken : t.data = Whole(f)
  BY <1>1 DEF Given, Onward
<1>2. CASE Waiting(f)
  <2>1. PICK s \in Slot : \E p \in ToSet(rx[s].pending) :
          /\ disk.inbound[p.dir][p.name] # None
          /\ disk.data[disk.inbound[p.dir][p.name]] = Whole(f)
    BY <1>2 DEF Waiting
  <2>2. PICK p \in ToSet(rx[s].pending) :
          /\ disk.inbound[p.dir][p.name] # None
          /\ disk.data[disk.inbound[p.dir][p.name]] = Whole(f)
    BY <2>1
  <2>3. p \in Path
    BY PendingPaths
  <2>4. CASE p \in ToSet(rx'[s].pending)
    <3>1. Found(disk', p, Whole(f))
      BY <2>2, <2>3 DEF Onward
    <3> QED BY <2>4, <3>1 DEF Found, Given, Waiting
  <2>5. CASE p \notin ToSet(rx'[s].pending)
    BY <2>2, <2>5 DEF Given
  <2> QED BY <2>4, <2>5
<1> QED BY <1>1, <1>2 DEF Given

\* What a step must do for Told.
LEMMA ToldStays ==
  ASSUME Told, \A f : Given(f) => Given(f)', \A f \in confirmed' : f \in confirmed \/ Given(f)',
         \A s \in Slot : \A i \in DOMAIN gots'[s] : \A f \in MailOf(s) :
           NameOf[f] = gots'[s][i]
             => (\E j \in DOMAIN gots[s] : gots'[s][i] = gots[s][j]) \/ Given(f)',
         \A s \in Slot : \A p \in ToSet(rx'[s].pending) :
           p \in ToSet(rx[s].pending) \/ p.name \in Later
  PROVE  Told'
<1>1. \A f \in confirmed' : Given(f)'
  BY DEF Told
<1>2. ASSUME NEW s \in Slot, NEW i \in DOMAIN gots'[s], NEW f \in MailOf(s),
             NameOf[f] = gots'[s][i]
      PROVE  Given(f)'
  BY <1>2 DEF Told
<1>3. \A s \in Slot : \A p \in ToSet(rx'[s].pending) : p.name \in Later
  BY DEF Told
<1> QED BY <1>1, <1>2, <1>3 DEF Told

\* The handlers: a file that is announced is with a tosser by then, or its trigger waits.
LEMMA HandledTold ==
  ASSUME Orderly, IInv, Told, NEW s \in Slot, NEW g, Handled(s, g), Outcome(s, g)
  PROVE  Told'
<1>1. /\ disk' = g.disk /\ rx' = [rx EXCEPT ![s] = g.rx]
      /\ gots' = IF tx[s].up THEN [gots EXCEPT ![s] = @ \o g.gots] ELSE gots
      /\ UNCHANGED confirmed
  BY DEF Handled
<1>2. TypeOK /\ Onward(disk, disk') /\ Defers(rx[s], g.rx)
  BY <1>1 DEF IInv, Outcome
<1>3. rx'[s] = g.rx /\ \A t \in Slot : t # s => rx'[t] = rx[t]
  BY <1>1, <1>2 DEF TypeOK
<1>4. \A t \in Slot : \A p \in ToSet(rx[t].pending) : p \in ToSet(rx'[t].pending)
  BY <1>2, <1>3 DEF Defers
<1>5. \A f : Given(f) => Given(f)'
  BY <1>2, <1>4, GivenStays
<1>6. ASSUME NEW f, Provided(disk', rx'[s], f)
      PROVE  Given(f)'
  <2>1. CASE \E t \in disk'.taken : t.data = Whole(f)
    BY <2>1 DEF Given
  <2>2. CASE \E p \in ToSet(rx'[s].pending) : p \in Path /\ Found(disk', p, Whole(f))
    BY <2>2 DEF Given, Waiting, Found
  <2> QED BY <1>6, <2>1, <2>2 DEF Provided
<1>7. ASSUME NEW t \in Slot, NEW i \in DOMAIN gots'[t], NEW f \in MailOf(t),
             NameOf[f] = gots'[t][i]
      PROVE  (\E j \in DOMAIN gots[t] : gots'[t][i] = gots[t][j]) \/ Given(f)'
  <2>1. CASE gots'[t] = gots[t]
    BY <2>1
  <2>2. CASE t = s /\ gots'[s] = gots[s] \o g.gots
    <3>1. Comes(gots'[s], gots[s], g.gots)
      <4>1. gots[s] \in Seq(Name) /\ g.gots \in Seq(Name)
        BY <1>2 DEF TypeOK, Outcome
      <4> QED BY <2>2, <4>1, ConcatElements
    <3>2. ASSUME NEW j \in DOMAIN g.gots, gots'[s][i] = g.gots[j]
          PROVE  Given(f)'
      <4>1. PICK h \in MailOf(s) : NameOf[h] = g.gots[j] /\ Provided(g.disk, g.rx, h)
        BY DEF Outcome, Announces
      <4>2. h = f
        <5>1. f \in MailOf(s) /\ NameOf[h] = NameOf[f] /\ DistinctNames
          BY <1>7, <2>2, <3>2, <4>1 DEF Orderly
        <5>2. /\ PeerOf[s] \in Peer /\ f \in ToSet(Files[PeerOf[s]])
              /\ h \in ToSet(Files[PeerOf[s]])
          BY <5>1, SlotMail
        <5> QED BY <5>1, <5>2, SameName
      <4>3. g.disk = disk' /\ g.rx = rx'[s]
        BY <1>1, <1>3
      <4>4. Provided(disk', rx'[s], f)
        BY <4>1, <4>2, <4>3
      <4> QED BY <1>6, <4>4
    <3> QED BY <2>2, <3>1, <3>2 DEF Comes
  <2> QED BY <1>1, <1>2, <2>1, <2>2 DEF TypeOK
<1>8. \A t \in Slot : \A p \in ToSet(rx'[t].pending) :
        p \in ToSet(rx[t].pending) \/ p.name \in Later
  BY <1>2, <1>3 DEF Defers
<1> QED BY <1>1, <1>5, <1>7, <1>8, ToldStays

\* A trigger is run, and has the file then.
LEMMA RunPendingTold ==
  ASSUME IInv, Told, NEW s \in Slot, RunPending(s)
  PROVE  Told'
<1>1. /\ TypeOK /\ rx[s] \in Reader /\ disk \in Disk /\ Directories(disk)
      /\ Onward(disk, disk') /\ UNCHANGED <<gots, confirmed>>
  BY PendingParts DEF IInv, TypeOK
<1>2. \A t \in Slot : t # s => rx'[t] = rx[t]
  BY PendingParts
<1>3. /\ \A p \in ToSet(rx'[s].pending) : p \in ToSet(rx[s].pending)
      /\ \A p \in ToSet(rx[s].pending) :
           \/ p \in ToSet(rx'[s].pending)
           \/ disk.inbound[p.dir][p.name] # None
                => \E t \in disk'.taken : t.data = disk.data[disk.inbound[p.dir][p.name]]
  <2>1. CASE rx[s].pending = <<>>
    <3>1. rx'[s].pending = <<>>
      BY <1>1, <2>1 DEF RunPending, TypeOK, Closed
    <3> QED BY <2>1, <3>1 DEF ToSet
  <2>2. CASE rx[s].pending # <<>>
    <3>1. PICK p : p = Head(rx[s].pending)
      OBVIOUS
    <3>2. PICK q : q = Tail(rx[s].pending)
      OBVIOUS
    <3>3. p \in Path /\ \A y : y \in ToSet(rx[s].pending) <=> y = p \/ y \in ToSet(q)
      BY <1>1, <2>2, <3>1, <3>2, HeadTailSet DEF Reader
    <3>4. disk' = Taken(disk, p) /\ rx'[s].pending = q
      <4>1. rx'[s] = [rx[s] EXCEPT !.pending = q] /\ disk' = Taken(disk, p)
        BY <1>1, <2>2, <3>1, <3>2 DEF RunPending, TypeOK
      <4> QED BY <1>1, <4>1 DEF Reader
    <3>5. disk.inbound[p.dir][p.name] # None
            => \E t \in disk'.taken : t.data = disk.data[disk.inbound[p.dir][p.name]]
      BY <1>1, <3>3, <3>4, TakenKeeps
    <3> QED BY <3>3, <3>4, <3>5
  <2> QED BY <2>1, <2>2
<1>4. \A f : Given(f) => Given(f)'
  <2>1. \A t \in Slot : \A p \in ToSet(rx[t].pending) :
          \/ p \in ToSet(rx'[t].pending)
          \/ disk.inbound[p.dir][p.name] # None
               => \E x \in disk'.taken : x.data = disk.data[disk.inbound[p.dir][p.name]]
    BY <1>2, <1>3
  <2> QED BY <1>1, <2>1, GivenStays
<1>5. \A t \in Slot : \A p \in ToSet(rx'[t].pending) : p \in ToSet(rx[t].pending)
  BY <1>2, <1>3
<1>6. \A t \in Slot : \A i \in DOMAIN gots'[t] : \E j \in DOMAIN gots[t] : gots'[t][i] = gots[t][j]
  BY <1>1
<1> QED BY <1>1, <1>4, <1>5, <1>6, ToldStays

\* The steps that leave the disk and the triggers alone.
LEMMA QuietTold ==
  ASSUME TypeOK, Told, UNCHANGED disk,
         \A s \in Slot : rx'[s].pending = rx[s].pending,
         \A f \in confirmed' : f \in confirmed \/ Given(f),
         \A s \in Slot : \A i \in DOMAIN gots'[s] : \E j \in DOMAIN gots[s] : gots'[s][i] = gots[s][j]
  PROVE  Told'
<1>1. Onward(disk, disk')
  BY OnwardSame
<1>2. \A f : Given(f) => Given(f)'
  BY <1>1, GivenStays
<1> QED BY <1>2, ToldStays

LEMMA OthersTold ==
  ASSUME IInv, Told, NEW s \in Slot,
         ReadFails(s) \/ Connect(s) \/ PeerSends(s) \/ PeerSendsEOB(s) \/ PeerGot(s)
           \/ PeerCloses(s) \/ Cut(s)
  PROVE  Told'
<1>1. TypeOK /\ UNCHANGED disk
  BY DEF IInv, ReadFails, Ending, Connect, PeerSends, PeerSendsEOB, PeerGot, PeerCloses, Cut
<1>2. \A t \in Slot : rx'[t].pending = rx[t].pending
  <2>1. \A t \in Slot : rx[t] \in Reader
    BY <1>1 DEF TypeOK
  <2>2. CASE ReadFails(s)
    BY <1>1, <2>1, <2>2 DEF ReadFails, Ending, Reader, TypeOK
  <2>3. CASE Connect(s)
    BY <1>1, <2>1, <2>3 DEF Connect, Reader, TypeOK
  <2>4. CASE rx' = rx
    BY <2>4
  <2> QED BY <2>2, <2>3, <2>4 DEF PeerSends, PeerSendsEOB, PeerGot, PeerCloses, Cut
<1>3. CASE PeerGot(s)
  <2>1. /\ gots[s] # <<>> /\ gots[s] \in Seq(Name)
        /\ gots' = [gots EXCEPT ![s] = Tail(@)]
        /\ confirmed' = confirmed \cup {f \in MailOf(s) : NameOf[f] = Head(gots[s])}
    BY <1>1, <1>3 DEF PeerGot, TypeOK, MailOf
  <2>2. /\ Head(gots[s]) = gots[s][1] /\ 1 \in DOMAIN gots[s]
        /\ \A i \in DOMAIN Tail(gots[s]) : i + 1 \in DOMAIN gots[s]
                                           /\ Tail(gots[s])[i] = gots[s][i + 1]
    BY <2>1, HeadTailAt
  <2>3. \A f \in confirmed' : f \in confirmed \/ Given(f)
    BY <2>1, <2>2 DEF Told
  <2>4. gots'[s] = Tail(gots[s]) /\ \A t \in Slot : t # s => gots'[t] = gots[t]
    BY <1>1, <2>1 DEF TypeOK
  <2>5. \A t \in Slot : \A i \in DOMAIN gots'[t] :
          \E j \in DOMAIN gots[t] : gots'[t][i] = gots[t][j]
    <3>1. ASSUME NEW i \in DOMAIN gots'[s]
          PROVE  \E j \in DOMAIN gots[s] : gots'[s][i] = gots[s][j]
      <4>1. i + 1 \in DOMAIN gots[s] /\ gots'[s][i] = gots[s][i + 1]
        BY <2>2, <2>4
      <4> QED BY <4>1
    <3> QED BY <2>4, <3>1
  <2> QED BY <1>1, <1>2, <2>3, <2>5, QuietTold
<1>4. CASE ~PeerGot(s)
  <2>1. UNCHANGED confirmed /\ \A t \in Slot : gots'[t] = gots[t] \/ gots'[t] = <<>>
    BY <1>1, <1>4
    DEF ReadFails, Ending, Connect, PeerSends, PeerSendsEOB, PeerCloses, Cut, TypeOK
  <2>2. \A t \in Slot : \A i \in DOMAIN gots'[t] :
          \E j \in DOMAIN gots[t] : gots'[t][i] = gots[t][j]
    BY <2>1
  <2> QED BY <1>1, <1>2, <2>1, <2>2, QuietTold
<1> QED BY <1>3, <1>4

\* Nothing is on its way after a crash, and no trigger waited that is run after the session.
LEMMA CrashTold ==
  ASSUME TypeOK, Told, "crash" \notin Env \/ Later = {}, Crash
  PROVE  Told'
<1>1. Later = {}
  BY DEF Crash
<1>2. \A f \in confirmed : \E t \in disk.taken : t.data = Whole(f)
  BY <1>1 DEF Told, Given, Waiting
<1>3. disk' = disk /\ confirmed' = confirmed
      /\ \A s \in Slot : gots'[s] = <<>> /\ rx'[s].pending = <<>>
  BY DEF Crash, Closed
<1>4. \A f \in confirmed' : Given(f)'
  BY <1>2, <1>3 DEF Given
<1> QED BY <1>3, <1>4 DEF Told, ToSet

\* Under Orderly, a file that its sender has been told to delete is with a tosser, or a
\* session that is not over has its trigger waiting, through any cuts; through crashes too,
\* if no trigger is put off until after the session (handleFile, handleData and handleEOB
\* send M_GOT only after finishCurrentFile has run the trigger, or has put it off).
THEOREM ConfirmedFilesKept ==
  ASSUME Orderly, "crash" \notin Env \/ Later = {}
  PROVE  Spec => []ConfirmedKept
<1>1. Init => IInv /\ Told
  <2>1. Init => Told
    BY DEF Init, Told, Closed, ToSet
  <2> QED BY <2>1, InitIInv
<1>2. IInv /\ Told /\ [Next]_vars => IInv' /\ Told'
  <2>1. SUFFICES ASSUME IInv, Told, [Next]_vars  PROVE Told'
    BY NextKeepsIInv
  <2>2. ASSUME NEW s \in Slot, HandleFile(s) \/ HandleData(s) \/ HandleEOB(s)
        PROVE  Told'
    BY <2>1, <2>2, FileOutcome, DataOutcome, EobOutcome, HandledTold
  <2>3. ASSUME NEW s \in Slot, RunPending(s)
        PROVE  Told'
    BY <2>1, <2>3, RunPendingTold
  <2>4. ASSUME NEW s \in Slot,
               ReadFails(s) \/ Connect(s) \/ PeerSends(s) \/ PeerSendsEOB(s) \/ PeerGot(s)
                 \/ PeerCloses(s) \/ Cut(s)
        PROVE  Told'
    BY <2>1, <2>4, OthersTold
  <2>5. CASE Crash
    BY <2>1, <2>5, CrashTold DEF IInv
  <2>6. CASE UNCHANGED vars
    BY <2>1, <2>6 DEF vars, Told, Given, Waiting
  <2> QED BY <2>1, <2>2, <2>3, <2>4, <2>5, <2>6 DEF Next, Step
<1>3. Told => ConfirmedKept
  BY DEF Told, Given, ConfirmedKept
<1> QED BY <1>1, <1>2, <1>3, PTL DEF Spec

-----------------------------------------------------------------------------
(* The requests of a session: what was queued when the sender looked is     *)
(* sent before the mail.                                                    *)

Looks == [pc : {"start", "requested", "mail", "done"}, upTo : Nat, next : Nat, mail : Nat \ {0},
          queued : Nat]

RequestTypeOK ==
  /\ toMomail \in Seq(Requests!ToMomail)
  /\ toPeer \in Seq(Requests!ToPeer)
  /\ reading = << >> \/ \E r \in Requests!Request : reading = <<r>>
  /\ requestedFiles \in Seq(Requests!Request)
  /\ snd \in Looks

\* How far the queue counts: as far as the sender has seen it, once it has looked.
Seen == IF snd.pc = "start" THEN Len(requestedFiles) ELSE snd.upTo

RequestInv ==
  /\ RequestTypeOK
  /\ snd.upTo <= Len(requestedFiles) /\ snd.next >= 1
  /\ snd.pc = "start" => snd.next = 1
  /\ snd.pc \in {"mail", "done"} => snd.next > snd.upTo
  /\ snd.next <= snd.upTo + 1
  /\ \A f \in early : \E i \in 1 .. Seen : requestedFiles[i].file = f
  /\ \A i \in 1 .. snd.next - 1 : requestedFiles[i].file \in sentFileMap

LEMMA KnownMail ==
  /\ \A i \in 1 .. Len(Mail) : Mail[i] \in Requests!Known
  /\ Len(Mail) \in Nat
<1>1. Mail \in Seq(Requests!ToSet(Mail))
  BY RequestsAssumption DEF Requests!FileAssumption
<1>2. \A i \in 1 .. Len(Mail) : Mail[i] \in Requests!ToSet(Mail)
  BY <1>1
<1> QED
  BY <1>1, <1>2 DEF Requests!Known

\* What a frame makes the reader queue is a request, or nothing.
LEMMA QueuedType ==
  ASSUME NEW m \in Requests!ToMomail, m.type = "GET"
  PROVE  \/ Requests!Queued(m) = << >>
         \/ \E r \in Requests!Request : Requests!Queued(m) = <<r>>
<1>1. m.file \in Requests!Known /\ m.offset \in {0, 1}
  BY DEF Requests!ToMomail
<1>2. \A b \in BOOLEAN :
        [file |-> m.file, offset |-> m.offset, deleteAfter |-> b] \in Requests!Request
  BY <1>1 DEF Requests!Request
<1>3. [file |-> m.file, offset |-> m.offset,
       deleteAfter |-> m.file \in sentFileMap \ Public] \in Requests!Request
  <2>1. CASE m.file \in sentFileMap \ Public
    <3>1. (m.file \in sentFileMap \ Public) = TRUE
      BY <2>1, Zenon
    <3> QED
      BY <1>2, <3>1, Zenon
  <2>2. CASE ~(m.file \in sentFileMap \ Public)
    <3>1. (m.file \in sentFileMap \ Public) = FALSE
      BY <2>2
    <3> QED
      BY <1>2, <3>1, Zenon
  <2> QED
    BY <2>1, <2>2, Zenon
<1>4. CASE m.file \in files /\ m.file \in sentFileMap \cup Public
  <2>1. Requests!Queued(m) = <<[file |-> m.file, offset |-> m.offset,
                                deleteAfter |-> m.file \in sentFileMap \ Public]>>
    BY <1>4, Zenon DEF Requests!Queued
  <2> QED
    BY <1>3, <2>1, Zenon
<1>5. CASE ~(m.file \in files /\ m.file \in sentFileMap \cup Public)
  BY <1>5 DEF Requests!Queued
<1> QED
  BY <1>4, <1>5

\* The queue grows at its end, by what the reader holds.
LEMMA Appended ==
  ASSUME RequestTypeOK, reading # << >>
  PROVE  \E r \in Requests!Request :
           /\ reading = <<r>> /\ requestedFiles \o reading = Append(requestedFiles, r)
<1>1. PICK q \in Seq(Requests!Request) : q = requestedFiles
  BY DEF RequestTypeOK
<1>2. PICK r \in Requests!Request : reading = <<r>>
  BY DEF RequestTypeOK
<1>3. q \o <<r>> = Append(q, r)
  OBVIOUS
<1> QED
  BY <1>1, <1>2, <1>3

\* What a step does to the sender's record.
LEMMA LooksUpdated ==
  ASSUME NEW s \in Looks
  PROVE  /\ \A p \in {"start", "requested", "mail", "done"} : [s EXCEPT !.pc = p] \in Looks
         /\ \A p \in {"start", "requested", "mail", "done"}, n \in Nat :
              /\ [s EXCEPT !.pc = p, !.upTo = n] \in Looks
              /\ [s EXCEPT !.pc = p, !.queued = n] \in Looks
         /\ [s EXCEPT !.next = s.next + 1] \in Looks
         /\ [s EXCEPT !.mail = s.mail + 1] \in Looks
<1>1. s.next + 1 \in Nat /\ s.mail + 1 \in Nat \ {0}
  BY DEF Looks
<1> QED
  BY <1>1 DEF Looks

\* A frame that the sender writes keeps the types.
LEMMA SentType ==
  ASSUME RequestTypeOK,
         NEW f \in Requests!Known, NEW offset \in {0, 1}, NEW next \in Looks,
         Requests!SendFile(f, offset, next), UNCHANGED <<toMomail, reading, requestedFiles>>
  PROVE  RequestTypeOK'
<1>1. [type |-> "FILE", file |-> f, offset |-> offset] \in Requests!ToPeer
  BY DEF Requests!ToPeer
<1>2. PICK q \in Seq(Requests!ToPeer) : q = toPeer
  BY DEF RequestTypeOK
<1>3. toPeer' \in Seq(Requests!ToPeer)
  BY <1>1, <1>2 DEF Requests!SendFile
<1>4. snd' \in Looks
  BY DEF Requests!SendFile
<1> QED
  BY <1>3, <1>4 DEF RequestTypeOK

LEMMA RequestTypeNext ==
  ASSUME RequestInv, Requests!Next
  PROVE  RequestTypeOK'
<1>0. RequestTypeOK
  BY DEF RequestInv
<1>a. PICK s \in Looks : s = snd
  BY <1>0 DEF RequestTypeOK
<1>b. PICK rq \in Seq(Requests!Request) : rq = requestedFiles
  BY <1>0 DEF RequestTypeOK
<1>1. CASE Requests!HandleGet
  <2>1. PICK q \in Seq(Requests!ToMomail) : q = toMomail
    BY <1>0 DEF RequestTypeOK
  <2>2. q # << >> /\ Head(q).type = "GET"
    BY <1>1, <2>1 DEF Requests!HandleGet
  <2>3. Head(q) \in Requests!ToMomail /\ Tail(q) \in Seq(Requests!ToMomail)
    BY <2>2
  <2>4. reading' = Requests!Queued(Head(q))
    BY <1>1, <2>1 DEF Requests!HandleGet
  <2>5. reading' = << >> \/ \E r \in Requests!Request : reading' = <<r>>
    BY <2>2, <2>3, <2>4, QueuedType
  <2>6. toMomail' \in Seq(Requests!ToMomail)
    BY <1>1, <2>1, <2>3 DEF Requests!HandleGet
  <2> QED
    BY <1>0, <1>1, <2>5, <2>6 DEF Requests!HandleGet, RequestTypeOK
<1>2. CASE Requests!AppendRequest
  <2>1. PICK r \in Requests!Request : requestedFiles \o reading = Append(requestedFiles, r)
    BY <1>0, <1>2, Appended DEF Requests!AppendRequest
  <2>2. reading' = << >> /\ requestedFiles' = Append(rq, r)
    BY <1>b, <1>2, <2>1 DEF Requests!AppendRequest
  <2>3. requestedFiles' \in Seq(Requests!Request)
    BY <2>2
  <2> QED
    BY <1>0, <1>2, <2>2, <2>3 DEF Requests!AppendRequest, RequestTypeOK
<1>3. CASE Requests!HandleGot
  <2>1. Tail(toMomail) \in Seq(Requests!ToMomail)
    BY <1>0, <1>3 DEF Requests!HandleGot, RequestTypeOK
  <2> QED
    BY <1>0, <1>3, <2>1 DEF Requests!HandleGot, RequestTypeOK
<1>5. CASE Requests!StartRange
  <2>1. Len(rq) \in Nat
    OBVIOUS
  <2>2. snd' = s \/ snd' = [s EXCEPT !.pc = "requested", !.upTo = Len(rq)]
    BY <1>5, <1>a, <1>b DEF Requests!StartRange, Requests!Close
  <2>3. snd' \in Looks
    BY <2>1, <2>2, LooksUpdated
  <2> QED
    BY <1>0, <1>5, <2>3 DEF Requests!StartRange, Requests!Close, RequestTypeOK
<1>6. CASE Requests!SendRequested
  <2>1. snd.next \in 1 .. Len(rq)
    BY <1>6, <1>a, <1>b DEF Requests!SendRequested, RequestInv, Looks
  <2>2. PICK r \in Requests!Request : r = requestedFiles[snd.next]
    BY <1>b, <2>1
  <2>3. r.file \in Requests!Known /\ r.offset \in {0, 1}
    BY DEF Requests!Request
  <2>4. PICK n \in Looks : n = [snd EXCEPT !.next = snd.next + 1]
    BY <1>a, LooksUpdated
  <2>5. CASE r.file \in files
    <3>1. Requests!SendFile(r.file, r.offset, n)
      BY <1>6, <2>2, <2>4, <2>5 DEF Requests!SendRequested
    <3> QED
      BY <1>0, <1>6, <2>3, <3>1, SentType DEF Requests!SendRequested
  <2>6. CASE r.file \notin files
    <3>1. Requests!Close
      BY <1>6, <2>2, <2>6 DEF Requests!SendRequested
    <3> QED
      BY <1>0, <1>6, <3>1 DEF Requests!SendRequested, Requests!Close, RequestTypeOK
  <2> QED
    BY <2>5, <2>6
<1>7. CASE Requests!RequestsDone
  <2>1. snd' \in Looks
    BY <1>7, <1>a, LooksUpdated DEF Requests!RequestsDone
  <2> QED
    BY <1>0, <1>7, <2>1 DEF Requests!RequestsDone, RequestTypeOK
<1>8. CASE Requests!SendMail
  <2>1. snd.mail \in 1 .. Len(Mail)
    BY <1>8, <1>a, KnownMail DEF Requests!SendMail, Looks
  <2>2. Mail[snd.mail] \in Requests!Known
    BY <2>1, KnownMail
  <2>3. PICK n \in Looks : n = [snd EXCEPT !.mail = snd.mail + 1]
    BY <1>a, LooksUpdated
  <2>4. Requests!SendFile(Mail[snd.mail], 0, n)
    BY <1>8, <2>3 DEF Requests!SendMail
  <2> QED
    BY <1>0, <1>8, <2>2, <2>4, SentType DEF Requests!SendMail
<1>9. CASE Requests!SendEOB
  <2>1. Len(rq) \in Nat
    OBVIOUS
  <2>2. snd' = [s EXCEPT !.pc = "done", !.queued = Len(rq)]
    BY <1>9, <1>a, <1>b DEF Requests!SendEOB
  <2>3. snd' \in Looks
    BY <2>1, <2>2, LooksUpdated
  <2>4. [type |-> "EOB"] \in Requests!ToPeer
    BY DEF Requests!ToPeer
  <2>5. toPeer' \in Seq(Requests!ToPeer)
    BY <1>0, <1>9, <2>4 DEF Requests!SendEOB, RequestTypeOK
  <2> QED
    BY <1>0, <1>9, <2>3, <2>5 DEF Requests!SendEOB, RequestTypeOK
<1>10. CASE Requests!PeerReads
  <2>1. PICK q \in Seq(Requests!ToPeer) : q = toPeer /\ q # << >>
    BY <1>0, <1>10 DEF Requests!PeerReads, RequestTypeOK
  <2>2. PICK m \in Requests!ToPeer : m = Head(q)
    BY <2>1
  <2>3. toPeer' \in Seq(Requests!ToPeer)
    BY <1>10, <2>1 DEF Requests!PeerReads
  <2>4. PICK p \in Seq(Requests!ToMomail) : p = toMomail
    BY <1>0 DEF RequestTypeOK
  <2>5. CASE m.type = "EOB"
    <3>1. toMomail' = toMomail
      BY <1>10, <2>1, <2>2, <2>5 DEF Requests!PeerReads
    <3> QED
      BY <1>0, <1>10, <2>3, <3>1 DEF Requests!PeerReads, RequestTypeOK
  <2>6. CASE m.type # "EOB"
    <3>1. m.file \in Requests!Known
      BY <2>6 DEF Requests!ToPeer
    <3>2. PICK g \in Requests!ToMomail : g = [type |-> "GET", file |-> m.file, offset |-> 1]
      BY <3>1 DEF Requests!ToMomail
    <3>3. PICK h \in Requests!ToMomail : h = [type |-> "GOT", file |-> m.file]
      BY <3>1 DEF Requests!ToMomail
    <3>4. toMomail' = Append(p, g) \/ toMomail' = Append(p, h)
      BY <1>10, <2>1, <2>2, <2>4, <2>6, <3>2, <3>3 DEF Requests!PeerReads
    <3>5. Append(p, g) \in Seq(Requests!ToMomail)
      OBVIOUS
    <3>6. Append(p, h) \in Seq(Requests!ToMomail)
      OBVIOUS
    <3> QED
      BY <1>0, <1>10, <2>3, <3>4, <3>5, <3>6 DEF Requests!PeerReads, RequestTypeOK
  <2> QED
    BY <2>5, <2>6
<1>11. ASSUME NEW f \in Requests!Known, Requests!Ask(f)
       PROVE  RequestTypeOK'
  <2>1. [type |-> "GET", file |-> f, offset |-> 0] \in Requests!ToMomail
    BY DEF Requests!ToMomail
  <2>2. toMomail' \in Seq(Requests!ToMomail)
    BY <1>0, <1>11, <2>1 DEF Requests!Ask, RequestTypeOK
  <2> QED
    BY <1>0, <1>11, <2>2 DEF Requests!Ask, RequestTypeOK
<1>12. ASSUME NEW f \in Requests!Known, Requests!RemovePublic(f)
       PROVE  RequestTypeOK'
  BY <1>0, <1>12 DEF Requests!RemovePublic, RequestTypeOK
<1> QED
  BY <1>1, <1>2, <1>3, <1>5, <1>6, <1>7, <1>8, <1>9, <1>10, <1>11, <1>12 DEF Requests!Next

\* Each action keeps RequestInv: the queue only grows, the sender passes over nothing.
LEMMA RequestNext ==
  ASSUME RequestInv, Requests!Next
  PROVE  RequestInv'
<1>0. RequestTypeOK /\ RequestTypeOK'
  BY RequestTypeNext DEF RequestInv
<1>a. PICK s \in Looks : s = snd
  BY <1>0 DEF RequestTypeOK
<1>b. PICK rq \in Seq(Requests!Request) : rq = requestedFiles
  BY <1>0 DEF RequestTypeOK
<1>c. s.upTo \in Nat /\ s.next \in Nat /\ Len(rq) \in Nat /\ s.upTo <= Len(rq) /\ s.next >= 1
      /\ s.next <= s.upTo + 1
  BY <1>a, <1>b DEF Looks, RequestInv
<1>d. ASSUME UNCHANGED <<requestedFiles, snd, early>>, sentFileMap \subseteq sentFileMap'
      PROVE  RequestInv'
  BY <1>0, <1>d DEF RequestInv, Seen
<1>2. CASE Requests!AppendRequest
  <2>1. PICK r \in Requests!Request :
          reading = <<r>> /\ requestedFiles \o reading = Append(requestedFiles, r)
    BY <1>0, <1>2, Appended DEF Requests!AppendRequest
  <2>2. requestedFiles' = Append(rq, r) /\ UNCHANGED <<snd, sentFileMap>>
    BY <1>2, <1>b, <2>1 DEF Requests!AppendRequest
  <2>3. Len(Append(rq, r)) = Len(rq) + 1 /\ Append(rq, r)[Len(rq) + 1] = r
        /\ \A i \in 1 .. Len(rq) : Append(rq, r)[i] = rq[i]
    OBVIOUS
  <2>4. \A f \in early' : \E i \in 1 .. Seen' : requestedFiles'[i].file = f
    <3> SUFFICES ASSUME NEW f \in early' PROVE \E i \in 1 .. Seen' : requestedFiles'[i].file = f
      OBVIOUS
    <3>1. CASE s.pc = "start"
      <4>1. Seen = Len(rq) /\ Seen' = Len(rq) + 1
        BY <1>a, <1>b, <2>2, <2>3, <3>1 DEF Seen
      <4>2. f \in early \/ f = r.file
        BY <1>a, <1>2, <2>1, <3>1 DEF Requests!AppendRequest
      <4>3. CASE f \in early
        <5>1. PICK i \in 1 .. Len(rq) : rq[i].file = f
          BY <1>b, <4>1, <4>3 DEF RequestInv
        <5>2. i \in 1 .. Len(rq) + 1 /\ Append(rq, r)[i].file = f
          BY <1>c, <2>3, <5>1
        <5> QED
          BY <2>2, <4>1, <5>2
      <4>4. CASE f = r.file
        <5>1. Len(rq) + 1 \in 1 .. Len(rq) + 1
          BY <1>c
        <5> QED
          BY <2>2, <2>3, <4>1, <4>4, <5>1
      <4> QED
        BY <4>2, <4>3, <4>4
    <3>2. CASE s.pc # "start"
      <4>1. Seen = s.upTo /\ Seen' = s.upTo /\ f \in early
        BY <1>a, <1>2, <2>2, <3>2 DEF Seen, Requests!AppendRequest
      <4>2. PICK i \in 1 .. s.upTo : rq[i].file = f
        BY <1>b, <4>1 DEF RequestInv
      <4>3. Append(rq, r)[i].file = f
        BY <1>c, <2>3, <4>2
      <4> QED
        BY <2>2, <4>1, <4>2, <4>3
    <3> QED
      BY <3>1, <3>2
  <2>5. \A i \in 1 .. snd'.next - 1 : requestedFiles'[i].file \in sentFileMap'
    <3> SUFFICES ASSUME NEW i \in 1 .. s.next - 1 PROVE Append(rq, r)[i].file \in sentFileMap
      BY <1>a, <2>2
    <3>1. i \in 1 .. Len(rq)
      BY <1>c
    <3> QED
      BY <1>a, <1>b, <2>3, <3>1 DEF RequestInv
  <2>6. snd'.upTo <= Len(requestedFiles')
    BY <1>a, <1>c, <2>2, <2>3
  <2> QED
    BY <1>0, <2>2, <2>4, <2>5, <2>6 DEF RequestInv
<1>3. CASE Requests!HandleGet \/ Requests!HandleGot
  BY <1>3, <1>d DEF Requests!HandleGet, Requests!HandleGot
<1>4. CASE Requests!StartRange
  <2>1. CASE UNCHANGED <<snd, sentFileMap>>
    BY <1>4, <2>1, <1>d DEF Requests!StartRange
  <2>2. CASE snd' = [snd EXCEPT !.pc = "requested", !.upTo = Len(requestedFiles)]
             /\ UNCHANGED sentFileMap
    <3>1. /\ snd'.pc = "requested" /\ snd'.upTo = Len(rq)
          /\ snd'.next = s.next
      BY <1>a, <1>b, <2>2 DEF Looks
    <3>2. s.pc = "start" /\ s.next = 1 /\ UNCHANGED <<requestedFiles, early>>
      BY <1>a, <1>4 DEF Requests!StartRange, RequestInv
    <3>3. Seen = Len(rq) /\ Seen' = Len(rq)
      BY <1>a, <1>b, <3>1, <3>2 DEF Seen
    <3>4. \A f \in early : \E i \in 1 .. Len(rq) : requestedFiles[i].file = f
      BY <3>3 DEF RequestInv
    <3>5. \A f \in early' : \E i \in 1 .. Seen' : requestedFiles'[i].file = f
      BY <3>2, <3>3, <3>4
    <3>6. \A i \in 1 .. snd'.next - 1 : requestedFiles'[i].file \in sentFileMap'
      BY <3>1, <3>2
    <3>7. /\ snd'.upTo <= Len(requestedFiles') /\ snd'.next >= 1
          /\ snd'.next <= snd'.upTo + 1
      BY <1>b, <1>c, <3>1, <3>2
    <3> QED
      BY <1>0, <3>1, <3>5, <3>6, <3>7 DEF RequestInv
  <2> QED
    BY <1>4, <2>1, <2>2 DEF Requests!StartRange, Requests!Close
<1>5. CASE Requests!SendRequested
  <2>0. s.pc = "requested" /\ s.next <= s.upTo /\ UNCHANGED <<requestedFiles, early>>
    BY <1>5, <1>a DEF Requests!SendRequested
  <2>1. CASE Requests!Close
    BY <2>0, <2>1, <1>d DEF Requests!Close
  <2>2. CASE Requests!SendFile(requestedFiles[snd.next].file, requestedFiles[snd.next].offset,
                               [snd EXCEPT !.next = snd.next + 1])
    <3>1. /\ snd'.pc = s.pc /\ snd'.upTo = s.upTo
          /\ snd'.next = s.next + 1
      BY <1>a, <2>2 DEF Requests!SendFile, Looks
    <3>2. sentFileMap' = sentFileMap \cup {rq[s.next].file}
      BY <1>a, <1>b, <2>2 DEF Requests!SendFile
    <3>3. Seen = s.upTo /\ Seen' = s.upTo
      BY <1>a, <2>0, <3>1 DEF Seen
    <3>4. \A f \in early' : \E i \in 1 .. Seen' : requestedFiles'[i].file = f
      BY <2>0, <3>3 DEF RequestInv
    <3>5. \A i \in 1 .. snd'.next - 1 : requestedFiles'[i].file \in sentFileMap'
      <4> SUFFICES ASSUME NEW i \in 1 .. s.next PROVE rq[i].file \in sentFileMap'
        BY <1>b, <1>c, <2>0, <3>1
      <4>1. CASE i = s.next
        BY <3>2, <4>1
      <4>2. CASE i # s.next
        <5>1. i \in 1 .. s.next - 1
          BY <1>c, <4>2
        <5> QED
          BY <1>a, <1>b, <3>2, <5>1 DEF RequestInv
      <4> QED
        BY <4>1, <4>2
    <3>6. /\ snd'.upTo <= Len(requestedFiles') /\ snd'.next >= 1
          /\ snd'.next <= snd'.upTo + 1
      BY <1>b, <1>c, <2>0, <3>1
    <3> QED
      BY <1>0, <2>0, <3>1, <3>4, <3>5, <3>6 DEF RequestInv
  <2> QED
    BY <1>5, <2>1, <2>2 DEF Requests!SendRequested
<1>6. ASSUME NEW p \in {"mail", "done"}, s.next > s.upTo, s.pc # "start",
             snd'.pc = p, snd'.upTo = s.upTo, snd'.next = s.next,
             UNCHANGED <<requestedFiles, early, sentFileMap>>
      PROVE  RequestInv'
  <2>1. Seen = s.upTo /\ Seen' = s.upTo
    BY <1>a, <1>6 DEF Seen
  <2>2. \A f \in early' : \E i \in 1 .. Seen' : requestedFiles'[i].file = f
    BY <1>6, <2>1 DEF RequestInv
  <2>3. \A i \in 1 .. snd'.next - 1 : requestedFiles'[i].file \in sentFileMap'
    BY <1>a, <1>6 DEF RequestInv
  <2>4. snd'.upTo <= Len(requestedFiles')
    BY <1>b, <1>c, <1>6
  <2>5. snd'.next >= 1 /\ snd'.next <= snd'.upTo + 1 /\ snd'.next > snd'.upTo
    BY <1>c, <1>6
  <2>6. snd'.pc # "start"
    BY <1>6
  <2> QED
    BY <1>0, <2>2, <2>3, <2>4, <2>5, <2>6 DEF RequestInv
<1>7. CASE Requests!RequestsDone
  <2>1. s.pc = "requested" /\ s.next > s.upTo /\ UNCHANGED <<requestedFiles, early, sentFileMap>>
    BY <1>7, <1>a DEF Requests!RequestsDone
  <2>2. snd'.pc = "mail" /\ snd'.upTo = s.upTo /\ snd'.next = s.next
    BY <1>7, <1>a DEF Requests!RequestsDone, Looks
  <2> QED
    BY <1>6, <2>1, <2>2
<1>8. CASE Requests!SendMail
  <2>1. s.pc = "mail" /\ UNCHANGED <<requestedFiles, early>>
    BY <1>8, <1>a DEF Requests!SendMail
  <2>2. snd' = [s EXCEPT !.mail = s.mail + 1]
    BY <1>8, <1>a DEF Requests!SendMail, Requests!SendFile
  <2>3. snd'.pc = "mail" /\ snd'.upTo = s.upTo /\ snd'.next = s.next
    BY <2>1, <2>2 DEF Looks
  <2>4. sentFileMap \subseteq sentFileMap'
    BY <1>8 DEF Requests!SendMail, Requests!SendFile
  <2>5. Seen' = Seen
    BY <1>a, <2>1, <2>3 DEF Seen
  <2>6. \A f \in early' : \E i \in 1 .. Seen' : requestedFiles'[i].file = f
    BY <2>1, <2>5 DEF RequestInv
  <2>7. \A i \in 1 .. snd'.next - 1 : requestedFiles'[i].file \in sentFileMap'
    BY <1>a, <2>1, <2>3, <2>4 DEF RequestInv
  <2>8. s.next > s.upTo
    BY <1>a, <2>1 DEF RequestInv
  <2>9. snd'.upTo <= Len(requestedFiles') /\ snd'.next >= 1 /\ snd'.next <= snd'.upTo + 1
    BY <1>b, <1>c, <2>1, <2>3
  <2> QED
    BY <1>0, <2>3, <2>6, <2>7, <2>8, <2>9 DEF RequestInv
<1>9. CASE Requests!SendEOB
  <2>1. s.pc = "mail" /\ UNCHANGED <<requestedFiles, early, sentFileMap>>
    BY <1>9, <1>a DEF Requests!SendEOB
  <2>2. snd'.pc = "done" /\ snd'.upTo = s.upTo /\ snd'.next = s.next
    BY <1>9, <1>a DEF Requests!SendEOB, Looks
  <2>3. s.next > s.upTo
    BY <1>a, <2>1 DEF RequestInv
  <2> QED
    BY <1>6, <2>1, <2>2, <2>3
<1>10. CASE Requests!PeerReads
  BY <1>10, <1>d DEF Requests!PeerReads
<1>11. ASSUME NEW f \in Requests!Known, Requests!Ask(f) \/ Requests!RemovePublic(f)
       PROVE  RequestInv'
  BY <1>11, <1>d DEF Requests!Ask, Requests!RemovePublic
<1> QED
  BY <1>2, <1>3, <1>4, <1>5, <1>7, <1>8, <1>9, <1>10, <1>11 DEF Requests!Next

LEMMA RequestStart ==
  ASSUME Requests!Init
  PROVE  RequestInv
<1>1. snd \in Looks /\ snd.pc = "start" /\ snd.upTo = 0 /\ snd.next = 1
  BY DEF Requests!Init, Looks
<1>2. requestedFiles = << >> /\ toMomail = << >> /\ toPeer = << >> /\ reading = << >>
      /\ early = {}
  BY DEF Requests!Init
<1>3. Len(requestedFiles) = 0
  BY <1>2
<1>4. RequestTypeOK
  BY <1>1, <1>2 DEF RequestTypeOK
<1> QED
  BY <1>1, <1>2, <1>3, <1>4 DEF RequestInv

\* What handleGet queued before sendFiles looked is sent: of a queue that one goroutine appends
\* to while the other goes through it, the loop passes over nothing that it has seen.
THEOREM QueuedAnswered == MCSpec => []EarlyAnswered
<1> DEFINE Inv == part = "requests" => RequestInv
<1>1. MCInit => Inv
  BY RequestStart DEF MCInit
<1>2. Inv /\ [MCNext]_allVars => Inv'
  <2> SUFFICES ASSUME Inv, [MCNext]_allVars PROVE Inv'
    OBVIOUS
  <2>1. CASE part = "requests" /\ Requests!Next /\ UNCHANGED <<vars, part>>
    BY <2>1, RequestNext
  <2>2. CASE UNCHANGED <<requestVars, part>>
    BY <2>2 DEF requestVars, RequestInv, RequestTypeOK, Seen
  <2>3. CASE UNCHANGED allVars
    BY <2>2, <2>3 DEF allVars, requestVars
  <2> QED
    BY <2>1, <2>2, <2>3 DEF MCNext, RecoveryStep
<1>3. Inv => EarlyAnswered
  <2> SUFFICES ASSUME RequestInv, snd.pc \in {"mail", "done"}, NEW f \in early
               PROVE  f \in sentFileMap
    BY DEF EarlyAnswered, Requests!EarlyAnswered
  <2>1. snd.next > snd.upTo /\ snd.upTo \in Nat /\ snd.next \in Nat
    BY DEF RequestInv, RequestTypeOK, Looks
  <2>2. PICK i \in 1 .. snd.upTo : requestedFiles[i].file = f
    BY DEF RequestInv, Seen
  <2>3. i \in 1 .. snd.next - 1
    BY <2>1
  <2> QED
    BY <2>2, <2>3 DEF RequestInv
<1> QED
  BY <1>1, <1>2, <1>3, PTL DEF MCSpec
=============================================================================
