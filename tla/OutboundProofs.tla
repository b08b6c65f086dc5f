---------------------------- MODULE OutboundProofs ----------------------------
(***************************************************************************)
(* Proofs about the outbound directory: the names of its files, for any    *)
(* addresses and whatever other programs put there, and the flow files of  *)
(* an address that momail calls, for any mail and any flavours.            *)
(*                                                                         *)
(* PollsFound needs ZonesFit: the suffix of a zone from 4096 up has four   *)
(* digits, and the scan reads directories with three.  CallsKeepMail is    *)
(* about calls only: an incoming session holds no .bsy file, and a tosser  *)
(* may append to the flow file that it is about to remove.  A call whose   *)
(* scanner fails loses the lines that it did not reach.                    *)
(***************************************************************************)
EXTENDS MCOutbound, Integers, FiniteSetTheorems, SequenceTheorems, TLAPS

-----------------------------------------------------------------------------
(* Names: what getBsoBase writes and scanOutbound reads.                    *)

LEMMA HexDigits ==
  ASSUME NEW n \in Nat, n < 65536
  PROVE  /\ n \div 4096 \in 0 .. 15 /\ (n \div 256) % 16 \in 0 .. 15
         /\ (n \div 16) % 16 \in 0 .. 15 /\ n % 16 \in 0 .. 15
         /\ n = 4096 * (n \div 4096) + 256 * ((n \div 256) % 16)
                + 16 * ((n \div 16) % 16) + (n % 16)
         /\ n < 4096 => /\ n \div 256 \in 0 .. 15
                        /\ n = 256 * (n \div 256) + 16 * ((n \div 16) % 16) + (n % 16)
  OBVIOUS

Digit == 0 .. 15

LEMMA NotEmpty ==
  ASSUME NEW s, Len(s) # 0
  PROVE  s # << >>
  OBVIOUS

Four(n) == <<n \div 4096, (n \div 256) % 16, (n \div 16) % 16, n % 16>>
Three(n) == <<n \div 256, (n \div 16) % 16, n % 16>>

LEMMA FourDigits ==
  ASSUME NEW n \in Names!Uint16
  PROVE  /\ Four(n) \in Seq(Digit) /\ Len(Four(n)) = 4 /\ Four(n) # << >>
         /\ Names!ParseHex(Four(n)) = n
<1>1. n \in Nat /\ n < 65536
  BY DEF Names!Uint16
<1>2. PICK a \in Digit : a = n \div 4096
  BY <1>1, HexDigits DEF Digit
<1>3. PICK b \in Digit : b = (n \div 256) % 16
  BY <1>1, HexDigits DEF Digit
<1>4. PICK c \in Digit : c = (n \div 16) % 16
  BY <1>1, HexDigits DEF Digit
<1>5. PICK d \in Digit : d = n % 16
  BY <1>1, HexDigits DEF Digit
<1>6. n = 4096 * a + 256 * b + 16 * c + d
  BY <1>1, <1>2, <1>3, <1>4, <1>5, HexDigits
<1>7. Four(n) = <<a, b, c, d>>
  BY <1>2, <1>3, <1>4, <1>5 DEF Four
<1>8. Four(n) \in Seq(Digit) /\ Len(Four(n)) = 4
  BY <1>2, <1>3, <1>4, <1>5, <1>7
<1>9. Four(n)[1] = a /\ Four(n)[2] = b /\ Four(n)[3] = c /\ Four(n)[4] = d
  BY <1>7
<1>10. Len(Four(n)) # 0
  BY <1>8
<1>11. Four(n) # << >>
  BY <1>10, NotEmpty
<1> QED
  BY <1>6, <1>8, <1>9, <1>11 DEF Names!ParseHex

LEMMA ThreeDigits ==
  ASSUME NEW n \in Names!Uint16, n < 4096
  PROVE  /\ Three(n) \in Seq(Digit) /\ Len(Three(n)) = 3 /\ Three(n) # << >>
         /\ Names!ParseHex(Three(n)) = n
<1>1. n \in Nat /\ n < 65536
  BY DEF Names!Uint16
<1>2. PICK a \in Digit : a = n \div 256
  BY <1>1, HexDigits DEF Digit
<1>3. PICK b \in Digit : b = (n \div 16) % 16
  BY <1>1, HexDigits DEF Digit
<1>4. PICK c \in Digit : c = n % 16
  BY <1>1, HexDigits DEF Digit
<1>5. n = 256 * a + 16 * b + c
  BY <1>1, <1>2, <1>3, <1>4, HexDigits
<1>6. Three(n) = <<a, b, c>>
  BY <1>2, <1>3, <1>4 DEF Three
<1>7. Three(n) \in Seq(Digit) /\ Len(Three(n)) = 3
  BY <1>2, <1>3, <1>4, <1>6
<1>8. Three(n)[1] = a /\ Three(n)[2] = b /\ Three(n)[3] = c
  BY <1>6
<1>9. Len(Three(n)) # 0
  BY <1>7
<1>10. Three(n) # << >>
  BY <1>9, NotEmpty
<1> QED
  BY <1>5, <1>7, <1>8, <1>10 DEF Names!ParseHex

\* Four digits are read as the number they were printed from.
LEMMA HexFour ==
  ASSUME NEW n \in Names!Uint16
  PROVE  /\ Names!Hex(n, 4) \in Seq(Digit) /\ Len(Names!Hex(n, 4)) = 4
         /\ Names!ParseHex(Names!Hex(n, 4)) = n
<1>1. Names!Hex(n, 4) = Four(n)
  BY DEF Names!Hex, Four
<1> QED
  BY <1>1, FourDigits

\* So are the digits of a zone, three or four of them.
LEMMA HexThree ==
  ASSUME NEW n \in Names!Uint16
  PROVE  /\ Names!Hex(n, 3) \in Seq(Digit) /\ Names!Hex(n, 3) # << >>
         /\ n < 4096 => Len(Names!Hex(n, 3)) = 3
         /\ Names!ParseHex(Names!Hex(n, 3)) = n
<1>1. CASE n < 4096
  <2>1. Names!Hex(n, 3) = Three(n)
    BY <1>1 DEF Names!Hex, Three
  <2> QED
    BY <1>1, <2>1, ThreeDigits
<1>2. CASE ~(n < 4096)
  <2>1. Names!Hex(n, 3) = Four(n)
    BY <1>2 DEF Names!Hex, Four
  <2> QED
    BY <1>2, <2>1, FourDigits
<1> QED
  BY <1>1, <1>2

\* Eight digits are cut in two where they were put together.
LEMMA Halves ==
  ASSUME NEW p \in Seq(Digit), NEW q \in Seq(Digit), Len(p) = 4, Len(q) = 4
  PROVE  /\ p \o q \in Seq(Digit) /\ Len(p \o q) = 8
         /\ SubSeq(p \o q, 1, 4) = p /\ SubSeq(p \o q, 5, 8) = q
<1>1. p \o q \in Seq(Digit) /\ Len(p \o q) = 8
  <2>1. p \o q \in Seq(Digit) /\ Len(p \o q) = Len(p) + Len(q)
    BY ConcatProperties, Zenon
  <2> QED
    BY <2>1
<1>2. /\ SubSeq(p \o q, 1, 4) \in Seq(Digit) /\ Len(SubSeq(p \o q, 1, 4)) = 4
      /\ SubSeq(p \o q, 5, 8) \in Seq(Digit) /\ Len(SubSeq(p \o q, 5, 8)) = 4
  BY <1>1
<1>3. \A i \in 1 .. 4 : SubSeq(p \o q, 1, 4)[i] = p[i] /\ SubSeq(p \o q, 5, 8)[i] = q[i]
  BY <1>1
<1> QED
  BY <1>1, <1>2, <1>3, SeqEqual

\* The parts of an address that its names consist of.
LEMMA AddressParts ==
  ASSUME NEW a \in Addr
  PROVE  /\ a.zone \in Names!Uint16 /\ a.net \in Names!Uint16
         /\ a.node \in Names!Uint16 /\ a.point \in Names!Uint16
         /\ a = [zone |-> a.zone, net |-> a.net, node |-> a.node, point |-> a.point]
<1>1. a \in [zone : Names!Uint16, net : Names!Uint16, node : Names!Uint16, point : Names!Uint16]
  BY NamesAssumption DEF Names!AddrAssumption
<1> QED
  BY <1>1

LEMMA SameAddress ==
  ASSUME NEW a \in Addr, NEW b \in Addr,
         a.zone = b.zone, a.net = b.net, a.node = b.node, a.point = b.point
  PROVE  a = b
  BY AddressParts

\* The digits of the system a name is for.
System(a) == Names!Hex(a.net, 4) \o Names!Hex(a.node, 4)
PointName(a) == <<0, 0, 0, 0>> \o Names!Hex(a.point, 4)

LEMMA SystemRead ==
  ASSUME NEW a \in Addr
  PROVE  /\ System(a) \in Seq(Digit) /\ Len(System(a)) = 8
         /\ Names!ParseHex(SubSeq(System(a), 1, 4)) = a.net
         /\ Names!ParseHex(SubSeq(System(a), 5, 8)) = a.node
<1>1. PICK p \in Seq(Digit) : p = Names!Hex(a.net, 4) /\ Len(p) = 4 /\ Names!ParseHex(p) = a.net
  BY AddressParts, HexFour
<1>2. PICK q \in Seq(Digit) : q = Names!Hex(a.node, 4) /\ Len(q) = 4 /\ Names!ParseHex(q) = a.node
  BY AddressParts, HexFour
<1>3. System(a) = p \o q
  BY <1>1, <1>2 DEF System
<1>4. /\ p \o q \in Seq(Digit) /\ Len(p \o q) = 8
      /\ SubSeq(p \o q, 1, 4) = p /\ SubSeq(p \o q, 5, 8) = q
  BY <1>1, <1>2, Halves
<1> QED
  BY <1>1, <1>2, <1>3, <1>4

LEMMA PointRead ==
  ASSUME NEW a \in Addr
  PROVE  /\ PointName(a) \in Seq(Digit) /\ Len(PointName(a)) = 8
         /\ Names!ParseHex(SubSeq(PointName(a), 5, 8)) = a.point
<1>1. PICK p \in Seq(Digit) : p = <<0, 0, 0, 0>> /\ Len(p) = 4
  <2>1. 0 \in Digit
    BY DEF Digit
  <2>2. <<0, 0, 0, 0>> \in Seq(Digit) /\ Len(<<0, 0, 0, 0>>) = 4
    BY <2>1
  <2> QED
    BY <2>2
<1>2. PICK q \in Seq(Digit) :
        q = Names!Hex(a.point, 4) /\ Len(q) = 4 /\ Names!ParseHex(q) = a.point
  BY AddressParts, HexFour
<1>3. PointName(a) = p \o q
  BY <1>1, <1>2 DEF PointName
<1>4. /\ p \o q \in Seq(Digit) /\ Len(p \o q) = 8 /\ SubSeq(p \o q, 5, 8) = q
  BY <1>1, <1>2, Halves
<1> QED
  BY <1>2, <1>3, <1>4

LEMMA NameParts ==
  ASSUME NEW a \in Addr, NEW ext
  PROVE  /\ Names!BsoFile(a, ext).zone =
              IF a.zone = DefaultZone THEN << >> ELSE Names!Hex(a.zone, 3)
         /\ Names!BsoFile(a, ext).pnt = IF a.point # 0 THEN System(a) ELSE << >>
         /\ Names!BsoFile(a, ext).digits = IF a.point # 0 THEN PointName(a) ELSE System(a)
         /\ Names!BsoFile(a, ext).ext = ext
  BY DEF Names!BsoFile, System, PointName

\* A name is for one address only, whatever its zone.
LEMMA OneName ==
  ASSUME NEW a \in Addr, NEW b \in Addr, NEW x, NEW y,
         Names!BsoFile(a, x) = Names!BsoFile(b, y)
  PROVE  a = b
<1>1. PICK pa : pa = Names!BsoFile(a, x).pnt /\ pa = Names!BsoFile(b, y).pnt
  OBVIOUS
<1>2. PICK da : da = Names!BsoFile(a, x).digits /\ da = Names!BsoFile(b, y).digits
  OBVIOUS
<1>3. PICK za : za = Names!BsoFile(a, x).zone /\ za = Names!BsoFile(b, y).zone
  OBVIOUS
<1>4. System(a) # << >> /\ System(b) # << >>
  <2>1. Len(System(a)) # 0 /\ Len(System(b)) # 0
    BY SystemRead
  <2> QED
    BY <2>1, NotEmpty
<1>5. a.point = b.point /\ System(a) = System(b)
  <2>1. CASE a.point # 0
    <3>1. pa = System(a)
      BY <1>1, <2>1, NameParts
    <3>2. b.point # 0 /\ pa = System(b)
      BY <1>1, <1>4, <3>1, NameParts
    <3>3. PointName(a) = PointName(b)
      BY <1>2, <2>1, <3>2, NameParts
    <3>4. a.point = b.point
      BY <3>3, PointRead
    <3> QED
      BY <3>1, <3>2, <3>4
  <2>2. CASE a.point = 0
    <3>1. pa = << >>
      BY <1>1, <2>2, NameParts
    <3>2. b.point = 0
      BY <1>1, <1>4, <3>1, NameParts
    <3> QED
      BY <1>2, <2>2, <3>2, NameParts
  <2> QED
    BY <2>1, <2>2
<1>6. a.net = b.net /\ a.node = b.node
  BY <1>5, SystemRead
<1>7. a.zone = b.zone
  <2>1. Names!Hex(a.zone, 3) # << >> /\ Names!Hex(b.zone, 3) # << >>
    BY AddressParts, HexThree
  <2>2. CASE a.zone = DefaultZone
    BY <1>3, <2>1, <2>2, NameParts
  <2>3. CASE a.zone # DefaultZone
    <3>1. Names!Hex(a.zone, 3) = Names!Hex(b.zone, 3)
      BY <1>3, <2>1, <2>3, NameParts
    <3> QED
      BY <3>1, AddressParts, HexThree
  <2> QED
    BY <2>2, <2>3
<1> QED
  BY <1>5, <1>6, <1>7, SameAddress

\* Names' cardinalities are those of the library's theorems.
LEMMA SameCardinality ==
  ASSUME NEW S
  PROVE  Names!Cardinality(S) = Cardinality(S)
  BY DEF Names!Cardinality, Cardinality

\* No file of the directory is sent to two addresses, neither of a node and its points nor of
\* two zones: FindFlowFiles and processNetmail look for names, and a name is for one address.
THEOREM OneReceiver == MCSpec => []OneAddressee
<1>1. OneAddressee
  <2> SUFFICES ASSUME NEW f \in tree
               PROVE  Cardinality({a \in Addr : f \in Names!SentTo(a)}) <= 1
    BY SameCardinality DEF OneAddressee, Names!OneAddressee
  <2>1. PICK S : S = {a \in Addr : f \in Names!SentTo(a)}
    OBVIOUS
  <2>2. ASSUME NEW a \in S, NEW b \in S
        PROVE  a = b
    <3>1. a \in Addr /\ b \in Addr
      BY <2>1
    <3>2. PICK x : f = Names!BsoFile(a, x)
      BY <2>1 DEF Names!SentTo
    <3>3. PICK y : f = Names!BsoFile(b, y)
      BY <2>1 DEF Names!SentTo
    <3> QED
      BY <3>1, <3>2, <3>3, OneName
  <2>3. CASE S = {}
    BY <2>1, <2>3, FS_EmptySet
  <2>4. ASSUME NEW a \in S
        PROVE  Cardinality(S) = 1
    <3>1. S = {a}
      BY <2>2, <2>4
    <3> QED
      BY <3>1, FS_Singleton
  <2> QED
    BY <2>1, <2>3, <2>4
<1> QED
  BY <1>1, PTL

-----------------------------------------------------------------------------
(* Polls: what momail queues, its own scan reads.                           *)

PollExts == {".clo", ".dlo", ".hlo", ".flo"}

LEMMA PollExtKnown ==
  ASSUME NEW flavor
  PROVE  Names!PollExt(flavor) \in PollExts
  BY DEF Names!PollExt, PollExts

\* The scan reads directories whose zone has three digits.
ZonesFit == \A a \in Addr : a.zone < 4096

LEMMA ReadBack ==
  ASSUME ZonesFit, NEW a \in Addr, NEW ext \in PollExts
  PROVE  /\ Names!IsScanned(Names!BsoFile(a, ext))
         /\ Names!Scanned(Names!BsoFile(a, ext)) = a
<1>1. PICK f : f = Names!BsoFile(a, ext)
  OBVIOUS
<1>2. /\ f.zone = IF a.zone = DefaultZone THEN << >> ELSE Names!Hex(a.zone, 3)
      /\ f.pnt = IF a.point # 0 THEN System(a) ELSE << >>
      /\ f.digits = IF a.point # 0 THEN PointName(a) ELSE System(a)
      /\ f.ext = ext
  BY <1>1, NameParts
<1>3. System(a) # << >>
  <2>1. Len(System(a)) # 0
    BY SystemRead
  <2> QED
    BY <2>1, NotEmpty
<1>4. /\ Len(Names!Hex(a.zone, 3)) = 3 /\ Names!Hex(a.zone, 3) # << >>
      /\ Names!ParseHex(Names!Hex(a.zone, 3)) = a.zone
  <2>1. /\ Len(Names!Hex(a.zone, 3)) = 3
        /\ Names!ParseHex(Names!Hex(a.zone, 3)) = a.zone
    BY AddressParts, HexThree DEF ZonesFit
  <2>2. Len(Names!Hex(a.zone, 3)) # 0
    BY <2>1
  <2> QED
    BY <2>1, <2>2, NotEmpty
<1>5. Len(<< >>) = 0
  OBVIOUS
<1>6. Len(f.digits) = 8
  BY <1>2, SystemRead, PointRead
<1>7. Len(f.zone) \in {0, 3} /\ Len(f.pnt) \in {0, 8}
  BY <1>2, <1>4, <1>5, SystemRead
<1>8. Names!IsScanned(f)
  BY <1>2, <1>6, <1>7 DEF Names!IsScanned, Names!TwelveLong, Names!ValidFlowExt, PollExts
<1>9. Names!Scanned(f) = a
  <2>1. PICK s : s = IF f.pnt = << >> THEN f.digits ELSE f.pnt
    OBVIOUS
  <2>2. s = System(a)
    BY <1>2, <1>3, <2>1
  <2>3. /\ Names!ParseHex(SubSeq(s, 1, 4)) = a.net
        /\ Names!ParseHex(SubSeq(s, 5, 8)) = a.node
    BY <2>2, SystemRead
  <2>4. (IF f.zone = << >> THEN DefaultZone ELSE Names!ParseHex(f.zone)) = a.zone
    BY <1>2, <1>4
  <2>5. (IF f.pnt = << >> THEN 0 ELSE Names!ParseHex(SubSeq(f.digits, 5, 8))) = a.point
    <3>1. CASE a.point = 0
      BY <1>2, <3>1
    <3>2. CASE a.point # 0
      BY <1>2, <1>3, <3>2, PointRead
    <3> QED
      BY <3>1, <3>2
  <2>6. Names!Scanned(f) = [zone |-> a.zone, net |-> a.net, node |-> a.node, point |-> a.point]
    BY <2>1, <2>3, <2>4, <2>5 DEF Names!Scanned
  <2> QED
    BY <2>6, AddressParts
<1> QED
  BY <1>1, <1>8, <1>9

\* Of files that the scan reads, one is as urgent as any other.
LEMMA MostUrgent ==
  ASSUME NEW E \in SUBSET Names!ValidFlowExt, E # {}
  PROVE  \E e \in E : /\ Names!FlavorOf(E) = Names!StateFromExt(e)
                      /\ \A x \in E : Names!PriorityFromExt(e) <= Names!PriorityFromExt(x)
<1>1. \A e \in E : Names!PriorityFromExt(e) \in {0, 1, 2, 3, 4}
  BY DEF Names!PriorityFromExt
<1>2. \E e \in E : \A x \in E : Names!PriorityFromExt(e) <= Names!PriorityFromExt(x)
  <2>1. PICK e0 \in E : TRUE
    OBVIOUS
  <2>2. CASE \E e \in E : Names!PriorityFromExt(e) = 0
    BY <1>1, <2>2
  <2>3. CASE /\ \A x \in E : Names!PriorityFromExt(x) # 0
             /\ \E e \in E : Names!PriorityFromExt(e) = 1
    BY <1>1, <2>3
  <2>4. CASE /\ \A x \in E : Names!PriorityFromExt(x) \notin {0, 1}
             /\ \E e \in E : Names!PriorityFromExt(e) = 2
    BY <1>1, <2>4
  <2>5. CASE /\ \A x \in E : Names!PriorityFromExt(x) \notin {0, 1, 2}
             /\ \E e \in E : Names!PriorityFromExt(e) = 3
    BY <1>1, <2>5
  <2>6. CASE \A x \in E : Names!PriorityFromExt(x) = 4
    BY <2>1, <2>6
  <2> QED
    BY <1>1, <2>2, <2>3, <2>4, <2>5, <2>6
<1> QED
  BY <1>2 DEF Names!FlavorOf

\* The files of the polls are there, under the names that getBsoBase makes.
PollsThere ==
  \A p \in polls : \E a \in Addr, ext \in PollExts :
    p = <<a, Names!BsoFile(a, ext)>> /\ Names!BsoFile(a, ext) \in tree

LEMMA PollsStep ==
  ASSUME PollsThere, Names!Next
  PROVE  PollsThere'
<1>1. ASSUME NEW a \in Addr, NEW flavor, Names!QueuePoll(a, flavor)
      PROVE  PollsThere'
  <2>1. PICK ext \in PollExts : ext = Names!PollExt(flavor)
    BY PollExtKnown
  <2>2. /\ tree' = tree \cup {Names!BsoFile(a, ext)}
        /\ polls' = polls \cup {<<a, Names!BsoFile(a, ext)>>}
    BY <1>1, <2>1 DEF Names!QueuePoll
  <2> QED
    BY <2>1, <2>2 DEF PollsThere
<1>2. ASSUME NEW f \in Foreign, Names!Toss(f)
      PROVE  PollsThere'
  BY <1>2 DEF Names!Toss, PollsThere
<1>3. ASSUME NEW a \in Addr, Names!SendAndRemove(a)
      PROVE  PollsThere'
  <2> SUFFICES ASSUME NEW p \in polls'
               PROVE  \E b \in Addr, ext \in PollExts :
                        p = <<b, Names!BsoFile(b, ext)>> /\ Names!BsoFile(b, ext) \in tree'
    BY DEF PollsThere
  <2>1. p \in polls /\ p[2] \notin Names!SentTo(a)
    BY <1>3 DEF Names!SendAndRemove
  <2>2. PICK b \in Addr, ext \in PollExts :
          p = <<b, Names!BsoFile(b, ext)>> /\ Names!BsoFile(b, ext) \in tree
    BY <2>1 DEF PollsThere
  <2>3. Names!BsoFile(b, ext) \notin Names!SentTo(a)
    BY <2>1, <2>2
  <2>4. Names!BsoFile(b, ext) \in tree'
    BY <1>3, <2>2, <2>3 DEF Names!SendAndRemove
  <2> QED
    BY <2>2, <2>4
<1>4. ASSUME NEW a \in Addr, NEW flavor, Names!SetFlavor(a, flavor)
      PROVE  PollsThere'
  <2>1. PICK ext \in PollExts : ext = Names!PollExt(flavor)
    BY PollExtKnown
  <2>2. PICK new : new = Names!BsoFile(a, ext)
    OBVIOUS
  <2>3. PICK flows : /\ tree' = (tree \ flows) \cup {new}
                     /\ polls' = {p \in polls : p[2] \notin flows} \cup {<<a, new>>}
    BY <1>4, <2>1, <2>2 DEF Names!SetFlavor
  <2> SUFFICES ASSUME NEW p \in polls'
               PROVE  \E b \in Addr, e \in PollExts :
                        p = <<b, Names!BsoFile(b, e)>> /\ Names!BsoFile(b, e) \in tree'
    BY DEF PollsThere
  <2>4. CASE p = <<a, new>>
    BY <2>1, <2>2, <2>3, <2>4
  <2>5. CASE p # <<a, new>>
    <3>1. p \in polls /\ p[2] \notin flows
      BY <2>3, <2>5
    <3>2. PICK b \in Addr, e \in PollExts :
            p = <<b, Names!BsoFile(b, e)>> /\ Names!BsoFile(b, e) \in tree
      BY <3>1 DEF PollsThere
    <3>3. Names!BsoFile(b, e) \notin flows
      BY <3>1, <3>2
    <3> QED
      BY <2>3, <3>2, <3>3
  <2> QED
    BY <2>4, <2>5
<1> QED
  BY <1>1, <1>2, <1>3, <1>4 DEF Names!Next

\* A poll that momail has created, with -q, by the API or by a new flavour, is queued by its own
\* scan, for the address it was created for and no less urgent than asked, whatever else other
\* programs put into the directory.
THEOREM PollsFound == ASSUME ZonesFit PROVE MCSpec => []PollsQueued
<1> DEFINE Inv == part = "names" => PollsThere
<1>1. MCInit => Inv
  BY DEF MCInit, Names!Init, PollsThere
<1>2. Inv /\ [MCNext]_allVars => Inv'
  <2> SUFFICES ASSUME Inv, [MCNext]_allVars PROVE Inv'
    OBVIOUS
  <2>1. CASE part = "names" /\ Names!Next /\ UNCHANGED <<part, vars>>
    BY <2>1, PollsStep
  <2>2. CASE UNCHANGED <<part, tree, polls>>
    BY <2>2 DEF PollsThere
  <2> QED
    BY <2>1, <2>2 DEF MCNext, CallsStep, EditsStep, allVars
<1>3. Inv => PollsQueued
  <2> SUFFICES ASSUME PollsThere, NEW p \in polls
               PROVE  /\ p[1] \in Names!Queue
                      /\ \E e \in Names!ValidFlowExt :
                           /\ Names!StateFromExt(e) = Names!QueuedFlavor(p[1])
                           /\ Names!PriorityFromExt(e) <= Names!PriorityFromExt(p[2].ext)
    BY DEF PollsQueued, Names!PollsQueued
  <2>1. PICK a \in Addr, ext \in PollExts :
          p = <<a, Names!BsoFile(a, ext)>> /\ Names!BsoFile(a, ext) \in tree
    BY DEF PollsThere
  <2>2. PICK f : f = Names!BsoFile(a, ext)
    OBVIOUS
  <2>3. p[1] = a /\ p[2] = f /\ f \in tree
    BY <2>1, <2>2
  <2>4. Names!IsScanned(f) /\ Names!Scanned(f) = a
    BY <2>1, <2>2, ReadBack
  <2>5. p[1] \in Names!Queue
    BY <2>3, <2>4 DEF Names!Queue
  <2>6. PICK E : E = {g.ext : g \in {h \in tree : Names!IsScanned(h) /\ Names!Scanned(h) = a}}
    OBVIOUS
  <2>7. f.ext \in E
    BY <2>3, <2>4, <2>6
  <2>8. E \in SUBSET Names!ValidFlowExt
    BY <2>6 DEF Names!IsScanned
  <2>9. PICK e \in E : /\ Names!FlavorOf(E) = Names!StateFromExt(e)
                       /\ \A x \in E : Names!PriorityFromExt(e) <= Names!PriorityFromExt(x)
    BY <2>7, <2>8, MostUrgent
  <2>10. Names!QueuedFlavor(p[1]) = Names!FlavorOf(E)
    BY <2>3, <2>6 DEF Names!QueuedFlavor
  <2> QED
    BY <2>3, <2>5, <2>7, <2>8, <2>9, <2>10
<1> QED
  BY <1>1, <1>2, <1>3, PTL DEF MCSpec

-----------------------------------------------------------------------------
(* Flow files: what a call that fails in the middle leaves behind.          *)

\* A variable that has a value for each session.
OnSession(f) == f = [s \in Session |-> f[s]]

FlowType ==
  /\ inode \in [Calls!Ext -> Calls!Inode \cup {None}]
  /\ lines \in [Calls!Inode -> Seq(Mail)]
  /\ OnSession(todo) /\ OnSession(fd) /\ OnSession(pos) /\ OnSession(buf) /\ OnSession(pc)

\* How far a session is: p of the lines q are read, and those not dealt with yet are in b.
Progress(q, p, b) ==
  /\ b \in Seq(Mail)
  /\ p \in 0 .. Len(q)
  /\ \A i \in 1 .. p : q[i] \in sent \cup withdrawn \cup Calls!ToSet(b)

Reading == pc[call] \in {"read", "remove", "cut"}

\* While the name of the flow file stands for a file, it is the one the call has open.  The loop
\* ends with an empty buffer, and, unless the scanner has failed, at the end of the file.
OwnFile ==
  \A e \in Calls!Ext : e = Head(todo[call]) /\ inode[e] # None =>
    /\ fd[call] = inode[e]
    /\ Progress(lines[inode[e]], pos[call], buf[call])
    /\ pc[call] # "read" => buf[call] = << >>
    /\ pc[call] = "remove" => pos[call] = Len(lines[inode[e]])

Idle(s) == pc[s] = "idle" /\ fd[s] = None

FlowInv ==
  /\ FlowType
  /\ \A s \in Session : s # call => Idle(s)
  /\ ~Reading => pc[call] \in {"idle", "open"} /\ fd[call] = None /\ buf[call] = << >>
  /\ Reading => OwnFile

LEMMA FlowConstants ==
  /\ call \in Session /\ None \notin Calls!Inode
  /\ Len(Flavors) \in Nat /\ DOMAIN Flavors = 1 .. Len(Flavors)
  /\ Calls!Ext = {Flavors[i] : i \in 1 .. Len(Flavors)}
<1>1. call \in Session
  BY SessionAssumption
<1>2. Len(Flavors) \in Nat /\ DOMAIN Flavors = 1 .. Len(Flavors)
  BY FlavorAssumption
<1>3. None \notin Calls!Inode
  BY <1>2, NoneAssumption DEF Calls!Inode
<1>4. Calls!Ext = {Flavors[i] : i \in 1 .. Len(Flavors)}
  BY <1>2 DEF Calls!Ext, Calls!ToSet
<1> QED
  BY <1>1, <1>2, <1>3, <1>4

\* There is an inode that has no name: there are fewer names than inodes.
LEMMA FreeInode ==
  ASSUME FlowType
  PROVE  \E i \in Calls!Inode : i \notin Calls!Linked
<1>1. PICK n \in Nat : n = Len(Flavors)
  BY FlowConstants
<1>2. PICK g : g = [k \in 1 .. n |-> inode[Flavors[k]]]
  OBVIOUS
<1>3. PICK T : T = {g[k] : k \in 1 .. n}
  OBVIOUS
<1>4. g \in Surjection(1 .. n, T)
  BY <1>2, <1>3 DEF Surjection
<1>5. IsFiniteSet(1 .. n) /\ Cardinality(1 .. n) = n
  <2>1. 1 \in Int /\ n \in Int
    BY <1>1
  <2>2. IsFiniteSet(1 .. n) /\ Cardinality(1 .. n) = IF 1 > n THEN 0 ELSE n - 1 + 1
    BY <2>1, FS_Interval
  <2> QED
    BY <1>1, <2>2
<1>6. IsFiniteSet(T) /\ Cardinality(T) <= n
  BY <1>4, <1>5, FS_Surjection
<1>7. Cardinality(1 .. n + 3) = n + 3
  <2>1. 1 \in Int /\ n + 3 \in Int
    BY <1>1
  <2>2. Cardinality(1 .. n + 3) = IF 1 > n + 3 THEN 0 ELSE n + 3 - 1 + 1
    BY <2>1, FS_Interval
  <2> QED
    BY <1>1, <2>2
<1>8. Calls!Linked \subseteq T
  <2> SUFFICES ASSUME NEW i \in Calls!Linked PROVE i \in T
    OBVIOUS
  <2>1. PICK e \in Calls!Ext : inode[e] = i
    BY DEF Calls!Linked
  <2>2. PICK k \in 1 .. n : e = Flavors[k]
    BY <1>1, <2>1, FlowConstants
  <2> QED
    BY <1>2, <1>3, <2>1, <2>2
<1>9. Calls!Inode = 1 .. n + 3
  BY <1>1 DEF Calls!Inode
<1>10. ASSUME Calls!Inode \subseteq Calls!Linked
       PROVE  FALSE
  <2>1. 1 .. n + 3 \in SUBSET T
    BY <1>8, <1>9, <1>10
  <2>2. Cardinality(1 .. n + 3) <= Cardinality(T)
    BY <1>6, <2>1, FS_Subset
  <2>3. Cardinality(T) \in Nat
    BY <1>6, FS_CardinalityType
  <2> QED
    BY <1>1, <1>6, <1>7, <2>2, <2>3
<1> QED
  BY <1>10

\* Lines, as sets.
LEMMA LineSets ==
  ASSUME NEW q \in Seq(Mail), NEW m \in Mail
  PROVE  /\ Calls!ToSet(Append(q, m)) = Calls!ToSet(q) \cup {m}
         /\ Calls!ToSet(<<m>>) = {m} /\ Calls!ToSet(<< >>) = {}
         /\ q # << >> => Calls!ToSet(q) \subseteq {Head(q)} \cup Calls!ToSet(Tail(q))
<1>1. Calls!ToSet(Append(q, m)) = Calls!ToSet(q) \cup {m}
  <2>1. /\ DOMAIN q = 1 .. Len(q) /\ DOMAIN Append(q, m) = 1 .. Len(q) + 1
        /\ Append(q, m)[Len(q) + 1] = m
        /\ \A i \in 1 .. Len(q) : Append(q, m)[i] = q[i]
    OBVIOUS
  <2>2. 1 .. Len(q) + 1 = (1 .. Len(q)) \cup {Len(q) + 1}
    OBVIOUS
  <2> QED
    BY <2>1, <2>2 DEF Calls!ToSet
<1>2. Calls!ToSet(<<m>>) = {m} /\ Calls!ToSet(<< >>) = {}
  BY DEF Calls!ToSet
<1>3. ASSUME q # << >>, NEW x \in Calls!ToSet(q)
      PROVE  x = Head(q) \/ x \in Calls!ToSet(Tail(q))
  <2>1. PICK i \in 1 .. Len(q) : x = q[i]
    BY <1>3 DEF Calls!ToSet
  <2>2. CASE i = 1
    BY <1>3, <2>1, <2>2
  <2>3. CASE i # 1
    <3>1. i - 1 \in 1 .. Len(Tail(q)) /\ Tail(q)[i - 1] = q[i] /\ Tail(q) \in Seq(Mail)
      BY <1>3, <2>1, <2>3
    <3>2. DOMAIN Tail(q) = 1 .. Len(Tail(q))
      BY <3>1
    <3> QED
      BY <2>1, <3>1, <3>2 DEF Calls!ToSet
  <2> QED
    BY <2>2, <2>3
<1> QED
  BY <1>1, <1>2, <1>3

\* The lines of a file are those that are read and those that are not.
LEMMA ReadOrNot ==
  ASSUME NEW q \in Seq(Mail), NEW p \in 0 .. Len(q), NEW i \in 1 .. Len(q), ~(i <= p)
  PROVE  q[i] \in Calls!ToSet(SubSeq(q, p + 1, Len(q)))
<1>1. PICK r : r = SubSeq(q, p + 1, Len(q))
  OBVIOUS
<1>2. Len(r) = Len(q) - p /\ DOMAIN r = 1 .. Len(r) /\ i - p \in 1 .. Len(r)
  BY <1>1
<1>3. r[i - p] = q[i]
  BY <1>1, <1>2
<1> QED
  BY <1>1, <1>2, <1>3 DEF Calls!ToSet

\* What a step of the call does to its own variables.
LEMMA ResetKeeps ==
  ASSUME FlowType, NEW newPc, NEW rest, Calls!Reset(call, newPc, rest)
  PROVE  /\ OnSession(todo)' /\ OnSession(fd)' /\ OnSession(pos)' /\ OnSession(buf)'
         /\ OnSession(pc)'
         /\ fd'[call] = None /\ buf'[call] = << >> /\ pc'[call] = newPc
         /\ \A s \in Session : s # call => fd'[s] = fd[s] /\ pc'[s] = pc[s]
<1>1. /\ fd' = [fd EXCEPT ![call] = None] /\ pos' = [pos EXCEPT ![call] = 0]
      /\ buf' = [buf EXCEPT ![call] = << >>] /\ pc' = [pc EXCEPT ![call] = newPc]
      /\ todo' = [todo EXCEPT ![call] = rest]
  BY DEF Calls!Reset
<1>2. call \in Session
  BY FlowConstants
<1>3. OnSession(todo') /\ OnSession(pos') /\ OnSession(buf') /\ buf'[call] = << >>
  BY <1>1, <1>2 DEF FlowType, OnSession
<1>4. /\ OnSession(fd') /\ fd'[call] = None
      /\ \A s \in Session : s # call => fd'[s] = fd[s]
  BY <1>1, <1>2 DEF FlowType, OnSession
<1>5. /\ OnSession(pc') /\ pc'[call] = newPc
      /\ \A s \in Session : s # call => pc'[s] = pc[s]
  BY <1>1, <1>2 DEF FlowType, OnSession
<1> QED
  BY <1>3, <1>4, <1>5 DEF OnSession

\* A step that only reads: no name, line or inode changes, and what is dealt with stays so.
LEMMA OnlyReads ==
  ASSUME FlowInv, UNCHANGED <<inode, lines, todo, fd, pos, buf, pc>>,
         sent \subseteq sent', withdrawn \subseteq withdrawn'
  PROVE  FlowInv'
<1>1. FlowType'
  BY DEF FlowInv, FlowType, OnSession
<1>2. (Reading => OwnFile)'
  <2> SUFFICES ASSUME Reading, NEW e \in Calls!Ext, e = Head(todo[call]), inode[e] # None
               PROVE  (/\ fd[call] = inode[e]
                       /\ Progress(lines[inode[e]], pos[call], buf[call])
                       /\ pc[call] # "read" => buf[call] = << >>
                       /\ pc[call] = "remove" => pos[call] = Len(lines[inode[e]]))'
    BY DEF Reading, OwnFile
  <2>1. /\ fd[call] = inode[e]
        /\ Progress(lines[inode[e]], pos[call], buf[call])
        /\ pc[call] # "read" => buf[call] = << >>
        /\ pc[call] = "remove" => pos[call] = Len(lines[inode[e]])
    BY DEF FlowInv, OwnFile
  <2> QED
    BY <2>1 DEF Progress
<1> QED
  BY <1>1, <1>2 DEF FlowInv, Idle, Reading

\* A toss waits for the call to be over, and puts the line where it is listed.
LEMMA TossLists ==
  ASSUME FlowInv, NEW m \in Mail, NEW e \in Calls!Ext, Calls!Toss(m, e)
  PROVE  /\ FlowInv'
         /\ m \in Calls!Listed' /\ Calls!Listed \subseteq Calls!Listed'
<1>0. /\ FlowType /\ call \in Session /\ None \notin Calls!Inode
      /\ \A s \in Session : s # call => Idle(s)
  BY FlowConstants DEF FlowInv
<1>1. /\ posted' = posted \cup {m} /\ pc[call] = "idle"
      /\ UNCHANGED <<todo, fd, pos, buf, pc, sent, withdrawn>>
  BY SessionAssumption DEF Calls!Toss, Calls!session
<1>2. \A s \in Session : fd[s] = None
  BY <1>0, <1>1 DEF FlowInv, Idle, Reading
<1>3. PICK n \in Calls!Inode : n = Calls!NewInode /\ n \notin Calls!Linked
  <2>1. PICK i \in Calls!Inode : i \notin Calls!Linked
    BY <1>0, FreeInode
  <2>2. i \in Calls!Free
    BY <1>0, <1>2, <2>1 DEF Calls!Free
  <2>3. Calls!NewInode \in Calls!Free
    BY <2>2 DEF Calls!NewInode
  <2> QED
    BY <2>3 DEF Calls!Free
<1>4. inode[e] \in Calls!Inode \cup {None}
  BY <1>0 DEF FlowType
<1>5. ASSUME FlowType' PROVE FlowInv'
  BY <1>0, <1>1, <1>5 DEF FlowInv, Idle, Reading
<1>6. CASE inode[e] = None
  <2>1. inode' = [inode EXCEPT ![e] = n] /\ lines' = [lines EXCEPT ![n] = <<m>>]
    BY <1>3, <1>6 DEF Calls!Toss
  <2>2. <<m>> \in Seq(Mail)
    OBVIOUS
  <2>3. /\ inode' \in [Calls!Ext -> Calls!Inode \cup {None}]
        /\ lines' \in [Calls!Inode -> Seq(Mail)]
    BY <1>0, <2>1, <2>2 DEF FlowType
  <2>4. n \in Calls!Linked' /\ lines'[n] = <<m>>
    BY <1>0, <2>1 DEF Calls!Linked, FlowType
  <2>5. m \in Calls!Listed'
    <3>1. m \in Calls!ToSet(<<m>>)
      BY DEF Calls!ToSet
    <3> QED
      BY <2>4, <3>1 DEF Calls!Listed
  <2>6. ASSUME NEW i \in Calls!Linked
        PROVE  i \in Calls!Linked' /\ lines'[i] = lines[i]
    <3>1. PICK x \in Calls!Ext : inode[x] = i
      BY DEF Calls!Linked
    <3>2. i \in Calls!Inode /\ i # None /\ i # n
      BY <1>0, <1>3 DEF Calls!Linked
    <3>3. inode'[x] = i
      BY <1>0, <1>6, <2>1, <3>1, <3>2 DEF FlowType
    <3>4. lines'[i] = lines[i]
      BY <1>0, <2>1, <3>2 DEF FlowType
    <3> QED
      BY <3>2, <3>3, <3>4 DEF Calls!Linked
  <2>7. Calls!Listed \subseteq Calls!Listed'
    BY <2>6 DEF Calls!Listed
  <2>8. FlowType'
    BY <1>0, <1>1, <2>3 DEF FlowType, OnSession
  <2> QED
    BY <1>5, <2>5, <2>7, <2>8
<1>7. CASE inode[e] # None
  <2>1. PICK j \in Calls!Inode : j = inode[e]
    BY <1>4, <1>7
  <2>2. UNCHANGED inode /\ lines' = [lines EXCEPT ![j] = Append(lines[j], m)]
    BY <1>7, <2>1 DEF Calls!Toss
  <2>3. PICK q \in Seq(Mail) : q = lines[j]
    BY <1>0, <2>1 DEF FlowType
  <2>4. Append(q, m) \in Seq(Mail) /\ Calls!ToSet(Append(q, m)) = Calls!ToSet(q) \cup {m}
    <3>1. Append(q, m) \in Seq(Mail)
      BY <2>3
    <3> QED
      BY <2>3, <3>1, LineSets
  <2>5. lines' \in [Calls!Inode -> Seq(Mail)] /\ lines'[j] = Append(q, m)
    BY <1>0, <2>2, <2>3, <2>4 DEF FlowType
  <2>6. ASSUME NEW i \in Calls!Linked
        PROVE  i \in Calls!Linked' /\ Calls!ToSet(lines[i]) \subseteq Calls!ToSet(lines'[i])
    <3>1. i \in Calls!Linked'
      BY <2>2 DEF Calls!Linked
    <3>2. CASE i = j
      BY <2>3, <2>4, <2>5, <3>1, <3>2
    <3>3. CASE i # j
      <4>1. lines'[i] = lines[i]
        BY <1>0, <2>2, <3>3 DEF FlowType, Calls!Linked
      <4> QED
        BY <3>1, <4>1
    <3> QED
      BY <3>2, <3>3
  <2>7. j \in Calls!Linked'
    BY <2>1, <2>2 DEF Calls!Linked
  <2>8. m \in Calls!Listed' /\ Calls!Listed \subseteq Calls!Listed'
    BY <2>4, <2>5, <2>6, <2>7 DEF Calls!Listed
  <2>9. FlowType'
    BY <1>0, <1>1, <2>2, <2>5 DEF FlowType, OnSession
  <2> QED
    BY <1>5, <2>8, <2>9
<1> QED
  BY <1>6, <1>7

\* A call is the only session there is, and no API edit but DELETE.
LEMMA CallSteps ==
  ASSUME FlowInv, Calls!Next, pc'[incoming] = "idle"
  PROVE  \/ Calls!FindFlowFiles(call) \/ Calls!OpenFlow(call) \/ Calls!Fill(call)
         \/ Calls!ScanEnds(call) \/ Calls!ScanFails(call) \/ Calls!SendLine(call)
         \/ Calls!SendFails(call) \/ Calls!RemoveFlow(call) \/ Calls!EndSession(call)
         \/ \E m \in Mail, e \in Calls!Ext : Calls!Toss(m, e)
         \/ Calls!DeleteFind \/ Calls!DeleteFiles \/ Calls!DeleteFlow
<1>1. ASSUME NEW e \in Calls!Ext, Calls!QueuePoll(e) \/ Calls!SetFlavor(e)
      PROVE  FALSE
  BY <1>1 DEF Calls!QueuePoll, Calls!SetFlavor
<1>2. ASSUME NEW s \in Session, s # call,
             \/ Calls!FindFlowFiles(s) \/ Calls!Step(s)
             \/ Calls!ScanFails(s) \/ Calls!SendFails(s)
      PROVE  FALSE
  <2>1. s = incoming /\ pc[s] = "idle"
    BY <1>2, SessionAssumption DEF FlowInv, Idle
  <2>2. Calls!FindFlowFiles(s)
    BY <1>2, <2>1 DEF Calls!Step, Calls!OpenFlow, Calls!Fill, Calls!ScanEnds, Calls!ScanFails,
                      Calls!SendLine, Calls!RemoveFlow, Calls!EndSession, Calls!SendFails
  <2>3. pc' = [pc EXCEPT ![s] = "open"]
    BY <2>2 DEF Calls!FindFlowFiles
  <2>4. pc'[s] = "open"
    BY <2>3 DEF FlowInv, FlowType, OnSession
  <2> QED
    BY <2>1, <2>4
<1> QED
  BY <1>1, <1>2 DEF Calls!Next, Calls!Step

LEMMA FlowStep ==
  ASSUME FlowInv, Calls!Next, pc'[incoming] = "idle"
  PROVE  FlowInv'
<1>0. /\ FlowType /\ call \in Session /\ None \notin Calls!Inode
      /\ \A s \in Session : s # call => Idle(s)
  BY FlowConstants DEF FlowInv
<1>1. CASE Calls!FindFlowFiles(call)
  <2>1. /\ pc[call] = "idle" /\ pc' = [pc EXCEPT ![call] = "open"]
        /\ UNCHANGED <<inode, lines, fd, pos, buf>>
    BY <1>1 DEF Calls!FindFlowFiles
  <2>2. PICK v : todo' = [todo EXCEPT ![call] = v]
    BY <1>1 DEF Calls!FindFlowFiles
  <2>3. OnSession(todo')
    BY <1>0, <2>2 DEF FlowType, OnSession
  <2>4. /\ OnSession(pc') /\ pc'[call] = "open"
        /\ \A s \in Session : s # call => pc'[s] = pc[s]
    BY <1>0, <2>1 DEF FlowType, OnSession
  <2>5. FlowType'
    BY <1>0, <2>1, <2>3, <2>4 DEF FlowType, OnSession
  <2>6. \A s \in Session : s # call => Idle(s)'
    BY <1>0, <2>1, <2>4 DEF Idle
  <2> QED
    BY <2>1, <2>4, <2>5, <2>6 DEF FlowInv, Reading
<1>2. CASE Calls!OpenFlow(call)
  <2>0. /\ pc[call] = "open" /\ fd[call] = None /\ buf[call] = << >>
        /\ UNCHANGED <<inode, lines, buf, sent, withdrawn>>
    BY <1>2 DEF Calls!OpenFlow, FlowInv, Reading
  <2>1. CASE inode[Head(todo[call])] = None
    <3>1. /\ todo' = [todo EXCEPT ![call] = Tail(todo[call])]
          /\ UNCHANGED <<fd, pos, pc>>
      BY <1>2, <2>1 DEF Calls!OpenFlow
    <3>2. OnSession(todo')
      BY <1>0, <3>1 DEF FlowType, OnSession
    <3>3. FlowType'
      BY <1>0, <2>0, <3>1, <3>2 DEF FlowType, OnSession
    <3> QED
      BY <1>0, <2>0, <3>1, <3>3 DEF FlowInv, Idle, Reading
  <2>2. CASE inode[Head(todo[call])] # None
    <3>1. /\ fd' = [fd EXCEPT ![call] = inode[Head(todo[call])]]
          /\ pos' = [pos EXCEPT ![call] = 0]
          /\ pc' = [pc EXCEPT ![call] = "read"]
          /\ UNCHANGED todo
      BY <1>2, <2>2 DEF Calls!OpenFlow
    <3>2. /\ OnSession(fd') /\ fd'[call] = inode[Head(todo[call])]
          /\ \A s \in Session : s # call => fd'[s] = fd[s]
      BY <1>0, <3>1 DEF FlowType, OnSession
    <3>3. OnSession(pos') /\ pos'[call] = 0
      BY <1>0, <3>1 DEF FlowType, OnSession
    <3>4. /\ OnSession(pc') /\ pc'[call] = "read"
          /\ \A s \in Session : s # call => pc'[s] = pc[s]
      BY <1>0, <3>1 DEF FlowType, OnSession
    <3>5. FlowType'
      BY <1>0, <2>0, <3>1, <3>2, <3>3, <3>4 DEF FlowType, OnSession
    <3>6. \A s \in Session : s # call => Idle(s)'
      BY <1>0, <3>2, <3>4 DEF Idle
    <3>7. OwnFile'
      <4> SUFFICES ASSUME NEW e \in Calls!Ext, e = Head(todo[call]), inode[e] # None
                   PROVE  (/\ fd[call] = inode[e]
                           /\ Progress(lines[inode[e]], pos[call], buf[call])
                           /\ pc[call] # "read" => buf[call] = << >>
                           /\ pc[call] = "remove" => pos[call] = Len(lines[inode[e]]))'
        BY <2>0, <3>1 DEF OwnFile
      <4>1. PICK q \in Seq(Mail) : q = lines[inode[e]]
        BY <1>0 DEF FlowType
      <4>2. << >> \in Seq(Mail) /\ 0 \in 0 .. Len(q) /\ 1 .. 0 = {}
        BY <4>1
      <4>3. Progress(q, 0, << >>)'
        BY <4>2 DEF Progress
      <4> QED
        BY <2>0, <3>2, <3>3, <3>4, <4>1, <4>3
    <3> QED
      BY <3>4, <3>5, <3>6, <3>7 DEF FlowInv, Reading
  <2> QED
    BY <2>1, <2>2
<1>3. CASE Calls!Fill(call)
  <2>0. /\ pc[call] = "read" /\ buf[call] = << >>
        /\ UNCHANGED <<inode, lines, todo, fd, pc, sent, withdrawn>>
    BY <1>3 DEF Calls!Fill
  <2>1. PICK q : q = lines[fd[call]]
    OBVIOUS
  <2>2. PICK k \in pos[call] + 1 .. Len(q) :
          /\ buf' = [buf EXCEPT ![call] = SubSeq(q, pos[call] + 1, k)]
          /\ pos' = [pos EXCEPT ![call] = k]
    BY <1>3, <2>1 DEF Calls!Fill
  <2>3. OnSession(buf') /\ buf'[call] = SubSeq(q, pos[call] + 1, k)
    BY <1>0, <2>2 DEF FlowType, OnSession
  <2>4. OnSession(pos') /\ pos'[call] = k
    BY <1>0, <2>2 DEF FlowType, OnSession
  <2>5. FlowType'
    BY <1>0, <2>0, <2>3, <2>4 DEF FlowType, OnSession
  <2>6. \A s \in Session : s # call => Idle(s)'
    BY <1>0, <2>0 DEF Idle
  <2>7. OwnFile'
    <3> SUFFICES ASSUME NEW e \in Calls!Ext, e = Head(todo[call]), inode[e] # None
                 PROVE  (/\ fd[call] = inode[e]
                         /\ Progress(lines[inode[e]], pos[call], buf[call])
                         /\ pc[call] # "read" => buf[call] = << >>
                         /\ pc[call] = "remove" => pos[call] = Len(lines[inode[e]]))'
      BY <2>0 DEF OwnFile
    <3>1. PICK p : p = pos[call]
      OBVIOUS
    <3>2. fd[call] = inode[e] /\ Progress(q, p, << >>)
      BY <2>0, <2>1, <3>1 DEF FlowInv, OwnFile, Reading
    <3>3. q \in Seq(Mail) /\ p \in 0 .. Len(q) /\ k \in p + 1 .. Len(q)
      BY <1>0, <2>1, <2>2, <3>1, <3>2 DEF FlowType, Progress
    <3>4. SubSeq(q, p + 1, k) \in Seq(Mail) /\ Len(SubSeq(q, p + 1, k)) = k - p
      BY <3>3
    <3>5. PICK r \in Seq(Mail) : r = SubSeq(q, p + 1, k) /\ Len(r) = k - p
      BY <3>4
    <3>6. ASSUME NEW i \in 1 .. k
          PROVE  q[i] \in sent \cup withdrawn \cup Calls!ToSet(r)
      <4>1. CASE i <= p
        <5>1. i \in 1 .. p
          BY <3>3, <4>1
        <5>2. q[i] \in sent \cup withdrawn \cup Calls!ToSet(<< >>)
          BY <3>2, <5>1 DEF Progress
        <5>3. Calls!ToSet(<< >>) = {}
          BY DEF Calls!ToSet
        <5> QED
          BY <5>2, <5>3
      <4>2. CASE ~(i <= p)
        <5>1. i - p \in 1 .. Len(r) /\ DOMAIN r = 1 .. Len(r)
          BY <3>3, <3>5, <4>2
        <5>2. r[i - p] = q[i]
          BY <3>3, <3>5, <4>2, <5>1
        <5> QED
          BY <5>1, <5>2 DEF Calls!ToSet
      <4> QED
        BY <4>1, <4>2
    <3>7. k \in 0 .. Len(q)
      BY <3>3
    <3>8. Progress(q, k, r)'
      BY <2>0, <3>5, <3>6, <3>7 DEF Progress
    <3>9. buf'[call] = r
      BY <2>3, <3>1, <3>5
    <3> QED
      BY <2>0, <2>1, <2>4, <3>2, <3>8, <3>9
  <2> QED
    BY <2>0, <2>5, <2>6, <2>7 DEF FlowInv, Reading
<1>4. CASE Calls!ScanEnds(call) \/ Calls!ScanFails(call)
  <2>0. /\ pc[call] = "read" /\ buf[call] = << >>
        /\ UNCHANGED <<inode, lines, todo, fd, pos, buf, sent, withdrawn>>
    BY <1>4 DEF Calls!ScanEnds, Calls!ScanFails
  <2>1. PICK v \in {"remove", "cut"} :
          /\ pc' = [pc EXCEPT ![call] = v]
          /\ v = "remove" => Len(lines[fd[call]]) <= pos[call]
    BY <1>4 DEF Calls!ScanEnds, Calls!ScanFails
  <2>2. /\ OnSession(pc') /\ pc'[call] = v
        /\ \A s \in Session : s # call => pc'[s] = pc[s]
    BY <1>0, <2>1 DEF FlowType, OnSession
  <2>3. FlowType'
    BY <1>0, <2>0, <2>2 DEF FlowType, OnSession
  <2>4. \A s \in Session : s # call => Idle(s)'
    BY <1>0, <2>0, <2>2 DEF Idle
  <2>5. OwnFile'
    <3> SUFFICES ASSUME NEW e \in Calls!Ext, e = Head(todo[call]), inode[e] # None
                 PROVE  (/\ fd[call] = inode[e]
                         /\ Progress(lines[inode[e]], pos[call], buf[call])
                         /\ pc[call] # "read" => buf[call] = << >>
                         /\ pc[call] = "remove" => pos[call] = Len(lines[inode[e]]))'
      BY <2>0 DEF OwnFile
    <3>1. fd[call] = inode[e] /\ Progress(lines[inode[e]], pos[call], buf[call])
      BY <2>0 DEF FlowInv, OwnFile, Reading
    <3>2. PICK q \in Seq(Mail) : q = lines[inode[e]]
      BY <1>0 DEF FlowType
    <3>3. pos[call] \in 0 .. Len(q)
      BY <3>1, <3>2 DEF Progress
    <3>4. v = "remove" => pos[call] = Len(q)
      BY <2>1, <3>1, <3>2, <3>3
    <3>5. Progress(lines[inode[e]], pos[call], buf[call])'
      BY <2>0, <3>1 DEF Progress
    <3> QED
      BY <2>0, <2>2, <3>1, <3>2, <3>4, <3>5
  <2> QED
    BY <2>1, <2>2, <2>3, <2>4, <2>5 DEF FlowInv, Reading
<1>5. CASE Calls!SendLine(call)
  <2>0. /\ pc[call] = "read" /\ buf[call] # << >>
        /\ sent' = sent \cup ({Head(buf[call])} \ withdrawn)
        /\ buf' = [buf EXCEPT ![call] = Tail(buf[call])]
        /\ UNCHANGED <<inode, lines, todo, fd, pos, pc, withdrawn>>
    BY <1>5 DEF Calls!SendLine
  <2>1. OnSession(buf') /\ buf'[call] = Tail(buf[call])
    BY <1>0, <2>0 DEF FlowType, OnSession
  <2>2. FlowType'
    BY <1>0, <2>0, <2>1 DEF FlowType, OnSession
  <2>3. \A s \in Session : s # call => Idle(s)'
    BY <1>0, <2>0 DEF Idle
  <2>4. OwnFile'
    <3> SUFFICES ASSUME NEW e \in Calls!Ext, e = Head(todo[call]), inode[e] # None
                 PROVE  (/\ fd[call] = inode[e]
                         /\ Progress(lines[inode[e]], pos[call], buf[call])
                         /\ pc[call] # "read" => buf[call] = << >>
                         /\ pc[call] = "remove" => pos[call] = Len(lines[inode[e]]))'
      BY <2>0 DEF OwnFile
    <3>1. PICK q : q = lines[inode[e]]
      OBVIOUS
    <3>2. PICK b : b = buf[call]
      OBVIOUS
    <3>3. PICK p : p = pos[call]
      OBVIOUS
    <3>4. fd[call] = inode[e] /\ Progress(q, p, b)
      BY <2>0, <3>1, <3>2, <3>3 DEF FlowInv, OwnFile, Reading
    <3>5. b \in Seq(Mail) /\ b # << >>
      BY <2>0, <3>2, <3>4 DEF Progress
    <3>6. Tail(b) \in Seq(Mail) /\ Head(b) \in Mail
      BY <3>5
    <3>7. Calls!ToSet(b) \subseteq {Head(b)} \cup Calls!ToSet(Tail(b))
      BY <3>5, <3>6, LineSets
    <3>8. sent \cup withdrawn \cup Calls!ToSet(b)
            \subseteq sent' \cup withdrawn \cup Calls!ToSet(Tail(b))
      BY <2>0, <3>2, <3>7
    <3>9. Progress(q, p, Tail(b))'
      BY <2>0, <3>4, <3>6, <3>8 DEF Progress
    <3> QED
      BY <2>0, <2>1, <3>1, <3>2, <3>3, <3>4, <3>9
  <2> QED
    BY <2>0, <2>2, <2>3, <2>4 DEF FlowInv, Reading
<1>6. CASE Calls!SendFails(call) \/ Calls!RemoveFlow(call)
  <2>1. PICK v \in {"idle", "open"} : \E rest : Calls!Reset(call, v, rest)
    BY <1>6 DEF Calls!SendFails, Calls!RemoveFlow
  <2>2. PICK rest : Calls!Reset(call, v, rest)
    BY <2>1
  <2>3. inode' \in [Calls!Ext -> Calls!Inode \cup {None}] /\ lines' = lines
    BY <1>0, <1>6 DEF Calls!SendFails, Calls!RemoveFlow, FlowType
  <2>4. FlowType'
    BY <1>0, <2>2, <2>3, ResetKeeps DEF FlowType, OnSession
  <2>5. /\ fd'[call] = None /\ buf'[call] = << >> /\ pc'[call] = v
        /\ \A s \in Session : s # call => fd'[s] = fd[s] /\ pc'[s] = pc[s]
    BY <1>0, <2>2, ResetKeeps
  <2>6. \A s \in Session : s # call => Idle(s)'
    BY <1>0, <2>5 DEF Idle
  <2> QED
    BY <2>1, <2>4, <2>5, <2>6 DEF FlowInv, Reading
<1>7. CASE Calls!EndSession(call)
  <2>1. /\ pc[call] = "open" /\ pc' = [pc EXCEPT ![call] = "idle"]
        /\ UNCHANGED <<inode, lines, todo, fd, pos, buf>>
    BY <1>7 DEF Calls!EndSession
  <2>2. /\ OnSession(pc') /\ pc'[call] = "idle"
        /\ \A s \in Session : s # call => pc'[s] = pc[s]
    BY <1>0, <2>1 DEF FlowType, OnSession
  <2>3. FlowType'
    BY <1>0, <2>1, <2>2 DEF FlowType, OnSession
  <2>4. \A s \in Session : s # call => Idle(s)'
    BY <1>0, <2>1, <2>2 DEF Idle
  <2> QED
    BY <2>1, <2>2, <2>3, <2>4 DEF FlowInv, Reading
<1>8. CASE \E m \in Mail, e \in Calls!Ext : Calls!Toss(m, e)
  BY <1>8, TossLists
<1>9. CASE Calls!DeleteFind \/ Calls!DeleteFiles
  <2>1. UNCHANGED <<inode, lines, todo, fd, pos, buf, pc>>
    BY <1>9 DEF Calls!DeleteFind, Calls!DeleteFiles, Calls!session
  <2>2. sent \subseteq sent' /\ withdrawn \subseteq withdrawn'
    BY <1>9 DEF Calls!DeleteFind, Calls!DeleteFiles
  <2> QED
    BY <2>1, <2>2, OnlyReads
<1>10. CASE Calls!DeleteFlow
  <2>1. PICK x : inode' = [inode EXCEPT ![x] = None]
    BY <1>10 DEF Calls!DeleteFlow
  <2>2. UNCHANGED <<lines, todo, fd, pos, buf, pc, sent, withdrawn>>
    BY <1>10 DEF Calls!DeleteFlow, Calls!session
  <2>3. /\ inode' \in [Calls!Ext -> Calls!Inode \cup {None}]
        /\ \A e \in Calls!Ext : inode'[e] # None => inode'[e] = inode[e]
    BY <1>0, <2>1 DEF FlowType
  <2>4. FlowType'
    BY <1>0, <2>2, <2>3 DEF FlowType, OnSession
  <2>5. (Reading => OwnFile)'
    <3> SUFFICES ASSUME Reading, NEW e \in Calls!Ext, e = Head(todo[call]), inode'[e] # None
                 PROVE  (/\ fd[call] = inode[e]
                         /\ Progress(lines[inode[e]], pos[call], buf[call])
                         /\ pc[call] # "read" => buf[call] = << >>
                         /\ pc[call] = "remove" => pos[call] = Len(lines[inode[e]]))'
      BY <2>2 DEF Reading, OwnFile
    <3>1. inode'[e] = inode[e] /\ inode[e] # None
      BY <2>3
    <3>2. /\ fd[call] = inode[e]
          /\ Progress(lines[inode[e]], pos[call], buf[call])
          /\ pc[call] # "read" => buf[call] = << >>
          /\ pc[call] = "remove" => pos[call] = Len(lines[inode[e]])
      BY <3>1 DEF FlowInv, OwnFile
    <3> QED
      BY <2>2, <3>1, <3>2 DEF Progress
  <2> QED
    BY <1>0, <2>2, <2>4, <2>5 DEF FlowInv, Idle, Reading
<1> QED
  BY <1>1, <1>2, <1>3, <1>4, <1>5, <1>6, <1>7, <1>8, <1>9, <1>10, CallSteps

\* What a step of a call may forget.
LEMMA FlowForgets ==
  ASSUME FlowInv, Calls!Next, pc'[incoming] = "idle"
  PROVE  \/ Calls!Forgotten' \subseteq Calls!Forgotten
         \/ Calls!DeleteFlow
         \/ /\ Calls!RemoveFlow(call) /\ pc[call] = "cut"
            /\ Calls!Forgotten' \subseteq Calls!Forgotten \cup Calls!Unread(call)
<1>0. FlowType /\ call \in Session /\ None \notin Calls!Inode
  BY FlowConstants DEF FlowInv
<1>1. ASSUME UNCHANGED <<inode, lines, posted>>,
             sent \subseteq sent', withdrawn \subseteq withdrawn'
      PROVE  Calls!Forgotten' \subseteq Calls!Forgotten
  BY <1>1 DEF Calls!Forgotten, Calls!Listed, Calls!Linked
<1>2. CASE \/ Calls!FindFlowFiles(call) \/ Calls!OpenFlow(call) \/ Calls!Fill(call)
           \/ Calls!ScanEnds(call) \/ Calls!ScanFails(call) \/ Calls!SendLine(call)
           \/ Calls!SendFails(call) \/ Calls!EndSession(call)
           \/ Calls!DeleteFind \/ Calls!DeleteFiles
  <2>1. UNCHANGED <<inode, lines, posted>>
    BY <1>2 DEF Calls!FindFlowFiles, Calls!OpenFlow, Calls!Fill, Calls!ScanEnds, Calls!ScanFails,
         Calls!SendLine, Calls!SendFails, Calls!EndSession, Calls!DeleteFind, Calls!DeleteFiles
  <2>2. sent \subseteq sent' /\ withdrawn \subseteq withdrawn'
    BY <1>2 DEF Calls!FindFlowFiles, Calls!OpenFlow, Calls!Fill, Calls!ScanEnds, Calls!ScanFails,
         Calls!SendLine, Calls!SendFails, Calls!EndSession, Calls!DeleteFind, Calls!DeleteFiles
  <2> QED
    BY <1>1, <2>1, <2>2
<1>3. ASSUME NEW m \in Mail, NEW e \in Calls!Ext, Calls!Toss(m, e)
      PROVE  Calls!Forgotten' \subseteq Calls!Forgotten
  <2>1. posted' = posted \cup {m} /\ UNCHANGED <<sent, withdrawn>>
    BY <1>3 DEF Calls!Toss
  <2>2. m \in Calls!Listed' /\ Calls!Listed \subseteq Calls!Listed'
    BY <1>3, TossLists
  <2> QED
    BY <2>1, <2>2 DEF Calls!Forgotten
<1>4. CASE Calls!RemoveFlow(call)
  <2>0. PICK h : h = Head(todo[call])
    OBVIOUS
  <2>1. /\ pc[call] \in {"remove", "cut"}
        /\ inode' = [inode EXCEPT ![h] = None]
        /\ UNCHANGED <<lines, posted, sent, withdrawn>>
    BY <1>4, <2>0 DEF Calls!RemoveFlow
  <2>2. ASSUME NEW x \in Calls!Listed, x \notin Calls!Listed'
        PROVE  \/ x \in sent \cup withdrawn
               \/ pc[call] = "cut" /\ x \in Calls!Unread(call)
    <3>1. PICK i \in Calls!Linked : x \in Calls!ToSet(lines[i])
      BY DEF Calls!Listed
    <3>2. PICK e \in Calls!Ext : inode[e] = i
      BY DEF Calls!Linked
    <3>3. i \in Calls!Inode /\ i # None
      BY <1>0 DEF Calls!Linked
    <3>4. e = h
      <4> SUFFICES ASSUME e # h PROVE FALSE
        OBVIOUS
      <4>1. inode'[e] = i
        BY <1>0, <2>1, <3>2 DEF FlowType
      <4>2. i \in Calls!Linked'
        BY <3>3, <4>1 DEF Calls!Linked
      <4> QED
        BY <2>1, <2>2, <3>1, <4>2 DEF Calls!Listed
    <3>5. PICK q \in Seq(Mail) : q = lines[i]
      BY <1>0, <3>3 DEF FlowType
    <3>6. PICK p : p = pos[call]
      OBVIOUS
    <3>7. /\ fd[call] = i
          /\ Progress(q, p, << >>)
          /\ pc[call] = "remove" => p = Len(q)
      BY <2>0, <2>1, <3>2, <3>3, <3>4, <3>5, <3>6 DEF FlowInv, OwnFile, Reading
    <3>8. PICK j \in 1 .. Len(q) : x = q[j]
      BY <3>1, <3>5 DEF Calls!ToSet
    <3>9. p \in 0 .. Len(q)
      BY <3>7 DEF Progress
    <3>10. CASE j <= p
      <4>1. j \in 1 .. p
        BY <3>9, <3>10
      <4>2. q[j] \in sent \cup withdrawn \cup Calls!ToSet(<< >>)
        BY <3>7, <4>1 DEF Progress
      <4>3. Calls!ToSet(<< >>) = {}
        BY DEF Calls!ToSet
      <4> QED
        BY <3>8, <4>2, <4>3
    <3>11. CASE ~(j <= p)
      <4>1. pc[call] = "cut"
        BY <2>1, <3>7, <3>9, <3>11
      <4>2. q[j] \in Calls!ToSet(SubSeq(q, p + 1, Len(q)))
        BY <3>9, <3>11, ReadOrNot
      <4>3. x \in Calls!Unread(call)
        BY <3>5, <3>6, <3>7, <3>8, <4>2 DEF Calls!Unread
      <4> QED
        BY <4>1, <4>3
    <3> QED
      BY <3>10, <3>11
  <2>3. ASSUME NEW x \in Calls!Forgotten', x \notin Calls!Forgotten
        PROVE  pc[call] = "cut" /\ x \in Calls!Unread(call)
    <3>1. x \notin Calls!Listed' /\ x \notin sent \cup withdrawn /\ x \in posted
      BY <2>1, <2>3 DEF Calls!Forgotten
    <3>2. x \in Calls!Listed
      BY <2>3, <3>1 DEF Calls!Forgotten
    <3> QED
      BY <2>2, <3>1, <3>2
  <2> QED
    BY <1>4, <2>3
<1> QED
  BY <1>2, <1>3, <1>4, CallSteps

LEMMA FlowStart ==
  ASSUME Init
  PROVE  FlowInv
<1>1. /\ inode = [e \in Ext |-> None] /\ lines = [i \in Inode |-> << >>]
      /\ todo = [s \in Session |-> << >>] /\ fd = [s \in Session |-> None]
      /\ pos = [s \in Session |-> 0] /\ buf = [s \in Session |-> << >>]
      /\ pc = [s \in Session |-> "idle"] /\ posted = {}
  BY DEF Init
<1>2. Ext = Calls!Ext /\ Inode = Calls!Inode
  BY DEF Ext, Calls!Ext, ToSet, Calls!ToSet, Inode, Calls!Inode
<1>3. << >> \in Seq(Mail)
  OBVIOUS
<1>4. FlowType
  BY <1>1, <1>2, <1>3 DEF FlowType, OnSession
<1>5. call \in Session
  BY FlowConstants
<1> QED
  BY <1>1, <1>4, <1>5 DEF FlowInv, Idle, Reading

\* The instance's words are the module's.
LEMMA SameWords ==
  /\ Calls!Forgotten = Forgotten /\ Calls!Forgotten' = Forgotten'
  /\ \A s \in Session : Calls!Unread(s) = Unread(s)
  /\ \A s \in Session : Calls!RemoveFlow(s) <=> RemoveFlow(s)
<1>1. Calls!Listed = Listed /\ Calls!Listed' = Listed'
  BY DEF Calls!Listed, Listed, Calls!Linked, Linked, Calls!Inode, Inode, Calls!Ext, Ext,
         Calls!ToSet, ToSet
<1> QED
  BY <1>1 DEF Calls!Forgotten, Forgotten, Calls!Unread, Unread, Calls!ToSet, ToSet,
         Calls!RemoveFlow, RemoveFlow, Calls!Reset, Reset

\* A call forgets no mail, wherever it fails, but what a failed scanner did not reach: it holds
\* the .bsy file that keeps the tosser out, so a flow file it has read to the end is removed with
\* no line in it that was neither sent nor withdrawn.
THEOREM CallsKeepMail == MCSpec => CallsForgetOnlyUnread
<1> DEFINE Inv == part = "calls" => FlowInv
           Forgets ==
             part = "calls" =>
               \/ Forgotten' \subseteq Forgotten
               \/ Calls!DeleteFlow
               \/ \E s \in Session :
                    /\ Calls!RemoveFlow(s) /\ pc[s] = "cut"
                    /\ Forgotten' \subseteq Forgotten \cup Unread(s)
<1>1. MCInit => Inv
  BY FlowStart DEF MCInit
<1>2. Inv /\ [MCNext]_allVars => Inv'
  <2> SUFFICES ASSUME Inv, [MCNext]_allVars PROVE Inv'
    OBVIOUS
  <2>1. CASE CallsStep(Calls!Next)
    BY <2>1, FlowStep DEF CallsStep
  <2>2. CASE part' # "calls"
    BY <2>2
  <2>3. CASE UNCHANGED allVars
    <3>1. UNCHANGED <<part, inode, lines, todo, fd, pos, buf, pc, sent, withdrawn>>
      BY <2>3 DEF allVars, vars
    <3> QED
      BY <3>1, OnlyReads
  <2> QED
    BY <2>1, <2>2, <2>3 DEF MCNext, EditsStep
<1>3. Inv /\ [MCNext]_allVars => [Forgets]_allVars
  <2> SUFFICES ASSUME Inv, [MCNext]_allVars, ~ UNCHANGED allVars, part = "calls"
               PROVE  Forgets
    OBVIOUS
  <2>1. CallsStep(Calls!Next)
    BY DEF MCNext, EditsStep
  <2>2. \/ Calls!Forgotten' \subseteq Calls!Forgotten
        \/ Calls!DeleteFlow
        \/ /\ Calls!RemoveFlow(call) /\ pc[call] = "cut"
           /\ Calls!Forgotten' \subseteq Calls!Forgotten \cup Calls!Unread(call)
    BY <2>1, FlowForgets DEF CallsStep
  <2>3. call \in Session
    BY FlowConstants
  <2>4. Calls!Forgotten = Forgotten /\ Calls!Forgotten' = Forgotten'
    BY SameWords
  <2>5. Calls!Unread(call) = Unread(call)
    BY <2>3, SameWords
  <2> QED
    BY <2>2, <2>3, <2>4, <2>5
<1> QED
  BY <1>1, <1>2, <1>3, PTL DEF MCSpec, CallsForgetOnlyUnread
=============================================================================
