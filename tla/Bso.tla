--------------------------------- MODULE Bso ---------------------------------
(***************************************************************************)
(* The names in a Binkley-style outbound directory: where momail puts the  *)
(* files of an address (getBsoBase, GetPollFilePath), which files a        *)
(* session sends to it (FindFlowFiles, processNetmail), and which address  *)
(* scanOutbound reads from a name.  A name is its hexadecimal digits, its  *)
(* extension and whether it is in upper case.                              *)
(***************************************************************************)
EXTENDS FlowExt, Integers, FiniteSets, SequencesExt

CONSTANTS
  Addr,         \* addresses mail is for: records of zone, net, node and point
  Foreign,      \* files other programs may put there
  DefaultZone,
  PollFlavor,   \* flavours asked for with -q, queue_poll and PATCH
  MaxFiles      \* bound: files in the directory

Uint16 == 0 .. 65535

AddrAssumption == Addr \subseteq [zone : Uint16, net : Uint16, node : Uint16, point : Uint16]
ZoneAssumption == DefaultZone \in Uint16 /\ MaxFiles \in Nat

VARIABLES
  tree,     \* the files there are
  polls     \* what momail was asked for: <<address, file>>, as long as the file is there

vars == <<tree, polls>>

-----------------------------------------------------------------------------
(* Numbers in names.                                                        *)

\* Mutant of Hex: no leading zeros.
HexUnpadded(n, width) ==
  LET len == IF n < 16 THEN 1 ELSE IF n < 256 THEN 2 ELSE IF n < 4096 THEN 3 ELSE 4
  IN [i \in 1 .. len |-> (n \div 16 ^ (len - i)) % 16]

\* fmt's %03x and %04x of a uint16: width is a minimum.
Hex(n, width) ==
  IF width = 3 /\ n < 4096
  THEN <<n \div 256, (n \div 16) % 16, n % 16>>
  ELSE <<n \div 4096, (n \div 256) % 16, (n \div 16) % 16, n % 16>>

\* strconv.ParseUint(s, 16, 16), of the three or four digits that scanOutbound cuts out.
ParseHex(s) ==
  IF Len(s) = 3 THEN 256 * s[1] + 16 * s[2] + s[3]
  ELSE 4096 * s[1] + 256 * s[2] + 16 * s[3] + s[4]

-----------------------------------------------------------------------------
(* Directories and files.  zone is <<>> for "outbound"; pnt is <<>> in the  *)
(* zone's directory itself.                                                 *)

\* getBsoBase, and the same computation in FindFlowFiles and processNetmail.
BsoFile(a, ext) ==
  LET system == Hex(a.net, 4) \o Hex(a.node, 4)
  IN [zone   |-> IF a.zone = DefaultZone THEN <<>> ELSE Hex(a.zone, 3),
      pnt    |-> IF a.point # 0 THEN system ELSE <<>>,
      digits |-> IF a.point # 0 THEN <<0, 0, 0, 0>> \o Hex(a.point, 4) ELSE system,
      ext    |-> ext,
      upper  |-> FALSE]

\* GetPollFilePath.
PollExt(flavor) ==
  CASE flavor \in {"normal", "flo"}  -> ".flo"
    [] flavor \in {"direct", "dlo"}  -> ".dlo"
    [] flavor \in {"hold", "hlo"}    -> ".hlo"
    [] OTHER                         -> ".clo"

\* FindFlowFiles and processNetmail: the files a session with a sends.
SentTo(a) == {f \in tree : \E ext \in SentExt : f = BsoFile(a, ext)}

\* Names of twelve characters only: ".lo" does not make one with eight digits.
TwelveLong(f) == Len(f.digits) = 8 /\ f.ext # ".lo"

\* Mutant of Scanned: the zone of a directory with a suffix is not looked at.
ScannedZoneless(f) ==
  [zone |-> DefaultZone, net |-> ParseHex(SubSeq(f.digits, 1, 4)),
   node |-> ParseHex(SubSeq(f.digits, 5, 8)), point |-> 0]

\* scanOutbound: the address a name stands for, in whatever case.
Scanned(f) ==
  LET system == IF f.pnt = <<>> THEN f.digits ELSE f.pnt
  IN [zone  |-> IF f.zone = <<>> THEN DefaultZone ELSE ParseHex(f.zone),
      net   |-> ParseHex(SubSeq(system, 1, 4)),
      node  |-> ParseHex(SubSeq(system, 5, 8)),
      point |-> IF f.pnt = <<>> THEN 0 ELSE ParseHex(SubSeq(f.digits, 5, 8))]

\* scanOutbound: which names it reads.
IsScanned(f) ==
  /\ Len(f.zone) \in {0, 3}
  /\ Len(f.pnt) \in {0, 8}
  /\ TwelveLong(f) /\ f.ext \in ValidFlowExt

Queue == {Scanned(f) : f \in {g \in tree : IsScanned(g)}}

\* aggregatedData: the flavour an address is queued with.
QueuedFlavor(a) == FlavorOf({f.ext : f \in {g \in tree : IsScanned(g) /\ Scanned(g) = a}})

-----------------------------------------------------------------------------
Init == tree = {} /\ polls = {}

\* momail -q and queue_poll.
QueuePoll(a, flavor) ==
  LET f == BsoFile(a, PollExt(flavor))
  IN /\ Cardinality(tree \cup {f}) <= MaxFiles
     /\ tree' = tree \cup {f}
     /\ polls' = polls \cup {<<a, f>>}

\* A tosser puts a file there.
Toss(f) ==
  /\ Cardinality(tree \cup {f}) <= MaxFiles
  /\ tree' = tree \cup {f}
  /\ UNCHANGED polls

\* A session with a sends, and removes, what it finds.
SendAndRemove(a) ==
  /\ SentTo(a) # {}
  /\ tree' = tree \ SentTo(a)
  /\ polls' = {p \in polls : p[2] \notin SentTo(a)}

\* PATCH: every flow file of a is renamed to the one flavour, over each other.
SetFlavor(a, flavor) ==
  LET flows == {f \in SentTo(a) : f.ext \in {".clo", ".dlo", ".hlo", ".flo"}}
      new == BsoFile(a, PollExt(flavor))
  IN /\ flows # {}
     /\ tree' = (tree \ flows) \cup {new}
     /\ polls' = {p \in polls : p[2] \notin flows} \cup {<<a, new>>}

Next ==
  \/ \E a \in Addr, flavor \in PollFlavor : QueuePoll(a, flavor) \/ SetFlavor(a, flavor)
  \/ \E f \in Foreign : Toss(f)
  \/ \E a \in Addr : SendAndRemove(a)

Spec == Init /\ [][Next]_vars

-----------------------------------------------------------------------------
(* Properties.                                                              *)

TypeOK ==
  /\ \A f \in tree : \A s \in {f.zone, f.pnt, f.digits} : s \in Seq(0 .. 15)
  /\ Cardinality(tree) <= MaxFiles
  /\ \A p \in polls : p[1] \in Addr /\ p[2] \in tree

\* scanOutbound against getBsoBase: a poll momail has created is read back, as a poll of the
\* address it was created for and with the flavour asked for, or a more urgent one.
PollsQueued ==
  \A p \in polls :
    /\ p[1] \in Queue
    /\ \E e \in ValidFlowExt : /\ StateFromExt(e) = QueuedFlavor(p[1])
                               /\ PriorityFromExt(e) <= PriorityFromExt(p[2].ext)

\* No file is sent to two addresses: names of different addresses never meet, not even
\* those of a point and a node.
OneAddressee ==
  \A f \in tree : Cardinality({a \in Addr : f \in SentTo(a)}) <= 1

\* config.yaml.dist:119: the structure is outbound.ZZZ/NNNNFFFF.pnt; what the scan queues for
\* an address, and calls it for, a session with it sends.
OutboundAgrees ==
  \A f \in tree : IsScanned(f) /\ Scanned(f) \in Addr => f \in SentTo(Scanned(f))
=============================================================================
