------------------------------ MODULE Nodelist ------------------------------
(***************************************************************************)
(* How a nodelist is read (nodelist.go, parseFile): line by line, with the *)
(* zone and the net that the lines before have set.  A line is its keyword *)
(* and its number; the names, the telephone number and the flags of an     *)
(* entry are those of its line.                                            *)
(***************************************************************************)
EXTENDS Naturals, FiniteSets, SequencesExt, TLC

CONSTANTS
  Keyword,       \* keywords of lines: a subset of Known
  Number,        \* numbers of lines
  MaxNumber,     \* the largest number that fits: 65535 in the code
  Independents,  \* whether a region has nodes before its first host
  MaxLines       \* bound: lines

\* "node" stands for pvt, hold, down and no keyword; "other" for a comment, a line of less than
\* 7 fields and an unknown keyword; "eof" for the end-of-file character.
Known == {"zone", "region", "host", "hub", "node", "other", "eof"}

KeywordAssumption == Keyword \subseteq Known /\ Independents \in BOOLEAN
NumberAssumption == Number \subseteq Nat /\ MaxNumber \in Nat /\ MaxLines \in Nat

VARIABLES
  file,    \* the lines so far
  zone,    \* currentZone
  net,     \* currentNet
  nodes,   \* the line of each address
  eof      \* whether the loop has been left

vars == <<file, zone, net, nodes, eof>>

Uint16 == 0 .. MaxNumber

TypeOK ==
  /\ file \in Seq([keyword : Keyword, number : Number])
  /\ zone \in Uint16 /\ net \in Uint16 /\ eof \in BOOLEAN
  /\ DOMAIN nodes \subseteq Uint16 \X Uint16 \X Uint16
  /\ \A a \in DOMAIN nodes : nodes[a] \in 1 .. Len(file)

Init == file = <<>> /\ zone = 1 /\ net = 0 /\ nodes = <<>> /\ eof = FALSE

-----------------------------------------------------------------------------
\* ParseUint with 16 bits; a line with another number is skipped.
Fits(number) == number <= MaxNumber

\* The next line of the file, which begins with a coordinator: a list of a zone, a region or a net.
Line(keyword, number) ==
  /\ file = <<>> => keyword \in {"zone", "region", "host", "other"}
  /\ ~eof /\ Len(file) < MaxLines /\ keyword \in Keyword
  /\ file' = Append(file, [keyword |-> keyword, number |-> number])

\* The entry of the line, instead of an earlier one of the address.
Enter(addr) == nodes' = (addr :> Len(file) + 1) @@ nodes

\* Mutant of ReadZone: the net stays the one of the zone before.
ReadZoneKeepsNet(n) ==
  /\ Line("zone", n) /\ Fits(n)
  /\ zone' = n /\ Enter(<<n, n, 0>>)
  /\ UNCHANGED <<net, eof>>

ReadZone(n) ==
  /\ Line("zone", n) /\ Fits(n)
  /\ zone' = n /\ net' = n /\ Enter(<<n, n, 0>>)
  /\ UNCHANGED eof

\* currentRegion is set, and not used.
ReadRegion(n) ==
  /\ Line("region", n) /\ Fits(n)
  /\ Enter(<<zone, n, 0>>)
  /\ UNCHANGED <<zone, net, eof>>

ReadHost(n) ==
  /\ \E keyword \in {"host", "hub"} : Line(keyword, n)
  /\ Fits(n)
  /\ net' = n /\ Enter(<<zone, n, 0>>)
  /\ UNCHANGED <<zone, eof>>

\* The line that a line belongs to, by the rules of the nodelist: the last of a zone, a region or
\* a host, that is not after it; 0 if there is none.
Owner(i) == Max({0} \cup {j \in 1 .. i : file[j].keyword \in {"zone", "region", "host"} /\ Fits(file[j].number)})

ReadNode(n) ==
  /\ Line("node", n) /\ Fits(n)
  /\ (Owner(Len(file)) > 0 /\ file[Owner(Len(file))].keyword = "region") => Independents
  /\ Enter(<<zone, net, n>>)
  /\ UNCHANGED <<zone, net, eof>>

SkipLine(n) ==
  /\ \E keyword \in Keyword \ {"eof"} : Line(keyword, n) /\ (keyword = "other" \/ ~Fits(n))
  /\ UNCHANGED <<zone, net, nodes, eof>>

EndOfFile(n) ==
  /\ Line("eof", n) /\ eof' = TRUE
  /\ UNCHANGED <<zone, net, nodes>>

Next ==
  \E n \in Number :
    ReadZone(n) \/ ReadRegion(n) \/ ReadHost(n) \/ ReadNode(n) \/ SkipLine(n) \/ EndOfFile(n)

Spec == Init /\ [][Next]_vars

-----------------------------------------------------------------------------
(* Properties.                                                              *)

Entry(i) == file[i].keyword \notin {"other", "eof"} /\ Fits(file[i].number)

ZoneOf(i) ==
  LET z == Max({0} \cup {j \in 1 .. i : file[j].keyword = "zone" /\ Fits(file[j].number)})
  IN IF z = 0 THEN 1 ELSE file[z].number

\* The address of an entry by the rules: coordinators have 0, a hub is a node of its net.
AddressOf(i) ==
  <<ZoneOf(i), IF Owner(i) = 0 THEN 0 ELSE file[Owner(i)].number,
    IF Owner(i) = i THEN 0 ELSE file[i].number>>

\* Each entry of the nodelist is found under its address, the last of one address, and nothing
\* else ("Retrieves information for a specific node from the loaded nodelist", openapi.yaml:122).
EntriesFound ==
  LET entries == {i \in 1 .. Len(file) : Entry(i)} IN
  /\ DOMAIN nodes = {AddressOf(i) : i \in entries}
  /\ \A a \in DOMAIN nodes : nodes[a] = Max({i \in entries : AddressOf(i) = a})
=============================================================================
