------------------------------- MODULE MCNodes -------------------------------
(* Instances of NodelistStore, Nodelist, Lookup and Address for TLC.  A run *)
(* explores the parts of Part; the variables of the modules that a part is  *)
(* not about stand still.                                                   *)
(*   "store"    two nodelists, corrected and replaced between loads;        *)
(*   "parse"    every nodelist of up to four lines, without hubs and        *)
(*              independent nodes;                                          *)
(*   "lookup"   everything that the configuration, the nodelist and the DNS *)
(*              may have for a node;                                        *)
(*   "address"  every input of up to seven tokens, with a number that does  *)
(*              not fit into 16 bits.                                       *)
EXTENDS NodelistStore, TLC

CONSTANTS Part, nodelist, points, api, Pending, Error

VARIABLES
  part,                                   \* it never changes
  lineList, zone, net, nodes, eof,        \* Nodelist's
  query, link, dialed,                    \* Lookup's
  spelling, defaultZone, result           \* Address's

parseVars == <<lineList, zone, net, nodes, eof>>
lookupVars == <<query, link, dialed>>
addressVars == <<spelling, defaultZone, result>>
allVars == <<vars, parseVars, lookupVars, addressVars, part>>

MCBase == {nodelist, points}
MCDay == nodelist :> <<1, 2>> @@ points :> <<1>>

Parser == INSTANCE Nodelist WITH
  Keyword <- {"zone", "region", "host", "node", "other", "eof"}, Number <- 0 .. 3,
  MaxNumber <- 2, Independents <- FALSE, MaxLines <- 4, file <- lineList

\* A node whose entry may have each kind of flag, two at most.
Lookups == INSTANCE Lookup WITH
  Flag <- {[kind |-> "IBN", value |-> ""], [kind |-> "IBN", value |-> "24555"],
           [kind |-> "INA", value |-> "a"], [kind |-> "INA", value |-> "b"],
           [kind |-> "CM", value |-> ""]},
  MaxFlags <- 2, DNSHost <- {"d", "6"}, Secret <- "secret", input <- query

Addresses == INSTANCE Address WITH
  Numeral <- {0, 7, 65536}, MaxLen <- 7, input <- spelling, zone <- defaultZone

ASSUME ParserAssumption == Parser!KeywordAssumption /\ Parser!NumberAssumption
ASSUME LookupAssumption == Lookups!FlagAssumption /\ Lookups!HostAssumption
ASSUME AddressesAssumption == Addresses!NumeralAssumption /\ Addresses!MaxLenAssumption

\* One input, for the other parts.
NoQuery ==
  /\ query = [links |-> <<>>, entry |-> None, dns |-> None, disableDNS |-> FALSE, method |-> ""]
  /\ link = None /\ dialed = None
NoSpelling == spelling = <<>> /\ defaultZone = 0 /\ result = Error

MCInit ==
  /\ part \in Part
  /\ Init /\ Parser!Init
  /\ IF part = "lookup" THEN Lookups!Init ELSE NoQuery
  /\ IF part = "address" THEN Addresses!Init ELSE NoSpelling

MCNext ==
  /\ part' = part
  /\ \/ part = "store" /\ Next /\ UNCHANGED <<parseVars, lookupVars, addressVars>>
     \/ part = "parse" /\ Parser!Next /\ UNCHANGED <<vars, lookupVars, addressVars>>
     \/ part = "lookup" /\ Lookups!Next /\ UNCHANGED <<vars, parseVars, addressVars>>
     \/ part = "address" /\ Addresses!Next /\ UNCHANGED <<vars, parseVars, lookupVars>>

MCSpec == MCInit /\ [][MCNext]_allVars

\* An entry of the nodelist is found under its address, and nothing else (parse of nodelist.go).
EntriesFound == part = "parse" => Parser!EntriesFound

\* findLink takes the host of the first source that knows one: the configuration, then the
\* preferred method, then the other one.
FirstThatKnows == part = "lookup" => Lookups!FirstThatKnows

\* ParseFidoAddress accepts the spellings of addresses, and nothing else.
ParsesSpellings == part = "address" => Addresses!ParsesSpellings

\* What String prints, ParseFidoAddress reads back, whatever zone is the default.
RoundTrip == Addresses!RoundTrip
=============================================================================
