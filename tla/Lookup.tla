------------------------------- MODULE Lookup -------------------------------
(***************************************************************************)
(* How the scheduler finds the host of a node that mail is for             *)
(* (scheduler.go, findLink): the configuration, then the nodelist and the  *)
(* DNS in the order of the lookup method; and the address that Dial makes  *)
(* of it.  A behaviour is one call.                                        *)
(***************************************************************************)
EXTENDS Naturals, SequencesExt, FiniteSetsExt

CONSTANTS
  Flag,       \* flags of nodelist entries: a subset of AnyFlag
  MaxFlags,   \* bound: flags of an entry
  DNSHost,    \* what the DNS may know: a subset of {"d", IPv6}
  Secret,     \* the password of the node's link
  None

\* An address with colons.
IPv6 == "6"

\* A flag is its kind and what follows the colon: INA:a is [kind |-> "INA", value |-> "a"].
AnyFlag == {[kind |-> "IBN", value |-> ""], [kind |-> "IBN", value |-> "24555"],
            [kind |-> "INA", value |-> "a"], [kind |-> "INA", value |-> "b"],
            [kind |-> "CM", value |-> ""]}

FlagAssumption == Flag \subseteq AnyFlag /\ MaxFlags \in Nat
HostAssumption == DNSHost \subseteq {"d", IPv6}

Method == {"", "nodelist", "dns", "binkp.net"}

\* A link of the configuration with the node's address: host and port, "" for none.
Link == [host : {"", "c", IPv6}, port : {""}, method : Method, password : {"", Secret}]
        \cup [host : {"c"}, port : {"24556"}, method : {""}, password : {"", Secret}]

\* What a call depends on: the links with the node's address, in their order, the flags of its
\* entry in the nodelist, what the DNS knows, and the settings.
Input == [links : {<<>>} \cup {<<l>> : l \in Link} \cup {<<l, [l EXCEPT !.host = "c"]>> : l \in Link},
          entry : BoundedSeq(Flag, MaxFlags) \cup {None}, dns : DNSHost \cup {None},
          disableDNS : BOOLEAN, method : Method]

VARIABLES
  input,    \* what the call depends on
  link,     \* what findLink returns; None before
  dialed    \* what Dial dials: a host and a port, and whether it is the two that were meant

vars == <<input, link, dialed>>

Hosts == {"", "a", "b", "c", "d", IPv6}
Ports == {"", "24554", "24555", "24556"}

Found == [source : {"none", "config", "nodelist", "dns"}, host : Hosts, port : Ports, password : {"", Secret}]

TypeOK ==
  /\ input \in Input
  /\ link # None => link \in Found /\ (link.source = "none" => link.host = "" /\ link.port = "")
  /\ dialed # None => dialed \in [host : Hosts, port : Ports \ {""}, whole : BOOLEAN]

-----------------------------------------------------------------------------
(* GetBinkpAddress: IBN says that the node has binkp, the last INA where.   *)
(* What IBN has after its colon is not looked at.                           *)

Binkp(flags) == \E i \in DOMAIN flags : flags[i].kind = "IBN"

BinkpHost(flags) ==
  LET ina == {i \in DOMAIN flags : flags[i].kind = "INA"}
  IN IF ina = {} THEN "" ELSE flags[Max(ina)].value

-----------------------------------------------------------------------------
(* findLink.  The first link of the address counts, and only it.            *)

Configured(in) == in.links # <<>>

NoLink == [source |-> "none", host |-> "", port |-> "", password |-> ""]

PasswordOf(in) == IF Configured(in) THEN Head(in.links).password ELSE ""

LookupNodelist(in) ==
  IF in.entry # None /\ Binkp(in.entry)
  THEN [source |-> "nodelist", host |-> BinkpHost(in.entry), port |-> "24554", password |-> PasswordOf(in)]
  ELSE NoLink

LookupDNS(in) ==
  IF ~in.disableDNS /\ in.dns # None
  THEN [source |-> "dns", host |-> in.dns, port |-> "24554", password |-> PasswordOf(in)]
  ELSE NoLink

\* Mutant of PreferDNS: the link's own method does not count.
PreferDNSGlobally(in) == in.method \in {"dns", "binkp.net"}

\* The link's own method, or the one for all.
PreferDNS(in) ==
  LET own == IF Configured(in) THEN Head(in.links).method ELSE ""
  IN (IF own # "" THEN own ELSE in.method) \in {"dns", "binkp.net"}

FindLink(in) ==
  LET first  == IF PreferDNS(in) THEN LookupDNS(in) ELSE LookupNodelist(in)
      second == IF PreferDNS(in) THEN LookupNodelist(in) ELSE LookupDNS(in)
  IN IF Configured(in) /\ Head(in.links).host # ""
     THEN [source |-> "config", host |-> Head(in.links).host, port |-> Head(in.links).port,
           password |-> Head(in.links).password]
     ELSE IF first # NoLink THEN first ELSE second

\* Dial: what cannot be split into host and port is a host; host:port is not split when the host
\* is an IPv6 address without brackets, and taken whole for the host.
Dialed(l) ==
  IF l.port # "" /\ l.host # IPv6
  THEN [host |-> l.host, port |-> l.port, whole |-> TRUE]
  ELSE [host |-> l.host, port |-> "24554", whole |-> l.port = ""]

-----------------------------------------------------------------------------
Init == input \in Input /\ link = None /\ dialed = None

Find == link = None /\ link' = FindLink(input) /\ UNCHANGED <<input, dialed>>

\* Nodes that are not found are passed over.
Dial ==
  /\ link # None /\ link.source # "none"
  /\ dialed = None /\ dialed' = Dialed(link)
  /\ UNCHANGED <<input, link>>

Next == Find \/ Dial

Spec == Init /\ [][Next]_vars

-----------------------------------------------------------------------------
(* Properties.                                                              *)

\* The host of the node that a source knows, "" if it knows none: an entry of the nodelist needs
\* the flag IBN, and INA, which says where.
HostOf(source) ==
  CASE source = "config"   -> IF Configured(input) THEN Head(input.links).host ELSE ""
    [] source = "nodelist" -> IF input.entry # None /\ Binkp(input.entry)
                              THEN BinkpHost(input.entry) ELSE ""
    [] source = "dns"      -> IF input.disableDNS \/ input.dns = None THEN "" ELSE input.dns

\* The configuration, then the preferred method, the link's own before the general one, then the
\* other.
Order ==
  LET own == IF Configured(input) THEN Head(input.links).method ELSE ""
      method == IF own = "" THEN input.method ELSE own
  IN <<"config">> \o (IF method \in {"", "nodelist"} THEN <<"nodelist", "dns">>
                      ELSE <<"dns", "nodelist">>)

\* An entry that findLink returns though it says of no host: HostKnown is about it.
Hostless == link.source = "nodelist" /\ link.host = ""

\* The host is that of the first source that knows one, and the password that of the node's own
\* link, whoever knew the host; a node is not found only if nobody knows it (findLink).
FirstThatKnows ==
  link # None /\ ~Hostless =>
    LET known == SelectSeq(Order, LAMBDA source : HostOf(source) # "")
    IN IF known = <<>> THEN link.source = "none"
       ELSE /\ link.source = Head(known) /\ link.host = HostOf(Head(known))
            /\ link.password = PasswordOf(input)

\* A method that does not know the host has failed, and the other is tried ("If the preferred
\* method fails, the other method is tried as a fallback", config.yaml.dist:52).
HostKnown == dialed # None /\ dialed.host = "" => HostOf("dns") = ""

\* The port is the one of the node's flags ("GetBinkpAddress extracts the BinkP hostname and port
\* from the node's flags", nodelist.go:161).
FlagPort ==
  dialed # None /\ link.source = "nodelist" =>
    \A i \in DOMAIN input.entry :
      input.entry[i].kind = "IBN" /\ input.entry[i].value # "" => dialed.port = input.entry[i].value

\* The address that the DNS has is the one that is dialed ("DNS-based address resolution",
\* README.md:26).
ResolvedDialed == dialed # None /\ link.source = "dns" => dialed.whole
=============================================================================
