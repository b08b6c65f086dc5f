------------------------------- MODULE Address -------------------------------
(***************************************************************************)
(* ParseFidoAddress and String of ftn/address.go.  The input is a sequence *)
(* of tokens: the three separators, numerals (no two of them adjacent) and *)
(* junk, any other character.                                              *)
(***************************************************************************)
EXTENDS Integers, SequencesExt

CONSTANTS
  Numeral,   \* numbers that occur; the largest may not fit into 16 bits
  MaxLen,    \* bound: tokens of an input
  Pending, Error   \* not yet called; an error is returned

\* A numeral, and any other token.
N(n) == [kind |-> "number", value |-> n]
T(kind) == [kind |-> kind, value |-> 0]

Token == {T(":"), T("/"), T("."), T("junk")} \cup {N(n) : n \in Numeral}
Uint16 == 0 .. 65535

NumeralAssumption == Numeral \subseteq Nat
MaxLenAssumption == MaxLen \in Nat

VARIABLES
  input,
  zone,     \* the default zone the caller gives
  result    \* what the function returns, an address or Error

vars == <<input, zone, result>>

Input == {s \in UNION {[1 .. len -> Token] : len \in 0 .. MaxLen} :
            \A i \in 1 .. Len(s) - 1 : ~(s[i].kind = "number" /\ s[i + 1].kind = "number")}

-----------------------------------------------------------------------------
\* strings.SplitN(s, sep, 2): at the first separator.
SplitN(s, sep) ==
  LET at == SelectInSeq(s, LAMBDA t : t.kind = sep)
  IN IF at = 0 THEN <<s>> ELSE <<SubSeq(s, 1, at - 1), SubSeq(s, at + 1, Len(s))>>

\* strconv.ParseUint(s, 10, 16): a single number that fits, or an error.
ParseUint(s) ==
  IF Len(s) = 1 /\ s[1].kind = "number" /\ s[1].value \in Uint16 THEN s[1].value ELSE Error

\* Mutant of ParseFidoAddress: the zone of an address without one stays 0.
ParseIgnoresDefault(addr, defaultZone) ==
  LET byZone   == SplitN(addr, ":")
      byPoint  == SplitN(byZone[Len(byZone)], ".")
      byNet    == SplitN(byPoint[1], "/")
      z == IF Len(byZone) = 2 THEN ParseUint(byZone[1]) ELSE 0
      p == IF Len(byPoint) = 2 THEN ParseUint(byPoint[2]) ELSE 0
  IN IF Len(byNet) # 2 THEN Error
     ELSE LET n == ParseUint(byNet[1])
              f == ParseUint(byNet[2])
          IN IF Error \in {z, n, f, p} THEN Error
             ELSE [zone |-> z, net |-> n, node |-> f, point |-> p]

ParseFidoAddress(addr, defaultZone) ==
  LET byZone   == SplitN(addr, ":")
      byPoint  == SplitN(byZone[Len(byZone)], ".")
      byNet    == SplitN(byPoint[1], "/")
      z == IF Len(byZone) = 2 THEN ParseUint(byZone[1]) ELSE defaultZone
      p == IF Len(byPoint) = 2 THEN ParseUint(byPoint[2]) ELSE 0
  IN IF Len(byNet) # 2 THEN Error
     ELSE LET n == ParseUint(byNet[1])
              f == ParseUint(byNet[2])
          IN IF Error \in {z, n, f, p} THEN Error
             ELSE [zone |-> z, net |-> n, node |-> f, point |-> p]

\* Mutant of String: the point is always left out.
StringNoPoint(a) == <<N(a.zone), T(":"), N(a.net), T("/"), N(a.node)>>

\* FidoAddress.String: the point only if there is one.
String(a) ==
  <<N(a.zone), T(":"), N(a.net), T("/"), N(a.node)>> \o
  (IF a.point = 0 THEN <<>> ELSE <<T("."), N(a.point)>>)

Init == input \in Input /\ zone \in Numeral \cap Uint16 /\ result = Pending

Parse ==
  /\ result = Pending
  /\ result' = ParseFidoAddress(input, zone)
  /\ UNCHANGED <<input, zone>>

\* What a queue entry, a link or an M_ADR frame goes through: printed, and parsed by
\* somebody with another default zone.
Respell ==
  /\ result \notin {Pending, Error}
  /\ input' = String(result)
  /\ zone' \in Numeral \cap Uint16
  /\ result' = Pending

Next == Parse \/ Respell

Spec == Init /\ [][Next]_vars

-----------------------------------------------------------------------------
\* Reference definition: the spellings of an address, with the zone or without, with a point
\* or, for point 0, without.
Spelling(a, defaultZone) ==
  LET system == <<N(a.net), T("/"), N(a.node)>>
      point  == <<T("."), N(a.point)>>
      zoned  == <<N(a.zone), T(":")>>
  IN {x \o system \o y : x \in {zoned} \cup (IF a.zone = defaultZone THEN {<<>>} ELSE {}),
                         y \in {point} \cup (IF a.point = 0 THEN {<<>>} ELSE {})}

Address == LET Value == Numeral \cap Uint16
           IN [zone : Value, net : Value, node : Value, point : Value \cup {0}]

\* ParseFidoAddress accepts the spellings of addresses and nothing else, and gives the
\* address a spelling stands for: whatever separators are missing, doubled or in another order.
ParsesSpellings ==
  result # Pending =>
    IF \E a \in Address : input \in Spelling(a, zone)
    THEN result \in Address /\ input \in Spelling(result, zone)
    ELSE result = Error

\* String loses nothing: a printed address is parsed back to the same address, also by a
\* program with another default zone (queue entries are compared as strings, links as addresses).
RoundTrip ==
  [][Respell => ParseFidoAddress(input', zone') = result]_vars
=============================================================================
