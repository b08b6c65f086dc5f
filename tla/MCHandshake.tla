----------------------------- MODULE MCHandshake -----------------------------
(* Instances of Handshake and BinkpSession for liveness.  Part "handshake"  *)
(* is the handshake for every pair of link configurations, "impatient" the  *)
(* same with deadlines that pass at any time, for safety only, "transfer" a *)
(* batch one way over the smallest TCP buffer; the variables of the other   *)
(* module stand still.                                                      *)
EXTENDS Handshake, TLC

CONSTANTS p1, p2, f1, f2, f3, g1, n1, n2, n3, m1, None

MCPassword == {p1, p2}

VARIABLES
  part,  \* the part of the run; it never changes
  disk, flow, inbox, stream, closed, reset, lost, sentFileMap,
  weSentEOB, theySentEOB, reader, sender, state, sessions

transferVars == <<disk, flow, inbox, stream, closed, reset, lost, sentFileMap,
                  weSentEOB, theySentEOB, reader, sender, state, sessions>>
allVars == <<vars, transferVars, part>>

Line(f) == [file |-> f, del |-> TRUE]

\* The caller has a packet, a large file, an empty one, and a line whose file
\* is missing.
Transfer == INSTANCE BinkpSession WITH
  Node <- Side,
  Peer <- Client :> Server @@ Server :> Client,
  File <- {f1, f2, f3, g1},
  Name <- {n1, n2, n3, m1},
  NameOf <- f1 :> n1 @@ f2 :> n2 @@ f3 :> n3 @@ g1 :> m1,
  Size <- f1 :> 2 @@ f2 :> 0 @@ f3 :> 1 @@ g1 :> 1,
  Spool <- Client :> {g1, f1, f2} @@ Server :> {},
  Netmail <- Client :> <<g1>> @@ Server :> <<>>,
  Flow <- Client :> <<Line(f1), Line(f3), Line(f2)>> @@ Server :> <<>>,
  Refuse <- {},
  Window <- 1,
  MaxSessions <- 1,
  Faults <- {},
  chan <- stream

Eager == INSTANCE Handshake WITH Impatient <- TRUE

\* One state of Handshake for the runs of the transfer.
Idle ==
  /\ link = [n \in Side |-> NoPassword]
  /\ mail = [n \in Side |-> FALSE]
  /\ ~cram

MCInit ==
  /\ part \in {"handshake", "impatient", "transfer"}
  /\ Init /\ Transfer!Init
  /\ part = "transfer" => Idle

HandshakeStep(n) == part = "handshake" /\ Step(n) /\ UNCHANGED <<transferVars, part>>

TransferStep(A) == part = "transfer" /\ A /\ UNCHANGED <<vars, part>>

MCNext ==
  \/ \E n \in Side : HandshakeStep(n)
  \/ part = "handshake" /\ Terminated /\ UNCHANGED <<transferVars, part>>
  \/ part = "impatient" /\ Eager!Next /\ UNCHANGED <<transferVars, part>>
  \/ TransferStep(Transfer!Next)

\* Handshake's and BinkpSession's fairness, each in its part.
MCSpec ==
  /\ MCInit /\ [][MCNext]_allVars
  /\ \A n \in Side :
       /\ WF_allVars(HandshakeStep(n))
       /\ WF_allVars(TransferStep(Transfer!Sender(n)))
       /\ WF_allVars(TransferStep(Transfer!Reader(n)))
       /\ WF_allVars(TransferStep(Transfer!EndSession(n)))

\* performHandshake of two sides that know the same password ends with all mail exchanged.
MatchingSidesExchange == part = "handshake" => MatchedExchange

\* performHandshake ends, whatever the two configurations.
HandshakesEnd == part = "handshake" => BothEnd

\* Run ends on both sides, when nothing fails.
TransfersEnd == part = "transfer" => Transfer!SessionsEnd
=============================================================================
