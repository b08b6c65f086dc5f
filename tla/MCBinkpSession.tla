--------------------------- MODULE MCBinkpSession ---------------------------
(* Instances of BinkpSession for TLC: alpha calls beta.  A run explores the *)
(* parts of Part: "sending", with the constants of the cfg; "crashing", the *)
(* same where processes die and nothing else fails; and "refusing", where   *)
(* beta has refuse_insecure_sending and everything may fail.                *)
EXTENDS BinkpSession, TLC

CONSTANTS Part, alpha, beta, f1, f2, f3, g1, n1, n2, n3, m1

VARIABLE part  \* the part of the run; it never changes

MCNode == {alpha, beta}
MCPeer == alpha :> beta @@ beta :> alpha
MCFile == {f1, f2, f3, g1}
MCName == {n1, n2, n3, m1}
MCNameOf == f1 :> n1 @@ f2 :> n2 @@ f3 :> n3 @@ g1 :> m1
MCSize == f1 :> 2 @@ f2 :> 0 @@ f3 :> 1 @@ g1 :> 1

Delete(f) == [file |-> f, del |-> TRUE]

\* Both have mail for each other.
DuplexSpool == alpha :> {g1} @@ beta :> {f1}
DuplexNetmail == alpha :> <<g1>> @@ beta :> <<>>
DuplexFlow == alpha :> <<>> @@ beta :> <<Delete(f1)>>

\* One flow file with two files.
FlowOnlySpool == alpha :> {f1, f3} @@ beta :> {}
FlowOnlyNetmail == alpha :> <<>> @@ beta :> <<>>
FlowOnlyFlow == alpha :> <<Delete(f1), Delete(f3)>> @@ beta :> <<>>

Crashing == INSTANCE BinkpSession WITH Faults <- {"crash"}

Refusing == INSTANCE BinkpSession WITH Refuse <- {beta}, Faults <- AllFaults

\* Which of the two refuses.
ASSUME BetaAssumption == beta \in Node

MCInit ==
  /\ part \in Part
  /\ \/ part \in {"sending", "crashing"} /\ Init
     \/ part = "refusing" /\ Refusing!Init

MCNext ==
  /\ part' = part
  /\ \/ part = "sending" /\ Next
     \/ part = "crashing" /\ Crashing!Next
     \/ part = "refusing" /\ Refusing!Next

MCSpec == MCInit /\ [][MCNext]_<<vars, part>>

\* EobMeansAllReceived, where no disk fails: a file that finishCurrentFile
\* cannot rename is lost to the inbound directory, and M_EOB handled after it.
EobAfterFiles == part # "refusing" => EobMeansAllReceived

\* RefusedMailStays: sendFiles of the node with refuse_insecure_sending sends nothing, and no
\* handler of that node touches its mail, whatever fails.
RefusingKeepsMail == part = "refusing" => Refusing!RefusedMailStays
=============================================================================
