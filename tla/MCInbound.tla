------------------------------ MODULE MCInbound ------------------------------
(* Instances of Inbound and FileRequest for TLC.  A run explores the parts  *)
(* of Part; the variables of the module that a part is not about stand      *)
(* still.                                                                   *)
(*   "peers"     peers whose connections break;                             *)
(*   "recovery"  the same with a momail that dies, and without triggers     *)
(*               that wait for the end of their session;                    *)
(*   "requests"  a session in which the peer asks for public files, one of  *)
(*               which may vanish, for one that does not exist, and for the *)
(*               rest of an outbound file.                                  *)
EXTENDS Inbound

CONSTANTS
  Part,
  Public, Mail, Partial, Asked, Vanish,   \* FileRequest's
  p1, p2, s1, s2, f1, f2, f3, na, nb, nc, pub1, pub2, out1, out2, gone

VARIABLES
  part,    \* the part of the run; it never changes
  files,   \* FileRequest's disk
  toMomail, toPeer, reading, requestedFiles, sentFileMap, snd, unasked, received, closed, early

requestVars == <<files, toMomail, toPeer, reading, requestedFiles, sentFileMap, snd, unasked,
                 received, closed, early>>
allVars == <<vars, requestVars, part>>

MCPeer == {p1, p2}
MCSlot == {s1, s2}
MCPeerOf == s1 :> p1 @@ s2 :> p2

\* p1 has an empty file and one of two blocks, p2 one of two blocks.
MCFile == {f1, f2, f3}
MCName == {na, nb, nc}
MCNameOf == f1 :> na @@ f2 :> nb @@ f3 :> nc
MCSize == f1 :> 0 @@ f2 :> 2 @@ f3 :> 2
MCFiles == p1 :> <<f1, f2>> @@ p2 :> <<f3>>

\* One peer, with one file of two blocks.
OnePeer == {p1}
OneSlot == {s1}
OnePeerOf == s1 :> p1
OneFile == {f1}
OneName == {na}
OneNameOf == f1 :> na
OneSize == f1 :> 2
OneFiles == p1 :> <<f1>>

Recovery == INSTANCE Inbound WITH Later <- {}, Env <- {"crash"}, MaxCuts <- 1

\* Public files, one of which may vanish, one that does not exist, and outbound files.
MCPublic == {pub1, pub2}
MCMail == <<out1, out2>>
MCPartial == {pub1, out2}
MCAsked == {pub1, pub2, gone}
MCVanish == {pub1}

Requests == INSTANCE FileRequest WITH disk <- files

ASSUME RequestsAssumption == Requests!FileAssumption

MCInit ==
  /\ part \in Part
  /\ IF part = "recovery" THEN Recovery!Init ELSE Init
  /\ Requests!Init

RecoveryStep(A) == part = "recovery" /\ A /\ UNCHANGED <<requestVars, part>>

MCNext ==
  \/ part = "peers" /\ Next /\ UNCHANGED <<requestVars, part>>
  \/ RecoveryStep(Recovery!Next)
  \/ part = "requests" /\ Requests!Next /\ UNCHANGED <<vars, part>>

MCSpec ==
  /\ MCInit /\ [][MCNext]_allVars
  /\ \A s \in Slot : WF_allVars(RecoveryStep(Recovery!Step(s)))

\* AllTaken, of "recovery": each file reaches its trigger in the end, after a cut or a crash
\* (handleFile of a file that was begun before).
RecoveredFilesTaken == part = "recovery" => Recovery!AllTaken

\* What handleGet queued before sendFiles looked is sent.
EarlyAnswered == part = "requests" => Requests!EarlyAnswered
=============================================================================
