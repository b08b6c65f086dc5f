----------------------------- MODULE MCScheduler -----------------------------
(* Instances of Scheduler for TLC: mailers mailer1 and mailer2, nodes n1 and *)
(* n2.  A run explores the parts of Part:                                   *)
(*   "live"   one mailer and one node, mail of every flavour;               *)
(*   "nodes"  one mailer and two nodes;                                     *)
(*   "two"    two mailers and momail -p on the outbound directory, one node.*)
EXTENDS Scheduler, TLC

CONSTANTS Part, n1, n2, mailer1, mailer2

VARIABLE part  \* the part of the run; it never changes

MCNode == {n1, n2}
MCMailer == {mailer1, mailer2}

Nodes == INSTANCE Scheduler WITH
  Ext <- {".flo"}, MaxSetbacks <- 2, Env <- {"crash", "suspend", "incoming", "mute"}

Two == INSTANCE Scheduler WITH
  Ext <- {".flo"}, MaxSetbacks <- 1, Env <- {"crash", "manual"}

\* mailer2 is never started.
OneMailer == proc[mailer2] = Fresh

\* There is no mail for n2, and it neither calls nor is suspended.
OneNode ==
  /\ mail[n2] = {} /\ hold[n2] = "none" /\ n2 \notin manual
  /\ \A m \in Mailer : n2 \notin proc[m].active

MCInit ==
  /\ part \in Part
  /\ \/ part = "live" /\ Init /\ OneMailer /\ OneNode
     \/ part = "nodes" /\ Nodes!Init /\ OneMailer
     \/ part = "two" /\ Two!Init /\ OneNode

LiveStep(A) == part = "live" /\ A /\ OneMailer' /\ OneNode' /\ part' = part

MCNext ==
  \/ LiveStep(Next)
  \/ part = "nodes" /\ Nodes!Next /\ OneMailer' /\ part' = part
  \/ part = "two" /\ Two!Next /\ OneNode' /\ part' = part

\* Scheduler's fairness, in part "live".
MCFairness ==
  /\ \A m \in Mailer :
       /\ WF_<<vars, part>>(LiveStep(WakeUp(m)))
       /\ WF_<<vars, part>>(LiveStep(Scan(m)))
       /\ WF_<<vars, part>>(LiveStep(EndCall(m)))
  /\ \A m \in Mailer, n \in Node :
       /\ WF_<<vars, part>>(LiveStep(AttemptAges(m, n)))
       /\ WF_<<vars, part>>(LiveStep(IncomingEnds(m, n)))
  /\ \A n \in Node : WF_<<vars, part>>(LiveStep(FlagAges(n)))

MCSpec == MCInit /\ [][MCNext]_<<vars, part>> /\ MCFairness

\* MailCalled, in part "live": mail that is not on hold gets its node called by ScanAndPoll,
\* after failures, suspensions and crashes.
DueMailCalled == part = "live" => MailCalled
=============================================================================
