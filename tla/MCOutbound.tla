------------------------------ MODULE MCOutbound ------------------------------
(* Instances of FlowFiles and Bso for TLC.  A run explores the parts of     *)
(* Part; the variables of the module that a part is not about stand still.  *)
(*   "calls"  calls that may fail in every way, and polls deleted by the    *)
(*            API;                                                          *)
(*   "edits"  calls and incoming sessions, with every edit of the API;      *)
(*   "names"  the names in the directory, for addresses at the edges of     *)
(*            their digits: numbers that need one, three and four of them,  *)
(*            zones other than ours, points.                                *)
EXTENDS FlowFiles

CONSTANTS
  Part,
  Addr, Foreign, DefaultZone, PollFlavor, MaxFiles,   \* Bso's
  m1, m2, call, incoming

VARIABLES
  part,  \* the part of the run; it never changes
  tree, polls

MCMail == {m1, m2}
MCFlavors == <<".clo", ".flo">>
MCSession == {call, incoming}
MCCalling == {call}

Calls == INSTANCE FlowFiles WITH Edits <- {"delete", "delete_files"}

A(z, n, f, p) == [zone |-> z, net |-> n, node |-> f, point |-> p]

MCAddr == {A(2, 5020, 828, 0), A(2, 5020, 828, 1), A(2, 1, 564, 0), A(2, 18, 52, 0),
           A(2, 65535, 0, 0), A(255, 1, 564, 0), A(4095, 1, 564, 17), A(2, 1, 564, 4660)}

\* Names of a node and of its point, with every extension, as tossers write them.
Digits == <<1, 3, 9, 12, 0, 3, 3, 12>>
MCForeign ==
  {[zone |-> <<>>, pnt |-> <<>>, digits |-> Digits, ext |-> e, upper |-> FALSE] :
     e \in {".clo", ".flo", ".hlo", ".out", ".lo", ".hut"}}
  \cup {[zone |-> <<>>, pnt |-> Digits, digits |-> <<0, 0, 0, 0, 0, 0, 0, 1>>, ext |-> e,
         upper |-> FALSE] : e \in {".clo", ".dlo", ".cut", ".fut"}}

Names == INSTANCE Bso

\* A session momail has called for, and one it has not.
ASSUME SessionAssumption == Session = {call, incoming} /\ call \in Calling
ASSUME NamesAssumption == Names!AddrAssumption /\ Names!ZoneAssumption

MCInit == part \in Part /\ Init /\ Names!Init

CallsStep(X) == part = "calls" /\ X /\ pc'[incoming] = "idle" /\ UNCHANGED <<part, tree, polls>>

EditsStep(X) == part = "edits" /\ X /\ UNCHANGED <<part, tree, polls>>

MCNext ==
  \/ CallsStep(Calls!Next)
  \/ EditsStep(Next)
  \/ part = "names" /\ Names!Next /\ UNCHANGED <<part, vars>>

allVars == <<vars, part, tree, polls>>

\* FlowFiles' fairness, in its parts.
MCFairness ==
  \A s \in Session :
    /\ WF_allVars(CallsStep(Step(s))) /\ WF_allVars(CallsStep(FindFlowFiles(s)))
    /\ WF_allVars(EditsStep(Step(s))) /\ WF_allVars(EditsStep(FindFlowFiles(s)))

MCSpec == MCInit /\ [][MCNext]_allVars /\ MCFairness

\* A call forgets no mail, wherever it fails (processFlowFile): only what a scanner that failed
\* did not reach goes with the flow file, for Err() is not looked at (session.go:1008-1035).  The
\* API's DELETE may forget what its own scanner did not see (server.go:126-157).
CallsForgetOnlyUnread ==
  [][part = "calls" =>
       \/ Forgotten' \subseteq Forgotten
       \/ Calls!DeleteFlow
       \/ \E s \in Session :
            /\ Calls!RemoveFlow(s) /\ pc[s] = "cut"
            /\ Forgotten' \subseteq Forgotten \cup Unread(s)]_allVars

\* A poll that momail has created is found by its own scan (scanOutbound against getBsoBase).
PollsQueued == part = "names" => Names!PollsQueued

\* No file of the directory is sent to two addresses (FindFlowFiles and processNetmail).
OneAddressee == part = "names" => Names!OneAddressee
=============================================================================
