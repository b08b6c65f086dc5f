--------------------------- MODULE StoreAndForward ---------------------------
(***************************************************************************)
(* What the transfer of mail promises, whatever happens on the way: a file *)
(* leaves its sender's spool only when the receiver has it, and what has   *)
(* arrived stays.  A file may be in both places: delivery is at least      *)
(* once.                                                                   *)
(***************************************************************************)
EXTENDS FiniteSets

CONSTANTS
  Node,   \* systems with mail to send
  File,   \* files
  Spool   \* Spool[n]: the files n starts with

VARIABLES
  store,    \* store[n]: the files n still has
  arrived   \* arrived[n]: n's files that reached the other side

vars == <<store, arrived>>

TypeOK ==
  /\ store \in [Node -> SUBSET File]
  /\ arrived \in [Node -> SUBSET File]

Init ==
  /\ store = Spool
  /\ arrived = [n \in Node |-> {}]

\* A file reaches the other side.
Arrive(n) ==
  \E f \in store[n] \ arrived[n] :
    /\ arrived' = [arrived EXCEPT ![n] = @ \cup {f}]
    /\ UNCHANGED store

\* The sender lets go of a file that has arrived.
Remove(n) ==
  \E f \in store[n] \cap arrived[n] :
    /\ store' = [store EXCEPT ![n] = @ \ {f}]
    /\ UNCHANGED arrived

Next == \E n \in Node : Arrive(n) \/ Remove(n)

Spec == Init /\ [][Next]_vars

\* Every file is at its sender's or at the other side.
NothingLost == \A n \in Node : Spool[n] \subseteq store[n] \cup arrived[n]
=============================================================================
