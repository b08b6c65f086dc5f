---------------------------- MODULE SchedulerProofs ----------------------------
(***************************************************************************)
(* Proofs about the scheduler, for any number of processes and nodes: its  *)
(* types, that no busy file stays behind a call, that failures lead to a   *)
(* suspension in time, and that no node is called again too early.         *)
(***************************************************************************)
EXTENDS Scheduler, TLAPS

\* What TypeOK says of a process.
ProcessOK(p) ==
  p \in Process /\ ((p.cur # None) <=> p.pc \in {"found", "dialing", "session"})

-----------------------------------------------------------------------------
(* What the operators give for a process that is well-formed.               *)

LEMMA StateFromExtFlavor == ASSUME NEW e PROVE StateFromExt(e) \in Flavor
BY DEF StateFromExt, Flavor

LEMMA FlavorOfFlavor == ASSUME NEW exts PROVE FlavorOf(exts) \in Flavor
BY StateFromExtFlavor DEF FlavorOf

LEMMA ToAllType == ASSUME NEW S, NEW x \in S PROVE ToAll(x) \in [Node -> S]
BY DEF ToAll

LEMMA FreshOK == ProcessOK(Fresh)
<1>1. /\ ToAll(None) \in [Node -> Flavor \cup {None}]
      /\ ToAll(0) \in [Node -> 0 .. MaxDialAttempts - 1]
      /\ ToAll("zero") \in [Node -> {"zero", "recent", "past"}]
  <2>1. None \in Flavor \cup {None} /\ 0 \in 0 .. MaxDialAttempts - 1
    BY DialAssumption
  <2> QED
    BY <2>1 DEF ToAll
<1>2. Fresh \in Process
  <2>1. {} \in SUBSET Node /\ None \in Node \cup {None} /\ FALSE \in BOOLEAN
    OBVIOUS
  <2> QED
    BY <1>1, <2>1, Zenon DEF Process, Fresh
<1>3. Fresh.cur = None /\ Fresh.pc = "down"
  BY DEF Fresh
<1> QED
  BY <1>2, <1>3 DEF ProcessOK

LEMMA ScannedOK ==
  ASSUME NEW p, ProcessOK(p), p.pc \in {"down", "idle"}
  PROVE  ProcessOK(Scanned(p))
<1> DEFINE fl == [n \in Node |-> IF n \in Queued THEN FlavorOf(mail[n]) ELSE None]
<1>1. fl \in [Node -> Flavor \cup {None}]
  BY FlavorOfFlavor
<1>2. Queued \subseteq Node
  BY DEF Queued
<1>3. Scanned(p) = [p EXCEPT !.pc = "poll", !.todo = Queued, !.flavor = fl]
  BY DEF Scanned
<1> HIDE DEF fl
<1> QED
  BY <1>1, <1>2, <1>3 DEF ProcessOK, Process

LEMMA ScanUnlessBusyOK ==
  ASSUME NEW p, ProcessOK(p), p.pc = "idle"
  PROVE  ProcessOK(ScanUnlessBusy(p))
BY ScannedOK DEF ScanUnlessBusy

LEMMA VisitedOK ==
  ASSUME NEW p, ProcessOK(p), NEW n \in Node
  PROVE  ProcessOK(Visited(p, n))
BY DEF ProcessOK, Process, Visited

-----------------------------------------------------------------------------
(* Type correctness, one action at a time.                                  *)

LEMMA ProcsFromType == ASSUME TypeOK PROVE \A m \in Mailer : ProcessOK(proc[m])
BY DEF TypeOK, ProcessOK

\* A step that gives one process a new, well-formed state.
LEMMA OneProcess ==
  ASSUME TypeOK, NEW m \in Mailer, NEW q, ProcessOK(q), proc' = [proc EXCEPT ![m] = q]
  PROVE  /\ proc' \in [Mailer -> Process]
         /\ \A i \in Mailer : (proc'[i].cur # None) <=> proc'[i].pc \in {"found", "dialing", "session"}
BY DEF TypeOK, ProcessOK

LEMMA TypeInit == Init => TypeOK
<1> SUFFICES ASSUME Init PROVE TypeOK
  OBVIOUS
<1>1. /\ busy \in [Node -> {"none", "fresh", "stale"}]
      /\ hold \in [Node -> {"none", "fresh", "old"}]
  BY ToAllType DEF Init
<1>2. /\ unheld \in [Mailer -> [Node -> Nat]]
      /\ rested \in [Mailer -> [Node -> BOOLEAN]]
  BY ToAllType DEF Init
<1>3. /\ proc \in [Mailer -> Process]
      /\ \A m \in Mailer : (proc[m].cur # None) <=> proc[m].pc \in {"found", "dialing", "session"}
  BY FreshOK DEF Init, ProcessOK
<1>4. /\ mail \in [Node -> SUBSET Ext] /\ manual \in SUBSET Node /\ orphan \in SUBSET Node
      /\ setbacks \in 0 .. MaxSetbacks
  BY DialAssumption DEF Init
<1> QED
  BY <1>1, <1>2, <1>3, <1>4 DEF TypeOK

LEMMA TypeWakeUp ==
  ASSUME TypeOK, NEW m \in Mailer, WakeUp(m)
  PROVE  TypeOK'
<1>0. ProcessOK(proc[m])
  BY ProcsFromType
<1>1. PICK q : ProcessOK(q) /\ proc' = [proc EXCEPT ![m] = q]
  <2>1. CASE proc[m].pc = "down" /\ proc' = [proc EXCEPT ![m] = Scanned(@)]
    BY <1>0, <2>1, ScannedOK
  <2>2. CASE proc[m].pc = "idle" /\ proc' = [proc EXCEPT ![m] = ScanUnlessBusy(@)]
    BY <1>0, <2>2, ScanUnlessBusyOK
  <2>3. CASE /\ proc[m].pc = "idle"
             /\ proc' = [proc EXCEPT ![m] = [ScanUnlessBusy(@) EXCEPT !.trigger = FALSE]]
    <3>1. ProcessOK(ScanUnlessBusy(proc[m]))
      BY <1>0, <2>3, ScanUnlessBusyOK
    <3>2. ProcessOK([ScanUnlessBusy(proc[m]) EXCEPT !.trigger = FALSE])
      BY <3>1 DEF ProcessOK, Process
    <3> QED
      BY <2>3, <3>2
  <2> QED
    BY <2>1, <2>2, <2>3 DEF WakeUp
<1>2. UNCHANGED <<mail, busy, hold, manual, setbacks, orphan, unheld, rested>>
  BY DEF WakeUp
<1> QED
  BY <1>1, <1>2, OneProcess DEF TypeOK

LEMMA TypeSkipNode ==
  ASSUME TypeOK, NEW m \in Mailer, NEW n \in Node, SkipNode(m, n)
  PROVE  TypeOK'
<1>1. ProcessOK(Visited(proc[m], n)) /\ proc' = [proc EXCEPT ![m] = Visited(proc[m], n)]
  BY ProcsFromType, VisitedOK DEF SkipNode
<1>2. UNCHANGED <<mail, busy, hold, manual, setbacks, orphan, unheld, rested>>
  BY DEF SkipNode
<1> QED
  BY <1>1, <1>2, OneProcess DEF TypeOK

LEMMA TypeCheckNode ==
  ASSUME TypeOK, NEW m \in Mailer, NEW n \in Node, proc[m].pc = "poll", CheckNode(m, n)
  PROVE  TypeOK'
<1> DEFINE v == Visited(proc[m], n)
           p == [v EXCEPT !.failures[n] = IF hold[n] = "old" THEN 0 ELSE @]
           q == IF busy'[n] = "none" /\ p.flavor[n] # "Hold"
                THEN [p EXCEPT !.pc = "found", !.cur = n]
                ELSE p
<1>1. ProcessOK(v)
  BY ProcsFromType, VisitedOK
<1>2. ProcessOK(p)
  <2> HIDE DEF v
  <2> QED
    BY <1>1, DialAssumption DEF ProcessOK, Process
<1>3. ProcessOK(q)
  <2> HIDE DEF p
  <2> QED
    BY <1>2, NoneAssumption DEF ProcessOK, Process
<1>4. proc' = [proc EXCEPT ![m] = q]
  BY DEF CheckNode
<1>5. /\ proc' \in [Mailer -> Process]
      /\ \A i \in Mailer : (proc'[i].cur # None) <=> proc'[i].pc \in {"found", "dialing", "session"}
  <2> HIDE DEF q
  <2> QED
    BY <1>3, <1>4, OneProcess
<1>6. /\ hold' = [hold EXCEPT ![n] = "none"]
      /\ busy' = [busy EXCEPT ![n] = Unlocked(n)]
      /\ orphan' \subseteq orphan
      /\ UNCHANGED <<mail, manual, setbacks, unheld, rested>>
  BY DEF CheckNode
<1>7. Unlocked(n) \in {"none", "fresh", "stale"}
  BY DEF Unlocked, TypeOK
<1> QED
  BY <1>5, <1>6, <1>7 DEF TypeOK

LEMMA TypeDial ==
  ASSUME TypeOK, NEW m \in Mailer, Dial(m)
  PROVE  TypeOK'
<1> DEFINE n == proc[m].cur
           q == [proc[m] EXCEPT !.pc = "dialing", !.attempt[n] = "recent"]
<1>1. ProcessOK(proc[m]) /\ proc[m].pc = "found"
  BY ProcsFromType DEF Dial
<1>2. n \in Node
  BY <1>1 DEF ProcessOK, Process
<1>3. ProcessOK(q)
  BY <1>1, <1>2 DEF ProcessOK, Process
<1>4. proc' = [proc EXCEPT ![m] = q]
  BY DEF Dial, TypeOK
<1>5. /\ proc' \in [Mailer -> Process]
      /\ \A i \in Mailer : (proc'[i].cur # None) <=> proc'[i].pc \in {"found", "dialing", "session"}
  <2> HIDE DEF q
  <2> QED
    BY <1>3, <1>4, OneProcess
<1>6. /\ busy' = [busy EXCEPT ![n] = "fresh"] /\ orphan' \subseteq orphan
      /\ rested' = [rested EXCEPT ![m][n] = FALSE]
      /\ UNCHANGED <<mail, hold, manual, setbacks, unheld>>
  BY DEF Dial
<1> QED
  BY <1>2, <1>5, <1>6 DEF TypeOK

LEMMA TypeConnect ==
  ASSUME TypeOK, NEW m \in Mailer, Connect(m)
  PROVE  TypeOK'
<1>1. ProcessOK([proc[m] EXCEPT !.pc = "session"])
  BY ProcsFromType DEF Connect, ProcessOK, Process
<1>2. /\ proc' = [proc EXCEPT ![m] = [proc[m] EXCEPT !.pc = "session"]]
      /\ UNCHANGED <<mail, busy, hold, manual, setbacks, orphan, unheld, rested>>
  BY DEF Connect
<1> QED
  BY <1>1, <1>2, OneProcess DEF TypeOK

LEMMA SentType ==
  ASSUME TypeOK, NEW n \in Node, Sent(n)
  PROVE  mail' \in [Node -> SUBSET Ext]
BY DEF TypeOK, Sent

\* A call that ends leaves its process well-formed, whatever it counts.
LEMMA CallOverType ==
  ASSUME TypeOK, NEW m \in Mailer, NEW n \in Node, NEW p \in Process, CallOver(m, n, p)
  PROVE  /\ proc' \in [Mailer -> Process]
         /\ \A i \in Mailer : (proc'[i].cur # None) <=> proc'[i].pc \in {"found", "dialing", "session"}
         /\ busy' \in [Node -> {"none", "fresh", "stale"}]
         /\ orphan' \in SUBSET Node
         /\ rested' \in [Mailer -> [Node -> BOOLEAN]]
<1> DEFINE q == [p EXCEPT !.pc = "poll", !.cur = None, !.attempt[n] = "recent"]
<1>1. ProcessOK(q)
  BY DEF ProcessOK, Process
<1>2. proc' = [proc EXCEPT ![m] = q]
  BY DEF CallOver
<1>3. /\ proc' \in [Mailer -> Process]
      /\ \A i \in Mailer : (proc'[i].cur # None) <=> proc'[i].pc \in {"found", "dialing", "session"}
  <2> HIDE DEF q
  <2> QED
    BY <1>1, <1>2, OneProcess
<1> QED
  BY <1>3 DEF CallOver, TypeOK

LEMMA CallerKnown ==
  ASSUME TypeOK, NEW m \in Mailer, proc[m].pc \in {"found", "dialing", "session"}
  PROVE  proc[m].cur \in Node
BY ProcsFromType DEF ProcessOK, Process

\* A failure counted, and a success.
LEMMA FailedProcess ==
  ASSUME TypeOK, NEW m \in Mailer, NEW n \in Node
  PROVE  [proc[m] EXCEPT !.failures[n] = IF TooMany(proc[m], n) THEN 0 ELSE @ + 1] \in Process
<1> DEFINE f == IF TooMany(proc[m], n) THEN 0 ELSE proc[m].failures[n] + 1
<1>1. proc[m] \in Process
  BY DEF TypeOK
<1>2. proc[m].failures[n] \in 0 .. MaxDialAttempts - 1
  BY <1>1 DEF Process
<1>3. f \in 0 .. MaxDialAttempts - 1
  BY <1>2, DialAssumption DEF TooMany
<1> HIDE DEF f
<1>4. [proc[m] EXCEPT !.failures[n] = f] \in Process
  BY <1>1, <1>3 DEF Process
<1> QED
  BY <1>4 DEF f

LEMMA ServedProcess ==
  ASSUME TypeOK, NEW m \in Mailer, NEW n \in Node
  PROVE  [proc[m] EXCEPT !.failures[n] = 0, !.trigger = TRUE] \in Process
<1>1. proc[m] \in Process /\ 0 \in 0 .. MaxDialAttempts - 1
  BY DialAssumption DEF TypeOK
<1> QED
  BY <1>1 DEF Process

LEMMA TypeCallFails ==
  ASSUME TypeOK, NEW m \in Mailer, CallFails(m)
  PROVE  TypeOK'
<1> DEFINE n == proc[m].cur
           p == [proc[m] EXCEPT !.failures[n] = IF TooMany(proc[m], n) THEN 0 ELSE @ + 1]
<1>1. n \in Node
  BY CallerKnown DEF CallFails
<1>2. p \in Process
  BY <1>1, FailedProcess
<1>3. CallOver(m, n, p)
  BY DEF CallFails
<1>4. mail' \in [Node -> SUBSET Ext]
  BY <1>1, SentType DEF CallFails, TypeOK
<1>5. hold' \in [Node -> {"none", "fresh", "old"}] /\ UNCHANGED <<manual, setbacks>>
  BY <1>1 DEF CallFails, TypeOK
<1>6. unheld' \in [Mailer -> [Node -> Nat]]
  <2>1. unheld' = [i \in Mailer |->
                     [unheld[i] EXCEPT ![n] = IF hold'[n] # "none" THEN 0
                                              ELSE IF i = m THEN @ + 1 ELSE @]]
    BY DEF CallFails
  <2> QED
    BY <1>1, <2>1 DEF TypeOK
<1> HIDE DEF n, p
<1> QED
  BY <1>1, <1>2, <1>3, <1>4, <1>5, <1>6, CallOverType DEF TypeOK

LEMMA TypeCallSucceeds ==
  ASSUME TypeOK, NEW m \in Mailer, CallSucceeds(m)
  PROVE  TypeOK'
<1> DEFINE n == proc[m].cur
           p == [proc[m] EXCEPT !.failures[n] = 0, !.trigger = TRUE]
<1>1. n \in Node
  BY CallerKnown DEF CallSucceeds
<1>2. p \in Process
  BY <1>1, ServedProcess
<1>3. CallOver(m, n, p)
  BY DEF CallSucceeds
<1>4. mail' \in [Node -> SUBSET Ext]
  BY <1>1, SentType DEF CallSucceeds
<1>5. /\ unheld' \in [Mailer -> [Node -> Nat]] /\ UNCHANGED <<hold, manual, setbacks>>
  BY <1>1 DEF CallSucceeds, TypeOK
<1> HIDE DEF n, p
<1> QED
  BY <1>1, <1>2, <1>3, <1>4, <1>5, CallOverType DEF TypeOK

LEMMA TypeForgetUnseen ==
  ASSUME TypeOK, NEW m \in Mailer, ForgetUnseen(m)
  PROVE  TypeOK'
<1> DEFINE p == proc[m]
           at == [n \in Node |-> IF n \in p.seen THEN p.attempt[n] ELSE "zero"]
           q == [p EXCEPT !.pc = "idle", !.seen = {}, !.flavor = ToAll(None), !.attempt = at]
<1>1. ProcessOK(p) /\ p.pc = "poll"
  BY ProcsFromType DEF ForgetUnseen
<1>2. at \in [Node -> {"zero", "recent", "past"}]
  BY <1>1 DEF ProcessOK, Process
<1>3. ToAll(None) \in [Node -> Flavor \cup {None}]
  BY DEF ToAll
<1>4. ProcessOK(q)
  <2> HIDE DEF at, p
  <2> QED
    BY <1>1, <1>2, <1>3 DEF ProcessOK, Process
<1>5. proc' = [proc EXCEPT ![m] = q]
  BY <1>1 DEF ForgetUnseen, TypeOK
<1>6. /\ proc' \in [Mailer -> Process]
      /\ \A i \in Mailer : (proc'[i].cur # None) <=> proc'[i].pc \in {"found", "dialing", "session"}
  <2> HIDE DEF q
  <2> QED
    BY <1>4, <1>5, OneProcess
<1>7. rested' \in [Mailer -> [Node -> BOOLEAN]]
  <2>1. rested' = [rested EXCEPT ![m] = [n \in Node |-> p.flavor[n] = None \/ rested[m][n]]]
    BY DEF ForgetUnseen, TypeOK
  <2>2. [n \in Node |-> p.flavor[n] = None \/ rested[m][n]] \in [Node -> BOOLEAN]
    OBVIOUS
  <2> QED
    BY <2>1, <2>2 DEF TypeOK
<1>8. UNCHANGED <<mail, busy, hold, manual, setbacks, orphan, unheld>>
  BY DEF ForgetUnseen
<1> QED
  BY <1>6, <1>7, <1>8 DEF TypeOK

LEMMA TypeAttemptAges ==
  ASSUME TypeOK, NEW m \in Mailer, NEW n \in Node, AttemptAges(m, n)
  PROVE  TypeOK'
<1> DEFINE a == proc[m].attempt[n]
           q == [proc[m] EXCEPT !.attempt[n] = IF a = "recent" THEN "past" ELSE a]
<1>1. ProcessOK(q)
  BY ProcsFromType DEF ProcessOK, Process
<1>2. proc' = [proc EXCEPT ![m] = q]
  BY DEF AttemptAges, TypeOK
<1>3. /\ proc' \in [Mailer -> Process]
      /\ \A i \in Mailer : (proc'[i].cur # None) <=> proc'[i].pc \in {"found", "dialing", "session"}
  <2> HIDE DEF q
  <2> QED
    BY <1>1, <1>2, OneProcess
<1> QED
  BY <1>3 DEF AttemptAges, TypeOK

LEMMA TypeOfFiles ==
  ASSUME TypeOK, NEW n \in Node, FlagAges(n) \/ Edit(n) \/ SetSuspended(n) \/ PollNow(n)
  PROVE  TypeOK'
<1>1. CASE FlagAges(n)
  BY <1>1 DEF FlagAges, TypeOK
<1>2. CASE Edit(n)
  BY <1>2 DEF Edit, TypeOK
<1>3. CASE SetSuspended(n)
  <2>1. unheld' \in [Mailer -> [Node -> Nat]] /\ hold' \in [Node -> {"none", "fresh", "old"}]
    BY <1>3 DEF SetSuspended, TypeOK
  <2>2. setbacks' \in 0 .. MaxSetbacks
    BY <1>3, DialAssumption DEF SetSuspended, Setback, TypeOK
  <2> QED
    BY <1>3, <2>1, <2>2 DEF SetSuspended, TypeOK
<1>4. CASE PollNow(n)
  <2>1. mail' \in [Node -> SUBSET Ext]
    BY <1>4, SentType DEF PollNow, TypeOK
  <2> QED
    BY <1>4, <2>1 DEF PollNow, TypeOK
<1> QED
  BY <1>1, <1>2, <1>3, <1>4

\* Steps that give one process other flags or sessions, and touch little else.
LEMMA TypeOfProcess ==
  ASSUME TypeOK, NEW m \in Mailer,
         \/ SetMuted(m) \/ TriggerScan(m)
         \/ \E n \in Node : Incoming(m, n) \/ IncomingEnds(m, n)
  PROVE  TypeOK'
<1>0. ProcessOK(proc[m])
  BY ProcsFromType
<1>1. CASE SetMuted(m)
  <2>1. proc' = [proc EXCEPT ![m] = [proc[m] EXCEPT !.muted = ~proc[m].muted]]
    BY <1>1 DEF SetMuted, TypeOK
  <2>2. ProcessOK([proc[m] EXCEPT !.muted = ~proc[m].muted])
    BY <1>0 DEF ProcessOK, Process
  <2>3. setbacks' \in 0 .. MaxSetbacks
    BY <1>1, DialAssumption DEF SetMuted, Setback, TypeOK
  <2> QED
    BY <1>1, <2>1, <2>2, <2>3, OneProcess DEF SetMuted, TypeOK
<1>2. CASE TriggerScan(m)
  <2>1. proc' = [proc EXCEPT ![m] = [proc[m] EXCEPT !.trigger = TRUE]]
    BY <1>2 DEF TriggerScan, TypeOK
  <2>2. ProcessOK([proc[m] EXCEPT !.trigger = TRUE])
    BY <1>0 DEF ProcessOK, Process
  <2> QED
    BY <1>2, <2>1, <2>2, OneProcess DEF TriggerScan, TypeOK
<1>3. ASSUME NEW n \in Node, Incoming(m, n)
      PROVE  TypeOK'
  <2>1. proc' = [proc EXCEPT ![m] = [proc[m] EXCEPT !.active = proc[m].active \cup {n}]]
    BY <1>3 DEF Incoming, TypeOK
  <2>2. ProcessOK([proc[m] EXCEPT !.active = proc[m].active \cup {n}])
    BY <1>0 DEF ProcessOK, Process
  <2>3. setbacks' \in 0 .. MaxSetbacks
    BY <1>3, DialAssumption DEF Incoming, Setback, TypeOK
  <2> QED
    BY <1>3, <2>1, <2>2, <2>3, OneProcess DEF Incoming, TypeOK
<1>4. ASSUME NEW n \in Node, IncomingEnds(m, n)
      PROVE  TypeOK'
  <2>1. PICK b \in BOOLEAN : proc' = [proc EXCEPT ![m].active = @ \ {n}, ![m].trigger = @ \/ b]
    BY <1>4 DEF IncomingEnds
  <2> DEFINE t == proc[m].trigger \/ b
             q == [proc[m] EXCEPT !.active = proc[m].active \ {n}, !.trigger = t]
  <2>2. t \in BOOLEAN
    OBVIOUS
  <2>3. proc' = [proc EXCEPT ![m] = q]
    BY <2>1 DEF TypeOK
  <2>4. ProcessOK(q)
    <3> HIDE DEF t
    <3> QED
      BY <1>0, <2>2 DEF ProcessOK, Process
  <2>5. /\ proc' \in [Mailer -> Process]
        /\ \A i \in Mailer : (proc'[i].cur # None) <=> proc'[i].pc \in {"found", "dialing", "session"}
    <3> HIDE DEF q
    <3> QED
      BY <2>3, <2>4, OneProcess
  <2>6. mail' \in [Node -> SUBSET Ext]
    BY <1>4, SentType DEF IncomingEnds
  <2> QED
    BY <1>4, <2>5, <2>6 DEF IncomingEnds, TypeOK
<1> QED
  BY <1>1, <1>2, <1>3, <1>4

LEMMA TypeCrash ==
  ASSUME TypeOK, NEW m \in Mailer, Crash(m)
  PROVE  TypeOK'
<1>1. proc' = [proc EXCEPT ![m] = Fresh] /\ ProcessOK(Fresh)
  BY FreshOK DEF Crash
<1>2. /\ proc' \in [Mailer -> Process]
      /\ \A i \in Mailer : (proc'[i].cur # None) <=> proc'[i].pc \in {"found", "dialing", "session"}
  BY <1>1, OneProcess
<1>3. unheld' \in [Mailer -> [Node -> Nat]] /\ rested' \in [Mailer -> [Node -> BOOLEAN]]
  <2>1. ToAll(0) \in [Node -> Nat] /\ ToAll(TRUE) \in [Node -> BOOLEAN]
    BY DEF ToAll
  <2> QED
    BY <2>1 DEF Crash, TypeOK
<1>4. setbacks' \in 0 .. MaxSetbacks /\ orphan' \in SUBSET Node
  BY DialAssumption DEF Crash, Setback, TypeOK
<1> QED
  BY <1>2, <1>3, <1>4 DEF Crash, TypeOK

LEMMA TypeStep ==
  ASSUME TypeOK, [Next]_vars
  PROVE  TypeOK'
<1>1. ASSUME NEW m \in Mailer, WakeUp(m)
      PROVE  TypeOK'
  BY <1>1, TypeWakeUp
<1>2. ASSUME NEW m \in Mailer, Visit(m)
      PROVE  TypeOK'
  BY <1>2, TypeSkipNode, TypeCheckNode DEF Visit, TypeOK, Process
<1>3. ASSUME NEW m \in Mailer, Dial(m) \/ ForgetUnseen(m) \/ Connect(m) \/ EndCall(m)
      PROVE  TypeOK'
  BY <1>3, TypeDial, TypeForgetUnseen, TypeConnect, TypeCallFails, TypeCallSucceeds DEF EndCall
<1>4. ASSUME NEW m \in Mailer, SetMuted(m) \/ TriggerScan(m)
      PROVE  TypeOK'
  BY <1>4, TypeOfProcess
<1>5. ASSUME NEW m \in Mailer, Crash(m)
      PROVE  TypeOK'
  BY <1>5, TypeCrash
<1>6. ASSUME NEW m \in Mailer, NEW n \in Node, AttemptAges(m, n)
      PROVE  TypeOK'
  BY <1>6, TypeAttemptAges
<1>7. ASSUME NEW m \in Mailer, NEW n \in Node, Incoming(m, n) \/ IncomingEnds(m, n)
      PROVE  TypeOK'
  BY <1>7, TypeOfProcess
<1>8. ASSUME NEW n \in Node, FlagAges(n) \/ Edit(n) \/ SetSuspended(n) \/ PollNow(n)
      PROVE  TypeOK'
  BY <1>8, TypeOfFiles
<1>9. CASE UNCHANGED vars
  BY <1>9 DEF vars, TypeOK
<1> QED
  BY <1>1, <1>2, <1>3, <1>4, <1>5, <1>6, <1>7, <1>8, <1>9 DEF Next, Scan

\* The scheduler's types: in particular a failure count stays below max_dial_attempts and a
\* process has a node it is calling just while it is calling one (scheduler/scheduler.go).
THEOREM TypeCorrect == Spec => []TypeOK
BY TypeInit, TypeStep, PTL DEF Spec

-----------------------------------------------------------------------------
(* No busy file is left behind.                                             *)

LEMMA NoBusyStep ==
  ASSUME TypeOK, NoBusyLeft, [Next]_vars
  PROVE  NoBusyLeft'
<1> SUFFICES ASSUME NEW n \in Node, busy'[n] # "none", n \notin orphan'
             PROVE  \E m \in Mailer : Calls(m, n)'
  BY DEF NoBusyLeft
<1>0. busy[n] # "none" /\ n \notin orphan => \E m \in Mailer : Calls(m, n)
  BY DEF NoBusyLeft
\* What it takes that nothing happens to n: its flag stays, and so does every call of it.
<1> DEFINE Kept == /\ busy[n] # "none" /\ n \notin orphan
                   /\ \A m \in Mailer : Calls(m, n) => Calls(m, n)'
<1>1. ASSUME Kept PROVE \E m \in Mailer : Calls(m, n)'
  BY <1>0, <1>1
<1>2. ASSUME NEW m \in Mailer, WakeUp(m) PROVE Kept
  BY <1>2 DEF WakeUp, Calls, TypeOK
<1>3. ASSUME NEW m \in Mailer, NEW x \in Node, proc[m].pc = "poll", SkipNode(m, x) PROVE Kept
  BY <1>3 DEF SkipNode, Calls, TypeOK
<1>4. ASSUME NEW m \in Mailer, NEW x \in Node, proc[m].pc = "poll", CheckNode(m, x) PROVE Kept
  <2>1. proc' = [proc EXCEPT ![m] = proc'[m]]
    BY <1>4 DEF CheckNode, TypeOK
  <2>2. \A i \in Mailer : Calls(i, n) => Calls(i, n)'
    BY <1>4, <2>1 DEF Calls, TypeOK
  <2>3. busy' = [busy EXCEPT ![x] = Unlocked(x)]
        /\ orphan' = IF busy'[x] = "none" THEN orphan \ {x} ELSE orphan
    BY <1>4 DEF CheckNode
  <2>4. busy[n] # "none" /\ n \notin orphan
    BY <2>3 DEF Unlocked, TypeOK
  <2> QED
    BY <2>2, <2>4
<1>5. ASSUME NEW m \in Mailer, Dial(m) PROVE \E i \in Mailer : Calls(i, n)'
  <2>1. proc'[m].pc = "dialing" /\ proc'[m].cur = proc[m].cur
    BY <1>5 DEF Dial, TypeOK, Process
  <2>2. CASE n = proc[m].cur
    BY <2>1, <2>2 DEF Calls
  <2>3. CASE n # proc[m].cur
    <3>1. busy[n] # "none" /\ n \notin orphan
      BY <1>5, <2>3 DEF Dial, TypeOK
    <3>2. \A i \in Mailer : Calls(i, n) => Calls(i, n)'
      BY <1>5 DEF Dial, Calls, TypeOK, Process
    <3> QED
      BY <1>1, <3>1, <3>2
  <2> QED
    BY <2>2, <2>3
<1>6. ASSUME NEW m \in Mailer, Connect(m) PROVE Kept
  BY <1>6 DEF Connect, Calls, TypeOK, Process
<1>7. ASSUME NEW m \in Mailer, NEW x \in Node, NEW p \in Process, x = proc[m].cur, CallOver(m, x, p)
      PROVE  Kept
  <2>1. n # x /\ busy[n] # "none" /\ n \notin orphan
    BY <1>7 DEF CallOver, TypeOK
  <2>2. \A i \in Mailer \ {m} : proc'[i] = proc[i]
    BY <1>7 DEF CallOver, TypeOK
  <2>3. ~Calls(m, n)
    BY <1>7, <2>1 DEF Calls
  <2> QED
    BY <2>1, <2>2, <2>3 DEF Calls
<1>8. ASSUME NEW m \in Mailer, EndCall(m) PROVE Kept
  <2>1. CASE CallFails(m)
    <3> DEFINE x == proc[m].cur
               p == [proc[m] EXCEPT !.failures[x] = IF TooMany(proc[m], x) THEN 0 ELSE @ + 1]
    <3>1. x \in Node /\ CallOver(m, x, p)
      BY <2>1, CallerKnown DEF CallFails
    <3>2. p \in Process
      BY <3>1, FailedProcess
    <3> HIDE DEF p
    <3> QED
      BY <1>7, <3>1, <3>2
  <2>2. CASE CallSucceeds(m)
    <3> DEFINE x == proc[m].cur
               p == [proc[m] EXCEPT !.failures[x] = 0, !.trigger = TRUE]
    <3>1. x \in Node /\ CallOver(m, x, p)
      BY <2>2, CallerKnown DEF CallSucceeds
    <3>2. p \in Process
      BY <3>1, ServedProcess
    <3> HIDE DEF p
    <3> QED
      BY <1>7, <3>1, <3>2
  <2> QED
    BY <1>8, <2>1, <2>2 DEF EndCall
<1>9. ASSUME NEW m \in Mailer, ForgetUnseen(m) PROVE Kept
  BY <1>9 DEF ForgetUnseen, Calls, TypeOK
<1>10. ASSUME NEW m \in Mailer, SetMuted(m) \/ TriggerScan(m) PROVE Kept
  BY <1>10 DEF SetMuted, TriggerScan, Calls, TypeOK, Process
<1>11. ASSUME NEW m \in Mailer, Crash(m) PROVE Kept
  <2>1. n \notin orphan /\ busy[n] # "none" /\ ~Calls(m, n)
    BY <1>11 DEF Crash
  <2>2. \A i \in Mailer \ {m} : proc'[i] = proc[i]
    BY <1>11 DEF Crash, TypeOK
  <2> QED
    BY <2>1, <2>2 DEF Calls
<1>12. ASSUME NEW m \in Mailer, NEW x \in Node,
              AttemptAges(m, x) \/ Incoming(m, x) \/ IncomingEnds(m, x)
       PROVE  Kept
  <2>1. \A i \in Mailer : proc'[i].pc = proc[i].pc /\ proc'[i].cur = proc[i].cur
    <3>1. CASE AttemptAges(m, x)
      BY <3>1 DEF AttemptAges, TypeOK, Process
    <3>2. CASE Incoming(m, x)
      BY <3>2 DEF Incoming, TypeOK, Process
    <3>3. CASE IncomingEnds(m, x)
      <4>1. PICK b \in BOOLEAN : proc' = [proc EXCEPT ![m].active = @ \ {x}, ![m].trigger = @ \/ b]
        BY <3>3 DEF IncomingEnds
      <4> QED
        BY <4>1 DEF TypeOK, Process
    <3> QED
      BY <1>12, <3>1, <3>2, <3>3
  <2>2. UNCHANGED <<busy, orphan>>
    BY <1>12 DEF AttemptAges, Incoming, IncomingEnds
  <2> QED
    BY <2>1, <2>2 DEF Calls
<1>13. ASSUME NEW x \in Node, FlagAges(x) \/ Edit(x) \/ SetSuspended(x) \/ PollNow(x) PROVE Kept
  <2>1. UNCHANGED <<proc, orphan>>
    BY <1>13 DEF FlagAges, Edit, SetSuspended, PollNow
  <2>2. busy[n] # "none"
    BY <1>13 DEF FlagAges, Edit, SetSuspended, PollNow, TypeOK
  <2> QED
    BY <2>1, <2>2 DEF Calls
<1>14. CASE UNCHANGED vars
  BY <1>0, <1>14 DEF vars, Calls
<1> HIDE DEF Kept
<1> QED
  BY <1>1, <1>2, <1>3, <1>4, <1>5, <1>6, <1>8, <1>9, <1>10, <1>11, <1>12, <1>13, <1>14
     DEF Next, Scan, Visit, TypeOK, Process

\* A busy file marks a node that a process is calling, or was calling when it died: whatever
\* calls, timeouts and other processes do, and whoever's flag a call removes (Dial and
\* createBusyFile of scheduler/scheduler.go).
THEOREM BusyRemoved == Spec => []NoBusyLeft
<1>1. Init => NoBusyLeft
  BY DEF Init, NoBusyLeft, ToAll
<1> QED
  BY <1>1, TypeInit, TypeStep, NoBusyStep, PTL DEF Spec

-----------------------------------------------------------------------------
(* Failures lead to a suspension in time.  The failures that were not       *)
(* followed by a hold file are among those counted, and while there is a    *)
(* hold file there are none; so an expired hold file, which resets the      *)
(* count, hides none.                                                       *)

Counted ==
  /\ \A m \in Mailer, n \in Node : unheld[m][n] <= proc[m].failures[n]
  /\ \A n \in Node : hold[n] # "none" => \A m \in Mailer : unheld[m][n] = 0

LEMMA CountedKept ==
  ASSUME Counted, UNCHANGED unheld,
         \A m \in Mailer : proc'[m].failures = proc[m].failures,
         \A n \in Node : hold'[n] # "none" => hold[n] # "none"
  PROVE  Counted'
BY DEF Counted

LEMMA CountedScan ==
  ASSUME TypeOK, Counted, NEW m \in Mailer,
         WakeUp(m) \/ Dial(m) \/ Connect(m) \/ ForgetUnseen(m)
  PROVE  Counted'
<1>1. UNCHANGED <<unheld, hold>>
  BY DEF WakeUp, Dial, Connect, ForgetUnseen
<1>2. \A i \in Mailer : proc'[i].failures = proc[i].failures
  <2>1. CASE WakeUp(m)
    <3>1. ScanUnlessBusy(proc[m]).failures = proc[m].failures
      BY DEF ScanUnlessBusy, Scanned, TypeOK, Process
    <3>2. Scanned(proc[m]).failures = proc[m].failures
      BY DEF Scanned, TypeOK, Process
    <3>3. [ScanUnlessBusy(proc[m]) EXCEPT !.trigger = FALSE].failures = ScanUnlessBusy(proc[m]).failures
      BY DEF ScanUnlessBusy, Scanned, TypeOK, Process
    <3> QED
      BY <2>1, <3>1, <3>2, <3>3 DEF WakeUp, TypeOK
  <2>2. CASE Dial(m)
    BY <2>2 DEF Dial, TypeOK, Process
  <2>3. CASE Connect(m)
    BY <2>3 DEF Connect, TypeOK, Process
  <2>4. CASE ForgetUnseen(m)
    BY <2>4 DEF ForgetUnseen, TypeOK, Process
  <2> QED
    BY <2>1, <2>2, <2>3, <2>4
<1> QED
  BY <1>1, <1>2, CountedKept

LEMMA CountedVisit ==
  ASSUME TypeOK, Counted, NEW m \in Mailer, NEW n \in Node, SkipNode(m, n) \/ CheckNode(m, n)
  PROVE  Counted'
<1>1. CASE SkipNode(m, n)
  <2>1. UNCHANGED <<unheld, hold>>
    BY <1>1 DEF SkipNode
  <2>2. \A i \in Mailer : proc'[i].failures = proc[i].failures
    BY <1>1 DEF SkipNode, Visited, TypeOK, Process
  <2> QED
    BY <2>1, <2>2, CountedKept
<1>2. CASE CheckNode(m, n)
  <2>1. UNCHANGED unheld /\ hold' = [hold EXCEPT ![n] = "none"]
    BY <1>2 DEF CheckNode
  <2>2. \A i \in Mailer \ {m} : proc'[i] = proc[i]
    BY <1>2 DEF CheckNode, TypeOK
  <2>3. \A x \in Node : proc'[m].failures[x] =
          IF x = n /\ hold[n] = "old" THEN 0 ELSE proc[m].failures[x]
    BY <1>2 DEF CheckNode, Visited, TypeOK, Process
  <2>4. hold[n] = "old" => unheld[m][n] = 0
    BY DEF Counted
  <2>5. \A i \in Mailer, x \in Node : unheld'[i][x] <= proc'[i].failures[x]
    BY <2>1, <2>2, <2>3, <2>4 DEF Counted
  <2> QED
    BY <2>1, <2>5 DEF Counted, TypeOK
<1> QED
  BY <1>1, <1>2

LEMMA CountedEndCall ==
  ASSUME TypeOK, Counted, NEW m \in Mailer, EndCall(m)
  PROVE  Counted'
<1> DEFINE n == proc[m].cur
<1>0. n \in Node
  BY CallerKnown DEF EndCall, CallFails, CallSucceeds
<1>1. \A i \in Mailer \ {m} : proc'[i] = proc[i]
  BY DEF EndCall, CallFails, CallSucceeds, CallOver, TypeOK
<1>2. CASE CallFails(m)
  <2> DEFINE full == TooMany(proc[m], n)
  <2>1. \A x \in Node : proc'[m].failures[x] =
          IF x # n THEN proc[m].failures[x] ELSE IF full THEN 0 ELSE proc[m].failures[n] + 1
    BY <1>0, <1>2 DEF CallFails, CallOver, TypeOK, Process
  <2>2. hold' = [hold EXCEPT ![n] = IF full THEN "fresh" ELSE @]
    BY <1>2 DEF CallFails
  <2>3. \A i \in Mailer, x \in Node : unheld'[i][x] =
          IF x # n THEN unheld[i][x]
          ELSE IF hold'[n] # "none" THEN 0
          ELSE IF i = m THEN unheld[m][n] + 1 ELSE unheld[i][n]
    BY <1>0, <1>2 DEF CallFails, TypeOK
  <2>4. \A i \in Mailer, x \in Node :
          /\ unheld[i][x] \in Nat /\ proc[i].failures[x] \in Nat
          /\ unheld[i][x] <= proc[i].failures[x]
    BY DEF Counted, TypeOK, Process
  <2>5. full => hold'[n] # "none"
    BY <1>0, <2>2 DEF TypeOK
  <2> HIDE DEF n, full
  <2>6. \A i \in Mailer, x \in Node : unheld'[i][x] <= proc'[i].failures[x]
    BY <1>0, <1>1, <2>1, <2>3, <2>4, <2>5
  <2>7. \A x \in Node : hold'[x] # "none" => \A i \in Mailer : unheld'[i][x] = 0
    <3> TAKE x \in Node
    <3>1. CASE x = n
      BY <2>3, <3>1
    <3>2. CASE x # n
      BY <2>2, <2>3, <3>2 DEF Counted, TypeOK
    <3> QED
      BY <3>1, <3>2
  <2> QED
    BY <2>6, <2>7 DEF Counted
<1>3. CASE CallSucceeds(m)
  <2>1. \A x \in Node : proc'[m].failures[x] = IF x = n THEN 0 ELSE proc[m].failures[x]
    BY <1>0, <1>3 DEF CallSucceeds, CallOver, TypeOK, Process
  <2>2. UNCHANGED hold /\ unheld' = [unheld EXCEPT ![m][n] = 0]
    BY <1>3 DEF CallSucceeds
  <2>3. \A i \in Mailer, x \in Node : unheld'[i][x] = IF i = m /\ x = n THEN 0 ELSE unheld[i][x]
    BY <1>0, <2>2 DEF TypeOK
  <2> HIDE DEF n
  <2> QED
    BY <1>0, <1>1, <2>1, <2>2, <2>3 DEF Counted
<1> QED
  BY <1>2, <1>3 DEF EndCall

LEMMA CountedStep ==
  ASSUME TypeOK, Counted, [Next]_vars
  PROVE  Counted'
<1>1. ASSUME NEW m \in Mailer, WakeUp(m) \/ Scan(m) \/ Connect(m) \/ EndCall(m)
      PROVE  Counted'
  <2>1. CASE Visit(m)
    BY <2>1, CountedVisit DEF Visit, TypeOK, Process
  <2> QED
    BY <1>1, <2>1, CountedScan, CountedEndCall DEF Scan
<1>2. ASSUME NEW m \in Mailer, SetMuted(m) \/ TriggerScan(m)
      PROVE  Counted'
  <2>1. UNCHANGED <<unheld, hold>>
    BY <1>2 DEF SetMuted, TriggerScan
  <2>2. \A i \in Mailer : proc'[i].failures = proc[i].failures
    <3>1. CASE SetMuted(m)
      BY <3>1 DEF SetMuted, TypeOK, Process
    <3>2. CASE TriggerScan(m)
      BY <3>2 DEF TriggerScan, TypeOK, Process
    <3> QED
      BY <1>2, <3>1, <3>2
  <2> QED
    BY <2>1, <2>2, CountedKept
<1>3. ASSUME NEW m \in Mailer, Crash(m)
      PROVE  Counted'
  <2>1. \A i \in Mailer, n \in Node : unheld'[i][n] = IF i = m THEN 0 ELSE unheld[i][n]
    BY <1>3 DEF Crash, ToAll, TypeOK
  <2>2. \A i \in Mailer, n \in Node :
          proc'[i].failures[n] = IF i = m THEN 0 ELSE proc[i].failures[n]
    BY <1>3 DEF Crash, Fresh, ToAll, TypeOK
  <2>3. UNCHANGED hold
    BY <1>3 DEF Crash
  <2> QED
    BY <2>1, <2>2, <2>3 DEF Counted
<1>4. ASSUME NEW m \in Mailer, NEW n \in Node,
             AttemptAges(m, n) \/ Incoming(m, n) \/ IncomingEnds(m, n)
      PROVE  Counted'
  <2>1. UNCHANGED <<unheld, hold>>
    BY <1>4 DEF AttemptAges, Incoming, IncomingEnds
  <2>2. \A i \in Mailer : proc'[i].failures = proc[i].failures
    <3>1. CASE AttemptAges(m, n)
      BY <3>1 DEF AttemptAges, TypeOK, Process
    <3>2. CASE Incoming(m, n)
      BY <3>2 DEF Incoming, TypeOK, Process
    <3>3. CASE IncomingEnds(m, n)
      <4>1. PICK b \in BOOLEAN : proc' = [proc EXCEPT ![m].active = @ \ {n}, ![m].trigger = @ \/ b]
        BY <3>3 DEF IncomingEnds
      <4> QED
        BY <4>1 DEF TypeOK, Process
    <3> QED
      BY <1>4, <3>1, <3>2, <3>3
  <2> QED
    BY <2>1, <2>2, CountedKept
<1>5. ASSUME NEW n \in Node, FlagAges(n) \/ Edit(n) \/ PollNow(n)
      PROVE  Counted'
  <2>1. UNCHANGED <<unheld, proc>> /\ \A x \in Node : hold'[x] # "none" => hold[x] # "none"
    BY <1>5 DEF FlagAges, Edit, PollNow, TypeOK
  <2> QED
    BY <2>1, CountedKept
<1>6. ASSUME NEW n \in Node, SetSuspended(n)
      PROVE  Counted'
  <2>1. \A i \in Mailer, x \in Node : unheld'[i][x] = IF x = n THEN 0 ELSE unheld[i][x]
    BY <1>6 DEF SetSuspended, TypeOK
  <2>2. UNCHANGED proc /\ \A x \in Node \ {n} : hold'[x] = hold[x]
    BY <1>6 DEF SetSuspended, TypeOK
  <2>3. \A i \in Mailer, x \in Node : 0 <= proc[i].failures[x]
    BY DEF TypeOK, Process
  <2> QED
    BY <2>1, <2>2, <2>3 DEF Counted
<1>7. CASE UNCHANGED vars
  BY <1>7, CountedKept DEF vars
<1> QED
  BY <1>1, <1>2, <1>3, <1>4, <1>5, <1>6, <1>7 DEF Next

\* max_dial_attempts failed calls in a row lead to a hold file: the failures that a node saw
\* without one stay below the maximum for every maximum, though the count is reset by an expired
\* hold file, by a success and by the end of the process (pollNode of scheduler/scheduler.go).
THEOREM SuspendedInTime == Spec => []SuspendAfterMax
<1>1. Init => Counted
  BY DEF Init, Counted, Fresh, ToAll
<1>2. TypeOK /\ Counted => SuspendAfterMax
  <2> SUFFICES ASSUME TypeOK, Counted, NEW m \in Mailer, NEW n \in Node
               PROVE  unheld[m][n] < MaxDialAttempts
    BY DEF SuspendAfterMax
  <2>1. unheld[m][n] \in Nat /\ proc[m].failures[n] \in 0 .. MaxDialAttempts - 1
    BY DEF TypeOK, Process
  <2> QED
    BY <2>1, DialAssumption DEF Counted
<1> QED
  BY <1>1, <1>2, TypeInit, TypeStep, CountedStep, PTL DEF Spec

-----------------------------------------------------------------------------
(* No node is called again too early.  What the program remembers of a call *)
(* (attempt) may be forgotten only once RescanPeriod has passed (rested):   *)
(* the attempts that ForgetUnseen drops are those of nodes the scan did not *)
(* find.                                                                    *)

Remembered(m, n) ==
  /\ ~rested[m][n] => proc[m].attempt[n] = "recent"
  /\ proc[m].pc \notin {"down", "idle"} /\ proc[m].flavor[n] # None
       => n \in proc[m].seen \cup proc[m].todo
  /\ proc[m].pc = "found" /\ proc[m].cur = n => rested[m][n]

Rests == \A m \in Mailer, n \in Node : Remembered(m, n)

\* What RetryDelay says of a step.
CallsRested == \A m \in Mailer, n \in Node : ~Calls(m, n) /\ Calls(m, n)' => rested[m][n]

\* A step of one process that calls no other node than before.
LEMMA OneRests ==
  ASSUME Rests, NEW m \in Mailer,
         \A i \in Mailer \ {m} : proc'[i] = proc[i] /\ rested'[i] = rested[i],
         \A n \in Node : Remembered(m, n)',
         \A n \in Node : Calls(m, n)' => Calls(m, n)
  PROVE  Rests' /\ CallsRested
<1>1. \A i \in Mailer \ {m}, n \in Node : Remembered(i, n)' /\ (Calls(i, n)' => Calls(i, n))
  BY DEF Rests, Remembered, Calls
<1> QED
  BY <1>1 DEF Rests, CallsRested

LEMMA RestsWakeUp ==
  ASSUME TypeOK, Rests, NEW m \in Mailer, WakeUp(m)
  PROVE  Rests' /\ CallsRested
<1> DEFINE s == Scanned(proc[m])
<1>1. /\ s.pc = "poll" /\ s.attempt = proc[m].attempt /\ s.todo = Queued
      /\ \A n \in Node : s.flavor[n] # None => n \in Queued
  BY DEF Scanned, TypeOK, Process
<1>2. UNCHANGED rested /\ \A i \in Mailer \ {m} : proc'[i] = proc[i]
  BY DEF WakeUp, TypeOK
<1>3. /\ proc'[m].attempt = proc[m].attempt
      /\ \/ proc'[m].pc = "idle"
         \/ /\ proc'[m].pc = "poll" /\ proc'[m].todo = Queued
            /\ \A n \in Node : proc'[m].flavor[n] # None => n \in Queued
  <2>1. CASE proc'[m] = s
    BY <1>1, <2>1
  <2>2. CASE proc[m].pc = "idle" /\ proc'[m] = proc[m]
    BY <2>2
  <2>3. CASE proc[m].pc = "idle" /\ proc'[m] = [proc[m] EXCEPT !.trigger = FALSE]
    BY <2>3 DEF TypeOK, Process
  <2>4. CASE proc'[m] = [s EXCEPT !.trigger = FALSE]
    <3>1. /\ [s EXCEPT !.trigger = FALSE].pc = s.pc
          /\ [s EXCEPT !.trigger = FALSE].attempt = s.attempt
          /\ [s EXCEPT !.trigger = FALSE].todo = s.todo
          /\ [s EXCEPT !.trigger = FALSE].flavor = s.flavor
      BY DEF Scanned, TypeOK, Process
    <3> HIDE DEF s
    <3> QED
      BY <1>1, <2>4, <3>1
  <2> QED
    BY <2>1, <2>2, <2>3, <2>4 DEF WakeUp, ScanUnlessBusy, TypeOK
<1> HIDE DEF s
<1>4. \A n \in Node : Remembered(m, n)' /\ ~Calls(m, n)'
  BY <1>2, <1>3 DEF Rests, Remembered, Calls
<1> QED
  BY <1>2, <1>4, OneRests

LEMMA RestsVisit ==
  ASSUME TypeOK, Rests, NEW m \in Mailer, Visit(m)
  PROVE  Rests' /\ CallsRested
<1>1. PICK n \in Node : proc[m].pc = "poll" /\ (SkipNode(m, n) \/ CheckNode(m, n))
  BY DEF Visit, TypeOK, Process
<1>2. UNCHANGED rested /\ \A i \in Mailer \ {m} : proc'[i] = proc[i]
  BY <1>1 DEF SkipNode, CheckNode, TypeOK
<1>3. /\ proc'[m].attempt = proc[m].attempt /\ proc'[m].flavor = proc[m].flavor
      /\ proc'[m].seen = proc[m].seen \cup {n} /\ proc'[m].todo = proc[m].todo \ {n}
      /\ \/ proc'[m].pc = "poll"
         \/ proc'[m].pc = "found" /\ proc'[m].cur = n /\ ~Skipped(proc[m], n)
  <2>1. CASE SkipNode(m, n)
    BY <1>1, <2>1 DEF SkipNode, Visited, TypeOK, Process
  <2>2. CASE CheckNode(m, n)
    <3> DEFINE v == Visited(proc[m], n)
               p == [v EXCEPT !.failures[n] = IF hold[n] = "old" THEN 0 ELSE @]
    <3>1. /\ p.attempt = proc[m].attempt /\ p.flavor = proc[m].flavor /\ p.pc = "poll"
          /\ p.seen = proc[m].seen \cup {n} /\ p.todo = proc[m].todo \ {n}
      BY <1>1 DEF Visited, TypeOK, Process
    <3>2. proc'[m] = p \/ proc'[m] = [p EXCEPT !.pc = "found", !.cur = n]
      BY <2>2 DEF CheckNode, TypeOK
    <3>3. ~Skipped(proc[m], n)
      BY <2>2 DEF CheckNode
    <3>4. p = [p EXCEPT !.pc = "poll"] /\ ProcessOK(p)
      <4>1. ProcessOK(v)
        BY ProcsFromType, VisitedOK
      <4> HIDE DEF v
      <4>2. ProcessOK(p)
        BY <4>1, DialAssumption DEF ProcessOK, Process
      <4> HIDE DEF p
      <4> QED
        BY <3>1, <4>2 DEF ProcessOK, Process
    <3> HIDE DEF p
    <3> QED
      BY <3>1, <3>2, <3>3, <3>4 DEF ProcessOK, Process
  <2> QED
    BY <1>1, <2>1, <2>2
<1>4. ~Skipped(proc[m], n) => rested[m][n]
  BY DEF Rests, Remembered, Skipped
<1>5. \A x \in Node : Remembered(m, x)'
  BY <1>1, <1>2, <1>3, <1>4 DEF Rests, Remembered
<1>6. \A x \in Node : ~Calls(m, x)'
  BY <1>3 DEF Calls
<1> QED
  BY <1>2, <1>5, <1>6, OneRests

LEMMA RestsDial ==
  ASSUME TypeOK, Rests, NEW m \in Mailer, Dial(m)
  PROVE  Rests' /\ CallsRested
<1> DEFINE n == proc[m].cur
<1>1. n \in Node /\ proc[m].pc = "found"
  BY CallerKnown DEF Dial
<1>2. rested[m][n]
  BY <1>1 DEF Rests, Remembered
<1>3. \A i \in Mailer \ {m} : proc'[i] = proc[i] /\ rested'[i] = rested[i]
  BY DEF Dial, TypeOK
<1>4. /\ proc'[m].pc = "dialing" /\ proc'[m].cur = n
      /\ proc'[m].flavor = proc[m].flavor
      /\ proc'[m].seen = proc[m].seen /\ proc'[m].todo = proc[m].todo
      /\ \A x \in Node : proc'[m].attempt[x] = IF x = n THEN "recent" ELSE proc[m].attempt[x]
  BY <1>1 DEF Dial, TypeOK, Process
<1>5. \A x \in Node : rested'[m][x] = IF x = n THEN FALSE ELSE rested[m][x]
  BY <1>1 DEF Dial, TypeOK
<1> HIDE DEF n
<1>6. \A x \in Node : Remembered(m, x)'
  BY <1>1, <1>4, <1>5 DEF Rests, Remembered
<1>7. \A x \in Node : Calls(m, x)' => rested[m][x]
  BY <1>2, <1>4 DEF Calls
<1>8. \A i \in Mailer \ {m}, x \in Node : Remembered(i, x)' /\ (Calls(i, x)' => Calls(i, x))
  BY <1>3 DEF Rests, Remembered, Calls
<1> QED
  BY <1>6, <1>7, <1>8 DEF Rests, CallsRested

LEMMA RestsCallOver ==
  ASSUME TypeOK, Rests, NEW m \in Mailer, NEW n \in Node, NEW p \in Process, CallOver(m, n, p),
         proc[m].pc \in {"dialing", "session"},
         /\ p.attempt = proc[m].attempt /\ p.flavor = proc[m].flavor
         /\ p.seen = proc[m].seen /\ p.todo = proc[m].todo
  PROVE  Rests' /\ CallsRested
<1>1. \A i \in Mailer \ {m} : proc'[i] = proc[i] /\ rested'[i] = rested[i]
  BY DEF CallOver, TypeOK
<1>2. /\ proc'[m].pc = "poll" /\ proc'[m].flavor = proc[m].flavor
      /\ proc'[m].seen = proc[m].seen /\ proc'[m].todo = proc[m].todo
      /\ \A x \in Node : proc'[m].attempt[x] = IF x = n THEN "recent" ELSE proc[m].attempt[x]
  BY DEF CallOver, TypeOK, Process
<1>3. \A x \in Node : rested'[m][x] = IF x = n THEN FALSE ELSE rested[m][x]
  BY DEF CallOver, TypeOK
<1>4. \A x \in Node : Remembered(m, x)' /\ ~Calls(m, x)'
  BY <1>2, <1>3 DEF Rests, Remembered, Calls
<1> QED
  BY <1>1, <1>4, OneRests

LEMMA RestsEndCall ==
  ASSUME TypeOK, Rests, NEW m \in Mailer, EndCall(m)
  PROVE  Rests' /\ CallsRested
<1> DEFINE n == proc[m].cur
<1>1. n \in Node /\ proc[m].pc \in {"dialing", "session"}
  BY CallerKnown DEF EndCall, CallFails, CallSucceeds
<1>2. CASE CallFails(m)
  <2> DEFINE p == [proc[m] EXCEPT !.failures[n] = IF TooMany(proc[m], n) THEN 0 ELSE @ + 1]
  <2>1. p \in Process
    BY <1>1, FailedProcess
  <2>2. /\ p.attempt = proc[m].attempt /\ p.flavor = proc[m].flavor
        /\ p.seen = proc[m].seen /\ p.todo = proc[m].todo
    BY DEF TypeOK, Process
  <2>3. CallOver(m, n, p)
    BY <1>2 DEF CallFails
  <2> HIDE DEF n, p
  <2> QED
    BY <1>1, <2>1, <2>2, <2>3, RestsCallOver
<1>3. CASE CallSucceeds(m)
  <2> DEFINE p == [proc[m] EXCEPT !.failures[n] = 0, !.trigger = TRUE]
  <2>1. p \in Process
    BY <1>1, ServedProcess
  <2>2. /\ p.attempt = proc[m].attempt /\ p.flavor = proc[m].flavor
        /\ p.seen = proc[m].seen /\ p.todo = proc[m].todo
    BY DEF TypeOK, Process
  <2>3. CallOver(m, n, p)
    BY <1>3 DEF CallSucceeds
  <2> HIDE DEF n, p
  <2> QED
    BY <1>1, <2>1, <2>2, <2>3, RestsCallOver
<1> QED
  BY <1>2, <1>3 DEF EndCall

\* A step that leaves what one process knows of its scan as it is.
LEMMA SameScan ==
  ASSUME TypeOK, Rests, NEW m \in Mailer, UNCHANGED rested,
         \A i \in Mailer \ {m} : proc'[i] = proc[i],
         /\ proc'[m].pc = proc[m].pc /\ proc'[m].cur = proc[m].cur
         /\ proc'[m].attempt = proc[m].attempt /\ proc'[m].flavor = proc[m].flavor
         /\ proc'[m].seen = proc[m].seen /\ proc'[m].todo = proc[m].todo
  PROVE  Rests' /\ CallsRested
<1>1. \A n \in Node : Remembered(m, n)' /\ (Calls(m, n)' => Calls(m, n))
  BY DEF Rests, Remembered, Calls
<1> QED
  BY <1>1, OneRests

LEMMA RestsAside ==
  ASSUME TypeOK, Rests, NEW m \in Mailer,
         \/ SetMuted(m) \/ TriggerScan(m)
         \/ \E n \in Node : Incoming(m, n) \/ IncomingEnds(m, n)
  PROVE  Rests' /\ CallsRested
<1>1. UNCHANGED rested /\ \A i \in Mailer \ {m} : proc'[i] = proc[i]
  BY DEF SetMuted, TriggerScan, Incoming, IncomingEnds, TypeOK
<1>2. /\ proc'[m].pc = proc[m].pc /\ proc'[m].cur = proc[m].cur
      /\ proc'[m].attempt = proc[m].attempt /\ proc'[m].flavor = proc[m].flavor
      /\ proc'[m].seen = proc[m].seen /\ proc'[m].todo = proc[m].todo
  <2>1. CASE SetMuted(m)
    BY <2>1 DEF SetMuted, TypeOK, Process
  <2>2. CASE TriggerScan(m)
    BY <2>2 DEF TriggerScan, TypeOK, Process
  <2>3. ASSUME NEW n \in Node, Incoming(m, n)
        PROVE  /\ proc'[m].pc = proc[m].pc /\ proc'[m].cur = proc[m].cur
               /\ proc'[m].attempt = proc[m].attempt /\ proc'[m].flavor = proc[m].flavor
               /\ proc'[m].seen = proc[m].seen /\ proc'[m].todo = proc[m].todo
    BY <2>3 DEF Incoming, TypeOK, Process
  <2>4. ASSUME NEW n \in Node, IncomingEnds(m, n)
        PROVE  /\ proc'[m].pc = proc[m].pc /\ proc'[m].cur = proc[m].cur
               /\ proc'[m].attempt = proc[m].attempt /\ proc'[m].flavor = proc[m].flavor
               /\ proc'[m].seen = proc[m].seen /\ proc'[m].todo = proc[m].todo
    <3>1. PICK b \in BOOLEAN : proc' = [proc EXCEPT ![m].active = @ \ {n}, ![m].trigger = @ \/ b]
      BY <2>4 DEF IncomingEnds
    <3> QED
      BY <3>1 DEF TypeOK, Process
  <2> QED
    BY <2>1, <2>2, <2>3, <2>4
<1> QED
  BY <1>1, <1>2, SameScan

LEMMA RestsConnect ==
  ASSUME TypeOK, Rests, NEW m \in Mailer, Connect(m)
  PROVE  Rests' /\ CallsRested
<1>1. UNCHANGED rested /\ \A i \in Mailer \ {m} : proc'[i] = proc[i]
  BY DEF Connect, TypeOK
<1>2. /\ proc[m].pc = "dialing" /\ proc'[m].pc = "session" /\ proc'[m].cur = proc[m].cur
      /\ proc'[m].attempt = proc[m].attempt /\ proc'[m].flavor = proc[m].flavor
      /\ proc'[m].seen = proc[m].seen /\ proc'[m].todo = proc[m].todo
  BY DEF Connect, TypeOK, Process
<1>3. \A n \in Node : Remembered(m, n)' /\ (Calls(m, n)' => Calls(m, n))
  BY <1>1, <1>2 DEF Rests, Remembered, Calls
<1> QED
  BY <1>1, <1>3, OneRests

\* Where an attempt is forgotten, the scan had not found the node.
LEMMA RestsForgetUnseen ==
  ASSUME TypeOK, Rests, NEW m \in Mailer, ForgetUnseen(m)
  PROVE  Rests' /\ CallsRested
<1>1. \A i \in Mailer \ {m} : proc'[i] = proc[i] /\ rested'[i] = rested[i]
  BY DEF ForgetUnseen, TypeOK
<1>2. proc[m].pc = "poll" /\ proc[m].todo = {} /\ proc'[m].pc = "idle"
  BY DEF ForgetUnseen, TypeOK, Process
<1>3. \A n \in Node :
        proc'[m].attempt[n] = IF n \in proc[m].seen THEN proc[m].attempt[n] ELSE "zero"
  BY DEF ForgetUnseen, TypeOK, Process
<1>4. \A n \in Node : rested'[m][n] = (proc[m].flavor[n] = None \/ rested[m][n])
  BY DEF ForgetUnseen, TypeOK
<1>5. \A n \in Node : Remembered(m, n)' /\ ~Calls(m, n)'
  BY <1>2, <1>3, <1>4 DEF Rests, Remembered, Calls
<1> QED
  BY <1>1, <1>5, OneRests

LEMMA RestsAttemptAges ==
  ASSUME TypeOK, Rests, NEW m \in Mailer, NEW n \in Node, AttemptAges(m, n)
  PROVE  Rests' /\ CallsRested
<1>1. \A i \in Mailer \ {m} : proc'[i] = proc[i] /\ rested'[i] = rested[i]
  BY DEF AttemptAges, TypeOK
<1>2. /\ proc'[m].pc = proc[m].pc /\ proc'[m].cur = proc[m].cur
      /\ proc'[m].flavor = proc[m].flavor
      /\ proc'[m].seen = proc[m].seen /\ proc'[m].todo = proc[m].todo
      /\ \A x \in Node \ {n} : proc'[m].attempt[x] = proc[m].attempt[x]
  BY DEF AttemptAges, TypeOK, Process
<1>3. \A x \in Node : rested'[m][x] = IF x = n THEN TRUE ELSE rested[m][x]
  BY DEF AttemptAges, TypeOK
<1>4. \A x \in Node : Remembered(m, x)' /\ (Calls(m, x)' => Calls(m, x))
  BY <1>2, <1>3 DEF Rests, Remembered, Calls
<1> QED
  BY <1>1, <1>4, OneRests

LEMMA RestsCrash ==
  ASSUME TypeOK, Rests, NEW m \in Mailer, Crash(m)
  PROVE  Rests' /\ CallsRested
<1>1. \A i \in Mailer \ {m} : proc'[i] = proc[i] /\ rested'[i] = rested[i]
  BY DEF Crash, TypeOK
<1>2. proc'[m].pc = "down" /\ \A n \in Node : rested'[m][n]
  BY DEF Crash, Fresh, ToAll, TypeOK
<1>3. \A n \in Node : Remembered(m, n)' /\ ~Calls(m, n)'
  BY <1>2 DEF Remembered, Calls
<1> QED
  BY <1>1, <1>3, OneRests

LEMMA RestsStep ==
  ASSUME TypeOK, Rests, [Next]_vars
  PROVE  Rests' /\ CallsRested
<1>1. ASSUME NEW m \in Mailer, WakeUp(m) \/ Scan(m) \/ Connect(m) \/ EndCall(m)
      PROVE  Rests' /\ CallsRested
  BY <1>1, RestsWakeUp, RestsVisit, RestsDial, RestsForgetUnseen, RestsConnect, RestsEndCall
     DEF Scan
<1>2. ASSUME NEW m \in Mailer, SetMuted(m) \/ TriggerScan(m) \/ Crash(m)
      PROVE  Rests' /\ CallsRested
  BY <1>2, RestsAside, RestsCrash
<1>3. ASSUME NEW m \in Mailer, NEW n \in Node,
             AttemptAges(m, n) \/ Incoming(m, n) \/ IncomingEnds(m, n)
      PROVE  Rests' /\ CallsRested
  BY <1>3, RestsAttemptAges, RestsAside
<1>4. ASSUME NEW n \in Node, FlagAges(n) \/ Edit(n) \/ SetSuspended(n) \/ PollNow(n)
      PROVE  Rests' /\ CallsRested
  <2>1. UNCHANGED <<proc, rested>>
    BY <1>4 DEF FlagAges, Edit, SetSuspended, PollNow
  <2> QED
    BY <2>1 DEF Rests, Remembered, CallsRested, Calls
<1>5. CASE UNCHANGED vars
  BY <1>5 DEF vars, Rests, Remembered, CallsRested, Calls
<1> QED
  BY <1>1, <1>2, <1>3, <1>4, <1>5 DEF Next

\* A node is not called again within RescanPeriod of its last call while the scans in between
\* find mail for it: skips, hold and busy files, incoming sessions, mutes and the clearing of
\* lastAttemptTime at the end of ScanAndPoll notwithstanding.
THEOREM RetriesDelayed == Spec => RetryDelay
<1>1. Init => Rests
  BY DEF Init, Rests, Remembered, Fresh, ToAll
<1>2. CallsRested =>
        \A m \in Mailer, n \in Node : ~Calls(m, n) /\ Calls(m, n)' => rested[m][n]
  BY DEF CallsRested
<1> QED
  BY <1>1, <1>2, TypeInit, TypeStep, RestsStep, PTL DEF Spec, RetryDelay
=============================================================================
