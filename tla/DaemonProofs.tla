----------------------------- MODULE DaemonProofs -----------------------------
(***************************************************************************)
(* Proofs about the daemon.  A change of the configuration file that it    *)
(* was told of is not missed, and while the daemon waits it runs the       *)
(* services of the configuration in force and no others; no entry is left  *)
(* behind in the registry of sessions, and the scheduler does not call a   *)
(* node that has a session going; and the log files lose no line but the   *)
(* oldest and stay in bounds.                                              *)
(***************************************************************************)
EXTENDS MCDaemon, SequenceTheorems, FiniteSetTheorems, TLAPS

-----------------------------------------------------------------------------
(* No change that was asked for is missed.  The property is inductive as it *)
(* stands.                                                                  *)

LEMMA NoChangeMissedStep ==
  ASSUME NoChangeMissed, [Next]_vars
  PROVE  NoChangeMissed'
<1> USE DEF NoChangeMissed, OnItsWay
<1>0. CASE SetUp
  BY <1>0 DEF SetUp, requests
<1>1. CASE StartServices
  BY <1>1 DEF StartServices, requests
<1>2. CASE TakeReload
  BY <1>2 DEF TakeReload
<1>3. CASE TakeDone
  BY <1>3 DEF TakeDone, requests
<1>4. CASE CronStopped
  BY <1>4 DEF CronStopped, requests
<1>5. CASE Load
  <2>1. CASE file \in Broken
    BY <1>5, <2>1 DEF Load, requests
  <2>2. CASE file \notin Broken
    BY <1>5, <2>2 DEF Load, requests
  <2> QED
    BY <2>1, <2>2
<1>6. CASE WgDone
  BY <1>6 DEF WgDone, requests
<1>7. CASE JobStarts \/ JobEnds
  BY <1>7 DEF JobStarts, JobEnds, requests
<1>8. ASSUME NEW g \in Gen, WakeUp(g) \/ Call(g) \/ CallOver(g) \/ ScanOver(g) \/ Quits(g)
      PROVE  NoChangeMissed'
  BY <1>8 DEF WakeUp, Call, CallOver, ScanOver, Quits, Sched, requests
<1>9. ASSUME NEW g \in Gen, NEW k \in Server, Listen(k, g) \/ CloseServer(k, g)
      PROVE  NoChangeMissed'
  BY <1>9 DEF Listen, CloseServer, requests
<1>10. ASSUME NEW v \in Version, Edit(v)
       PROVE  NoChangeMissed'
  <2>1. PICK heard \in Heard :
          event' = (event \/ heard) /\ asked' = (heard \/ (asked /\ v = file))
    BY <1>10 DEF Edit
  <2>2. file' = v /\ UNCHANGED <<hup, reloadChan, pc, cfg>>
    BY <1>10 DEF Edit
  <2> QED
    BY <2>1, <2>2
<1>11. CASE Watch
  BY <1>11 DEF Watch, Notify
<1>12. CASE Hup
  BY <1>12 DEF Hup
<1>13. CASE HandleHup
  BY <1>13 DEF HandleHup, Notify
<1>14. CASE ApiReload
  BY <1>14 DEF ApiReload, Notify
<1>15. CASE Shutdown
  BY <1>15 DEF Shutdown
<1>16. ASSUME NEW h \in helpers, HelperEnds(h)
       PROVE  NoChangeMissed'
  BY <1>16 DEF HelperEnds, requests
<1>17. CASE UNCHANGED vars
  BY <1>17 DEF vars
<1>18. CASE WatchAdd \/ WatchFails
  BY <1>18 DEF WatchAdd, WatchFails, requests
<1> QED
  BY <1>0, <1>1, <1>2, <1>3, <1>4, <1>5, <1>6, <1>7, <1>8, <1>9, <1>10, <1>11, <1>12, <1>13,
     <1>14, <1>15, <1>16, <1>17, <1>18 DEF Next, Main

\* A content of the configuration file that is not in force, could be loaded and was told to the
\* daemon, by an event of the watcher, a SIGHUP or the API, is on its way to main, however edits,
\* requests and reloads fall together; with or without -w, and whenever the watcher is there
\* (watchConfig, setupSignalHandler, the capacity of reloadChan and the order of runDaemon's loop).
THEOREM NothingMissed == Spec => []NoChangeMissed
<1>1. Init => NoChangeMissed
  BY DEF Init, NoChangeMissed, OnItsWay
<1>2. NoChangeMissed /\ [Next]_vars => NoChangeMissed'
  BY NoChangeMissedStep
<1> QED
  BY <1>1, <1>2, PTL DEF Spec

-----------------------------------------------------------------------------
(* Generations.  Each one is started by a request of its own, so that there *)
(* are at most as many as Gen has; requests that wait are counted with      *)
(* those still to come.                                                     *)

One(b) == IF b THEN 1 ELSE 0

Requests ==
  events + One(event) + One(hup) + One(reloadChan) + One(pc \in {"stop", "load"})

EnoughGens ==
  /\ gen \in Nat \ {0} /\ events \in Nat
  /\ event \in BOOLEAN /\ hup \in BOOLEAN /\ reloadChan \in BOOLEAN
  /\ gen + Requests <= MaxEvents + 1

\* What main has done with the generations, at each point of its loop.
Stopped ==
  /\ quit \subseteq 1 .. gen /\ cancelled \subseteq 1 .. gen
  /\ \A g \in 1 .. gen - 1 : g \in quit /\ g \in cancelled
  /\ pc \in {"setup", "start", "wait"} => gen \notin quit /\ gen \notin cancelled
  /\ pc \in {"stop", "load"} => gen \in quit
  /\ pc = "load" => gen \in cancelled

UsesConfig ==
  /\ used \in [Gen -> Version \cup {0}] /\ cfg.file \in Version /\ file \in Version
  /\ pc = "wait" => used[gen] = cfg.file

IInv == EnoughGens /\ Stopped /\ UsesConfig

LEMMA IInvInit == Init => IInv
<1> SUFFICES ASSUME Init PROVE IInv
  OBVIOUS
<1>1. EnoughGens
  <2>1. ~event /\ ~hup /\ ~reloadChan /\ pc = "setup" /\ gen = 1 /\ events = MaxEvents
    BY DEF Init
  <2>2. event \in BOOLEAN /\ hup \in BOOLEAN /\ reloadChan \in BOOLEAN
    BY DEF Init
  <2> QED
    BY <2>1, <2>2, VersionAssumption DEF EnoughGens, Requests, One
<1>2. Stopped
  BY DEF Init, Stopped
<1>3. UsesConfig
  BY VersionAssumption DEF Init, UsesConfig
<1> QED
  BY <1>1, <1>2, <1>3 DEF IInv

LEMMA GenInGen == ASSUME EnoughGens PROVE gen \in Gen
BY VersionAssumption DEF EnoughGens, Requests, One, Gen

LEMMA EnoughGensStep ==
  ASSUME EnoughGens, [Next]_vars
  PROVE  EnoughGens'
<1> USE VersionAssumption DEF EnoughGens, Requests, One
<1>0. CASE SetUp
  BY <1>0 DEF SetUp, requests
<1>1. CASE StartServices
  BY <1>1 DEF StartServices, requests
<1>2. CASE TakeReload
  <2>1. ~reloadChan' /\ reloadChan' \in BOOLEAN
    BY <1>2 DEF TakeReload
  <2> QED
    BY <1>2, <2>1 DEF TakeReload
<1>3. CASE TakeDone
  BY <1>3 DEF TakeDone, requests
<1>4. CASE CronStopped
  BY <1>4 DEF CronStopped, requests
<1>5. CASE Load
  BY <1>5 DEF Load, requests
<1>6. CASE WgDone
  BY <1>6 DEF WgDone, requests
<1>7. CASE JobStarts \/ JobEnds
  BY <1>7 DEF JobStarts, JobEnds, requests
<1>8. ASSUME NEW g \in Gen, WakeUp(g) \/ Call(g) \/ CallOver(g) \/ ScanOver(g) \/ Quits(g)
      PROVE  EnoughGens'
  BY <1>8 DEF WakeUp, Call, CallOver, ScanOver, Quits, Sched, requests
<1>9. ASSUME NEW g \in Gen, NEW k \in Server, Listen(k, g) \/ CloseServer(k, g)
      PROVE  EnoughGens'
  BY <1>9 DEF Listen, CloseServer, requests
<1>10. ASSUME NEW v \in Version, Edit(v)
       PROVE  EnoughGens'
  <2>1. PICK heard \in Heard : event' = (event \/ heard)
    BY <1>10 DEF Edit
  <2>2. event' \in BOOLEAN
    BY <2>1
  <2>3. events > 0 /\ events' = events - 1 /\ UNCHANGED <<hup, reloadChan, pc, gen>>
    BY <1>10 DEF Edit
  <2> QED
    BY <2>2, <2>3
<1>11. CASE Watch
  <2>1. ~event' /\ event' \in BOOLEAN /\ reloadChan' /\ reloadChan' \in BOOLEAN
    BY <1>11 DEF Watch, Notify
  <2>2. event /\ UNCHANGED <<hup, events, pc, gen>>
    BY <1>11 DEF Watch
  <2> QED
    BY <2>1, <2>2
<1>12. CASE Hup
  BY <1>12 DEF Hup
<1>13. CASE HandleHup
  <2>1. ~hup' /\ hup' \in BOOLEAN /\ reloadChan' /\ reloadChan' \in BOOLEAN
    BY <1>13 DEF HandleHup, Notify
  <2>2. hup /\ UNCHANGED <<event, events, pc, gen>>
    BY <1>13 DEF HandleHup
  <2> QED
    BY <2>1, <2>2
<1>14. CASE ApiReload
  BY <1>14 DEF ApiReload, Notify
<1>15. CASE Shutdown
  BY <1>15 DEF Shutdown
<1>16. ASSUME NEW h \in helpers, HelperEnds(h)
       PROVE  EnoughGens'
  BY <1>16 DEF HelperEnds, requests
<1>17. CASE UNCHANGED vars
  BY <1>17 DEF vars
<1>18. CASE WatchAdd \/ WatchFails
  BY <1>18 DEF WatchAdd, WatchFails, requests
<1> QED
  BY <1>0, <1>1, <1>2, <1>3, <1>4, <1>5, <1>6, <1>7, <1>8, <1>9, <1>10, <1>11, <1>12, <1>13,
     <1>14, <1>15, <1>16, <1>17, <1>18 DEF Next, Main

\* Steps that are not main's change nothing that Stopped and UsesConfig speak of, but file.
Aside ==
  /\ UNCHANGED <<pc, gen, cfg, quit, cancelled, used>>
  /\ file' \in {file} \cup Version

LEMMA OthersAside ==
  ASSUME [Next]_vars, ~Main, ~TakeDone
  PROVE  Aside
<1> USE DEF Aside
<1>7. CASE JobStarts \/ JobEnds
  BY <1>7 DEF JobStarts, JobEnds, requests, services
<1>8. ASSUME NEW g \in Gen, WakeUp(g) \/ Call(g) \/ CallOver(g) \/ ScanOver(g) \/ Quits(g)
      PROVE  Aside
  BY <1>8 DEF WakeUp, Call, CallOver, ScanOver, Quits, Sched, requests
<1>9. ASSUME NEW g \in Gen, NEW k \in Server, Listen(k, g) \/ CloseServer(k, g)
      PROVE  Aside
  BY <1>9 DEF Listen, CloseServer, requests
<1>10. ASSUME NEW v \in Version, Edit(v)
       PROVE  Aside
  BY <1>10 DEF Edit, services
<1>11. CASE Watch \/ Hup \/ HandleHup \/ ApiReload \/ Shutdown
  BY <1>11 DEF Watch, Hup, HandleHup, ApiReload, Shutdown, services
<1>16. ASSUME NEW h \in helpers, HelperEnds(h)
       PROVE  Aside
  BY <1>16 DEF HelperEnds, requests, services
<1>17. CASE UNCHANGED vars
  BY <1>17 DEF vars
<1>18. CASE WatchAdd \/ WatchFails
  BY <1>18 DEF WatchAdd, WatchFails, requests, services
<1> QED
  BY <1>7, <1>8, <1>9, <1>10, <1>11, <1>16, <1>17, <1>18 DEF Next

LEMMA StoppedStep ==
  ASSUME IInv, [Next]_vars
  PROVE  Stopped'
<1> USE DEF IInv, Stopped
<1>0. gen \in Nat \ {0}
  BY DEF EnoughGens
<1>1. CASE StartServices
  BY <1>1 DEF StartServices, requests
<1>2. CASE TakeReload
  BY <1>0, <1>2 DEF TakeReload, StopScheduler
<1>3. CASE TakeDone
  BY <1>0, <1>3 DEF TakeDone, StopScheduler, requests
<1>4. CASE CronStopped
  BY <1>0, <1>4 DEF CronStopped, Cancel, requests
<1>5. CASE Load
  BY <1>0, <1>5 DEF Load, requests, services
<1>6. CASE WgDone
  BY <1>6 DEF WgDone, requests, services
<1>7. CASE SetUp
  BY <1>7 DEF SetUp, requests, services
<1>8. CASE ~Main /\ ~TakeDone
  BY <1>8, OthersAside DEF Aside
<1> QED
  BY <1>1, <1>2, <1>3, <1>4, <1>5, <1>6, <1>7, <1>8 DEF Main

LEMMA UsesConfigStep ==
  ASSUME IInv, [Next]_vars
  PROVE  UsesConfig'
<1> USE DEF IInv, UsesConfig
<1>0. gen \in Gen
  BY GenInGen
<1>1. CASE StartServices
  BY <1>0, <1>1 DEF StartServices, requests
<1>2. CASE TakeReload
  BY <1>2 DEF TakeReload
<1>3. CASE TakeDone
  BY <1>3 DEF TakeDone, requests
<1>4. CASE CronStopped
  BY <1>4 DEF CronStopped, requests
<1>5. CASE Load
  BY <1>5 DEF Load, requests, services
<1>6. CASE WgDone
  BY <1>6 DEF WgDone, requests, services
<1>7. CASE SetUp
  BY <1>7 DEF SetUp, requests, services
<1>8. CASE ~Main /\ ~TakeDone
  BY <1>8, OthersAside DEF Aside
<1> QED
  BY <1>1, <1>2, <1>3, <1>4, <1>5, <1>6, <1>7, <1>8 DEF Main

\* While the daemon waits, the services of the current generation are meant to run, with the
\* configuration in force, and those of all earlier ones were told to end: for any number of
\* reloads, with configurations that load and that do not (the loop of runDaemon).
THEOREM ServicesCurrent == Spec => []CurrentServices
<1>1. IInv /\ [Next]_vars => IInv'
  BY EnoughGensStep, StoppedStep, UsesConfigStep DEF IInv
<1>2. IInv => CurrentServices
  BY DEF IInv, Stopped, UsesConfig, CurrentServices
<1> QED
  BY IInvInit, <1>1, <1>2, PTL DEF Spec

-----------------------------------------------------------------------------
(* The registry of sessions.                                                *)

\* The sender writes to the registry while its session is there: Join waits for it.
RegistryInv ==
  /\ DOMAIN sessions = Registry!Ids /\ DOMAIN reader = Session /\ DOMAIN sender = Session
  /\ \A s \in Session : sender[s] # "off" => reader[s] \in {"transfer", "joining"}
  /\ Registry!NoGhost

LEMMA RegistryInit == Registry!Init => RegistryInv
BY DEF Registry!Init, RegistryInv, Registry!NoGhost

\* A session that stays in the registry, or does not touch it.
LEMMA StaysRegistered ==
  ASSUME RegistryInv, NEW s \in Session, NEW to,
         reader' = [reader EXCEPT ![s] = to],
         to \in Registry!Registered \/ reader[s] \notin Registry!Registered,
         \/ UNCHANGED sessions
         \/ to \in Registry!Registered /\ \E x : sessions' = [sessions EXCEPT ![Id[s]] = x]
  PROVE  Registry!NoGhost'
<1> SUFFICES ASSUME NEW i \in Registry!Ids, sessions'[i] # None
             PROVE  \E t \in Session : Id[t] = i /\ reader'[t] \in Registry!Registered
  BY DEF Registry!NoGhost
<1>1. CASE i = Id[s] /\ to \in Registry!Registered
  BY <1>1 DEF RegistryInv
<1>2. CASE ~(i = Id[s] /\ to \in Registry!Registered)
  <2>1. sessions[i] # None
    BY <1>2 DEF RegistryInv
  <2>2. PICK t \in Session : Id[t] = i /\ reader[t] \in Registry!Registered
    BY <2>1 DEF RegistryInv, Registry!NoGhost
  <2> QED
    BY <1>2, <2>2 DEF RegistryInv
<1> QED
  BY <1>1, <1>2

\* A registered session that writes its entry.
LEMMA Writes ==
  ASSUME RegistryInv, NEW s \in Session, reader[s] \in Registry!Registered, UNCHANGED reader,
         NEW x, sessions' = [sessions EXCEPT ![Id[s]] = x]
  PROVE  Registry!NoGhost'
BY DEF RegistryInv, Registry!NoGhost

LEMMA GhostStep ==
  ASSUME RegistryInv, NEW s \in Session, Registry!Step(s)
  PROVE  Registry!NoGhost'
<1> USE DEF Registry!At, Registry!Registered, Registry!UpdateMonitor
<1>1. CASE \/ Registry!Accept(s) \/ Registry!Check(s) \/ Registry!Connect(s)
           \/ Registry!DialFails(s) \/ Registry!RunMuted(s) \/ Registry!OnSessionEnd(s)
  BY <1>1, StaysRegistered
     DEF Registry!Accept, Registry!Check, Registry!Connect, Registry!DialFails,
         Registry!RunMuted, Registry!OnSessionEnd
<1>2. CASE Registry!Run(s)
  BY <1>2, StaysRegistered DEF Registry!Run
<1>3. CASE Registry!HandleAdr(s) \/ Registry!Receive(s)
  BY <1>3, Writes DEF Registry!HandleAdr, Registry!Receive
<1>4. CASE Registry!Send(s)
  BY <1>4, Writes DEF Registry!Send, RegistryInv
<1>5. CASE \/ Registry!HandshakeFails(s) \/ Registry!HandshakeDone(s)
           \/ Registry!ReaderEnds(s) \/ Registry!Join(s)
  BY <1>5, StaysRegistered
     DEF Registry!HandshakeFails, Registry!HandshakeDone, Registry!ReaderEnds, Registry!Join
<1>6. CASE Registry!SenderEnds(s)
  BY <1>6 DEF Registry!SenderEnds, RegistryInv, Registry!NoGhost
<1>7. CASE Registry!Finish(s)
  BY <1>7, StaysRegistered DEF Registry!Finish
<1>8. CASE Registry!Unregister(s)
  <2>1. reader' = [reader EXCEPT ![s] = "notify"]
    BY <1>8 DEF Registry!Unregister
  <2>2. sessions'[Id[s]] = None /\ \A i \in Registry!Ids : i # Id[s] => sessions'[i] = sessions[i]
    BY <1>8 DEF Registry!Unregister, Registry!UnregisterSession, RegistryInv, Registry!Ids
  <2> QED
    BY <2>1, <2>2 DEF RegistryInv, Registry!NoGhost
<1> QED
  BY <1>1, <1>2, <1>3, <1>4, <1>5, <1>6, <1>7, <1>8 DEF Registry!Step

LEMMA SenderStep ==
  ASSUME RegistryInv, NEW s \in Session, Registry!Step(s)
  PROVE  /\ DOMAIN sessions' = Registry!Ids
         /\ DOMAIN reader' = Session /\ DOMAIN sender' = Session
         /\ \A t \in Session : sender'[t] # "off" => reader'[t] \in {"transfer", "joining"}
<1> USE DEF RegistryInv, Registry!At
<1>1. CASE \/ Registry!Accept(s) \/ Registry!Check(s) \/ Registry!Connect(s)
           \/ Registry!DialFails(s) \/ Registry!RunMuted(s) \/ Registry!OnSessionEnd(s)
  BY <1>1
     DEF Registry!Accept, Registry!Check, Registry!Connect, Registry!DialFails,
         Registry!RunMuted, Registry!OnSessionEnd
<1>2. CASE Registry!Run(s) \/ Registry!HandleAdr(s) \/ Registry!Receive(s) \/ Registry!Send(s)
  BY <1>2
     DEF Registry!Run, Registry!HandleAdr, Registry!Receive, Registry!Send, Registry!UpdateMonitor
<1>3. CASE \/ Registry!HandshakeFails(s) \/ Registry!HandshakeDone(s) \/ Registry!SenderEnds(s)
           \/ Registry!ReaderEnds(s) \/ Registry!Join(s)
  BY <1>3
     DEF Registry!HandshakeFails, Registry!HandshakeDone, Registry!SenderEnds,
         Registry!ReaderEnds, Registry!Join
<1>4. CASE Registry!Finish(s) \/ Registry!Unregister(s)
  BY <1>4
     DEF Registry!Finish, Registry!Unregister, Registry!UpdateMonitor, Registry!UnregisterSession
<1> QED
  BY <1>1, <1>2, <1>3, <1>4 DEF Registry!Step

LEMMA RegistryNext == RegistryInv /\ Registry!Next => RegistryInv'
<1> SUFFICES ASSUME RegistryInv, Registry!Next PROVE RegistryInv'
  OBVIOUS
<1>1. CASE Registry!SetMuted
  BY <1>1 DEF Registry!SetMuted, RegistryInv, Registry!NoGhost
<1>2. ASSUME NEW s \in Session, Registry!Step(s)
      PROVE  RegistryInv'
  BY <1>2, GhostStep, SenderStep DEF RegistryInv
<1> QED
  BY <1>1, <1>2 DEF Registry!Next

LEMMA RegistryStands == RegistryInv /\ UNCHANGED monitorVars => RegistryInv'
BY DEF RegistryInv, monitorVars, Registry!NoGhost

\* No entry outlives its sessions, for any number of sessions and also where several have the
\* same remote end, whichever of the goroutines writes last (the deferred function of Run in
\* binkp/session.go, UnregisterSession of monitor.go).
THEOREM NoGhosts == MCSpec => []NoGhost
<1>1. MCInit => RegistryInv
  BY RegistryInit DEF MCInit
<1>2. RegistryInv /\ [MCNext]_allVars => RegistryInv'
  BY RegistryNext, RegistryStands DEF MCNext, allVars, monitorVars
<1>3. RegistryInv => NoGhost
  BY DEF RegistryInv, NoGhost
<1> QED
  BY <1>1, <1>2, <1>3, PTL DEF MCSpec

-----------------------------------------------------------------------------
(* Calls.                                                                   *)

\* Each connection has a remote end of its own, and a node is called by the address that it
\* presents first.
OneEach ==
  /\ \A s, t \in Session : Id[s] = Id[t] => s = t
  /\ \A s, t \in Session : Target[s] \in Registry!ToSet(Addrs[t]) => Target[s] = Head(Addrs[t])

\* A session that is in the registry from its handshake on is there with the address that others
\* look for.
Entered ==
  /\ known \subseteq Session
  /\ \A t \in Session :
       /\ reader[t] \in {"handshake", "transfer", "joining", "finishing"}
          => sessions[Id[t]] # None /\ sessions[Id[t]].remote = Registry!Remote(t)
       /\ reader[t] \in {"transfer", "joining"} => t \in known

CallsInv == RegistryInv /\ Entered

LEMMA WrittenEntry ==
  ASSUME NEW s \in Session, NEW state \in Registry!States
  PROVE  /\ [remote |-> Registry!Remote(s), state |-> state] # None
         /\ [remote |-> Head(Addrs[s]), state |-> state] # None
<1>1. Addrs[s] \in Seq(Registry!ToSet(Addrs[s])) /\ Addrs[s] # <<>>
  BY RegistryAssumption DEF Registry!AddressAssumption
<1>2. PICK q : q = Addrs[s]
  OBVIOUS
<1>3. Head(q) \in Registry!ToSet(q)
  BY <1>1, <1>2 DEF Registry!ToSet
<1>4. Head(Addrs[s]) \in UNION {Registry!ToSet(Addrs[t]) : t \in Session}
  BY <1>2, <1>3
<1>5. Head(Addrs[s]) \in Registry!Remotes
  BY <1>4 DEF Registry!Remotes
<1>6. Registry!Remote(s) \in Registry!Remotes
  <2>1. Target[s] \in Registry!Remotes
    BY DEF Registry!Remotes
  <2>2. Id[s] \in Registry!Remotes
    BY DEF Registry!Remotes, Registry!Ids
  <2> QED
    BY <1>5, <2>1, <2>2 DEF Registry!Remote
<1> QED
  BY <1>5, <1>6, RegistryAssumption DEF Registry!NoneAssumption, Registry!Info

\* The step changes one session, and no entry but its own.
LEMMA OthersEntered ==
  ASSUME RegistryInv, OneEach, NEW s \in Session, Registry!Step(s), NEW t \in Session, t # s
  PROVE  /\ reader'[t] = reader[t] /\ sessions'[Id[t]] = sessions[Id[t]]
         /\ (t \in known' <=> t \in known)
<1> USE DEF RegistryInv, OneEach, Registry!At
<1>1. CASE \/ Registry!Accept(s) \/ Registry!Check(s) \/ Registry!Connect(s)
           \/ Registry!DialFails(s) \/ Registry!RunMuted(s)
  BY <1>1
     DEF Registry!Accept, Registry!Check, Registry!Connect, Registry!DialFails,
         Registry!RunMuted
<1>2. CASE Registry!OnSessionEnd(s)
  BY <1>2 DEF Registry!OnSessionEnd
<1>3. CASE Registry!Run(s)
  BY <1>3 DEF Registry!Run, Registry!UpdateMonitor
<1>4. CASE Registry!HandleAdr(s) \/ Registry!Receive(s) \/ Registry!Send(s)
  <2>1. Id[t] # Id[s] /\ UNCHANGED reader
    BY <1>4 DEF Registry!HandleAdr, Registry!Receive, Registry!Send
  <2>2. \E x : sessions' = [sessions EXCEPT ![Id[s]] = x]
    BY <1>4 DEF Registry!HandleAdr, Registry!Receive, Registry!Send, Registry!UpdateMonitor
  <2>3. t \in known' <=> t \in known
    BY <1>4 DEF Registry!HandleAdr, Registry!Receive, Registry!Send
  <2> QED
    BY <2>1, <2>2, <2>3 DEF Registry!Ids
<1>5. CASE \/ Registry!HandshakeFails(s) \/ Registry!HandshakeDone(s) \/ Registry!SenderEnds(s)
           \/ Registry!ReaderEnds(s) \/ Registry!Join(s)
  BY <1>5
     DEF Registry!HandshakeFails, Registry!HandshakeDone, Registry!SenderEnds,
         Registry!ReaderEnds, Registry!Join
<1>6. CASE Registry!Finish(s)
  BY <1>6 DEF Registry!Finish, Registry!UpdateMonitor
<1>7. CASE Registry!Unregister(s)
  <2>1. Id[t] # Id[s] /\ Id[t] \in Registry!Ids
    BY DEF Registry!Ids
  <2> QED
    BY <1>7, <2>1 DEF Registry!Unregister, Registry!UnregisterSession
<1> QED
  BY <1>1, <1>2, <1>3, <1>4, <1>5, <1>6, <1>7 DEF Registry!Step

EnteredAt(t) ==
  /\ reader[t] \in {"handshake", "transfer", "joining", "finishing"}
     => sessions[Id[t]] # None /\ sessions[Id[t]].remote = Registry!Remote(t)
  /\ reader[t] \in {"transfer", "joining"} => t \in known

\* The session itself.
LEMMA SelfEntered ==
  ASSUME CallsInv, NEW s \in Session, Registry!Step(s)
  PROVE  EnteredAt(s)'
<1> USE DEF CallsInv, RegistryInv, Registry!At, Entered, EnteredAt, Registry!Remote
<1> USE DEF Registry!Ids
<1>1. CASE \/ Registry!Accept(s) \/ Registry!Check(s) \/ Registry!Connect(s)
           \/ Registry!DialFails(s) \/ Registry!RunMuted(s) \/ Registry!OnSessionEnd(s)
  BY <1>1
     DEF Registry!Accept, Registry!Check, Registry!Connect, Registry!DialFails,
         Registry!RunMuted, Registry!OnSessionEnd
<1>2. ASSUME NEW state \in Registry!States, Registry!UpdateMonitor(s, state), s \in known' <=> s \in known
      PROVE  sessions'[Id[s]] # None /\ sessions'[Id[s]].remote = Registry!Remote(s)'
  BY <1>2, WrittenEntry DEF Registry!UpdateMonitor
<1>3. CASE Registry!Run(s)
  BY <1>3, <1>2 DEF Registry!Run, Registry!States
<1>4. CASE Registry!Receive(s) \/ Registry!Send(s)
  BY <1>4, <1>2 DEF Registry!Receive, Registry!Send, Registry!States
<1>5. CASE Registry!HandleAdr(s)
  <2>1. sessions'[Id[s]] = [remote |-> Head(Addrs[s]), state |-> "Handshake"]
    BY <1>5 DEF Registry!HandleAdr
  <2>2. sessions'[Id[s]] # None
    BY <2>1, WrittenEntry DEF Registry!States
  <2> QED
    BY <1>5, <2>1, <2>2 DEF Registry!HandleAdr
<1>6. CASE \/ Registry!HandshakeFails(s) \/ Registry!HandshakeDone(s) \/ Registry!SenderEnds(s)
           \/ Registry!ReaderEnds(s) \/ Registry!Join(s)
  BY <1>6
     DEF Registry!HandshakeFails, Registry!HandshakeDone, Registry!SenderEnds,
         Registry!ReaderEnds, Registry!Join
<1>7. CASE Registry!Finish(s) \/ Registry!Unregister(s)
  BY <1>7 DEF Registry!Finish, Registry!Unregister
<1> QED
  BY <1>1, <1>3, <1>4, <1>5, <1>6, <1>7 DEF Registry!Step

LEMMA CallsNext ==
  ASSUME CallsInv, OneEach, Registry!Next
  PROVE  CallsInv'
<1>1. RegistryInv'
  BY RegistryNext DEF CallsInv
<1>2. CASE Registry!SetMuted
  BY <1>1, <1>2 DEF Registry!SetMuted, CallsInv, Entered, Registry!Remote
<1>3. ASSUME NEW s \in Session, Registry!Step(s)
      PROVE  Entered'
  <2>1. known' \subseteq Session
    BY <1>3
       DEF CallsInv, Entered, Registry!Step, Registry!Accept, Registry!Check, Registry!Connect,
           Registry!DialFails, Registry!RunMuted, Registry!Run, Registry!HandleAdr,
           Registry!HandshakeFails, Registry!HandshakeDone, Registry!Receive, Registry!Send,
           Registry!SenderEnds, Registry!ReaderEnds, Registry!Join, Registry!Finish,
           Registry!Unregister, Registry!OnSessionEnd
  <2>2. ASSUME NEW t \in Session, t # s
        PROVE  EnteredAt(t)'
    BY <1>3, <2>2, OthersEntered DEF CallsInv, Entered, EnteredAt, Registry!Remote
  <2>3. EnteredAt(s)'
    BY <1>3, SelfEntered
  <2> QED
    BY <2>1, <2>2, <2>3 DEF Entered, EnteredAt
<1> QED
  BY <1>1, <1>2, <1>3 DEF Registry!Next, CallsInv

\* The scheduler does not call a node that has a session going, where each connection has a
\* remote end of its own and a node is called by the address it presents first (the check in
\* ScanAndPoll against updateMonitor and handleAdr).
THEOREM NoSecondCall == ASSUME OneEach PROVE MCSpec => CallsInactive
<1>1. MCInit => CallsInv
  BY RegistryInit DEF MCInit, CallsInv, Entered, Registry!Init
<1>2. CallsInv /\ [MCNext]_allVars => CallsInv'
  <2>1. CallsInv /\ UNCHANGED monitorVars => CallsInv'
    BY RegistryStands DEF CallsInv, Entered, monitorVars, Registry!Remote
  <2> QED
    BY <2>1, CallsNext DEF MCNext, allVars, monitorVars
<1>3. ASSUME CallsInv, NEW s \in Session, NEW t \in Session,
             Registry!Check(s), Target[s] \in Registry!ToSet(Addrs[t])
      PROVE  reader[t] \notin {"transfer", "joining"}
  <2> SUFFICES ASSUME reader[t] \in {"transfer", "joining"} PROVE FALSE
    OBVIOUS
  <2>1. sessions[Id[t]] # None /\ sessions[Id[t]].remote = Head(Addrs[t])
    BY <1>3 DEF CallsInv, Entered, Registry!Remote
  <2>2. Target[s] = Head(Addrs[t])
    BY <1>3 DEF OneEach
  <2> QED
    BY <1>3, <2>1, <2>2 DEF Registry!Check, Registry!IsNodeActive, Registry!Ids
<1>4. CallsInv =>
        [\A s, t \in Session :
           Registry!Check(s) /\ s # t /\ Target[s] \in Registry!ToSet(Addrs[t])
           => reader[t] \notin {"transfer", "joining"}]_Registry!vars
  BY <1>3
<1>5. CallsInactive <=>
        [][\A s, t \in Session :
             Registry!Check(s) /\ s # t /\ Target[s] \in Registry!ToSet(Addrs[t])
             => reader[t] \notin {"transfer", "joining"}]_Registry!vars
  BY DEF CallsInactive, Registry!CallsInactive, Registry!vars
<1> QED
  BY <1>1, <1>2, <1>4, <1>5, PTL DEF MCSpec

-----------------------------------------------------------------------------
(* The log file of the daemon, which is its only writer.                    *)

\* The sequence q is the last Len(q) of n lines.
LastLines(q, n) == \A i \in 1 .. Len(q) : q[i] = n - Len(q) + i

LEMMA LastLinesAppend ==
  ASSUME NEW q \in Seq(Nat), NEW n \in Nat, LastLines(q, n)
  PROVE  LastLines(Append(q, n + 1), n + 1)
<1>1. PICK k \in Nat : k = Len(q)
  OBVIOUS
<1> SUFFICES ASSUME NEW i \in 1 .. k + 1
             PROVE  Append(q, n + 1)[i] = n - k + i
  <2>1. Len(Append(q, n + 1)) = k + 1
    BY <1>1
  <2>2. \A i \in 1 .. k + 1 : (n + 1) - (k + 1) + i = n - k + i
    OBVIOUS
  <2> QED
    BY <2>1, <2>2 DEF LastLines
<1>2. CASE i = k + 1
  <2>1. Append(q, n + 1)[k + 1] = n + 1
    BY <1>1
  <2>2. n - k + (k + 1) = n + 1
    BY <1>1
  <2> QED
    BY <1>2, <2>1, <2>2
<1>3. CASE i \in 1 .. k
  <2>1. q[i] = n - k + i
    BY <1>1, <1>3 DEF LastLines
  <2>2. Append(q, n + 1)[i] = q[i]
    BY <1>1, <1>3
  <2> QED
    BY <2>1, <2>2
<1>4. i = k + 1 \/ i \in 1 .. k
  OBVIOUS
<1> QED
  BY <1>2, <1>3, <1>4

LEMMA LastLinesSuffix ==
  ASSUME NEW a \in Seq(Nat), NEW b \in Seq(Nat), NEW n \in Nat, LastLines(a \o b, n)
  PROVE  LastLines(b, n)
<1>1. PICK k \in Nat : k = Len(a)
  OBVIOUS
<1>2. PICK m \in Nat : m = Len(b)
  OBVIOUS
<1> SUFFICES ASSUME NEW i \in 1 .. m
             PROVE  b[i] = n - m + i
  BY <1>2 DEF LastLines
<1>3. k + i \in 1 .. k + m /\ Len(a \o b) = k + m
  BY <1>1, <1>2
<1>4. (a \o b)[k + i] = b[i]
  BY <1>1, <1>2, <1>3
<1>5. (a \o b)[k + i] = n - (k + m) + (k + i)
  BY <1>3 DEF LastLines
<1> QED
  BY <1>4, <1>5

LEMMA ConcatAppend ==
  ASSUME NEW a \in Seq(Nat), NEW b \in Seq(Nat), NEW x \in Nat
  PROVE  a \o Append(b, x) = Append(a \o b, x)
OBVIOUS

LEMMA AloneCardinality == ASSUME NEW S PROVE Alone!Cardinality(S) = Cardinality(S)
BY DEF Alone!Cardinality, Cardinality

LEMMA AloneFiles == Alone!File = 1 .. 3
<1>1. Alone!Cardinality({Daemon}) = 1
  BY FS_Singleton, AloneCardinality
<1> QED
  BY <1>1 DEF Alone!File

AloneTypeOK ==
  /\ current \in Alone!File \cup {None} /\ old \in Alone!File \cup {None}
  /\ content \in [Alone!File -> Seq(Nat)]
  /\ fd \in [{Daemon} -> Alone!File \cup {None}]
  /\ at \in [{Daemon} -> {"closed", "ready", "write", "rename", "open"}]
  /\ lines \in Nat /\ works

\* The writer has the current file open, or none; it renames a file that is too large, and the
\* two files are not one.
AloneInv ==
  /\ AloneTypeOK
  /\ old # None => old # current
  /\ fd[Daemon] = IF at[Daemon] \in {"ready", "write"} THEN current ELSE None
  /\ at[Daemon] \in {"ready", "write"} => current # None
  /\ at[Daemon] = "rename" => current # None /\ Len(content[current]) > MaxSize /\ MaxSize > 0
  /\ Alone!Kept

KeptLines == Alone!LinesOf(old) \o Alone!LinesOf(current)

Enough(n, m) == n = m \/ (MaxSize > 0 /\ n > MaxSize)

LEMMA KeptIs == Alone!Kept <=> LastLines(KeptLines, lines) /\ Enough(Len(KeptLines), lines)
BY DEF Alone!Kept, LastLines, KeptLines, Enough

LEMMA LinesOfType ==
  ASSUME AloneTypeOK
  PROVE  Alone!LinesOf(old) \in Seq(Nat) /\ Alone!LinesOf(current) \in Seq(Nat)
<1>1. << >> \in Seq(Nat)
  OBVIOUS
<1> QED
  BY <1>1 DEF Alone!LinesOf, AloneTypeOK

LEMMA AloneUnused ==
  ASSUME AloneInv, current = None, fd[Daemon] = None
  PROVE  Alone!Unused \in Alone!File /\ Alone!Unused # old
<1>1. None \notin Nat
  BY LogAssumption DEF Alone!WriterAssumption
<1>2. \E f \in Alone!File : f \notin {current, old} /\ \A w \in {Daemon} : fd[w] # f
  <2>1. CASE old = 1
    BY <1>1, <2>1, AloneFiles
  <2>2. CASE old # 1
    BY <1>1, <2>2, AloneFiles
  <2> QED
    BY <2>1, <2>2
<1> QED
  BY <1>2 DEF Alone!Unused

\* Opening the file leaves what is kept as it is.
LEMMA AloneOpens ==
  ASSUME AloneInv, Alone!OpenFile(Daemon), fd[Daemon] = None, UNCHANGED <<old, lines>>
  PROVE  /\ current' \in Alone!File /\ content' \in [Alone!File -> Seq(Nat)]
         /\ fd' = [fd EXCEPT ![Daemon] = current'] /\ old' # current'
         /\ KeptLines' = KeptLines
<1>1. None \notin Nat
  BY LogAssumption DEF Alone!WriterAssumption
<1>2. CASE current # None
  <2>1. current' = current /\ content' = content /\ fd' = [fd EXCEPT ![Daemon] = current']
    BY <1>2 DEF Alone!OpenFile
  <2>2. KeptLines' = KeptLines
    BY <2>1 DEF KeptLines, Alone!LinesOf
  <2>3. current' \in Alone!File /\ old' # current'
    BY <1>2, <2>1 DEF AloneInv, AloneTypeOK
  <2> QED
    BY <2>1, <2>2, <2>3 DEF AloneInv, AloneTypeOK
<1>3. CASE current = None
  <2>1. PICK f : f = Alone!Unused
    OBVIOUS
  <2>2. /\ current' = f /\ content' = [content EXCEPT ![f] = << >>]
        /\ fd' = [fd EXCEPT ![Daemon] = f]
    BY <1>3, <2>1 DEF Alone!OpenFile
  <2>3. f \in Alone!File /\ f # old
    BY <1>3, <2>1, AloneUnused
  <2>4. content' \in [Alone!File -> Seq(Nat)]
    BY <2>2, <2>3 DEF AloneInv, AloneTypeOK
  <2>5. Alone!LinesOf(current)' = << >> /\ Alone!LinesOf(current) = << >>
    <3>1. f # None
      BY <1>1, <2>3, AloneFiles
    <3> QED
      BY <1>3, <2>2, <2>3, <3>1 DEF Alone!LinesOf, AloneInv, AloneTypeOK
  <2>6. Alone!LinesOf(old)' = Alone!LinesOf(old)
    BY <2>2, <2>3 DEF Alone!LinesOf, AloneInv, AloneTypeOK
  <2> QED
    BY <2>2, <2>3, <2>4, <2>5, <2>6 DEF KeptLines
<1> QED
  BY <1>2, <1>3

LEMMA AlonePut ==
  ASSUME AloneInv, Alone!Put(Daemon)
  PROVE  AloneInv'
<1>1. PICK f : f = current
  OBVIOUS
<1>2. at[Daemon] = "write" /\ fd[Daemon] = f /\ f \in Alone!File /\ f # None
  BY <1>1 DEF Alone!Put, Alone!Go, AloneInv, AloneTypeOK
<1>3. PICK line \in Nat : line = lines + 1
  BY DEF AloneInv, AloneTypeOK
<1>4. /\ content' = [content EXCEPT ![f] = Append(content[f], line)]
      /\ at' = [at EXCEPT ![Daemon] = "ready"]
      /\ UNCHANGED <<current, old, fd, works>> /\ lines' = line
  BY <1>2, <1>3 DEF Alone!Put, Alone!Go
<1>5. content[f] \in Seq(Nat)
  BY <1>2 DEF AloneInv, AloneTypeOK
<1>6. Append(content[f], line) \in Seq(Nat)
  BY <1>3, <1>5
<1>7. AloneTypeOK'
  BY <1>2, <1>4, <1>6 DEF AloneInv, AloneTypeOK
<1>8. Alone!Kept'
  <2>1. Alone!LinesOf(current) = content[f] /\ Alone!LinesOf(current)' = Append(content[f], line)
    BY <1>1, <1>2, <1>4 DEF Alone!LinesOf, AloneInv, AloneTypeOK
  <2>2. Alone!LinesOf(old)' = Alone!LinesOf(old)
    BY <1>1, <1>2, <1>4 DEF Alone!LinesOf, AloneInv, AloneTypeOK
  <2>3. PICK kept : kept = KeptLines
    OBVIOUS
  <2>4. KeptLines' = Append(kept, line) /\ kept \in Seq(Nat)
    <3>1. PICK a \in Seq(Nat) : a = Alone!LinesOf(old)
      BY LinesOfType DEF AloneInv
    <3>2. kept = a \o content[f] /\ KeptLines' = a \o Append(content[f], line)
      BY <2>1, <2>2, <2>3, <3>1 DEF KeptLines
    <3> QED
      BY <1>3, <1>5, <3>2, ConcatAppend
  <2>5. LastLines(kept, lines) /\ Enough(Len(kept), lines)
    BY <2>3, KeptIs DEF AloneInv
  <2>6. LastLines(Append(kept, line), line)
    BY <1>3, <2>4, <2>5, LastLinesAppend DEF AloneInv, AloneTypeOK
  <2>7. Enough(Len(Append(kept, line)), line)
    <3>1. PICK n \in Nat : n = Len(kept)
      BY <2>4
    <3>2. Len(Append(kept, line)) = n + 1
      BY <2>4, <3>1
    <3> QED
      BY <1>3, <2>5, <3>1, <3>2, LogAssumption DEF Enough, Alone!BoundAssumption
  <2>8. Alone!Kept' <=> LastLines(KeptLines', lines') /\ Enough(Len(KeptLines'), lines')
    BY DEF Alone!Kept, LastLines, KeptLines, Enough
  <2> QED
    BY <1>4, <2>4, <2>6, <2>7, <2>8
<1> QED
  BY <1>1, <1>2, <1>4, <1>7, <1>8 DEF AloneInv, AloneTypeOK

LEMMA AloneRename ==
  ASSUME AloneInv, Alone!Rename(Daemon)
  PROVE  AloneInv'
<1>1. /\ at[Daemon] = "rename" /\ at' = [at EXCEPT ![Daemon] = "open"]
      /\ UNCHANGED <<content, fd, lines, works>>
  BY DEF Alone!Rename, Alone!Go
<1>2. CASE UNCHANGED <<current, old>>
  BY <1>1, <1>2 DEF AloneInv, AloneTypeOK, Alone!Kept, Alone!LinesOf
<1>3. CASE current # None /\ old' = current /\ current' = None
  <2>1. PICK f : f = current
    OBVIOUS
  <2>2. f \in Alone!File /\ content[f] \in Seq(Nat) /\ Len(content[f]) > MaxSize /\ MaxSize > 0
    BY <1>1, <1>3, <2>1 DEF AloneInv, AloneTypeOK
  <2>3. Alone!LinesOf(current) = content[f] /\ KeptLines' = content[f] \o << >>
    BY <1>1, <1>3, <2>1 DEF KeptLines, Alone!LinesOf
  <2>4. content[f] \o << >> = content[f]
    BY <2>2
  <2>5. LastLines(content[f], lines)
    BY <2>2, <2>3, LinesOfType, KeptIs, LastLinesSuffix DEF KeptLines, AloneInv, AloneTypeOK
  <2>6. Alone!Kept' <=> LastLines(KeptLines', lines') /\ Enough(Len(KeptLines'), lines')
    BY DEF Alone!Kept, LastLines, KeptLines, Enough
  <2>7. Alone!Kept'
    BY <1>1, <2>2, <2>3, <2>4, <2>5, <2>6 DEF Enough
  <2> QED
    BY <1>1, <1>3, <2>7 DEF AloneInv, AloneTypeOK
<1> QED
  BY <1>2, <1>3 DEF Alone!Rename

LEMMA AloneOpening ==
  ASSUME AloneInv, Alone!OpenFile(Daemon), fd[Daemon] = None,
         UNCHANGED <<old, lines, works>>,
         NEW to \in {"ready", "write"}, at' = [at EXCEPT ![Daemon] = to]
  PROVE  AloneInv'
<1>1. /\ current' \in Alone!File /\ content' \in [Alone!File -> Seq(Nat)]
      /\ fd' = [fd EXCEPT ![Daemon] = current'] /\ old' # current'
      /\ KeptLines' = KeptLines
  BY AloneOpens
<1>2. AloneTypeOK'
  BY <1>1 DEF AloneInv, AloneTypeOK
<1>3. Alone!Kept' <=> LastLines(KeptLines', lines') /\ Enough(Len(KeptLines'), lines')
  BY DEF Alone!Kept, LastLines, KeptLines, Enough
<1>4. Alone!Kept'
  BY <1>1, <1>3, KeptIs DEF AloneInv
<1>5. current' # None
  BY <1>1, LogAssumption, AloneFiles DEF Alone!WriterAssumption
<1>6. at'[Daemon] = to /\ fd'[Daemon] = current'
  BY <1>1 DEF AloneInv, AloneTypeOK
<1> QED
  BY <1>1, <1>2, <1>4, <1>5, <1>6 DEF AloneInv

LEMMA AloneNext == AloneInv /\ Alone!Next => AloneInv'
<1> SUFFICES ASSUME AloneInv, Alone!Next PROVE AloneInv'
  OBVIOUS
<1>1. Alone!Step(Daemon)
  BY DEF Alone!Next, Alone!Disk
<1>2. CASE Alone!New(Daemon)
  <2>1. fd[Daemon] = None
    BY <1>2 DEF Alone!New, Alone!Go, AloneInv
  <2> QED
    BY <1>2, <2>1, AloneOpening DEF Alone!New, Alone!Go
<1>3. CASE Alone!NewFails(Daemon) \/ Alone!ReopenFails(Daemon)
  BY <1>3 DEF Alone!NewFails, Alone!ReopenFails, AloneInv, AloneTypeOK
<1>4. CASE Alone!Write(Daemon)
  <2>1. /\ at[Daemon] = "ready" /\ fd[Daemon] = current /\ current # None
        /\ UNCHANGED <<current, old, content, lines, works>>
    BY <1>4 DEF Alone!Write, Alone!Go, AloneInv
  <2>2. Alone!Kept'
    BY <2>1 DEF AloneInv, Alone!Kept, Alone!LinesOf
  <2>3. CASE Alone!TooLarge(Daemon)
    <3>1. at' = [at EXCEPT ![Daemon] = "rename"] /\ fd' = [fd EXCEPT ![Daemon] = None]
      BY <1>4, <2>3 DEF Alone!Write, Alone!Go
    <3> QED
      BY <2>1, <2>2, <2>3, <3>1 DEF AloneInv, AloneTypeOK, Alone!TooLarge
  <2>4. CASE ~Alone!TooLarge(Daemon)
    <3>1. at' = [at EXCEPT ![Daemon] = "write"] /\ fd' = fd
      BY <1>4, <2>4 DEF Alone!Write, Alone!Go
    <3> QED
      BY <2>1, <2>2, <3>1 DEF AloneInv, AloneTypeOK
  <2> QED
    BY <2>3, <2>4
<1>5. CASE Alone!Rename(Daemon)
  BY <1>5, AloneRename
<1>6. CASE Alone!Reopen(Daemon)
  <2>1. fd[Daemon] = None
    BY <1>6 DEF Alone!Reopen, Alone!Go, AloneInv
  <2> QED
    BY <1>6, <2>1, AloneOpening DEF Alone!Reopen, Alone!Go
<1>7. CASE Alone!Put(Daemon)
  BY <1>7, AlonePut
<1>8. CASE Alone!Crash(Daemon)
  <2>1. /\ at' = [at EXCEPT ![Daemon] = "closed"] /\ fd' = [fd EXCEPT ![Daemon] = None]
        /\ UNCHANGED <<current, old, content, lines, works>>
    BY <1>8 DEF Alone!Crash
  <2>2. Alone!Kept'
    BY <2>1 DEF AloneInv, Alone!Kept, Alone!LinesOf
  <2> QED
    BY <2>1, <2>2 DEF AloneInv, AloneTypeOK
<1> QED
  BY <1>1, <1>2, <1>3, <1>4, <1>5, <1>6, <1>7, <1>8 DEF Alone!Step

LEMMA AloneInit == Alone!Init => AloneInv
<1> SUFFICES ASSUME Alone!Init PROVE AloneInv
  OBVIOUS
<1>1. << >> \in Seq(Nat) /\ Len(<< >> \o << >>) = 0
  OBVIOUS
<1>2. AloneTypeOK
  BY <1>1 DEF Alone!Init, AloneTypeOK
<1>3. KeptLines = << >> \o << >>
  BY DEF Alone!Init, KeptLines, Alone!LinesOf
<1>4. Alone!Kept
  BY <1>1, <1>3, KeptIs DEF Alone!Init, LastLines, Enough
<1> QED
  BY <1>2, <1>4 DEF Alone!Init, AloneInv

-----------------------------------------------------------------------------
(* A log file with several writers.                                         *)

LEMMA SharedCardinality == ASSUME NEW S PROVE Shared!Cardinality(S) = Cardinality(S)
BY DEF Shared!Cardinality, Cardinality

LEMMA SharedFinite == ASSUME NEW S PROVE Shared!IsFiniteSet(S) <=> IsFiniteSet(S)
BY DEF Shared!IsFiniteSet, IsFiniteSet

LEMMA WriterFinite == IsFiniteSet(Writer) /\ Cardinality(Writer) \in Nat
BY LogAssumption, SharedFinite, FS_CardinalityType DEF Shared!WriterAssumption

SharedTypeOK ==
  /\ current \in Shared!File \cup {None} /\ old \in Shared!File \cup {None}
  /\ content \in [Shared!File -> Seq(Nat)]
  /\ fd \in [Writer -> Shared!File \cup {None}]
  /\ at \in [Writer -> {"closed", "ready", "write", "rename", "open"}]
  /\ \A w \in Writer : at[w] \in {"closed", "rename", "open"} => fd[w] = None
  /\ lines \in Nat

\* The writers that may put a line into f without looking at its size any more: those that have
\* looked, and those that are going to open it after a rotation.
Pending(f) ==
  {w \in Writer : \/ at[w] = "write" /\ fd[w] = f
                  \/ at[w] = "open" /\ current = f}

Bounded(f) == Len(content[f]) + Cardinality(Pending(f)) <= MaxSize + Cardinality(Writer)

\* The two files are in bounds, with the lines that are still to come counted.
SharedInv ==
  /\ SharedTypeOK
  /\ MaxSize > 0 => \A f \in {current, old} \ {None} : Bounded(f)

LEMMA PendingSize ==
  ASSUME NEW f
  PROVE  /\ IsFiniteSet(Pending(f)) /\ Cardinality(Pending(f)) \in Nat
         /\ Cardinality(Pending(f)) <= Cardinality(Writer)
<1>1. Pending(f) \in SUBSET Writer
  BY DEF Pending
<1> QED
  BY <1>1, WriterFinite, FS_Subset, FS_CardinalityType

LEMMA PendingSizeNext ==
  ASSUME NEW f
  PROVE  /\ IsFiniteSet(Pending(f)') /\ Cardinality(Pending(f)') \in Nat
         /\ Cardinality(Pending(f)') <= Cardinality(Writer)
<1>1. Pending(f)' \in SUBSET Writer
  BY DEF Pending
<1> QED
  BY <1>1, WriterFinite, FS_Subset, FS_CardinalityType

LEMMA MaxSizeNat == MaxSize \in Nat
BY LogAssumption DEF Shared!BoundAssumption

\* A file that has not grown and has no writer more is in bounds as before.
LEMMA StaysBounded ==
  ASSUME NEW f, NEW g, Bounded(f), content[f] \in Seq(Nat),
         Pending(g)' \subseteq Pending(f), content'[g] = content[f]
  PROVE  Bounded(g)'
<1>1. PICK p \in Nat : p = Cardinality(Pending(f))
  BY PendingSize
<1>2. Cardinality(Pending(g)') \in Nat /\ Cardinality(Pending(g)') <= p
  BY <1>1, PendingSize, PendingSizeNext, FS_Subset
<1>3. PICK q \in Nat : q = Cardinality(Pending(g)')
  BY <1>2
<1>4. PICK c \in Nat : c = Cardinality(Writer)
  BY WriterFinite
<1>5. PICK n \in Nat : n = Len(content[f])
  OBVIOUS
<1>6. n + p <= MaxSize + c
  BY <1>1, <1>4, <1>5 DEF Bounded
<1>7. n + q <= MaxSize + c
  BY <1>2, <1>3, <1>6, <1>1, <1>4, <1>5, MaxSizeNat
<1> QED
  BY <1>3, <1>4, <1>5, <1>7 DEF Bounded

\* A file that is not too large is in bounds, whoever may write to it.
LEMMA SmallBounded ==
  ASSUME NEW f, content'[f] \in Seq(Nat), Len(content'[f]) <= MaxSize
  PROVE  Bounded(f)'
<1>1. PICK q \in Nat : q = Cardinality(Pending(f)') /\ q <= Cardinality(Writer)
  BY PendingSizeNext
<1>2. PICK c \in Nat : c = Cardinality(Writer)
  BY WriterFinite
<1>3. PICK n \in Nat : n = Len(content'[f])
  OBVIOUS
<1>4. n + q <= MaxSize + c
  BY <1>1, <1>2, <1>3, MaxSizeNat
<1> QED
  BY <1>1, <1>2, <1>3, <1>4 DEF Bounded

\* A writer that puts a line into a file is not pending any more.
LEMMA PutBounded ==
  ASSUME NEW f, Bounded(f), content[f] \in Seq(Nat), NEW w \in Pending(f), NEW x \in Nat,
         Pending(f)' = Pending(f) \ {w}, content'[f] = Append(content[f], x)
  PROVE  Bounded(f)'
<1>1. PICK p \in Nat : p = Cardinality(Pending(f))
  BY PendingSize
<1>2. Cardinality(Pending(f)') = p - 1
  BY <1>1, PendingSize, FS_RemoveElement
<1>3. PICK n \in Nat : n = Len(content[f])
  OBVIOUS
<1>4. Len(content'[f]) = n + 1
  BY <1>3
<1>5. n + p <= MaxSize + Cardinality(Writer)
  BY <1>1, <1>3 DEF Bounded
<1>6. PICK c \in Nat : c = Cardinality(Writer)
  BY WriterFinite
<1>7. (n + 1) + (p - 1) <= MaxSize + c
  BY <1>1, <1>3, <1>5, <1>6, MaxSizeNat
<1> QED
  BY <1>2, <1>4, <1>6, <1>7 DEF Bounded

\* A writer that opens the file has none open, so that a file is left to be created.
LEMMA UnusedExists ==
  ASSUME SharedTypeOK, NEW w \in Writer, fd[w] = None, current = None
  PROVE  Shared!Unused \in Shared!File
<1>1. PICK c \in Nat : c = Cardinality(Writer)
  BY WriterFinite
<1>2. PICK F : F = Shared!File /\ F = 1 .. c + 2
  BY <1>1, SharedCardinality DEF Shared!File
<1>3. PICK A : A = {fd[v] : v \in Writer}
  OBVIOUS
<1>4. IsFiniteSet(A) /\ Cardinality(A) \in Nat /\ Cardinality(A) <= c
  <2>1. fd \in Surjection(Writer, A)
    BY <1>3 DEF SharedTypeOK, Surjection
  <2> QED
    BY <1>1, <2>1, WriterFinite, FS_Surjection, FS_CardinalityType
<1>5. PICK B : B = A \cup {old}
  OBVIOUS
<1>6. IsFiniteSet(B) /\ Cardinality(B) \in Nat /\ Cardinality(B) <= c + 1
  BY <1>1, <1>4, <1>5, FS_AddElement
<1>7. IsFiniteSet(F) /\ Cardinality(F) = c + 2
  BY <1>1, <1>2, FS_Interval
<1>8. ~(F \subseteq B)
  BY <1>1, <1>6, <1>7, FS_Subset
<1>9. PICK f \in F : f \notin B
  BY <1>8
<1>10. None \notin Nat
  BY LogAssumption DEF Shared!WriterAssumption
<1>11. f \notin {current, old} /\ \A v \in Writer : fd[v] # f
  BY <1>1, <1>2, <1>3, <1>5, <1>9, <1>10
<1> QED
  BY <1>2, <1>11 DEF Shared!Unused

\* The writer's own place, at its new one; others stay where they are.
LEMMA SharedOpens ==
  ASSUME SharedInv, NEW w \in Writer, Shared!OpenFile(w), UNCHANGED <<old, lines>>,
         \/ at[w] = "closed" /\ at' = [at EXCEPT ![w] = "ready"]
         \/ at[w] = "open" /\ at' = [at EXCEPT ![w] = "write"]
  PROVE  SharedInv'
<1>1. fd[w] = None
  BY DEF SharedInv, SharedTypeOK
<1>2. PICK f : f = current'
  OBVIOUS
<1>3. /\ f \in Shared!File /\ fd' = [fd EXCEPT ![w] = f]
      /\ current # None => f = current /\ content' = content
      /\ current = None => content' = [content EXCEPT ![f] = << >>]
  <2>1. current = None => Shared!Unused \in Shared!File
    BY <1>1, UnusedExists DEF SharedInv
  <2> QED
    BY <1>2, <2>1 DEF Shared!OpenFile, SharedInv, SharedTypeOK
<1>4. << >> \in Seq(Nat) /\ Len(<< >>) = 0
  OBVIOUS
<1>5. content' \in [Shared!File -> Seq(Nat)]
  BY <1>3, <1>4 DEF SharedInv, SharedTypeOK
<1>6. SharedTypeOK'
  BY <1>2, <1>3, <1>5 DEF SharedInv, SharedTypeOK
<1>7. ASSUME MaxSize > 0, NEW g \in {current', old'} \ {None}
      PROVE  Bounded(g)'
  <2>1. g \in Shared!File
    BY <1>7, <1>6 DEF SharedTypeOK
  <2>2. CASE current # None
    <3>1. Bounded(g) /\ content[g] \in Seq(Nat)
      BY <1>2, <1>3, <1>7, <2>1, <2>2 DEF SharedInv, SharedTypeOK
    <3>2. Pending(g)' \subseteq Pending(g)
      BY <1>1, <1>2, <1>3, <2>2 DEF Pending, SharedInv, SharedTypeOK
    <3> QED
      BY <1>3, <2>2, <3>1, <3>2, StaysBounded
  <2>3. CASE current = None /\ g = f
    <3>1. content'[g] = << >>
      BY <1>3, <2>3 DEF SharedInv, SharedTypeOK
    <3>2. content'[g] \in Seq(Nat) /\ Len(content'[g]) <= MaxSize
      BY <1>4, <3>1, MaxSizeNat
    <3> QED
      BY <3>2, SmallBounded
  <2>4. CASE current = None /\ g # f
    <3>1. g = old /\ Bounded(g) /\ content[g] \in Seq(Nat)
      BY <1>2, <1>7, <2>1, <2>4 DEF SharedInv, SharedTypeOK
    <3>2. content'[g] = content[g]
      BY <1>3, <2>1, <2>4 DEF SharedInv, SharedTypeOK
    <3>3. Pending(g)' \subseteq Pending(g)
      BY <1>2, <1>3, <2>4 DEF Pending, SharedInv, SharedTypeOK
    <3> QED
      BY <3>1, <3>2, <3>3, StaysBounded
  <2> QED
    BY <2>2, <2>3, <2>4
<1> QED
  BY <1>6, <1>7 DEF SharedInv

\* Steps that move a writer and leave the files alone.
LEMMA SharedMoves ==
  ASSUME SharedInv, NEW w \in Writer, UNCHANGED <<current, old, content>>,
         NEW to \in {"closed", "ready", "write", "rename", "open"},
         at' = [at EXCEPT ![w] = to],
         fd' = fd \/ fd' = [fd EXCEPT ![w] = None],
         lines' \in Nat,
         to \in {"closed", "rename", "open"} => fd'[w] = None,
         to # "open",
         MaxSize > 0 /\ to = "write" /\ fd'[w] # None => Len(content[fd'[w]]) <= MaxSize
  PROVE  SharedInv'
<1>1. SharedTypeOK'
  BY DEF SharedInv, SharedTypeOK
<1>2. ASSUME MaxSize > 0, NEW g \in {current', old'} \ {None}
      PROVE  Bounded(g)'
  <2>1. g \in Shared!File /\ Bounded(g) /\ content[g] \in Seq(Nat)
    BY <1>2 DEF SharedInv, SharedTypeOK
  <2>2. CASE to = "write" /\ fd'[w] = g
    BY <1>2, <2>1, <2>2, SmallBounded
  <2>3. CASE ~(to = "write" /\ fd'[w] = g)
    <3>1. Pending(g)' \subseteq Pending(g)
      BY <2>3 DEF Pending, SharedInv, SharedTypeOK
    <3> QED
      BY <2>1, <3>1, StaysBounded
  <2> QED
    BY <2>2, <2>3
<1> QED
  BY <1>1, <1>2 DEF SharedInv

LEMMA SharedRename ==
  ASSUME SharedInv, NEW w \in Writer, Shared!Rename(w)
  PROVE  SharedInv'
<1>1. /\ at[w] = "rename" /\ at' = [at EXCEPT ![w] = "open"]
      /\ UNCHANGED <<content, fd, lines>>
      /\ \/ current # None /\ old' = current /\ current' = None
         \/ current = None /\ UNCHANGED <<current, old>>
  BY DEF Shared!Rename, Shared!Go
<1>2. SharedTypeOK'
  BY <1>1 DEF SharedInv, SharedTypeOK
<1>3. ASSUME MaxSize > 0, NEW g \in {current', old'} \ {None}
      PROVE  Bounded(g)'
  <2>1. g \in {current, old} \ {None} /\ current' = None
    BY <1>1, <1>3
  <2>2. Bounded(g) /\ content[g] \in Seq(Nat)
    BY <1>3, <2>1 DEF SharedInv, SharedTypeOK
  <2>3. Pending(g)' \subseteq Pending(g)
    BY <1>1, <2>1 DEF Pending, SharedInv, SharedTypeOK
  <2> QED
    BY <1>1, <2>2, <2>3, StaysBounded
<1> QED
  BY <1>2, <1>3 DEF SharedInv

LEMMA SharedPut ==
  ASSUME SharedInv, NEW w \in Writer, Shared!Put(w)
  PROVE  SharedInv'
<1>1. PICK f : f = fd[w]
  OBVIOUS
<1>2. PICK to \in {"closed", "ready"} : at' = [at EXCEPT ![w] = to] /\ (to = "closed" <=> w \in Once)
  BY DEF Shared!Put, Shared!Go
<1>3. /\ at[w] = "write" /\ UNCHANGED <<current, old>> /\ lines' = lines + 1
      /\ fd' = IF to = "closed" THEN [fd EXCEPT ![w] = None] ELSE fd
      /\ content' = IF f = None THEN content ELSE [content EXCEPT ![f] = Append(content[f], lines + 1)]
  BY <1>1, <1>2 DEF Shared!Put, Shared!Go
<1>4. lines + 1 \in Nat /\ lines' \in Nat
  BY <1>3 DEF SharedInv, SharedTypeOK
<1>5. f \in Shared!File \cup {None}
  BY <1>1 DEF SharedInv, SharedTypeOK
<1>6. content' \in [Shared!File -> Seq(Nat)]
  <2>1. f \in Shared!File => Append(content[f], lines + 1) \in Seq(Nat)
    BY <1>4 DEF SharedInv, SharedTypeOK
  <2> QED
    BY <1>3, <1>5, <2>1 DEF SharedInv, SharedTypeOK
<1>7. SharedTypeOK'
  BY <1>2, <1>3, <1>4, <1>6 DEF SharedInv, SharedTypeOK
<1>8. ASSUME MaxSize > 0, NEW g \in {current', old'} \ {None}
      PROVE  Bounded(g)'
  <2>1. g \in Shared!File /\ Bounded(g) /\ content[g] \in Seq(Nat)
    BY <1>3, <1>8 DEF SharedInv, SharedTypeOK
  <2>2. CASE g = f
    <3>1. w \in Pending(g)
      <4>1. at[w] = "write" /\ fd[w] = g
        BY <1>1, <1>3, <2>2
      <4> QED
        BY <4>1 DEF Pending
    <3>2. Pending(g)' = Pending(g) \ {w}
      BY <1>1, <1>2, <1>3, <2>2 DEF Pending, SharedInv, SharedTypeOK
    <3>3. content'[g] = Append(content[g], lines + 1)
      BY <1>3, <1>8, <2>1, <2>2 DEF SharedInv, SharedTypeOK
    <3> QED
      BY <1>4, <2>1, <3>1, <3>2, <3>3, PutBounded
  <2>3. CASE g # f
    <3>1. Pending(g)' \subseteq Pending(g)
      BY <1>2, <1>3, <1>8 DEF Pending, SharedInv, SharedTypeOK
    <3>2. content'[g] = content[g]
      BY <1>3, <2>1, <2>3 DEF SharedInv, SharedTypeOK
    <3> QED
      BY <2>1, <3>1, <3>2, StaysBounded
  <2> QED
    BY <2>2, <2>3
<1> QED
  BY <1>7, <1>8 DEF SharedInv

LEMMA SharedNext == SharedInv /\ Shared!Next => SharedInv'
<1> SUFFICES ASSUME SharedInv, Shared!Next PROVE SharedInv'
  OBVIOUS
<1>1. CASE Shared!Disk
  BY <1>1 DEF Shared!Disk, SharedInv, SharedTypeOK, Bounded, Pending
<1>2. ASSUME NEW w \in Writer, Shared!Step(w)
      PROVE  SharedInv'
  <2>1. CASE Shared!New(w)
    BY <2>1, SharedOpens DEF Shared!New, Shared!Go
  <2>2. CASE Shared!NewFails(w)
    BY <2>2 DEF Shared!NewFails, SharedInv, SharedTypeOK, Bounded, Pending
  <2>3. CASE Shared!Write(w)
    <3>1. at[w] = "ready" /\ UNCHANGED <<current, old, content>> /\ lines' \in Nat
      BY <2>3 DEF Shared!Write, Shared!Go, SharedInv, SharedTypeOK
    <3>2. CASE Shared!TooLarge(w)
      <4>1. at' = [at EXCEPT ![w] = "rename"] /\ fd' = [fd EXCEPT ![w] = None]
        BY <2>3, <3>2 DEF Shared!Write, Shared!Go
      <4>2. fd'[w] = None
        BY <4>1 DEF SharedInv, SharedTypeOK
      <4> QED
        BY <3>1, <4>1, <4>2, SharedMoves
    <3>3. CASE ~Shared!TooLarge(w)
      <4>1. at' = [at EXCEPT ![w] = "write"] /\ fd' = fd
        BY <2>3, <3>3 DEF Shared!Write, Shared!Go
      <4>2. MaxSize > 0 /\ fd'[w] # None => Len(content[fd'[w]]) <= MaxSize
        <5> SUFFICES ASSUME MaxSize > 0, fd[w] # None PROVE Len(content[fd[w]]) <= MaxSize
          BY <4>1
        <5>1. PICK n \in Nat : n = Len(content[fd[w]])
          BY DEF SharedInv, SharedTypeOK
        <5> QED
          BY <3>3, <5>1, MaxSizeNat DEF Shared!TooLarge
      <4> QED
        BY <3>1, <4>1, <4>2, SharedMoves
    <3> QED
      BY <3>2, <3>3
  <2>4. CASE Shared!Rename(w)
    BY <2>4, SharedRename
  <2>5. CASE Shared!Reopen(w)
    BY <2>5, SharedOpens DEF Shared!Reopen, Shared!Go
  <2>6. CASE Shared!ReopenFails(w)
    <3>1. at[w] = "open" /\ at' = [at EXCEPT ![w] = "write"] /\ UNCHANGED <<current, old, content, fd, lines>>
      BY <2>6 DEF Shared!ReopenFails, Shared!Go
    <3>2. fd'[w] = None /\ lines' \in Nat
      BY <3>1 DEF SharedInv, SharedTypeOK
    <3> QED
      BY <3>1, <3>2, SharedMoves
  <2>7. CASE Shared!Put(w)
    BY <2>7, SharedPut
  <2>8. CASE Shared!Crash(w)
    <3>1. /\ at' = [at EXCEPT ![w] = "closed"] /\ fd' = [fd EXCEPT ![w] = None]
          /\ UNCHANGED <<current, old, content, lines>>
      BY <2>8 DEF Shared!Crash
    <3>2. fd'[w] = None /\ lines' \in Nat
      BY <3>1 DEF SharedInv, SharedTypeOK
    <3> QED
      BY <3>1, <3>2, SharedMoves
  <2> QED
    BY <1>2, <2>1, <2>2, <2>3, <2>4, <2>5, <2>6, <2>7, <2>8 DEF Shared!Step
<1> QED
  BY <1>1, <1>2 DEF Shared!Next

LEMMA SharedInit == Shared!Init => SharedInv
<1>1. << >> \in Seq(Nat)
  OBVIOUS
<1> QED
  BY <1>1 DEF Shared!Init, SharedInv, SharedTypeOK

LEMMA SharedBound == SharedInv => Shared!SizeBound
<1> SUFFICES ASSUME SharedInv, MaxSize > 0, NEW f \in {current, old}
             PROVE  Len(Shared!LinesOf(f)) <= MaxSize + Cardinality(Writer)
  BY SharedCardinality DEF Shared!SizeBound
<1>1. PICK c \in Nat : c = Cardinality(Writer)
  BY WriterFinite
<1>2. CASE f = None
  <2>1. Len(<< >>) = 0
    OBVIOUS
  <2> QED
    BY <1>1, <1>2, <2>1, MaxSizeNat DEF Shared!LinesOf
<1>3. CASE f # None
  <2>1. PICK p \in Nat : p = Cardinality(Pending(f))
    BY PendingSize
  <2>2. PICK n \in Nat : n = Len(content[f])
    BY <1>3 DEF SharedInv, SharedTypeOK
  <2>3. n + p <= MaxSize + c
    BY <1>1, <1>3, <2>1, <2>2 DEF SharedInv, Bounded
  <2> QED
    BY <1>1, <1>3, <2>1, <2>2, <2>3, MaxSizeNat DEF Shared!LinesOf
<1> QED
  BY <1>2, <1>3

-----------------------------------------------------------------------------
(* The log files in the run of the daemon.                                  *)

LogInv ==
  /\ part = "log" => AloneInv
  /\ part = "logs" => SharedInv

\* The log loses no line but the oldest, whatever renames fail and wherever momail is killed, and
\* the two files of a log with several writers never grow over the limit by more than a line of
\* each (Write and rotate of logutil/writer.go, logSummary of binkp/session.go).
THEOREM LogKept == MCSpec => []LogIntact
<1>1. MCInit => LogInv
  BY AloneInit, SharedInit DEF MCInit, LogInv
<1>2. LogInv /\ [MCNext]_allVars => LogInv'
  <2> SUFFICES ASSUME LogInv, [MCNext]_allVars PROVE LogInv'
    OBVIOUS
  <2>1. part' = part
    BY DEF MCNext, allVars
  <2>2. CASE UNCHANGED logVars
    <3>1. AloneInv => AloneInv'
      BY <2>2 DEF logVars, AloneInv, AloneTypeOK, Alone!Kept, Alone!LinesOf
    <3>2. SharedInv => SharedInv'
      BY <2>2 DEF logVars, SharedInv, SharedTypeOK, Bounded, Pending
    <3> QED
      BY <2>1, <3>1, <3>2 DEF LogInv
  <2>3. CASE part = "log" /\ Alone!Next
    BY <2>1, <2>3, AloneNext DEF LogInv
  <2>4. CASE part = "logs" /\ Shared!Next
    BY <2>1, <2>4, SharedNext DEF LogInv
  <2> QED
    BY <2>2, <2>3, <2>4 DEF MCNext, allVars, logVars
<1>3. LogInv => LogIntact
  BY SharedBound DEF LogInv, LogIntact, AloneInv
<1> QED
  BY <1>1, <1>2, <1>3, PTL DEF MCSpec
=============================================================================
