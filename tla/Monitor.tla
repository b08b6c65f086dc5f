------------------------------- MODULE Monitor -------------------------------
(***************************************************************************)
(* The registry of active sessions (monitor.go), kept by the two           *)
(* goroutines of each session (updateMonitor, Run), and read by the        *)
(* scheduler, which makes no scan while there is one and does not call a   *)
(* node that has one.                                                      *)
(***************************************************************************)
EXTENDS Naturals, SequencesExt

CONSTANTS
  Session,      \* connections that may be there at a time
  Id,           \* Id[s]: the remote end of the connection, host and port
  Addrs,        \* Addrs[s]: the addresses the peer presents in M_ADR
  Target,       \* Target[s]: the address momail calls, or None for an incoming connection
  HistorySize,  \* 10 in the code
  MaxSessions,  \* bound: sessions, all in all
  None

HistoryAssumption == HistorySize \in Nat \ {0} /\ MaxSessions \in Nat
AddressAssumption == \A s \in Session : Addrs[s] # <<>> /\ Addrs[s] \in Seq(ToSet(Addrs[s]))

Ids == {Id[s] : s \in Session}
Remotes == Ids \cup (UNION {ToSet(Addrs[s]) : s \in Session}) \cup {Target[s] : s \in Session}
States == {"Handshake", "Receiving", "Sending", "Finished", "Error"}
Info == [remote : Remotes, state : States]

NoneAssumption == None \notin Info

VARIABLES
  sessions,   \* sessions[i]: what is registered under an id, or None
  history,    \* the last sessions, the newest first
  reader,     \* reader[s]: where Run is
  sender,     \* sender[s]: "off", "on" or "over"
  known,      \* the sessions that have read M_ADR
  muted,
  left        \* sessions that may still come

vars == <<sessions, history, reader, sender, known, muted, left>>

\* The part of Run in which the session is registered.
Registered == {"handshake", "transfer", "joining", "finishing", "unregister"}

TypeOK ==
  /\ sessions \in [Ids -> Info \cup {None}]
  /\ history \in Seq(Info) /\ Len(history) <= HistorySize
  /\ reader \in [Session -> Registered \cup {"idle", "dialing", "run", "notify"}]
  /\ sender \in [Session -> {"off", "on", "over"}]
  /\ \A s \in Session : sender[s] # "off" => reader[s] \in {"transfer", "joining"}
  /\ known \subseteq Session /\ muted \in BOOLEAN /\ left \in 0 .. MaxSessions

Init ==
  /\ sessions = [i \in Ids |-> None]
  /\ history = <<>>
  /\ reader = [s \in Session |-> "idle"]
  /\ sender = [s \in Session |-> "off"]
  /\ known = {} /\ muted = FALSE /\ left = MaxSessions

-----------------------------------------------------------------------------
(* updateMonitor and monitor.go.                                            *)

Remote(s) == IF s \in known THEN Head(Addrs[s]) ELSE IF Target[s] # None THEN Target[s] ELSE Id[s]

UpdateMonitor(s, state) ==
  sessions' = [sessions EXCEPT ![Id[s]] = [remote |-> Remote(s), state |-> state]]

UnregisterSession(i) ==
  LET longer == <<sessions[i]>> \o history IN
  IF sessions[i] = None THEN UNCHANGED <<sessions, history>>
  ELSE /\ sessions' = [sessions EXCEPT ![i] = None]
       /\ history' = IF Len(longer) > HistorySize THEN SubSeq(longer, 1, HistorySize) ELSE longer

\* Mutant of IsNodeActive: an id is compared, as it is before M_ADR.
IsNodeActiveById(addr) == \E i \in Ids : sessions[i] # None /\ i = addr

IsNodeActive(addr) == \E i \in Ids : sessions[i] # None /\ sessions[i].remote = addr

-----------------------------------------------------------------------------
(* A session: the goroutine of Run, then both.                              *)

At(s, from, to) == reader[s] = from /\ reader' = [reader EXCEPT ![s] = to]

Accept(s) ==
  /\ Target[s] = None /\ left > 0 /\ left' = left - 1
  /\ At(s, "idle", "run")
  /\ UNCHANGED <<sessions, history, sender, known, muted>>

\* The scheduler looks at the registry, and then dials.
Check(s) ==
  /\ Target[s] # None /\ ~IsNodeActive(Target[s])
  /\ left > 0 /\ left' = left - 1
  /\ At(s, "idle", "dialing")
  /\ UNCHANGED <<sessions, history, sender, known, muted>>

Connect(s) ==
  /\ At(s, "dialing", "run")
  /\ UNCHANGED <<sessions, history, sender, known, muted, left>>

DialFails(s) ==
  /\ At(s, "dialing", "idle")
  /\ UNCHANGED <<sessions, history, sender, known, muted, left>>

\* A muted momail leaves at once, without the deferred function.
RunMuted(s) ==
  /\ muted /\ At(s, "run", "idle")
  /\ UNCHANGED <<sessions, history, sender, known, muted, left>>

Run(s) ==
  /\ ~muted /\ At(s, "run", "handshake")
  /\ UpdateMonitor(s, "Handshake")
  /\ UNCHANGED <<history, sender, known, muted, left>>

\* M_ADR is read, and the entry updated: what other sessions see changes in one step.
HandleAdr(s) ==
  /\ reader[s] = "handshake" /\ s \notin known
  /\ known' = known \cup {s}
  /\ sessions' = [sessions EXCEPT ![Id[s]] = [remote |-> Head(Addrs[s]), state |-> "Handshake"]]
  /\ UNCHANGED <<history, reader, sender, muted, left>>

HandshakeFails(s) ==
  /\ At(s, "handshake", "finishing")
  /\ UNCHANGED <<sessions, history, sender, known, muted, left>>

HandshakeDone(s) ==
  /\ s \in known /\ At(s, "handshake", "transfer")
  /\ sender' = [sender EXCEPT ![s] = "on"]
  /\ UNCHANGED <<sessions, history, known, muted, left>>

Receive(s) ==
  /\ reader[s] = "transfer"
  /\ UpdateMonitor(s, "Receiving")
  /\ UNCHANGED <<history, reader, sender, known, muted, left>>

Send(s) ==
  /\ sender[s] = "on"
  /\ UpdateMonitor(s, "Sending")
  /\ UNCHANGED <<history, reader, sender, known, muted, left>>

SenderEnds(s) ==
  /\ sender[s] = "on" /\ sender' = [sender EXCEPT ![s] = "over"]
  /\ UNCHANGED <<sessions, history, reader, known, muted, left>>

ReaderEnds(s) ==
  /\ At(s, "transfer", "joining")
  /\ UNCHANGED <<sessions, history, sender, known, muted, left>>

\* Mutant of Join: the sender is not waited for.
JoinAtOnce(s) ==
  /\ At(s, "joining", "finishing")
  /\ UNCHANGED <<sessions, history, sender, known, muted, left>>

\* wg.Wait.
Join(s) ==
  /\ sender[s] = "over" /\ At(s, "joining", "finishing")
  /\ sender' = [sender EXCEPT ![s] = "off"]
  /\ UNCHANGED <<sessions, history, known, muted, left>>

\* The deferred function: the final state, then the entry goes, then the scan is triggered.
Finish(s) ==
  /\ At(s, "finishing", "unregister")
  /\ \E state \in {"Finished", "Error"} : UpdateMonitor(s, state)
  /\ UNCHANGED <<history, sender, known, muted, left>>

Unregister(s) ==
  /\ At(s, "unregister", "notify")
  /\ UnregisterSession(Id[s])
  /\ UNCHANGED <<sender, known, muted, left>>

OnSessionEnd(s) ==
  /\ At(s, "notify", "idle")
  /\ known' = known \ {s}
  /\ UNCHANGED <<sessions, history, sender, muted, left>>

SetMuted ==
  /\ muted' = ~muted
  /\ UNCHANGED <<sessions, history, reader, sender, known, left>>

-----------------------------------------------------------------------------
Step(s) ==
  \/ Accept(s) \/ Check(s) \/ Connect(s) \/ DialFails(s) \/ RunMuted(s) \/ Run(s)
  \/ HandleAdr(s) \/ HandshakeFails(s) \/ HandshakeDone(s)
  \/ Receive(s) \/ Send(s) \/ SenderEnds(s) \/ ReaderEnds(s) \/ Join(s)
  \/ Finish(s) \/ Unregister(s) \/ OnSessionEnd(s)

Next == SetMuted \/ \E s \in Session : Step(s)

Spec == Init /\ [][Next]_vars

-----------------------------------------------------------------------------
(* Properties.                                                              *)

\* No entry outlives its session, whichever goroutine writes last: it would keep the scheduler
\* from scanning for ever.  It is gone before OnSessionEnd asks for a scan.
NoGhost ==
  \A i \in Ids : sessions[i] # None => \E s \in Session : Id[s] = i /\ reader[s] \in Registered

\* Every session is registered, from its handshake until it unregisters ("including active
\* sessions", openapi.yaml:14).
AllShown == \A s \in Session : reader[s] \in Registered => sessions[Id[s]] # None

\* The scheduler does not call a node that it has a session with (scheduler.go:192, "Check if
\* node is already active (e.g. incoming session)").
CallsInactive ==
  [][\A s, t \in Session :
       Check(s) /\ s # t /\ Target[s] \in ToSet(Addrs[t])
       => reader[t] \notin {"transfer", "joining"}]_vars
=============================================================================
