------------------------------- MODULE MCDaemon -------------------------------
(* Instances of Lifecycle, Monitor and LogFile for TLC.  A run explores the *)
(* parts of Part; the variables of the modules that a part is not about     *)
(* stand still.                                                             *)
(*   "reload"    the daemon with the constants of the cfg;                  *)
(*   "api"       the same without -w and with the HTTP API, as a server and *)
(*               as a source of requests, other ports in the new file, and  *)
(*               one event less;                                            *)
(*   "monitor"   an incoming session and calls to one node, again and again;*)
(*   "log"       the daemon writes its log, renames fail at times;          *)
(*   "logs"      the daemon, momail -p and a session write to one file,     *)
(*               which cannot be opened at times.                           *)
EXTENDS Lifecycle, TLC

CONSTANTS
  Part, None,
  Session, Id, Addrs, Target, HistorySize, MaxSessions,   \* Monitor's
  Writer, Once, MaxSize, MaxLines, Daemon, MaxDaemonLines,  \* LogFile's; Daemon is a writer alone
  in, out, ip1, ip2, node1, daemon, poll, session

VARIABLES
  part,                                                       \* it never changes
  sessions, history, reader, sender, known, muted, left,      \* Monitor's
  current, old, content, fd, at, lines, main, works           \* LogFile's

monitorVars == <<sessions, history, reader, sender, known, muted, left>>
logVars == <<current, old, content, fd, at, lines, main, works>>
allVars == <<vars, monitorVars, logVars, part>>

Api == INSTANCE Lifecycle WITH
  Server <- {"binkp", "api"}, SamePort <- FALSE, WatchConfig <- FALSE

\* An incoming session, and calls to the node it comes from.
MCSession == {in, out}
MCId == in :> ip1 @@ out :> ip2
MCAddrs == in :> <<node1>> @@ out :> <<node1>>
MCTarget == in :> None @@ out :> node1

Registry == INSTANCE Monitor

\* The daemon, momail -p, and the session log.
MCWriter == {daemon, poll, session}
MCOnce == {session}

Alone == INSTANCE LogFile WITH
  Writer <- {Daemon}, Once <- {}, Faults <- {"rename"}, MaxLines <- MaxDaemonLines

Shared == INSTANCE LogFile WITH Faults <- {"open"}

ASSUME RegistryAssumption ==
  Registry!HistoryAssumption /\ Registry!AddressAssumption /\ Registry!NoneAssumption
ASSUME LogAssumption ==
  /\ Alone!WriterAssumption /\ Alone!BoundAssumption /\ Alone!FaultAssumption
  /\ Shared!WriterAssumption /\ Shared!BoundAssumption /\ Shared!FaultAssumption

MCInit ==
  /\ part \in Part
  /\ IF part = "api" THEN Api!Init ELSE Init
  /\ Registry!Init
  /\ IF part = "logs" THEN Shared!Init ELSE Alone!Init

MCNext ==
  /\ part' = part
  /\ \/ part = "reload" /\ Next /\ UNCHANGED <<monitorVars, logVars>>
     \/ part = "api" /\ Api!Next /\ events' > 0 /\ UNCHANGED <<monitorVars, logVars>>
     \/ part = "monitor" /\ Registry!Next /\ UNCHANGED <<vars, logVars>>
     \/ part = "log" /\ Alone!Next /\ UNCHANGED <<vars, monitorVars>>
     \/ part = "logs" /\ Shared!Next /\ UNCHANGED <<vars, monitorVars>>

MCSpec == MCInit /\ [][MCNext]_allVars

\* No entry outlives its session in the registry (Unregister of monitor.go): it would keep the
\* scheduler from scanning for ever.
NoGhost == part = "monitor" => Registry!NoGhost

\* The scheduler does not call a node that has a session going (the check in ScanAndPoll).
CallsInactive == Registry!CallsInactive

\* The log loses no line but the oldest, whatever renames fail (Write of writer.go); with several
\* writers its files stay in bounds.
LogIntact == (part = "log" => Alone!Kept) /\ (part = "logs" => Shared!SizeBound)
=============================================================================
