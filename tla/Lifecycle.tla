------------------------------ MODULE Lifecycle ------------------------------
(***************************************************************************)
(* The daemon (runDaemon of main.go): it starts the scheduler, the cron    *)
(* tasks, the HTTP API and the BinkP server with one configuration, and    *)
(* waits for a request to reload, on which it stops them and starts them   *)
(* anew, or for the signal to shut down.  Each start is a generation; the  *)
(* goroutines of one may still be there when the next is started.  With -w *)
(* a watcher asks for a reload on each change of the file that it sees: it *)
(* sees none before it has added the directory, long after the file was    *)
(* read for the first time, and may never see any.                         *)
(***************************************************************************)
EXTENDS Naturals, FiniteSets

CONSTANTS
  Version,    \* contents of the configuration file, numbers; the first is the one started with
  Broken,     \* those that config.Load refuses
  SamePort,   \* whether all of them name the same ports
  WatchConfig,  \* whether -w is given
  WatchFaults,  \* some of: "add", there is no watcher or no directory to watch, and
                \* "overflow", events are lost and watcher.Errors says so, or {}
  Server,     \* the servers that listen: "binkp", and "api" unless api_port is 0
  MaxEvents   \* bound: edits of the file, SIGHUPs and requests to the API, all in all

ASSUME VersionAssumption ==
  /\ 1 \in Version \ Broken /\ Broken \subseteq Version /\ Version \subseteq Nat
  /\ Server \in {{"binkp"}, {"binkp", "api"}}
  /\ SamePort \in BOOLEAN /\ MaxEvents \in Nat
  /\ WatchConfig \in BOOLEAN /\ WatchFaults \subseteq {"add", "overflow"}

Gen == 1 .. MaxEvents + 1

VARIABLES
  file,       \* the configuration file
  event,      \* a change of the file that the watcher has not read
  hup,        \* a SIGHUP that its goroutine has not read
  reloadChan, \* whether the channel of capacity 1 holds a request
  ctxDone,    \* whether SIGINT or SIGTERM has come
  asked,      \* history: whether file, as it is now, was told to the daemon: by the watcher, a
              \* SIGHUP or the API
  pc,         \* runDaemon: "setup", "start", "wait", "stop", "load", "exit", "wg" or "exited"
  gen,        \* the generation that runs, or is being started
  cfg,        \* the configuration: which file it is, and whether its Version is set
  job,        \* whether a cron task is running
  sched,      \* sched[g]: "none", "running" (in select), "scanning", "calling" or "stopped"
  quit,       \* generations whose channel quit is closed
  cancelled,  \* generations whose context is cancelled
  srv,        \* srv[k][g]: "none", "starting", "listening", "failed" or "closed"
  used,       \* used[g]: the configuration file g was started with
  helpers,    \* the goroutines that have not returned: "signals", and watchConfig, "adding"
              \* the directory and then "watching"
  events      \* what may still happen

vars == <<file, event, hup, reloadChan, ctxDone, asked, pc, gen, cfg, job, sched, quit, cancelled,
          srv, used, helpers, events>>
services == <<sched, quit, cancelled, srv, used>>
requests == <<file, event, hup, reloadChan, ctxDone, asked, events>>

Asleep(g) == sched[g] \in {"none", "running", "stopped"}

TypeOK ==
  /\ file \in Version /\ cfg.file \in Version \ Broken /\ gen \in Gen
  /\ pc \in {"setup", "start", "wait", "stop", "load", "exit", "wg", "exited"}
  /\ helpers \subseteq {"signals", "adding", "watching"} /\ asked \in BOOLEAN
  /\ \A g \in Gen : sched[g] \in {"none", "running", "scanning", "calling", "stopped"}
  /\ \A g \in Gen, k \in Server :
       srv[k][g] \in {"none", "starting", "listening", "failed", "closed"}
  /\ \A g \in Gen : g > gen => sched[g] = "none"
  /\ \A g \in Gen : sched[g] = "stopped" => g \in quit
  /\ Cardinality({g \in Gen : sched[g] = "calling"}) <= gen

\* config.Load has read the file; the goroutines are not there yet.
Init ==
  /\ file = 1 /\ cfg = [file |-> 1, version |-> TRUE]
  /\ event = FALSE /\ hup = FALSE /\ reloadChan = FALSE /\ ctxDone = FALSE
  /\ asked = TRUE
  /\ pc = "setup" /\ gen = 1 /\ job = FALSE
  /\ sched = [g \in Gen |-> "none"] /\ quit = {} /\ cancelled = {}
  /\ srv = [k \in Server |-> [g \in Gen |-> "none"]]
  /\ used = [g \in Gen |-> 0]
  /\ helpers = {}
  /\ events = MaxEvents

-----------------------------------------------------------------------------
(* runDaemon.                                                               *)

\* The watcher's goroutine, with -w only, and the signal handler's.
SetUp ==
  /\ pc = "setup" /\ pc' = "start"
  /\ helpers' = {"signals"} \cup (IF WatchConfig THEN {"adding"} ELSE {})
  /\ UNCHANGED <<requests, gen, cfg, job, services>>

\* Only the first scheduler scans at once; the servers get goroutines of their own.
StartServices ==
  /\ pc = "start" /\ pc' = "wait"
  /\ sched' = [sched EXCEPT ![gen] = IF gen = 1 THEN "scanning" ELSE "running"]
  /\ srv' = [k \in Server |-> [srv[k] EXCEPT ![gen] = "starting"]]
  /\ used' = [used EXCEPT ![gen] = cfg.file]
  /\ UNCHANGED <<requests, gen, cfg, job, quit, cancelled, helpers>>

StopScheduler == quit' = quit \cup {gen}

\* Where both are ready, select takes either.
TakeReload ==
  /\ pc = "wait" /\ reloadChan /\ reloadChan' = FALSE
  /\ pc' = "stop" /\ StopScheduler
  /\ UNCHANGED <<file, event, hup, ctxDone, asked, events, gen, cfg, job, sched, cancelled, srv,
                 used, helpers>>

TakeDone ==
  /\ pc = "wait" /\ ctxDone
  /\ pc' = "exit" /\ StopScheduler
  /\ UNCHANGED <<requests, gen, cfg, job, sched, cancelled, srv, used, helpers>>

\* Mutant of Cancel: the context of the services is forgotten.
CancelNever == UNCHANGED cancelled

Cancel == cancelled' = cancelled \cup {gen}

\* The shutdown of cron waits for the task that is running; then the context is cancelled.
CronStopped ==
  /\ pc \in {"stop", "exit"} /\ ~job
  /\ pc' = IF pc = "stop" THEN "load" ELSE "wg"
  /\ Cancel
  /\ UNCHANGED <<requests, gen, cfg, job, sched, quit, srv, used, helpers>>

\* A configuration that cannot be loaded leaves the old one; one that can has no Version.
Load ==
  /\ pc = "load" /\ pc' = "start"
  /\ cfg' = IF file \in Broken THEN cfg ELSE [file |-> file, version |-> FALSE]
  /\ gen' = gen + 1
  /\ UNCHANGED <<requests, job, services, helpers>>

\* wg has the servers, the watcher and the signal handler: not the scheduler, nor sessions.
WgDone ==
  /\ pc = "wg" /\ pc' = "exited"
  /\ helpers = {} /\ \A g \in Gen : srv["binkp"][g] \in {"none", "failed", "closed"}
  /\ UNCHANGED <<requests, gen, cfg, job, services, helpers>>

-----------------------------------------------------------------------------
(* The services.                                                            *)

Running == pc # "exited"

Done(g) == ctxDone \/ g \in cancelled

\* net.Listen fails while another generation has the port, and that is final.
Listen(k, g) ==
  /\ Running /\ srv[k][g] = "starting"
  /\ srv' = [srv EXCEPT ![k][g] =
       IF \E h \in Gen : srv[k][h] = "listening" /\ (SamePort \/ used[h] = used[g])
       THEN "failed" ELSE "listening"]
  /\ UNCHANGED <<requests, pc, gen, cfg, job, sched, quit, cancelled, used, helpers>>

\* Mutant of CloseServer: the error of Accept is logged, and the next connection awaited.
CloseServerNever(k, g) == FALSE /\ UNCHANGED vars

CloseServer(k, g) ==
  /\ Running /\ srv[k][g] = "listening" /\ Done(g)
  /\ srv' = [srv EXCEPT ![k][g] = "closed"]
  /\ UNCHANGED <<requests, pc, gen, cfg, job, sched, quit, cancelled, used, helpers>>

Sched(g, from, to) ==
  /\ Running /\ sched[g] = from
  /\ sched' = [sched EXCEPT ![g] = to]
  /\ UNCHANGED <<requests, pc, gen, cfg, job, quit, cancelled, srv, used, helpers>>

\* A tick or a trigger, also one that is ready when quit is closed, unless a session is active.
WakeUp(g) == (\A h \in Gen : sched[h] # "calling") /\ Sched(g, "running", "scanning")
Call(g) == Sched(g, "scanning", "calling")
CallOver(g) == Sched(g, "calling", "scanning")
ScanOver(g) == Sched(g, "scanning", "running")
Quits(g) == g \in quit /\ Sched(g, "running", "stopped")

JobStarts ==
  /\ pc = "wait" /\ ~job /\ job' = TRUE
  /\ UNCHANGED <<requests, pc, gen, cfg, services, helpers>>

JobEnds ==
  /\ Running /\ job /\ job' = FALSE
  /\ UNCHANGED <<requests, pc, gen, cfg, services, helpers>>

-----------------------------------------------------------------------------
(* Requests.                                                                *)

\* Mutant of Notify: the channel has no buffer, so the request is lost unless main waits.
NotifyUnbuffered == reloadChan' = (reloadChan \/ pc = "wait")

\* A send that does not block.
Notify == reloadChan' = TRUE

\* Whether the watcher hears of a change: where the directory is watched, unless the event is lost.
Heard ==
  {"watching" \in helpers} \cup {FALSE : f \in WatchFaults \cap {"overflow"}}

Edit(v) ==
  /\ Running /\ events > 0 /\ events' = events - 1
  /\ file' = v
  /\ \E heard \in Heard :
       /\ event' = (event \/ heard)
       /\ asked' = (heard \/ (asked /\ v = file))
  /\ UNCHANGED <<hup, reloadChan, ctxDone, pc, gen, cfg, job, services, helpers>>

\* watcher.Add: from now on there are events.
WatchAdd ==
  /\ Running /\ "adding" \in helpers
  /\ helpers' = (helpers \ {"adding"}) \cup {"watching"}
  /\ UNCHANGED <<requests, pc, gen, cfg, job, services>>

\* An error of NewWatcher, Abs or Add is logged, and the goroutine returns.
WatchFails ==
  /\ Running /\ "adding" \in helpers /\ "add" \in WatchFaults
  /\ helpers' = helpers \ {"adding"}
  /\ UNCHANGED <<requests, pc, gen, cfg, job, services>>

Watch ==
  /\ Running /\ "watching" \in helpers /\ event /\ event' = FALSE
  /\ Notify
  /\ UNCHANGED <<file, hup, ctxDone, asked, events, pc, gen, cfg, job, services, helpers>>

\* A SIGHUP before there is a handler ends the process, which is not modelled.
Hup ==
  /\ Running /\ "signals" \in helpers /\ events > 0 /\ events' = events - 1
  /\ hup' = TRUE /\ asked' = TRUE
  /\ UNCHANGED <<file, event, reloadChan, ctxDone, pc, gen, cfg, job, services, helpers>>

HandleHup ==
  /\ Running /\ "signals" \in helpers /\ hup /\ hup' = FALSE
  /\ Notify
  /\ UNCHANGED <<file, event, ctxDone, asked, events, pc, gen, cfg, job, services, helpers>>

\* POST /api/control with reload_config, to any API server that listens.
ApiReload ==
  /\ Running /\ events > 0 /\ events' = events - 1
  /\ "api" \in Server /\ \E g \in Gen : srv["api"][g] = "listening"
  /\ Notify /\ asked' = TRUE
  /\ UNCHANGED <<file, event, hup, ctxDone, pc, gen, cfg, job, services, helpers>>

Shutdown ==
  /\ Running /\ ~ctxDone /\ ctxDone' = TRUE
  /\ UNCHANGED <<file, event, hup, reloadChan, asked, events, pc, gen, cfg, job, services,
                 helpers>>

\* A goroutine that sees ctx.Done: the watcher in its loop.
HelperEnds(h) ==
  /\ Running /\ ctxDone /\ h \in helpers \ {"adding"} /\ helpers' = helpers \ {h}
  /\ UNCHANGED <<requests, pc, gen, cfg, job, services>>

-----------------------------------------------------------------------------
Main == SetUp \/ StartServices \/ TakeReload \/ CronStopped \/ Load \/ WgDone

Next ==
  \/ Main \/ TakeDone \/ JobStarts \/ JobEnds
  \/ \E g \in Gen : \/ WakeUp(g) \/ Call(g) \/ CallOver(g) \/ ScanOver(g) \/ Quits(g)
                    \/ \E k \in Server : Listen(k, g) \/ CloseServer(k, g)
  \/ \E v \in Version : Edit(v)
  \/ WatchAdd \/ WatchFails \/ Watch \/ Hup \/ HandleHup \/ ApiReload \/ Shutdown
  \/ \E h \in helpers : HelperEnds(h)

Spec == Init /\ [][Next]_vars

\* Goroutines run and cron tasks end.  Where two channels are ready, select takes each of them
\* some time, hence SF.  There are finitely many steps of the watcher and the signal handler.
ReloadSpec ==
  /\ Spec /\ WF_vars(Main) /\ SF_vars(TakeDone) /\ WF_vars(JobEnds)
  /\ WF_vars(WatchAdd \/ Watch \/ HandleHup)

\* Besides, calls end, and a scan has finitely many of them.
FairSpec ==
  /\ ReloadSpec
  /\ \A h \in {"watching", "signals"} : WF_vars(HelperEnds(h))
  /\ \A g \in Gen :
       /\ WF_vars(CallOver(g)) /\ SF_vars(ScanOver(g)) /\ SF_vars(Quits(g))
       /\ \A k \in Server : WF_vars(Listen(k, g) \/ CloseServer(k, g))

-----------------------------------------------------------------------------
(* Properties.                                                              *)

\* While the daemon waits, the current services, and no others, are meant to run, and they use
\* the configuration in force (the loop of runDaemon).
CurrentServices ==
  pc = "wait" =>
    /\ gen \notin quit /\ gen \notin cancelled /\ used[gen] = cfg.file
    /\ \A g \in 1 .. gen - 1 : g \in quit /\ g \in cancelled

\* A content other than the one in force, which could be loaded, is on its way to main.
OnItsWay ==
  file # cfg.file /\ file \notin Broken =>
    event \/ hup \/ reloadChan \/ pc \in {"stop", "load"}

\* No change that the daemon was told of is missed, by the watcher, a SIGHUP or the API: the file
\* is read long after the request was taken, and reloadChan has room for one request only.
NoChangeMissed == asked => OnItsWay

\* The last state of the file comes into force, if it can be loaded and the daemon was told of
\* it, however changes and signals fall together with reloads.
LatestConfigUsed ==
  \A v \in Version \ Broken :
    <>[](file = v /\ asked /\ ~ctxDone) => <>[](cfg.file = v)

\* With -w every change comes into force (README.md:154, "it will automatically reload").
EveryChangeWatched == WatchConfig => OnItsWay

\* The daemon shuts down when it is told to, also in the middle of a reload.
ShutdownEnds == ctxDone ~> pc = "exited"

\* A reload keeps the BinkP server (main.go:257, "Stop current services", before new ones).
ServerKept == srv["binkp"][gen] # "failed"

\* Only one scheduler works on the outbound directory (the same comment).
OneScheduler == Cardinality({g \in Gen : ~Asleep(g)}) <= 1

\* No call is under way when the daemon has "shut down gracefully" (main.go:291).
GracefulExit == pc = "exited" => \A g \in Gen : sched[g] # "calling"

\* The version that momail shows in its handshakes is set (session.go:443, "VER: Software version").
VersionShown == cfg.version
=============================================================================
