------------------------------ MODULE MCLifecycle ------------------------------
(* Instances of Lifecycle for the liveness of the daemon.  A run explores   *)
(* the parts of Part.                                                       *)
(*   "config"    reloads with the constants of the cfg.  Schedulers, BinkP  *)
(*               servers and the shutdown stand still: no step of theirs    *)
(*               changes what a request or a reload depends on, but         *)
(*               ctxDone, and LatestConfigUsed says nothing of a daemon     *)
(*               that shuts down;                                           *)
(*   "shutdown"  the whole daemon without the HTTP API, one event.          *)
EXTENDS Lifecycle

CONSTANT Part

VARIABLE part  \* it never changes

allVars == <<vars, part>>

One == INSTANCE Lifecycle WITH MaxEvents <- 1, Server <- {"binkp"}

MCInit == part \in Part /\ IF part = "config" THEN Init ELSE One!Init

ConfigStep(X) == part = "config" /\ X /\ UNCHANGED part

ShutdownStep(X) == part = "shutdown" /\ X /\ UNCHANGED part

Reloads ==
  \/ Main \/ JobStarts \/ JobEnds
  \/ "api" \in Server /\ \E g \in Gen : Listen("api", g)
  \/ \E v \in Version : Edit(v)
  \/ WatchAdd \/ WatchFails \/ Watch \/ Hup \/ HandleHup \/ ApiReload

MCNext == ConfigStep(Reloads) \/ ShutdownStep(One!Next)

\* ReloadSpec's fairness in one part, FairSpec's in the other.
MCFairness ==
  /\ WF_allVars(ConfigStep(Main)) /\ WF_allVars(ConfigStep(JobEnds))
  /\ WF_allVars(ConfigStep(WatchAdd \/ Watch \/ HandleHup))
  /\ WF_allVars(ShutdownStep(One!Main)) /\ SF_allVars(ShutdownStep(One!TakeDone))
  /\ WF_allVars(ShutdownStep(One!JobEnds))
  /\ WF_allVars(ShutdownStep(One!WatchAdd \/ One!Watch \/ One!HandleHup))
  /\ \A h \in {"watching", "signals"} : WF_allVars(ShutdownStep(One!HelperEnds(h)))
  /\ \A g \in One!Gen :
       /\ WF_allVars(ShutdownStep(One!CallOver(g)))
       /\ SF_allVars(ShutdownStep(One!ScanOver(g))) /\ SF_allVars(ShutdownStep(One!Quits(g)))
       /\ WF_allVars(ShutdownStep(One!Listen("binkp", g) \/ One!CloseServer("binkp", g)))

MCSpec == MCInit /\ [][MCNext]_allVars /\ MCFairness
=============================================================================
