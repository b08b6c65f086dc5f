------------------------------ MODULE Scheduler ------------------------------
(***************************************************************************)
(* The scheduler of one or more momail processes that share an outbound    *)
(* directory (scheduler/scheduler.go): the scan, the calls one after the   *)
(* other, busy and hold files, failure counts and the delay between        *)
(* retries, against incoming sessions, the HTTP API, the tosser that adds  *)
(* mail, and processes that die.  What happens inside a call is            *)
(* BinkpSession's business, how a node's host is found is Lookup's.        *)
(***************************************************************************)
EXTENDS FlowExt, FiniteSets

CONSTANTS
  Node,             \* systems that mail is for
  Mailer,           \* momail processes
  Ext,              \* the extensions mail comes in
  MaxDialAttempts,
  MaxSetbacks,      \* bound: crashes, incoming sessions, suspensions and mutes, all in all
  Env,              \* what else happens: a subset of EnvKind
  None

EnvKind == {"crash", "mute", "suspend", "edit", "incoming", "manual"}

ASSUME ExtAssumption  == Ext \subseteq ValidFlowExt
ASSUME DialAssumption == MaxDialAttempts \in Nat \ {0} /\ MaxSetbacks \in Nat
ASSUME EnvAssumption  == Env \subseteq EnvKind
ASSUME NoneAssumption == None \notin Node

VARIABLES
  mail,      \* mail[n]: the extensions of n's files in the outbound directory
  busy,      \* busy[n]: n's .bsy file, "none", "fresh", or older than StaleBusyTimeout
  hold,      \* hold[n]: n's .hld file, "none", "fresh", or older than HoldTime
  proc,      \* proc[m]: what process m has in memory, see Process
  manual,    \* nodes being called by momail -p
  setbacks,  \* setbacks that may still come
  orphan,    \* history: nodes whose busy file outlived its process
  unheld,    \* history: unheld[m][n], failed calls in a row without a hold file in between
  rested     \* history: rested[m][n], RescanPeriod has passed since m's last call of n

vars == <<mail, busy, hold, proc, manual, setbacks, orphan, unheld, rested>>

Process == [pc       : {"down", "idle", "poll", "found", "dialing", "session"},
            todo     : SUBSET Node,                \* nodes of the scan still to be visited
            flavor   : [Node -> Flavor \cup {None}], \* what the scan found for a node
            seen     : SUBSET Node,
            cur      : Node \cup {None},           \* the node being called
            failures : [Node -> 0 .. MaxDialAttempts - 1],      \* failureCounts
            attempt  : [Node -> {"zero", "recent", "past"}],    \* lastAttemptTime
            trigger  : BOOLEAN,                    \* triggerScan holds a reason
            muted    : BOOLEAN,
            active   : SUBSET Node]                \* incoming sessions

TypeOK ==
  /\ mail \in [Node -> SUBSET Ext]
  /\ busy \in [Node -> {"none", "fresh", "stale"}]
  /\ hold \in [Node -> {"none", "fresh", "old"}]
  /\ proc \in [Mailer -> Process]
  /\ \A m \in Mailer : (proc[m].cur # None) <=> proc[m].pc \in {"found", "dialing", "session"}
  /\ manual \in SUBSET Node /\ orphan \in SUBSET Node
  /\ setbacks \in 0 .. MaxSetbacks
  /\ unheld \in [Mailer -> [Node -> Nat]]
  /\ rested \in [Mailer -> [Node -> BOOLEAN]]

ToAll(x) == [n \in Node |-> x]

\* The package's variables when a process starts.
Fresh == [pc |-> "down", todo |-> {}, flavor |-> ToAll(None), seen |-> {}, cur |-> None,
          failures |-> ToAll(0), attempt |-> ToAll("zero"), trigger |-> FALSE,
          muted |-> FALSE, active |-> {}]

Init ==
  /\ mail \in [Node -> SUBSET Ext]
  /\ busy = ToAll("none") /\ hold = ToAll("none")
  /\ proc = [m \in Mailer |-> Fresh]
  /\ manual = {} /\ orphan = {}
  /\ setbacks = MaxSetbacks
  /\ unheld = [m \in Mailer |-> ToAll(0)]
  /\ rested = [m \in Mailer |-> ToAll(TRUE)]

-----------------------------------------------------------------------------
(* Waking up, and one round of ScanAndPoll.                                 *)

Queued == {n \in Node : mail[n] # {}}

\* scanOutbound: the queue is read once; the calls work through this copy.
Scanned(p) ==
  [p EXCEPT !.pc = "poll", !.todo = Queued,
            !.flavor = [n \in Node |-> IF n \in Queued THEN FlavorOf(mail[n]) ELSE None]]

\* No scan follows a wake-up while a session is active or the system is muted.
ScanUnlessBusy(p) == IF p.active = {} /\ ~p.muted THEN Scanned(p) ELSE p

\* runDaemon's initial scan, the ticker, and a trigger, which is taken out of the channel
\* whether or not a scan follows.
WakeUp(m) ==
  /\ \/ proc[m].pc = "down" /\ proc' = [proc EXCEPT ![m] = Scanned(@)]
     \/ proc[m].pc = "idle" /\ proc' = [proc EXCEPT ![m] = ScanUnlessBusy(@)]
     \/ /\ proc[m].pc = "idle" /\ proc[m].trigger
        /\ proc' = [proc EXCEPT ![m] = [ScanUnlessBusy(@) EXCEPT !.trigger = FALSE]]
  /\ UNCHANGED <<mail, busy, hold, manual, setbacks, orphan, unheld, rested>>

\* The first checks of the loop: retry delay, incoming session, hold file.
Skipped(p, n) == p.attempt[n] = "recent" \/ n \in p.active \/ hold[n] = "fresh"

\* Mutant of Visited: a skipped node is not noted in seen.
VisitedUnlessSkipped(p, n) ==
  [p EXCEPT !.todo = @ \ {n}, !.seen = IF Skipped(p, n) THEN @ ELSE @ \cup {n}]

Visited(p, n) == [p EXCEPT !.todo = @ \ {n}, !.seen = @ \cup {n}]

SkipNode(m, n) ==
  /\ Skipped(proc[m], n)
  /\ proc' = [proc EXCEPT ![m] = Visited(@, n)]
  /\ UNCHANGED <<mail, busy, hold, manual, setbacks, orphan, unheld, rested>>

\* Mutant of Unlocked: a stale busy file is respected like a fresh one.
UnlockedNever(n) == busy[n]

\* A stale busy file is removed.
Unlocked(n) == IF busy[n] = "stale" THEN "none" ELSE busy[n]

\* An expired hold file goes, with the failure count; a node with a fresh busy file, or with
\* nothing but mail on hold, is left alone.
CheckNode(m, n) ==
  /\ ~Skipped(proc[m], n)
  /\ hold' = [hold EXCEPT ![n] = "none"]
  /\ busy' = [busy EXCEPT ![n] = Unlocked(n)]
  /\ orphan' = IF busy'[n] = "none" THEN orphan \ {n} ELSE orphan
  /\ LET p == [Visited(proc[m], n) EXCEPT !.failures[n] = IF hold[n] = "old" THEN 0 ELSE @]
     IN proc' = [proc EXCEPT ![m] =
                   IF busy'[n] = "none" /\ p.flavor[n] # "Hold"
                   THEN [p EXCEPT !.pc = "found", !.cur = n]
                   ELSE p]
  /\ UNCHANGED <<mail, manual, setbacks, unheld, rested>>

Visit(m) ==
  /\ proc[m].pc = "poll"
  /\ \E n \in proc[m].todo : SkipNode(m, n) \/ CheckNode(m, n)

\* createBusyFile, lastAttemptTime, Dial.  The lookup of the host lies between the check of
\* the busy file and its creation.
Dial(m) ==
  LET n == proc[m].cur IN
  /\ proc[m].pc = "found"
  /\ busy' = [busy EXCEPT ![n] = "fresh"]
  /\ proc' = [proc EXCEPT ![m].pc = "dialing", ![m].attempt[n] = "recent"]
  /\ orphan' = orphan \ {n}
  /\ rested' = [rested EXCEPT ![m][n] = FALSE]
  /\ UNCHANGED <<mail, hold, manual, setbacks, unheld>>

\* The connection is made; Run refuses at once on a muted system.
Connect(m) ==
  /\ proc[m].pc = "dialing" /\ ~proc[m].muted
  /\ proc' = [proc EXCEPT ![m].pc = "session"]
  /\ UNCHANGED <<mail, busy, hold, manual, setbacks, orphan, unheld, rested>>

\* A session sends part of the mail, or all but what it does not look for.
Sent(n) ==
  \E remains \in SUBSET mail[n] : /\ mail[n] \ SentExt \subseteq remains
                                  /\ mail' = [mail EXCEPT ![n] = remains]

\* Mutant of CallOver: only a call that went well removes the busy file.
CallOverKeepsBusy(m, n, p) ==
  /\ proc' = [proc EXCEPT ![m] = [p EXCEPT !.pc = "poll", !.cur = None, !.attempt[n] = "recent"]]
  /\ busy' = [busy EXCEPT ![n] = IF p.trigger THEN "none" ELSE @]
  /\ orphan' = IF p.trigger THEN orphan \ {n} ELSE orphan
  /\ rested' = [rested EXCEPT ![m][n] = FALSE]

\* After Dial: the busy file is removed, whoever wrote it.
CallOver(m, n, p) ==
  /\ proc' = [proc EXCEPT ![m] = [p EXCEPT !.pc = "poll", !.cur = None, !.attempt[n] = "recent"]]
  /\ busy' = [busy EXCEPT ![n] = "none"]
  /\ orphan' = orphan \ {n}
  /\ rested' = [rested EXCEPT ![m][n] = FALSE]

\* Mutant of TooMany: the hold file comes one failure late.
TooManyLate(p, n) == p.failures[n] + 1 > MaxDialAttempts

TooMany(p, n) == p.failures[n] + 1 >= MaxDialAttempts

\* The failure is counted; at the maximum the node is suspended and the count starts again.
CallFails(m) ==
  LET n == proc[m].cur
      full == TooMany(proc[m], n)
  IN /\ proc[m].pc \in {"dialing", "session"}
     /\ IF proc[m].pc = "session" THEN Sent(n) ELSE UNCHANGED mail
     /\ hold' = [hold EXCEPT ![n] = IF full THEN "fresh" ELSE @]
     /\ CallOver(m, n, [proc[m] EXCEPT !.failures[n] = IF full THEN 0 ELSE @ + 1])
     /\ unheld' = [i \in Mailer |->
                     [unheld[i] EXCEPT ![n] = IF hold'[n] # "none" THEN 0
                                              ELSE IF i = m THEN @ + 1 ELSE @]]
     /\ UNCHANGED <<manual, setbacks>>

\* OnSessionEnd asks for another scan.
CallSucceeds(m) ==
  LET n == proc[m].cur IN
  /\ proc[m].pc = "session"
  /\ Sent(n)
  /\ CallOver(m, n, [proc[m] EXCEPT !.failures[n] = 0, !.trigger = TRUE])
  /\ unheld' = [unheld EXCEPT ![m][n] = 0]
  /\ UNCHANGED <<hold, manual, setbacks>>

\* The end of ScanAndPoll: the attempts of nodes without mail are forgotten.
ForgetUnseen(m) ==
  LET p == proc[m] IN
  /\ p.pc = "poll" /\ p.todo = {}
  /\ proc' = [proc EXCEPT ![m] =
       [p EXCEPT !.pc = "idle", !.seen = {}, !.flavor = ToAll(None),
                 !.attempt = [n \in Node |-> IF n \in p.seen THEN @[n] ELSE "zero"]]]
  /\ rested' = [rested EXCEPT ![m] = [n \in Node |-> p.flavor[n] = None \/ @[n]]]
  /\ UNCHANGED <<mail, busy, hold, manual, setbacks, orphan, unheld>>

-----------------------------------------------------------------------------
(* Time, and the rest of the world.                                         *)

Calls(m, n) == proc[m].pc \in {"dialing", "session"} /\ proc[m].cur = n

\* RescanPeriod passes since a call, whatever the program remembers of it.
AttemptAges(m, n) ==
  /\ ~rested[m][n] /\ ~Calls(m, n)
  /\ proc' = [proc EXCEPT ![m].attempt[n] = IF @ = "recent" THEN "past" ELSE @]
  /\ rested' = [rested EXCEPT ![m][n] = TRUE]
  /\ UNCHANGED <<mail, busy, hold, manual, setbacks, orphan, unheld>>

\* HoldTime, or StaleBusyTimeout, passes.
FlagAges(n) ==
  /\ \/ hold[n] = "fresh" /\ hold' = [hold EXCEPT ![n] = "old"] /\ UNCHANGED busy
     \/ busy[n] = "fresh" /\ busy' = [busy EXCEPT ![n] = "stale"] /\ UNCHANGED hold
  /\ UNCHANGED <<mail, proc, manual, setbacks, orphan, unheld, rested>>

Setback(kind) == kind \in Env /\ setbacks > 0 /\ setbacks' = setbacks - 1

\* A tosser, momail -q or queue_poll creates a file for n; the API deletes n's files, or
\* renames one over another.
Edit(n) ==
  /\ \/ \E e \in Ext \ mail[n] : mail' = [mail EXCEPT ![n] = @ \cup {e}]
     \/ /\ "edit" \in Env
        /\ \E exts \in SUBSET Ext : /\ exts # mail[n]
                                    /\ Cardinality(exts) <= Cardinality(mail[n])
                                    /\ mail' = [mail EXCEPT ![n] = exts]
  /\ UNCHANGED <<busy, hold, proc, manual, setbacks, orphan, unheld, rested>>

\* PATCH of a queue entry, or queue_poll with "suspended": a hold file is written or removed.
SetSuspended(n) ==
  /\ Setback("suspend")
  /\ hold' = [hold EXCEPT ![n] = IF @ = "fresh" THEN "none" ELSE "fresh"]
  /\ unheld' = [m \in Mailer |-> [unheld[m] EXCEPT ![n] = 0]]
  /\ UNCHANGED <<mail, busy, proc, manual, orphan, rested>>

\* mute, unmute.
SetMuted(m) ==
  /\ Setback("mute")
  /\ proc[m].pc # "down"
  /\ proc' = [proc EXCEPT ![m].muted = ~@]
  /\ UNCHANGED <<mail, busy, hold, manual, orphan, unheld, rested>>

\* force_scan: TriggerScan drops the reason if one is queued.
TriggerScan(m) ==
  /\ proc[m].pc # "down"
  /\ proc' = [proc EXCEPT ![m].trigger = TRUE]
  /\ UNCHANGED <<mail, busy, hold, manual, setbacks, orphan, unheld, rested>>

\* An incoming session, from the moment the monitor knows its node.  It looks for no busy file.
Incoming(m, n) ==
  /\ Setback("incoming")
  /\ proc[m].pc # "down" /\ ~proc[m].muted /\ n \notin proc[m].active
  /\ proc' = [proc EXCEPT ![m].active = @ \cup {n}]
  /\ UNCHANGED <<mail, busy, hold, manual, orphan, unheld, rested>>

IncomingEnds(m, n) ==
  /\ n \in proc[m].active
  /\ Sent(n)
  /\ \E success \in BOOLEAN :
       proc' = [proc EXCEPT ![m].active = @ \ {n}, ![m].trigger = @ \/ success]
  /\ UNCHANGED <<busy, hold, manual, setbacks, orphan, unheld, rested>>

\* momail -p: a call by another process, without a look at busy or hold files.
PollNow(n) ==
  /\ "manual" \in Env
  /\ \/ n \notin manual /\ manual' = manual \cup {n} /\ UNCHANGED mail
     \/ n \in manual /\ manual' = manual \ {n} /\ Sent(n)
  /\ UNCHANGED <<busy, hold, proc, setbacks, orphan, unheld, rested>>

\* The process ends, in whatever way: what it had in memory is gone, its busy file stays.
Crash(m) ==
  /\ Setback("crash")
  /\ proc[m].pc # "down"
  /\ proc' = [proc EXCEPT ![m] = Fresh]
  /\ orphan' = orphan \cup {n \in Node : Calls(m, n) /\ busy[n] # "none"}
  /\ unheld' = [unheld EXCEPT ![m] = ToAll(0)]
  /\ rested' = [rested EXCEPT ![m] = ToAll(TRUE)]
  /\ UNCHANGED <<mail, busy, hold, manual>>

-----------------------------------------------------------------------------
Scan(m) == Visit(m) \/ Dial(m) \/ ForgetUnseen(m)

EndCall(m) == CallFails(m) \/ CallSucceeds(m)

Next ==
  \/ \E m \in Mailer : WakeUp(m) \/ Scan(m) \/ Connect(m) \/ EndCall(m)
  \/ \E m \in Mailer : SetMuted(m) \/ TriggerScan(m) \/ Crash(m)
  \/ \E m \in Mailer, n \in Node : AttemptAges(m, n) \/ Incoming(m, n) \/ IncomingEnds(m, n)
  \/ \E n \in Node : FlagAges(n) \/ Edit(n) \/ SetSuspended(n) \/ PollNow(n)

Spec == Init /\ [][Next]_vars

\* The scheduler's goroutine runs, calls and incoming sessions end (their reads have
\* deadlines), time passes, and a process that died is started again.
FairSpec ==
  /\ Spec
  /\ \A m \in Mailer : WF_vars(WakeUp(m)) /\ WF_vars(Scan(m)) /\ WF_vars(EndCall(m))
  /\ \A m \in Mailer, n \in Node : WF_vars(AttemptAges(m, n)) /\ WF_vars(IncomingEnds(m, n))
  /\ \A n \in Node : WF_vars(FlagAges(n))

-----------------------------------------------------------------------------
(* Properties.                                                              *)

\* max_dial_attempts: a node is not called more often in vain than that without a hold file
\* in between, though the count is reset on three paths and lost with the process.
SuspendAfterMax == \A m \in Mailer, n \in Node : unheld[m][n] < MaxDialAttempts

\* A busy file never stays behind a call that ended, well or not: a node is locked for a
\* process that is calling it, or for one that died.
NoBusyLeft ==
  \A n \in Node : busy[n] # "none" => n \in orphan \/ \E m \in Mailer : Calls(m, n)

\* ScanAndPoll does not call a node again within RescanPeriod of its last call as long as
\* each scan in between found mail for it, whatever it skipped and forgot in between.
RetryDelay ==
  [][\A m \in Mailer, n \in Node : ~Calls(m, n) /\ Calls(m, n)' => rested[m][n]]_vars

\* Mail that is not on hold gets its node called, unless somebody takes it: after failures
\* and suspensions, crashes that left a busy file, and scans that were dropped.
Due(n) == mail[n] # {} /\ FlavorOf(mail[n]) # "Hold"

MailCalled ==
  \A n \in Node : Due(n) ~> ~Due(n) \/ (\E m \in Mailer : Calls(m, n) \/ n \in proc[m].active)

\* config.yaml.dist:102 calls the .bsy file a lock file: no two processes have a session with
\* one node at the same time.
OneCaller ==
  \A n \in Node, m1, m2 \in Mailer :
    Calls(m1, n) /\ Calls(m2, n) /\ proc[m1].pc = "session" /\ proc[m2].pc = "session" => m1 = m2

\* README.md:91: a queued poll is a flow file "for the scheduler to pick up".
PollPickedUp ==
  \A n \in Node : ".flo" \in mail[n] ~> ".flo" \notin mail[n] \/ \E m \in Mailer : Calls(m, n)

\* config.yaml.dist:96: it is failed dial attempts that lead to a suspension.
OnlyDialsSuspend ==
  [][\A n \in Node, m \in Mailer :
       /\ Calls(m, n) /\ proc[m].pc = "session" /\ hold[n] = "none"
       /\ proc'[m].pc = "poll"
       => hold'[n] = "none"]_vars
=============================================================================
