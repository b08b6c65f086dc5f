------------------------------ MODULE Handshake ------------------------------
(***************************************************************************)
(* performHandshake of binkp/session.go: a calling momail node and an      *)
(* answering one settle on the link the session belongs to, and go on to   *)
(* the transfer.  Each side leaves the loop by itself, on what it has read *)
(* so far, and whatever the other side sends next is read by whichever     *)
(* loop is then running.                                                   *)
(*                                                                         *)
(* The transfer phase is kept to its outline: a side with mail sends one   *)
(* file, M_EOB follows, and a side that has both sent and read M_EOB ends. *)
(* A password stands for itself, sent plainly or as a CRAM-MD5 digest.     *)
(***************************************************************************)
EXTENDS Integers, Sequences, FiniteSets

CONSTANTS
  Client, Server,  \* the two sides
  Password,        \* passwords
  NoPassword,      \* a link whose password is empty
  Unknown,         \* no link for the other side's address
  Impatient        \* read deadlines may pass although the other side is alive

Side == {Client, Server}
Other(n) == IF n = Client THEN Server ELSE Client

ASSUME SideAssumption ==
  /\ Client # Server
  /\ NoPassword \notin Password
  /\ Unknown \notin Password \cup {NoPassword}
  /\ Impatient \in BOOLEAN

TransferFrame == [t : {"FILE", "DATA", "EOB"}]

Frame == [t : {"OPT", "NUL", "ADR", "OK", "ERR"}]
           \cup [t : {"PWD"}, password : Password]
           \cup TransferFrame

Msg(t) == [t |-> t]

VARIABLES
  link,      \* link[n]: n's configuration of the other side
  mail,      \* mail[n]: n has a file for the other side
  cram,      \* the answering side offers CRAM-MD5: momail does, others may not
  chan,      \* chan[n]: frames n sent that the other side has not read
  pc,        \* pc[n]: where n's session stands
  adr,       \* adr[n]: remoteSentADR
  auth,      \* auth[n]: authDone
  pwdSent,   \* pwdSent[n]
  active,    \* active[n]: activeLink is set
  outbox,    \* outbox[n]: what n's transfer phase has yet to send
  got,       \* got[n]: transfer frames n's transfer phase has read
  dropped    \* dropped[n]: transfer frames n's handshake loop has read

config == <<link, mail, cram>>
vars == <<link, mail, cram, chan, pc, adr, auth, pwdSent, active, outbox, got, dropped>>

TypeOK ==
  /\ link \in [Side -> Password \cup {NoPassword, Unknown}]
  /\ mail \in [Side -> BOOLEAN]
  /\ cram \in BOOLEAN
  /\ chan \in [Side -> Seq(Frame)]
  /\ pc \in [Side -> {"greet", "loop", "session", "done", "failed"}]
  /\ adr \in [Side -> BOOLEAN]
  /\ auth \in [Side -> BOOLEAN]
  /\ pwdSent \in [Side -> BOOLEAN]
  /\ active \in [Side -> BOOLEAN]
  /\ outbox \in [Side -> Seq(TransferFrame)]
  /\ got \in [Side -> Seq(TransferFrame)]
  /\ dropped \in [Side -> Seq(TransferFrame)]

Batch(n) ==
  IF mail[n] THEN <<Msg("FILE"), Msg("DATA"), Msg("EOB")>> ELSE <<Msg("EOB")>>

\* Every pair of configurations; only a caller is sure to have a link.
Init ==
  /\ link \in [Side -> Password \cup {NoPassword, Unknown}]
  /\ link[Client] # Unknown
  /\ mail \in [Side -> BOOLEAN]
  /\ cram \in BOOLEAN
  /\ chan = [n \in Side |-> <<>>]
  /\ pc = [n \in Side |-> "greet"]
  /\ adr = [n \in Side |-> FALSE]
  /\ auth = [n \in Side |-> FALSE]
  /\ pwdSent = [n \in Side |-> FALSE]
  /\ active = [n \in Side |-> FALSE]
  /\ outbox = [n \in Side |-> Batch(n)]
  /\ got = [n \in Side |-> <<>>]
  /\ dropped = [n \in Side |-> <<>>]

-----------------------------------------------------------------------------
Over(n) == pc[n] \in {"done", "failed"}

\* n's frame for the other side comes off the connection, and n answers.
Reading(n, t) ==
  /\ chan[Other(n)] # <<>>
  /\ Head(chan[Other(n)]).t = t

Exchange(n, answer) ==
  chan' = [chan EXCEPT ![Other(n)] = Tail(@), ![n] = @ \o answer]

InLoop(n, t) == pc[n] = "loop" /\ Reading(n, t)

\* The loop's condition, on remoteSentADR and authDone after the handler.
LoopUntil(n, sentADR, done) ==
  pc' = [pc EXCEPT ![n] = IF sentADR /\ done THEN "session" ELSE "loop"]

transfer == <<outbox, got, dropped>>

\* The answering side's challenge, the M_NULs, and M_ADR.
Greeting(n) ==
  (IF n = Server /\ cram THEN <<Msg("OPT")>> ELSE <<>>) \o <<Msg("NUL"), Msg("ADR")>>

\* sendHandshake.
Greet(n) ==
  /\ pc[n] = "greet"
  /\ pc' = [pc EXCEPT ![n] = "loop"]
  /\ chan' = [chan EXCEPT ![n] = @ \o Greeting(n)]
  /\ UNCHANGED <<config, adr, auth, pwdSent, active, transfer>>

\* What a caller with a password sends, once: sendCramResponse or the plain
\* M_PWD.
OwesPassword(n) == n = Client /\ ~pwdSent[n] /\ link[n] \in Password

PasswordIfOwed(n) ==
  IF OwesPassword(n) THEN <<[t |-> "PWD", password |-> link[n]]>> ELSE <<>>

\* Mutant of HandleNul: M_NUL is read again and again.
HandleNulKeepsFrame(n) ==
  /\ \/ /\ InLoop(n, "OPT")
        /\ Exchange(n, PasswordIfOwed(n))
        /\ pwdSent' = [pwdSent EXCEPT ![n] = @ \/ OwesPassword(n)]
     \/ /\ InLoop(n, "NUL")
        /\ UNCHANGED <<chan, pwdSent>>
  /\ UNCHANGED <<config, pc, adr, auth, active, transfer>>

\* M_NUL: a caller answers the first challenge; other M_NULs are logged.
HandleNul(n) ==
  /\ \/ /\ InLoop(n, "OPT")
        /\ Exchange(n, PasswordIfOwed(n))
        /\ pwdSent' = [pwdSent EXCEPT ![n] = @ \/ OwesPassword(n)]
     \/ /\ InLoop(n, "NUL")
        /\ Exchange(n, <<>>)
        /\ UNCHANGED pwdSent
  /\ UNCHANGED <<config, pc, adr, auth, active, transfer>>

\* M_ADR: a caller that saw no challenge sends its password as it is.  A
\* caller without password is done; an answering node is done unless it has
\* a link with a password.
HandleAdr(n) ==
  /\ InLoop(n, "ADR")
  /\ Exchange(n, PasswordIfOwed(n))
  /\ pwdSent' = [pwdSent EXCEPT ![n] = @ \/ OwesPassword(n)]
  /\ adr' = [adr EXCEPT ![n] = TRUE]
  /\ auth' = [auth EXCEPT ![n] = @ \/ link[n] \notin Password]
  /\ active' = [active EXCEPT ![n] = @ \/ link[n] = NoPassword]
  /\ LoopUntil(n, TRUE, auth[n] \/ link[n] \notin Password)
  /\ UNCHANGED <<config, transfer>>

\* Mutant of FindLink: the link of another address is found.
FindLinkForgetsPassword(n) == IF adr[n] /\ link[n] \notin Password THEN link[n] ELSE Unknown

\* The link M_PWD is checked against: findLink, by the addresses read so far;
\* a caller falls back to the link it called.
FindLink(n) == IF adr[n] \/ n = Client THEN link[n] ELSE Unknown

HandlePwd(n) ==
  /\ InLoop(n, "PWD")
  /\ \/ /\ FindLink(n) \in {Unknown, NoPassword, Head(chan[Other(n)]).password}
        /\ Exchange(n, <<Msg("OK")>>)
        /\ auth' = [auth EXCEPT ![n] = TRUE]
        /\ active' = [active EXCEPT ![n] = @ \/ FindLink(n) # Unknown]
        /\ LoopUntil(n, adr[n], TRUE)
     \/ /\ FindLink(n) \in Password \ {Head(chan[Other(n)]).password}
        /\ Exchange(n, <<Msg("ERR")>>)
        /\ pc' = [pc EXCEPT ![n] = "failed"]
        /\ UNCHANGED <<auth, active>>
  /\ UNCHANGED <<config, adr, pwdSent, transfer>>

\* Mutant of HandleOk: M_OK does not end the authentication.
HandleOkIgnored(n) ==
  /\ InLoop(n, "OK")
  /\ Exchange(n, <<>>)
  /\ LoopUntil(n, adr[n], auth[n])
  /\ UNCHANGED <<config, adr, auth, active, pwdSent, transfer>>

HandleOk(n) ==
  /\ InLoop(n, "OK")
  /\ Exchange(n, <<>>)
  /\ LET accepted == n = Client /\ pwdSent[n] /\ ~active[n]
     IN  /\ active' = [active EXCEPT ![n] = @ \/ accepted]
         /\ auth' = [auth EXCEPT ![n] = @ \/ accepted]
         /\ LoopUntil(n, adr[n], auth[n] \/ accepted)
  /\ UNCHANGED <<config, adr, pwdSent, transfer>>

\* Unexpected commands are logged; a data frame is a protocol error.
HandleTransferFrame(n) ==
  /\ \E t \in {"FILE", "DATA", "EOB"} :
       /\ InLoop(n, t)
       /\ Exchange(n, <<>>)
       /\ dropped' = [dropped EXCEPT ![n] = Append(@, Msg(t))]
       /\ pc' = [pc EXCEPT ![n] = IF t = "DATA" THEN "failed" ELSE "loop"]
  /\ UNCHANGED <<config, adr, auth, pwdSent, active, outbox, got>>

-----------------------------------------------------------------------------
(* The transfer phase.                                                     *)

HasEob(frames) == \E i \in 1 .. Len(frames) : frames[i] = Msg("EOB")

\* Mutant of SendNext: does not wait for the handshake.
SendNextInLoop(n) ==
  /\ pc[n] \in {"loop", "session"}
  /\ outbox[n] # <<>>
  /\ chan' = [chan EXCEPT ![n] = IF Over(Other(n)) THEN @ ELSE Append(@, Head(outbox[n]))]
  /\ outbox' = [outbox EXCEPT ![n] = Tail(@)]
  /\ UNCHANGED <<config, pc, adr, auth, pwdSent, active, got, dropped>>

\* fileSender, up to its M_EOB.
SendNext(n) ==
  /\ pc[n] = "session"
  /\ outbox[n] # <<>>
  /\ chan' = [chan EXCEPT ![n] = IF Over(Other(n)) THEN @ ELSE Append(@, Head(outbox[n]))]
  /\ outbox' = [outbox EXCEPT ![n] = Tail(@)]
  /\ UNCHANGED <<config, pc, adr, auth, pwdSent, active, got, dropped>>

\* handleCommand and handleData: other commands are logged.
ReadTransfer(n) ==
  /\ pc[n] = "session"
  /\ chan[Other(n)] # <<>>
  /\ Head(chan[Other(n)]).t # "ERR"
  /\ Exchange(n, <<>>)
  /\ got' = IF Head(chan[Other(n)]).t \in {"FILE", "DATA", "EOB"}
            THEN [got EXCEPT ![n] = Append(@, Head(chan[Other(n)]))]
            ELSE got
  /\ UNCHANGED <<config, pc, adr, auth, pwdSent, active, outbox, dropped>>

\* Both sides sent M_EOB: the connection is closed.
Finish(n) ==
  /\ pc[n] = "session"
  /\ outbox[n] = <<>>
  /\ HasEob(got[n])
  /\ pc' = [pc EXCEPT ![n] = "done"]
  /\ UNCHANGED <<config, chan, adr, auth, pwdSent, active, transfer>>

-----------------------------------------------------------------------------
(* Failures of reading.                                                    *)

Fail(n) ==
  /\ pc' = [pc EXCEPT ![n] = "failed"]
  /\ UNCHANGED <<config, chan, adr, auth, pwdSent, active, transfer>>

\* M_ERR, in either phase.
HandleErr(n) ==
  /\ pc[n] \in {"loop", "session"}
  /\ Reading(n, "ERR")
  /\ Fail(n)

\* The other side closed: an error in the handshake and for a sender with
\* something left, a clean end otherwise.
HandleClose(n) ==
  /\ Over(Other(n))
  /\ chan[Other(n)] = <<>>
  /\ \/ pc[n] = "loop" /\ Fail(n)
     \/ pc[n] = "session" /\ outbox[n] # <<>> /\ Fail(n)
     \/ /\ pc[n] = "session"
        /\ pc' = [pc EXCEPT ![n] = "done"]
        /\ UNCHANGED <<config, chan, adr, auth, pwdSent, active, transfer>>

\* n is waiting in Read for a frame.
Waiting(n) ==
  /\ chan[Other(n)] = <<>>
  /\ pc[n] = "loop" \/ (pc[n] = "session" /\ outbox[n] = <<>> /\ ~HasEob(got[n]))

\* SetReadDeadline: 60 seconds in the handshake, 120 after it.
Timeout(n) ==
  /\ Waiting(n)
  /\ ~Over(Other(n))
  /\ Impatient \/ Waiting(Other(n))
  /\ Fail(n)

Terminated == (\A n \in Side : Over(n)) /\ UNCHANGED vars

Step(n) ==
  \/ Greet(n) \/ HandleNul(n) \/ HandleAdr(n) \/ HandlePwd(n) \/ HandleOk(n)
  \/ HandleTransferFrame(n) \/ SendNext(n) \/ ReadTransfer(n) \/ Finish(n)
  \/ HandleErr(n) \/ HandleClose(n) \/ Timeout(n)

Next == (\E n \in Side : Step(n)) \/ Terminated

\* Each side's session keeps running.
Spec == Init /\ [][Next]_vars /\ \A n \in Side : WF_vars(Step(n))

-----------------------------------------------------------------------------
(* Properties.                                                             *)

\* Both sides hold the same password, or none is asked for.
Matched == link[Server] = link[Client] \/ {link[Server], link[Client]} = {Unknown, NoPassword}

Talking(n) == pc[n] \in {"session", "done"}

\* A link's password protects it from both ends: a side whose link has one
\* reaches the transfer only with a side that knows it.
PasswordProtects ==
  \A n \in Side : link[n] \in Password /\ Talking(n) => link[Other(n)] = link[n]

\* The sides leave their loops at different times, but with matching links
\* no handshake loop swallows a frame of the other side's transfer phase.
NoTransferFrameDropped == Matched => \A n \in Side : dropped[n] = <<>>

\* What a loop waits for is not lost in the other side's transfer phase, and
\* both end their sessions with all mail exchanged.
MatchedExchange ==
  <>(Matched => \A n \in Side : pc[n] = "done" /\ got[n] = Batch(Other(n)))

\* Whatever the configurations, no side waits for ever.
BothEnd == <>(\A n \in Side : Over(n))

\* session.go:238 says of a caller without a link "treating as unprotected
\* session", and session.go:247 of one without a password "accepted".
LenientServerAccepts ==
  <>(link[Server] \in {Unknown, NoPassword} => pc[Client] = "done")
=============================================================================
