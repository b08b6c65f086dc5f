--------------------------- MODULE HandshakeProofs ---------------------------
(* Theorems about Handshake, for every set of passwords.                   *)
EXTENDS Handshake, SequenceTheorems, TLAPS

-----------------------------------------------------------------------------
(* The inductive invariant.  What a side's loop waits for comes ahead of    *)
(* everything that depends on it, in the stream it reads.                   *)

Transfer == {"FILE", "DATA", "EOB"}

Elems(s) == {s[i] : i \in 1 .. Len(s)}

Has(s, types) == \E f \in Elems(s) : f.t \in types

\* In s, a frame of one of the types comes only after one of type first.
After(s, first, types) ==
  \A i \in 1 .. Len(s) : s[i].t \in types => \E j \in 1 .. i - 1 : s[j].t = first

HasAdr(s) == Has(s, {"ADR"})
HasOk(s) == Has(s, {"OK"})
HasTransfer(s) == Has(s, Transfer)
HasLate(s) == Has(s, Transfer \cup {"PWD"})
AdrAhead(s) == After(s, "ADR", Transfer \cup {"PWD"})
OkAhead(s) == After(s, "OK", Transfer)

\* Only the caller sends a password, its link's, and it remembers that.
OwnPassword(n, f) == f.t = "PWD" => n = Client /\ f.password = link[Client] /\ pwdSent[Client]

PasswordFrames == \A n \in Side : \A f \in Elems(chan[n]) : OwnPassword(n, f)

\* M_ADR comes before a password and before the transfer.
AdrFirst ==
  \A n \in Side :
    /\ adr[Other(n)] \/ AdrAhead(chan[n])
    /\ pc[n] # "greet" => adr[Other(n)] \/ HasAdr(chan[n])

\* The answering side sends M_OK for the password of its link only.
OkMeansMatch ==
  HasOk(chan[Server]) =>
    link[Server] \in Password /\ link[Client] = link[Server] /\ pwdSent[Client] /\ auth[Server]

\* M_OK comes before the transfer, and is not lost.
OkFirst ==
  /\ link[Client] \in Password /\ link[Client] = link[Server] =>
       auth[Client] \/ OkAhead(chan[Server])
  /\ auth[Server] /\ link[Server] \in Password => auth[Client] \/ HasOk(chan[Server])

\* The answering side is done before a caller with a password is.
ServerFirst ==
  link[Client] \in Password /\ (auth[Client] \/ HasTransfer(chan[Client])) => auth[Server]

\* A password that was asked for is known to both.
Agreed ==
  /\ \A n \in Side : auth[n] /\ link[n] \in Password => link[Other(n)] = link[n]
  /\ active[Client] /\ link[Client] \in Password => auth[Client]

\* What the loop's condition says at its head and after it.
LoopPoint ==
  \A n \in Side :
    /\ pc[n] = "greet" => ~adr[n]
    /\ pc[n] = "loop" /\ adr[n] => link[n] \in Password /\ ~auth[n]
    /\ Talking(n) => adr[n] /\ auth[n]

IInv ==
  /\ TypeOK
  /\ PasswordFrames
  /\ AdrFirst
  /\ OkMeansMatch
  /\ OkFirst
  /\ ServerFirst
  /\ Agreed
  /\ LoopPoint
  /\ NoTransferFrameDropped

-----------------------------------------------------------------------------
(* Streams.                                                                *)

\* The other side of each side.
LEMMA Sides ==
  /\ Client # Server /\ Side = {Client, Server}
  /\ Other(Client) = Server /\ Other(Server) = Client
BY SideAssumption DEF Side, Other

\* The frames of a stream that was appended to.
LEMMA ElemsConcat ==
  ASSUME NEW S, NEW s \in Seq(S), NEW u \in Seq(S)
  PROVE  Elems(s \o u) = Elems(s) \cup Elems(u)
<1> DEFINE w == s \o u
<1>1. /\ w \in Seq(S) /\ Len(w) = Len(s) + Len(u) /\ Len(s) \in Nat /\ Len(u) \in Nat
      /\ \A i \in 1 .. Len(s) + Len(u) : w[i] = IF i <= Len(s) THEN s[i] ELSE u[i - Len(s)]
  BY ConcatProperties, LenProperties
<1> HIDE DEF w
<1>2. ASSUME NEW i \in 1 .. Len(w) PROVE w[i] \in Elems(s) \cup Elems(u)
  <2>1. CASE i <= Len(s)
    BY <1>1, <2>1 DEF Elems
  <2>2. CASE i > Len(s)
    <3>1. i - Len(s) \in 1 .. Len(u) /\ w[i] = u[i - Len(s)]
      BY <1>1, <2>2
    <3> QED BY <3>1 DEF Elems
  <2> QED BY <1>1, <2>1, <2>2
<1>3. ASSUME NEW i \in 1 .. Len(s) PROVE s[i] \in Elems(w)
  <2>1. i \in 1 .. Len(w) /\ w[i] = s[i]
    BY <1>1
  <2> QED BY <2>1 DEF Elems
<1>4. ASSUME NEW i \in 1 .. Len(u) PROVE u[i] \in Elems(w)
  <2> DEFINE k == i + Len(s)
  <2>1. k \in 1 .. Len(s) + Len(u) /\ ~(k <= Len(s)) /\ k - Len(s) = i
    BY <1>1
  <2> HIDE DEF k
  <2>2. k \in 1 .. Len(w) /\ w[k] = u[i]
    BY <1>1, <2>1
  <2> QED BY <2>2 DEF Elems
<1>5. Elems(w) \subseteq Elems(s) \cup Elems(u)
  BY <1>2 DEF Elems
<1>6. Elems(s) \subseteq Elems(w) /\ Elems(u) \subseteq Elems(w)
  BY <1>3, <1>4 DEF Elems
<1> QED BY <1>5, <1>6 DEF w

\* The frames of a stream that was read from.
LEMMA ElemsTail ==
  ASSUME NEW S, NEW s \in Seq(S), s # <<>>
  PROVE  Elems(s) = {Head(s)} \cup Elems(Tail(s))
<1>1. /\ Len(s) \in Nat \ {0} /\ Len(Tail(s)) = Len(s) - 1
      /\ \A i \in 1 .. Len(Tail(s)) : Tail(s)[i] = s[i + 1]
      /\ Head(s) = s[1]
  BY HeadTailProperties, EmptySeq
<1>2. ASSUME NEW i \in 1 .. Len(s) PROVE s[i] \in {Head(s)} \cup Elems(Tail(s))
  <2>1. CASE i # 1
    <3>1. i - 1 \in 1 .. Len(Tail(s)) /\ Tail(s)[i - 1] = s[i]
      BY <1>1, <2>1
    <3> QED BY <3>1 DEF Elems
  <2> QED BY <1>1, <2>1
<1>3. Head(s) \in Elems(s) /\ Elems(Tail(s)) \subseteq Elems(s)
  BY <1>1 DEF Elems
<1> QED BY <1>2, <1>3 DEF Elems

\* Appending keeps the order when the frame waited for is there, or none of
\* those that wait is appended.
LEMMA AfterConcat ==
  ASSUME NEW S, NEW s \in Seq(S), NEW u \in Seq(S), NEW first, NEW types,
         After(s, first, types),
         Has(s, {first}) \/ ~Has(u, types)
  PROVE  After(s \o u, first, types)
<1> DEFINE w == s \o u
<1>1. /\ w \in Seq(S) /\ Len(w) = Len(s) + Len(u) /\ Len(s) \in Nat /\ Len(u) \in Nat
      /\ \A i \in 1 .. Len(s) + Len(u) : w[i] = IF i <= Len(s) THEN s[i] ELSE u[i - Len(s)]
  BY ConcatProperties, LenProperties
<1> HIDE DEF w
<1> SUFFICES ASSUME NEW i \in 1 .. Len(w), w[i].t \in types
             PROVE  \E j \in 1 .. i - 1 : w[j].t = first
  BY DEF After, w
<1>2. CASE i <= Len(s)
  <2>1. i \in 1 .. Len(s) /\ s[i].t \in types
    BY <1>1, <1>2
  <2>2. PICK j \in 1 .. i - 1 : s[j].t = first
    BY <2>1 DEF After
  <2> QED BY <1>1, <1>2, <2>2
<1>3. CASE i > Len(s)
  <2>1. i - Len(s) \in 1 .. Len(u) /\ u[i - Len(s)].t \in types
    BY <1>1, <1>3
  <2>2. Has(s, {first})
    BY <2>1 DEF Has, Elems
  <2>3. PICK j \in 1 .. Len(s) : s[j].t = first
    BY <2>2 DEF Has, Elems
  <2> QED BY <1>1, <1>3, <2>3
<1> QED BY <1>1, <1>2, <1>3

\* The first frame waits for nothing, and reading another one than the frame
\* waited for keeps the order.
LEMMA AfterTail ==
  ASSUME NEW S, NEW s \in Seq(S), s # <<>>, NEW first, NEW types,
         After(s, first, types)
  PROVE  /\ Head(s).t \notin types
         /\ Head(s).t # first => After(Tail(s), first, types)
<1>1. /\ Len(s) \in Nat \ {0} /\ Len(Tail(s)) = Len(s) - 1
      /\ \A i \in 1 .. Len(Tail(s)) : Tail(s)[i] = s[i + 1]
      /\ Head(s) = s[1]
  BY HeadTailProperties, EmptySeq
<1>2. Head(s).t \notin types
  BY <1>1 DEF After
<1>3. ASSUME Head(s).t # first, NEW i \in 1 .. Len(Tail(s)), Tail(s)[i].t \in types
      PROVE  \E j \in 1 .. i - 1 : Tail(s)[j].t = first
  <2>1. i + 1 \in 1 .. Len(s) /\ s[i + 1].t \in types
    BY <1>1, <1>3
  <2>2. PICK j \in 1 .. i : s[j].t = first
    BY <2>1 DEF After
  <2>3. j # 1
    BY <1>1, <1>3, <2>2
  <2>4. j - 1 \in 1 .. i - 1 /\ Tail(s)[j - 1].t = first
    BY <1>1, <2>2, <2>3
  <2> QED BY <2>4
<1> QED BY <1>2, <1>3 DEF After

\* The empty stream, and no answer.
LEMMA NoFrame == <<>> \in Seq(Frame) /\ Len(<<>>) = 0 /\ Elems(<<>>) = {}
BY EmptySeq DEF Elems

\* What an answer of one frame holds.
LEMMA OneFrame ==
  ASSUME NEW f
  PROVE  /\ Elems(<<f>>) = {f}
         /\ f \in Frame => <<f>> \in Seq(Frame)
BY DEF Elems

\* The frames without arguments.
LEMMA Plain ==
  /\ \A t \in {"OPT", "NUL", "ADR", "OK", "ERR", "FILE", "DATA", "EOB"} :
       Msg(t) \in Frame /\ Msg(t).t = t
  /\ \A t \in Transfer : Msg(t) \in TransferFrame
BY DEF Msg, Frame, TransferFrame, Transfer

\* The streams after n read a frame and answered.
LEMMA StreamsAfterRead ==
  ASSUME TypeOK, NEW n \in Side, NEW ans \in Seq(Frame),
         chan[Other(n)] # <<>>, Exchange(n, ans)
  PROVE  /\ Other(n) \in Side /\ Other(n) # n
         /\ chan' \in [Side -> Seq(Frame)]
         /\ chan'[n] = chan[n] \o ans
         /\ chan'[Other(n)] = Tail(chan[Other(n)])
         /\ Head(chan[Other(n)]) \in Frame
         /\ Elems(chan'[n]) = Elems(chan[n]) \cup Elems(ans)
         /\ Elems(chan[Other(n)]) = {Head(chan[Other(n)])} \cup Elems(chan'[Other(n)])
<1> DEFINE m == Other(n)
<1>1. m \in Side /\ m # n
  BY Sides
<1>2. chan \in [Side -> Seq(Frame)] /\ chan[n] \in Seq(Frame) /\ chan[m] \in Seq(Frame)
  BY <1>1 DEF TypeOK
<1>3. chan' = [chan EXCEPT ![m] = Tail(chan[m]), ![n] = chan[n] \o ans]
  BY <1>1, <1>2 DEF Exchange
<1>4. /\ chan[n] \o ans \in Seq(Frame) /\ Tail(chan[m]) \in Seq(Frame)
      /\ Head(chan[m]) \in Frame
  BY <1>2, HeadTailProperties, ConcatProperties
<1>5. /\ Elems(chan[n] \o ans) = Elems(chan[n]) \cup Elems(ans)
      /\ Elems(chan[m]) = {Head(chan[m])} \cup Elems(Tail(chan[m]))
  BY <1>2, ElemsConcat, ElemsTail
<1> HIDE DEF m
<1>6. /\ chan' \in [Side -> Seq(Frame)]
      /\ chan'[n] = chan[n] \o ans
      /\ chan'[m] = Tail(chan[m])
  BY <1>1, <1>2, <1>3, <1>4
<1> QED BY <1>1, <1>4, <1>5, <1>6 DEF m

\* What a stream that grew by u holds.
LEMMA HasConcat ==
  ASSUME NEW s, NEW u, NEW w, Elems(w) = Elems(s) \cup Elems(u), NEW types
  PROVE  Has(w, types) <=> Has(s, types) \/ Has(u, types)
BY DEF Has

\* What a stream that lost its head h held.
LEMMA HasTail ==
  ASSUME NEW s, NEW h, NEW w, Elems(s) = {h} \cup Elems(w), NEW types
  PROVE  Has(s, types) <=> h.t \in types \/ Has(w, types)
BY DEF Has

-----------------------------------------------------------------------------
(* Steps.                                                                  *)

\* The stream conjuncts after a side read a frame of the handshake or of the
\* transfer and answered, with what they ask of each handler: it sets what
\* the frame stands for, and it answers M_OK and M_PWD only for cause.
LEMMA ReadKeepsStreams ==
  ASSUME IInv, NEW n \in Side, NEW ans \in Seq(Frame),
         chan[Other(n)] # <<>>, Exchange(n, ans), UNCHANGED config,
         pc[n] # "greet",
         \A k \in Side : pc'[k] # "greet" => pc[k] # "greet",
         \A k \in Side : (adr[k] => adr'[k]) /\ (auth[k] => auth'[k]) /\ (pwdSent[k] => pwdSent'[k]),
         ~HasTransfer(ans),
         \A f \in Elems(ans) : OwnPassword(n, f)',
         Head(chan[Other(n)]).t = "ADR" => adr'[n],
         n = Client /\ Head(chan[Other(n)]).t = "OK" => auth'[Client],
         HasOk(ans) /\ n = Server =>
           link[Server] \in Password /\ link[Client] = link[Server] /\ pwdSent[Client] /\ auth'[Server],
         auth'[Server] /\ link[Server] \in Password => auth[Server] \/ (HasOk(ans) /\ n = Server),
         auth'[Client] /\ link[Client] \in Password => auth[Client] \/ auth[Server]
  PROVE  /\ PasswordFrames' /\ AdrFirst' /\ OkMeansMatch' /\ OkFirst' /\ ServerFirst'
<1> DEFINE m == Other(n)
           h == Head(chan[m])
<1> USE DEF IInv
<1>1. /\ m \in Side /\ m # n
      /\ chan' \in [Side -> Seq(Frame)]
      /\ chan'[n] = chan[n] \o ans
      /\ chan'[m] = Tail(chan[m])
      /\ Elems(chan'[n]) = Elems(chan[n]) \cup Elems(ans)
      /\ Elems(chan[m]) = {h} \cup Elems(chan'[m])
  BY StreamsAfterRead
<1>2. /\ chan[n] \in Seq(Frame) /\ chan[m] \in Seq(Frame) /\ chan[m] # <<>>
  BY <1>1 DEF TypeOK
<1>3. link' = link
  BY DEF config
<1>4. \A types : Has(chan'[n], types) <=> Has(chan[n], types) \/ Has(ans, types)
  BY <1>1, HasConcat
<1>5. \A types : Has(chan[m], types) <=> h.t \in types \/ Has(chan'[m], types)
  BY <1>1, HasTail
<1>6. Other(m) = n /\ Side = {n, m}
  BY <1>1, Sides
<1>7. ASSUME NEW first, NEW types,
             After(chan[n], first, types), Has(chan[n], {first}) \/ ~Has(ans, types)
      PROVE  After(chan'[n], first, types)
  <2>1. After(chan[n] \o ans, first, types)
    BY <1>2, <1>7, AfterConcat
  <2> QED BY <1>1, <2>1
<1>8. \A first, types : After(chan[m], first, types) =>
        h.t \notin types /\ (h.t # first => After(chan'[m], first, types))
  BY <1>1, <1>2, AfterTail
<1> HIDE DEF m, h
<1>9. PasswordFrames'
  <2>1. ASSUME NEW k \in Side, NEW f \in Elems(chan[k]) PROVE OwnPassword(k, f)'
    <3>1. OwnPassword(k, f)
      BY DEF PasswordFrames
    <3> QED BY <3>1, <1>3, Sides DEF OwnPassword
  <2>2. \A f \in Elems(chan'[n]) : OwnPassword(n, f)'
    BY <2>1, <1>1
  <2>3. \A f \in Elems(chan'[m]) : OwnPassword(m, f)'
    BY <2>1, <1>1
  <2> QED BY <2>2, <2>3, <1>6 DEF PasswordFrames
<1>10. AdrFirst'
  <2>1. /\ adr'[m] \/ AdrAhead(chan'[n])
        /\ pc'[n] # "greet" => adr'[m] \/ HasAdr(chan'[n])
    <3>1. /\ adr[m] \/ AdrAhead(chan[n])
          /\ adr[m] \/ HasAdr(chan[n])
      BY <1>6 DEF AdrFirst, m
    <3>2. CASE adr[m]
      BY <3>2, <1>1
    <3>3. CASE AdrAhead(chan[n]) /\ HasAdr(chan[n])
      BY <3>3, <1>4, <1>7 DEF AdrAhead, HasAdr
    <3> QED BY <3>1, <3>2, <3>3
  <2>2. /\ adr'[n] \/ AdrAhead(chan'[m])
        /\ pc'[m] # "greet" => adr'[n] \/ HasAdr(chan'[m])
    <3>1. /\ adr[n] \/ AdrAhead(chan[m])
          /\ pc[m] # "greet" => adr[n] \/ HasAdr(chan[m])
      BY <1>1, <1>6 DEF AdrFirst
    <3>2. CASE adr[n]
      BY <3>2
    <3>3. CASE h.t = "ADR"
      BY <3>3 DEF h, m
    <3>4. CASE h.t # "ADR" /\ ~adr[n]
      BY <3>1, <3>4, <1>1, <1>5, <1>8 DEF AdrAhead, HasAdr
    <3> QED BY <3>2, <3>3, <3>4
  <2> QED BY <2>1, <2>2, <1>6 DEF AdrFirst, m
<1>11. HasOk(chan'[Server]) => HasOk(chan[Server]) \/ (HasOk(ans) /\ n = Server)
  BY <1>4, <1>5, <1>6, Sides DEF HasOk
<1>12. OkMeansMatch'
  BY <1>11, <1>3, Sides DEF OkMeansMatch
<1>13. OkFirst'
  <2>1. ASSUME link[Client] \in Password, link[Client] = link[Server]
        PROVE  auth'[Client] \/ OkAhead(chan'[Server])
    <3>1. auth[Client] \/ OkAhead(chan[Server])
      BY <2>1 DEF OkFirst
    <3>2. CASE auth[Client]
      BY <3>2, Sides
    <3>3. CASE OkAhead(chan[Server]) /\ n = Server
      BY <3>3, <1>7 DEF OkAhead, HasTransfer
    <3>4. CASE OkAhead(chan[Server]) /\ n = Client
      <4>1. m = Server
        BY <3>4, Sides DEF m
      <4>2. CASE h.t = "OK"
        BY <3>4, <4>2 DEF h, m
      <4>3. CASE h.t # "OK"
        BY <3>4, <4>1, <4>3, <1>8 DEF OkAhead
      <4> QED BY <4>2, <4>3
    <3> QED BY <3>1, <3>2, <3>3, <3>4, Sides
  <2>2. ASSUME auth'[Server], link[Server] \in Password
        PROVE  auth'[Client] \/ HasOk(chan'[Server])
    <3>1. CASE HasOk(ans) /\ n = Server
      BY <3>1, <1>4 DEF HasOk
    <3>2. CASE auth[Server]
      <4>1. auth[Client] \/ HasOk(chan[Server])
        BY <2>2, <3>2 DEF OkFirst
      <4>2. CASE auth[Client]
        BY <4>2, Sides
      <4>3. CASE HasOk(chan[Server]) /\ n = Server
        BY <4>3, <1>4 DEF HasOk
      <4>4. CASE HasOk(chan[Server]) /\ n = Client
        <5>1. m = Server
          BY <4>4, Sides DEF m
        <5>2. h.t = "OK" \/ HasOk(chan'[Server])
          BY <4>4, <5>1, <1>5 DEF HasOk
        <5> QED BY <4>4, <5>2 DEF h, m
      <4> QED BY <4>1, <4>2, <4>3, <4>4, Sides
    <3> QED BY <2>2, <3>1, <3>2
  <2> QED BY <2>1, <2>2, <1>3 DEF OkFirst
<1>14. ServerFirst'
  <2>1. HasTransfer(chan'[Client]) => HasTransfer(chan[Client])
    BY <1>4, <1>5, <1>6, Sides DEF HasTransfer
  <2> QED BY <2>1, <1>3, Sides DEF ServerFirst
<1> QED BY <1>9, <1>10, <1>12, <1>13, <1>14

\* What the handlers answer.
LEMMA Answers ==
  ASSUME NEW n \in Side
  PROVE  /\ PasswordIfOwed(n) \in Seq(Frame)
         /\ ~HasTransfer(PasswordIfOwed(n)) /\ ~HasOk(PasswordIfOwed(n))
         /\ \A f \in Elems(PasswordIfOwed(n)) :
              OwesPassword(n) /\ f.t = "PWD" /\ f.password = link[n]
         /\ <<>> \in Seq(Frame) /\ Elems(<<>>) = {}
         /\ ~HasTransfer(<<>>) /\ ~HasOk(<<>>)
         /\ <<Msg("OK")>> \in Seq(Frame) /\ Elems(<<Msg("OK")>>) = {Msg("OK")}
         /\ ~HasTransfer(<<Msg("OK")>>) /\ HasOk(<<Msg("OK")>>)
         /\ <<Msg("ERR")>> \in Seq(Frame) /\ Elems(<<Msg("ERR")>>) = {Msg("ERR")}
         /\ ~HasTransfer(<<Msg("ERR")>>) /\ ~HasOk(<<Msg("ERR")>>)
<1>1. <<>> \in Seq(Frame) /\ Elems(<<>>) = {} /\ ~HasTransfer(<<>>) /\ ~HasOk(<<>>)
  BY NoFrame DEF HasTransfer, HasOk, Has
<1>2. /\ <<Msg("OK")>> \in Seq(Frame) /\ Elems(<<Msg("OK")>>) = {Msg("OK")}
      /\ <<Msg("ERR")>> \in Seq(Frame) /\ Elems(<<Msg("ERR")>>) = {Msg("ERR")}
  <2>1. Msg("OK") \in Frame /\ Msg("ERR") \in Frame
    BY Plain
  <2> QED BY <2>1, OneFrame
<1>3. /\ ~HasTransfer(<<Msg("OK")>>) /\ HasOk(<<Msg("OK")>>)
      /\ ~HasTransfer(<<Msg("ERR")>>) /\ ~HasOk(<<Msg("ERR")>>)
  BY <1>2 DEF HasTransfer, HasOk, Has, Msg, Transfer
<1>4. CASE OwesPassword(n)
  <2> DEFINE f == [t |-> "PWD", password |-> link[n]]
  <2>1. f \in Frame /\ f.t = "PWD" /\ f.password = link[n]
    BY <1>4 DEF OwesPassword, Frame
  <2>2. PasswordIfOwed(n) = <<f>>
    BY <1>4 DEF PasswordIfOwed
  <2> HIDE DEF f
  <2>3. PasswordIfOwed(n) \in Seq(Frame) /\ Elems(PasswordIfOwed(n)) = {f}
    BY <2>1, <2>2, OneFrame
  <2>4. ~HasTransfer(PasswordIfOwed(n)) /\ ~HasOk(PasswordIfOwed(n))
    BY <2>1, <2>3 DEF HasTransfer, HasOk, Has, Transfer
  <2> QED BY <1>1, <1>2, <1>3, <1>4, <2>1, <2>3, <2>4
<1>5. CASE ~OwesPassword(n)
  BY <1>1, <1>2, <1>3, <1>5 DEF PasswordIfOwed
<1> QED BY <1>4, <1>5

\* The initial states.
LEMMA InitIInv == Init => IInv
<1> SUFFICES ASSUME Init PROVE IInv
  OBVIOUS
<1>1. \A n \in Side : chan[n] = <<>> /\ Elems(chan[n]) = {} /\ Len(chan[n]) = 0
  BY NoFrame DEF Init
<1>2. \A n \in Side : \A types : ~Has(chan[n], types)
  BY <1>1 DEF Has
<1>3. \A n \in Side : AdrAhead(chan[n]) /\ OkAhead(chan[n])
  BY <1>1 DEF AdrAhead, OkAhead, After
<1>4. \A n \in Side : Batch(n) \in Seq(TransferFrame)
  <2>1. /\ Msg("FILE") \in TransferFrame
        /\ Msg("DATA") \in TransferFrame
        /\ Msg("EOB") \in TransferFrame
    BY Plain DEF Transfer
  <2> QED BY <2>1 DEF Batch
<1>5. TypeOK
  BY <1>4 DEF Init, TypeOK
<1>6. PasswordFrames /\ AdrFirst
  BY <1>1, <1>3 DEF PasswordFrames, AdrFirst, Init
<1>7. OkMeansMatch /\ OkFirst /\ ServerFirst
  BY <1>2, <1>3, Sides DEF OkMeansMatch, OkFirst, ServerFirst, HasOk, HasTransfer, Init
<1>8. Agreed /\ LoopPoint /\ NoTransferFrameDropped
  BY Sides DEF Agreed, LoopPoint, NoTransferFrameDropped, Talking, Init
<1> QED BY <1>5, <1>6, <1>7, <1>8 DEF IInv

\* sendHandshake puts M_ADR into an empty loop's stream, and no M_OK.
LEMMA GreetKeepsIInv ==
  ASSUME IInv, NEW n \in Side, Greet(n)
  PROVE  IInv'
<1> USE DEF IInv
<1> DEFINE m == Other(n)
           opt == IF n = Server /\ cram THEN <<Msg("OPT")>> ELSE <<>>
           rest == <<Msg("NUL"), Msg("ADR")>>
           ans == Greeting(n)
<1>1. m \in Side /\ m # n /\ Other(m) = n /\ Side = {n, m}
  BY Sides
<1>2. /\ opt \in Seq(Frame) /\ rest \in Seq(Frame)
      /\ \A f \in Elems(opt) : f = Msg("OPT")
      /\ Elems(rest) = {Msg("NUL"), Msg("ADR")}
  <2>1. Msg("NUL") \in Frame /\ Msg("ADR") \in Frame /\ Msg("OPT") \in Frame
    BY Plain
  <2>2. rest \in Seq(Frame) /\ Len(rest) = 2 /\ rest[1] = Msg("NUL") /\ rest[2] = Msg("ADR")
    BY <2>1
  <2>3. Elems(rest) = {Msg("NUL"), Msg("ADR")}
    BY <2>2 DEF Elems
  <2>4. opt \in Seq(Frame) /\ \A f \in Elems(opt) : f = Msg("OPT")
    BY <2>1, NoFrame, OneFrame
  <2> QED BY <2>2, <2>3, <2>4
<1> HIDE DEF opt, rest
<1>3. ans \in Seq(Frame) /\ Elems(ans) = Elems(opt) \cup {Msg("NUL"), Msg("ADR")}
  <2>1. ans = opt \o rest
    BY DEF Greeting, opt, rest
  <2> QED BY <1>2, <2>1, ElemsConcat, ConcatProperties
<1>4. chan' = [chan EXCEPT ![n] = chan[n] \o ans]
  BY DEF Greet
<1>5. /\ HasAdr(ans) /\ ~HasOk(ans) /\ ~HasLate(ans)
      /\ \A f \in Elems(ans) : f.t # "PWD"
  BY <1>2, <1>3, Plain DEF HasAdr, HasOk, HasLate, Has, Transfer
<1> HIDE DEF m, ans
<1>6. /\ chan' \in [Side -> Seq(Frame)]
      /\ chan'[n] = chan[n] \o ans
      /\ chan'[m] = chan[m]
      /\ Elems(chan'[n]) = Elems(chan[n]) \cup Elems(ans)
      /\ chan[n] \in Seq(Frame)
  <2>1. chan \in [Side -> Seq(Frame)] /\ chan[n] \in Seq(Frame)
    BY DEF TypeOK
  <2>2. /\ chan[n] \o ans \in Seq(Frame)
        /\ Elems(chan[n] \o ans) = Elems(chan[n]) \cup Elems(ans)
    BY <1>3, <2>1, ElemsConcat, ConcatProperties
  <2> QED BY <1>1, <1>4, <2>1, <2>2
<1>7. \A types : Has(chan'[n], types) <=> Has(chan[n], types) \/ Has(ans, types)
  BY <1>6, HasConcat
<1>8. ~HasTransfer(ans)
  BY <1>5 DEF HasTransfer, HasLate, Has
<1>9. ASSUME NEW first, NEW types, After(chan[n], first, types), ~Has(ans, types)
      PROVE  After(chan'[n], first, types)
  <2>1. After(chan[n] \o ans, first, types)
    BY <1>3, <1>6, <1>9, AfterConcat
  <2> QED BY <1>6, <2>1
<1>10. UNCHANGED <<config, adr, auth, pwdSent, active, transfer>>
       /\ pc[n] = "greet" /\ pc' = [pc EXCEPT ![n] = "loop"]
  BY DEF Greet
<1>11. TypeOK'
  BY <1>6, <1>10 DEF TypeOK, config, transfer
<1>12. PasswordFrames'
  BY <1>1, <1>5, <1>6, <1>10 DEF PasswordFrames, OwnPassword, config
<1>13. AdrFirst'
  <2>1. adr'[m] \/ AdrAhead(chan'[n])
    <3>1. adr[m] \/ AdrAhead(chan[n])
      BY <1>1 DEF AdrFirst, m
    <3>2. AdrAhead(chan[n]) => AdrAhead(chan'[n])
      BY <1>5, <1>9 DEF AdrAhead, HasLate
    <3> QED BY <1>10, <3>1, <3>2
  <2>2. HasAdr(chan'[n])
    BY <1>5, <1>7 DEF HasAdr
  <2>3. pc'[m] = pc[m]
    BY <1>1, <1>10 DEF TypeOK
  <2> QED BY <1>1, <1>6, <1>10, <2>1, <2>2, <2>3 DEF AdrFirst, m
<1>14. /\ HasOk(chan'[Server]) <=> HasOk(chan[Server])
       /\ HasTransfer(chan'[Client]) <=> HasTransfer(chan[Client])
       /\ OkAhead(chan[Server]) => OkAhead(chan'[Server])
  BY <1>1, <1>5, <1>6, <1>7, <1>8, <1>9, Sides DEF HasOk, HasTransfer, OkAhead
<1>15. OkMeansMatch' /\ OkFirst' /\ ServerFirst'
  BY <1>10, <1>14 DEF OkMeansMatch, OkFirst, ServerFirst, config
<1>16. Agreed' /\ LoopPoint' /\ NoTransferFrameDropped'
  BY <1>1, <1>10 DEF Agreed, LoopPoint, NoTransferFrameDropped, Matched, Talking, config,
     transfer, TypeOK
<1> QED BY <1>11, <1>12, <1>13, <1>15, <1>16

\* M_NUL changes nothing the loop's condition looks at.
LEMMA HandleNulKeepsIInv ==
  ASSUME IInv, NEW n \in Side, HandleNul(n)
  PROVE  IInv'
<1> USE DEF IInv
<1>1. PICK ans \in Seq(Frame) :
        /\ chan[Other(n)] # <<>> /\ Exchange(n, ans)
        /\ Head(chan[Other(n)]).t \in {"OPT", "NUL"}
        /\ ~HasTransfer(ans) /\ ~HasOk(ans)
        /\ \A f \in Elems(ans) : OwesPassword(n) /\ f.t = "PWD" /\ f.password = link[n]
        /\ OwesPassword(n) /\ ans # <<>> => pwdSent'[n]
        /\ pwdSent' \in [Side -> BOOLEAN]
        /\ \A k \in Side : pwdSent[k] => pwdSent'[k]
  <2>1. CASE InLoop(n, "OPT")
    <3>1. /\ Exchange(n, PasswordIfOwed(n))
          /\ pwdSent' = [pwdSent EXCEPT ![n] = pwdSent[n] \/ OwesPassword(n)]
      BY <2>1 DEF HandleNul, InLoop, Reading, TypeOK
    <3>2. pwdSent' \in [Side -> BOOLEAN] /\ (OwesPassword(n) => pwdSent'[n])
          /\ \A k \in Side : pwdSent[k] => pwdSent'[k]
      BY <3>1 DEF TypeOK
    <3> QED BY <2>1, <3>1, <3>2, Answers DEF InLoop, Reading
  <2>2. CASE InLoop(n, "NUL")
    BY <2>2, Answers DEF HandleNul, InLoop, Reading, TypeOK
  <2> QED BY <2>1, <2>2 DEF HandleNul
<1>2. pc[n] = "loop" /\ UNCHANGED <<config, pc, adr, auth, active, transfer>>
  BY DEF HandleNul, InLoop
<1>3. \A f \in Elems(ans) : OwnPassword(n, f)'
  <2>1. ASSUME NEW f \in Elems(ans) PROVE ans # <<>>
    BY NoFrame
  <2> QED BY <1>1, <1>2, <2>1, Sides DEF OwnPassword, OwesPassword, config
<1>4. PasswordFrames' /\ AdrFirst' /\ OkMeansMatch' /\ OkFirst' /\ ServerFirst'
  BY <1>1, <1>2, <1>3, Sides, ReadKeepsStreams
<1>5. TypeOK'
  BY <1>1, <1>2, StreamsAfterRead DEF TypeOK, config, transfer
<1>6. Agreed' /\ LoopPoint' /\ NoTransferFrameDropped'
  BY <1>2 DEF Agreed, LoopPoint, NoTransferFrameDropped, Matched, Talking, config, transfer
<1> QED BY <1>4, <1>5, <1>6

\* M_ADR ends the authentication only where no password is asked for.
LEMMA HandleAdrKeepsIInv ==
  ASSUME IInv, NEW n \in Side, HandleAdr(n)
  PROVE  IInv'
<1> USE DEF IInv
<1> DEFINE ans == PasswordIfOwed(n)
<1>1. /\ pc[n] = "loop" /\ chan[Other(n)] # <<>> /\ Exchange(n, ans)
      /\ Head(chan[Other(n)]).t = "ADR"
      /\ pwdSent' = [pwdSent EXCEPT ![n] = pwdSent[n] \/ OwesPassword(n)]
      /\ adr' = [adr EXCEPT ![n] = TRUE]
      /\ auth' = [auth EXCEPT ![n] = auth[n] \/ link[n] \notin Password]
      /\ active' = [active EXCEPT ![n] = active[n] \/ link[n] = NoPassword]
      /\ pc' = [pc EXCEPT ![n] = IF auth[n] \/ link[n] \notin Password THEN "session" ELSE "loop"]
      /\ UNCHANGED <<config, transfer>>
  BY DEF HandleAdr, InLoop, Reading, LoopUntil, TypeOK
<1>2. /\ pwdSent' \in [Side -> BOOLEAN] /\ adr' \in [Side -> BOOLEAN]
      /\ auth' \in [Side -> BOOLEAN] /\ active' \in [Side -> BOOLEAN]
      /\ pc' \in [Side -> {"greet", "loop", "session", "done", "failed"}]
      /\ adr'[n] /\ (OwesPassword(n) => pwdSent'[n])
      /\ \A k \in Side : (adr[k] => adr'[k]) /\ (auth[k] => auth'[k]) /\ (pwdSent[k] => pwdSent'[k])
      /\ \A k \in Side : link[k] \in Password => (auth'[k] <=> auth[k])
      /\ \A k \in Side : link[k] \in Password => (active'[k] <=> active[k])
      /\ \A k \in Side : k # n => pc'[k] = pc[k] /\ adr'[k] = adr[k] /\ auth'[k] = auth[k]
      /\ pc'[n] # "greet"
  BY <1>1, SideAssumption DEF TypeOK
<1>3. ans \in Seq(Frame) /\ ~HasTransfer(ans) /\ ~HasOk(ans)
      /\ \A f \in Elems(ans) : OwesPassword(n) /\ f.t = "PWD" /\ f.password = link[n]
  BY Answers
<1> HIDE DEF ans
<1>4. \A f \in Elems(ans) : OwnPassword(n, f)'
  BY <1>1, <1>2, <1>3 DEF OwnPassword, OwesPassword, config
<1>5. PasswordFrames' /\ AdrFirst' /\ OkMeansMatch' /\ OkFirst' /\ ServerFirst'
  BY <1>1, <1>2, <1>3, <1>4, Sides, ReadKeepsStreams
<1>6. TypeOK'
  BY <1>1, <1>2, <1>3, StreamsAfterRead DEF TypeOK, config, transfer
<1>7. Agreed'
  BY <1>1, <1>2, Sides DEF Agreed, config
<1>8. LoopPoint'
  <2>1. /\ pc'[n] = "loop" => link[n] \in Password /\ ~auth'[n]
        /\ pc'[n] = "session" => auth'[n]
        /\ pc'[n] \in {"loop", "session"}
    BY <1>1 DEF TypeOK
  <2> QED BY <1>1, <1>2, <2>1 DEF LoopPoint, Talking, config
<1>9. NoTransferFrameDropped'
  BY <1>1 DEF NoTransferFrameDropped, Matched, config, transfer
<1> QED BY <1>5, <1>6, <1>7, <1>8, <1>9

\* M_PWD is read by the answering side, after the caller's address, so it is
\* checked against the link's password.
LEMMA HandlePwdKeepsIInv ==
  ASSUME IInv, NEW n \in Side, HandlePwd(n)
  PROVE  IInv'
<1> USE DEF IInv
<1> DEFINE m == Other(n)
           h == Head(chan[m])
<1>1. /\ pc[n] = "loop" /\ chan[m] # <<>> /\ h.t = "PWD"
      /\ UNCHANGED <<config, adr, pwdSent, transfer>>
      /\ m \in Side /\ m # n /\ chan[m] \in Seq(Frame)
  BY Sides DEF HandlePwd, InLoop, Reading, TypeOK
<1>2. h \in Elems(chan[m])
  BY <1>1, ElemsTail
<1>3. n = Server /\ m = Client /\ h.password = link[Client] /\ pwdSent[Client]
  BY <1>1, <1>2, Sides DEF PasswordFrames, OwnPassword
<1>4. adr[Server]
  <2>1. AdrAhead(chan[m]) => h.t # "PWD"
    BY <1>1, AfterTail DEF AdrAhead, Transfer
  <2>2. adr[Other(m)] \/ AdrAhead(chan[m])
    BY <1>1 DEF AdrFirst
  <2> QED BY <1>1, <1>3, <2>1, <2>2, Sides
<1>5. link[Server] \in Password /\ ~auth[Server] /\ FindLink(Server) = link[Server]
  BY <1>1, <1>3, <1>4 DEF LoopPoint, FindLink
<1>6. CASE /\ FindLink(n) \in {Unknown, NoPassword, h.password}
           /\ Exchange(n, <<Msg("OK")>>)
           /\ auth' = [auth EXCEPT ![n] = TRUE]
           /\ active' = [active EXCEPT ![n] = active[n] \/ FindLink(n) # Unknown]
           /\ LoopUntil(n, adr[n], TRUE)
  <2>1. link[Client] = link[Server]
    BY <1>3, <1>5, <1>6, SideAssumption
  <2>2. /\ auth' \in [Side -> BOOLEAN] /\ auth'[Server] /\ auth'[Client] = auth[Client]
        /\ \A k \in Side : auth[k] => auth'[k]
        /\ active' \in [Side -> BOOLEAN] /\ active'[Client] = active[Client]
    BY <1>3, <1>6, Sides DEF TypeOK
  <2>3. /\ pc' = [pc EXCEPT ![Server] = "session"]
        /\ pc' \in [Side -> {"greet", "loop", "session", "done", "failed"}]
        /\ pc'[Server] = "session" /\ pc'[Client] = pc[Client]
    BY <1>3, <1>4, <1>6, Sides DEF LoopUntil, TypeOK
  <2>4. \A f \in Elems(<<Msg("OK")>>) : OwnPassword(n, f)'
    BY Answers, Plain DEF OwnPassword
  <2>5. PasswordFrames' /\ AdrFirst' /\ OkMeansMatch' /\ OkFirst' /\ ServerFirst'
    <3> DEFINE ans == <<Msg("OK")>>
    <3>1. ans \in Seq(Frame) /\ ~HasTransfer(ans) /\ HasOk(ans)
      BY Answers
    <3> HIDE DEF ans
    <3>2. Exchange(n, ans) /\ \A f \in Elems(ans) : OwnPassword(n, f)'
      BY <1>6, <2>4 DEF ans
    <3>3. \A k \in Side : pc'[k] # "greet" => pc[k] # "greet"
      BY <1>1, <1>3, <2>3, Sides
    <3> QED BY <1>1, <1>3, <1>5, <2>1, <2>2, <3>1, <3>2, <3>3, Sides, ReadKeepsStreams
  <2>6. TypeOK'
    BY <1>1, <1>6, <2>2, <2>3, Answers, StreamsAfterRead DEF TypeOK, config, transfer
  <2>7. Agreed'
    BY <1>1, <2>1, <2>2, Sides DEF Agreed, config
  <2>8. LoopPoint'
    BY <1>1, <1>4, <2>2, <2>3, Sides DEF LoopPoint, Talking, config
  <2>9. NoTransferFrameDropped'
    BY <1>1 DEF NoTransferFrameDropped, Matched, config, transfer
  <2> QED BY <2>5, <2>6, <2>7, <2>8, <2>9
<1>7. CASE /\ Exchange(n, <<Msg("ERR")>>)
           /\ pc' = [pc EXCEPT ![n] = "failed"]
           /\ UNCHANGED <<auth, active>>
  <2>1. /\ pc' \in [Side -> {"greet", "loop", "session", "done", "failed"}]
        /\ pc'[n] = "failed" /\ pc'[m] = pc[m]
        /\ \A k \in Side : pc'[k] # "greet" => pc[k] # "greet"
        /\ \A k \in Side : pc'[k] = pc[k] \/ pc'[k] = "failed"
    BY <1>1, <1>7 DEF TypeOK
  <2>2. PasswordFrames' /\ AdrFirst' /\ OkMeansMatch' /\ OkFirst' /\ ServerFirst'
    <3> DEFINE ans == <<Msg("ERR")>>
    <3>1. ans \in Seq(Frame) /\ ~HasTransfer(ans) /\ ~HasOk(ans)
      BY Answers
    <3>2. \A f \in Elems(ans) : OwnPassword(n, f)'
      BY Answers, Plain DEF OwnPassword
    <3> HIDE DEF ans
    <3>3. Exchange(n, ans)
      BY <1>7 DEF ans
    <3> QED BY <1>1, <1>3, <1>7, <2>1, <3>1, <3>2, <3>3, Sides, ReadKeepsStreams
  <2>3. TypeOK'
    BY <1>1, <1>7, <2>1, Answers, StreamsAfterRead DEF TypeOK, config, transfer
  <2>4. Agreed' /\ LoopPoint' /\ NoTransferFrameDropped'
    BY <1>1, <1>7, <2>1 DEF Agreed, LoopPoint, NoTransferFrameDropped, Matched, Talking,
       config, transfer
  <2> QED BY <2>2, <2>3, <2>4
<1> QED BY <1>6, <1>7 DEF HandlePwd, TypeOK

\* M_OK reaches the caller, and the answering side has sent it for its
\* link's password.
LEMMA HandleOkKeepsIInv ==
  ASSUME IInv, NEW n \in Side, HandleOk(n)
  PROVE  IInv'
<1> USE DEF IInv
<1> DEFINE m == Other(n)
           accepted == n = Client /\ pwdSent[n] /\ ~active[n]
<1>1. /\ pc[n] = "loop" /\ chan[m] # <<>> /\ Head(chan[m]).t = "OK"
      /\ Exchange(n, <<>>)
      /\ UNCHANGED <<config, adr, pwdSent, transfer>>
      /\ active' = [active EXCEPT ![n] = active[n] \/ accepted]
      /\ auth' = [auth EXCEPT ![n] = auth[n] \/ accepted]
      /\ pc' = [pc EXCEPT ![n] = IF adr[n] /\ (auth[n] \/ accepted) THEN "session" ELSE "loop"]
  BY DEF HandleOk, InLoop, Reading, LoopUntil, TypeOK
<1>2. /\ accepted \in BOOLEAN /\ (accepted => n = Client)
      /\ auth' \in [Side -> BOOLEAN] /\ active' \in [Side -> BOOLEAN]
      /\ auth'[n] = (auth[n] \/ accepted) /\ active'[n] = (active[n] \/ accepted)
      /\ \A k \in Side : k # n => auth'[k] = auth[k] /\ active'[k] = active[k] /\ pc'[k] = pc[k]
      /\ \A k \in Side : auth[k] => auth'[k]
      /\ pc' \in [Side -> {"greet", "loop", "session", "done", "failed"}]
      /\ pc'[n] \in {"loop", "session"}
      /\ pc'[n] = "session" => adr[n] /\ auth'[n]
      /\ pc'[n] = "loop" /\ adr[n] => ~auth'[n]
  BY <1>1 DEF TypeOK
<1>3. n = Client =>
        /\ link[Server] \in Password /\ link[Client] = link[Server]
        /\ pwdSent[Client] /\ auth[Server]
  <2>1. n = Client => HasOk(chan[Server])
    BY <1>1, Sides, ElemsTail DEF HasOk, Has, TypeOK
  <2> QED BY <2>1 DEF OkMeansMatch
<1>4. n = Client => auth'[Client]
  <2>1. n = Client /\ active[Client] => auth[Client]
    BY <1>3 DEF Agreed
  <2> QED BY <1>2, <1>3, <2>1
<1> HIDE DEF accepted
<1>5. PasswordFrames' /\ AdrFirst' /\ OkMeansMatch' /\ OkFirst' /\ ServerFirst'
  <2> DEFINE ans == <<>>
  <2>1. /\ ans \in Seq(Frame) /\ ~HasTransfer(ans) /\ ~HasOk(ans)
        /\ \A f \in Elems(ans) : OwnPassword(n, f)'
    BY Answers
  <2>2. Exchange(n, ans)
    BY <1>1
  <2> HIDE DEF ans
  <2>3. \A k \in Side : pc'[k] # "greet" => pc[k] # "greet"
    BY <1>1, <1>2
  <2> QED BY <1>1, <1>2, <1>3, <1>4, <2>1, <2>2, <2>3, Sides, ReadKeepsStreams
<1>6. TypeOK'
  BY <1>1, <1>2, Answers, StreamsAfterRead DEF TypeOK, config, transfer
<1>7. Agreed'
  BY <1>1, <1>2, <1>3, <1>4, Sides DEF Agreed, config
<1>8. LoopPoint'
  BY <1>1, <1>2 DEF LoopPoint, Talking, config
<1>9. NoTransferFrameDropped'
  BY <1>1 DEF NoTransferFrameDropped, Matched, config, transfer
<1> QED BY <1>5, <1>6, <1>7, <1>8, <1>9

\* With matching links no frame of the transfer is at the head of a stream
\* that a loop reads.
LEMMA LoopReadsNoTransfer ==
  ASSUME IInv, NEW n \in Side, pc[n] = "loop", chan[Other(n)] # <<>>,
         Head(chan[Other(n)]).t \in Transfer, Matched
  PROVE  FALSE
<1> USE DEF IInv
<1> DEFINE m == Other(n)
           h == Head(chan[m])
<1>1. m \in Side /\ Other(m) = n /\ chan[m] \in Seq(Frame) /\ chan[m] # <<>>
  BY Sides DEF TypeOK
<1>2. adr[n]
  <2>1. AdrAhead(chan[m]) => h.t \notin Transfer \cup {"PWD"}
    BY <1>1, AfterTail DEF AdrAhead
  <2> QED BY <1>1, <2>1 DEF AdrFirst
<1>3. link[n] \in Password /\ ~auth[n]
  BY <1>2 DEF LoopPoint
<1>4. link[Server] = link[Client] /\ link[Client] \in Password
  BY <1>3, Sides, SideAssumption DEF Matched
<1>5. CASE n = Client
  <2>1. OkAhead(chan[m]) => h.t \notin Transfer
    BY <1>1, AfterTail DEF OkAhead
  <2> QED BY <1>3, <1>4, <1>5, <2>1, Sides DEF OkFirst
<1>6. CASE n = Server
  <2>1. HasTransfer(chan[m])
    BY <1>1, ElemsTail DEF HasTransfer, Has
  <2> QED BY <1>3, <1>4, <1>6, <2>1, Sides DEF ServerFirst
<1> QED BY <1>5, <1>6, Sides

\* So a frame of the transfer is dropped only where the links differ.
LEMMA HandleTransferFrameKeepsIInv ==
  ASSUME IInv, NEW n \in Side, HandleTransferFrame(n)
  PROVE  IInv'
<1> USE DEF IInv
<1>1. PICK t \in Transfer :
        /\ pc[n] = "loop" /\ chan[Other(n)] # <<>> /\ Head(chan[Other(n)]).t = t
        /\ Exchange(n, <<>>)
        /\ dropped' = [dropped EXCEPT ![n] = Append(dropped[n], Msg(t))]
        /\ pc' = [pc EXCEPT ![n] = IF t = "DATA" THEN "failed" ELSE "loop"]
  BY DEF HandleTransferFrame, InLoop, Reading, Transfer, TypeOK
<1>2. UNCHANGED <<config, adr, auth, pwdSent, active, outbox, got>>
  BY DEF HandleTransferFrame
<1>3. /\ dropped' \in [Side -> Seq(TransferFrame)]
      /\ pc' \in [Side -> {"greet", "loop", "session", "done", "failed"}]
      /\ \A k \in Side : pc'[k] = pc[k] \/ pc'[k] = "failed"
  <2>1. Msg(t) \in TransferFrame
    BY Plain
  <2>2. dropped \in [Side -> Seq(TransferFrame)] /\ Append(dropped[n], Msg(t)) \in Seq(TransferFrame)
    BY <2>1, AppendProperties DEF TypeOK
  <2>3. dropped' \in [Side -> Seq(TransferFrame)]
    BY <1>1, <2>2
  <2> QED BY <1>1, <2>3 DEF TypeOK
<1>4. PasswordFrames' /\ AdrFirst' /\ OkMeansMatch' /\ OkFirst' /\ ServerFirst'
  <2> DEFINE ans == <<>>
  <2>1. /\ ans \in Seq(Frame) /\ ~HasTransfer(ans) /\ ~HasOk(ans)
        /\ \A f \in Elems(ans) : OwnPassword(n, f)'
    BY Answers
  <2>2. Exchange(n, ans)
    BY <1>1
  <2> HIDE DEF ans
  <2>3. \A k \in Side : pc'[k] # "greet" => pc[k] # "greet"
    BY <1>1, <1>3
  <2>4. Head(chan[Other(n)]).t \notin {"ADR", "OK"}
    BY <1>1 DEF Transfer
  <2> QED BY <1>1, <1>2, <2>1, <2>2, <2>3, <2>4, Sides, ReadKeepsStreams
<1>5. TypeOK'
  BY <1>1, <1>2, <1>3, Answers, StreamsAfterRead DEF TypeOK, config
<1>6. Agreed' /\ LoopPoint'
  BY <1>2, <1>3 DEF Agreed, LoopPoint, Talking, config
<1>7. NoTransferFrameDropped'
  <2>1. ~Matched
    BY <1>1, LoopReadsNoTransfer
  <2> QED BY <1>2, <2>1 DEF NoTransferFrameDropped, Matched, config
<1> QED BY <1>4, <1>5, <1>6, <1>7

-----------------------------------------------------------------------------
(* Steps of the transfer.                                                  *)

\* A side sends when its loop is over, so what its frames wait for was sent.
LEMMA SendNextKeepsIInv ==
  ASSUME IInv, NEW n \in Side, SendNext(n)
  PROVE  IInv'
<1> USE DEF IInv
<1> DEFINE m == Other(n)
           f == Head(outbox[n])
           ans == IF Over(m) THEN <<>> ELSE <<f>>
<1>1. /\ pc[n] = "session" /\ outbox[n] # <<>>
      /\ outbox' = [outbox EXCEPT ![n] = Tail(outbox[n])]
      /\ UNCHANGED <<config, pc, adr, auth, pwdSent, active, got, dropped>>
      /\ m \in Side /\ m # n /\ Other(m) = n /\ Side = {n, m}
  BY Sides DEF SendNext, TypeOK
<1>2. f \in TransferFrame /\ outbox' \in [Side -> Seq(TransferFrame)]
  <2>1. outbox \in [Side -> Seq(TransferFrame)] /\ outbox[n] \in Seq(TransferFrame)
    BY DEF TypeOK
  <2>2. f \in TransferFrame /\ Tail(outbox[n]) \in Seq(TransferFrame)
    BY <1>1, <2>1, HeadTailProperties
  <2> QED BY <1>1, <2>1, <2>2
<1>3. f \in Frame /\ f.t \in Transfer
  BY <1>2 DEF Frame, TransferFrame, Transfer
<1> HIDE DEF m, f
<1>4. /\ ans \in Seq(Frame) /\ ~HasOk(ans)
      /\ \A g \in Elems(ans) : g.t \in Transfer
  <2>1. CASE Over(m)
    BY <2>1, Answers
  <2>2. CASE ~Over(m)
    <3>1. ans = <<f>> /\ ans \in Seq(Frame) /\ Elems(ans) = {f}
      BY <1>3, <2>2, OneFrame
    <3> QED BY <1>3, <3>1 DEF HasOk, Has, Transfer
  <2> QED BY <2>1, <2>2
<1>5. /\ chan' \in [Side -> Seq(Frame)]
      /\ chan'[n] = chan[n] \o ans /\ chan'[m] = chan[m]
      /\ chan[n] \in Seq(Frame)
  <2>1. chan \in [Side -> Seq(Frame)] /\ chan[n] \in Seq(Frame) /\ chan[n] \o ans \in Seq(Frame)
    BY <1>4, ConcatProperties DEF TypeOK
  <2>2. CASE Over(m)
    <3>1. chan[n] \o ans = chan[n]
      BY <2>1, <2>2, ConcatEmptySeq
    <3>2. chan' = [chan EXCEPT ![n] = chan[n]]
      BY <1>1, <2>1, <2>2 DEF SendNext, m
    <3> QED BY <1>1, <2>1, <3>1, <3>2
  <2>3. CASE ~Over(m)
    <3>1. chan[n] \o ans = Append(chan[n], f)
      BY <1>3, <2>1, <2>3, AppendIsConcat
    <3>2. chan' = [chan EXCEPT ![n] = Append(chan[n], f)]
      BY <1>1, <2>1, <2>3 DEF SendNext, m, f
    <3> QED BY <1>1, <2>1, <3>1, <3>2
  <2> QED BY <2>2, <2>3
<1> HIDE DEF ans
<1>6. Elems(chan'[n]) = Elems(chan[n]) \cup Elems(ans)
  BY <1>4, <1>5, ElemsConcat
<1>7. \A types : Has(chan'[n], types) <=> Has(chan[n], types) \/ Has(ans, types)
  BY <1>6, HasConcat
<1>8. ASSUME NEW first, NEW types, After(chan[n], first, types), Has(chan[n], {first})
      PROVE  After(chan'[n], first, types)
  <2>1. After(chan[n] \o ans, first, types)
    BY <1>4, <1>5, <1>8, AfterConcat
  <2> QED BY <1>5, <2>1
<1>9. link' = link /\ adr' = adr /\ auth' = auth /\ pwdSent' = pwdSent /\ active' = active /\ pc' = pc
      /\ adr[n] /\ auth[n]
  BY <1>1 DEF config, LoopPoint, Talking
<1>10. TypeOK'
  BY <1>1, <1>2, <1>5 DEF TypeOK, config
<1>11. PasswordFrames'
  BY <1>1, <1>4, <1>5, <1>6, <1>9 DEF PasswordFrames, OwnPassword, Transfer
<1>12. AdrFirst'
  <2>1. adr[m] \/ (AdrAhead(chan[n]) /\ HasAdr(chan[n]))
    BY <1>1 DEF AdrFirst, m
  <2>2. AdrAhead(chan[n]) /\ HasAdr(chan[n]) => AdrAhead(chan'[n])
    BY <1>8 DEF AdrAhead, HasAdr
  <2>3. HasAdr(chan[n]) => HasAdr(chan'[n])
    BY <1>7 DEF HasAdr
  <2> QED BY <1>1, <1>5, <1>9, <2>1, <2>2, <2>3 DEF AdrFirst, m
<1>13. OkMeansMatch'
  BY <1>1, <1>4, <1>5, <1>7, <1>9, Sides DEF OkMeansMatch, HasOk
<1>14. OkFirst'
  <2>1. CASE n = Client
    BY <1>5, <1>9, <2>1, Sides DEF OkFirst, m
  <2>2. CASE n = Server
    <3>1. link[Server] \in Password => auth[Client] \/ HasOk(chan[Server])
      BY <1>9, <2>2 DEF OkFirst
    <3>2. OkAhead(chan[Server]) /\ HasOk(chan[Server]) => OkAhead(chan'[Server])
      BY <1>8, <2>2 DEF OkAhead, HasOk
    <3>3. HasOk(chan[Server]) => HasOk(chan'[Server])
      BY <1>7, <2>2 DEF HasOk
    <3> QED BY <1>9, <3>1, <3>2, <3>3 DEF OkFirst
  <2> QED BY <2>1, <2>2, Sides
<1>15. ServerFirst'
  BY <1>1, <1>5, <1>9, Sides DEF ServerFirst, HasTransfer
<1>16. Agreed' /\ LoopPoint' /\ NoTransferFrameDropped'
  BY <1>1 DEF Agreed, LoopPoint, NoTransferFrameDropped, Matched, Talking, config
<1> QED BY <1>10, <1>11, <1>12, <1>13, <1>14, <1>15, <1>16

\* What the transfer reads of the handshake no longer matters to it.
LEMMA ReadTransferKeepsIInv ==
  ASSUME IInv, NEW n \in Side, ReadTransfer(n)
  PROVE  IInv'
<1> USE DEF IInv
<1>1. /\ pc[n] = "session" /\ chan[Other(n)] # <<>> /\ Exchange(n, <<>>)
      /\ UNCHANGED <<config, pc, adr, auth, pwdSent, active, outbox, dropped>>
      /\ adr[n] /\ auth[n]
  BY DEF ReadTransfer, LoopPoint, Talking
<1>2. got' \in [Side -> Seq(TransferFrame)]
  <2> DEFINE h == Head(chan[Other(n)])
  <2>1. got \in [Side -> Seq(TransferFrame)] /\ got[n] \in Seq(TransferFrame)
    BY DEF TypeOK
  <2>2. CASE h.t \in {"FILE", "DATA", "EOB"}
    <3>1. h \in Frame
      BY <1>1, Answers, StreamsAfterRead
    <3>2. h \in TransferFrame
      BY <2>2, <3>1 DEF Frame, TransferFrame
    <3>3. got' = [got EXCEPT ![n] = Append(got[n], h)]
      BY <2>1, <2>2 DEF ReadTransfer
    <3> HIDE DEF h
    <3>4. Append(got[n], h) \in Seq(TransferFrame)
      BY <2>1, <3>2, AppendProperties
    <3> QED BY <2>1, <3>3, <3>4
  <2>3. CASE h.t \notin {"FILE", "DATA", "EOB"}
    BY <2>1, <2>3 DEF ReadTransfer
  <2> QED BY <2>2, <2>3
<1>3. PasswordFrames' /\ AdrFirst' /\ OkMeansMatch' /\ OkFirst' /\ ServerFirst'
  <2> DEFINE ans == <<>>
  <2>1. /\ ans \in Seq(Frame) /\ ~HasTransfer(ans) /\ ~HasOk(ans)
        /\ \A f \in Elems(ans) : OwnPassword(n, f)'
    BY Answers
  <2>2. Exchange(n, ans)
    BY <1>1
  <2> HIDE DEF ans
  <2>3. auth[Client] /\ link[Client] \in Password => auth[Server]
    BY DEF ServerFirst
  <2> QED BY <1>1, <2>1, <2>2, <2>3, Sides, ReadKeepsStreams
<1>4. TypeOK'
  BY <1>1, <1>2, Answers, StreamsAfterRead DEF TypeOK, config
<1>5. Agreed' /\ LoopPoint' /\ NoTransferFrameDropped'
  BY <1>1 DEF Agreed, LoopPoint, NoTransferFrameDropped, Matched, Talking, config
<1> QED BY <1>3, <1>4, <1>5

\* The end of a session changes only where it stands.
LEMMA EndKeepsIInv ==
  ASSUME IInv, NEW n \in Side,
         Finish(n) \/ HandleErr(n) \/ HandleClose(n) \/ Timeout(n)
  PROVE  IInv'
<1> USE DEF IInv
<1>1. /\ UNCHANGED <<config, chan, adr, auth, pwdSent, active, transfer>>
      /\ pc[n] \in {"loop", "session"}
      /\ \/ pc' = [pc EXCEPT ![n] = "failed"]
         \/ pc[n] = "session" /\ pc' = [pc EXCEPT ![n] = "done"]
  BY DEF Finish, HandleErr, HandleClose, Timeout, Waiting, Fail
<1>2. /\ pc' \in [Side -> {"greet", "loop", "session", "done", "failed"}]
      /\ \A k \in Side : pc'[k] = pc[k] \/ pc'[k] = "failed" \/ (pc'[k] = "done" /\ pc[k] = "session")
      /\ \A k \in Side : pc'[k] # "greet" => pc[k] # "greet"
  BY <1>1 DEF TypeOK
<1>3. TypeOK'
  BY <1>1, <1>2 DEF TypeOK, config, transfer
<1>4. AdrFirst' /\ LoopPoint'
  BY <1>1, <1>2 DEF AdrFirst, LoopPoint, Talking, config
<1>5. PasswordFrames' /\ OkMeansMatch' /\ OkFirst' /\ ServerFirst'
  BY <1>1 DEF PasswordFrames, OwnPassword, OkMeansMatch, OkFirst, ServerFirst, config
<1>6. Agreed' /\ NoTransferFrameDropped'
  BY <1>1 DEF Agreed, NoTransferFrameDropped, Matched, config, transfer
<1> QED BY <1>3, <1>4, <1>5, <1>6

\* No step leaves the invariant.
LEMMA NextIInv == IInv /\ [Next]_vars => IInv'
<1> SUFFICES ASSUME IInv, [Next]_vars PROVE IInv'
  OBVIOUS
<1>1. ASSUME NEW n \in Side, Step(n) PROVE IInv'
  BY <1>1, GreetKeepsIInv, HandleNulKeepsIInv, HandleAdrKeepsIInv, HandlePwdKeepsIInv,
     HandleOkKeepsIInv, HandleTransferFrameKeepsIInv, SendNextKeepsIInv,
     ReadTransferKeepsIInv, EndKeepsIInv DEF Step
<1>2. CASE UNCHANGED vars
  BY <1>2 DEF vars, IInv, TypeOK, PasswordFrames, OwnPassword, AdrFirst, OkMeansMatch, OkFirst,
     ServerFirst, Agreed, LoopPoint, NoTransferFrameDropped, Matched, Talking
<1> QED BY <1>1, <1>2 DEF Next, Terminated

-----------------------------------------------------------------------------
(* Theorems.                                                               *)

\* The invariant holds in every state of every handshake.
THEOREM Invariant == Spec => []IInv
BY InitIInv, NextIInv, PTL DEF Spec

\* Every state of the handshake has its type.
THEOREM TypeCorrect == Spec => []TypeOK
<1>1. IInv => TypeOK
  BY DEF IInv
<1> QED BY <1>1, Invariant, PTL

\* A side whose link has a password (Session.performHandshake) reaches the
\* transfer only with a side that has the same one, whatever the passwords.
THEOREM PasswordsProtect == Spec => []PasswordProtects
<1>1. IInv => PasswordProtects
  BY DEF IInv, Agreed, LoopPoint, PasswordProtects
<1> QED BY <1>1, Invariant, PTL

\* The two loops of performHandshake end at different times, but with
\* matching links neither reads a frame the other side's transfer sent.
THEOREM NoneDropped == Spec => []NoTransferFrameDropped
<1>1. IInv => NoTransferFrameDropped
  BY DEF IInv
<1> QED BY <1>1, Invariant, PTL
=============================================================================
