--------------------------- MODULE SessionProofs ----------------------------
(***************************************************************************)
(* The session loop keeps what its channels promise, for every peer, every *)
(* number of channels and processes, and key exchanges at any time.        *)
(*                                                                         *)
(* Each step of the loop is a step of Channels, or one that sends a        *)
(* message of the loop's own and leaves the channels alone (LoopStep), so  *)
(* the inductive invariant of Channels carries over.  That nothing but the *)
(* exchange is sent during a key exchange needs one more fact: the loop    *)
(* awaits no PTY write then, whose flush would follow it.                  *)
(***************************************************************************)
EXTENDS Session, ChannelsProofs, SequenceTheorems, WellFoundedInduction

-----------------------------------------------------------------------------
(* The steps of the loop. *)

\* The loop sends message m.
LoopSends(m) ==
  /\ Idle
  /\ write' = Append(write, m)
  /\ UNCHANGED <<shells, next_id, channels, pending, session, credit>>

\* Packets are told apart by their types.
LEMMA PacketKinds ==
  ASSUME NEW m \in PeerPackets
  PROVE  /\ m.type = "ChannelOpen" => m \in ChannelOpen
         /\ m.type = "ChannelRequest" => m \in ChannelRequest
         /\ m.type = "ChannelWindowAdjust" => m \in ChannelWindowAdjust
         /\ m.type = "ChannelData" => m \in ChannelData
         /\ m.type = "ChannelEof" => m \in ChannelEof
         /\ m.type = "ChannelClose" => m \in ChannelClose
         /\ m.type = "KexInit" => m \in KexInit
<1>1. \A x \in ChannelOpen : x.type = "ChannelOpen" BY DEF ChannelOpen
<1>2. \A x \in ChannelRequest : x.type = "ChannelRequest" BY DEF ChannelRequest
<1>3. \A x \in ChannelWindowAdjust : x.type = "ChannelWindowAdjust" BY DEF ChannelWindowAdjust
<1>4. \A x \in ChannelData : x.type = "ChannelData" BY DEF ChannelData
<1>5. \A x \in ChannelEof : x.type = "ChannelEof" BY DEF ChannelEof
<1>6. \A x \in ChannelClose : x.type = "ChannelClose" BY DEF ChannelClose
<1>7. \A x \in KexInit : x.type = "KexInit" BY DEF KexInit
<1>8. \A x \in EcdhInit : x.type = "EcdhInit" BY DEF EcdhInit
<1>9. \A x \in GlobalRequest : x.type = "GlobalRequest" BY DEF GlobalRequest
<1>10. \A x \in Transport : x.type \in {"Ignore", "Disconnect", "NewKeys", "RequestSuccess", "Other"}
  BY DEF Transport
<1> QED BY <1>1, <1>2, <1>3, <1>4, <1>5, <1>6, <1>7, <1>8, <1>9, <1>10 DEF PeerPackets

\* What the session loop does is done by a handler or a poll of Channels, is
\* nothing to the channels, or sends one message of the loop.
LEMMA LoopStep ==
  ASSUME NextSession
  PROVE  Next \/ UNCHANGED vars \/ \E m \in LoopMessage : LoopSends(m)
<1>1. ASSUME NEW m \in PeerPackets, Receive(m)
      PROVE  Next \/ UNCHANGED vars \/ \E x \in LoopMessage : LoopSends(x)
  <2>0. Idle BY <1>1 DEF Receive
  <2>1. CASE UNCHANGED sessionVars BY <2>1 DEF sessionVars
  <2>2. CASE Ends("closed")
    <3>1. SessionEnds BY <2>0, <2>2 DEF SessionEnds, Ends, Idle
    <3> QED BY <3>1 DEF Next
  <2>3. ASSUME Fail("proto_error"), UNCHANGED <<shells, channels>> PROVE Next
    <3>1. SessionEnds BY <2>0, <2>3 DEF SessionEnds, Fail, Idle
    <3> QED BY <3>1 DEF Next
  <2>4. ASSUME NEW t \in {"KexInit", "EcdhReply", "NewKeys", "RequestFailure"},
               write' = Append(write, Msg(t, 0, 0)),
               UNCHANGED <<shells, next_id, channels, pending, session, credit>>
        PROVE  \E x \in LoopMessage : LoopSends(x)
    <3>1. Msg(t, 0, 0) \in LoopMessage BY DEF Msg, LoopMessage
    <3>2. LoopSends(Msg(t, 0, 0)) BY <2>0, <2>4 DEF LoopSends
    <3> QED BY <3>1, <3>2
  <2>5. CASE Rekey(m)
    <3>1. CASE /\ HandleKexInit(m) \/ HandleEcdhInit(m) \/ HandleNewKeys(m)
               /\ UNCHANGED <<shells, next_id, channels, pending, session, credit>>
      BY <2>4, <3>1 DEF HandleKexInit, HandleEcdhInit, HandleNewKeys
    <3> QED BY <2>3, <2>5, <3>1 DEF Rekey
  <2>6. CASE RefuseGlobal(m)
    <3>1. CASE m.want_reply BY <2>4, <2>6, <3>1 DEF RefuseGlobal
    <3>2. CASE ~m.want_reply BY <2>6, <3>2 DEF RefuseGlobal, vars
    <3> QED BY <3>1, <3>2
  <2>7. CASE ChannelMessage(m)
    <3>1. m.type = "ChannelRequest" => banner(m) \in Banners(m) BY DEF banner, Banners
    <3> QED BY <2>3, <2>7, <3>1, PacketKinds DEF ChannelMessage, Next
  <2> QED BY <1>1, <2>1, <2>2, <2>5, <2>6, <2>7 DEF Receive
<1>2. CASE PollTerminals BY <1>2 DEF PollTerminals, Next
<1>3. CASE AwaitWrite BY <1>3 DEF AwaitWrite, Next
<1>4. CASE Environment BY <1>4 DEF Environment, Next
<1>5. CASE ConnectionLost
  <2>1. SessionEnds BY <1>5 DEF ConnectionLost, Ends, SessionEnds
  <2> QED BY <2>1 DEF Next
<1>6. CASE PeerReads BY <1>6 DEF Next
<1> QED BY <1>1, <1>2, <1>3, <1>4, <1>5, <1>6 DEF NextSession

\* The loop's own messages leave the channels as they are.
LEMMA LoopSendsStep ==
  ASSUME IInv, NEW m \in LoopMessage, LoopSends(m)
  PROVE  IInv'
<1>1. m \in ServerMessage BY DEF ServerMessage
<1>2. TypeOK' BY <1>1 DEF IInv, TypeOK, LoopSends
<1> QED BY <1>2, QuietStep DEF IInv, LoopSends

LEMMA SessionIInv == IInv /\ [NextSession]_sessionVars => IInv'
<1> SUFFICES ASSUME IInv, [NextSession]_sessionVars PROVE IInv' OBVIOUS
<1>1. CASE UNCHANGED sessionVars
  <2>1. UNCHANGED vars BY <1>1 DEF sessionVars
  <2> QED BY <2>1, NextIInv
<1>2. CASE NextSession
  <2>1. CASE Next \/ UNCHANGED vars BY <2>1, NextIInv
  <2> QED BY <1>2, <2>1, LoopStep, LoopSendsStep
<1> QED BY <1>1, <1>2

\* The inductive invariant of the channels holds inside the loop.
THEOREM SessionInductive == SpecSession => []IInv
<1>1. InitSession => IInv BY InitIInv DEF InitSession
<1> QED BY <1>1, SessionIInv, PTL DEF SpecSession

\* The loop's own variables keep their types.
LEMMA SessionTyped == TypeOKSession /\ [NextSession]_sessionVars => TypeOKSession'
<1> SUFFICES ASSUME TypeOKSession, [NextSession]_sessionVars PROVE TypeOKSession' OBVIOUS
<1>1. CASE UNCHANGED kxVars BY <1>1 DEF kxVars, TypeOKSession
<1>2. ASSUME NEW m \in PeerPackets, Rekey(m) PROVE TypeOKSession'
  <2>1. CASE HandleKexInit(m)
    <3>1. m.pq \in BOOLEAN BY <2>1, PacketKinds DEF HandleKexInit, KexInit
    <3> QED BY <2>1, <3>1 DEF HandleKexInit, TypeOKSession, KxStates
  <2>2. CASE HandleEcdhInit(m) BY <2>2 DEF HandleEcdhInit, TypeOKSession, KxStates
  <2>3. CASE HandleNewKeys(m) BY <2>3 DEF HandleNewKeys, TypeOKSession, KxStates
  <2> QED BY <1>1, <1>2, <2>1, <2>2, <2>3 DEF Rekey
<1>3. ASSUME NEW m \in PeerPackets, Receive(m) PROVE TypeOKSession'
  BY <1>1, <1>2, <1>3 DEF Receive, Ends, sessionVars
<1> QED BY <1>1, <1>3 DEF NextSession, PollTerminals, AwaitWrite, Environment, ConnectionLost, Ends,
                          sessionVars

\* Every variable of the session keeps its type, and the loop's own too.
THEOREM SessionTypeCorrect == SpecSession => [](TypeOK /\ TypeOKSession)
<1>1. InitSession => TypeOKSession BY DEF InitSession, TypeOKSession, KxStates
<1>2. IInv => TypeOK BY DEF IInv
<1> QED BY <1>1, <1>2, SessionTyped, SessionInductive, PTL DEF SpecSession

\* Inside the loop, whatever the peer sends and whenever it exchanges keys,
\* the server stays within the peer's credit, keeps the receive windows open,
\* owns each process once, and awaits writes to Running shells only
\* (connections.rs, driven by Session::run).
THEOREM SessionKeepsChannels ==
  SpecSession => [](WithinCredit /\ WindowReplenished /\ ShellsOwned /\ WriteTargetRuns)
<1>1. IInv => WithinCredit /\ WindowReplenished /\ ShellsOwned /\ WriteTargetRuns BY DEF IInv
<1> QED BY <1>1, SessionInductive, PTL

\* Inside the loop too, no channel changes its peer or takes back a close.
THEOREM SessionKeepsIdentity == SpecSession => ChannelsKeepIdentity
<1>1. IInv /\ [NextSession]_sessionVars => [IdentityKept]_vars
  <2> SUFFICES ASSUME IInv, [NextSession]_sessionVars PROVE [IdentityKept]_vars OBVIOUS
  <2>1. CASE Next \/ UNCHANGED vars BY <2>1, NextIdentity
  <2>2. ASSUME NEW m \in LoopMessage, LoopSends(m) PROVE IdentityKept
    BY <2>2 DEF LoopSends, IdentityKept
  <2>3. CASE UNCHANGED sessionVars BY <2>1, <2>3 DEF sessionVars
  <2>4. CASE NextSession BY <2>1, <2>2, <2>4, LoopStep
  <2> QED BY <2>3, <2>4
<1> QED BY <1>1, SessionInductive, PTL DEF SpecSession, ChannelsKeepIdentity, IdentityKept

-----------------------------------------------------------------------------
(* Key exchanges. *)

\* During a key exchange the loop awaits no PTY write.
ExchangeAwaitsNothing == in_progress => pending = NoWrite

LEMMA ExchangeStep ==
  ASSUME ExchangeAwaitsNothing, [NextSession]_sessionVars
  PROVE  ExchangeAwaitsNothing'
<1>1. CASE UNCHANGED <<kx, pending>> BY <1>1 DEF ExchangeAwaitsNothing, in_progress
<1>2. ASSUME NEW m \in PeerPackets, Receive(m) PROVE ExchangeAwaitsNothing'
  <2>0. pending = NoWrite BY <1>2 DEF Receive, Idle
  <2>1. CASE UNCHANGED pending BY <2>0, <2>1 DEF ExchangeAwaitsNothing
  <2>2. CASE ~in_progress /\ UNCHANGED kx BY <2>2 DEF ExchangeAwaitsNothing, in_progress
  <2>3. CASE Rekey(m) BY <2>1, <2>3 DEF Rekey, Fail
  <2> QED BY <1>2, <2>1, <2>2, <2>3 DEF Receive, Ends, sessionVars, vars, kxVars
<1>3. CASE PollTerminals BY <1>3 DEF PollTerminals, kxVars, ExchangeAwaitsNothing, in_progress
<1>4. CASE AwaitWrite
  <2>1. ~in_progress BY <1>4 DEF AwaitWrite, WritePty, ExchangeAwaitsNothing
  <2> QED BY <1>4, <2>1 DEF AwaitWrite, kxVars, ExchangeAwaitsNothing, in_progress
<1>5. CASE Environment BY <1>1, <1>5 DEF Environment, DeadlinePasses, ShellSteps, kxVars
<1>6. CASE ConnectionLost BY <1>1, <1>6 DEF ConnectionLost, Ends, kxVars
<1>7. CASE PeerReads /\ UNCHANGED kxVars BY <1>1, <1>7 DEF PeerReads, kxVars
<1>8. CASE UNCHANGED sessionVars BY <1>1, <1>8 DEF sessionVars, vars, kxVars
<1> QED BY <1>2, <1>3, <1>4, <1>5, <1>6, <1>7, <1>8 DEF NextSession

\* New messages are of the exchange.
SendsExchangeOnly ==
  in_progress => \A i \in (Len(write) + 1)..Len(write') : write'[i].type \in KxTypes

LEMMA QuietDuringExchange ==
  ASSUME TypeOK, ExchangeAwaitsNothing, NextSession
  PROVE  SendsExchangeOnly
<1> SUFFICES ASSUME in_progress PROVE \A i \in (Len(write) + 1)..Len(write') : write'[i].type \in KxTypes
  BY DEF SendsExchangeOnly
<1>0. write \in Seq(ServerMessage) BY DEF TypeOK
<1>1. CASE UNCHANGED write BY <1>0, <1>1
<1>2. ASSUME NEW t \in KxTypes, write' = Append(write, Msg(t, 0, 0))
      PROVE  \A i \in (Len(write) + 1)..Len(write') : write'[i].type \in KxTypes
  <2> DEFINE x == Msg(t, 0, 0)
  <2>1. x.type = t BY DEF Msg
  <2> HIDE DEF x
  <2>2. Len(write') = Len(write) + 1 /\ write'[Len(write) + 1] = x BY <1>0, <1>2 DEF x
  <2>3. Len(write) \in Nat BY <1>0
  <2> QED BY <2>1, <2>2, <2>3
<1>3. ASSUME NEW m \in PeerPackets, Receive(m)
      PROVE  \A i \in (Len(write) + 1)..Len(write') : write'[i].type \in KxTypes
  <2>1. UNCHANGED sessionVars \/ Ends("closed") \/ Rekey(m) BY <1>3 DEF Receive
  <2>2. CASE Rekey(m)
    <3>1. CASE HandleKexInit(m) \/ HandleEcdhInit(m) \/ HandleNewKeys(m)
      BY <1>2, <3>1 DEF HandleKexInit, HandleEcdhInit, HandleNewKeys, KxTypes
    <3> QED BY <1>1, <2>2, <3>1 DEF Rekey, Fail
  <2> QED BY <1>1, <2>1, <2>2 DEF Ends, sessionVars, vars
<1>4. CASE AwaitWrite BY <1>4 DEF AwaitWrite, WritePty, ExchangeAwaitsNothing
<1>5. CASE PeerReads
  <2>1. Len(write') = Len(write) - 1 /\ Len(write) \in Nat BY <1>0, <1>5 DEF PeerReads
  <2> QED BY <2>1
<1>6. CASE Environment \/ ConnectionLost
  BY <1>1, <1>6 DEF Environment, DeadlinePasses, ShellSteps, ConnectionLost, Ends
<1> QED BY <1>3, <1>4, <1>5, <1>6 DEF NextSession, PollTerminals

\* Between its KEXINIT and its NEWKEYS the server sends nothing but messages
\* of the key exchange: the terminals are not polled, every other packet is an
\* error, and no PTY write was awaited when the exchange began (Session::run).
THEOREM QuietWhileRekeying == SpecSession => RekeyQuiet
<1>1. InitSession => ExchangeAwaitsNothing BY DEF InitSession, ExchangeAwaitsNothing, in_progress
<1>2. ExchangeAwaitsNothing /\ [NextSession]_sessionVars => ExchangeAwaitsNothing' BY ExchangeStep
<1>3. TypeOK /\ ExchangeAwaitsNothing /\ [NextSession]_sessionVars => [SendsExchangeOnly]_sessionVars
  BY QuietDuringExchange
<1>4. IInv => TypeOK BY DEF IInv
<1> QED BY <1>1, <1>2, <1>3, <1>4, SessionInductive, PTL DEF SpecSession, RekeyQuiet, SendsExchangeOnly

-----------------------------------------------------------------------------
(* Induction over the places of a queue, from the library's theorem that   *)
(* the natural numbers are well-founded.                                   *)

LEMMA NatMin ==
  ASSUME NEW T, T \subseteq Nat, T /= {}
  PROVE  \E x \in T : \A y \in T : x <= y
<1> DEFINE R == OpToRel(<, Nat)
<1>1. IsWellFoundedOn(R, Nat) BY NatLessThanWellFounded
<1> HIDE DEF R
<1>2. PICK x \in T : \A y \in T : ~(<<y, x>> \in R) BY <1>1, WFMin
<1>3. \A y \in T : ~(y < x) BY <1>2 DEF R, OpToRel
<1> QED BY <1>3

LEMMA PlaceInduction ==
  ASSUME NEW n \in Nat, NEW S, 0 \in S, \A i \in 0..(n - 1) : i \in S => i + 1 \in S
  PROVE  0..n \subseteq S
<1> SUFFICES ASSUME NEW k \in 0..n, k \notin S PROVE FALSE OBVIOUS
<1> DEFINE T == {i \in 0..n : i \notin S}
<1>1. T \subseteq Nat /\ T /= {} OBVIOUS
<1>2. PICK x \in T : \A y \in T : x <= y BY <1>1, NatMin
<1>3. x \in 0..n /\ x \notin S /\ x /= 0 OBVIOUS
<1>4. x - 1 \in 0..(n - 1) /\ x - 1 \in 0..n /\ ~(x <= x - 1) BY <1>3
<1>5. x - 1 \in S BY <1>2, <1>4
<1>6. (x - 1) + 1 \in S BY <1>4, <1>5
<1>7. (x - 1) + 1 = x BY <1>3
<1> QED BY <1>3, <1>6, <1>7

-----------------------------------------------------------------------------
(* The messages of a queue that are for channels. *)

\* s with message m, if it is for a channel.
Keep(s, m) == IF ForChannels(m) THEN Append(s, m) ELSE s

\* f holds what is kept of the first messages of q, up to n.
Keeps(q, n, f) ==
  /\ f = [i \in 0..n |-> f[i]]
  /\ f[0] = <<>>
  /\ \A i \in 1..n : f[i] = Keep(f[i - 1], q[i])

LEMMA KeepsOne ==
  ASSUME NEW q, NEW n \in Nat, NEW f, Keeps(q, n, f), NEW p, NEW m, \A i \in 1..n : p[i] = q[i], p[n + 1] = m
  PROVE  \E g : Keeps(p, n + 1, g) /\ g[n + 1] = Keep(f[n], m)
<1> DEFINE g == [i \in 0..(n + 1) |-> IF i <= n THEN f[i] ELSE Keep(f[n], m)]
<1>1. \A i \in 0..n : g[i] = f[i] OBVIOUS
<1>2. g[n + 1] = Keep(f[n], m) OBVIOUS
<1>3. g = [i \in 0..(n + 1) |-> g[i]] OBVIOUS
<1> HIDE DEF g
<1>4. g[0] = <<>> BY <1>1 DEF Keeps
<1>5. ASSUME NEW i \in 1..(n + 1) PROVE g[i] = Keep(g[i - 1], p[i])
  <2>1. CASE i = n + 1
    <3>1. i - 1 = n /\ n \in 0..n BY <2>1
    <3> QED BY <1>1, <1>2, <2>1, <3>1
  <2>2. CASE i /= n + 1
    <3>1. i \in 1..n /\ i \in 0..n /\ i - 1 \in 0..n BY <2>2
    <3> QED BY <1>1, <3>1 DEF Keeps
  <2> QED BY <2>1, <2>2
<1>6. Keeps(p, n + 1, g) BY <1>3, <1>4, <1>5 DEF Keeps
<1> QED BY <1>2, <1>6

LEMMA KeepsExists ==
  ASSUME NEW q, NEW n \in Nat
  PROVE  \E f : Keeps(q, n, f)
<1> DEFINE S == {i \in 0..n : \E f : Keeps(q, i, f)}
<1>1. 0 \in S
  <2> DEFINE f == [i \in 0..0 |-> <<>>]
  <2>1. Keeps(q, 0, f) BY DEF Keeps
  <2> QED BY <2>1
<1>2. ASSUME NEW i \in 0..(n - 1), i \in S PROVE i + 1 \in S
  <2>1. PICK f : Keeps(q, i, f) BY <1>2
  <2>2. i \in Nat /\ i + 1 \in 0..n OBVIOUS
  <2>3. \E g : Keeps(q, i + 1, g) BY <2>1, <2>2, KeepsOne
  <2> QED BY <2>2, <2>3
<1> HIDE DEF S
<1>3. 0..n \subseteq S BY <1>1, <1>2, PlaceInduction
<1>4. n \in S BY <1>3
<1> QED BY <1>4 DEF S

LEMMA KeepsUnique ==
  ASSUME NEW q, NEW n \in Nat, NEW f, NEW g, Keeps(q, n, f), Keeps(q, n, g)
  PROVE  \A i \in 0..n : f[i] = g[i]
<1> DEFINE S == {i \in 0..n : f[i] = g[i]}
<1>1. 0 \in S BY DEF Keeps
<1>2. ASSUME NEW i \in 0..(n - 1), i \in S PROVE i + 1 \in S
  <2>1. i + 1 \in 1..n /\ i + 1 \in 0..n /\ (i + 1) - 1 = i OBVIOUS
  <2>2. f[i + 1] = Keep(f[i], q[i + 1]) /\ g[i + 1] = Keep(g[i], q[i + 1]) BY <2>1 DEF Keeps
  <2> QED BY <1>2, <2>1, <2>2
<1> HIDE DEF S
<1>3. 0..n \subseteq S BY <1>1, <1>2, PlaceInduction
<1> QED BY <1>3 DEF S

\* The recursive function is what it is meant to be.
LEMMA OfChannelsIs ==
  ASSUME NEW q, Len(q) \in Nat, NEW f, Keeps(q, Len(q), f)
  PROVE  OfChannels(q) = f[Len(q)]
<1> DEFINE n == Len(q)
           Recurs(h) == h = [i \in 0..n |-> IF i = 0 THEN <<>>
                               ELSE IF ForChannels(q[i]) THEN Append(h[i - 1], q[i]) ELSE h[i - 1]]
           k == CHOOSE h : Recurs(h)
<1>1. OfChannels(q) = k[n] BY DEF OfChannels
<1> HIDE DEF n
<1>0. n \in Nat BY DEF n
<1>2. Recurs(f)
  <2>1. f = [i \in 0..n |-> f[i]] /\ f[0] = <<>> /\ \A i \in 1..n : f[i] = Keep(f[i - 1], q[i])
    BY DEF Keeps, n
  <2>2. ASSUME NEW i \in 0..n
        PROVE  f[i] = IF i = 0 THEN <<>> ELSE IF ForChannels(q[i]) THEN Append(f[i - 1], q[i]) ELSE f[i - 1]
    <3>1. CASE i = 0 BY <2>1, <3>1
    <3>2. CASE i /= 0
      <4>1. i \in 1..n BY <1>0, <3>2
      <4>2. f[i] = Keep(f[i - 1], q[i]) BY <2>1, <4>1
      <4> QED BY <3>2, <4>2 DEF Keep
    <3> QED BY <3>1, <3>2
  <2> QED BY <2>1, <2>2
<1>3. Recurs(k)
  <2> HIDE DEF Recurs
  <2> QED BY <1>2
<1>4. Keeps(q, n, k)
  <2> HIDE DEF k
  <2>1. k = [i \in 0..n |-> k[i]] BY <1>3
  <2>2. k[0] = <<>> BY <1>0, <1>3
  <2>3. ASSUME NEW i \in 1..n PROVE k[i] = Keep(k[i - 1], q[i])
    <3>1. i \in 0..n /\ i /= 0 OBVIOUS
    <3>2. k[i] = IF i = 0 THEN <<>> ELSE IF ForChannels(q[i]) THEN Append(k[i - 1], q[i]) ELSE k[i - 1]
      BY <1>3, <3>1
    <3> QED BY <3>1, <3>2 DEF Keep
  <2> QED BY <2>1, <2>2, <2>3 DEF Keeps
<1> HIDE DEF k
<1>5. n \in 0..n /\ Keeps(q, n, f) BY <1>0 DEF n
<1>6. k[n] = f[n] BY <1>0, <1>4, <1>5, KeepsUnique
<1> QED BY <1>1, <1>6 DEF n

LEMMA OfChannelsNone == OfChannels(<<>>) = <<>>
<1> DEFINE q == <<>>
           n == Len(q)
<1>1. n = 0 /\ n \in Nat OBVIOUS
<1> HIDE DEF q
<1>2. PICK f : Keeps(q, n, f) BY <1>1, KeepsExists
<1>3. OfChannels(q) = f[n] BY <1>1, <1>2, OfChannelsIs
<1>4. f[0] = <<>> BY <1>2 DEF Keeps
<1> QED BY <1>1, <1>3, <1>4 DEF q

LEMMA OfChannelsAppend ==
  ASSUME NEW q \in Seq(ServerMessage), NEW m \in ServerMessage
  PROVE  OfChannels(Append(q, m)) = Keep(OfChannels(q), m)
<1> DEFINE n == Len(q)
           p == Append(q, m)
<1>1. n \in Nat /\ Len(p) = n + 1 /\ p[n + 1] = m /\ \A i \in 1..n : p[i] = q[i] OBVIOUS
<1>2. PICK f : Keeps(q, n, f) BY <1>1, KeepsExists
<1>3. OfChannels(q) = f[n] BY <1>1, <1>2, OfChannelsIs
<1> HIDE DEF p, n
<1>4. PICK g : Keeps(p, n + 1, g) /\ g[n + 1] = Keep(f[n], m) BY <1>1, <1>2, KeepsOne
<1>5. n + 1 \in Nat BY <1>1
<1>6. OfChannels(p) = g[n + 1] BY <1>1, <1>4, <1>5, OfChannelsIs
<1> QED BY <1>3, <1>4, <1>6 DEF p

\* What is kept of a queue is a queue, and no longer.
LEMMA OfChannelsType ==
  ASSUME NEW q \in Seq(ServerMessage), NEW f, Keeps(q, Len(q), f)
  PROVE  \A i \in 0..Len(q) : f[i] \in Seq(ServerMessage) /\ Len(f[i]) <= i
<1> DEFINE n == Len(q)
           S == {i \in 0..n : f[i] \in Seq(ServerMessage) /\ Len(f[i]) <= i}
<1>0. n \in Nat /\ \A i \in 1..n : q[i] \in ServerMessage OBVIOUS
<1>1. f[0] = <<>> /\ \A i \in 1..n : f[i] = Keep(f[i - 1], q[i]) BY DEF Keeps
<1> HIDE DEF n
<1>2. 0 \in S
  <2> DEFINE e == f[0]
  <2>1. e \in Seq(ServerMessage) /\ Len(e) = 0 BY <1>1
  <2> HIDE DEF e
  <2>2. 0 \in 0..n /\ Len(e) <= 0 BY <1>0, <2>1
  <2> QED BY <2>1, <2>2 DEF e
<1>3. ASSUME NEW i \in 0..(n - 1), i \in S PROVE i + 1 \in S
  <2>1. i + 1 \in 1..n /\ i + 1 \in 0..n /\ (i + 1) - 1 = i /\ i \in Nat BY <1>0
  <2> DEFINE s == f[i]
             m == q[i + 1]
  <2>2. f[i + 1] = Keep(s, m) BY <1>1, <2>1
  <2>3. s \in Seq(ServerMessage) /\ Len(s) <= i /\ m \in ServerMessage BY <1>0, <1>3, <2>1
  <2> HIDE DEF s, m
  <2>4. Keep(s, m) \in Seq(ServerMessage) /\ Len(Keep(s, m)) <= i + 1
    <3>1. CASE ForChannels(m)
      <4>1. Keep(s, m) = Append(s, m) BY <3>1 DEF Keep
      <4>2. Append(s, m) \in Seq(ServerMessage) /\ Len(Append(s, m)) = Len(s) + 1 /\ Len(s) \in Nat BY <2>3
      <4> QED BY <2>1, <2>3, <4>1, <4>2
    <3>2. CASE ~ForChannels(m)
      <4>1. Keep(s, m) = s /\ Len(s) \in Nat BY <2>3, <3>2 DEF Keep
      <4> QED BY <2>1, <2>3, <4>1
    <3> QED BY <3>1, <3>2
  <2> QED BY <2>1, <2>2, <2>4
<1> HIDE DEF S
<1>4. 0..n \subseteq S BY <1>0, <1>2, <1>3, PlaceInduction
<1> QED BY <1>4 DEF S, n

LEMMA OfChannelsSeq ==
  ASSUME NEW q \in Seq(ServerMessage)
  PROVE  OfChannels(q) \in Seq(ServerMessage) /\ Len(OfChannels(q)) \in Nat /\ Len(OfChannels(q)) <= Len(q)
<1>1. Len(q) \in Nat OBVIOUS
<1>2. PICK f : Keeps(q, Len(q), f) BY <1>1, KeepsExists
<1>3. OfChannels(q) = f[Len(q)] BY <1>1, <1>2, OfChannelsIs
<1>4. f[Len(q)] \in Seq(ServerMessage) /\ Len(f[Len(q)]) <= Len(q) BY <1>1, <1>2, OfChannelsType
<1>5. Len(f[Len(q)]) \in Nat BY <1>4
<1> QED BY <1>3, <1>4, <1>5

\* The first message is kept first, or not at all.
LEMMA OfChannelsTail ==
  ASSUME NEW q \in Seq(ServerMessage), q /= <<>>
  PROVE  OfChannels(q) = IF ForChannels(Head(q)) THEN <<Head(q)>> \o OfChannels(Tail(q)) ELSE OfChannels(Tail(q))
<1> DEFINE p == Tail(q)
           n == Len(p)
           a == Head(q)
           Pre(s) == IF ForChannels(a) THEN <<a>> \o s ELSE s
<1>1. /\ p \in Seq(ServerMessage) /\ n \in Nat /\ Len(q) = n + 1 /\ a = q[1] /\ a \in ServerMessage
      /\ \A i \in 1..n : p[i] = q[i + 1]
  OBVIOUS
<1> HIDE DEF p, n, a
<1>2. PICK f : Keeps(q, n + 1, f)
  <2>1. n + 1 \in Nat BY <1>1
  <2> QED BY <2>1, KeepsExists
<1>3. PICK g : Keeps(p, n, g) BY <1>1, KeepsExists
<1>4. OfChannels(q) = f[n + 1] BY <1>1, <1>2, OfChannelsIs
<1>5. OfChannels(p) = g[n] BY <1>1, <1>3, OfChannelsIs DEF n
<1> DEFINE S == {i \in 0..n : f[i + 1] = Pre(g[i])}
<1>6. 0 \in S
  <2>1. f[0] = <<>> /\ g[0] = <<>> BY <1>2, <1>3 DEF Keeps
  <2>2. 1 \in 1..(n + 1) /\ 1 - 1 = 0 /\ 0 + 1 = 1 /\ 0 \in 0..n BY <1>1
  <2>3. f[1] = Keep(f[0], a) BY <1>1, <1>2, <2>2 DEF Keeps
  <2>4. Append(<<>>, a) = <<a>> /\ <<a>> \o <<>> = <<a>> OBVIOUS
  <2> QED BY <2>1, <2>2, <2>3, <2>4 DEF Keep
<1>7. ASSUME NEW i \in 0..(n - 1), i \in S PROVE i + 1 \in S
  <2>1. /\ i + 1 \in 1..n /\ i + 1 \in 0..n /\ (i + 1) - 1 = i /\ (i + 1) + 1 \in 1..(n + 1)
        /\ ((i + 1) + 1) - 1 = i + 1 /\ i \in 0..n
    BY <1>1
  <2> DEFINE s == g[i]
             m == p[i + 1]
  <2>2. f[(i + 1) + 1] = Keep(f[i + 1], m) BY <1>1, <1>2, <2>1 DEF Keeps
  <2>3. g[i + 1] = Keep(s, m) BY <1>3, <2>1 DEF Keeps
  <2>4. f[i + 1] = Pre(s) BY <1>7
  <2>5. s \in Seq(ServerMessage)
    <3>1. Keeps(p, Len(p), g) BY <1>3 DEF n
    <3>2. i \in 0..Len(p) BY <2>1 DEF n
    <3> QED BY <1>1, <3>1, <3>2, OfChannelsType
  <2>6. m \in ServerMessage
    <3>1. i + 1 \in 1..Len(p) BY <2>1 DEF n
    <3> QED BY <1>1, <3>1
  <2> HIDE DEF s, m, S
  <2>7. Append(<<a>> \o s, m) = <<a>> \o Append(s, m)
    <3> DEFINE x == Append(<<a>> \o s, m)
               y == <<a>> \o Append(s, m)
    <3>1. <<a>> \in Seq(ServerMessage) /\ Len(<<a>>) = 1 /\ Len(s) \in Nat BY <1>1, <2>5
    <3>2. x \in Seq(ServerMessage) /\ y \in Seq(ServerMessage) /\ Len(x) = Len(s) + 2 /\ Len(y) = Len(s) + 2
      BY <2>5, <2>6, <3>1
    <3>3. \A j \in 1..Len(s) + 2 : x[j] = y[j] BY <1>1, <2>5, <2>6, <3>1
    <3> HIDE DEF x, y
    <3>4. x = y BY <3>2, <3>3, SeqEqual
    <3> QED BY <3>4 DEF x, y
  <2>8. Keep(Pre(s), m) = Pre(Keep(s, m)) BY <2>7 DEF Keep
  <2> QED BY <2>1, <2>2, <2>3, <2>4, <2>8 DEF S
<1> HIDE DEF S
<1>8. 0..n \subseteq S BY <1>1, <1>6, <1>7, PlaceInduction
<1>9. n \in S BY <1>1, <1>8
<1>10. f[n + 1] = Pre(g[n]) BY <1>9 DEF S
<1> QED BY <1>4, <1>5, <1>10 DEF p, a

-----------------------------------------------------------------------------
(* The refinement: what each step adds for the channels, it adds to what is *)
(* kept, and a step of a handler or a poll is that step of Channels.        *)

\* What a step appends is kept as it is.
Appends(m) == write' = Append(write, m) => OfChannels(write') = Append(OfChannels(write), m)
Adds(x) == write' = write \o x => OfChannels(write') = OfChannels(write) \o x
AddsBoth(x, y) == write' = write \o x \o y => OfChannels(write') = OfChannels(write) \o x \o y

LEMMA AppendKept ==
  ASSUME TypeOK, TypeOK', NEW m, ForChannels(m)
  PROVE  Appends(m)
<1> SUFFICES ASSUME write' = Append(write, m) PROVE OfChannels(write') = Append(OfChannels(write), m)
  BY DEF Appends
<1>1. write \in Seq(ServerMessage) /\ write' \in Seq(ServerMessage) BY DEF TypeOK
<1>2. Len(write) + 1 \in 1..Len(write') /\ write'[Len(write) + 1] = m BY <1>1
<1>3. m \in ServerMessage BY <1>1, <1>2
<1>4. OfChannels(write') = Keep(OfChannels(write), m) BY <1>1, <1>3, OfChannelsAppend
<1> QED BY <1>4 DEF Keep

LEMMA NothingKept ==
  ASSUME TypeOK
  PROVE  Adds(<<>>)
<1>1. write \in Seq(ServerMessage) BY DEF TypeOK
<1>2. OfChannels(write) \in Seq(ServerMessage) BY <1>1, OfChannelsSeq
<1> DEFINE k == OfChannels(write)
<1> HIDE DEF k
<1>3. write \o <<>> = write /\ k \o <<>> = k BY <1>1, <1>2 DEF k
<1> QED BY <1>3 DEF Adds, k

LEMMA MessageKept ==
  ASSUME TypeOK, TypeOK', NEW m, ForChannels(m)
  PROVE  Adds(<<m>>)
<1> SUFFICES ASSUME write' = write \o <<m>> PROVE OfChannels(write') = OfChannels(write) \o <<m>>
  BY DEF Adds
<1>1. write \in Seq(ServerMessage) /\ write' \in Seq(ServerMessage) BY DEF TypeOK
<1>2. Len(write') = Len(write) + 1 /\ Len(write) \in Nat /\ write'[Len(write) + 1] = m BY <1>1
<1>3. m \in ServerMessage BY <1>1, <1>2
<1>4. write' = Append(write, m) BY <1>1, <1>3
<1> DEFINE k == OfChannels(write)
<1>5. k \in Seq(ServerMessage) BY <1>1, OfChannelsSeq
<1>6. OfChannels(write') = Append(k, m) BY <1>4, AppendKept DEF Appends
<1> HIDE DEF k
<1>7. Append(k, m) = k \o <<m>> BY <1>3, <1>5
<1> QED BY <1>6, <1>7 DEF k

LEMMA ConcatOne ==
  ASSUME NEW S, NEW s \in Seq(S), NEW e \in S
  PROVE  Append(s, e) = s \o <<e>> /\ Append(s, e) \in Seq(S)
OBVIOUS

LEMMA BothKept ==
  ASSUME TypeOK, TypeOK', NEW a, NEW b, ForChannels(a), ForChannels(b)
  PROVE  AddsBoth(<<a>>, <<b>>)
<1> SUFFICES ASSUME write' = write \o <<a>> \o <<b>> PROVE OfChannels(write') = OfChannels(write) \o <<a>> \o <<b>>
  BY DEF AddsBoth
<1>1. write \in Seq(ServerMessage) /\ write' \in Seq(ServerMessage) BY DEF TypeOK
<1> DEFINE S == ServerMessage \cup {a, b}
           x == write \o <<a>>
<1>0. write \in Seq(S) /\ a \in S /\ b \in S BY <1>1
<1> HIDE DEF S
<1>9. x \in Seq(S) /\ Len(x) = Len(write) + 1 /\ x[Len(write) + 1] = a /\ Len(write) \in Nat BY <1>0
<1> HIDE DEF x
<1>2. Len(write') = Len(x) + 1 /\ write'[Len(x)] = x[Len(x)] /\ write'[Len(x) + 1] = b
  BY <1>0, <1>9 DEF x
<1>3. /\ Len(write') = Len(write) + 2 /\ Len(write) \in Nat
      /\ write'[Len(write) + 1] = a /\ write'[Len(write) + 2] = b
  <2> DEFINE n == Len(write)
             l == Len(x)
  <2>1. n \in Nat /\ l = n + 1 BY <1>9
  <2> HIDE DEF n, l
  <2>2. Len(write') = l + 1 /\ write'[l] = a /\ write'[l + 1] = b BY <1>2, <1>9, <2>1 DEF n, l
  <2>3. l + 1 = n + 2 BY <2>1
  <2> QED BY <2>1, <2>2, <2>3 DEF n
<1>4. a \in ServerMessage /\ b \in ServerMessage
  <2>1. \A i \in 1..Len(write') : write'[i] \in ServerMessage BY <1>1
  <2>2. Len(write) + 1 \in 1..Len(write') /\ Len(write) + 2 \in 1..Len(write') BY <1>3
  <2> QED BY <1>3, <2>1, <2>2
<1> DEFINE q == Append(write, a)
           k == OfChannels(write)
<1>5. q \in Seq(ServerMessage) /\ write' = Append(q, b)
  <2>1. q \in Seq(ServerMessage) /\ q = x BY <1>1, <1>4, ConcatOne DEF x
  <2>2. write' = q \o <<b>> BY <2>1 DEF x
  <2> HIDE DEF q
  <2>3. q \o <<b>> = Append(q, b) BY <1>4, <2>1
  <2> QED BY <2>1, <2>2, <2>3
<1>6. k \in Seq(ServerMessage) /\ OfChannels(q) = Append(k, a)
  BY <1>1, <1>4, OfChannelsSeq, OfChannelsAppend DEF Keep
<1> HIDE DEF q, k
<1>7. OfChannels(write') = Append(Append(k, a), b) BY <1>4, <1>5, <1>6, OfChannelsAppend DEF Keep
<1>8. Append(Append(k, a), b) = k \o <<a>> \o <<b>> BY <1>4, <1>6, ConcatOne
<1> QED BY <1>7, <1>8 DEF k

\* Messages for channels.
LEMMA ServerKinds ==
  ASSUME NEW t \in {"OpenFailure", "OpenConfirmation", "Success", "Failure", "Data", "WindowAdjust", "Eof",
                    "ExitStatus", "Close"}, NEW to, NEW arg
  PROVE  ForChannels(Msg(t, to, arg))
<1>1. Msg(t, to, arg).type = t BY DEF Msg
<1> QED BY <1>1 DEF ForChannels, KxTypes

LEMMA ReplyKept ==
  ASSUME TypeOK, TypeOK', NEW m, NEW t \in {"Success", "Failure"}
  PROVE  Adds(Reply(m, t))
<1>1. CASE m.want_reply
  <2>1. Reply(m, t) = <<Msg(t, channels[m.to].remote_id, 0)>> BY <1>1 DEF Reply
  <2>2. ForChannels(Msg(t, channels[m.to].remote_id, 0)) BY ServerKinds
  <2> QED BY <2>1, <2>2, MessageKept
<1>2. CASE ~m.want_reply
  <2>1. Reply(m, t) = <<>> BY <1>2 DEF Reply
  <2> QED BY <2>1, NothingKept
<1> QED BY <1>1, <1>2

\* A reply, and a message after it or before it.
LEMMA ReplyFirst ==
  ASSUME TypeOK, TypeOK', NEW m, NEW b, ForChannels(b)
  PROVE  AddsBoth(Reply(m, "Success"), <<b>>)
<1>1. CASE m.want_reply
  <2> DEFINE a == Msg("Success", channels[m.to].remote_id, 0)
  <2>1. Reply(m, "Success") = <<a>> BY <1>1 DEF Reply
  <2>2. ForChannels(a) BY ServerKinds
  <2> HIDE DEF a
  <2> QED BY <2>1, <2>2, BothKept
<1>2. CASE ~m.want_reply
  <2> DEFINE k == OfChannels(write)
  <2>1. Reply(m, "Success") = <<>> BY <1>2 DEF Reply
  <2>2. write \in Seq(ServerMessage) BY DEF TypeOK
  <2>3. k \in Seq(ServerMessage) BY <2>2, OfChannelsSeq
  <2>4. Adds(<<b>>) BY MessageKept
  <2> HIDE DEF k
  <2>5. write \o <<>> = write /\ k \o <<>> = k BY <2>2, <2>3
  <2> QED BY <2>1, <2>4, <2>5 DEF Adds, AddsBoth, k
<1> QED BY <1>1, <1>2

LEMMA ReplyLast ==
  ASSUME TypeOK, TypeOK', NEW m, NEW a, ForChannels(a)
  PROVE  AddsBoth(<<a>>, Reply(m, "Success"))
<1>1. CASE m.want_reply
  <2> DEFINE b == Msg("Success", channels[m.to].remote_id, 0)
  <2>1. Reply(m, "Success") = <<b>> BY <1>1 DEF Reply
  <2>2. ForChannels(b) BY ServerKinds
  <2> HIDE DEF b
  <2> QED BY <2>1, <2>2, BothKept
<1>2. CASE ~m.want_reply
  <2>1. Reply(m, "Success") = <<>> BY <1>2 DEF Reply
  <2> SUFFICES ASSUME write' = write \o <<a>> \o <<>> PROVE OfChannels(write') = OfChannels(write) \o <<a>> \o <<>>
    BY <2>1 DEF AddsBoth
  <2> DEFINE k == OfChannels(write)
             x == write \o <<a>>
             y == k \o <<a>>
  <2>2. write \in Seq(ServerMessage) /\ write' \in Seq(ServerMessage) BY DEF TypeOK
  <2>3. k \in Seq(ServerMessage) BY <2>2, OfChannelsSeq
  <2>4. Adds(<<a>>) BY MessageKept
  <2> HIDE DEF k
  <2>5. Len(write') = Len(write) + 1 /\ Len(write) \in Nat /\ write'[Len(write) + 1] = a BY <2>2
  <2>6. a \in ServerMessage BY <2>2, <2>5
  <2>7. x \in Seq(ServerMessage) /\ y \in Seq(ServerMessage) BY <2>2, <2>3, <2>6
  <2> HIDE DEF x, y
  <2>8. x \o <<>> = x /\ y \o <<>> = y BY <2>7
  <2>9. write' = x /\ OfChannels(write') = y BY <2>4, <2>8 DEF x, y, Adds, k
  <2> QED BY <2>8, <2>9 DEF x, y, k
<1> QED BY <1>1, <1>2

LEMMA SameIdle ==
  ASSUME TypeOK, Idle
  PROVE  ChannelsOnly!Idle
<1>1. write \in Seq(ServerMessage) /\ MaxWrite \in Nat BY ChannelsAssumption DEF TypeOK
<1>2. Len(OfChannels(write)) <= MaxWrite
  <2> DEFINE a == Len(OfChannels(write))
             b == Len(write)
  <2>1. a \in Nat /\ a <= b /\ b \in Nat /\ b <= MaxWrite BY <1>1, OfChannelsSeq DEF Idle
  <2> HIDE DEF a, b
  <2>2. a <= MaxWrite BY <1>1, <2>1
  <2> QED BY <2>2 DEF a
<1> QED BY <1>2 DEF Idle, ChannelsOnly!Idle, NoWrite, ChannelsOnly!NoWrite

LEMMA SameFail ==
  ASSUME NEW error, Fail(error)
  PROVE  ChannelsOnly!Fail(error)
BY DEF Fail, ChannelsOnly!Fail

LEMMA SameUnknown ==
  ASSUME NEW m, UnknownChannel(m)
  PROVE  ChannelsOnly!UnknownChannel(m)
BY SameFail DEF UnknownChannel, ChannelsOnly!UnknownChannel, Known, ChannelsOnly!Known

\* Channels::open.
LEMMA SameOpen ==
  ASSUME TypeOK, TypeOK', NEW m, open(m)
  PROVE  ChannelsOnly!open(m)
<1>1. ChannelsOnly!Idle BY SameIdle DEF open
<1>2. Appends(Msg("OpenFailure", m.sender, 0)) /\ Appends(Msg("OpenConfirmation", m.sender, next_id))
  BY AppendKept, ServerKinds
<1> QED BY <1>1, <1>2, Zenon
        DEF open, ChannelsOnly!open, Appends, OpenFailure, ChannelsOnly!OpenFailure, Msg, ChannelsOnly!Msg,
            Occupied, ChannelsOnly!Occupied, Known, ChannelsOnly!Known, Insert, ChannelsOnly!Insert,
            NewChannel, ChannelsOnly!NewChannel, TState, ChannelsOnly!TState

\* Channels::request.
LEMMA SameRequest ==
  ASSUME TypeOK, TypeOK', NEW m, NEW b, request(m, b)
  PROVE  ChannelsOnly!request(m, b)
<1> USE DEF Msg, ChannelsOnly!Msg, Update, ChannelsOnly!Update, WithTerminal, ChannelsOnly!WithTerminal,
            TState, ChannelsOnly!TState, Reply, ChannelsOnly!Reply
<1> DEFINE r == channels[m.to].remote_id
           shown == Msg("Data", r, b)
           window == Msg("WindowAdjust", r, INITIAL_WINDOW_SIZE)
<1>0. ChannelsOnly!Idle BY SameIdle DEF request
<1>1. Adds(Reply(m, "Success")) /\ Adds(Reply(m, "Failure")) BY ReplyKept
<1>2. AddsBoth(Reply(m, "Success"), <<shown>>) /\ AddsBoth(<<window>>, Reply(m, "Success"))
  BY ReplyFirst, ReplyLast, ServerKinds
<1>3. CASE UnknownChannel(m) BY <1>0, <1>3, SameUnknown DEF ChannelsOnly!request
<1>4. CASE Known(m.to) /\ PtyReq(m, b)
  <2>1. ChannelsOnly!PtyReq(m, b)
    BY <1>1, <1>2, <1>4, Zenon
    DEF PtyReq, ChannelsOnly!PtyReq, Adds, AddsBoth, WithSendWindow, ChannelsOnly!WithSendWindow
  <2> QED BY <1>0, <1>4, <2>1, Zenon DEF ChannelsOnly!request, Known, ChannelsOnly!Known
<1>5. CASE Known(m.to) /\ Env(m)
  <2>1. ChannelsOnly!Env(m)
    BY <1>1, <1>5, Zenon DEF Env, ChannelsOnly!Env, Adds, WithEnv, ChannelsOnly!WithEnv
  <2> QED BY <1>0, <1>5, <2>1, Zenon DEF ChannelsOnly!request, Known, ChannelsOnly!Known
<1>6. CASE Known(m.to) /\ ShellError(m)
  <2>1. ChannelsOnly!ShellError(m) BY <1>6, SameFail, Zenon DEF ShellError, ChannelsOnly!ShellError
  <2> QED BY <1>0, <1>6, <2>1, Zenon DEF ChannelsOnly!request, Known, ChannelsOnly!Known
<1>7. CASE Known(m.to) /\ StartShell(m)
  <2>1. ChannelsOnly!StartShell(m)
    BY <1>2, <1>7, Zenon
    DEF StartShell, ChannelsOnly!StartShell, AddsBoth, Shells, ChannelsOnly!Shells, IsFresh, ChannelsOnly!IsFresh,
        spawn, ChannelsOnly!spawn, Unspawned, ChannelsOnly!Unspawned, WithShell, ChannelsOnly!WithShell,
        WithReceiveWindow, ChannelsOnly!WithReceiveWindow
  <2> QED BY <1>0, <1>7, <2>1, Zenon DEF ChannelsOnly!request, Known, ChannelsOnly!Known
<1>8. CASE Known(m.to) /\ WindowChange(m)
  <2>1. ChannelsOnly!WindowChange(m)
    BY <1>1, <1>8, SameFail, Zenon DEF WindowChange, ChannelsOnly!WindowChange, Adds
  <2> QED BY <1>0, <1>8, <2>1, Zenon DEF ChannelsOnly!request, Known, ChannelsOnly!Known
<1>9. CASE Known(m.to) /\ Refused(m)
  <2>1. ChannelsOnly!Refused(m) BY <1>1, <1>9, Zenon DEF Refused, ChannelsOnly!Refused, Adds
  <2> QED BY <1>0, <1>9, <2>1, Zenon DEF ChannelsOnly!request, Known, ChannelsOnly!Known
<1> QED BY <1>3, <1>4, <1>5, <1>6, <1>7, <1>8, <1>9 DEF request

\* Channels::adjust_window, data, eof and close.
LEMMA SameAdjust ==
  ASSUME TypeOK, NEW m, adjust_window(m)
  PROVE  ChannelsOnly!adjust_window(m)
<1>1. ChannelsOnly!Idle BY SameIdle DEF adjust_window
<1>2. UNCHANGED write => UNCHANGED OfChannels(write) OBVIOUS
<1> QED BY <1>1, <1>2, SameUnknown, Zenon
        DEF adjust_window, ChannelsOnly!adjust_window, Known, ChannelsOnly!Known, Update, ChannelsOnly!Update,
            GrantSendWindow, ChannelsOnly!GrantSendWindow, WithSendWindow, ChannelsOnly!WithSendWindow,
            saturating_add, ChannelsOnly!saturating_add, Smaller, ChannelsOnly!Smaller

LEMMA SameData ==
  ASSUME TypeOK, TypeOK', NEW m, data(m)
  PROVE  ChannelsOnly!data(m)
<1> DEFINE c == channels[m.to]
           left == c.receive_window - m.n
           added == Replenish(left) - left
           adjust == IF added > 0 THEN <<Msg("WindowAdjust", c.remote_id, added)>> ELSE <<>>
<1>1. ChannelsOnly!Idle BY SameIdle DEF data
<1>2. Adds(adjust) BY NothingKept, MessageKept, ServerKinds
<1>3. UNCHANGED write => UNCHANGED OfChannels(write) OBVIOUS
<1> QED BY <1>1, <1>2, <1>3, SameUnknown, SameFail, Zenon
        DEF data, ChannelsOnly!data, Adds, Known, ChannelsOnly!Known, Update, ChannelsOnly!Update,
            Replenish, ChannelsOnly!Replenish, WithReceiveWindow, ChannelsOnly!WithReceiveWindow,
            Msg, ChannelsOnly!Msg

LEMMA SameEof ==
  ASSUME TypeOK, NEW m, eof(m)
  PROVE  ChannelsOnly!eof(m)
<1>1. ChannelsOnly!Idle BY SameIdle DEF eof
<1>2. UNCHANGED vars => UNCHANGED ChannelsOnly!vars BY DEF vars, ChannelsOnly!vars
<1> QED BY <1>1, <1>2, SameUnknown DEF eof, ChannelsOnly!eof, Known, ChannelsOnly!Known

LEMMA SameClose ==
  ASSUME TypeOK, TypeOK', NEW m, close(m)
  PROVE  ChannelsOnly!close(m)
<1>1. ChannelsOnly!Idle BY SameIdle DEF close
<1>2. Appends(Msg("Close", channels[m.to].remote_id, 0)) BY AppendKept, ServerKinds
<1>3. UNCHANGED write => UNCHANGED OfChannels(write) OBVIOUS
<1> QED BY <1>1, <1>2, <1>3, Zenon
        DEF close, ChannelsOnly!close, Appends, Msg, ChannelsOnly!Msg, Known, ChannelsOnly!Known,
            Update, ChannelsOnly!Update, Remove, ChannelsOnly!Remove, WithClose, ChannelsOnly!WithClose,
            WithTerminal, ChannelsOnly!WithTerminal, WithShell, ChannelsOnly!WithShell,
            start_kill, ChannelsOnly!start_kill

\* What follows the PTY write is for a channel.
FlushForChannels == pending.out = <<>> \/ \E m : ForChannels(m) /\ pending.out = <<m>>

LEMMA FlushStep ==
  ASSUME FlushForChannels, Next \/ UNCHANGED pending
  PROVE  FlushForChannels'
<1>1. CASE UNCHANGED pending BY <1>1 DEF FlushForChannels
<1>2. ASSUME NEW m, data(m) PROVE FlushForChannels'
  <2> DEFINE c == channels[m.to]
             left == c.receive_window - m.n
             added == Replenish(left) - left
             x == Msg("WindowAdjust", c.remote_id, added)
             adjust == IF added > 0 THEN <<x>> ELSE <<>>
  <2>1. ForChannels(x) BY ServerKinds
  <2> HIDE DEF x
  <2>2. CASE pending' = [shell |-> c.terminal.shell, left |-> m.n, out |-> adjust]
    <3>1. pending'.out = adjust BY <2>2
    <3> QED BY <2>1, <3>1 DEF FlushForChannels
  <2>3. UNCHANGED pending \/ pending' = [shell |-> c.terminal.shell, left |-> m.n, out |-> adjust]
    BY <1>2, Zenon DEF data, UnknownChannel, Fail, x
  <2> QED BY <1>1, <2>2, <2>3
<1>3. CASE WritePty
  <2>1. CASE pending' = [pending EXCEPT !.left = @ - Smaller(pending.left, Room(shells[pending.shell]))]
    <3>1. pending'.out = pending.out BY <2>1
    <3> QED BY <3>1 DEF FlushForChannels
  <2>2. CASE pending' = NoWrite BY <2>2 DEF NoWrite, FlushForChannels
  <2> QED BY <1>1, <1>3, <2>1, <2>2 DEF WritePty, Fail
<1>4. ASSUME NEW m, open(m) \/ adjust_window(m) \/ eof(m) \/ close(m) PROVE UNCHANGED pending
  BY <1>4 DEF open, adjust_window, eof, close, UnknownChannel, Fail, vars
<1>5. ASSUME NEW m, NEW b, request(m, b) PROVE UNCHANGED pending
  BY <1>5 DEF request, UnknownChannel, Fail, PtyReq, Env, ShellError, StartShell, WindowChange, Refused
<1>6. CASE Poll
  BY <1>6, <1>1 DEF Poll, PollReady, PollPending, PollRead, PollEof, PollReadError, PollExit, PollClose, PollReap,
                    PollUnchanged, Fail
<1>7. CASE DeadlinePasses \/ ShellSteps \/ PeerReads \/ SessionEnds
  BY <1>1, <1>7 DEF DeadlinePasses, ShellSteps, PeerReads, SessionEnds
<1> QED BY <1>1, <1>2, <1>3, <1>4, <1>5, <1>6, <1>7 DEF Next

LEMMA SameWritePty ==
  ASSUME TypeOK, TypeOK', FlushForChannels, WritePty
  PROVE  ChannelsOnly!WritePty
<1>1. Adds(pending.out) BY NothingKept, MessageKept DEF FlushForChannels
<1>2. UNCHANGED write => UNCHANGED OfChannels(write) OBVIOUS
<1> QED BY <1>1, <1>2, SameFail, Zenon
        DEF WritePty, ChannelsOnly!WritePty, Adds, Smaller, ChannelsOnly!Smaller, Room, ChannelsOnly!Room,
            Filled, ChannelsOnly!Filled, NoWrite, ChannelsOnly!NoWrite

\* TerminalsFuture::poll.
LEMMA SamePoll ==
  ASSUME TypeOK, TypeOK', Poll
  PROVE  ChannelsOnly!Poll
<1> USE DEF Known, ChannelsOnly!Known, Smaller, ChannelsOnly!Smaller, Msg, ChannelsOnly!Msg, Shells, ChannelsOnly!Shells,
            TState, ChannelsOnly!TState, WithTerminal, ChannelsOnly!WithTerminal,
            ReadyRead, ChannelsOnly!ReadyRead, ReadyWait, ChannelsOnly!ReadyWait,
            Reaped, ChannelsOnly!Reaped, start_kill, ChannelsOnly!start_kill,
            ShellOf, ChannelsOnly!ShellOf, limit, ChannelsOnly!limit, Woken, ChannelsOnly!Woken,
            Returns, ChannelsOnly!Returns, FirstReady, ChannelsOnly!FirstReady,
            PassedReaps, ChannelsOnly!PassedReaps, PassedKills, ChannelsOnly!PassedKills,
            PassedChannel, ChannelsOnly!PassedChannel, PassedShells, ChannelsOnly!PassedShells,
            Below, ChannelsOnly!Below, PollAt, ChannelsOnly!PollAt, PollUnchanged, ChannelsOnly!PollUnchanged
<1>0. UNCHANGED write => UNCHANGED OfChannels(write) OBVIOUS
<1>1. CASE PollPending
  <2>1. ChannelsOnly!Idle BY <1>1, SameIdle DEF PollPending
  <2>2. ChannelsOnly!PollPending BY <1>0, <1>1, <2>1, Zenon DEF PollPending, ChannelsOnly!PollPending
  <2> QED BY <2>2 DEF ChannelsOnly!Poll
<1>2. ASSUME NEW id \in DOMAIN channels, PollReady(id)
      PROVE  ChannelsOnly!PollReady(id)
  <2> DEFINE r == channels[id].remote_id
  <2>0. ChannelsOnly!Idle
    BY <1>2, SameIdle DEF PollReady, PollRead, PollEof, PollReadError, PollExit, PollClose, PollReap
  <2>1. /\ \A n : Appends(Msg("Data", r, n)) /\ Appends(Msg("ExitStatus", r, n))
        /\ Appends(Msg("Eof", r, 0)) /\ Appends(Msg("Close", r, 0))
    BY AppendKept, ServerKinds
  <2>2. CASE PollRead(id)
    <3>1. ChannelsOnly!PollRead(id)
      BY <2>0, <2>1, <2>2, Zenon
      DEF PollRead, ChannelsOnly!PollRead, Appends, WithSendWindow, ChannelsOnly!WithSendWindow,
          Drained, ChannelsOnly!Drained
    <3> QED BY <3>1 DEF ChannelsOnly!PollReady
  <2>3. CASE PollEof(id)
    <3>1. ChannelsOnly!PollEof(id)
      BY <2>0, <2>1, <2>3, Zenon
      DEF PollEof, ChannelsOnly!PollEof, Appends, AtEof, ChannelsOnly!AtEof, WithShell, ChannelsOnly!WithShell
    <3> QED BY <3>1 DEF ChannelsOnly!PollReady
  <2>4. CASE PollReadError(id)
    <3>1. ChannelsOnly!PollReadError(id)
      BY <2>0, <2>4, SameFail, Zenon DEF PollReadError, ChannelsOnly!PollReadError
    <3> QED BY <3>1 DEF ChannelsOnly!PollReady
  <2>5. CASE PollExit(id)
    <3>1. ChannelsOnly!PollExit(id)
      BY <2>0, <2>1, <2>5, Zenon
      DEF PollExit, ChannelsOnly!PollExit, Appends, WithClose, ChannelsOnly!WithClose
    <3> QED BY <3>1 DEF ChannelsOnly!PollReady
  <2>6. CASE PollClose(id)
    <3>1. ChannelsOnly!PollClose(id)
      BY <2>0, <2>1, <2>6, Zenon DEF PollClose, ChannelsOnly!PollClose, Appends, WithClose, ChannelsOnly!WithClose
    <3> QED BY <3>1 DEF ChannelsOnly!PollReady
  <2>7. CASE PollReap(id)
    <3>1. ChannelsOnly!PollReap(id) BY <1>0, <2>0, <2>7, Zenon DEF PollReap, ChannelsOnly!PollReap
    <3> QED BY <3>1 DEF ChannelsOnly!PollReady
  <2> QED BY <1>2, <2>2, <2>3, <2>4, <2>5, <2>6, <2>7 DEF PollReady
<1> QED BY <1>1, <1>2 DEF Poll, ChannelsOnly!Poll

\* The world around the session.
LEMMA SameEnvironment ==
  ASSUME DeadlinePasses \/ ShellSteps
  PROVE  ChannelsOnly!DeadlinePasses \/ ChannelsOnly!ShellSteps
<1>0. UNCHANGED write => UNCHANGED OfChannels(write) OBVIOUS
<1>1. CASE DeadlinePasses
  BY <1>0, <1>1, Zenon
  DEF DeadlinePasses, ChannelsOnly!DeadlinePasses, Update, ChannelsOnly!Update, Late, ChannelsOnly!Late,
      WithTerminal, ChannelsOnly!WithTerminal
<1>2. CASE ShellSteps
  <2>1. \A p \in Shells : ShellStep(p) => ChannelsOnly!ShellStep(p)
    BY Zenon
    DEF ShellStep, ChannelsOnly!ShellStep, ShellReads, ChannelsOnly!ShellReads, ShellAnswers, ChannelsOnly!ShellAnswers,
        ShellWrites, ChannelsOnly!ShellWrites, ShellExits, ChannelsOnly!ShellExits, ShellDies, ChannelsOnly!ShellDies,
        ShellHangsUp, ChannelsOnly!ShellHangsUp, Becomes, ChannelsOnly!Becomes, Consumed, ChannelsOnly!Consumed,
        Answered, ChannelsOnly!Answered, Wrote, ChannelsOnly!Wrote, HungUp, ChannelsOnly!HungUp,
        Exited, ChannelsOnly!Exited, Attached, ChannelsOnly!Attached, Leaves, ChannelsOnly!Leaves,
        ExitStatuses, ChannelsOnly!ExitStatuses
  <2> QED BY <1>0, <1>2, <2>1, Zenon DEF ShellSteps, ChannelsOnly!ShellSteps, Shells, ChannelsOnly!Shells
<1> QED BY <1>1, <1>2

\* The peer reads a message of a channel, or one the channels know nothing of.
LEMMA SameReads ==
  ASSUME TypeOK, PeerReads
  PROVE  ChannelsOnly!PeerReads \/ UNCHANGED ChannelsOnly!vars
<1> DEFINE a == Head(write)
           k == OfChannels(write)
           l == OfChannels(Tail(write))
<1>1. write \in Seq(ServerMessage) /\ write /= <<>> /\ write' = Tail(write) BY DEF TypeOK, PeerReads
<1>2. Tail(write) \in Seq(ServerMessage) /\ a \in ServerMessage BY <1>1
<1>3. k = IF ForChannels(a) THEN <<a>> \o l ELSE l BY <1>1, OfChannelsTail
<1>4. l \in Seq(ServerMessage) BY <1>2, OfChannelsSeq
<1>5. OfChannels(write') = l BY <1>1
<1> HIDE DEF a, l
<1>6. CASE ForChannels(a)
  <2>1. k = <<a>> \o l BY <1>3, <1>6
  <2> HIDE DEF k
  <2>2. k /= <<>> /\ Tail(k) = l BY <1>2, <1>4, <2>1
  <2> QED BY <1>5, <2>2 DEF PeerReads, ChannelsOnly!PeerReads, k
<1>7. CASE ~ForChannels(a) BY <1>3, <1>5, <1>7 DEF PeerReads, ChannelsOnly!vars
<1> QED BY <1>6, <1>7

LEMMA SameEnds ==
  ASSUME SessionEnds
  PROVE  ChannelsOnly!SessionEnds
BY DEF SessionEnds, ChannelsOnly!SessionEnds, NoWrite, ChannelsOnly!NoWrite

\* Every step of the channels is one of the channels without the loop.
LEMMA SameNext ==
  ASSUME TypeOK, TypeOK', FlushForChannels, Next
  PROVE  [ChannelsOnly!Next]_ChannelsOnly!vars
<1> USE DEF Ids, ChannelsOnly!Ids
<1>1. ASSUME NEW m \in ChannelOpen, open(m) PROVE ChannelsOnly!Next
  BY <1>1, SameOpen DEF ChannelsOnly!Next, ChannelOpen, ChannelsOnly!ChannelOpen
<1>2. ASSUME NEW m \in ChannelRequest, NEW b \in Banners(m), request(m, b) PROVE ChannelsOnly!Next
  BY <1>2, SameRequest, Zenon DEF ChannelsOnly!Next, ChannelRequest, ChannelsOnly!ChannelRequest, RequestTypes, ChannelsOnly!RequestTypes,
                                  Banners, ChannelsOnly!Banners
<1>3. ASSUME NEW m \in ChannelWindowAdjust, adjust_window(m) PROVE ChannelsOnly!Next
  BY <1>3, SameAdjust DEF ChannelsOnly!Next, ChannelWindowAdjust, ChannelsOnly!ChannelWindowAdjust
<1>4. ASSUME NEW m \in ChannelData, data(m) PROVE ChannelsOnly!Next
  BY <1>4, SameData DEF ChannelsOnly!Next, ChannelData, ChannelsOnly!ChannelData
<1>5. ASSUME NEW m \in ChannelEof, eof(m) PROVE ChannelsOnly!Next
  BY <1>5, SameEof DEF ChannelsOnly!Next, ChannelEof, ChannelsOnly!ChannelEof
<1>6. ASSUME NEW m \in ChannelClose, close(m) PROVE ChannelsOnly!Next
  BY <1>6, SameClose DEF ChannelsOnly!Next, ChannelClose, ChannelsOnly!ChannelClose
<1>7. CASE WritePty BY <1>7, SameWritePty DEF ChannelsOnly!Next
<1>8. CASE Poll BY <1>8, SamePoll DEF ChannelsOnly!Next
<1>9. CASE DeadlinePasses \/ ShellSteps BY <1>9, SameEnvironment DEF ChannelsOnly!Next
<1>10. CASE PeerReads BY <1>10, SameReads DEF ChannelsOnly!Next
<1>11. CASE SessionEnds BY <1>11, SameEnds DEF ChannelsOnly!Next
<1> QED BY <1>1, <1>2, <1>3, <1>4, <1>5, <1>6, <1>7, <1>8, <1>9, <1>10, <1>11 DEF Next

\* With the messages of the key exchange and the global requests left out of
\* the stream, the session loop implements the channels: Session::run calls
\* one handler or one poll at a time and its own messages come between them.
THEOREM SessionImplements == SpecSession => ImplementsChannels
<1>1. InitSession => ChannelsOnly!Init /\ FlushForChannels
  BY OfChannelsNone DEF InitSession, Init, ChannelsOnly!Init, InitShells, ChannelsOnly!InitShells, Unspawned, ChannelsOnly!Unspawned,
     Shells, ChannelsOnly!Shells, TState, ChannelsOnly!TState, NoWrite, ChannelsOnly!NoWrite, Ids, ChannelsOnly!Ids,
     FlushForChannels
<1>2. UNCHANGED vars => UNCHANGED ChannelsOnly!vars BY DEF vars, ChannelsOnly!vars
<1>3. ASSUME TypeOK, TypeOK', NEW m \in LoopMessage, LoopSends(m) PROVE UNCHANGED ChannelsOnly!vars
  <2>1. m \in ServerMessage /\ ~ForChannels(m) BY DEF LoopMessage, ServerMessage, ForChannels, KxTypes
  <2>2. write \in Seq(ServerMessage) /\ write' = Append(write, m) BY <1>3 DEF TypeOK, LoopSends
  <2>3. OfChannels(write') = OfChannels(write) BY <2>1, <2>2, OfChannelsAppend DEF Keep
  <2> QED BY <1>3, <2>3 DEF LoopSends, ChannelsOnly!vars
<1>4. FlushForChannels /\ [NextSession]_sessionVars => FlushForChannels'
  BY LoopStep, FlushStep DEF LoopSends, vars, sessionVars
<1>5. TypeOK /\ TypeOK' /\ FlushForChannels /\ [NextSession]_sessionVars => [ChannelsOnly!Next]_ChannelsOnly!vars
  BY <1>2, <1>3, LoopStep, SameNext DEF sessionVars
<1>6. IInv => TypeOK BY DEF IInv
<1> QED BY <1>1, <1>4, <1>5, <1>6, SessionInductive, PTL DEF SpecSession, ImplementsChannels, ChannelsOnly!Spec
=============================================================================
