--------------------------- MODULE TransportProofs ---------------------------
(***************************************************************************)
(* The transport of Transport, for every length of the packets, every      *)
(* modulus of the sequence numbers, every capacity of the network and any  *)
(* number of messages and key exchanges.                                   *)
(***************************************************************************)
EXTENDS Transport, SequenceTheorems, TLAPS

(* Types. *)

Message ==
  [type : MessageTypes \ {"KexInit", "EcdhInit", "EcdhReply"}]
    \union [type : {"EcdhInit", "EcdhReply"}, n : Nat]
    \union [type : {"KexInit"}, n : Nat, strict : BOOLEAN, ext_info : BOOLEAN]

\* What an exchange hash covers, and the keys that come of it.
Exchange == Seq(Message \union {"V_C", "V_S", "K_S"})
Keys == {NoKey} \union ({"c2s", "s2c"} \X Exchange \X Exchange)
KeyState == [key : Keys, counter : Nat]

SequenceNumber == 0..SequenceModulus - 1
WirePacket == [msg : Message, key : Keys, counter : Nat, seq : SequenceNumber]
Cell == [packet : WirePacket, at : Nat]

WriteState == [buf : Seq(Cell), written : Nat, sequence_number : SequenceNumber, sealer : KeyState,
               log : Seq(WirePacket)]

ReadState == [buf : Seq(Cell), last_length : Nat, sequence_number : SequenceNumber, opener : KeyState,
              log : Seq(WirePacket)]

ServerState ==
  [at : {"identify", "ident", "receive", "flush", "notify", "spawn", "handoff", "closed"},
   stage : {"kx", "auth", "granted", "session"},
   state : {"AwaitingKexInit", "AwaitingEcdhInit", "AwaitingNewKeys"},
   exchange : Exchange, session_id : Exchange, strict_kx : BOOLEAN, ext_info : BOOLEAN,
   identities : Exchange, exchanges : Nat, outputs : Nat, failed : BOOLEAN]

ClientState ==
  [at : {"new", "idle", "kexinit", "answered", "ecdh", "reply", "newkeys"},
   strict : BOOLEAN, ext_info : BOOLEAN, asked : BOOLEAN, heard : BOOLEAN,
   exchange : Exchange, session_id : Exchange, exchanges : Nat, messages : Nat, strays : Nat,
   ok : BOOLEAN, read : ReadState, write : WriteState]

-----------------------------------------------------------------------------
(* Packets and cells. *)

\* A packet has at least one cell.
LEMMA SizeFacts ==
  ASSUME NEW m \in Message
  PROVE  m.type \in MessageTypes /\ Size[m.type] \in Nat \ {0} /\ Size[m.type] <= Capacity
<1>1. m.type \in MessageTypes BY DEF Message, MessageTypes
<1> QED BY <1>1, TransportAssumption, PacketIOAssumption

\* The messages of an exchange are typed by their names.
LEMMA MessageFacts ==
  ASSUME NEW m \in Message
  PROVE  /\ m.type = "KexInit" => m.n \in Nat /\ m.strict \in BOOLEAN /\ m.ext_info \in BOOLEAN
         /\ m.type \in {"EcdhInit", "EcdhReply"} => m.n \in Nat
BY DEF Message, MessageTypes

\* The messages there are.
LEMMA MsgType ==
  /\ \A t \in MessageTypes \ {"KexInit", "EcdhInit", "EcdhReply"} : Msg(t) \in Message /\ Msg(t).type = t
  /\ \A n \in Nat : \A t \in {"EcdhInit", "EcdhReply"} : Fresh(t, n) \in Message /\ Fresh(t, n).type = t
  /\ \A n \in Nat : \A s, e \in BOOLEAN : KexInit(n, s, e) \in Message /\ KexInit(n, s, e).type = "KexInit"
BY DEF Msg, Fresh, KexInit, Message

\* The cells of a packet.
LEMMA CellsFacts ==
  ASSUME NEW p \in WirePacket
  PROVE  /\ Cells(p) \in Seq(Cell) /\ Cells(p) /= <<>>
         /\ Len(Cells(p)) = Size[p.msg.type] /\ Size[p.msg.type] \in Nat \ {0}
         /\ \A k \in 1..Size[p.msg.type] : Cells(p)[k] = [packet |-> p, at |-> k]
<1>1. Size[p.msg.type] \in Nat \ {0} BY SizeFacts DEF WirePacket
<1>2. \A k \in 1..Size[p.msg.type] : [packet |-> p, at |-> k] \in Cell BY DEF Cell
<1>3. /\ Cells(p) \in [1..Size[p.msg.type] -> Cell]
      /\ \A k \in 1..Size[p.msg.type] : Cells(p)[k] = [packet |-> p, at |-> k]
  BY <1>2 DEF Cells
<1>4. Cells(p) \in Seq(Cell) /\ Len(Cells(p)) = Size[p.msg.type] BY <1>1, <1>3
<1> QED BY <1>1, <1>3, <1>4

\* The packet that encode makes, and the state it leaves.
LEMMA EncodeFacts ==
  ASSUME NEW w \in WriteState, NEW m \in Message
  PROVE  LET p == Packet(m, w.sealer.key, w.sealer.counter, w.sequence_number)
             v == encode(w, m)
         IN /\ p \in WirePacket /\ v \in WriteState
            /\ v.buf = w.buf \o Cells(p) /\ v.log = Append(w.log, p) /\ v.written = w.written
            /\ v.sealer = Used(w.sealer) /\ v.sequence_number = (w.sequence_number + 1) % SequenceModulus
<1> DEFINE p == Packet(m, w.sealer.key, w.sealer.counter, w.sequence_number)
           v == encode(w, m)
<1>1. /\ w.buf \in Seq(Cell) /\ w.written \in Nat /\ w.sequence_number \in SequenceNumber
      /\ w.sealer \in KeyState /\ w.log \in Seq(WirePacket)
  BY DEF WriteState
<1>2. p \in WirePacket BY <1>1 DEF Packet, WirePacket, KeyState
<1>3. w.buf \o Cells(p) \in Seq(Cell) /\ Append(w.log, p) \in Seq(WirePacket)
  BY <1>1, <1>2, CellsFacts
<1>4. Used(w.sealer) \in KeyState BY <1>1 DEF Used, KeyState
<1>5. (w.sequence_number + 1) % SequenceModulus \in SequenceNumber
  BY <1>1, PacketIOAssumption DEF SequenceNumber
<1>6. v = [w EXCEPT !.buf = @ \o Cells(p), !.log = Append(@, p), !.sealer = Used(@),
                    !.sequence_number = (@ + 1) % SequenceModulus]
  BY DEF encode
<1> HIDE DEF p, v
<1>7. /\ v \in WriteState
      /\ v.buf = w.buf \o Cells(p) /\ v.log = Append(w.log, p) /\ v.written = w.written
      /\ v.sealer = Used(w.sealer) /\ v.sequence_number = (w.sequence_number + 1) % SequenceModulus
  BY <1>3, <1>4, <1>5, <1>6 DEF WriteState
<1> QED BY <1>2, <1>7 DEF p, v

\* The same for the identification, which is not framed.
LEMMA EncodedFacts ==
  ASSUME NEW w \in WriteState, NEW m \in Message
  PROVE  LET p == Packet(m, NoKey, 0, 0)
             v == encoded(w, m)
         IN /\ p \in WirePacket /\ v \in WriteState
            /\ v.buf = w.buf \o Cells(p) /\ v.log = Append(w.log, p) /\ v.written = w.written
            /\ v.sealer = w.sealer /\ v.sequence_number = w.sequence_number
<1> DEFINE p == Packet(m, NoKey, 0, 0)
           v == encoded(w, m)
<1>1. /\ w.buf \in Seq(Cell) /\ w.written \in Nat /\ w.sequence_number \in SequenceNumber
      /\ w.sealer \in KeyState /\ w.log \in Seq(WirePacket)
  BY DEF WriteState
<1>2. p \in WirePacket BY PacketIOAssumption DEF Packet, WirePacket, Keys, SequenceNumber
<1>3. w.buf \o Cells(p) \in Seq(Cell) /\ Append(w.log, p) \in Seq(WirePacket)
  BY <1>1, <1>2, CellsFacts
<1>4. v = [w EXCEPT !.buf = @ \o Cells(p), !.log = Append(@, p)] BY DEF encoded
<1> HIDE DEF p, v
<1>5. /\ v \in WriteState
      /\ v.buf = w.buf \o Cells(p) /\ v.log = Append(w.log, p) /\ v.written = w.written
      /\ v.sealer = w.sealer /\ v.sequence_number = w.sequence_number
  BY <1>3, <1>4 DEF WriteState
<1> QED BY <1>2, <1>5 DEF p, v

-----------------------------------------------------------------------------
(* Streams.  Carries(st, log, n) says that st holds exactly the packets of *)
(* log after the first n, one behind the other: pos[i] is where the ith    *)
(* ends.                                                                   *)

Carries(st, log, n) ==
  /\ n \in 0..Len(log)
  /\ \E pos \in [n..Len(log) -> 0..Len(st)] :
       /\ pos[n] = 0 /\ pos[Len(log)] = Len(st)
       /\ \A i, j \in n..Len(log) : i <= j => pos[i] <= pos[j]
       /\ \A i \in n + 1..Len(log) :
            /\ pos[i] = pos[i - 1] + Size[log[i].msg.type]
            /\ \A k \in 1..Size[log[i].msg.type] : st[pos[i - 1] + k] = [packet |-> log[i], at |-> k]

\* A packet more, at the end of the stream and of the log.
LEMMA CarriesAppend ==
  ASSUME NEW st \in Seq(Cell), NEW log \in Seq(WirePacket), NEW n, Carries(st, log, n),
         NEW p \in WirePacket
  PROVE  Carries(st \o Cells(p), Append(log, p), n)
<1> DEFINE z == Size[p.msg.type]
           l == Len(log)
           t == st \o Cells(p)
           u == Append(log, p)
<1>1. /\ z \in Nat \ {0} /\ Len(Cells(p)) = z /\ Cells(p) \in Seq(Cell)
      /\ \A k \in 1..z : Cells(p)[k] = [packet |-> p, at |-> k]
  BY CellsFacts
<1>2. PICK pos \in [n..l -> 0..Len(st)] :
         /\ pos[n] = 0 /\ pos[l] = Len(st)
         /\ \A i, j \in n..l : i <= j => pos[i] <= pos[j]
         /\ \A i \in n + 1..l :
              /\ pos[i] = pos[i - 1] + Size[log[i].msg.type]
              /\ \A k \in 1..Size[log[i].msg.type] : st[pos[i - 1] + k] = [packet |-> log[i], at |-> k]
  BY DEF Carries
<1>3. n \in 0..l /\ l \in Nat /\ Len(st) \in Nat BY DEF Carries
<1>4. /\ Len(u) = l + 1 /\ u[l + 1] = p /\ \A i \in 1..l : u[i] = log[i] BY <1>3
<1>5. /\ Len(t) = Len(st) + z
      /\ \A k \in 1..Len(st) : t[k] = st[k]
      /\ \A k \in 1..z : t[Len(st) + k] = [packet |-> p, at |-> k]
  <2> DEFINE c == Cells(p)
  <2> HIDE DEF c, z, l
  <2>1. c \in Seq(Cell) /\ Len(c) = z /\ z \in Nat BY <1>1 DEF c
  <2>2. Len(st \o c) = Len(st) + z BY <2>1
  <2>3. \A k \in 1..Len(st) : (st \o c)[k] = st[k] BY <2>1
  <2>4. \A k \in 1..z : (st \o c)[Len(st) + k] = c[k] BY <1>3, <2>1
  <2>5. \A k \in 1..z : c[k] = [packet |-> p, at |-> k] BY <1>1 DEF c
  <2> QED BY <2>2, <2>3, <2>4, <2>5 DEF c
<1> HIDE DEF t, u, z, l
<1> DEFINE q == [i \in n..l + 1 |-> IF i = l + 1 THEN Len(t) ELSE pos[i]]
<1>6. q \in [n..l + 1 -> 0..Len(t)] BY <1>1, <1>2, <1>3, <1>5
<1>7. q[n] = 0 /\ q[l + 1] = Len(t) /\ \A i \in n..l : q[i] = pos[i] BY <1>2, <1>3
<1> HIDE DEF q
<1>8. ASSUME NEW i \in n..l + 1, NEW j \in n..l + 1, i <= j PROVE q[i] <= q[j]
  <2>1. CASE j = l + 1
    <3>1. q[i] \in 0..Len(t) BY <1>6
    <3> QED BY <1>7, <2>1, <3>1
  <2>2. CASE j /= l + 1
    <3>1. i \in n..l /\ j \in n..l BY <1>3, <1>8, <2>2
    <3>2. pos[i] <= pos[j] BY <1>2, <1>8, <3>1
    <3> QED BY <1>7, <3>1, <3>2
  <2> QED BY <2>1, <2>2
<1>9. ASSUME NEW i \in n + 1..l + 1
      PROVE  /\ q[i] = q[i - 1] + Size[u[i].msg.type]
             /\ \A k \in 1..Size[u[i].msg.type] : t[q[i - 1] + k] = [packet |-> u[i], at |-> k]
  <2>1. CASE i = l + 1
    <3>1. u[i] = p /\ q[i - 1] = Len(st) /\ q[i] = Len(st) + z BY <1>2, <1>3, <1>4, <1>5, <1>7, <2>1
    <3> QED BY <1>5, <3>1 DEF z
  <2>2. CASE i /= l + 1
    <3>1. i \in n + 1..l /\ i - 1 \in n..l /\ i \in n..l /\ i \in 1..l BY <1>3, <2>2
    <3>2. u[i] = log[i] /\ q[i] = pos[i] /\ q[i - 1] = pos[i - 1] BY <1>4, <1>7, <3>1
    <3>3. log[i] \in WirePacket BY <3>1 DEF l
    <3>4. Size[log[i].msg.type] \in Nat BY <3>3, CellsFacts
    <3> DEFINE s == Size[log[i].msg.type]
    <3>5. /\ pos[i] = pos[i - 1] + s
          /\ \A k \in 1..s : st[pos[i - 1] + k] = [packet |-> log[i], at |-> k]
      BY <1>2, <3>1
    <3>6. pos[i - 1] \in 0..Len(st) /\ pos[i] \in 0..Len(st) BY <1>2, <3>1
    <3>9. s \in Nat BY <3>4
    <3> HIDE DEF s
    <3>7. \A k \in 1..s : pos[i - 1] + k \in 1..Len(st) BY <1>3, <3>5, <3>6, <3>9
    <3>8. \A k \in 1..s : t[pos[i - 1] + k] = [packet |-> log[i], at |-> k] BY <1>5, <3>5, <3>7
    <3> QED BY <3>2, <3>5, <3>8 DEF s
  <2> QED BY <2>1, <2>2
<1>10. n \in 0..Len(u) BY <1>3, <1>4
<1> DEFINE m == l + 1
<1>11. /\ q \in [n..m -> 0..Len(t)] /\ q[n] = 0 /\ q[m] = Len(t)
       /\ \A i, j \in n..m : i <= j => q[i] <= q[j]
       /\ \A i \in n + 1..m :
            /\ q[i] = q[i - 1] + Size[u[i].msg.type]
            /\ \A k \in 1..Size[u[i].msg.type] : t[q[i - 1] + k] = [packet |-> u[i], at |-> k]
  BY <1>6, <1>7, <1>8, <1>9
<1>12. m = Len(u) BY <1>4
<1> HIDE DEF m
<1>13. Carries(t, u, n) BY <1>10, <1>11, <1>12 DEF Carries
<1> QED BY <1>13 DEF t, u

\* A stream that is not empty begins with the whole of the next packet; what
\* is behind it carries the rest.
LEMMA CarriesHead ==
  ASSUME NEW st \in Seq(Cell), NEW log \in Seq(WirePacket), NEW n, Carries(st, log, n), st /= <<>>
  PROVE  LET p == log[n + 1]
             z == Size[p.msg.type]
         IN /\ n + 1 \in 1..Len(log) /\ p \in WirePacket /\ st[1] = [packet |-> p, at |-> 1]
            /\ z \in 1..Len(st) /\ SubSeq(st, 1, z) = Cells(p)
            /\ Carries(SubSeq(st, z + 1, Len(st)), log, n + 1)
<1> DEFINE p == log[n + 1]
           z == Size[p.msg.type]
           l == Len(log)
           t == SubSeq(st, z + 1, Len(st))
<1>1. PICK pos \in [n..l -> 0..Len(st)] :
         /\ pos[n] = 0 /\ pos[l] = Len(st)
         /\ \A i, j \in n..l : i <= j => pos[i] <= pos[j]
         /\ \A i \in n + 1..l :
              /\ pos[i] = pos[i - 1] + Size[log[i].msg.type]
              /\ \A k \in 1..Size[log[i].msg.type] : st[pos[i - 1] + k] = [packet |-> log[i], at |-> k]
  BY DEF Carries
<1>2. n \in 0..l /\ l \in Nat /\ Len(st) \in Nat /\ Len(st) > 0 BY DEF Carries
<1>3. n + 1 \in 1..l /\ n + 1 \in n + 1..l /\ n + 1 \in n..l /\ l \in n..l BY <1>1, <1>2
<1>4. p \in WirePacket BY <1>3
<1>5. /\ z \in Nat \ {0} /\ Cells(p) \in Seq(Cell) /\ Len(Cells(p)) = z
      /\ \A k \in 1..z : Cells(p)[k] = [packet |-> p, at |-> k]
  BY <1>4, CellsFacts
<1>6. pos[n + 1] = z /\ \A k \in 1..z : st[k] = [packet |-> p, at |-> k]
  BY <1>1, <1>2, <1>3, <1>5
<1> HIDE DEF p, z, l
<1>7. z <= Len(st) BY <1>1, <1>3, <1>6
<1>8. SubSeq(st, 1, z) = Cells(p)
  <2> DEFINE a == SubSeq(st, 1, z)
  <2>1. a \in Seq(Cell) /\ Len(a) = z /\ \A k \in 1..z : a[k] = st[k] BY <1>2, <1>5, <1>7
  <2> HIDE DEF a
  <2>2. \A k \in 1..z : a[k] = Cells(p)[k] BY <1>5, <1>6, <2>1
  <2>3. a = Cells(p) BY <1>5, <2>1, <2>2, SeqEqual
  <2> QED BY <2>3 DEF a
<1>9. Len(t) = Len(st) - z /\ \A k \in 1..Len(st) - z : t[k] = st[k + z]
  BY <1>2, <1>5, <1>7
<1> HIDE DEF t
<1> DEFINE q == [i \in n + 1..l |-> pos[i] - z]
<1>10. \A i \in n + 1..l : pos[i] \in Nat /\ pos[i] >= z /\ pos[i] <= Len(st)
  BY <1>1, <1>2, <1>3, <1>5, <1>6
<1>11. q \in [n + 1..l -> 0..Len(t)] BY <1>2, <1>5, <1>9, <1>10
<1>12. q[n + 1] = 0 /\ q[l] = Len(t) BY <1>1, <1>3, <1>5, <1>6, <1>9
<1>13. \A i, j \in n + 1..l : i <= j => q[i] <= q[j] BY <1>1, <1>2, <1>5, <1>10
<1>14. ASSUME NEW i \in (n + 1) + 1..l
       PROVE  /\ q[i] = q[i - 1] + Size[log[i].msg.type]
              /\ \A k \in 1..Size[log[i].msg.type] : t[q[i - 1] + k] = [packet |-> log[i], at |-> k]
  <2>1. i \in n + 1..l /\ i - 1 \in n + 1..l /\ i \in 1..l BY <1>2
  <2>2. log[i] \in WirePacket BY <2>1 DEF l
  <2>3. Size[log[i].msg.type] \in Nat BY <2>2, CellsFacts
  <2>4. pos[i] = pos[i - 1] + Size[log[i].msg.type] BY <1>1, <2>1
  <2>5. q[i] = pos[i] - z /\ q[i - 1] = pos[i - 1] - z BY <2>1
  <2>6. ASSUME NEW k \in 1..Size[log[i].msg.type]
        PROVE  t[q[i - 1] + k] = [packet |-> log[i], at |-> k]
    <3>1. q[i - 1] + k \in 1..Len(st) - z
      <4> DEFINE s == Size[log[i].msg.type]
      <4>1. k \in 1..s /\ s \in Nat /\ pos[i] = pos[i - 1] + s BY <2>3, <2>4
      <4>2. pos[i] \in Nat /\ pos[i] <= Len(st) /\ pos[i - 1] \in Nat /\ pos[i - 1] >= z
        BY <1>10, <2>1
      <4> HIDE DEF s, q
      <4> DEFINE a == pos[i - 1]
                 b == pos[i]
                 w == q[i - 1]
                 m == Len(st)
      <4>3. /\ k \in 1..s /\ s \in Nat /\ b = a + s /\ b \in Nat /\ b <= m /\ a \in Nat /\ a >= z
            /\ w = a - z /\ m \in Nat /\ z \in Nat
        BY <1>2, <1>5, <2>5, <4>1, <4>2
      <4> HIDE DEF a, b, w, m
      <4>4. w + k \in 1..m - z BY <4>3
      <4> QED BY <4>4 DEF w, m
    <3>2. (q[i - 1] + k) + z = pos[i - 1] + k BY <1>5, <1>10, <2>1, <2>3, <2>5
    <3>3. t[q[i - 1] + k] = st[pos[i - 1] + k] BY <1>9, <3>1, <3>2
    <3> QED BY <1>1, <2>1, <3>3
  <2> QED BY <1>5, <1>10, <2>1, <2>3, <2>4, <2>5, <2>6
<1> HIDE DEF q
<1>15. n + 1 \in 0..l BY <1>3
<1>16. Carries(t, log, n + 1)
  BY <1>11, <1>12, <1>13, <1>14, <1>15 DEF Carries, l
<1>17. st[1] = [packet |-> p, at |-> 1]
  <2>1. 1 \in 1..z BY <1>5
  <2> QED BY <1>6, <2>1
<1> QED BY <1>3, <1>4, <1>5, <1>7, <1>8, <1>16, <1>17 DEF p, z, l, t

-----------------------------------------------------------------------------
(* Sequences without their first elements. *)

Drop(s, k) == SubSeq(s, k + 1, Len(s))

LEMMA CellsAssociative ==
  \A a, b, c \in Seq(Cell) : (a \o b) \o c = a \o (b \o c)
<1> TAKE a, b, c \in Seq(Cell)
<1> DEFINE x == (a \o b) \o c
           y == a \o (b \o c)
<1>1. x \in Seq(Cell) /\ y \in Seq(Cell) /\ Len(x) = Len(y) OBVIOUS
<1>2. \A i \in 1..Len(x) : x[i] = y[i] OBVIOUS
<1> HIDE DEF x, y
<1>3. x = y BY <1>1, <1>2, SeqEqual
<1> QED BY <1>3 DEF x, y

LEMMA DropFacts ==
  ASSUME NEW S, NEW s \in Seq(S), NEW k \in Nat, k <= Len(s)
  PROVE  /\ Drop(s, k) \in Seq(S) /\ Len(Drop(s, k)) = Len(s) - k
         /\ \A i \in 1..Len(s) - k : Drop(s, k)[i] = s[k + i]
         /\ Drop(s, k) = <<>> <=> k = Len(s)
<1> DEFINE t == SubSeq(s, k + 1, Len(s))
<1>1. t \in Seq(S) /\ Len(t) = Len(s) - k /\ \A i \in 1..Len(s) - k : t[i] = s[k + i]
  OBVIOUS
<1>2. Len(s) \in Nat OBVIOUS
<1> HIDE DEF t
<1>3. t = <<>> <=> Len(t) = 0 BY <1>1
<1>4. t = <<>> <=> k = Len(s) BY <1>1, <1>2, <1>3
<1> QED BY <1>1, <1>4 DEF t, Drop

LEMMA DropNone ==
  ASSUME NEW S, NEW s \in Seq(S)
  PROVE  Drop(s, 0) = s
BY SubSeqFull DEF Drop

\* What is behind stays behind.
LEMMA DropConcat ==
  ASSUME NEW S, NEW b \in Seq(S), NEW c \in Seq(S), NEW k \in Nat, k <= Len(b)
  PROVE  Drop(b \o c, k) = Drop(b, k) \o c
<1> DEFINE d == b \o c
           x == Drop(d, k)
           s == Drop(b, k)
           y == s \o c
<1>1. d \in Seq(S) /\ Len(d) = Len(b) + Len(c) /\ Len(b) \in Nat /\ Len(c) \in Nat OBVIOUS
<1>2. \A i \in 1..Len(b) + Len(c) : d[i] = IF i <= Len(b) THEN b[i] ELSE c[i - Len(b)] OBVIOUS
<1> HIDE DEF d
<1>3. k <= Len(d) BY <1>1
<1>4. /\ x \in Seq(S) /\ Len(x) = Len(d) - k
      /\ \A i \in 1..Len(d) - k : x[i] = d[k + i]
  BY <1>1, <1>3, DropFacts
<1>5. /\ s \in Seq(S) /\ Len(s) = Len(b) - k
      /\ \A i \in 1..Len(b) - k : s[i] = b[k + i]
  BY DropFacts
<1> HIDE DEF x, s
<1>6. y \in Seq(S) /\ Len(y) = Len(s) + Len(c) BY <1>5
<1>7. \A i \in 1..Len(s) + Len(c) : y[i] = IF i <= Len(s) THEN s[i] ELSE c[i - Len(s)] BY <1>5
<1> HIDE DEF y
<1>8. Len(x) = Len(y) BY <1>1, <1>4, <1>5, <1>6
<1>9. ASSUME NEW i \in 1..Len(x) PROVE x[i] = y[i]
  <2>1. i \in Nat /\ i >= 1 /\ i <= Len(d) - k /\ x[i] = d[k + i] BY <1>1, <1>4
  <2>2. k + i \in 1..Len(b) + Len(c) /\ i \in 1..Len(s) + Len(c) BY <1>1, <1>5, <2>1
  <2>3. CASE i <= Len(s)
    <3>1. y[i] = s[i] BY <1>7, <2>2, <2>3
    <3>2. i \in 1..Len(b) - k /\ k + i <= Len(b) BY <1>1, <1>5, <2>1, <2>3
    <3> QED BY <1>2, <1>5, <2>1, <2>2, <3>1, <3>2
  <2>4. CASE ~(i <= Len(s))
    <3>1. y[i] = c[i - Len(s)] BY <1>7, <2>2, <2>4
    <3>2. ~(k + i <= Len(b)) /\ (k + i) - Len(b) = i - Len(s) BY <1>1, <1>5, <2>1, <2>4
    <3>3. d[k + i] = c[(k + i) - Len(b)] BY <1>2, <2>2, <3>2
    <3> QED BY <2>1, <3>1, <3>2, <3>3
  <2> QED BY <2>3, <2>4
<1>10. x = y BY <1>4, <1>6, <1>8, <1>9, SeqEqual
<1> QED BY <1>10 DEF x, y, s, d

\* Moving the first k of d behind c leaves the whole as it is.
LEMMA MoveConcat ==
  ASSUME NEW c \in Seq(Cell), NEW d \in Seq(Cell), NEW k \in Nat, k <= Len(d)
  PROVE  /\ SubSeq(d, 1, k) \in Seq(Cell) /\ Len(SubSeq(d, 1, k)) = k
         /\ c \o SubSeq(d, 1, k) \in Seq(Cell) /\ Len(c \o SubSeq(d, 1, k)) = Len(c) + k
         /\ (c \o SubSeq(d, 1, k)) \o Drop(d, k) = c \o d
<1> DEFINE x == SubSeq(d, 1, k)
           y == Drop(d, k)
<1>1. x \in Seq(Cell) /\ Len(x) = k OBVIOUS
<1>2. y \in Seq(Cell) BY DropFacts
<1>3. x \o y = d
  <2>1. Len(d) \in Nat /\ k \in 0..Len(d) /\ 1 \in 1..Len(d) + 1 /\ k \in (1 - 1)..Len(d) /\ Len(d) \in k..Len(d)
    OBVIOUS
  <2>2. SubSeq(d, 1, k) \o SubSeq(d, k + 1, Len(d)) = SubSeq(d, 1, Len(d))
    BY <2>1, ConcatAdjacentSubSeq
  <2>3. SubSeq(d, 1, Len(d)) = d BY SubSeqFull
  <2> QED BY <2>2, <2>3 DEF x, y, Drop
<1> HIDE DEF x, y
<1>4. (c \o x) \o y = c \o (x \o y)
  <2>1. \A u, v, w \in Seq(Cell) : (u \o v) \o w = u \o (v \o w) BY CellsAssociative
  <2>2. x \in Seq(Cell) /\ y \in Seq(Cell) BY <1>1, <1>2
  <2> QED BY <2>1, <2>2, Zenon
<1>5. c \o x \in Seq(Cell) /\ Len(c \o x) = Len(c) + k BY <1>1
<1> QED BY <1>1, <1>3, <1>4, <1>5 DEF x, y

-----------------------------------------------------------------------------
(* The two ends of a stream. *)

\* What the reader has read and not yet consumed.
Rest(r) == Drop(r.buf, r.last_length)

ReadOK(r) == r \in ReadState /\ r.last_length <= Len(r.buf)
WriteOK(w) ==
  /\ w \in WriteState /\ w.written <= Len(w.buf)
  /\ w.written > 0 => w.written < Len(w.buf)

\* The whole of what is under way from writer w, through the cells in the
\* network, to a reader that has taken n packets.
Leaves(net, w, n) == Carries(net \o buffered(w), w.log, n)
Arrives(r, net, log) == Carries(Rest(r) \o net, log, Len(r.log))

\* The types of what is buffered.
LEMMA BufferedType ==
  ASSUME NEW w, WriteOK(w)
  PROVE  /\ w \in WriteState /\ w.buf \in Seq(Cell) /\ w.written \in Nat /\ w.written <= Len(w.buf)
         /\ w.log \in Seq(WirePacket)
         /\ buffered(w) = Drop(w.buf, w.written)
         /\ buffered(w) \in Seq(Cell) /\ Len(buffered(w)) = Len(w.buf) - w.written
         /\ buffered(w) = <<>> <=> w.buf = <<>>
<1>1. /\ w \in WriteState /\ w.buf \in Seq(Cell) /\ w.written \in Nat /\ w.written <= Len(w.buf)
      /\ w.log \in Seq(WirePacket)
      /\ w.written > 0 => w.written < Len(w.buf)
  BY DEF WriteOK, WriteState
<1> DEFINE b == w.buf
           k == w.written
<1>2. buffered(w) = Drop(b, k) BY DEF buffered, Drop
<1>3. b \in Seq(Cell) /\ k \in Nat /\ k <= Len(b) /\ (k > 0 => k < Len(b)) BY <1>1
<1> HIDE DEF b, k
<1>4. Drop(b, k) \in Seq(Cell) /\ Len(Drop(b, k)) = Len(b) - k /\ (Drop(b, k) = <<>> <=> k = Len(b))
  BY <1>3, DropFacts
<1>5. b = <<>> <=> Len(b) = 0 BY <1>3
<1>6. k = Len(b) <=> b = <<>> BY <1>3, <1>5
<1> QED BY <1>1, <1>2, <1>4, <1>6 DEF b, k

LEMMA RestType ==
  ASSUME NEW r, ReadOK(r)
  PROVE  /\ r \in ReadState /\ r.buf \in Seq(Cell) /\ r.last_length \in Nat /\ r.last_length <= Len(r.buf)
         /\ r.log \in Seq(WirePacket)
         /\ Rest(r) \in Seq(Cell) /\ Len(Rest(r)) = Len(r.buf) - r.last_length
<1>1. /\ r \in ReadState /\ r.buf \in Seq(Cell) /\ r.last_length \in Nat /\ r.last_length <= Len(r.buf)
      /\ r.log \in Seq(WirePacket)
  BY DEF ReadOK, ReadState
<1> DEFINE b == r.buf
           k == r.last_length
<1>2. Rest(r) = Drop(b, k) BY DEF Rest
<1>3. b \in Seq(Cell) /\ k \in Nat /\ k <= Len(b) BY <1>1
<1> HIDE DEF b, k
<1>4. Drop(b, k) \in Seq(Cell) /\ Len(Drop(b, k)) = Len(b) - k BY <1>3, DropFacts
<1> QED BY <1>1, <1>2, <1>4 DEF b, k

\* Encoding puts the packet behind what is under way.
LEMMA EncodeCarries ==
  ASSUME NEW net \in Seq(Cell), NEW w, WriteOK(w), NEW n, NEW v, NEW p \in WirePacket,
         v \in WriteState, v.buf = w.buf \o Cells(p), v.log = Append(w.log, p), v.written = w.written
  PROVE  /\ WriteOK(v) /\ v.buf /= <<>>
         /\ Leaves(net, w, n) => Leaves(net, v, n)
<1> DEFINE c == Cells(p)
           b == w.buf
           k == w.written
           s == buffered(w)
<1>1. c \in Seq(Cell) /\ Len(c) \in Nat \ {0} BY CellsFacts
<1>2. /\ b \in Seq(Cell) /\ k \in Nat /\ k <= Len(b) /\ Len(b) \in Nat /\ w.log \in Seq(WirePacket)
      /\ s = Drop(b, k) /\ s \in Seq(Cell)
  BY BufferedType
<1>3. v.buf = b \o c /\ v.written = k OBVIOUS
<1> HIDE DEF c, b, k, s
<1>4. Len(b \o c) = Len(b) + Len(c) BY <1>1, <1>2
<1>5. WriteOK(v) /\ v.buf /= <<>> BY <1>1, <1>2, <1>3, <1>4 DEF WriteOK
<1>6. buffered(v) = s \o c BY <1>1, <1>2, <1>3, DropConcat DEF buffered, Drop
<1>7. net \o (s \o c) = (net \o s) \o c
  <2>1. \A x, y, z \in Seq(Cell) : (x \o y) \o z = x \o (y \o z)
    BY CellsAssociative
  <2>2. s \in Seq(Cell) /\ c \in Seq(Cell) BY <1>1, <1>2
  <2> QED BY <2>1, <2>2, Zenon
<1>8. net \o s \in Seq(Cell) BY <1>2
<1>9. Leaves(net, w, n) => Carries((net \o s) \o c, v.log, n)
  BY <1>2, <1>8, CarriesAppend DEF Leaves, c, s
<1> QED BY <1>5, <1>6, <1>7, <1>9 DEF Leaves

\* Both ways to encode.
LEMMA EncodeLeaves ==
  ASSUME NEW net \in Seq(Cell), NEW w, WriteOK(w), NEW n, NEW m \in Message
  PROVE  /\ WriteOK(encode(w, m)) /\ WriteOK(encoded(w, m))
         /\ encode(w, m).buf /= <<>> /\ encoded(w, m).buf /= <<>>
         /\ Leaves(net, w, n) => Leaves(net, encode(w, m), n) /\ Leaves(net, encoded(w, m), n)
<1>1. w \in WriteState BY DEF WriteOK
<1> DEFINE p == Packet(m, w.sealer.key, w.sealer.counter, w.sequence_number)
           q == Packet(m, NoKey, 0, 0)
<1>2. /\ p \in WirePacket /\ encode(w, m) \in WriteState
      /\ encode(w, m).buf = w.buf \o Cells(p) /\ encode(w, m).log = Append(w.log, p)
      /\ encode(w, m).written = w.written
  BY <1>1, EncodeFacts
<1>3. /\ q \in WirePacket /\ encoded(w, m) \in WriteState
      /\ encoded(w, m).buf = w.buf \o Cells(q) /\ encoded(w, m).log = Append(w.log, q)
      /\ encoded(w, m).written = w.written
  BY <1>1, EncodedFacts
<1> HIDE DEF p, q
<1>4. WriteOK(encode(w, m)) /\ encode(w, m).buf /= <<>>
      /\ (Leaves(net, w, n) => Leaves(net, encode(w, m), n))
  BY <1>2, EncodeCarries
<1>5. WriteOK(encoded(w, m)) /\ encoded(w, m).buf /= <<>>
      /\ (Leaves(net, w, n) => Leaves(net, encoded(w, m), n))
  BY <1>3, EncodeCarries
<1> QED BY <1>4, <1>5

-----------------------------------------------------------------------------
(* Reading. *)

\* compact drops what was consumed.
LEMMA CompactFacts ==
  ASSUME NEW r, ReadOK(r)
  PROVE  /\ ReadOK(compact(r)) /\ compact(r).last_length = 0 /\ compact(r).buf = Rest(r)
         /\ Rest(compact(r)) = Rest(r) /\ compact(r).log = r.log
         /\ compact(r).opener = r.opener /\ compact(r).sequence_number = r.sequence_number
<1>1. r \in ReadState /\ Rest(r) \in Seq(Cell) BY RestType
<1> DEFINE b == Rest(r)
           c == compact(r)
<1>2. c = [r EXCEPT !.buf = b, !.last_length = 0] BY DEF compact, Rest, Drop
<1>3. b \in Seq(Cell) BY <1>1
<1> HIDE DEF b, c
<1>4. /\ c \in ReadState /\ c.last_length = 0 /\ c.buf = b /\ c.log = r.log
      /\ c.opener = r.opener /\ c.sequence_number = r.sequence_number
  BY <1>1, <1>2, <1>3 DEF ReadState
<1>5. 0 <= Len(b) BY <1>3
<1>6. ReadOK(c) BY <1>4, <1>5 DEF ReadOK
<1>7. Rest(c) = b BY <1>3, <1>4, DropNone DEF Rest
<1> QED BY <1>4, <1>6, <1>7 DEF b, c

\* k cells more, from the network.
Taken(r, net, k) == [r EXCEPT !.buf = @ \o SubSeq(net, 1, k)]

LEMMA TakeArrives ==
  ASSUME NEW r, ReadOK(r), r.last_length = 0, NEW net \in Seq(Cell), NEW k \in 1..Len(net), NEW log
  PROVE  LET q == Taken(r, net, k)
         IN /\ ReadOK(q) /\ q.last_length = 0 /\ q.log = r.log /\ q.opener = r.opener
            /\ q.sequence_number = r.sequence_number
            /\ q.buf = r.buf \o SubSeq(net, 1, k)
            /\ Drop(net, k) \in Seq(Cell)
            /\ Len(Drop(net, k)) <= Len(net)
            /\ Arrives(r, net, log) => Arrives(q, Drop(net, k), log)
<1> DEFINE x == SubSeq(net, 1, k)
           y == SubSeq(net, k + 1, Len(net))
           b == r.buf
           d == b \o x
           q == [r EXCEPT !.buf = d]
<1>1. r \in ReadState /\ b \in Seq(Cell) BY RestType
<1>2. k \in Nat /\ k <= Len(net) /\ Len(net) \in Nat OBVIOUS
<1> HIDE DEF b
<1>3. x \in Seq(Cell) /\ d \in Seq(Cell) /\ Len(d) \in Nat /\ (b \o x) \o Drop(net, k) = b \o net
  <2>1. /\ SubSeq(net, 1, k) \in Seq(Cell) /\ b \o SubSeq(net, 1, k) \in Seq(Cell)
        /\ (b \o SubSeq(net, 1, k)) \o Drop(net, k) = b \o net
    BY <1>1, <1>2, MoveConcat
  <2> QED BY <2>1
<1>4. y = Drop(net, k) BY DEF Drop
<1>5. y \in Seq(Cell) /\ Len(y) <= Len(net) BY <1>2, <1>4, DropFacts
<1> HIDE DEF x, y, d
<1>6. /\ q \in ReadState /\ q.last_length = 0 /\ q.log = r.log /\ q.opener = r.opener
      /\ q.sequence_number = r.sequence_number /\ q.buf = d
  BY <1>1, <1>3 DEF ReadState
<1> HIDE DEF q
<1>7. ReadOK(q) BY <1>3, <1>6 DEF ReadOK
<1>8. Rest(q) = d BY <1>3, <1>6, DropNone DEF Rest
<1>9. Rest(r) = b BY <1>1, DropNone DEF Rest, b
<1>10. d \o y = b \o net BY <1>3, <1>4 DEF d
<1>11. Arrives(r, net, log) => Arrives(q, y, log) BY <1>6, <1>8, <1>9, <1>10 DEF Arrives
<1> QED BY <1>4, <1>5, <1>6, <1>7, <1>11 DEF Taken, x, d, b, q

\* A whole packet in the buffer is the next one that was sent, and its cells
\* are in one piece.
LEMMA NextPacket ==
  ASSUME NEW r, ReadOK(r), r.last_length = 0, NEW net \in Seq(Cell), NEW log \in Seq(WirePacket),
         Arrives(r, net, log), r.buf /= <<>>
  PROVE  LET p == r.buf[1].packet
             n == Len(r.log)
         IN /\ n + 1 \in 1..Len(log) /\ p = log[n + 1] /\ p \in WirePacket
            /\ Len(Cells(p)) = Size[p.msg.type] /\ Size[p.msg.type] \in Nat \ {0}
            /\ IsComplete(r.buf) =>
                 /\ Size[p.msg.type] <= Len(r.buf)
                 /\ SubSeq(r.buf, 1, Len(Cells(p))) = Cells(p)
                 /\ Carries(Drop(r.buf, Size[p.msg.type]) \o net, log, n + 1)
<1> DEFINE b == r.buf
           st == b \o net
           n == Len(r.log)
           p == log[n + 1]
           z == Size[p.msg.type]
<1>1. b \in Seq(Cell) /\ r.log \in Seq(WirePacket) /\ b /= <<>> BY RestType
<1>2. Rest(r) = b BY <1>1, DropNone DEF Rest
<1> HIDE DEF b
<1>3. st \in Seq(Cell) /\ st /= <<>> /\ Len(st) = Len(b) + Len(net) /\ st[1] = b[1]
      /\ Len(b) \in Nat /\ Len(b) > 0 /\ \A i \in 1..Len(b) : st[i] = b[i]
  BY <1>1
<1>4. Carries(st, log, n) BY <1>2 DEF Arrives
<1> HIDE DEF st, n
<1>5. /\ n + 1 \in 1..Len(log) /\ p \in WirePacket /\ st[1] = [packet |-> p, at |-> 1]
      /\ z \in 1..Len(st) /\ SubSeq(st, 1, z) = Cells(p)
      /\ Carries(SubSeq(st, z + 1, Len(st)), log, n + 1)
  BY <1>3, <1>4, CarriesHead
<1>6. b[1].packet = p BY <1>3, <1>5
<1>7. Len(Cells(p)) = z /\ z \in Nat \ {0} BY <1>5, CellsFacts
<1>8. ASSUME IsComplete(b)
      PROVE  /\ z <= Len(b) /\ SubSeq(b, 1, Len(Cells(p))) = Cells(p)
             /\ Carries(Drop(b, z) \o net, log, n + 1)
  <2>1. z <= Len(b) BY <1>6, <1>8 DEF IsComplete
  <2> HIDE DEF p, z
  <2>2. SubSeq(b, 1, z) = SubSeq(st, 1, z)
    <3> DEFINE x == SubSeq(b, 1, z)
               y == SubSeq(st, 1, z)
    <3>1. x \in Seq(Cell) /\ Len(x) = z /\ \A i \in 1..z : x[i] = b[i] BY <1>1, <1>7, <2>1
    <3>2. y \in Seq(Cell) /\ Len(y) = z /\ \A i \in 1..z : y[i] = st[i] BY <1>3, <1>5, <1>7
    <3>3. \A i \in 1..z : i \in 1..Len(b) BY <1>3, <1>7, <2>1
    <3>4. \A i \in 1..z : x[i] = y[i] BY <1>3, <3>1, <3>2, <3>3
    <3> HIDE DEF x, y
    <3>5. x = y BY <3>1, <3>2, <3>4, SeqEqual
    <3> QED BY <3>5 DEF x, y
  <2>3. SubSeq(st, z + 1, Len(st)) = Drop(b, z) \o net
    BY <1>1, <1>7, <2>1, DropConcat DEF Drop, st
  <2> QED BY <1>5, <1>7, <2>1, <2>2, <2>3
<1> QED BY <1>5, <1>6, <1>7, <1>8 DEF b, n

\* What poll_packet leaves.
LEMMA PollFacts ==
  ASSUME NEW r, ReadOK(r), r.last_length = 0, NEW net \in Seq(Cell), NEW log \in Seq(WirePacket),
         Arrives(r, net, log), IsComplete(r.buf)
  PROVE  LET p == r.buf[1].packet
             q == poll_packet(r)
         IN /\ ReadOK(q) /\ Arrives(q, net, log)
            /\ q.log = Append(r.log, p) /\ q.opener = Used(r.opener)
            /\ q.sequence_number = (r.sequence_number + 1) % SequenceModulus
<1> DEFINE p == r.buf[1].packet
           z == Len(Cells(p))
           b == r.buf
           n == Len(r.log)
           q == poll_packet(r)
<1>0. b /= <<>> BY DEF IsComplete
<1>1. /\ p \in WirePacket /\ z = Size[p.msg.type] /\ z \in Nat \ {0} /\ z <= Len(b)
      /\ Carries(Drop(b, z) \o net, log, n + 1)
  BY <1>0, NextPacket
<1>2. /\ r \in ReadState /\ b \in Seq(Cell) /\ r.log \in Seq(WirePacket)
      /\ r.opener \in KeyState /\ r.sequence_number \in SequenceNumber
  BY RestType DEF ReadState
<1>3. Used(r.opener) \in KeyState
  <2> DEFINE o == r.opener
  <2>1. o \in KeyState BY <1>2
  <2> HIDE DEF o
  <2>2. Used(o) \in KeyState BY <2>1 DEF Used, KeyState
  <2> QED BY <2>2 DEF o
<1>4. (r.sequence_number + 1) % SequenceModulus \in SequenceNumber
  BY <1>2, PacketIOAssumption DEF SequenceNumber
<1>5. Append(r.log, p) \in Seq(WirePacket) /\ Len(Append(r.log, p)) = n + 1 BY <1>1, <1>2
<1>6. q = [r EXCEPT !.last_length = z, !.log = Append(@, p), !.opener = Used(@),
                    !.sequence_number = (@ + 1) % SequenceModulus]
  BY DEF poll_packet
<1> HIDE DEF p, z, q, n
<1>7. /\ q \in ReadState /\ q.buf = b /\ q.last_length = z /\ q.log = Append(r.log, p)
      /\ q.opener = Used(r.opener) /\ q.sequence_number = (r.sequence_number + 1) % SequenceModulus
  BY <1>1, <1>2, <1>3, <1>4, <1>5, <1>6 DEF ReadState
<1>8. ReadOK(q) BY <1>1, <1>7 DEF ReadOK
<1>9. Arrives(q, net, log) BY <1>1, <1>5, <1>7 DEF Arrives, Rest
<1> QED BY <1>7, <1>8, <1>9 DEF p, q

-----------------------------------------------------------------------------
(* Writing. *)

\* k of the buffered cells go into the network.
LEMMA FlushLeaves ==
  ASSUME NEW w, WriteOK(w), NEW net \in Seq(Cell), NEW k \in 1..Len(buffered(w)), NEW n
  PROVE  LET v == written(w, k)
             t == net \o SubSeq(buffered(w), 1, k)
         IN /\ WriteOK(v) /\ v.log = w.log /\ v.sealer = w.sealer
            /\ v.sequence_number = w.sequence_number
            /\ t \in Seq(Cell) /\ Len(t) = Len(net) + k
            /\ buffered(v) = <<>> <=> v.buf = <<>>
            /\ Leaves(net, w, n) => Leaves(t, v, n)
<1> DEFINE b == w.buf
           j == w.written
           s == buffered(w)
           t == net \o SubSeq(s, 1, k)
           v == written(w, k)
<1>1. /\ w \in WriteState /\ b \in Seq(Cell) /\ j \in Nat /\ j <= Len(b) /\ Len(b) \in Nat
      /\ s = Drop(b, j) /\ s \in Seq(Cell) /\ Len(s) = Len(b) - j
  BY BufferedType
<1>2. k \in Nat /\ k >= 1 /\ k <= Len(s) /\ j + k <= Len(b) BY <1>1
<1> HIDE DEF s
<1>3. t \in Seq(Cell) /\ Len(t) = Len(net) + k /\ t \o Drop(s, k) = net \o s
  BY <1>1, <1>2, MoveConcat
<1>4. v = IF j + k = Len(b) THEN [w EXCEPT !.buf = <<>>, !.written = 0]
                            ELSE [w EXCEPT !.written = j + k]
  BY DEF written
<1> HIDE DEF t, v
<1>5. v.log = w.log /\ v.sealer = w.sealer /\ v.sequence_number = w.sequence_number
  BY <1>1, <1>4 DEF WriteState
<1>6. WriteOK(v) /\ buffered(v) = Drop(s, k)
  <2>1. CASE j + k = Len(b)
    <3>0. v = [w EXCEPT !.buf = <<>>, !.written = 0] /\ <<>> \in Seq(Cell) BY <1>4, <2>1
    <3>1. v \in WriteState /\ v.buf = <<>> /\ v.written = 0 BY <1>1, <3>0 DEF WriteState
    <3>2. WriteOK(v) BY <3>1 DEF WriteOK
    <3>3. k = Len(s) BY <1>1, <1>2, <2>1
    <3>4. Drop(s, k) = <<>> BY <1>1, <1>2, <3>3, DropFacts
    <3>5. buffered(v) = <<>> BY <3>1, <3>2, BufferedType
    <3> QED BY <3>2, <3>4, <3>5
  <2>2. CASE j + k /= Len(b)
    <3> DEFINE l == j + k
    <3>0. v = [w EXCEPT !.written = l] /\ l \in Nat /\ l <= Len(b) BY <1>1, <1>2, <1>4, <2>2
    <3> HIDE DEF l
    <3>1. v \in WriteState /\ v.buf = b /\ v.written = l BY <1>1, <3>0 DEF WriteState
    <3>2. WriteOK(v) BY <1>1, <1>2, <2>2, <3>0, <3>1 DEF WriteOK, l
    <3> DEFINE x == Drop(b, l)
               y == Drop(s, k)
    <3>3. buffered(v) = x BY <3>1 DEF buffered, Drop
    <3> HIDE DEF b, j
    <3>4. /\ x \in Seq(Cell) /\ Len(x) = Len(b) - l
          /\ \A i \in 1..Len(b) - l : x[i] = b[l + i]
      BY <1>1, <3>0, DropFacts
    <3>5. /\ y \in Seq(Cell) /\ Len(y) = Len(s) - k
          /\ \A i \in 1..Len(s) - k : y[i] = s[k + i]
      BY <1>1, <1>2, DropFacts
    <3>6. \A i \in 1..Len(b) - j : s[i] = b[j + i]
      <4>1. b \in Seq(Cell) /\ j \in Nat /\ j <= Len(b) BY <1>1
      <4>2. \A i \in 1..Len(b) - j : Drop(b, j)[i] = b[j + i] BY <4>1, DropFacts
      <4> QED BY <1>1, <4>2
    <3> HIDE DEF x, y
    <3>7. Len(x) = Len(y) BY <1>1, <1>2, <3>4, <3>5 DEF l
    <3>8. ASSUME NEW i \in 1..Len(x) PROVE x[i] = y[i]
      <4>1. i \in 1..Len(b) - l /\ i \in 1..Len(s) - k /\ k + i \in 1..Len(b) - j
            /\ l + i = j + (k + i)
        BY <1>1, <1>2, <3>4 DEF l
      <4> QED BY <3>4, <3>5, <3>6, <4>1
    <3>9. x = y BY <3>4, <3>5, <3>7, <3>8, SeqEqual
    <3> QED BY <3>2, <3>3, <3>9 DEF y
  <2> QED BY <2>1, <2>2
<1>7. buffered(v) = <<>> <=> v.buf = <<>> BY <1>6, BufferedType
<1>8. Leaves(net, w, n) => Leaves(t, v, n) BY <1>3, <1>5, <1>6 DEF Leaves, s
<1> QED BY <1>3, <1>5, <1>6, <1>7, <1>8 DEF t, v, s

\* A log only grows.
Grows(a, b) == Len(a) <= Len(b) /\ \A i \in 1..Len(a) : b[i] = a[i]

LEMMA GrowsAppend ==
  ASSUME NEW a \in Seq(WirePacket), NEW p \in WirePacket
  PROVE  Grows(a, Append(a, p)) /\ Grows(a, a)
<1>1. Len(a) \in Nat /\ Len(Append(a, p)) = Len(a) + 1 /\ \A i \in 1..Len(a) : Append(a, p)[i] = a[i]
  OBVIOUS
<1> QED BY <1>1 DEF Grows

LEMMA GrowsTrans ==
  ASSUME NEW a \in Seq(WirePacket), NEW b \in Seq(WirePacket), NEW c \in Seq(WirePacket),
         Grows(a, b), Grows(b, c)
  PROVE  Grows(a, c)
BY DEF Grows

\* What grows is a step of the abstract sender, or none.
LEMMA GrowsSends ==
  ASSUME NEW a \in Seq(WirePacket), NEW b \in Seq(WirePacket), Grows(a, b)
  PROVE  a = b \/ (Len(a) < Len(b) /\ SubSeq(b, 1, Len(a)) = a)
<1>1. Len(a) \in Nat /\ Len(b) \in Nat /\ Len(a) <= Len(b) /\ \A i \in 1..Len(a) : b[i] = a[i]
  BY DEF Grows
<1>2. CASE Len(a) = Len(b) BY <1>1, <1>2, SeqEqual
<1>3. CASE Len(a) < Len(b)
  <2> DEFINE x == SubSeq(b, 1, Len(a))
  <2>1. x \in Seq(WirePacket) /\ Len(x) = Len(a) /\ \A i \in 1..Len(a) : x[i] = b[i] BY <1>1
  <2> HIDE DEF x
  <2>2. \A i \in 1..Len(a) : x[i] = a[i] BY <1>1, <2>1
  <2>3. x = a BY <2>1, <2>2, SeqEqual
  <2> QED BY <1>3, <2>3 DEF x
<1> QED BY <1>1, <1>2, <1>3

\* What the server's steps do to its WriteState: it stays as it is, or takes
\* packets more.
Writes(w, v) ==
  /\ WriteOK(v) /\ Grows(w.log, v.log)
  /\ \A net \in Seq(Cell), n \in Nat : Leaves(net, w, n) => Leaves(net, v, n)

LEMMA WritesEncode ==
  ASSUME NEW w, WriteOK(w), NEW m \in Message
  PROVE  /\ Writes(w, encode(w, m)) /\ buffered(encode(w, m)) /= <<>>
         /\ Writes(w, encoded(w, m)) /\ buffered(encoded(w, m)) /= <<>>
         /\ encode(w, m).buf /= <<>> /\ encoded(w, m).buf /= <<>>
<1> DEFINE x == encode(w, m)
           y == encoded(w, m)
<1>1. w \in WriteState /\ w.log \in Seq(WirePacket) BY BufferedType
<1>2. <<>> \in Seq(Cell) OBVIOUS
<1>3. WriteOK(x) /\ WriteOK(y) /\ x.buf /= <<>> /\ y.buf /= <<>> BY <1>2, EncodeLeaves
<1>4. \A net \in Seq(Cell), n \in Nat : Leaves(net, w, n) => Leaves(net, x, n) /\ Leaves(net, y, n)
  BY EncodeLeaves
<1>5. Grows(w.log, x.log)
  <2>1. PICK p \in WirePacket : x.log = Append(w.log, p) BY <1>1, EncodeFacts
  <2> QED BY <1>1, <2>1, GrowsAppend
<1>6. Grows(w.log, y.log)
  <2>1. PICK p \in WirePacket : y.log = Append(w.log, p) BY <1>1, EncodedFacts
  <2> QED BY <1>1, <2>1, GrowsAppend
<1>7. buffered(x) /= <<>> /\ buffered(y) /= <<>> BY <1>3, BufferedType
<1> HIDE DEF x, y
<1> QED BY <1>3, <1>4, <1>5, <1>6, <1>7 DEF Writes, x, y

LEMMA WritesTrans ==
  ASSUME NEW u, NEW v, NEW w, WriteOK(u), Writes(u, v), Writes(v, w)
  PROVE  Writes(u, w)
<1>1. u.log \in Seq(WirePacket) BY BufferedType
<1>2. v.log \in Seq(WirePacket) /\ w.log \in Seq(WirePacket) BY BufferedType DEF Writes
<1>3. Grows(u.log, w.log) BY <1>1, <1>2, GrowsTrans DEF Writes
<1> QED BY <1>3 DEF Writes

LEMMA WritesRefl ==
  ASSUME NEW w, WriteOK(w)
  PROVE  Writes(w, w)
<1>1. w.log \in Seq(WirePacket) BY BufferedType
<1>2. Grows(w.log, w.log) BY <1>1 DEF Grows
<1> QED BY <1>2 DEF Writes

\* A change of the keys, the counters and the sequence number.
LEMMA WritesSame ==
  ASSUME NEW w, WriteOK(w), NEW v \in WriteState, v.buf = w.buf, v.written = w.written, v.log = w.log
  PROVE  Writes(w, v)
<1>1. WriteOK(v) BY DEF WriteOK
<1>2. w.log \in Seq(WirePacket) BY BufferedType
<1>3. Grows(w.log, v.log) BY <1>2 DEF Grows
<1>4. buffered(v) = buffered(w) BY DEF buffered
<1> QED BY <1>1, <1>3, <1>4 DEF Writes, Leaves

-----------------------------------------------------------------------------
(* The first inductive invariant: types, and that each direction carries   *)
(* exactly the packets that were sent and have not been received.          *)

TypesInv ==
  /\ server \in ServerState /\ client \in ClientState
  /\ ReadOK(read) /\ WriteOK(write)
  /\ c2s \in Seq(Cell) /\ s2c \in Seq(Cell)
  /\ Len(c2s) <= Capacity /\ Len(s2c) <= Capacity

\* The client transmits at once, and its identification first.
ClientInv ==
  /\ client.write.buf = <<>> /\ client.write.written = 0 /\ client.read.last_length = 0
  /\ client.at = "new" => client.write.log = <<>>
  /\ client.at /= "new" => client.write.log /= <<>> /\ client.write.log[1].msg.type = "Ident"

\* Nothing is received any more once the connection has ended, or once the
\* client has met an error or lost the connection.
InFlow == Ended \/ Arrives(read, c2s, client.write.log)
OutFlow ==
  \/ ~client.ok
  \/ Ended /\ s2c = <<>>
  \/ Leaves(s2c, write, Len(client.read.log))

\* What holds at the points where the task waits.
AwaitInv ==
  /\ server.at \in {"identify", "receive", "spawn", "handoff"} => write.buf = <<>>
  /\ server.at = "identify" => read.log = <<>> /\ read.last_length = 0
  /\ server.at = "handoff" => handoff = {SessionState(Rest(read))}
  /\ client.at = "new" => server.at \in {"identify", "closed"} /\ write.log = <<>>

StreamInv == TypesInv /\ ClientInv /\ InFlow /\ OutFlow /\ AwaitInv

LEMMA InitStream == InitTransport => StreamInv
<1> SUFFICES ASSUME InitTransport PROVE StreamInv OBVIOUS
<1>1. <<>> \in Seq(Cell) /\ <<>> \in Seq(WirePacket) /\ <<>> \in Exchange /\ Len(<<>>) = 0
  BY DEF Exchange
<1>2. 0 \in SequenceNumber /\ [key |-> NoKey, counter |-> 0] \in KeyState
  BY PacketIOAssumption DEF SequenceNumber, KeyState, Keys
<1>3. ReadOK(NewReadState) /\ WriteOK(NewWriteState)
  BY <1>1, <1>2 DEF NewReadState, NewWriteState, ReadOK, WriteOK, ReadState, WriteState
<1>4. NewReadState \in ReadState /\ NewWriteState \in WriteState BY <1>3 DEF ReadOK, WriteOK
<1>5. server \in ServerState BY <1>1 DEF InitTransport, ServerState
<1>6. PICK strict, ext \in BOOLEAN :
       client = [at |-> "new", strict |-> strict, ext_info |-> ext, asked |-> FALSE,
                 heard |-> FALSE, exchange |-> <<>>, session_id |-> <<>>,
                 exchanges |-> 0, messages |-> 0, strays |-> 0, ok |-> TRUE,
                 read |-> NewReadState, write |-> NewWriteState]
  BY DEF InitTransport
<1>7. client \in ClientState BY <1>1, <1>4, <1>6 DEF ClientState
<1>8. TypesInv BY <1>1, <1>3, <1>5, <1>7, TransportAssumption DEF TypesInv, InitTransport
<1>9. /\ client.at = "new" /\ client.write = NewWriteState /\ client.read = NewReadState
  BY <1>6
<1>10. ClientInv BY <1>9 DEF ClientInv, NewWriteState, NewReadState
<1>11. Carries(<<>>, <<>>, 0)
  <2> DEFINE pos == [i \in 0..0 |-> 0]
  <2>1. pos \in [0..0 -> 0..0] /\ pos[0] = 0 OBVIOUS
  <2> HIDE DEF pos
  <2> QED BY <2>1 DEF Carries
<1>12. Rest(NewReadState) = <<>> /\ buffered(NewWriteState) = <<>> /\ <<>> \o <<>> = <<>>
  BY <1>1, <1>3, DropNone, BufferedType DEF Rest, NewReadState, NewWriteState
<1>13. Arrives(NewReadState, <<>>, <<>>) BY <1>11, <1>12 DEF Arrives, NewReadState
<1>14. Leaves(<<>>, NewWriteState, 0) BY <1>11, <1>12 DEF Leaves, NewWriteState
<1>15. InFlow BY <1>9, <1>13 DEF InFlow, InitTransport, NewWriteState
<1>16. OutFlow BY <1>9, <1>14 DEF OutFlow, InitTransport, NewReadState
<1>17. AwaitInv BY DEF AwaitInv, InitTransport, NewReadState, NewWriteState
<1> QED BY <1>8, <1>10, <1>15, <1>16, <1>17 DEF StreamInv

\* A step that the task goes on after.
LEMMA ProceedStream ==
  ASSUME StreamInv, ~Ended, server.at /= "identify", NEW r, NEW w, NEW s \in ServerState, ReadOK(r), Writes(write, w),
         Arrives(r, c2s, client.write.log), Proceed(r, w, s)
  PROVE  StreamInv'
<1>1. /\ read' = r /\ write' = w
      /\ server' = [s EXCEPT !.at = IF buffered(w) = <<>> THEN "receive" ELSE "flush"]
      /\ UNCHANGED <<handoff, client, c2s, s2c>>
  BY DEF Proceed
<1>2. server' \in ServerState BY <1>1 DEF ServerState
<1>3. WriteOK(w) BY DEF Writes
<1>4. server'.at = IF buffered(w) = <<>> THEN "receive" ELSE "flush" BY <1>1 DEF ServerState
<1>5. server'.at = "receive" => w.buf = <<>> BY <1>3, <1>4, BufferedType
<1>6. TypesInv' BY <1>1, <1>2, <1>3 DEF StreamInv, TypesInv
<1>7. ClientInv' BY <1>1 DEF StreamInv, ClientInv
<1>8. InFlow' BY <1>1 DEF InFlow
<1>9. AwaitInv' BY <1>1, <1>4, <1>5 DEF StreamInv, AwaitInv, Ended
<1>10. OutFlow'
  <2>1. CASE ~client.ok BY <1>1, <2>1 DEF OutFlow
  <2>2. CASE Leaves(s2c, write, Len(client.read.log))
    <3>1. s2c \in Seq(Cell) BY DEF StreamInv, TypesInv
    <3>2. Len(client.read.log) \in Nat BY DEF StreamInv, TypesInv, ClientState, ReadState
    <3> QED BY <1>1, <2>2, <3>1, <3>2 DEF OutFlow, Writes
  <2> QED BY <2>1, <2>2 DEF StreamInv, OutFlow
<1> QED BY <1>6, <1>7, <1>8, <1>9, <1>10 DEF StreamInv

\* A step that ends the connection.
LEMMA FailsStream ==
  ASSUME StreamInv, ~Ended, server.at /= "identify", NEW r, ReadOK(r), Arrives(r, c2s, client.write.log), Fails(r)
  PROVE  StreamInv' /\ Writes(write, write')
<1> DEFINE told == server.stage = "auth"
           w == IF told THEN encode(write, Msg("Disconnect")) ELSE write
<1>1. /\ read' = r /\ write' = w
      /\ server' = [server EXCEPT !.at = IF told THEN "notify" ELSE "closed", !.failed = TRUE]
      /\ UNCHANGED <<handoff, client, c2s, s2c>>
  BY DEF Fails
<1>2. server' \in ServerState /\ server'.at \in {"notify", "closed"}
  BY <1>1 DEF ServerState, StreamInv, TypesInv
<1>3. WriteOK(write) BY DEF StreamInv, TypesInv
<1>4. Msg("Disconnect") \in Message BY MsgType DEF MessageTypes
<1>5. Writes(write, w) BY <1>3, <1>4, WritesEncode, WritesRefl
<1>6. WriteOK(w) BY <1>5 DEF Writes
<1>7. TypesInv' BY <1>1, <1>2, <1>6 DEF StreamInv, TypesInv
<1>8. ClientInv' BY <1>1 DEF StreamInv, ClientInv
<1>9. InFlow' BY <1>1 DEF InFlow
<1>10. AwaitInv' BY <1>1, <1>2 DEF StreamInv, AwaitInv, Ended
<1>11. OutFlow'
  <2>1. CASE ~client.ok BY <1>1, <2>1 DEF OutFlow
  <2>2. CASE Leaves(s2c, write, Len(client.read.log))
    <3>1. s2c \in Seq(Cell) BY DEF StreamInv, TypesInv
    <3>2. Len(client.read.log) \in Nat BY DEF StreamInv, TypesInv, ClientState, ReadState
    <3> QED BY <1>1, <1>5, <2>2, <3>1, <3>2 DEF OutFlow, Writes
  <2> QED BY <2>1, <2>2 DEF StreamInv, OutFlow
<1> QED BY <1>1, <1>5, <1>7, <1>8, <1>9, <1>10, <1>11 DEF StreamInv

\* What a step does to the logs: packets are sent, or the next one is received.
SendStep ==
  /\ Grows(client.write.log, client.write.log') /\ Grows(write.log, write.log')
  /\ UNCHANGED <<read.log, client.read.log>>

TakeStep ==
  /\ Len(read.log) < Len(client.write.log)
  /\ read.log' = Append(read.log, client.write.log[Len(read.log) + 1])
  /\ Grows(write.log, write.log') /\ UNCHANGED <<client.write.log, client.read.log>>

GiveStep ==
  /\ Len(client.read.log) < Len(write.log)
  /\ client.read.log' = Append(client.read.log, write.log[Len(client.read.log) + 1])
  /\ UNCHANGED <<client.write.log, read.log, write.log>>

LogStep == SendStep \/ TakeStep \/ GiveStep

LEMMA LogTypes ==
  ASSUME StreamInv
  PROVE  /\ read.log \in Seq(WirePacket) /\ write.log \in Seq(WirePacket)
         /\ client.read.log \in Seq(WirePacket) /\ client.write.log \in Seq(WirePacket)
         /\ client.read \in ReadState /\ client.write \in WriteState
         /\ ReadOK(read) /\ WriteOK(write) /\ server \in ServerState /\ client \in ClientState
         /\ c2s \in Seq(Cell) /\ s2c \in Seq(Cell)
         /\ Grows(write.log, write.log) /\ Grows(client.write.log, client.write.log)
<1>1. /\ client.read \in ReadState /\ client.write \in WriteState
      /\ ReadOK(read) /\ WriteOK(write) /\ server \in ServerState /\ client \in ClientState
      /\ c2s \in Seq(Cell) /\ s2c \in Seq(Cell)
  BY DEF StreamInv, TypesInv, ClientState
<1>2. /\ read.log \in Seq(WirePacket) /\ write.log \in Seq(WirePacket)
      /\ client.read.log \in Seq(WirePacket) /\ client.write.log \in Seq(WirePacket)
  BY <1>1 DEF ReadOK, WriteOK, ReadState, WriteState
<1>3. /\ Grows(write.log, write.log) /\ Grows(client.write.log, client.write.log)
  BY <1>2 DEF Grows
<1> QED BY <1>1, <1>2, <1>3

\* The packet that receive takes.
LEMMA ReceiveFacts ==
  ASSUME StreamInv, server.at = "receive", IsComplete(compact(read).buf)
  PROVE  LET r == compact(read)
             p == r.buf[1].packet
             q == poll_packet(r)
             n == Len(read.log)
         IN /\ ReadOK(r) /\ Arrives(r, c2s, client.write.log) /\ r.log = read.log
            /\ r.opener = read.opener /\ r.sequence_number = read.sequence_number
            /\ ReadOK(q) /\ Arrives(q, c2s, client.write.log) /\ q.log = Append(read.log, p)
            /\ q.opener = Used(read.opener)
            /\ q.sequence_number = (read.sequence_number + 1) % SequenceModulus
            /\ p \in WirePacket /\ p.msg \in Message
            /\ n + 1 \in 1..Len(client.write.log) /\ p = client.write.log[n + 1]
            /\ SubSeq(r.buf, 1, Len(Cells(p))) = Cells(p)
            /\ ~Ended
<1> DEFINE r == compact(read)
           log == client.write.log
<1>1. ReadOK(read) /\ c2s \in Seq(Cell) /\ log \in Seq(WirePacket) BY LogTypes
<1>2. ~Ended BY DEF Ended
<1>3. Arrives(read, c2s, log) BY <1>2 DEF StreamInv, InFlow
<1>4. /\ ReadOK(r) /\ r.last_length = 0 /\ r.buf = Rest(read)
      /\ Rest(r) = Rest(read) /\ r.log = read.log
      /\ r.opener = read.opener /\ r.sequence_number = read.sequence_number
  BY <1>1, CompactFacts
<1>5. Arrives(r, c2s, log) BY <1>3, <1>4 DEF Arrives
<1>6. IsComplete(r.buf) /\ r.buf /= <<>> BY DEF IsComplete
<1> HIDE DEF r, log
<1>7. /\ Len(r.log) + 1 \in 1..Len(log) /\ r.buf[1].packet = log[Len(r.log) + 1]
      /\ r.buf[1].packet \in WirePacket
      /\ SubSeq(r.buf, 1, Len(Cells(r.buf[1].packet))) = Cells(r.buf[1].packet)
  BY <1>1, <1>4, <1>5, <1>6, NextPacket
<1>8. /\ ReadOK(poll_packet(r)) /\ Arrives(poll_packet(r), c2s, log)
      /\ poll_packet(r).log = Append(r.log, r.buf[1].packet) /\ poll_packet(r).opener = Used(r.opener)
      /\ poll_packet(r).sequence_number = (r.sequence_number + 1) % SequenceModulus
  BY <1>1, <1>4, <1>5, <1>6, PollFacts
<1>9. r.buf[1].packet.msg \in Message BY <1>7 DEF WirePacket
<1> QED BY <1>2, <1>4, <1>5, <1>7, <1>8, <1>9 DEF r, log

\* The ways a receive can end.
LEMMA ReceiveCases ==
  ASSUME receive
  PROVE  LET r == compact(read)
             m == r.buf[1].packet.msg
             q == poll_packet(r)
         IN /\ server.at = "receive" /\ IsComplete(r.buf)
            /\ \/ ~Opens(r) /\ Fails(r)
               \/ /\ Opens(r)
                  /\ \/ handle_kexinit(m, q) /\ server.stage \in {"kx", "session"}
                     \/ handle_ecdh_init(m, q) /\ server.stage \in {"kx", "session"}
                     \/ handle_newkeys(m, q) /\ server.stage \in {"kx", "session"}
                     \/ Fails(q)
                     \/ Proceed(q, write, server)
                     \/ /\ \E t \in {"Failure", "Answer"} : Proceed(q, encode(write, Msg(t)), server)
                        /\ server.stage \in {"auth", "session"}
                     \/ /\ Proceed(q, encode(write, Msg("Success")), [server EXCEPT !.stage = "granted"])
                        /\ server.stage = "auth"
<1>1. /\ server.at = "receive" /\ IsComplete(compact(read).buf) BY DEF receive
<1> DEFINE r == compact(read)
           m == r.buf[1].packet.msg
           q == poll_packet(r)
<1>2. \/ ~Opens(r) /\ Fails(r)
      \/ Opens(r) /\ (exchange_keys(m, q) \/ authenticate(m, q) \/ run(m, q))
  BY DEF receive
<1> HIDE DEF r, m, q
<1>3. CASE exchange_keys(m, q) /\ Opens(r) BY <1>1, <1>3 DEF exchange_keys, handle_kx, r, m, q
<1>4. CASE authenticate(m, q) /\ Opens(r) BY <1>1, <1>4 DEF authenticate, r, m, q
<1>5. CASE run(m, q) /\ Opens(r) BY <1>1, <1>5 DEF run, handle_kx, r, m, q
<1> QED BY <1>1, <1>2, <1>3, <1>4, <1>5 DEF r, m, q

\* KeyUpdate::apply on the side that writes.
LEMMA ApplyFacts ==
  ASSUME NEW w, WriteOK(w), NEW s \in ServerState
  PROVE  LET v == encode(w, Msg("NewKeys"))
             a == apply(w, s)
         IN /\ Writes(w, a) /\ buffered(a) /= <<>> /\ a \in WriteState
            /\ a.log = v.log /\ a.sealer = [key |-> Key("s2c", s.exchange, s.session_id), counter |-> 0]
            /\ a.sequence_number = IF s.strict_kx THEN 0 ELSE v.sequence_number
<1> DEFINE v == encode(w, Msg("NewKeys"))
           a == apply(w, s)
           k == [key |-> Key("s2c", s.exchange, s.session_id), counter |-> 0]
<1>1. Msg("NewKeys") \in Message BY MsgType DEF MessageTypes
<1>2. Writes(w, v) /\ v.buf /= <<>> BY <1>1, WritesEncode
<1>3. WriteOK(v) BY <1>2 DEF Writes
<1>4. v \in WriteState BY <1>3, BufferedType
<1>5. k \in KeyState /\ 0 \in SequenceNumber
  BY PacketIOAssumption DEF KeyState, Keys, Key, ServerState, SequenceNumber
<1>6. a = [v EXCEPT !.sequence_number = IF s.strict_kx THEN 0 ELSE @, !.sealer = k] BY DEF apply
<1> HIDE DEF v, a, k
<1>7. /\ a \in WriteState /\ a.buf = v.buf /\ a.written = v.written /\ a.log = v.log
      /\ a.sealer = k /\ a.sequence_number = IF s.strict_kx THEN 0 ELSE v.sequence_number
  BY <1>4, <1>5, <1>6 DEF WriteState
<1>8. Writes(v, a) BY <1>3, <1>7, WritesSame
<1>9. Writes(w, a) BY <1>2, <1>8, WritesTrans
<1>10. WriteOK(a) BY <1>8 DEF Writes
<1>11. buffered(a) /= <<>> BY <1>2, <1>7, <1>10, BufferedType
<1> QED BY <1>7, <1>9, <1>11 DEF v, a, k

\* And on the side that reads.
LEMMA ApplyReadFacts ==
  ASSUME NEW r, ReadOK(r), NEW s \in ServerState, NEW net, NEW log, Arrives(r, net, log)
  PROVE  LET a == apply_read(r, s)
         IN /\ ReadOK(a) /\ Arrives(a, net, log) /\ a.log = r.log
            /\ a.opener = [key |-> Key("c2s", s.exchange, s.session_id), counter |-> 0]
            /\ a.sequence_number = IF s.strict_kx THEN 0 ELSE r.sequence_number
<1> DEFINE a == apply_read(r, s)
           k == [key |-> Key("c2s", s.exchange, s.session_id), counter |-> 0]
<1>1. r \in ReadState BY DEF ReadOK
<1>2. k \in KeyState /\ 0 \in SequenceNumber
  BY PacketIOAssumption DEF KeyState, Keys, Key, ServerState, SequenceNumber
<1>3. a = [r EXCEPT !.sequence_number = IF s.strict_kx THEN 0 ELSE @, !.opener = k] BY DEF apply_read
<1> HIDE DEF a, k
<1>4. /\ a \in ReadState /\ a.buf = r.buf /\ a.last_length = r.last_length /\ a.log = r.log
      /\ a.opener = k /\ a.sequence_number = IF s.strict_kx THEN 0 ELSE r.sequence_number
  BY <1>1, <1>2, <1>3 DEF ReadState
<1>5. ReadOK(a) /\ Arrives(a, net, log) BY <1>4 DEF ReadOK, Arrives, Rest
<1> QED BY <1>4, <1>5 DEF a, k

\* The three packets after a key exchange.
LEMMA NewKeysWrites ==
  ASSUME NEW w, WriteOK(w), NEW s \in ServerState
  PROVE  LET a == apply(w, s)
             x == IF s.ext_info THEN encode(a, Msg("ExtInfo")) ELSE a
             v == IF s.stage = "kx" THEN encode(x, Msg("Ignore")) ELSE a
         IN Writes(w, v) /\ Writes(w, a) /\ Writes(w, x)
<1> DEFINE a == apply(w, s)
           x == IF s.ext_info THEN encode(a, Msg("ExtInfo")) ELSE a
           v == IF s.stage = "kx" THEN encode(x, Msg("Ignore")) ELSE a
<1>1. Msg("ExtInfo") \in Message /\ Msg("Ignore") \in Message BY MsgType DEF MessageTypes
<1>2. Writes(w, a) BY ApplyFacts
<1> HIDE DEF a
<1>3. WriteOK(a) BY <1>2 DEF Writes
<1>4. Writes(a, x) BY <1>1, <1>3, WritesEncode, WritesRefl
<1>5. Writes(w, x) BY <1>2, <1>4, WritesTrans
<1> HIDE DEF x
<1>6. WriteOK(x) BY <1>4 DEF Writes
<1>7. Writes(x, encode(x, Msg("Ignore"))) BY <1>1, <1>6, WritesEncode
<1>8. Writes(w, encode(x, Msg("Ignore"))) BY <1>5, <1>7, WritesTrans
<1>9. Writes(w, v) BY <1>2, <1>8
<1> QED BY <1>2, <1>5, <1>9 DEF a, x, v

\* What goes into an exchange hash.
LEMMA ExchangeFacts ==
  ASSUME NEW e \in Exchange, NEW a \in Message, NEW b \in Message
  PROVE  e \o <<a, b>> \in Exchange /\ e \o <<"K_S", a, b>> \in Exchange /\ Append(e, a) \in Exchange
BY DEF Exchange

\* The server's own KEXINIT.
LEMMA LocalType ==
  ASSUME NEW n \in Nat
  PROVE  KexInit(n, server.stage = "kx", FALSE) \in Message
<1>1. KexInit(n, TRUE, FALSE) \in Message /\ KexInit(n, FALSE, FALSE) \in Message BY MsgType
<1>2. CASE server.stage = "kx"
  <2>1. (server.stage = "kx") = TRUE BY <1>2
  <2> QED BY <1>1, <2>1, Zenon
<1>3. CASE server.stage /= "kx"
  <2>1. (server.stage = "kx") = FALSE BY <1>3
  <2> QED BY <1>1, <2>1, Zenon
<1> QED BY <1>2, <1>3

LEMMA ReceiveStream ==
  ASSUME StreamInv, receive
  PROVE  StreamInv' /\ LogStep
<1> DEFINE r == compact(read)
           p == r.buf[1].packet
           m == p.msg
           q == poll_packet(r)
           log == client.write.log
<1>1. server.at = "receive" /\ IsComplete(r.buf) BY ReceiveCases
<1>2. /\ ReadOK(r) /\ Arrives(r, c2s, log) /\ r.log = read.log
      /\ ReadOK(q) /\ Arrives(q, c2s, log) /\ q.log = Append(read.log, p)
      /\ m \in Message /\ Len(read.log) + 1 \in 1..Len(log) /\ p = log[Len(read.log) + 1] /\ ~Ended
  BY <1>1, ReceiveFacts
<1>3. \/ ~Opens(r) /\ Fails(r)
      \/ /\ Opens(r)
         /\ \/ handle_kexinit(m, q) /\ server.stage \in {"kx", "session"}
            \/ handle_ecdh_init(m, q) /\ server.stage \in {"kx", "session"}
            \/ handle_newkeys(m, q) /\ server.stage \in {"kx", "session"}
            \/ Fails(q)
            \/ Proceed(q, write, server)
            \/ /\ \E t \in {"Failure", "Answer"} : Proceed(q, encode(write, Msg(t)), server)
               /\ server.stage \in {"auth", "session"}
            \/ /\ Proceed(q, encode(write, Msg("Success")), [server EXCEPT !.stage = "granted"])
               /\ server.stage = "auth"
  BY ReceiveCases
<1> HIDE DEF r, q, p, m
<1>4. /\ WriteOK(write) /\ server \in ServerState /\ read.log \in Seq(WirePacket) /\ log \in Seq(WirePacket)
      /\ Grows(write.log, write.log) /\ Grows(log, log)
  BY LogTypes
<1>5. \A t \in {"Failure", "Answer", "Success"} : Msg(t) \in Message BY MsgType DEF MessageTypes
<1>6. CASE Fails(r)
  <2>1. StreamInv' /\ Writes(write, write') BY <1>1, <1>2, <1>6, FailsStream
  <2>2. read' = r /\ UNCHANGED client BY <1>6 DEF Fails
  <2>3. SendStep BY <1>2, <1>4, <2>1, <2>2 DEF SendStep, Writes
  <2> QED BY <2>1, <2>3 DEF LogStep
<1>7. CASE Fails(q)
  <2>1. StreamInv' /\ Writes(write, write') BY <1>1, <1>2, <1>7, FailsStream
  <2>2. read' = q /\ UNCHANGED client BY <1>7 DEF Fails
  <2>3. TakeStep BY <1>2, <1>4, <2>1, <2>2 DEF TakeStep, Writes
  <2> QED BY <2>1, <2>3 DEF LogStep

\* Every other case is of this form.
<1>8. ASSUME NEW u, NEW w, NEW s \in ServerState, ReadOK(u), Arrives(u, c2s, log), u.log = q.log,
             Writes(write, w), Proceed(u, w, s)
      PROVE  StreamInv' /\ LogStep
  <2>1. StreamInv' BY <1>1, <1>2, <1>8, ProceedStream
  <2>2. read' = u /\ write' = w /\ UNCHANGED client BY <1>8 DEF Proceed
  <2>3. TakeStep BY <1>2, <1>4, <1>8, <2>2 DEF TakeStep, Writes
  <2> QED BY <2>1, <2>3 DEF LogStep
<1>9. CASE Proceed(q, write, server) BY <1>2, <1>4, <1>8, <1>9, WritesRefl
<1>10. CASE \E t \in {"Failure", "Answer"} : Proceed(q, encode(write, Msg(t)), server)
  <2>1. PICK t \in {"Failure", "Answer"} : Proceed(q, encode(write, Msg(t)), server) BY <1>10
  <2>2. Writes(write, encode(write, Msg(t))) BY <1>4, <1>5, WritesEncode
  <2> QED BY <1>2, <1>4, <1>8, <2>1, <2>2
<1>11. CASE Proceed(q, encode(write, Msg("Success")), [server EXCEPT !.stage = "granted"])
  <2>1. Writes(write, encode(write, Msg("Success"))) BY <1>4, <1>5, WritesEncode
  <2>2. [server EXCEPT !.stage = "granted"] \in ServerState BY <1>4 DEF ServerState
  <2> QED BY <1>2, <1>8, <1>11, <2>1, <2>2
<1>12. CASE handle_kexinit(m, q)
  <2> DEFINE n == server.exchanges + 1
             local == KexInit(n, server.stage = "kx", FALSE)
             x == server.identities \o <<m, local>>
             s == [server EXCEPT !.state = "AwaitingEcdhInit", !.exchanges = n, !.exchange = x,
                     !.strict_kx = IF server.stage = "kx" THEN m.strict ELSE @,
                     !.ext_info = server.stage = "kx" /\ m.ext_info]
  <2>1. Proceed(q, encode(write, local), s) /\ m.type = "KexInit" BY <1>12 DEF handle_kexinit
  <2>2. m.strict \in BOOLEAN /\ m.ext_info \in BOOLEAN BY <1>2, <2>1, MessageFacts
  <2>3. server.exchanges \in Nat /\ server.identities \in Exchange BY <1>4 DEF ServerState
  <2>4. n \in Nat /\ local \in Message
    <3>1. n \in Nat BY <2>3
    <3> HIDE DEF n
    <3> QED BY <3>1, LocalType, Zenon
  <2>5. x \in Exchange BY <1>2, <2>3, <2>4, ExchangeFacts
  <2>6. Writes(write, encode(write, local)) BY <1>4, <2>4, WritesEncode
  <2> HIDE DEF x, local, n
  <2>7. s \in ServerState BY <1>4, <2>2, <2>4, <2>5 DEF ServerState
  <2> HIDE DEF s
  <2> QED BY <1>2, <1>8, <2>1, <2>6, <2>7
<1>13. CASE handle_ecdh_init(m, q)
  <2> DEFINE y == Fresh("EcdhReply", server.exchanges)
             x == server.exchange \o <<"K_S", m, y>>
             s == [server EXCEPT !.state = "AwaitingNewKeys", !.exchange = x,
                     !.session_id = IF server.stage = "kx" THEN x ELSE @]
  <2>1. Proceed(q, encode(write, y), s) BY <1>13 DEF handle_ecdh_init
  <2>2. server.exchanges \in Nat /\ server.exchange \in Exchange BY <1>4 DEF ServerState
  <2>3. y \in Message BY <2>2, MsgType
  <2>4. x \in Exchange BY <1>2, <2>2, <2>3, ExchangeFacts
  <2>5. Writes(write, encode(write, y)) BY <1>4, <2>3, WritesEncode
  <2> HIDE DEF x, y
  <2>6. s \in ServerState BY <1>4, <2>4 DEF ServerState
  <2> HIDE DEF s
  <2> QED BY <1>2, <1>8, <2>1, <2>5, <2>6
<1>14. CASE handle_newkeys(m, q)
  <2> DEFINE w == apply(write, server)
             x == IF server.ext_info THEN encode(w, Msg("ExtInfo")) ELSE w
             v == IF server.stage = "kx" THEN encode(x, Msg("Ignore")) ELSE w
             u == apply_read(q, server)
             s == [server EXCEPT !.state = "AwaitingKexInit",
                                 !.stage = IF @ = "kx" THEN "auth" ELSE @]
  <2>1. Proceed(u, v, s) BY <1>14 DEF handle_newkeys
  <2>2. Writes(write, v) BY <1>4, NewKeysWrites
  <2>3. ReadOK(u) /\ Arrives(u, c2s, log) /\ u.log = q.log BY <1>2, <1>4, ApplyReadFacts
  <2>4. s \in ServerState BY <1>4 DEF ServerState
  <2> HIDE DEF v, u, s
  <2> QED BY <1>8, <2>1, <2>2, <2>3, <2>4
<1> QED BY <1>3, <1>6, <1>7, <1>9, <1>10, <1>11, <1>12, <1>13, <1>14

LEMMA IdentifyStream ==
  ASSUME StreamInv, NEW k \in 1..Len(c2s), identify(k)
  PROVE  StreamInv' /\ LogStep
<1> DEFINE x == SubSeq(c2s, 1, k)
           y == Drop(c2s, k)
           buf == read.buf \o x
           q == Taken(read, c2s, k)
           log == client.write.log
           first == buf[1].packet
<1>1. /\ WriteOK(write) /\ server \in ServerState /\ read.log \in Seq(WirePacket) /\ log \in Seq(WirePacket)
      /\ Grows(write.log, write.log) /\ Grows(log, log) /\ ReadOK(read)
      /\ c2s \in Seq(Cell) /\ s2c \in Seq(Cell) /\ write.log \in Seq(WirePacket)
  BY LogTypes
<1>2. server.at = "identify" /\ ~Ended BY DEF identify, Ended
<1>3. read.log = <<>> /\ read.last_length = 0 /\ write.buf = <<>> BY <1>2 DEF StreamInv, AwaitInv
<1>4. Arrives(read, c2s, log) BY <1>2 DEF StreamInv, InFlow
<1>5. /\ ReadOK(q) /\ q.last_length = 0 /\ q.log = read.log /\ q.buf = buf
      /\ y \in Seq(Cell) /\ Len(y) <= Len(c2s) /\ Arrives(q, y, log)
  BY <1>1, <1>3, <1>4, TakeArrives
<1>6. c2s' = y /\ UNCHANGED <<handoff, client, s2c>> BY DEF identify, Drop
<1>7. \/ q = read' /\ UNCHANGED <<server, write>>
      \/ /\ IsComplete(buf)
         /\ read' = [read EXCEPT !.buf = buf, !.last_length = Size["Ident"], !.log = Append(@, first)]
         /\ write' = encoded(write, Msg("Ident"))
         /\ server' = [server EXCEPT !.at = "ident", !.identities = <<"V_C", "V_S">>]
      \/ /\ q = read' /\ UNCHANGED write
         /\ server' = [server EXCEPT !.at = "closed", !.failed = TRUE]
  BY DEF identify, Taken
<1>8. Len(y) <= Capacity
  BY <1>1, <1>5, TransportAssumption DEF StreamInv, TypesInv
<1> HIDE DEF x, y, buf, q
<1>9. ClientInv' BY <1>6 DEF StreamInv, ClientInv
<1>10. CASE q = read' /\ UNCHANGED <<server, write>>
  <2>1. TypesInv' BY <1>5, <1>6, <1>8, <1>10 DEF StreamInv, TypesInv
  <2>2. InFlow' BY <1>5, <1>6, <1>10 DEF InFlow
  <2>3. OutFlow' BY <1>6, <1>10 DEF StreamInv, OutFlow, Ended
  <2>4. AwaitInv' BY <1>2, <1>3, <1>5, <1>6, <1>10 DEF StreamInv, AwaitInv
  <2>5. SendStep BY <1>1, <1>5, <1>6, <1>10 DEF SendStep
  <2> QED BY <1>9, <2>1, <2>2, <2>3, <2>4, <2>5 DEF StreamInv, LogStep
<1>11. CASE /\ q = read' /\ UNCHANGED write
            /\ server' = [server EXCEPT !.at = "closed", !.failed = TRUE]
  <2>1. server' \in ServerState /\ server'.at = "closed" BY <1>1, <1>11 DEF ServerState
  <2>2. TypesInv' BY <1>5, <1>6, <1>8, <1>11, <2>1 DEF StreamInv, TypesInv
  <2>3. InFlow' BY <1>5, <1>6, <1>11 DEF InFlow
  <2>4. OutFlow' BY <1>2, <1>6, <1>11 DEF StreamInv, OutFlow
  <2>5. AwaitInv' BY <1>6, <1>11, <2>1 DEF StreamInv, AwaitInv
  <2>6. SendStep BY <1>1, <1>5, <1>6, <1>11 DEF SendStep
  <2> QED BY <1>9, <2>2, <2>3, <2>4, <2>5, <2>6 DEF StreamInv, LogStep
<1>12. CASE /\ IsComplete(buf)
            /\ read' = [read EXCEPT !.buf = buf, !.last_length = Size["Ident"], !.log = Append(@, first)]
            /\ write' = encoded(write, Msg("Ident"))
            /\ server' = [server EXCEPT !.at = "ident", !.identities = <<"V_C", "V_S">>]
  <2>1. q.buf /= <<>> BY <1>5, <1>12 DEF IsComplete
  <2>2. /\ Len(q.log) + 1 \in 1..Len(log) /\ q.buf[1].packet = log[Len(q.log) + 1]
        /\ q.buf[1].packet \in WirePacket
        /\ Size[q.buf[1].packet.msg.type] <= Len(q.buf)
        /\ Size[q.buf[1].packet.msg.type] \in Nat \ {0}
        /\ Carries(Drop(q.buf, Size[q.buf[1].packet.msg.type]) \o y, log, Len(q.log) + 1)
    BY <1>1, <1>5, <1>12, <2>1, NextPacket
  <2>3. Len(q.log) = 0 BY <1>3, <1>5
  <2>4. first = log[1] /\ first \in WirePacket /\ 1 \in 1..Len(log) BY <1>5, <2>2, <2>3
  <2>5. log[1].msg.type = "Ident"
    <3>1. log /= <<>> BY <1>1, <2>4
    <3> QED BY <3>1 DEF StreamInv, ClientInv
  <2> DEFINE z == Size["Ident"]
             u == read'
  <2>6. z <= Len(buf) /\ z \in Nat \ {0} /\ Carries(Drop(buf, z) \o y, log, 1)
    BY <1>5, <2>2, <2>3, <2>4, <2>5
  <2>7. Append(read.log, first) \in Seq(WirePacket) /\ Len(Append(read.log, first)) = 1
    BY <1>1, <1>3, <2>4
  <2>8. buf \in Seq(Cell) BY <1>5 DEF ReadOK, ReadState
  <2> HIDE DEF first, z
  <2>9. /\ u \in ReadState /\ u.buf = buf /\ u.last_length = z /\ u.log = Append(read.log, first)
    BY <1>1, <1>12, <2>6, <2>7, <2>8 DEF ReadOK, ReadState, z
  <2>10. ReadOK(u) /\ Arrives(u, y, log) BY <2>6, <2>7, <2>9 DEF ReadOK, Arrives, Rest
  <2>11. Msg("Ident") \in Message BY MsgType DEF MessageTypes
  <2>12. Writes(write, write') BY <1>1, <1>12, <2>11, WritesEncode
  <2>13. <<"V_C", "V_S">> \in Exchange BY DEF Exchange
  <2>14. server' \in ServerState /\ server'.at = "ident" BY <1>1, <1>12, <2>13 DEF ServerState
  <2>15. TypesInv' BY <1>5, <1>6, <1>8, <2>10, <2>12, <2>14 DEF StreamInv, TypesInv, Writes
  <2>16. InFlow' BY <1>6, <2>10 DEF InFlow
  <2>17. OutFlow'
    <3>1. Len(client.read.log) \in Nat BY DEF StreamInv, TypesInv, ClientState, ReadState
    <3> QED BY <1>1, <1>2, <1>6, <2>12, <3>1 DEF StreamInv, OutFlow, Writes
  <2>18. AwaitInv'
    <3>1. client.at /= "new" BY <1>1, <2>4 DEF StreamInv, ClientInv
    <3> QED BY <1>6, <2>14, <3>1 DEF AwaitInv
  <2>19. TakeStep
    <3>1. Len(read.log) = 0 /\ Len(log) > 0 BY <1>3, <2>4
    <3> QED BY <1>1, <1>6, <2>4, <2>9, <2>12, <3>1 DEF TakeStep, Writes
  <2> QED BY <1>9, <2>15, <2>16, <2>17, <2>18, <2>19 DEF StreamInv, LogStep
<1> QED BY <1>7, <1>10, <1>11, <1>12

LEMMA BufferStream ==
  ASSUME StreamInv, NEW k \in 1..Len(c2s), buffer(k)
  PROVE  StreamInv' /\ LogStep
<1> DEFINE y == Drop(c2s, k)
           c == compact(read)
           q == Taken(c, c2s, k)
           log == client.write.log
<1>1. /\ read.log \in Seq(WirePacket) /\ log \in Seq(WirePacket)
      /\ Grows(write.log, write.log) /\ Grows(log, log) /\ ReadOK(read) /\ c2s \in Seq(Cell)
  BY LogTypes
<1>2. server.at = "receive" /\ ~Ended BY DEF buffer, Ended
<1>3. Arrives(read, c2s, log) BY <1>2 DEF StreamInv, InFlow
<1>4. ReadOK(c) /\ c.last_length = 0 /\ Rest(c) = Rest(read) /\ c.log = read.log
  BY <1>1, CompactFacts
<1>5. Arrives(c, c2s, log) BY <1>3, <1>4 DEF Arrives
<1>6. read' = q /\ c2s' = y /\ UNCHANGED <<server, write, handoff, client, s2c>> BY DEF buffer, Taken, Drop
<1> HIDE DEF c
<1>7. /\ ReadOK(q) /\ q.log = c.log /\ y \in Seq(Cell) /\ Len(y) <= Len(c2s) /\ Arrives(q, y, log)
  BY <1>1, <1>4, <1>5, TakeArrives
<1>8. Len(y) <= Capacity
  BY <1>1, <1>7, TransportAssumption DEF StreamInv, TypesInv
<1> HIDE DEF q, y
<1>9. TypesInv' BY <1>6, <1>7, <1>8 DEF StreamInv, TypesInv
<1>10. ClientInv' BY <1>6 DEF StreamInv, ClientInv
<1>11. InFlow' BY <1>6, <1>7 DEF InFlow
<1>12. OutFlow' BY <1>6 DEF StreamInv, OutFlow, Ended
<1>13. AwaitInv' BY <1>2, <1>6 DEF StreamInv, AwaitInv
<1>14. SendStep BY <1>1, <1>4, <1>6, <1>7 DEF SendStep
<1> QED BY <1>9, <1>10, <1>11, <1>12, <1>13, <1>14 DEF StreamInv, LogStep

LEMMA FlushStream ==
  ASSUME StreamInv, NEW k \in 1..Len(buffered(write)), flush(k)
  PROVE  StreamInv' /\ LogStep
<1> DEFINE v == written(write, k)
           t == s2c \o SubSeq(buffered(write), 1, k)
           n == Len(client.read.log)
<1>1. /\ WriteOK(write) /\ s2c \in Seq(Cell) /\ server \in ServerState
      /\ Grows(write.log, write.log) /\ Grows(client.write.log, client.write.log)
  BY LogTypes
<1>2. /\ server.at \in {"ident", "flush", "notify"} /\ Len(s2c) + k <= Capacity
      /\ s2c' = t /\ write' = v /\ UNCHANGED <<read, handoff, client, c2s>>
  BY DEF flush
<1>3. /\ WriteOK(v) /\ v.log = write.log /\ t \in Seq(Cell) /\ Len(t) = Len(s2c) + k
      /\ buffered(v) = <<>> <=> v.buf = <<>>
      /\ Leaves(s2c, write, n) => Leaves(t, v, n)
  BY <1>1, FlushLeaves
<1> DEFINE a == CASE buffered(v) /= <<>> -> server.at
                  [] buffered(v) = <<>> /\ server.at = "notify" -> "closed"
                  [] buffered(v) = <<>> /\ server.at /= "notify" ->
                       IF server.stage = "granted" THEN "spawn" ELSE "receive"
<1>4. server' = [server EXCEPT !.at = a] BY DEF flush
<1> HIDE DEF v, t, n
<1>5. /\ a \in {"ident", "flush", "notify", "closed", "spawn", "receive"}
      /\ a \in {"spawn", "receive"} => v.buf = <<>>
  BY <1>2, <1>3
<1> HIDE DEF a
<1>6. server' \in ServerState /\ server'.at = a BY <1>1, <1>4, <1>5 DEF ServerState
<1>7. TypesInv' BY <1>2, <1>3, <1>6 DEF StreamInv, TypesInv
<1>8. ClientInv' BY <1>2 DEF StreamInv, ClientInv
<1>9. InFlow' BY <1>2 DEF StreamInv, InFlow, Ended
<1>10. OutFlow' BY <1>2, <1>3 DEF StreamInv, OutFlow, Ended, n
<1>11. AwaitInv' BY <1>2, <1>5, <1>6 DEF StreamInv, AwaitInv
<1>12. SendStep BY <1>1, <1>2, <1>3 DEF SendStep
<1> QED BY <1>7, <1>8, <1>9, <1>10, <1>11, <1>12 DEF StreamInv, LogStep

LEMMA TerminalsPollStream ==
  ASSUME StreamInv, TerminalsPoll
  PROVE  StreamInv' /\ LogStep
<1> DEFINE w == encode(write, Msg("Output"))
           s == [server EXCEPT !.outputs = @ + 1]
<1>1. /\ WriteOK(write) /\ ReadOK(read) /\ server \in ServerState
      /\ Grows(client.write.log, client.write.log)
  BY LogTypes
<1>2. server.at = "receive" /\ ~Ended /\ Proceed(read, w, s) BY DEF TerminalsPoll, Ended
<1>3. Msg("Output") \in Message BY MsgType DEF MessageTypes
<1>4. Writes(write, w) BY <1>1, <1>3, WritesEncode
<1>5. s \in ServerState BY <1>1 DEF ServerState
<1>6. Arrives(read, c2s, client.write.log) BY <1>2 DEF StreamInv, InFlow
<1> HIDE DEF w, s
<1>7. StreamInv' BY <1>1, <1>2, <1>4, <1>5, <1>6, ProceedStream
<1>8. SendStep BY <1>1, <1>2, <1>4 DEF Proceed, SendStep, Writes
<1> QED BY <1>7, <1>8 DEF LogStep

LEMMA TimesOutStream ==
  ASSUME StreamInv, TimesOut
  PROVE  StreamInv' /\ LogStep
<1> DEFINE w == encode(write, Msg("Disconnect"))
<1>1. /\ WriteOK(write) /\ server \in ServerState /\ s2c \in Seq(Cell)
      /\ Grows(client.write.log, client.write.log) /\ client.read.log \in Seq(WirePacket)
  BY LogTypes
<1>2. /\ ~Ended /\ write' = w /\ server' = [server EXCEPT !.at = "notify"]
      /\ UNCHANGED <<read, handoff, client, c2s, s2c>>
  BY DEF TimesOut, Ended
<1>3. Msg("Disconnect") \in Message BY MsgType DEF MessageTypes
<1>4. Writes(write, w) BY <1>1, <1>3, WritesEncode
<1> HIDE DEF w
<1>5. server' \in ServerState /\ server'.at = "notify" BY <1>1, <1>2 DEF ServerState
<1>6. TypesInv' BY <1>2, <1>4, <1>5 DEF StreamInv, TypesInv, Writes
<1>7. ClientInv' BY <1>2 DEF StreamInv, ClientInv
<1>8. InFlow' BY <1>2 DEF StreamInv, InFlow
<1>9. OutFlow'
  <2>1. Len(client.read.log) \in Nat BY <1>1
  <2> QED BY <1>1, <1>2, <1>4, <2>1 DEF StreamInv, OutFlow, Writes
<1>10. AwaitInv' BY <1>2, <1>5 DEF StreamInv, AwaitInv, TimesOut
<1>11. SendStep BY <1>1, <1>2, <1>4 DEF SendStep, Writes
<1> QED BY <1>6, <1>7, <1>8, <1>9, <1>10, <1>11 DEF StreamInv, LogStep

LEMMA AcceptStream ==
  ASSUME StreamInv, accept
  PROVE  StreamInv' /\ LogStep
<1>1. /\ WriteOK(write) /\ server \in ServerState /\ ReadOK(read)
      /\ Grows(client.write.log, client.write.log) /\ Grows(write.log, write.log)
  BY LogTypes
<1>2. /\ server.at = "spawn" /\ ~Ended /\ server' = [server EXCEPT !.at = "handoff"]
      /\ handoff' = {SessionState(compact(read).buf)}
      /\ UNCHANGED <<read, write, client, c2s, s2c>>
  BY DEF accept, Ended
<1>3. compact(read).buf = Rest(read) BY <1>1, CompactFacts
<1>4. server' \in ServerState /\ server'.at = "handoff" BY <1>1, <1>2 DEF ServerState
<1>5. /\ server'.strict_kx = server.strict_kx /\ server'.session_id = server.session_id
      /\ server'.identities = server.identities /\ server'.exchange = server.exchange
  BY <1>1, <1>2 DEF ServerState
<1>6. SessionState(Rest(read))' = SessionState(Rest(read))
  BY <1>2, <1>5 DEF SessionState, Rest
<1>7. TypesInv' BY <1>2, <1>4 DEF StreamInv, TypesInv
<1>8. ClientInv' BY <1>2 DEF StreamInv, ClientInv
<1>9. InFlow' BY <1>2 DEF StreamInv, InFlow
<1>10. OutFlow' BY <1>2 DEF StreamInv, OutFlow
<1>11. AwaitInv' BY <1>2, <1>3, <1>4, <1>6 DEF StreamInv, AwaitInv
<1>12. SendStep BY <1>1, <1>2 DEF SendStep
<1> QED BY <1>7, <1>8, <1>9, <1>10, <1>11, <1>12 DEF StreamInv, LogStep

\* What the session process starts from.
LEMMA ResumeFacts ==
  ASSUME StreamInv, resume
  PROVE  /\ server.at = "handoff" /\ ~Ended /\ write.buf = <<>> /\ handoff' = {}
         /\ UNCHANGED <<client, c2s, s2c>>
         /\ read' = [buf |-> Rest(read), last_length |-> 0, sequence_number |-> read.sequence_number,
                     opener |-> [key |-> Key("c2s", server.exchange, server.session_id),
                                 counter |-> read.opener.counter],
                     log |-> read.log]
         /\ write' = [buf |-> <<>>, written |-> 0, sequence_number |-> write.sequence_number,
                      sealer |-> [key |-> Key("s2c", server.exchange, server.session_id),
                                  counter |-> write.sealer.counter],
                      log |-> write.log]
         /\ server' = [server EXCEPT !.at = "receive", !.stage = "session",
                         !.state = "AwaitingKexInit", !.exchange = <<>>]
<1> DEFINE h == SessionState(Rest(read))
<1>1. server.at = "handoff" /\ ~Ended /\ handoff' = {} /\ UNCHANGED <<client, c2s, s2c>>
  BY DEF resume, Ended
<1>2. handoff = {h} /\ write.buf = <<>> BY <1>1 DEF StreamInv, AwaitInv
<1>3. /\ read' = [buf |-> h.read_buf, last_length |-> 0,
                  sequence_number |-> h.read.sequence_number,
                  opener |-> [key |-> h.read.source, counter |-> h.read.counter],
                  log |-> read.log]
      /\ write' = [NewWriteState EXCEPT
                    !.sequence_number = h.write.sequence_number,
                    !.sealer = [key |-> h.write.source, counter |-> h.write.counter],
                    !.log = write.log]
      /\ server' = [server EXCEPT !.at = "receive", !.stage = "session",
                      !.state = "AwaitingKexInit", !.exchange = <<>>,
                      !.strict_kx = h.strict_kx, !.session_id = h.session_id,
                      !.identities = h.identities]
  BY <1>2 DEF resume
<1>4. /\ h.read_buf = Rest(read) /\ h.read.sequence_number = read.sequence_number
      /\ h.read.source = Key("c2s", server.exchange, server.session_id)
      /\ h.read.counter = read.opener.counter
      /\ h.write.sequence_number = write.sequence_number
      /\ h.write.source = Key("s2c", server.exchange, server.session_id)
      /\ h.write.counter = write.sealer.counter
      /\ h.strict_kx = server.strict_kx /\ h.session_id = server.session_id
      /\ h.identities = server.identities
  BY DEF SessionState, SideState
<1> HIDE DEF h
<1>5. server \in ServerState BY LogTypes
<1>6. server' = [server EXCEPT !.at = "receive", !.stage = "session",
                         !.state = "AwaitingKexInit", !.exchange = <<>>]
  BY <1>3, <1>4, <1>5 DEF ServerState
<1>7. write' = [buf |-> <<>>, written |-> 0, sequence_number |-> write.sequence_number,
                sealer |-> [key |-> Key("s2c", server.exchange, server.session_id),
                            counter |-> write.sealer.counter],
                log |-> write.log]
  BY <1>3, <1>4 DEF NewWriteState
<1> QED BY <1>1, <1>2, <1>3, <1>4, <1>6, <1>7

LEMMA ResumeStream ==
  ASSUME StreamInv, resume
  PROVE  StreamInv' /\ LogStep
<1> DEFINE kr == Key("c2s", server.exchange, server.session_id)
           kw == Key("s2c", server.exchange, server.session_id)
<1>1. /\ WriteOK(write) /\ server \in ServerState /\ ReadOK(read) /\ read.log \in Seq(WirePacket)
      /\ write.log \in Seq(WirePacket)
      /\ Grows(client.write.log, client.write.log) /\ Grows(write.log, write.log)
  BY LogTypes
<1>2. /\ server.at = "handoff" /\ ~Ended /\ write.buf = <<>> /\ UNCHANGED <<client, c2s, s2c>>
      /\ read' = [buf |-> Rest(read), last_length |-> 0, sequence_number |-> read.sequence_number,
                  opener |-> [key |-> kr, counter |-> read.opener.counter], log |-> read.log]
      /\ write' = [buf |-> <<>>, written |-> 0, sequence_number |-> write.sequence_number,
                   sealer |-> [key |-> kw, counter |-> write.sealer.counter], log |-> write.log]
      /\ server' = [server EXCEPT !.at = "receive", !.stage = "session",
                      !.state = "AwaitingKexInit", !.exchange = <<>>]
  BY ResumeFacts
<1>3. kr \in Keys /\ kw \in Keys BY <1>1 DEF Keys, Key, ServerState
<1>4. /\ read.sequence_number \in SequenceNumber /\ read.opener.counter \in Nat
      /\ write.sequence_number \in SequenceNumber /\ write.sealer.counter \in Nat
  BY <1>1 DEF ReadOK, ReadState, WriteOK, WriteState, KeyState
<1>5. Rest(read) \in Seq(Cell) /\ Len(Rest(read)) \in Nat BY <1>1, RestType
<1>6. <<>> \in Exchange /\ <<>> \in Seq(Cell) /\ Len(<<>>) = 0 BY DEF Exchange
<1> HIDE DEF kr, kw
<1>7. server' \in ServerState /\ server'.at = "receive" BY <1>1, <1>2, <1>6 DEF ServerState
<1>8. read' \in ReadState /\ read'.buf = Rest(read) /\ read'.last_length = 0 /\ read'.log = read.log
  BY <1>1, <1>2, <1>3, <1>4, <1>5 DEF ReadState, KeyState
<1>9. write' \in WriteState /\ write'.buf = <<>> /\ write'.written = 0 /\ write'.log = write.log
  BY <1>1, <1>2, <1>3, <1>4, <1>6 DEF WriteState, KeyState
<1>10. ReadOK(read') /\ WriteOK(write') BY <1>5, <1>6, <1>8, <1>9 DEF ReadOK, WriteOK
<1>11. Rest(read') = Rest(read) BY <1>5, <1>8, DropNone DEF Rest
<1>12. buffered(write') = buffered(write) BY <1>1, <1>2, <1>9, <1>10, BufferedType
<1>13. TypesInv' BY <1>2, <1>7, <1>10 DEF StreamInv, TypesInv
<1>14. ClientInv' BY <1>2 DEF StreamInv, ClientInv
<1>15. InFlow' BY <1>2, <1>8, <1>11 DEF StreamInv, InFlow, Arrives
<1>16. OutFlow' BY <1>2, <1>9, <1>12 DEF StreamInv, OutFlow, Leaves
<1>17. AwaitInv' BY <1>2, <1>7, <1>9 DEF StreamInv, AwaitInv
<1>18. SendStep BY <1>1, <1>2, <1>8, <1>9 DEF SendStep
<1> QED BY <1>13, <1>14, <1>15, <1>16, <1>17, <1>18 DEF StreamInv, LogStep

LEMMA LostStream ==
  ASSUME StreamInv, Lost
  PROVE  StreamInv' /\ LogStep
<1>1. server \in ServerState /\ Grows(client.write.log, client.write.log) /\ Grows(write.log, write.log)
  BY LogTypes
<1>2. /\ server' = [server EXCEPT !.at = "closed"] /\ c2s' = <<>> /\ s2c' = <<>>
      /\ UNCHANGED <<read, write, handoff, client>>
  BY DEF Lost
<1>3. server' \in ServerState /\ server'.at = "closed" BY <1>1, <1>2 DEF ServerState
<1>4. <<>> \in Seq(Cell) /\ Len(<<>>) <= Capacity BY TransportAssumption
<1>5. TypesInv' BY <1>2, <1>3, <1>4 DEF StreamInv, TypesInv
<1>6. ClientInv' BY <1>2 DEF StreamInv, ClientInv
<1>7. InFlow' /\ OutFlow' BY <1>2, <1>3 DEF InFlow, OutFlow, Ended
<1>8. AwaitInv' BY <1>2, <1>3 DEF StreamInv, AwaitInv
<1>9. SendStep BY <1>1, <1>2 DEF SendStep
<1> QED BY <1>5, <1>6, <1>7, <1>8, <1>9 DEF StreamInv, LogStep

-----------------------------------------------------------------------------
(* The client's steps. *)

\* One packet that is put into the network.
Puts(w, p) ==
  /\ w \in WriteState /\ p \in WirePacket
  /\ w.buf = Cells(p) /\ w.log = Append(client.write.log, p) /\ w.written = 0

LEMMA TransmitStream ==
  ASSUME StreamInv, NEW w, NEW p, Puts(w, p), NEW c \in ClientState,
         c.read = client.read, c.ok = client.ok, c.at /= "new",
         client.at = "new" => p.msg.type = "Ident", Transmit(w, c)
  PROVE  /\ StreamInv' /\ LogStep
         /\ client' \in ClientState /\ client' = [c EXCEPT !.write = client'.write]
         /\ client'.write.log = Append(client.write.log, p) /\ client'.write.sealer = w.sealer
         /\ client'.write.sequence_number = w.sequence_number
<1> DEFINE log == client.write.log
           v == [w EXCEPT !.buf = <<>>]
<1>1. /\ client.write \in WriteState /\ log \in Seq(WirePacket) /\ c2s \in Seq(Cell) /\ ReadOK(read)
      /\ Grows(write.log, write.log)
  BY LogTypes
<1>2. /\ ~Ended /\ Len(c2s) + Len(w.buf) <= Capacity /\ c2s' = c2s \o w.buf
      /\ client' = [c EXCEPT !.write = v] /\ UNCHANGED <<server, read, write, handoff, s2c>>
  BY DEF Transmit
<1>3. /\ w \in WriteState /\ p \in WirePacket /\ w.buf = Cells(p) /\ w.log = Append(log, p) /\ w.written = 0
  BY DEF Puts
<1>4. Cells(p) \in Seq(Cell) BY <1>3, CellsFacts
<1>5. /\ v \in WriteState /\ v.buf = <<>> /\ v.written = 0 /\ v.log = w.log /\ v.sealer = w.sealer
      /\ v.sequence_number = w.sequence_number
  <2>1. <<>> \in Seq(Cell) OBVIOUS
  <2> QED BY <1>3, <2>1 DEF WriteState
<1> HIDE DEF v
<1>6. /\ client' \in ClientState /\ client'.write = v /\ client'.read = client.read
      /\ client'.ok = client.ok /\ client'.at = c.at
  BY <1>2, <1>5 DEF ClientState
<1>7. client' = [c EXCEPT !.write = client'.write] BY <1>2, <1>6
<1>8. c2s' \in Seq(Cell) /\ Len(c2s') <= Capacity BY <1>1, <1>2, <1>3, <1>4
<1>9. TypesInv' BY <1>2, <1>6, <1>8 DEF StreamInv, TypesInv
<1>10. /\ Append(log, p) /= <<>> /\ Append(log, p)[1] = IF log = <<>> THEN p ELSE log[1]
  <2>1. log \in Seq(WirePacket) BY <1>1
  <2> HIDE DEF log
  <2>2. Len(log) \in Nat /\ Len(Append(log, p)) = Len(log) + 1 /\ (log = <<>> <=> Len(log) = 0) BY <2>1
  <2>3. Append(log, p) \in Seq(WirePacket) BY <1>3, <2>1
  <2>4. Append(log, p) /= <<>> BY <2>2, <2>3
  <2>5. CASE log = <<>> BY <2>2, <2>4, <2>5
  <2>6. CASE log /= <<>>
    <3>1. 1 \in 1..Len(log) BY <2>2, <2>6
    <3> QED BY <2>1, <2>4, <2>6, <3>1
  <2> QED BY <2>5, <2>6
<1>11. ClientInv' BY <1>3, <1>5, <1>6, <1>10 DEF StreamInv, ClientInv
<1>12. InFlow'
  <2> DEFINE b == Rest(read)
             x == b \o c2s
             d == Cells(p)
             n == Len(read.log)
  <2>1. b \in Seq(Cell) /\ d \in Seq(Cell) BY <1>1, <1>4, RestType
  <2>2. Carries(x, log, n) BY <1>2 DEF StreamInv, InFlow, Arrives
  <2> HIDE DEF b, d, n
  <2>3. x \in Seq(Cell) BY <1>1, <2>1
  <2>4. b \o (c2s \o d) = x \o d BY <1>1, <2>1, CellsAssociative
  <2> HIDE DEF x
  <2>5. Carries(x \o d, Append(log, p), n) BY <1>1, <1>3, <2>2, <2>3, CarriesAppend DEF d
  <2>6. Arrives(read, c2s \o d, Append(log, p)) BY <2>4, <2>5 DEF Arrives, b, n
  <2> QED BY <1>2, <1>3, <1>5, <1>6, <2>6 DEF InFlow, d
<1>13. OutFlow' BY <1>2, <1>6 DEF StreamInv, OutFlow
<1>14. AwaitInv' BY <1>2, <1>6 DEF StreamInv, AwaitInv, SessionState, Rest
<1>15. SendStep BY <1>1, <1>2, <1>3, <1>5, <1>6, GrowsAppend DEF SendStep
<1> QED BY <1>3, <1>5, <1>6, <1>7, <1>9, <1>11, <1>12, <1>13, <1>14, <1>15 DEF StreamInv, LogStep

\* What the client encodes is one packet.
LEMMA PutsEncode ==
  ASSUME StreamInv, NEW m \in Message
  PROVE  LET w == client.write
         IN /\ Puts(encode(w, m), Packet(m, w.sealer.key, w.sealer.counter, w.sequence_number))
            /\ Puts(encoded(w, m), Packet(m, NoKey, 0, 0))
<1> DEFINE w == client.write
           p == Packet(m, w.sealer.key, w.sealer.counter, w.sequence_number)
           o == Packet(m, NoKey, 0, 0)
<1>1. w \in WriteState /\ w.buf = <<>> /\ w.written = 0 BY LogTypes DEF StreamInv, ClientInv
<1>2. /\ p \in WirePacket /\ encode(w, m) \in WriteState
      /\ encode(w, m).buf = w.buf \o Cells(p) /\ encode(w, m).log = Append(w.log, p)
      /\ encode(w, m).written = w.written
  BY <1>1, EncodeFacts
<1>3. /\ o \in WirePacket /\ encoded(w, m) \in WriteState
      /\ encoded(w, m).buf = w.buf \o Cells(o) /\ encoded(w, m).log = Append(w.log, o)
      /\ encoded(w, m).written = w.written
  BY <1>1, EncodedFacts
<1> HIDE DEF p, o
<1>4. Cells(p) \in Seq(Cell) /\ Cells(o) \in Seq(Cell) BY <1>2, <1>3, CellsFacts
<1>5. <<>> \o Cells(p) = Cells(p) /\ <<>> \o Cells(o) = Cells(o) BY <1>4
<1> QED BY <1>1, <1>2, <1>3, <1>5 DEF Puts, p, o

LEMMA ClientSendsStream ==
  ASSUME StreamInv,
         \/ ClientIdent \/ ClientKexInit \/ ClientEcdhInit \/ ClientNewKeys \/ ClientRequests \/ ClientIgnores
         \/ ClientStrays
  PROVE  StreamInv' /\ LogStep
<1>1. client \in ClientState /\ client.write \in WriteState BY LogTypes
<1>2. \A t \in {"Ident", "NewKeys", "Ignore", "Data", "Try", "Auth"} : Msg(t) \in Message /\ Msg(t).type = t
  BY MsgType DEF MessageTypes
<1>3. \A m \in Message : \E p : Puts(encode(client.write, m), p)
  BY PutsEncode
<1>4. CASE ClientIdent
  <2> DEFINE m == Msg("Ident")
             w == encoded(client.write, m)
             p == Packet(m, NoKey, 0, 0)
             c == [client EXCEPT !.at = "idle"]
  <2>1. Transmit(w, c) BY <1>4 DEF ClientIdent
  <2>2. Puts(w, p) BY <1>2, PutsEncode
  <2>3. p.msg.type = "Ident" BY <1>2 DEF Packet
  <2>4. c \in ClientState /\ c.read = client.read /\ c.ok = client.ok /\ c.at /= "new"
    BY <1>1 DEF ClientState
  <2> HIDE DEF w, p, c
  <2> QED BY <2>1, <2>2, <2>3, <2>4, TransmitStream
<1>5. CASE ClientKexInit
  <2> DEFINE n == client.exchanges + 1
             m == KexInit(n, client.strict, client.ext_info)
             x == <<"V_C", "V_S", m>>
             c == [client EXCEPT !.at = "kexinit", !.exchanges = n, !.exchange = x]
  <2>1. client.at = "idle" /\ Transmit(encode(client.write, m), c) BY <1>5 DEF ClientKexInit
  <2>2. n \in Nat /\ client.strict \in BOOLEAN /\ client.ext_info \in BOOLEAN BY <1>1 DEF ClientState
  <2>3. m \in Message BY <2>2, MsgType
  <2>4. x \in Exchange BY <2>3 DEF Exchange
  <2>5. PICK p : Puts(encode(client.write, m), p) BY <1>3, <2>3
  <2> HIDE DEF m, x, n
  <2>6. c \in ClientState /\ c.read = client.read /\ c.ok = client.ok /\ c.at /= "new"
    BY <1>1, <2>2, <2>4 DEF ClientState
  <2> HIDE DEF c
  <2> QED BY <2>1, <2>5, <2>6, TransmitStream
<1>6. CASE ClientEcdhInit
  <2> DEFINE m == Fresh("EcdhInit", client.exchanges)
             c == [client EXCEPT !.at = "ecdh"]
  <2>1. client.at = "answered" /\ Transmit(encode(client.write, m), c) BY <1>6 DEF ClientEcdhInit
  <2>2. client.exchanges \in Nat BY <1>1 DEF ClientState
  <2>3. m \in Message BY <2>2, MsgType
  <2>4. PICK p : Puts(encode(client.write, m), p) BY <1>3, <2>3
  <2> HIDE DEF m
  <2>5. c \in ClientState /\ c.read = client.read /\ c.ok = client.ok /\ c.at /= "new"
    BY <1>1 DEF ClientState
  <2> HIDE DEF c
  <2> QED BY <2>1, <2>4, <2>5, TransmitStream
<1>7. CASE ClientNewKeys
  <2> DEFINE w == encode(client.write, Msg("NewKeys"))
             k == [key |-> Key("c2s", client.exchange, client.session_id), counter |-> 0]
             v == [w EXCEPT !.sequence_number = IF client.strict THEN 0 ELSE @, !.sealer = k]
             c == [client EXCEPT !.at = "newkeys"]
  <2>1. client.at = "reply" /\ Transmit(v, c) BY <1>7 DEF ClientNewKeys
  <2>2. PICK p : Puts(w, p) BY <1>2, <1>3
  <2>3. k \in KeyState /\ 0 \in SequenceNumber
    BY <1>1, PacketIOAssumption DEF KeyState, Keys, Key, ClientState, SequenceNumber
  <2>4. c \in ClientState /\ c.read = client.read /\ c.ok = client.ok /\ c.at /= "new"
    BY <1>1 DEF ClientState
  <2> HIDE DEF w, k, c
  <2>5. Puts(v, p) BY <2>2, <2>3 DEF Puts, WriteState
  <2> HIDE DEF v
  <2> QED BY <2>1, <2>4, <2>5, TransmitStream
<1>8. CASE ClientRequests
  <2> DEFINE Asks(t, a, n) ==
               /\ client.at \in {"idle", "newkeys"}
               /\ Transmit(encode(client.write, Msg(t)), [client EXCEPT !.messages = n, !.asked = a])
  <2>1. PICK t \in {"Data", "Try", "Auth"}, a \in BOOLEAN, n \in Nat : Asks(t, a, n)
    <3>1. /\ client.at \in {"idle", "newkeys"}
          /\ \/ Transmit(encode(client.write, Msg(IF client.asked THEN "Data" ELSE "Try")),
                         [client EXCEPT !.messages = @ + 1])
             \/ Transmit(encode(client.write, Msg("Auth")), [client EXCEPT !.asked = TRUE])
      BY <1>8 DEF ClientRequests
    <3>2. client.messages \in Nat /\ client.messages + 1 \in Nat /\ client.asked \in BOOLEAN BY <1>1 DEF ClientState
    <3>3. CASE Transmit(encode(client.write, Msg(IF client.asked THEN "Data" ELSE "Try")),
                        [client EXCEPT !.messages = @ + 1])
      <4>1. PICK t \in {"Data", "Try", "Auth"} : t = IF client.asked THEN "Data" ELSE "Try" OBVIOUS
      <4>2. [client EXCEPT !.messages = @ + 1] = [client EXCEPT !.messages = client.messages + 1, !.asked = client.asked]
        BY <1>1 DEF ClientState
      <4>3. Asks(t, client.asked, client.messages + 1) BY <3>1, <3>3, <4>1, <4>2
      <4> HIDE DEF Asks
      <4> QED BY <3>2, <4>3
    <3>4. CASE Transmit(encode(client.write, Msg("Auth")), [client EXCEPT !.asked = TRUE])
      <4>1. [client EXCEPT !.asked = TRUE] = [client EXCEPT !.messages = client.messages, !.asked = TRUE]
        BY <1>1 DEF ClientState
      <4>2. Asks("Auth", TRUE, client.messages) BY <3>1, <3>4, <4>1
      <4> HIDE DEF Asks
      <4> QED BY <3>2, <4>2
    <3> HIDE DEF Asks
    <3> QED BY <3>1, <3>3, <3>4
  <2> DEFINE c == [client EXCEPT !.messages = n, !.asked = a]
  <2>2. PICK p : Puts(encode(client.write, Msg(t)), p) BY <1>2, <1>3
  <2>3. c \in ClientState /\ c.read = client.read /\ c.ok = client.ok /\ c.at = client.at
    BY <1>1 DEF ClientState
  <2>4. Transmit(encode(client.write, Msg(t)), c) /\ client.at \in {"idle", "newkeys"} BY <2>1
  <2> HIDE DEF c
  <2> QED BY <2>2, <2>3, <2>4, TransmitStream
<1>9. CASE ClientStrays
  <2> DEFINE c == [client EXCEPT !.strays = @ + 1, !.messages = @ + 1]
             u == [client.write EXCEPT !.sealer.counter = @ + 1]
  <2>1. PICK v \in {encode(client.write, m) : m \in
                      {Msg("Ignore"), Msg("Try"), Msg("Data"), Msg("NewKeys"),
                       Fresh("EcdhInit", 0), KexInit(0, FALSE, FALSE)}}
                   \cup {encode(u, Msg("Ignore"))} :
          client.at /= "new" /\ Transmit(v, c)
    BY <1>9 DEF ClientStrays
  <2>2. c \in ClientState /\ c.read = client.read /\ c.ok = client.ok /\ c.at = client.at
    <3>1. client.strays + 1 \in Nat /\ client.messages + 1 \in Nat BY <1>1 DEF ClientState
    <3>2. c = [client EXCEPT !.strays = client.strays + 1, !.messages = client.messages + 1]
      BY <1>1 DEF ClientState
    <3> HIDE DEF c
    <3> QED BY <1>1, <3>1, <3>2 DEF ClientState
  <2>3. \A m \in {Msg("Ignore"), Msg("Try"), Msg("Data"), Msg("NewKeys"),
                  Fresh("EcdhInit", 0), KexInit(0, FALSE, FALSE)} : m \in Message
    BY <1>2, MsgType
  <2>4. \E p : Puts(encode(u, Msg("Ignore")), p)
    <3>5. client.write.buf = <<>> /\ client.write.written = 0 BY DEF StreamInv, ClientInv
    <3>6. PICK k \in KeyState : k = [client.write.sealer EXCEPT !.counter = @ + 1]
      <4>1. PICK s \in KeyState : s = client.write.sealer BY <1>1 DEF WriteState
      <4>2. [s EXCEPT !.counter = @ + 1] \in KeyState BY DEF KeyState
      <4> QED BY <4>1, <4>2
    <3>7. u = [client.write EXCEPT !.sealer = k] BY <3>6
    <3> HIDE DEF u
    <3>1. u \in WriteState /\ u.buf = <<>> /\ u.written = 0 /\ u.log = client.write.log
      BY <1>1, <3>5, <3>7 DEF WriteState
    <3> DEFINE p == Packet(Msg("Ignore"), u.sealer.key, u.sealer.counter, u.sequence_number)
               e == encode(u, Msg("Ignore"))
    <3>2. /\ p \in WirePacket /\ e \in WriteState
          /\ e.buf = u.buf \o Cells(p) /\ e.log = Append(u.log, p) /\ e.written = u.written
      BY <1>2, <3>1, EncodeFacts
    <3> HIDE DEF p, e
    <3>3. <<>> \o Cells(p) = Cells(p) BY <3>2, CellsFacts
    <3>4. Puts(e, p) BY <3>1, <3>2, <3>3 DEF Puts
    <3> QED BY <3>4 DEF e
  <2> HIDE DEF u, c
  <2>5. PICK p : Puts(v, p) BY <1>3, <2>1, <2>3, <2>4
  <2> QED BY <2>1, <2>2, <2>5, TransmitStream
<1>10. CASE ClientIgnores
  <2> DEFINE c == [client EXCEPT !.messages = @ + 1]
  <2>1. client.at /= "new" /\ Transmit(encode(client.write, Msg("Ignore")), c) BY <1>10 DEF ClientIgnores
  <2>2. PICK p : Puts(encode(client.write, Msg("Ignore")), p) BY <1>2, <1>3
  <2>3. c \in ClientState /\ c.read = client.read /\ c.ok = client.ok /\ c.at = client.at
    BY <1>1 DEF ClientState
  <2> HIDE DEF c
  <2> QED BY <2>1, <2>2, <2>3, TransmitStream
<1> QED BY <1>4, <1>5, <1>6, <1>7, <1>8, <1>9, <1>10

\* What the client makes of a packet.
LEMMA UnderstoodFacts ==
  ASSUME client \in ClientState, NEW m \in Message, NEW r \in ReadState
  PROVE  LET u == Understood(m, r)
         IN /\ u \in ClientState /\ u.write = client.write /\ u.read.log = r.log
            /\ u.read.last_length = r.last_length
            /\ client.at /= "new" => u.at /= "new"
            /\ u.strays = client.strays /\ u.strict = client.strict
<1> DEFINE u == Understood(m, r)
           c == [client EXCEPT !.read = r]
           exchange == client.exchange \o <<"K_S", Fresh("EcdhInit", client.exchanges), m>>
           OK(x) == /\ x \in ClientState /\ x.write = client.write /\ x.read.log = r.log
                    /\ x.read.last_length = r.last_length
                    /\ client.at /= "new" => x.at /= "new"
                    /\ x.strays = client.strays /\ x.strict = client.strict
<1>1. c \in ClientState /\ c.read = r /\ c.at = client.at /\ c.write = client.write
      /\ c.exchange = client.exchange /\ c.session_id = client.session_id
      /\ c.strays = client.strays /\ c.strict = client.strict
  BY DEF ClientState
<1>2. OK(c) BY <1>1
<1>3. client.exchanges \in Nat /\ client.exchange \in Exchange /\ client.session_id \in Exchange
  BY DEF ClientState
<1>4. Fresh("EcdhInit", client.exchanges) \in Message BY <1>3, MsgType
<1>5. exchange \in Exchange /\ Append(client.exchange, m) \in Exchange BY <1>3, <1>4, ExchangeFacts
<1> HIDE DEF c, exchange
<1>6. CASE m.type = "Ident"
  <2>1. u = [c EXCEPT !.heard = TRUE] BY <1>6 DEF Understood, c
  <2>2. OK(u) BY <1>1, <2>1 DEF ClientState
  <2> QED BY <2>2
<1>7. CASE m.type = "KexInit"
  <2> DEFINE x == Append(client.exchange, m)
  <2>1. u = [c EXCEPT !.at = "answered", !.exchange = Append(@, m), !.ok = client.at = "kexinit"]
    BY <1>7 DEF Understood, c
  <2>3. u = [c EXCEPT !.at = "answered", !.exchange = x, !.ok = client.at = "kexinit"]
    BY <1>1, <2>1 DEF ClientState
  <2>4. x \in Exchange BY <1>5
  <2> HIDE DEF x, u
  <2>2. OK(u) BY <1>1, <2>3, <2>4 DEF ClientState
  <2> QED BY <2>2 DEF u
<1>8. CASE m.type = "EcdhReply"
  <2>1. u = [c EXCEPT !.at = "reply", !.exchange = exchange, !.ok = client.at = "ecdh",
                      !.session_id = IF client.exchanges = 1 THEN exchange ELSE @]
    BY <1>8 DEF Understood, c, exchange
  <2>2. OK(u) BY <1>1, <1>3, <1>5, <2>1 DEF ClientState
  <2> QED BY <2>2
<1>9. CASE m.type = "NewKeys"
  <2> DEFINE k == [key |-> Key("s2c", client.exchange, client.session_id), counter |-> 0]
             y == [r EXCEPT !.sequence_number = IF client.strict THEN 0 ELSE @, !.opener = k]
  <2>1. u = [c EXCEPT !.at = "idle", !.ok = client.at = "newkeys",
                      !.read.sequence_number = IF client.strict THEN 0 ELSE @,
                      !.read.opener = k]
    BY <1>9 DEF Understood, c
  <2>2. k \in KeyState /\ 0 \in SequenceNumber
    BY <1>3, PacketIOAssumption DEF KeyState, Keys, Key, SequenceNumber
  <2> HIDE DEF k
  <2>3. y \in ReadState /\ y.log = r.log /\ y.last_length = r.last_length BY <2>2 DEF ReadState
  <2>4. u = [c EXCEPT !.at = "idle", !.ok = client.at = "newkeys", !.read = y]
    BY <1>1, <2>1 DEF ClientState, ReadState
  <2> HIDE DEF y
  <2>5. OK(u) BY <1>1, <2>3, <2>4 DEF ClientState
  <2> QED BY <2>5
<1>10. CASE m.type \notin {"Ident", "KexInit", "EcdhReply", "NewKeys"}
  <2>1. u = c BY <1>10 DEF Understood, c
  <2> QED BY <1>2, <2>1
<1> QED BY <1>6, <1>7, <1>8, <1>9, <1>10

\* The packet the client takes.
LEMMA GiveFacts ==
  ASSUME StreamInv, ClientReceives
  PROVE  LET r == [client.read EXCEPT !.buf = s2c]
             p == s2c[1].packet
             n == Len(client.read.log)
         IN /\ n + 1 \in 1..Len(write.log) /\ p = write.log[n + 1] /\ p \in WirePacket
            /\ p.msg \in Message /\ client.at /= "new" /\ client.ok
            /\ r \in ReadState /\ r.buf = s2c /\ r.log = client.read.log
            /\ r.opener = client.read.opener /\ r.sequence_number = client.read.sequence_number
            /\ SubSeq(r.buf, 1, Len(Cells(p))) = Cells(p)
            /\ s2c' \in Seq(Cell) /\ Len(s2c') <= Len(s2c)
            /\ Leaves(s2c', write, n + 1)
<1> DEFINE r == [client.read EXCEPT !.buf = s2c]
           p == s2c[1].packet
           z == Len(Cells(p))
           b == buffered(write)
<1>1. /\ client.read \in ReadState /\ WriteOK(write) /\ s2c \in Seq(Cell) /\ write.log \in Seq(WirePacket)
  BY LogTypes
<1>2. IsComplete(s2c) /\ client.ok /\ s2c' = Drop(s2c, z) /\ s2c /= <<>>
  BY DEF ClientReceives, Drop, IsComplete
<1>3. client.read.last_length = 0 BY DEF StreamInv, ClientInv
<1>4. /\ r \in ReadState /\ r.buf = s2c /\ r.last_length = 0 /\ r.log = client.read.log
      /\ r.opener = client.read.opener /\ r.sequence_number = client.read.sequence_number
  BY <1>1, <1>3 DEF ReadState
<1> HIDE DEF r
<1>5. ReadOK(r) BY <1>1, <1>4 DEF ReadOK
<1>6. b \in Seq(Cell) BY <1>1, BufferedType
<1>7. Leaves(s2c, write, Len(client.read.log)) BY <1>2 DEF StreamInv, OutFlow
<1>8. Rest(r) = s2c BY <1>1, <1>4, DropNone DEF Rest
<1>9. Arrives(r, b, write.log) BY <1>4, <1>7, <1>8 DEF Arrives, Leaves
<1> HIDE DEF b
<1>10. /\ Len(r.log) + 1 \in 1..Len(write.log) /\ r.buf[1].packet = write.log[Len(r.log) + 1]
       /\ r.buf[1].packet \in WirePacket
       /\ Len(Cells(r.buf[1].packet)) = Size[r.buf[1].packet.msg.type]
       /\ Size[r.buf[1].packet.msg.type] \in Nat \ {0}
       /\ Size[r.buf[1].packet.msg.type] <= Len(r.buf)
       /\ SubSeq(r.buf, 1, Len(Cells(r.buf[1].packet))) = Cells(r.buf[1].packet)
       /\ Carries(Drop(r.buf, Size[r.buf[1].packet.msg.type]) \o b, write.log, Len(r.log) + 1)
  BY <1>1, <1>2, <1>4, <1>5, <1>6, <1>9, NextPacket
<1>11. z \in Nat /\ z <= Len(s2c) BY <1>4, <1>10
<1>12. s2c' \in Seq(Cell) /\ Len(s2c') = Len(s2c) - z
  <2> HIDE DEF z
  <2> QED BY <1>1, <1>2, <1>11, DropFacts
<1>13. Leaves(s2c', write, Len(client.read.log) + 1) BY <1>2, <1>4, <1>10 DEF Leaves, b
<1>14. write.log /= <<>>
  <2> DEFINE i == Len(r.log) + 1
             q == write.log
  <2>1. q \in Seq(WirePacket) BY <1>1
  <2>2. i \in 1..Len(q) BY <1>10
  <2> HIDE DEF i, q
  <2>3. q /= <<>> BY <2>1, <2>2
  <2> QED BY <2>3 DEF q
<1>15. client.at /= "new" BY <1>14 DEF StreamInv, AwaitInv
<1>16. p.msg \in Message BY <1>4, <1>10 DEF WirePacket
<1>17. Len(s2c') <= Len(s2c) BY <1>1, <1>11, <1>12
<1> QED BY <1>2, <1>4, <1>10, <1>12, <1>13, <1>15, <1>16, <1>17 DEF r

LEMMA ClientReceivesStream ==
  ASSUME StreamInv, ClientReceives
  PROVE  StreamInv' /\ LogStep
<1> DEFINE r == [client.read EXCEPT !.buf = s2c]
           p == s2c[1].packet
           n == Len(client.read.log)
           next == [poll_packet(r) EXCEPT !.buf = <<>>, !.last_length = 0]
           ident == [client.read EXCEPT !.log = Append(@, p)]
           t == s2c'
<1>1. /\ n + 1 \in 1..Len(write.log) /\ p = write.log[n + 1] /\ p \in WirePacket
      /\ p.msg \in Message /\ client.at /= "new" /\ client.ok
      /\ r \in ReadState /\ r.log = client.read.log
      /\ t \in Seq(Cell) /\ Len(t) <= Len(s2c) /\ Leaves(t, write, n + 1)
  BY GiveFacts
<1>2. /\ client' = IF p.msg.type = "Ident" THEN Understood(p.msg, ident)
                   ELSE IF Opens(r) THEN Understood(p.msg, next)
                   ELSE [client EXCEPT !.ok = FALSE]
      /\ UNCHANGED <<server, read, write, handoff, c2s>>
  BY DEF ClientReceives
<1>3. /\ client \in ClientState /\ client.read \in ReadState /\ client.read.log \in Seq(WirePacket)
      /\ s2c \in Seq(Cell) /\ Grows(write.log, write.log)
      /\ client.write.log \in Seq(WirePacket) /\ Grows(client.write.log, client.write.log)
  BY LogTypes
<1>4. client.read.last_length = 0 /\ Len(s2c) <= Capacity BY DEF StreamInv, ClientInv, TypesInv
<1>5. Len(t) <= Capacity BY <1>1, <1>3, <1>4, TransportAssumption
<1> HIDE DEF p, n
<1>6. Append(client.read.log, p) \in Seq(WirePacket) /\ Len(Append(client.read.log, p)) = n + 1
  BY <1>1, <1>3 DEF n
<1>7. ident \in ReadState /\ ident.log = Append(client.read.log, p) /\ ident.last_length = 0
  BY <1>3, <1>4, <1>6 DEF ReadState
<1>8. next \in ReadState /\ next.log = Append(client.read.log, p) /\ next.last_length = 0
  <2> DEFINE q == poll_packet(r)
             z == Len(Cells(p))
             o == r.opener
  <2>1. r.buf = s2c /\ o \in KeyState /\ r.sequence_number \in SequenceNumber
    BY <1>1, <1>3 DEF ReadState
  <2>2. r.buf[1].packet = p BY <2>1 DEF p
  <2>3. z \in Nat BY <1>1, CellsFacts
  <2>4. (r.sequence_number + 1) % SequenceModulus \in SequenceNumber
    BY <2>1, PacketIOAssumption DEF SequenceNumber
  <2>5. q = [r EXCEPT !.last_length = z, !.log = Append(@, p), !.opener = Used(@),
                      !.sequence_number = (@ + 1) % SequenceModulus]
    BY <2>2 DEF poll_packet
  <2>6. Used(o) \in KeyState
    <3> HIDE DEF o
    <3> QED BY <2>1 DEF Used, KeyState
  <2> HIDE DEF q, z, r
  <2>7. q \in ReadState /\ q.log = Append(client.read.log, p)
    BY <1>1, <1>6, <2>3, <2>4, <2>5, <2>6 DEF ReadState
  <2>8. <<>> \in Seq(Cell) OBVIOUS
  <2> QED BY <2>7, <2>8 DEF ReadState, q
<1> HIDE DEF ident, next, r, t

\* All that the rest of the state sees of the client.
<1>9. /\ client' \in ClientState /\ client'.write = client.write /\ client'.read.last_length = 0
      /\ client'.at /= "new"
      /\ \/ client'.read.log = Append(client.read.log, p)
         \/ client'.read.log = client.read.log /\ ~client'.ok
  <2>1. CASE p.msg.type = "Ident" BY <1>1, <1>2, <1>3, <1>7, <2>1, UnderstoodFacts
  <2>2. CASE p.msg.type /= "Ident" /\ Opens(r) BY <1>1, <1>2, <1>3, <1>8, <2>2, UnderstoodFacts
  <2>3. CASE p.msg.type /= "Ident" /\ ~Opens(r)
    <3>1. client' = [client EXCEPT !.ok = FALSE] BY <1>2, <2>3
    <3> QED BY <1>1, <1>3, <1>4, <3>1 DEF ClientState
  <2> QED BY <2>1, <2>2, <2>3
<1>10. TypesInv' BY <1>1, <1>2, <1>5, <1>9 DEF StreamInv, TypesInv, t
<1>11. ClientInv' BY <1>1, <1>9 DEF StreamInv, ClientInv
<1>12. InFlow' BY <1>2, <1>9 DEF StreamInv, InFlow, Ended
<1>13. OutFlow' BY <1>1, <1>2, <1>6, <1>9 DEF OutFlow, t
<1>14. AwaitInv' BY <1>2, <1>9 DEF StreamInv, AwaitInv, SessionState, Rest
<1>15. LogStep
  <2>1. n < Len(write.log) /\ n \in Nat BY <1>1, <1>3 DEF n
  <2>2. CASE client'.read.log = Append(client.read.log, p)
    <3>1. GiveStep BY <1>1, <1>2, <1>9, <2>1, <2>2 DEF GiveStep, n
    <3> QED BY <3>1 DEF LogStep
  <2>3. CASE client'.read.log = client.read.log
    <3>1. SendStep BY <1>2, <1>3, <1>9, <2>3 DEF SendStep
    <3> QED BY <3>1 DEF LogStep
  <2> QED BY <1>9, <2>2, <2>3
<1> QED BY <1>10, <1>11, <1>12, <1>13, <1>14, <1>15 DEF StreamInv

-----------------------------------------------------------------------------
(* The streams of the whole specification. *)

LEMMA StreamStep ==
  ASSUME StreamInv, NextTransport
  PROVE  StreamInv' /\ LogStep
<1>1. CASE ServerProgress
  BY <1>1, IdentifyStream, BufferStream, ReceiveStream, FlushStream, AcceptStream, ResumeStream
     DEF ServerProgress
<1>2. CASE TerminalsPoll BY <1>2, TerminalsPollStream
<1>3. CASE TimesOut BY <1>3, TimesOutStream
<1>4. CASE Lost BY <1>4, LostStream
<1>5. CASE ClientStep BY <1>5, ClientSendsStream, ClientReceivesStream DEF ClientStep
<1> QED BY <1>1, <1>2, <1>3, <1>4, <1>5 DEF NextTransport

LEMMA StreamStutter ==
  ASSUME StreamInv, UNCHANGED transportVars
  PROVE  StreamInv'
<1>1. UNCHANGED <<server, read, write, handoff, client, c2s, s2c>> BY DEF transportVars
<1>2. TypesInv' BY <1>1 DEF StreamInv, TypesInv
<1>3. ClientInv' BY <1>1 DEF StreamInv, ClientInv
<1>4. InFlow' BY <1>1 DEF StreamInv, InFlow, Ended
<1>5. OutFlow' BY <1>1 DEF StreamInv, OutFlow, Ended
<1>6. AwaitInv' BY <1>1 DEF StreamInv, AwaitInv, SessionState, Rest
<1> QED BY <1>2, <1>3, <1>4, <1>5, <1>6 DEF StreamInv

\* Whatever the client sends and however the streams cut it, what is under
\* way in each direction is exactly what was sent and not yet received:
\* buffered by the writer, in the network, or buffered by the reader, also
\* across the handoff to the session process.
THEOREM StreamInvariant == SpecTransport => []StreamInv
<1>1. StreamInv /\ [NextTransport]_transportVars => StreamInv' BY StreamStep, StreamStutter
<1> QED BY <1>1, InitStream, PTL DEF SpecTransport

\* The type invariant: the lengths that poll_packet, accept and buffered
\* subtract never exceed what they are subtracted from.
THEOREM TransportTyped == SpecTransport => []TypeOKTransport
<1>1. ASSUME StreamInv PROVE TypeOKTransport
  <2>1. /\ server \in ServerState /\ ReadOK(read) /\ WriteOK(write)
        /\ c2s \in Seq(Cell) /\ s2c \in Seq(Cell) /\ Len(c2s) <= Capacity /\ Len(s2c) <= Capacity
    BY <1>1 DEF StreamInv, TypesInv
  <2>2. /\ server.at \in {"identify", "ident", "receive", "flush", "notify", "spawn", "handoff", "closed"}
        /\ server.stage \in {"kx", "auth", "granted", "session"}
        /\ server.state \in {"AwaitingKexInit", "AwaitingEcdhInit", "AwaitingNewKeys"}
    BY <2>1 DEF ServerState
  <2>3. /\ read.last_length \in 0..Len(read.buf) /\ read.sequence_number \in 0..SequenceModulus - 1
    BY <2>1 DEF ReadOK, ReadState, SequenceNumber
  <2>4. /\ write.written \in 0..Len(write.buf) /\ write.sequence_number \in 0..SequenceModulus - 1
        /\ write.written > 0 => write.written < Len(write.buf)
    BY <2>1 DEF WriteOK, WriteState, SequenceNumber
  <2> QED BY <2>1, <2>2, <2>3, <2>4 DEF TypeOKTransport
<1> QED BY <1>1, StreamInvariant, PTL

\* A step of the logs is a step of the two abstract queues.
LEMMA LogFifo ==
  ASSUME StreamInv, StreamInv', LogStep
  PROVE  /\ [Inbound!Send \/ Inbound!Receive]_<<client.write.log, read.log>>
         /\ [Outbound!Send \/ Outbound!Receive]_<<write.log, client.read.log>>
<1>1. /\ client.write.log \in Seq(WirePacket) /\ write.log \in Seq(WirePacket) BY LogTypes
<1>2. /\ client.write.log' \in Seq(WirePacket) /\ write.log' \in Seq(WirePacket)
  BY DEF StreamInv, TypesInv, ClientState, WriteOK, WriteState
<1>3. ASSUME Grows(client.write.log, client.write.log'), UNCHANGED read.log
      PROVE  [Inbound!Send \/ Inbound!Receive]_<<client.write.log, read.log>>
  BY <1>1, <1>2, <1>3, GrowsSends DEF Inbound!Send
<1>4. ASSUME Grows(write.log, write.log'), UNCHANGED client.read.log
      PROVE  [Outbound!Send \/ Outbound!Receive]_<<write.log, client.read.log>>
  BY <1>1, <1>2, <1>4, GrowsSends DEF Outbound!Send
<1>5. CASE SendStep BY <1>3, <1>4, <1>5 DEF SendStep
<1>6. CASE TakeStep BY <1>4, <1>6 DEF TakeStep, Inbound!Receive
<1>7. CASE GiveStep BY <1>7 DEF GiveStep, Outbound!Receive
<1> QED BY <1>5, <1>6, <1>7 DEF LogStep

\* The transport implements a queue in each direction: every packet that the
\* other side takes is the next one that was sent, once and in order, for
\* every way the reads and writes cut the packets, and although receives and
\* flushes are dropped half done and the read buffer changes processes.
THEOREM TransportDelivers == SpecTransport => DeliversInOrder
<1>1. InitTransport => Inbound!InitFifo /\ Outbound!InitFifo
  BY DEF InitTransport, Inbound!InitFifo, Outbound!InitFifo, NewReadState, NewWriteState
<1>2. StreamInv /\ StreamInv' /\ [NextTransport]_transportVars =>
        /\ [Inbound!Send \/ Inbound!Receive]_<<client.write.log, read.log>>
        /\ [Outbound!Send \/ Outbound!Receive]_<<write.log, client.read.log>>
  <2>1. CASE UNCHANGED transportVars BY <2>1 DEF transportVars
  <2> QED BY <2>1, StreamStep, LogFifo
<1> QED BY <1>1, <1>2, StreamInvariant, PTL
        DEF SpecTransport, DeliversInOrder, Inbound!SpecFifo, Outbound!SpecFifo

-----------------------------------------------------------------------------
(* Nonces.  The server's KEXINIT is in what every one of its keys is       *)
(* derived from, and it is a new one for each exchange.                    *)

Generation(key) == key[2][4].n

\* Of the keys in use the last is of generation b at most; the packets
\* sealed so far took counters below the sealer's, each once.
Sealed(w, b) ==
  /\ \A i \in 1..Len(w.log) : w.log[i].key /= NoKey => Generation(w.log[i].key) \in 0..b
  /\ w.sealer.key /= NoKey => Generation(w.sealer.key) \in 0..b
  /\ \A i \in 1..Len(w.log) :
       w.log[i].key = w.sealer.key /\ w.sealer.key /= NoKey => w.log[i].counter < w.sealer.counter
  /\ \A i, j \in 1..Len(w.log) :
       /\ w.log[i].key = w.log[j].key /\ w.log[i].key /= NoKey
       /\ w.log[i].counter = w.log[j].counter
       => i = j

LEMMA SealedSame ==
  ASSUME NEW w, NEW b, Sealed(w, b), NEW v, v.log = w.log, v.sealer = w.sealer
  PROVE  Sealed(v, b)
BY DEF Sealed

LEMMA SealedEncode ==
  ASSUME NEW w \in WriteState, NEW b, Sealed(w, b), NEW m \in Message
  PROVE  /\ Sealed(encode(w, m), b) /\ encode(w, m) \in WriteState
         /\ encode(w, m).sealer.key = w.sealer.key
<1> DEFINE p == Packet(m, w.sealer.key, w.sealer.counter, w.sequence_number)
           v == encode(w, m)
           l == Len(w.log)
<1>1. /\ p \in WirePacket /\ v \in WriteState /\ v.log = Append(w.log, p) /\ v.sealer = Used(w.sealer)
  BY EncodeFacts
<1>2. p.key = w.sealer.key /\ p.counter = w.sealer.counter BY DEF Packet
<1>3. w.log \in Seq(WirePacket) /\ w.sealer \in KeyState /\ l \in Nat BY DEF WriteState
<1>4. /\ Len(v.log) = l + 1 /\ v.log[l + 1] = p /\ \A i \in 1..l : v.log[i] = w.log[i]
  BY <1>1, <1>3
<1>5. /\ v.sealer.key = w.sealer.key
      /\ w.sealer.key /= NoKey => v.sealer.counter = w.sealer.counter + 1
      /\ w.sealer.counter \in Nat
  <2> DEFINE k == w.sealer
  <2>1. k \in KeyState BY <1>3
  <2> HIDE DEF k
  <2>2. /\ Used(k).key = k.key /\ k.counter \in Nat
        /\ k.key /= NoKey => Used(k).counter = k.counter + 1
    BY <2>1 DEF Used, KeyState
  <2> QED BY <1>1, <2>2 DEF k
<1>6. \A i \in 1..l : w.log[i].counter \in Nat
  <2>1. \A i \in 1..l : w.log[i] \in WirePacket BY <1>3
  <2> QED BY <2>1 DEF WirePacket
<1> HIDE DEF p, v, l
<1>7. \A i \in 1..Len(v.log) : i \in 1..l \/ i = l + 1 BY <1>3, <1>4
<1>8. \A i \in 1..Len(v.log) : v.log[i].key /= NoKey => Generation(v.log[i].key) \in 0..b
  BY <1>2, <1>4, <1>7 DEF Sealed, l
<1>9. v.sealer.key /= NoKey => Generation(v.sealer.key) \in 0..b BY <1>5 DEF Sealed
<1>10. ASSUME NEW i \in 1..Len(v.log), v.log[i].key = v.sealer.key, v.sealer.key /= NoKey
       PROVE  v.log[i].counter < v.sealer.counter
  <2>1. CASE i = l + 1 BY <1>2, <1>4, <1>5, <1>10, <2>1
  <2>2. CASE i \in 1..l
    <3>1. w.log[i].counter < w.sealer.counter BY <1>4, <1>5, <1>10, <2>2 DEF Sealed, l
    <3> QED BY <1>4, <1>5, <1>6, <1>10, <2>2, <3>1
  <2> QED BY <1>7, <2>1, <2>2
<1>11. ASSUME NEW i \in 1..Len(v.log), NEW j \in 1..Len(v.log),
              v.log[i].key = v.log[j].key, v.log[i].key /= NoKey, v.log[i].counter = v.log[j].counter
       PROVE  i = j
  <2>1. CASE i \in 1..l /\ j \in 1..l BY <1>4, <1>11, <2>1 DEF Sealed, l
  <2>4. \A o \in 1..l : w.log[o].key = p.key /\ p.key /= NoKey => w.log[o].counter /= p.counter
    BY <1>2, <1>5, <1>6 DEF Sealed, l
  <2>2. CASE i = l + 1 /\ j \in 1..l BY <1>4, <1>11, <2>2, <2>4
  <2>3. CASE i \in 1..l /\ j = l + 1 BY <1>4, <1>11, <2>3, <2>4
  <2> QED BY <1>7, <2>1, <2>2, <2>3
<1>12. Sealed(v, b) BY <1>8, <1>9, <1>10, <1>11 DEF Sealed
<1> QED BY <1>1, <1>5, <1>12 DEF v

LEMMA SealedEncoded ==
  ASSUME NEW w \in WriteState, NEW b, Sealed(w, b), NEW m \in Message
  PROVE  Sealed(encoded(w, m), b) /\ encoded(w, m).sealer = w.sealer
<1> DEFINE p == Packet(m, NoKey, 0, 0)
           v == encoded(w, m)
           l == Len(w.log)
<1>1. /\ p \in WirePacket /\ v \in WriteState /\ v.log = Append(w.log, p) /\ v.sealer = w.sealer
  BY EncodedFacts
<1>2. p.key = NoKey BY DEF Packet
<1>3. w.log \in Seq(WirePacket) /\ l \in Nat BY DEF WriteState
<1>4. /\ Len(v.log) = l + 1 /\ v.log[l + 1] = p /\ \A i \in 1..l : v.log[i] = w.log[i]
  BY <1>1, <1>3
<1> HIDE DEF p, v, l
<1>5. \A i \in 1..Len(v.log) : v.log[i].key /= NoKey => i \in 1..l /\ v.log[i] = w.log[i]
  BY <1>2, <1>3, <1>4
<1>6. Sealed(v, b)
  <2>1. \A i \in 1..Len(v.log) : v.log[i].key /= NoKey => Generation(v.log[i].key) \in 0..b
    BY <1>5 DEF Sealed, l
  <2>2. v.sealer.key /= NoKey => Generation(v.sealer.key) \in 0..b BY <1>1 DEF Sealed
  <2>3. \A i \in 1..Len(v.log) :
          v.log[i].key = v.sealer.key /\ v.sealer.key /= NoKey => v.log[i].counter < v.sealer.counter
    BY <1>1, <1>5 DEF Sealed, l
  <2>4. \A i, j \in 1..Len(v.log) :
          /\ v.log[i].key = v.log[j].key /\ v.log[i].key /= NoKey
          /\ v.log[i].counter = v.log[j].counter
          => i = j
    BY <1>5 DEF Sealed, l
  <2> QED BY <2>1, <2>2, <2>3, <2>4 DEF Sealed
<1> QED BY <1>1, <1>6 DEF v

\* A key of a new generation starts from 0.
LEMMA SealedNewKey ==
  ASSUME NEW w \in WriteState, NEW b \in Nat, Sealed(w, b), NEW v, v.log = w.log,
         NEW k, k /= NoKey, Generation(k) = b + 1, v.sealer = [key |-> k, counter |-> 0]
  PROVE  Sealed(v, b + 1)
<1> DEFINE l == Len(w.log)
<1>1. \A i \in 1..l : w.log[i].key /= k BY DEF Sealed
<1>2. \A i \in 1..l : w.log[i].key /= NoKey => Generation(w.log[i].key) \in 0..b + 1 BY DEF Sealed
<1>3. v.sealer.key = k /\ Generation(k) \in 0..b + 1 OBVIOUS
<1> QED BY <1>1, <1>2, <1>3 DEF Sealed

\* The generation of the keys in use, and what is known of the exchange that
\* leads to the next, or to those that the session process starts from.
Bound(s) == IF s.state = "AwaitingKexInit" THEN s.exchanges ELSE s.exchanges - 1

NonceOf(w, s) ==
  /\ Sealed(w, Bound(s))
  /\ s.at \notin {"identify", "closed"} => s.identities = <<"V_C", "V_S">>
  /\ s.state /= "AwaitingKexInit" =>
       s.exchanges >= 1 /\ Len(s.exchange) >= 4 /\ s.exchange[4].n = s.exchanges
  /\ s.stage \in {"auth", "granted"} => w.sealer.key = Key("s2c", s.exchange, s.session_id)
  /\ s.at \in {"spawn", "handoff"} => s.stage = "granted"

NonceInv == NonceOf(write, server)

LEMMA NonceAt ==
  ASSUME NEW w, NEW s \in ServerState, NonceOf(w, s), NEW v, NEW a, NEW f,
         Sealed(v, Bound(s)), v.sealer.key = w.sealer.key,
         s.at \in {"identify", "closed"} => a \in {"identify", "closed"},
         a \in {"spawn", "handoff"} => s.stage = "granted"
  PROVE  /\ NonceOf(v, [s EXCEPT !.at = a]) /\ NonceOf(v, [s EXCEPT !.at = a, !.failed = f])
<1>1. ASSUME NEW t \in {[s EXCEPT !.at = a], [s EXCEPT !.at = a, !.failed = f]}
      PROVE  NonceOf(v, t)
  <2>1. /\ t.at = a /\ t.state = s.state /\ t.stage = s.stage /\ t.exchanges = s.exchanges
        /\ t.exchange = s.exchange /\ t.session_id = s.session_id /\ t.identities = s.identities
    BY DEF ServerState
  <2>2. Bound(t) = Bound(s) BY <2>1 DEF Bound
  <2> HIDE DEF Bound
  <2> QED BY <2>1, <2>2 DEF NonceOf
<1> QED BY <1>1

LEMMA FourConcat ==
  ASSUME NEW a, NEW b, NEW c, NEW d
  PROVE  <<a, b>> \o <<c, d>> = <<a, b, c, d>>
<1> DEFINE S == {a, b, c, d}
           s == <<a, b>>
           t == <<c, d>>
           x == s \o t
           y == <<a, b, c, d>>
<1>1. /\ s \in Seq(S) /\ Len(s) = 2 /\ s[1] = a /\ s[2] = b
      /\ t \in Seq(S) /\ Len(t) = 2 /\ t[1] = c /\ t[2] = d
  OBVIOUS
<1>2. y \in Seq(S) /\ Len(y) = 4 /\ y[1] = a /\ y[2] = b /\ y[3] = c /\ y[4] = d OBVIOUS
<1> HIDE DEF S, s, t, y
<1>0. s \in Seq(S) /\ t \in Seq(S) BY <1>1
<1>3. x \in Seq(S) /\ Len(x) = Len(s) + Len(t) BY <1>0, ConcatProperties
<1>7. \A i \in 1..Len(s) + Len(t) : x[i] = IF i <= Len(s) THEN s[i] ELSE t[i - Len(s)]
  BY <1>0, ConcatProperties
<1> HIDE DEF x
<1>4. x[1] = s[1] /\ x[2] = s[2] /\ x[3] = t[1] /\ x[4] = t[2] BY <1>1, <1>7
<1>8. Len(x) = 4 BY <1>1, <1>3
<1>5. \A i \in 1..Len(x) : x[i] = y[i] BY <1>1, <1>2, <1>4, <1>8
<1>9. Len(x) = Len(y) BY <1>2, <1>8
<1>6. x = y BY <1>2, <1>3, <1>5, <1>9, SeqEqual
<1> QED BY <1>6 DEF x, y, s, t

LEMMA InitNonce == InitTransport => NonceInv
<1> SUFFICES ASSUME InitTransport PROVE NonceInv OBVIOUS
<1>1. write.log = <<>> /\ write.sealer.key = NoKey BY DEF InitTransport, NewWriteState
<1>2. Sealed(write, Bound(server)) BY <1>1 DEF Sealed
<1>3. /\ server.at = "identify" /\ server.state = "AwaitingKexInit" /\ server.stage = "kx" BY DEF InitTransport
<1> QED BY <1>2, <1>3 DEF NonceInv, NonceOf

\* The error of a step.
LEMMA FailsNonce ==
  ASSUME StreamInv, NonceInv, server.at = "receive", NEW r, Fails(r)
  PROVE  NonceInv'
<1> DEFINE told == server.stage = "auth"
           w == IF told THEN encode(write, Msg("Disconnect")) ELSE write
           a == IF told THEN "notify" ELSE "closed"
<1>1. write' = w /\ server' = [server EXCEPT !.at = a, !.failed = TRUE] BY DEF Fails
<1>2. write \in WriteState /\ server \in ServerState BY LogTypes, BufferedType
<1>3. Msg("Disconnect") \in Message BY MsgType DEF MessageTypes
<1>4. Sealed(write, Bound(server)) BY DEF NonceInv, NonceOf
<1>5. Sealed(w, Bound(server)) /\ w.sealer.key = write.sealer.key BY <1>2, <1>3, <1>4, SealedEncode
<1> HIDE DEF w
<1>6. a \in {"notify", "closed"} OBVIOUS
<1> HIDE DEF a
<1>7. NonceOf(w, [server EXCEPT !.at = a, !.failed = TRUE])
  BY <1>2, <1>5, <1>6, NonceAt DEF NonceInv
<1> QED BY <1>1, <1>7 DEF NonceInv

\* A step after which the task goes on.
LEMMA ProceedNonce ==
  ASSUME NEW r, NEW w, NEW s \in ServerState, NonceOf(w, s), s.at = "receive", Proceed(r, w, s)
  PROVE  NonceInv'
<1> DEFINE a == IF buffered(w) = <<>> THEN "receive" ELSE "flush"
<1>1. write' = w /\ server' = [s EXCEPT !.at = a] BY DEF Proceed
<1>2. a \in {"receive", "flush"} OBVIOUS
<1> HIDE DEF a
<1>3. Sealed(w, Bound(s)) BY DEF NonceOf
<1>4. NonceOf(w, [s EXCEPT !.at = a]) BY <1>2, <1>3, NonceAt
<1> QED BY <1>1, <1>4 DEF NonceInv

LEMMA ReceiveNonce ==
  ASSUME StreamInv, NonceInv, receive
  PROVE  NonceInv'
<1> DEFINE r == compact(read)
           m == r.buf[1].packet.msg
           q == poll_packet(r)
<1>1. server.at = "receive" /\ IsComplete(r.buf) BY ReceiveCases
<1>2. m \in Message BY <1>1, ReceiveFacts
<1>3. \/ Fails(r) \/ Fails(q)
      \/ handle_kexinit(m, q) /\ server.stage \in {"kx", "session"}
      \/ handle_ecdh_init(m, q) /\ server.stage \in {"kx", "session"}
      \/ handle_newkeys(m, q) /\ server.stage \in {"kx", "session"}
      \/ Proceed(q, write, server)
      \/ \E t \in {"Failure", "Answer"} : Proceed(q, encode(write, Msg(t)), server)
      \/ /\ Proceed(q, encode(write, Msg("Success")), [server EXCEPT !.stage = "granted"])
         /\ server.stage = "auth"
  BY ReceiveCases
<1> HIDE DEF r, q, m
<1>4. WriteOK(write) /\ write \in WriteState /\ server \in ServerState BY LogTypes, BufferedType
<1>5. \A t \in {"Failure", "Answer", "Success"} : Msg(t) \in Message BY MsgType DEF MessageTypes
<1>6. /\ Sealed(write, Bound(server)) /\ server.identities = <<"V_C", "V_S">>
      /\ server.exchanges \in Nat
  BY <1>1, <1>4 DEF NonceInv, NonceOf, ServerState
<1>7. CASE Fails(r) \/ Fails(q) BY <1>1, <1>7, FailsNonce
<1>8. CASE Proceed(q, write, server) BY <1>1, <1>4, <1>8, ProceedNonce DEF NonceInv
<1>9. CASE \E t \in {"Failure", "Answer"} : Proceed(q, encode(write, Msg(t)), server)
  <2>1. PICK t \in {"Failure", "Answer"} : Proceed(q, encode(write, Msg(t)), server) BY <1>9
  <2> DEFINE w == encode(write, Msg(t))
  <2>2. Sealed(w, Bound(server)) /\ w.sealer.key = write.sealer.key BY <1>4, <1>5, <1>6, SealedEncode
  <2>3. Proceed(q, w, server) BY <2>1
  <2> HIDE DEF w
  <2>4. NonceOf(w, server) BY <2>2 DEF NonceInv, NonceOf
  <2> QED BY <1>1, <1>4, <2>3, <2>4, ProceedNonce
<1>10. CASE /\ Proceed(q, encode(write, Msg("Success")), [server EXCEPT !.stage = "granted"])
            /\ server.stage = "auth"
  <2> DEFINE w == encode(write, Msg("Success"))
             s == [server EXCEPT !.stage = "granted"]
  <2>1. Sealed(w, Bound(server)) /\ w.sealer.key = write.sealer.key BY <1>4, <1>5, <1>6, SealedEncode
  <2>2. Proceed(q, w, s) BY <1>10
  <2>3. /\ s \in ServerState /\ s.at = "receive" /\ s.stage = "granted" /\ s.state = server.state
        /\ s.exchanges = server.exchanges /\ s.exchange = server.exchange
        /\ s.session_id = server.session_id /\ s.identities = server.identities
    BY <1>1, <1>4 DEF ServerState
  <2> HIDE DEF w, s
  <2>4. Bound(s) = Bound(server) BY <2>3 DEF Bound
  <2>5. NonceOf(w, s)
    <3>1. server.stage = "auth" BY <1>10
    <3>2. w.sealer.key = Key("s2c", s.exchange, s.session_id) BY <2>1, <2>3, <3>1 DEF NonceInv, NonceOf
    <3>3. s.state /= "AwaitingKexInit" =>
            s.exchanges >= 1 /\ Len(s.exchange) >= 4 /\ s.exchange[4].n = s.exchanges
      BY <2>3 DEF NonceInv, NonceOf
    <3> QED BY <1>6, <2>1, <2>3, <2>4, <3>2, <3>3 DEF NonceOf
  <2> QED BY <2>2, <2>3, <2>5, ProceedNonce
<1>11. CASE handle_kexinit(m, q) /\ server.stage \in {"kx", "session"}
  <2> DEFINE n == server.exchanges + 1
             local == KexInit(n, server.stage = "kx", FALSE)
             x == server.identities \o <<m, local>>
             s == [server EXCEPT !.state = "AwaitingEcdhInit", !.exchanges = n, !.exchange = x,
                     !.strict_kx = IF server.stage = "kx" THEN m.strict ELSE @,
                     !.ext_info = server.stage = "kx" /\ m.ext_info]
             w == encode(write, local)
  <2>1. Proceed(q, w, s) /\ m.type = "KexInit" /\ server.state = "AwaitingKexInit"
    BY <1>11 DEF handle_kexinit
  <2>2. m.strict \in BOOLEAN /\ m.ext_info \in BOOLEAN BY <1>2, <2>1, MessageFacts
  <2>3. n \in Nat /\ local \in Message
    <3>1. n \in Nat BY <1>6
    <3> HIDE DEF n
    <3> QED BY <3>1, LocalType, Zenon
  <2>4. local.n = n BY DEF KexInit
  <2>5. x \in Exchange /\ Len(x) = 4 /\ x[4] = local
    <3> HIDE DEF local
    <3>1. x = <<"V_C", "V_S", m, local>> BY <1>6, FourConcat
    <3> HIDE DEF x
    <3> QED BY <1>2, <2>3, <3>1 DEF Exchange
  <2>6. Sealed(w, Bound(server)) BY <1>4, <1>6, <2>3, SealedEncode
  <2> HIDE DEF x, local, w
  <2>7. /\ s \in ServerState /\ s.at = "receive" /\ s.stage \in {"kx", "session"}
        /\ s.state = "AwaitingEcdhInit" /\ s.exchanges = n /\ s.exchange = x
        /\ s.identities = server.identities
    BY <1>1, <1>4, <1>11, <2>2, <2>3, <2>5 DEF ServerState
  <2> HIDE DEF s
  <2>8. Bound(s) = Bound(server) BY <1>6, <2>1, <2>7 DEF Bound
  <2>9. s.exchange[4].n = s.exchanges /\ s.exchanges >= 1 /\ Len(s.exchange) >= 4
    <3>1. n >= 1 BY <1>6
    <3> HIDE DEF n
    <3>2. x[4].n = n BY <2>4, <2>5
    <3>3. s.exchange = x /\ s.exchanges = n BY <2>7
    <3>4. Len(x) >= 4 BY <2>5
    <3> QED BY <3>1, <3>2, <3>3, <3>4
  <2>10. NonceOf(w, s)
    <3> HIDE DEF Bound
    <3> QED BY <1>6, <2>6, <2>7, <2>8, <2>9 DEF NonceOf
  <2> QED BY <2>1, <2>7, <2>10, ProceedNonce
<1>12. CASE handle_ecdh_init(m, q) /\ server.stage \in {"kx", "session"}
  <2> DEFINE y == Fresh("EcdhReply", server.exchanges)
             x == server.exchange \o <<"K_S", m, y>>
             s == [server EXCEPT !.state = "AwaitingNewKeys", !.exchange = x,
                     !.session_id = IF server.stage = "kx" THEN x ELSE @]
             w == encode(write, y)
  <2>1. Proceed(q, w, s) /\ server.state = "AwaitingEcdhInit" BY <1>12 DEF handle_ecdh_init
  <2>2. /\ server.exchange \in Exchange /\ server.exchanges >= 1 /\ Len(server.exchange) >= 4
        /\ server.exchange[4].n = server.exchanges
    BY <1>4, <2>1 DEF NonceInv, NonceOf, ServerState
  <2>3. y \in Message BY <1>6, MsgType
  <2>4. x \in Exchange BY <1>2, <2>2, <2>3, ExchangeFacts
  <2>5. Len(x) >= 4 /\ x[4] = server.exchange[4]
    <3> DEFINE e == server.exchange
               z == <<"K_S", m, y>>
    <3> HIDE DEF y
    <3>1. e \in Seq(Message \union {"V_C", "V_S", "K_S"}) /\ z \in Seq(Message \union {"V_C", "V_S", "K_S"})
      BY <1>2, <2>2, <2>3 DEF Exchange
    <3>2. Len(e) >= 4 /\ Len(e) \in Nat BY <2>2, <3>1
    <3> HIDE DEF e, z
    <3>3. Len(e \o z) >= 4 /\ (e \o z)[4] = e[4] BY <3>1, <3>2
    <3> QED BY <3>3 DEF e, z
  <2>6. Sealed(w, Bound(server)) BY <1>4, <1>6, <2>3, SealedEncode
  <2> HIDE DEF x, y, w
  <2>7. /\ s \in ServerState /\ s.at = "receive" /\ s.stage \in {"kx", "session"}
        /\ s.state = "AwaitingNewKeys" /\ s.exchanges = server.exchanges /\ s.exchange = x
        /\ s.identities = server.identities
    BY <1>1, <1>4, <1>12, <2>4 DEF ServerState
  <2> HIDE DEF s
  <2>8. Bound(s) = Bound(server) BY <2>1, <2>7 DEF Bound
  <2>9. NonceOf(w, s)
    <3> HIDE DEF Bound
    <3> QED BY <1>6, <2>2, <2>5, <2>6, <2>7, <2>8 DEF NonceOf
  <2> QED BY <2>1, <2>7, <2>9, ProceedNonce
<1>13. CASE handle_newkeys(m, q) /\ server.stage \in {"kx", "session"}
  <2> DEFINE k == Key("s2c", server.exchange, server.session_id)
             e == encode(write, Msg("NewKeys"))
             w == apply(write, server)
             x == IF server.ext_info THEN encode(w, Msg("ExtInfo")) ELSE w
             v == IF server.stage = "kx" THEN encode(x, Msg("Ignore")) ELSE w
             u == apply_read(q, server)
             s == [server EXCEPT !.state = "AwaitingKexInit",
                                 !.stage = IF @ = "kx" THEN "auth" ELSE @]
             b == server.exchanges - 1
  <2>1. Proceed(u, v, s) /\ server.state = "AwaitingNewKeys" BY <1>13 DEF handle_newkeys
  <2>2. \A t \in {"NewKeys", "ExtInfo", "Ignore"} : Msg(t) \in Message BY MsgType DEF MessageTypes
  <2>3. server.exchanges >= 1 /\ server.exchange[4].n = server.exchanges
    BY <2>1 DEF NonceInv, NonceOf
  <2>4. b \in Nat /\ Bound(server) = b BY <1>6, <2>1, <2>3 DEF Bound
  <2>5. k /= NoKey /\ Generation(k) = b + 1
    <3>1. Generation(k) = server.exchanges BY <2>3 DEF Generation, Key
    <3> QED BY <1>6, <3>1 DEF Key, NoKey
  <2>6. Sealed(e, b) /\ e \in WriteState BY <1>4, <1>6, <2>2, <2>4, SealedEncode
  <2>7. w \in WriteState /\ w.log = e.log /\ w.sealer = [key |-> k, counter |-> 0]
    BY <1>4, ApplyFacts
  <2> HIDE DEF e, w, k, b
  <2>8. Sealed(w, b + 1) /\ w.sealer.key = k BY <2>4, <2>5, <2>6, <2>7, SealedNewKey
  <2>9. x \in WriteState /\ Sealed(x, b + 1) /\ x.sealer.key = k BY <2>2, <2>7, <2>8, SealedEncode
  <2> HIDE DEF x
  <2>10. Sealed(v, b + 1) /\ v.sealer.key = k BY <2>2, <2>8, <2>9, SealedEncode
  <2> HIDE DEF v
  <2>11. /\ s \in ServerState /\ s.at = "receive" /\ s.state = "AwaitingKexInit"
         /\ s.exchanges = server.exchanges /\ s.exchange = server.exchange
         /\ s.session_id = server.session_id /\ s.identities = server.identities
    BY <1>1, <1>4 DEF ServerState
  <2> HIDE DEF s, u
  <2>12. Bound(s) = b + 1 BY <1>6, <2>11 DEF Bound, b
  <2>13. NonceOf(v, s)
    <3> HIDE DEF Bound
    <3> QED BY <1>6, <2>10, <2>11, <2>12 DEF NonceOf, k
  <2> QED BY <2>1, <2>11, <2>13, ProceedNonce
<1> QED BY <1>3, <1>7, <1>8, <1>9, <1>10, <1>11, <1>12, <1>13

LEMMA NonceStep ==
  ASSUME StreamInv, NonceInv, NextTransport
  PROVE  NonceInv'
<1>1. WriteOK(write) /\ write \in WriteState /\ server \in ServerState BY LogTypes, BufferedType
<1>2. Sealed(write, Bound(server)) BY DEF NonceInv, NonceOf
<1>3. \A t \in {"Ident", "Disconnect", "Output"} : Msg(t) \in Message BY MsgType DEF MessageTypes
<1>4. CASE UNCHANGED <<server, write>> BY <1>4 DEF NonceInv
<1>5. ASSUME NEW k \in 1..Len(c2s), identify(k) PROVE NonceInv'
  <2>1. server.at = "identify" BY <1>5 DEF identify
  <2>2. CASE /\ UNCHANGED write
             /\ server' = [server EXCEPT !.at = "closed", !.failed = TRUE]
    <3>1. NonceOf(write, [server EXCEPT !.at = "closed", !.failed = TRUE])
      BY <1>1, <1>2, NonceAt DEF NonceInv
    <3> QED BY <2>2, <3>1 DEF NonceInv
  <2>3. CASE /\ write' = encoded(write, Msg("Ident"))
             /\ server' = [server EXCEPT !.at = "ident", !.identities = <<"V_C", "V_S">>]
    <3> DEFINE w == write'
               s == server'
    <3>1. Sealed(w, Bound(server)) /\ w.sealer = write.sealer
      BY <1>1, <1>2, <1>3, <2>3, SealedEncoded
    <3>2. /\ s.at = "ident" /\ s.identities = <<"V_C", "V_S">> /\ s.state = server.state
          /\ s.stage = server.stage /\ s.exchanges = server.exchanges
          /\ s.exchange = server.exchange /\ s.session_id = server.session_id
      BY <1>1, <2>3 DEF ServerState
    <3> HIDE DEF s, w
    <3>3. Bound(s) = Bound(server) BY <3>2 DEF Bound
    <3>4. NonceOf(w, s)
      <4> HIDE DEF Bound
      <4> QED BY <3>1, <3>2, <3>3 DEF NonceInv, NonceOf
    <3> QED BY <3>4 DEF NonceInv, s, w
  <2> QED BY <1>4, <1>5, <2>2, <2>3 DEF identify
<1>6. ASSUME NEW k \in 1..Len(buffered(write)), flush(k) PROVE NonceInv'
  <2> DEFINE w == written(write, k)
             a == CASE buffered(w) /= <<>> -> server.at
                    [] buffered(w) = <<>> /\ server.at = "notify" -> "closed"
                    [] buffered(w) = <<>> /\ server.at /= "notify" ->
                         IF server.stage = "granted" THEN "spawn" ELSE "receive"
  <2>1. /\ server.at \in {"ident", "flush", "notify"} /\ write' = w
        /\ server' = [server EXCEPT !.at = a]
    BY <1>6 DEF flush
  <2>2. w.log = write.log /\ w.sealer = write.sealer
    <3>1. <<>> \in Seq(Cell) OBVIOUS
    <3> QED BY <1>1, <3>1, FlushLeaves
  <2> HIDE DEF w
  <2>3. /\ a \in {"ident", "flush", "notify", "closed", "spawn", "receive"}
        /\ a = "spawn" => server.stage = "granted"
    BY <2>1
  <2> HIDE DEF a
  <2>4. Sealed(w, Bound(server)) BY <1>2, <2>2, SealedSame
  <2>5. NonceOf(w, [server EXCEPT !.at = a]) BY <1>1, <2>1, <2>2, <2>3, <2>4, NonceAt DEF NonceInv
  <2> QED BY <2>1, <2>5 DEF NonceInv
<1>7. CASE accept
  <2>1. server.at = "spawn" /\ UNCHANGED write /\ server' = [server EXCEPT !.at = "handoff"]
    BY <1>7 DEF accept
  <2>2. server.stage = "granted" BY <2>1 DEF NonceInv, NonceOf
  <2>3. NonceOf(write, [server EXCEPT !.at = "handoff"]) BY <1>1, <1>2, <2>1, <2>2, NonceAt DEF NonceInv
  <2> QED BY <2>1, <2>3 DEF NonceInv
<1>8. CASE resume
  <2> DEFINE w == write'
             s == server'
             k == Key("s2c", server.exchange, server.session_id)
  <2>1. /\ server.at = "handoff" /\ w.log = write.log
        /\ w.sealer = [key |-> k, counter |-> write.sealer.counter]
        /\ s = [server EXCEPT !.at = "receive", !.stage = "session",
                  !.state = "AwaitingKexInit", !.exchange = <<>>]
    BY <1>8, ResumeFacts
  <2>2. server.stage = "granted" BY <2>1 DEF NonceInv, NonceOf
  <2>3. write.sealer.key = k BY <2>2 DEF NonceInv, NonceOf
  <2>4. write.sealer \in KeyState BY <1>1 DEF WriteState
  <2>5. w.sealer = write.sealer BY <2>1, <2>3, <2>4 DEF KeyState
  <2>6. /\ s.at = "receive" /\ s.stage = "session" /\ s.state = "AwaitingKexInit"
        /\ s.exchanges = server.exchanges /\ s.identities = server.identities
    BY <1>1, <2>1 DEF ServerState
  <2>7. server.identities = <<"V_C", "V_S">> BY <2>1 DEF NonceInv, NonceOf
  <2> HIDE DEF w, s, k
  <2>8. Sealed(w, Bound(server)) BY <1>2, <2>1, <2>5, SealedSame
  <2>9. /\ Bound(s) = server.exchanges /\ server.exchanges \in Nat
        /\ Bound(server) = server.exchanges \/ Bound(server) = server.exchanges - 1
    BY <1>1, <2>6 DEF Bound, ServerState
  <2>10. Sealed(w, Bound(s))
    <3> DEFINE b == Bound(server)
               c == Bound(s)
    <3>1. \A i \in 0..b : i \in 0..c BY <2>9
    <3>2. Sealed(w, b) BY <2>8
    <3> HIDE DEF b, c
    <3>3. Sealed(w, c) BY <3>1, <3>2 DEF Sealed
    <3> QED BY <3>3 DEF c
  <2>11. NonceOf(w, s)
    <3> HIDE DEF Bound
    <3> QED BY <2>6, <2>7, <2>10 DEF NonceOf
  <2> QED BY <2>11 DEF NonceInv, w, s
<1>9. CASE TerminalsPoll
  <2> DEFINE w == encode(write, Msg("Output"))
             s == [server EXCEPT !.outputs = @ + 1]
  <2>1. Proceed(read, w, s) /\ server.at = "receive" BY <1>9 DEF TerminalsPoll
  <2>2. Sealed(w, Bound(server)) /\ w.sealer.key = write.sealer.key BY <1>1, <1>2, <1>3, SealedEncode
  <2>3. /\ s \in ServerState /\ s.at = "receive" /\ s.stage = server.stage /\ s.state = server.state
        /\ s.exchanges = server.exchanges /\ s.exchange = server.exchange
        /\ s.session_id = server.session_id /\ s.identities = server.identities
    BY <1>1, <2>1 DEF ServerState
  <2> HIDE DEF w, s
  <2>4. Bound(s) = Bound(server) BY <2>3 DEF Bound
  <2>5. NonceOf(w, s)
    <3> HIDE DEF Bound
    <3> QED BY <2>1, <2>2, <2>3, <2>4 DEF NonceInv, NonceOf
  <2> QED BY <2>1, <2>3, <2>5, ProceedNonce
<1>10. CASE TimesOut
  <2> DEFINE w == encode(write, Msg("Disconnect"))
  <2>1. server.at \in {"receive", "flush"} /\ write' = w /\ server' = [server EXCEPT !.at = "notify"]
    BY <1>10 DEF TimesOut
  <2>2. Sealed(w, Bound(server)) /\ w.sealer.key = write.sealer.key BY <1>1, <1>2, <1>3, SealedEncode
  <2> HIDE DEF w
  <2>3. NonceOf(w, [server EXCEPT !.at = "notify"]) BY <1>1, <2>1, <2>2, NonceAt DEF NonceInv
  <2> QED BY <2>1, <2>3 DEF NonceInv
<1>11. CASE Lost
  <2>1. UNCHANGED write /\ server' = [server EXCEPT !.at = "closed"] BY <1>11 DEF Lost
  <2>2. NonceOf(write, [server EXCEPT !.at = "closed"]) BY <1>1, <1>2, NonceAt DEF NonceInv
  <2> QED BY <2>1, <2>2 DEF NonceInv
<1>12. CASE ClientStep
  <2>1. UNCHANGED <<server, write>>
    BY <1>12 DEF ClientStep, ClientIdent, ClientKexInit, ClientEcdhInit, ClientNewKeys, ClientRequests,
                 ClientIgnores, ClientStrays, ClientReceives, Transmit
  <2> QED BY <1>4, <2>1
<1>13. ASSUME NEW k \in 1..Len(c2s), buffer(k) PROVE NonceInv'
  BY <1>4, <1>13 DEF buffer
<1> QED BY <1>5, <1>6, <1>7, <1>8, <1>9, <1>10, <1>11, <1>12, <1>13, ReceiveNonce
        DEF NextTransport, ServerProgress

\* The server never seals two packets with one key and one counter, whatever
\* the client sends: each exchange adds a KEXINIT of its own to what the keys
\* are derived from, apply starts a new key from 0, and the session process
\* goes on with the counter the server stopped at.
THEOREM NoncesAreUnique == SpecTransport => []NoncesUnique
<1>1. NonceInv /\ StreamInv /\ [NextTransport]_transportVars => NonceInv'
  <2>1. CASE UNCHANGED transportVars BY <2>1 DEF transportVars, NonceInv
  <2> QED BY <2>1, NonceStep
<1>2. StreamInv /\ NonceInv => NoncesUnique
  <2> SUFFICES ASSUME StreamInv, NonceInv PROVE NoncesUnique OBVIOUS
  <2>1. DOMAIN write.log = 1..Len(write.log) BY LogTypes
  <2> QED BY <2>1 DEF NonceInv, NonceOf, Sealed, NoncesUnique
<1> QED BY <1>1, <1>2, InitNonce, StreamInvariant, PTL DEF SpecTransport

-----------------------------------------------------------------------------
(* Both ends in step.  With a client that keeps to the protocol, what each *)
(* direction has come to is a function of the packets sent so far: how     *)
(* many key exchanges are complete, how far the next one is, whether the   *)
(* client has asked for its session, the counter and the sequence number.  *)
(* A reader is where the writer was when it sent the packet the reader     *)
(* takes next.                                                             *)

Offer == [strict : BOOLEAN, ext_info : BOOLEAN]

\* What the nth exchange covers when the client offers o.
ClientInit(o, n) == KexInit(n, o.strict, o.ext_info)
ServerInit(n) == KexInit(n, n = 1, FALSE)
Halfway(o, n) == <<"V_C", "V_S", ClientInit(o, n), ServerInit(n)>>
Covered(o, n) ==
  <<"V_C", "V_S", ClientInit(o, n), ServerInit(n), "K_S", Fresh("EcdhInit", n), Fresh("EcdhReply", n)>>

\* The key of a direction after e exchanges.
EpochKey(dir, o, e) == IF e = 0 THEN NoKey ELSE Key(dir, Covered(o, e), Covered(o, 1))

Progress == [epoch : Nat, phase : 0..2, asked : BOOLEAN, counter : Nat, seq : SequenceNumber]
Start == [epoch |-> 0, phase |-> 0, asked |-> FALSE, counter |-> 0, seq |-> 0]
Tick(s) == 3 * s.epoch + s.phase

KxTypes == {"KexInit", "EcdhInit", "EcdhReply", "NewKeys"}

\* The next message of the exchange.
KxMsg(dir, o, s) ==
  IF s.phase = 0 THEN IF dir = "c2s" THEN ClientInit(o, s.epoch + 1) ELSE ServerInit(s.epoch + 1)
  ELSE IF s.phase = 1 THEN Fresh(IF dir = "c2s" THEN "EcdhInit" ELSE "EcdhReply", s.epoch + 1)
  ELSE Msg("NewKeys")

\* The messages that may follow.  During an exchange the client sends nothing
\* else but, under the keys of an earlier one, IGNORE; it asks once, and sends
\* data, or KEXINIT again, only when it has.
Fits(dir, o, s, m) ==
  \/ m = KxMsg(dir, o, s) /\ (dir = "c2s" /\ s.phase = 0 => s.epoch = 0 \/ s.asked)
  \/ /\ m.type \notin KxTypes \union {"Ident"}
     /\ dir = "c2s" =>
          /\ s.epoch >= 1
          /\ \/ m.type = "Ignore"
             \/ s.phase = 0 /\ m.type \in IF s.asked THEN {"Data"} ELSE {"Try", "Auth"}

After(o, s, m) ==
  [epoch |-> IF m.type = "NewKeys" THEN s.epoch + 1 ELSE s.epoch,
   phase |-> IF m.type = "NewKeys" THEN 0 ELSE IF m.type \in KxTypes THEN s.phase + 1 ELSE s.phase,
   asked |-> s.asked \/ m.type = "Auth",
   counter |-> IF m.type = "NewKeys" THEN 0 ELSE IF s.epoch = 0 THEN s.counter ELSE s.counter + 1,
   seq |-> IF m.type = "NewKeys" /\ o.strict THEN 0 ELSE (s.seq + 1) % SequenceModulus]

\* Packet p takes a direction from s to t.
Moves(dir, o, s, p, t) ==
  \/ p.msg.type = "Ident" /\ s = Start /\ t = s
  \/ /\ p.msg.type /= "Ident"
     /\ p.key = EpochKey(dir, o, s.epoch) /\ p.counter = s.counter /\ p.seq = s.seq
     /\ Fits(dir, o, s, p.msg) /\ t = After(o, s, p.msg)

\* f is the course of a direction along its log.
Course(dir, o, log, f) ==
  /\ f \in [0..Len(log) -> Progress]
  /\ f[0] = Start
  /\ \A i, j \in 0..Len(log) : i <= j => Tick(f[i]) <= Tick(f[j])
  /\ \A i \in 1..Len(log) :
       Moves(dir, o, f[i - 1], log[i], f[i]) /\ (log[i].msg.type = "Ident" => i = 1)

\* A sealer, or an opener, and a sequence number that are at s.
Holds(dir, o, k, seq, s) ==
  k.key = EpochKey(dir, o, s.epoch) /\ k.counter = s.counter /\ seq = s.seq

\* The client, where it has sent up to s and received up to t.
Peer(o, c, s, t) ==
  /\ Tick(t) >= 2 => c.session_id = Covered(o, 1)
  /\ \/ /\ c.at \in {"new", "idle"} /\ s.epoch = c.exchanges /\ s.phase = 0
        /\ t.epoch = c.exchanges /\ t.phase = 0
     \/ /\ c.at = "kexinit" /\ c.exchange = <<"V_C", "V_S", ClientInit(o, c.exchanges)>>
        /\ s.epoch + 1 = c.exchanges /\ s.phase = 1 /\ t.epoch + 1 = c.exchanges /\ t.phase = 0
     \/ /\ c.at = "answered" /\ c.exchange = Halfway(o, c.exchanges)
        /\ s.epoch + 1 = c.exchanges /\ s.phase = 1 /\ t.epoch + 1 = c.exchanges /\ t.phase = 1
     \/ /\ c.at = "ecdh" /\ c.exchange = Halfway(o, c.exchanges)
        /\ s.epoch + 1 = c.exchanges /\ s.phase = 2 /\ t.epoch + 1 = c.exchanges /\ t.phase = 1
     \/ /\ c.at = "reply" /\ c.exchange = Covered(o, c.exchanges)
        /\ s.epoch + 1 = c.exchanges /\ s.phase = 2 /\ t.epoch + 1 = c.exchanges /\ t.phase = 2
     \/ /\ c.at = "newkeys" /\ c.exchange = Covered(o, c.exchanges)
        /\ s.epoch = c.exchanges /\ s.phase = 0 /\ t.epoch + 1 = c.exchanges /\ t.phase = 2

ClientAt(o, c, s, t) ==
  /\ c.strict = o.strict /\ c.ext_info = o.ext_info /\ c.ok /\ s.asked = c.asked
  /\ Holds("c2s", o, c.write.sealer, c.write.sequence_number, s)
  /\ Holds("s2c", o, c.read.opener, c.read.sequence_number, t)
  /\ Peer(o, c, s, t)

\* The task of the server, where it has received up to s: it answers each
\* message of an exchange at once.
Task(o, v, s) ==
  /\ ~v.failed
  /\ Tick(s) >= 1 => v.strict_kx = o.strict
  /\ Tick(s) >= 2 => v.session_id = Covered(o, 1)
  /\ \/ v.state = "AwaitingKexInit" /\ s.phase = 0 /\ s.epoch = v.exchanges
     \/ /\ v.state = "AwaitingEcdhInit" /\ s.phase = 1 /\ s.epoch + 1 = v.exchanges
        /\ v.exchange = Halfway(o, v.exchanges)
     \/ /\ v.state = "AwaitingNewKeys" /\ s.phase = 2 /\ s.epoch + 1 = v.exchanges
        /\ v.exchange = Covered(o, v.exchanges)
  /\ \/ v.stage = "kx" /\ s.epoch = 0 /\ ~s.asked
     \/ /\ v.stage \in {"auth", "granted"} /\ s.epoch = 1 /\ s.phase = 0
        /\ v.exchange = Covered(o, 1) /\ (s.asked <=> v.stage = "granted")
     \/ v.stage = "session" /\ s.epoch >= 1 /\ s.asked

ServerAt(o, v, r, w, s, t) ==
  /\ Task(o, v, s) /\ s.epoch = t.epoch /\ s.phase = t.phase
  /\ Holds("c2s", o, r.opener, r.sequence_number, s)
  /\ Holds("s2c", o, w.sealer, w.sequence_number, t)

\* What precedes the first exchange.
Early(v, r, w, c) ==
  /\ v.at = "identify" => w.log = <<>>
  /\ v.at \notin {"identify", "closed"} => r.log /= <<>>
  /\ c.heard => c.read.log /= <<>>
  /\ ~c.heard => c.exchanges = 0
  /\ c.exchanges = 0 => Len(c.write.log) <= 1
  /\ v.at = "receive" => v.stage /= "granted"

Linked(o, f, g, v, r, w, c) ==
  /\ Course("c2s", o, c.write.log, f) /\ Course("s2c", o, w.log, g)
  /\ Len(r.log) <= Len(c.write.log) /\ Len(c.read.log) <= Len(w.log)
  /\ ClientAt(o, c, f[Len(c.write.log)], g[Len(c.read.log)])
  /\ ServerAt(o, v, r, w, f[Len(r.log)], g[Len(w.log)])
  /\ Early(v, r, w, c)

SyncInv ==
  Regular => \E o \in Offer : \E f, g : Linked(o, f, g, server, read, write, client)

LEMMA TickFacts ==
  ASSUME NEW s \in Progress
  PROVE  /\ Tick(s) \in Nat /\ Tick(s) = 3 * s.epoch + s.phase
         /\ s.epoch \in Nat /\ s.phase \in 0..2 /\ s.asked \in BOOLEAN /\ s.counter \in Nat
         /\ s.seq \in SequenceNumber
BY DEF Tick, Progress

\* h goes on where g, after n packets, ends.
Prolongs(g, h, n) == \A i \in 0..n : h[i] = g[i]

\* h is the course with packet p more, to t.
Longer(dir, o, log, f, p, t, h) ==
  /\ Course(dir, o, Append(log, p), h) /\ h[Len(log) + 1] = t
  /\ Prolongs(f, h, Len(log))

LEMMA CourseAppend ==
  ASSUME NEW dir, NEW o, NEW log \in Seq(WirePacket), NEW f, Course(dir, o, log, f),
         NEW p \in WirePacket, NEW t \in Progress, Moves(dir, o, f[Len(log)], p, t),
         Tick(f[Len(log)]) <= Tick(t), p.msg.type = "Ident" => log = <<>>
  PROVE  \E h : Longer(dir, o, log, f, p, t, h)
<1> DEFINE l == Len(log)
           u == Append(log, p)
           h == [i \in 0..l + 1 |-> IF i = l + 1 THEN t ELSE f[i]]
<1>1. l \in Nat /\ Len(u) = l + 1 /\ u[l + 1] = p /\ \A i \in 1..l : u[i] = log[i] OBVIOUS
<1>2. /\ f \in [0..l -> Progress] /\ f[0] = Start
      /\ \A i, j \in 0..l : i <= j => Tick(f[i]) <= Tick(f[j])
      /\ \A i \in 1..l : Moves(dir, o, f[i - 1], log[i], f[i]) /\ (log[i].msg.type = "Ident" => i = 1)
  BY DEF Course
<1>0. p.msg.type = "Ident" => l = 0 OBVIOUS
<1>3. Moves(dir, o, f[l], p, t) /\ Tick(f[l]) <= Tick(t) OBVIOUS
<1> HIDE DEF l, u
<1>4. h \in [0..l + 1 -> Progress] /\ h[l + 1] = t /\ \A i \in 0..l : h[i] = f[i] BY <1>1, <1>2
<1> HIDE DEF h
<1>5. h[0] = Start BY <1>1, <1>2, <1>4
<1>6. \A i \in 0..l : Tick(f[i]) \in Nat /\ Tick(f[i]) <= Tick(f[l])
  <2>1. \A i \in 0..l : f[i] \in Progress BY <1>2
  <2>2. \A i \in 0..l : Tick(f[i]) \in Nat BY <2>1, TickFacts
  <2>3. l \in 0..l /\ \A i \in 0..l : i <= l BY <1>1
  <2> QED BY <1>2, <2>2, <2>3
<1>7. Tick(t) \in Nat BY DEF Tick, Progress
<1>8. ASSUME NEW i \in 0..l + 1, NEW j \in 0..l + 1, i <= j PROVE Tick(h[i]) <= Tick(h[j])
  <2>1. CASE j \in 0..l
    <3>1. i \in 0..l BY <1>1, <1>8, <2>1
    <3> QED BY <1>2, <1>4, <1>8, <2>1, <3>1
  <2>2. CASE j = l + 1 /\ i \in 0..l
    <3>1. Tick(f[i]) <= Tick(t) /\ h[i] = f[i] /\ h[j] = t
      <4>1. l \in 0..l BY <1>1
      <4> QED BY <1>3, <1>4, <1>6, <1>7, <2>2, <4>1
    <3> QED BY <3>1
  <2>3. CASE j = l + 1 /\ i = l + 1 BY <1>4, <1>7, <2>3
  <2> QED BY <1>1, <2>1, <2>2, <2>3
<1>9. ASSUME NEW i \in 1..l + 1
      PROVE  Moves(dir, o, h[i - 1], u[i], h[i]) /\ (u[i].msg.type = "Ident" => i = 1)
  <2>1. CASE i = l + 1
    <3>1. i - 1 = l /\ l \in 0..l BY <1>1, <2>1
    <3> QED BY <1>0, <1>1, <1>3, <1>4, <2>1, <3>1
  <2>2. CASE i \in 1..l
    <3>1. i - 1 \in 0..l /\ i \in 0..l BY <1>1, <2>2
    <3> QED BY <1>1, <1>2, <1>4, <2>2, <3>1
  <2> QED BY <1>1, <2>1, <2>2
<1>10. Course(dir, o, u, h) BY <1>1, <1>4, <1>5, <1>8, <1>9 DEF Course
<1>11. Prolongs(f, h, l) BY <1>4 DEF Prolongs
<1> QED BY <1>4, <1>10, <1>11 DEF u, l, Longer

Dirs == {"c2s", "s2c"}

LEMMA KxFacts ==
  ASSUME NEW o \in Offer, NEW n \in Nat
  PROVE  /\ ClientInit(o, n) \in Message /\ ClientInit(o, n).type = "KexInit"
         /\ ServerInit(n) \in Message /\ ServerInit(n).type = "KexInit"
         /\ Covered(o, n) \in Exchange /\ Halfway(o, n) \in Exchange
         /\ o.strict \in BOOLEAN /\ o.ext_info \in BOOLEAN
<1>1. o.strict \in BOOLEAN /\ o.ext_info \in BOOLEAN BY DEF Offer
<1>2. ClientInit(o, n) \in Message /\ ClientInit(o, n).type = "KexInit" BY <1>1, MsgType DEF ClientInit
<1>3. ServerInit(n) \in Message /\ ServerInit(n).type = "KexInit"
  <2>1. CASE n = 1
    <3>1. (n = 1) = TRUE BY <2>1
    <3>2. ServerInit(n) = KexInit(n, TRUE, FALSE) BY <3>1 DEF ServerInit
    <3> QED BY <3>2, MsgType
  <2>2. CASE n /= 1
    <3>1. (n = 1) = FALSE BY <2>2
    <3>2. ServerInit(n) = KexInit(n, FALSE, FALSE) BY <3>1 DEF ServerInit
    <3> QED BY <3>2, MsgType
  <2> QED BY <2>1, <2>2
<1>4. Fresh("EcdhInit", n) \in Message /\ Fresh("EcdhReply", n) \in Message BY MsgType
<1> DEFINE a == ClientInit(o, n)
           b == ServerInit(n)
           c == Fresh("EcdhInit", n)
           d == Fresh("EcdhReply", n)
<1>5. a \in Message /\ b \in Message /\ c \in Message /\ d \in Message BY <1>2, <1>3, <1>4
<1> HIDE DEF a, b, c, d
<1>6. <<"V_C", "V_S", a, b, "K_S", c, d>> \in Exchange BY <1>5 DEF Exchange
<1>7. <<"V_C", "V_S", a, b>> \in Exchange BY <1>5 DEF Exchange
<1> QED BY <1>1, <1>2, <1>3, <1>6, <1>7 DEF Covered, Halfway, a, b, c, d

LEMMA EpochKeyFacts ==
  ASSUME NEW dir \in Dirs, NEW o \in Offer, NEW e \in Nat
  PROVE  EpochKey(dir, o, e) = NoKey <=> e = 0
<1>1. ASSUME NEW a, NEW b, NEW c PROVE <<a, b, c>> /= <<>> OBVIOUS
<1> QED BY <1>1 DEF EpochKey, Key, NoKey

\* What fits, and where it leads.
LEMMA AfterFacts ==
  ASSUME NEW dir \in Dirs, NEW o \in Offer, NEW s \in Progress, NEW m \in Message, Fits(dir, o, s, m)
  PROVE  LET t == After(o, s, m)
         IN /\ t \in Progress /\ m.type /= "Ident"
            /\ m.type \in KxTypes => m = KxMsg(dir, o, s) /\ Tick(t) = Tick(s) + 1
            /\ m.type \notin KxTypes => Tick(t) = Tick(s) /\ t.epoch = s.epoch /\ t.phase = s.phase
            /\ m.type = "KexInit" => s.phase = 0 /\ t.epoch = s.epoch /\ t.phase = 1
            /\ m.type \in {"EcdhInit", "EcdhReply"} => s.phase = 1 /\ t.epoch = s.epoch /\ t.phase = 2
            /\ m.type = "NewKeys" => s.phase = 2 /\ t.epoch = s.epoch + 1 /\ t.phase = 0
            /\ t.asked = (s.asked \/ m.type = "Auth")
            /\ Tick(s) <= Tick(t)
<1> DEFINE t == After(o, s, m)
<1>1. /\ s.epoch \in Nat /\ s.phase \in 0..2 /\ s.asked \in BOOLEAN /\ s.counter \in Nat
      /\ s.seq \in SequenceNumber
  BY TickFacts
<1>2. /\ ClientInit(o, s.epoch + 1).type = "KexInit" /\ ServerInit(s.epoch + 1).type = "KexInit"
  BY <1>1, KxFacts
<1>3. /\ Fresh("EcdhInit", s.epoch + 1).type = "EcdhInit" /\ Fresh("EcdhReply", s.epoch + 1).type = "EcdhReply"
      /\ Msg("NewKeys").type = "NewKeys"
  BY DEF Fresh, Msg
<1>4. LET k == KxMsg(dir, o, s)
      IN /\ s.phase = 0 => k.type = "KexInit"
         /\ s.phase = 1 => k.type \in {"EcdhInit", "EcdhReply"}
         /\ s.phase = 2 => k.type = "NewKeys"
  BY <1>1, <1>2, <1>3 DEF KxMsg
<1>5. m.type \in KxTypes => m = KxMsg(dir, o, s) BY DEF Fits
<1>6. m.type /= "Ident" BY <1>1, <1>4 DEF Fits
<1>7. /\ m.type = "KexInit" => s.phase = 0
      /\ m.type \in {"EcdhInit", "EcdhReply"} => s.phase = 1
      /\ m.type = "NewKeys" => s.phase = 2
  BY <1>1, <1>4, <1>5 DEF KxTypes
<1>8. /\ t.epoch = IF m.type = "NewKeys" THEN s.epoch + 1 ELSE s.epoch
      /\ t.phase = IF m.type = "NewKeys" THEN 0 ELSE IF m.type \in KxTypes THEN s.phase + 1 ELSE s.phase
      /\ t.asked = (s.asked \/ m.type = "Auth")
  BY DEF After
<1>9. t.phase \in 0..2 /\ t.epoch \in Nat BY <1>1, <1>7, <1>8 DEF KxTypes
<1>10. (s.seq + 1) % SequenceModulus \in SequenceNumber /\ 0 \in SequenceNumber
  BY <1>1, PacketIOAssumption DEF SequenceNumber
<1>11. t \in Progress
  <2> DEFINE e == IF m.type = "NewKeys" THEN s.epoch + 1 ELSE s.epoch
             ph == IF m.type = "NewKeys" THEN 0 ELSE IF m.type \in KxTypes THEN s.phase + 1 ELSE s.phase
             a == s.asked \/ m.type = "Auth"
             c == IF m.type = "NewKeys" THEN 0 ELSE IF s.epoch = 0 THEN s.counter ELSE s.counter + 1
             q == IF m.type = "NewKeys" /\ o.strict THEN 0 ELSE (s.seq + 1) % SequenceModulus
  <2>1. e \in Nat /\ ph \in 0..2 BY <1>8, <1>9
  <2>2. c \in Nat BY <1>1
  <2>3. q \in SequenceNumber BY <1>10
  <2>4. a \in BOOLEAN OBVIOUS
  <2>5. t = [epoch |-> e, phase |-> ph, asked |-> a, counter |-> c, seq |-> q] BY DEF After
  <2> HIDE DEF e, ph, a, c, q, t
  <2> QED BY <2>1, <2>2, <2>3, <2>4, <2>5 DEF Progress
<1>12. m.type \in KxTypes => Tick(t) = Tick(s) + 1 BY <1>1, <1>7, <1>8 DEF Tick, KxTypes
<1>13. m.type \notin KxTypes => Tick(t) = Tick(s) /\ t.epoch = s.epoch /\ t.phase = s.phase
  BY <1>8 DEF Tick, KxTypes
<1>14. Tick(s) \in Nat BY TickFacts
<1>15. Tick(s) <= Tick(t) BY <1>12, <1>13, <1>14
<1>16. m.type = "KexInit" => s.phase = 0 /\ t.epoch = s.epoch /\ t.phase = 1
  BY <1>7, <1>8 DEF KxTypes
<1>17. m.type \in {"EcdhInit", "EcdhReply"} => s.phase = 1 /\ t.epoch = s.epoch /\ t.phase = 2
  BY <1>7, <1>8 DEF KxTypes
<1>18. m.type = "NewKeys" => s.phase = 2 /\ t.epoch = s.epoch + 1 /\ t.phase = 0
  BY <1>7, <1>8
<1> HIDE DEF t
<1>19. m.type \in KxTypes => m = KxMsg(dir, o, s) /\ Tick(t) = Tick(s) + 1 BY <1>5, <1>12
<1> QED BY <1>6, <1>8, <1>11, <1>13, <1>15, <1>16, <1>17, <1>18, <1>19 DEF t

\* A key state that was used once more is one packet further.
LEMMA UseHolds ==
  ASSUME NEW dir \in Dirs, NEW o \in Offer, NEW s \in Progress, NEW m \in Message, m.type /= "NewKeys",
         NEW k \in KeyState, NEW seq \in SequenceNumber, Holds(dir, o, k, seq, s)
  PROVE  Holds(dir, o, Used(k), (seq + 1) % SequenceModulus, After(o, s, m))
<1> DEFINE t == After(o, s, m)
<1>1. /\ t.epoch = s.epoch /\ t.seq = (s.seq + 1) % SequenceModulus
      /\ t.counter = IF s.epoch = 0 THEN s.counter ELSE s.counter + 1
  BY DEF After
<1>2. k.key = EpochKey(dir, o, s.epoch) /\ k.counter = s.counter /\ seq = s.seq BY DEF Holds
<1>3. k.key = NoKey <=> s.epoch = 0 BY <1>2, TickFacts, EpochKeyFacts
<1>4. Used(k).key = k.key /\ Used(k).counter = IF k.key = NoKey THEN k.counter ELSE k.counter + 1
  BY DEF Used, KeyState
<1> HIDE DEF t
<1>5. Used(k).counter = t.counter BY <1>1, <1>2, <1>3, <1>4
<1> QED BY <1>1, <1>2, <1>4, <1>5 DEF Holds, t

\* Behind NEWKEYS are the keys of the exchange.
LEMMA NewKeysHolds ==
  ASSUME NEW dir \in Dirs, NEW o \in Offer, NEW s \in Progress, NEW m \in Message, m.type = "NewKeys",
         NEW k, NEW seq, NEW e, NEW i,
         k = [key |-> Key(dir, e, i), counter |-> 0],
         seq = IF o.strict THEN 0 ELSE (s.seq + 1) % SequenceModulus,
         e = Covered(o, s.epoch + 1), i = Covered(o, 1)
  PROVE  Holds(dir, o, k, seq, After(o, s, m))
<1> DEFINE t == After(o, s, m)
<1>1. /\ t.epoch = s.epoch + 1 /\ t.seq = seq /\ t.counter = 0
  BY DEF After
<1>2. s.epoch + 1 /= 0 BY TickFacts
<1> HIDE DEF t
<1>3. EpochKey(dir, o, t.epoch) = Key(dir, e, i) BY <1>1, <1>2 DEF EpochKey
<1>4. k.key = Key(dir, e, i) /\ k.counter = 0 OBVIOUS
<1> QED BY <1>1, <1>3, <1>4 DEF Holds, t

-----------------------------------------------------------------------------
(* A writer on its course. *)

At(dir, o, w, g) ==
  Course(dir, o, w.log, g) /\ Holds(dir, o, w.sealer, w.sequence_number, g[Len(w.log)])

LEMMA CourseFacts ==
  ASSUME NEW dir, NEW o, NEW log \in Seq(WirePacket), NEW f, Course(dir, o, log, f)
  PROVE  /\ \A i \in 0..Len(log) : f[i] \in Progress
         /\ f[0] = Start
         /\ \A i, j \in 0..Len(log) : i <= j => Tick(f[i]) <= Tick(f[j])
         /\ \A i \in 1..Len(log) :
              Moves(dir, o, f[i - 1], log[i], f[i]) /\ (log[i].msg.type = "Ident" => i = 1)
         /\ Len(log) \in 0..Len(log)
<1>1. f \in [0..Len(log) -> Progress] BY DEF Course
<1>2. \A i \in 0..Len(log) : f[i] \in Progress BY <1>1
<1>3. Len(log) \in 0..Len(log) OBVIOUS
<1> QED BY <1>2, <1>3 DEF Course

LEMMA EncodeAt ==
  ASSUME NEW dir \in Dirs, NEW o \in Offer, NEW w \in WriteState, NEW g, At(dir, o, w, g),
         NEW m \in Message, Fits(dir, o, g[Len(w.log)], m)
  PROVE  \E h : /\ Course(dir, o, encode(w, m).log, h)
                /\ h[Len(w.log) + 1] = After(o, g[Len(w.log)], m)
                /\ Len(encode(w, m).log) = Len(w.log) + 1
                /\ Prolongs(g, h, Len(w.log))
                /\ m.type /= "NewKeys" => At(dir, o, encode(w, m), h)
<1> DEFINE n == Len(w.log)
           s == g[n]
           t == After(o, s, m)
           v == encode(w, m)
           p == Packet(m, w.sealer.key, w.sealer.counter, w.sequence_number)
<1>1. /\ p \in WirePacket /\ v.log = Append(w.log, p) /\ v.sealer = Used(w.sealer)
      /\ v.sequence_number = (w.sequence_number + 1) % SequenceModulus
  BY EncodeFacts
<1>2. w.log \in Seq(WirePacket) /\ w.sealer \in KeyState /\ w.sequence_number \in SequenceNumber
  BY DEF WriteState
<1>3. Course(dir, o, w.log, g) /\ Holds(dir, o, w.sealer, w.sequence_number, s) BY DEF At
<1>4. s \in Progress BY <1>2, <1>3, CourseFacts
<1>5. t \in Progress /\ m.type /= "Ident" /\ Tick(s) <= Tick(t) BY <1>4, AfterFacts
<1>6. p.msg = m /\ p.key = w.sealer.key /\ p.counter = w.sealer.counter /\ p.seq = w.sequence_number
  BY DEF Packet
<1>9. Fits(dir, o, s, m) OBVIOUS
<1> HIDE DEF s, p, v
<1>7. Moves(dir, o, s, p, t) BY <1>3, <1>5, <1>6, <1>9 DEF Moves, Holds
<1>8. ASSUME m.type /= "NewKeys" PROVE Holds(dir, o, v.sealer, v.sequence_number, t)
  <2> DEFINE k == w.sealer
             q == w.sequence_number
  <2>1. Holds(dir, o, k, q, s) /\ k \in KeyState /\ q \in SequenceNumber BY <1>2, <1>3
  <2> HIDE DEF k, q, t
  <2>2. Holds(dir, o, Used(k), (q + 1) % SequenceModulus, After(o, s, m))
    BY <1>4, <1>8, <2>1, UseHolds
  <2> QED BY <1>1, <2>2 DEF k, q, t
<1> HIDE DEF t
<1>10. PICK h : Longer(dir, o, w.log, g, p, t, h)
  <2> DEFINE lg == w.log
  <2>1. /\ lg \in Seq(WirePacket) /\ Course(dir, o, lg, g) /\ Moves(dir, o, g[Len(lg)], p, t)
        /\ Tick(g[Len(lg)]) <= Tick(t) /\ p \in WirePacket /\ t \in Progress
        /\ p.msg.type /= "Ident"
    BY <1>1, <1>2, <1>3, <1>5, <1>6, <1>7 DEF s
  <2> HIDE DEF lg
  <2>2. \E h : Longer(dir, o, lg, g, p, t, h) BY <2>1, CourseAppend
  <2> QED BY <2>2 DEF lg
<1>11. Len(v.log) = n + 1 BY <1>1, <1>2
<1>12. Course(dir, o, v.log, h) /\ h[n + 1] = t /\ Prolongs(g, h, n) BY <1>1, <1>10 DEF Longer
<1>13. m.type /= "NewKeys" => At(dir, o, v, h) BY <1>8, <1>11, <1>12 DEF At
<1> QED BY <1>11, <1>12, <1>13 DEF v, t, s

\* What is no message of an exchange leaves the server where it is in it.
LEMMA SayAt ==
  ASSUME NEW o \in Offer, NEW w \in WriteState, NEW g, At("s2c", o, w, g),
         NEW m \in Message, m.type \notin KxTypes \union {"Ident"}
  PROVE  \E h : /\ At("s2c", o, encode(w, m), h) /\ Prolongs(g, h, Len(w.log))
                /\ Len(encode(w, m).log) = Len(w.log) + 1
                /\ h[Len(w.log) + 1].epoch = g[Len(w.log)].epoch
                /\ h[Len(w.log) + 1].phase = g[Len(w.log)].phase
<1> DEFINE s == g[Len(w.log)]
           v == encode(w, m)
           n == Len(w.log)
<1>1. Fits("s2c", o, s, m) BY DEF Fits
<1>2. "s2c" \in Dirs BY DEF Dirs
<1>3. m.type /= "NewKeys" BY DEF KxTypes
<1>4. w.log \in Seq(WirePacket) BY DEF WriteState
<1>5. s \in Progress BY <1>4, CourseFacts DEF At
<1> HIDE DEF v
<1>6. PICK h : /\ h[n + 1] = After(o, s, m) /\ Len(v.log) = n + 1
               /\ Prolongs(g, h, n) /\ At("s2c", o, v, h)
  BY <1>1, <1>2, <1>3, EncodeAt DEF v
<1>7. After(o, s, m).epoch = s.epoch /\ After(o, s, m).phase = s.phase BY <1>1, <1>2, <1>5, AfterFacts
<1> QED BY <1>6, <1>7 DEF v

LEMMA ProlongsTrans ==
  ASSUME NEW f, NEW g, NEW h, NEW n \in Nat, NEW k \in Nat, n <= k, Prolongs(f, g, n), Prolongs(g, h, k)
  PROVE  Prolongs(f, h, n)
BY DEF Prolongs

-----------------------------------------------------------------------------
(* What the steps keep. *)

LEMMA LinkedFacts ==
  ASSUME StreamInv, NEW o \in Offer, NEW f, NEW g, Linked(o, f, g, server, read, write, client)
  PROVE  LET s == f[Len(client.write.log)]
             t == g[Len(client.read.log)]
             x == f[Len(read.log)]
             y == g[Len(write.log)]
         IN /\ s \in Progress /\ t \in Progress /\ x \in Progress /\ y \in Progress
            /\ Len(read.log) \in 0..Len(client.write.log) /\ Len(client.read.log) \in 0..Len(write.log)
            /\ At("s2c", o, write, g) /\ At("c2s", o, client.write, f)
            /\ ClientAt(o, client, s, t) /\ ServerAt(o, server, read, write, x, y)
            /\ Early(server, read, write, client)
            /\ Tick(t) <= Tick(y) /\ Tick(x) <= Tick(s) /\ Tick(x) = Tick(y)
<1> DEFINE a == client.write.log
           b == client.read.log
           c == read.log
           d == write.log
<1>1. a \in Seq(WirePacket) /\ b \in Seq(WirePacket) /\ c \in Seq(WirePacket) /\ d \in Seq(WirePacket)
  BY LogTypes
<1>2. /\ Course("c2s", o, a, f) /\ Course("s2c", o, d, g) /\ Len(c) <= Len(a) /\ Len(b) <= Len(d)
      /\ ClientAt(o, client, f[Len(a)], g[Len(b)]) /\ ServerAt(o, server, read, write, f[Len(c)], g[Len(d)])
      /\ Early(server, read, write, client)
  BY DEF Linked
<1> HIDE DEF a, b, c, d
<1>3. Len(c) \in 0..Len(a) /\ Len(b) \in 0..Len(d) /\ Len(a) \in 0..Len(a) /\ Len(d) \in 0..Len(d)
  BY <1>1, <1>2
<1>4. f[Len(a)] \in Progress /\ f[Len(c)] \in Progress /\ Tick(f[Len(c)]) <= Tick(f[Len(a)])
  BY <1>1, <1>2, <1>3, CourseFacts
<1>5. g[Len(b)] \in Progress /\ g[Len(d)] \in Progress /\ Tick(g[Len(b)]) <= Tick(g[Len(d)])
  BY <1>1, <1>2, <1>3, CourseFacts
<1>6. Tick(f[Len(c)]) = Tick(g[Len(d)]) BY <1>2 DEF ServerAt, Tick
<1>7. At("s2c", o, write, g) BY <1>2 DEF At, ServerAt, d
<1>8. At("c2s", o, client.write, f) BY <1>2 DEF At, ClientAt, a
<1> QED BY <1>2, <1>3, <1>4, <1>5, <1>6, <1>7, <1>8 DEF a, b, c, d

\* A step of the server.
LEMMA ServerMoves ==
  ASSUME StreamInv, NEW o \in Offer, NEW f, NEW g, Linked(o, f, g, server, read, write, client),
         NEW v, NEW r, NEW w, NEW h,
         At("s2c", o, w, h), Prolongs(g, h, Len(write.log)), Len(write.log) <= Len(w.log),
         Len(w.log) \in Nat, Len(r.log) <= Len(client.write.log),
         Task(o, v, f[Len(r.log)]), Holds("c2s", o, r.opener, r.sequence_number, f[Len(r.log)]),
         f[Len(r.log)].epoch = h[Len(w.log)].epoch, f[Len(r.log)].phase = h[Len(w.log)].phase,
         Early(v, r, w, client)
  PROVE  Linked(o, f, h, v, r, w, client)
<1>1. /\ Course("c2s", o, client.write.log, f) /\ Len(client.read.log) <= Len(write.log)
      /\ ClientAt(o, client, f[Len(client.write.log)], g[Len(client.read.log)])
  BY DEF Linked
<1>2. Len(client.read.log) \in Nat /\ Len(write.log) \in Nat BY LogTypes
<1>3. Len(client.read.log) \in 0..Len(write.log) BY <1>1, <1>2
<1>4. g[Len(client.read.log)] = h[Len(client.read.log)] BY <1>3 DEF Prolongs
<1>5. ClientAt(o, client, f[Len(client.write.log)], h[Len(client.read.log)]) BY <1>1, <1>4
<1>6. Course("s2c", o, w.log, h) /\ Holds("s2c", o, w.sealer, w.sequence_number, h[Len(w.log)]) BY DEF At
<1>7. ServerAt(o, v, r, w, f[Len(r.log)], h[Len(w.log)]) BY <1>6 DEF ServerAt
<1>8. Len(client.read.log) <= Len(w.log) BY <1>1, <1>2
<1> QED BY <1>1, <1>5, <1>6, <1>7, <1>8 DEF Linked

\* The client sends a packet.
LEMMA ClientMoves ==
  ASSUME StreamInv, NEW o \in Offer, NEW f, NEW g, Linked(o, f, g, server, read, write, client),
         NEW c, NEW p \in WirePacket, NEW t \in Progress,
         c.write.log = Append(client.write.log, p), c.read = client.read,
         Moves("c2s", o, f[Len(client.write.log)], p, t), Tick(f[Len(client.write.log)]) <= Tick(t),
         p.msg.type = "Ident" => client.write.log = <<>>,
         ClientAt(o, c, t, g[Len(client.read.log)]),
         Early(server, read, write, c)
  PROVE  \E h : Linked(o, h, g, server, read, write, c)
<1> DEFINE lg == client.write.log
           n == Len(lg)
<1>1. /\ Course("c2s", o, lg, f) /\ Course("s2c", o, write.log, g)
      /\ Len(read.log) <= n /\ Len(client.read.log) <= Len(write.log)
      /\ ServerAt(o, server, read, write, f[Len(read.log)], g[Len(write.log)])
  BY DEF Linked
<1>2. lg \in Seq(WirePacket) /\ Len(read.log) \in Nat /\ n \in Nat BY LogTypes
<1>3. /\ Moves("c2s", o, f[Len(lg)], p, t) /\ Tick(f[Len(lg)]) <= Tick(t)
      /\ p.msg.type = "Ident" => lg = <<>>
  OBVIOUS
<1>4. c.write.log = Append(lg, p) OBVIOUS
<1> HIDE DEF lg
<1>5. PICK h : Longer("c2s", o, lg, f, p, t, h)
  <2> DEFINE dir == "c2s"
  <2>1. Course(dir, o, lg, f) /\ Moves(dir, o, f[Len(lg)], p, t) BY <1>1, <1>3
  <2> HIDE DEF dir
  <2>2. \E h : Longer(dir, o, lg, f, p, t, h) BY <1>2, <1>3, <2>1, CourseAppend
  <2> QED BY <2>2 DEF dir
<1>6. Course("c2s", o, Append(lg, p), h) /\ h[n + 1] = t /\ Prolongs(f, h, n) BY <1>5 DEF Longer
<1>7. Len(c.write.log) = n + 1 BY <1>2, <1>4
<1>8. Len(read.log) \in 0..n BY <1>1, <1>2
<1>9. h[Len(read.log)] = f[Len(read.log)] BY <1>6, <1>8 DEF Prolongs
<1>10. ServerAt(o, server, read, write, h[Len(read.log)], g[Len(write.log)]) BY <1>1, <1>9
<1>11. ClientAt(o, c, h[Len(c.write.log)], g[Len(c.read.log)]) BY <1>6, <1>7
<1>12. Len(read.log) <= Len(c.write.log) /\ Len(c.read.log) <= Len(write.log) BY <1>1, <1>2, <1>7
<1>13. Course("c2s", o, c.write.log, h) BY <1>4, <1>6
<1>14. Linked(o, h, g, server, read, write, c) BY <1>1, <1>10, <1>11, <1>12, <1>13 DEF Linked
<1> QED BY <1>14

LEMMA TaskSame ==
  ASSUME NEW o, NEW s, NEW v \in ServerState, Task(o, v, s), NEW x,
         x.epoch = s.epoch, x.phase = s.phase, x.asked = s.asked, NEW a
  PROVE  Task(o, [v EXCEPT !.at = a], x) /\ Task(o, v, x)
<1> DEFINE u == [v EXCEPT !.at = a]
<1>1. /\ u.stage = v.stage /\ u.state = v.state /\ u.exchanges = v.exchanges /\ u.exchange = v.exchange
      /\ u.session_id = v.session_id /\ u.failed = v.failed /\ u.strict_kx = v.strict_kx
  BY DEF ServerState
<1>2. Tick(x) = Tick(s) BY DEF Tick
<1> HIDE DEF u
<1>3. Task(o, u, x) BY <1>1, <1>2 DEF Task
<1>4. Task(o, v, x) BY <1>2 DEF Task
<1> QED BY <1>3, <1>4 DEF u

-----------------------------------------------------------------------------
(* The server's steps. *)

\* What fits where the server is, is what the server expects.
LEMMA Expected ==
  ASSUME NEW o \in Offer, NEW s \in Progress, NEW m \in Message, Fits("c2s", o, s, m), server \in ServerState,
         Task(o, server, s), server.stage /= "granted"
  PROVE  /\ server.stage = "kx" => ExpectedKx(m)
         /\ server.stage = "auth" => m.type \in {"Ignore", "Try", "Auth"}
         /\ server.stage = "session" =>
              \/ ExpectedKx(m)
              \/ m.type = "Ignore"
              \/ m.type = "Data" /\ server.state = "AwaitingKexInit"
         /\ m.type \in KxTypes => server.stage /= "auth" /\ m = KxMsg("c2s", o, s)
         /\ m.type = "Auth" => server.stage = "auth"
<1>1. /\ s.epoch \in Nat /\ s.phase \in 0..2 /\ s.asked \in BOOLEAN BY TickFacts
<1>2. ClientInit(o, s.epoch + 1).type = "KexInit" BY <1>1, KxFacts
<1>3. Fresh("EcdhInit", s.epoch + 1).type = "EcdhInit" /\ Msg("NewKeys").type = "NewKeys" BY DEF Fresh, Msg
<1>4. LET k == KxMsg("c2s", o, s)
      IN /\ s.phase = 0 => k.type = "KexInit"
         /\ s.phase = 1 => k.type = "EcdhInit"
         /\ s.phase = 2 => k.type = "NewKeys"
  BY <1>1, <1>2, <1>3 DEF KxMsg
<1>5. \/ server.state = "AwaitingKexInit" /\ s.phase = 0
      \/ server.state = "AwaitingEcdhInit" /\ s.phase = 1
      \/ server.state = "AwaitingNewKeys" /\ s.phase = 2
  BY DEF Task
<1>6. \/ server.stage = "kx" /\ s.epoch = 0 /\ ~s.asked
      \/ server.stage = "auth" /\ s.epoch = 1 /\ s.phase = 0 /\ ~s.asked
      \/ server.stage = "session" /\ s.epoch >= 1 /\ s.asked
  BY DEF Task
<1>7. m = KxMsg("c2s", o, s) => ExpectedKx(m) BY <1>4, <1>5 DEF ExpectedKx
<1>8. \/ m = KxMsg("c2s", o, s) /\ (s.phase = 0 => s.epoch = 0 \/ s.asked)
      \/ /\ m.type \notin KxTypes \union {"Ident"} /\ s.epoch >= 1
         /\ \/ m.type = "Ignore"
            \/ s.phase = 0 /\ m.type \in IF s.asked THEN {"Data"} ELSE {"Try", "Auth"}
  BY DEF Fits
<1>9. m = KxMsg("c2s", o, s) => m.type \in KxTypes BY <1>1, <1>4 DEF KxTypes
<1>10. CASE m = KxMsg("c2s", o, s) /\ (s.phase = 0 => s.epoch = 0 \/ s.asked)
  BY <1>6, <1>7, <1>9, <1>10 DEF KxTypes
<1>11. CASE /\ m.type \notin KxTypes \union {"Ident"} /\ s.epoch >= 1
            /\ \/ m.type = "Ignore"
               \/ s.phase = 0 /\ m.type \in IF s.asked THEN {"Data"} ELSE {"Try", "Auth"}
  BY <1>1, <1>5, <1>6, <1>11
<1> QED BY <1>8, <1>10, <1>11

\* A packet of a client that keeps to the protocol opens and is expected.
LEMMA ReceiveOK ==
  ASSUME StreamInv, NEW o \in Offer, NEW f, NEW g, Linked(o, f, g, server, read, write, client), receive
  PROVE  LET r == compact(read)
             p == r.buf[1].packet
             m == p.msg
             q == poll_packet(r)
             n == Len(read.log)
         IN /\ n + 1 \in 1..Len(client.write.log) /\ f[n] \in Progress /\ f[n + 1] \in Progress
            /\ m \in Message /\ Fits("c2s", o, f[n], m) /\ f[n + 1] = After(o, f[n], m)
            /\ server.at = "receive" /\ server.stage /= "granted"
            /\ m.type \in KxTypes => m = KxMsg("c2s", o, f[n])
            /\ \/ handle_kexinit(m, q)
               \/ handle_ecdh_init(m, q)
               \/ handle_newkeys(m, q)
               \/ Proceed(q, write, server) /\ m.type \notin KxTypes \union {"Auth"}
               \/ /\ \E t \in {"Failure", "Answer"} : Proceed(q, encode(write, Msg(t)), server)
                  /\ m.type \notin KxTypes \union {"Auth"}
               \/ /\ Proceed(q, encode(write, Msg("Success")), [server EXCEPT !.stage = "granted"])
                  /\ m.type = "Auth" /\ server.stage = "auth"
<1> DEFINE r == compact(read)
           p == r.buf[1].packet
           m == p.msg
           q == poll_packet(r)
           n == Len(read.log)
           s == f[n]
           lg == client.write.log
<1>1. server.at = "receive" /\ IsComplete(r.buf) BY DEF receive
<1>2. /\ r.opener = read.opener /\ r.sequence_number = read.sequence_number
      /\ p \in WirePacket /\ m \in Message
      /\ n + 1 \in 1..Len(lg) /\ p = lg[n + 1]
      /\ SubSeq(r.buf, 1, Len(Cells(p))) = Cells(p)
  BY <1>1, ReceiveFacts
<1>3. /\ Course("c2s", o, lg, f) /\ Early(server, read, write, client)
      /\ Task(o, server, s) /\ Holds("c2s", o, read.opener, read.sequence_number, s)
  BY DEF Linked, ServerAt
<1>4. lg \in Seq(WirePacket) /\ server \in ServerState /\ read.log \in Seq(WirePacket) BY LogTypes
<1>5. n \in Nat /\ n > 0
  <2>1. read.log /= <<>> BY <1>1, <1>3 DEF Early
  <2> QED BY <1>4, <2>1
<1> HIDE DEF lg, n
<1>6. s \in Progress /\ f[n + 1] \in Progress
  <2>1. n \in 0..Len(lg) /\ n + 1 \in 0..Len(lg) BY <1>2, <1>4, <1>5
  <2> QED BY <1>3, <1>4, <2>1, CourseFacts
<1>7. Moves("c2s", o, f[(n + 1) - 1], lg[n + 1], f[n + 1]) /\ (lg[n + 1].msg.type = "Ident" => n + 1 = 1)
  BY <1>2, <1>3, <1>4, CourseFacts
<1>8. Moves("c2s", o, s, p, f[n + 1]) /\ m.type /= "Ident"
  <2>1. (n + 1) - 1 = n BY <1>5
  <2> QED BY <1>2, <1>5, <1>7, <2>1
<1>9. /\ p.key = EpochKey("c2s", o, s.epoch) /\ p.counter = s.counter /\ p.seq = s.seq
      /\ Fits("c2s", o, s, m) /\ f[n + 1] = After(o, s, m)
  BY <1>8 DEF Moves
<1>10. Opens(r) BY <1>2, <1>3, <1>9 DEF Opens, Holds
<1>11. server.stage /= "granted" BY <1>1, <1>3 DEF Early
<1>12. \/ exchange_keys(m, q) \/ authenticate(m, q) \/ run(m, q) BY <1>10 DEF receive
<1> HIDE DEF r, p, m, q, s
<1>13. /\ server.stage = "kx" => ExpectedKx(m)
       /\ server.stage = "auth" => m.type \in {"Ignore", "Try", "Auth"}
       /\ server.stage = "session" =>
            \/ ExpectedKx(m)
            \/ m.type = "Ignore"
            \/ m.type = "Data" /\ server.state = "AwaitingKexInit"
       /\ m.type \in KxTypes => server.stage /= "auth" /\ m = KxMsg("c2s", o, s)
       /\ m.type = "Auth" => server.stage = "auth"
  BY <1>2, <1>3, <1>4, <1>6, <1>9, <1>11, Expected
<1> DEFINE Handles == handle_kexinit(m, q) \/ handle_ecdh_init(m, q) \/ handle_newkeys(m, q)
<1>14. \/ Handles
       \/ Proceed(q, write, server) /\ m.type \notin KxTypes \union {"Auth"}
       \/ /\ \E t \in {"Failure", "Answer"} : Proceed(q, encode(write, Msg(t)), server)
          /\ m.type \notin KxTypes \union {"Auth"}
       \/ /\ Proceed(q, encode(write, Msg("Success")), [server EXCEPT !.stage = "granted"])
          /\ m.type = "Auth" /\ server.stage = "auth"
  <2>1. CASE exchange_keys(m, q) BY <1>13, <2>1 DEF exchange_keys, handle_kx
  <2>2. CASE authenticate(m, q)
    BY <1>13, <2>2 DEF authenticate, KxTypes
  <2>3. CASE run(m, q)
    <3>1. server.stage = "session" BY <2>3 DEF run
    <3>2. CASE ExpectedKx(m)
      <4>1. m.type \in {"KexInit", "EcdhInit", "NewKeys"} BY <3>2 DEF ExpectedKx
      <4>2. m.type = "KexInit" \/ server.state /= "AwaitingKexInit" BY <3>2 DEF ExpectedKx
      <4> QED BY <2>3, <3>2, <4>1, <4>2 DEF run, handle_kx
    <3>3. CASE m.type = "Ignore" \/ (m.type = "Data" /\ server.state = "AwaitingKexInit")
      <4>1. m.type \notin KxTypes \union {"Auth"} /\ m.type /= "KexInit" BY <3>3 DEF KxTypes
      <4> QED BY <2>3, <3>3, <4>1 DEF run
    <3> QED BY <1>13, <3>1, <3>2, <3>3
  <2> QED BY <1>12, <2>1, <2>2, <2>3
<1> QED BY <1>1, <1>2, <1>6, <1>9, <1>11, <1>13, <1>14 DEF r, p, m, q, n, s, lg

LEMMA AskedFacts ==
  ASSUME NEW o, NEW s \in Progress, NEW m
  PROVE  /\ m.type /= "Auth" => After(o, s, m).asked = s.asked
         /\ m.type = "Auth" => After(o, s, m).asked = TRUE
<1>1. After(o, s, m).asked = (s.asked \/ m.type = "Auth") BY DEF After
<1>2. s.asked \in BOOLEAN BY TickFacts
<1>3. CASE m.type = "Auth"
  <2>1. (s.asked \/ m.type = "Auth") = TRUE BY <1>3
  <2> QED BY <1>1, <1>3, <2>1
<1>4. CASE m.type /= "Auth"
  <2>1. (m.type = "Auth") = FALSE BY <1>4
  <2>2. CASE s.asked = TRUE
    <3>1. (s.asked \/ m.type = "Auth") = TRUE BY <2>2
    <3> QED BY <1>1, <1>4, <2>2, <3>1
  <2>3. CASE s.asked = FALSE
    <3>1. (s.asked \/ m.type = "Auth") = FALSE BY <2>1, <2>3
    <3> QED BY <1>1, <1>4, <2>3, <3>1
  <2> QED BY <1>2, <2>2, <2>3
<1> QED BY <1>3, <1>4

\* After a step that proceeds both ends are in step.
LEMMA ProceedSync ==
  ASSUME StreamInv, NEW o \in Offer, NEW f, NEW g, Linked(o, f, g, server, read, write, client),
         NEW q, NEW w, NEW v \in ServerState, Proceed(q, w, v), NEW h,
         At("s2c", o, w, h), Prolongs(g, h, Len(write.log)), Len(write.log) <= Len(w.log),
         Len(w.log) \in Nat, Len(q.log) <= Len(client.write.log), q.log /= <<>>,
         Task(o, v, f[Len(q.log)]), Holds("c2s", o, q.opener, q.sequence_number, f[Len(q.log)]),
         f[Len(q.log)].epoch = h[Len(w.log)].epoch, f[Len(q.log)].phase = h[Len(w.log)].phase,
         v.stage = "granted" => buffered(w) /= <<>>
  PROVE  Linked(o, f, h, server', read', write', client')
<1> DEFINE a == IF buffered(w) = <<>> THEN "receive" ELSE "flush"
           u == [v EXCEPT !.at = a]
<1>1. server' = u /\ read' = q /\ write' = w /\ client' = client BY DEF Proceed
<1>2. u.at = a /\ u.stage = v.stage BY DEF ServerState
<1> HIDE DEF u
<1>3. a \in {"receive", "flush"} /\ (a = "receive" => v.stage /= "granted") OBVIOUS
<1> HIDE DEF a
<1>4. Early(server, read, write, client) BY DEF Linked
<1>5. Early(u, q, w, client) BY <1>2, <1>3, <1>4 DEF Early
<1>6. Task(o, u, f[Len(q.log)])
  <2> DEFINE x == f[Len(q.log)]
  <2>1. Task(o, v, x) OBVIOUS
  <2> HIDE DEF x
  <2>2. Task(o, [v EXCEPT !.at = a], x) BY <2>1, TaskSame
  <2> QED BY <2>2 DEF u, x
<1>7. Linked(o, f, h, u, q, w, client) BY <1>5, <1>6, ServerMoves
<1> QED BY <1>1, <1>7

LEMMA SevenConcat ==
  ASSUME NEW a, NEW b, NEW c, NEW d, NEW e, NEW f, NEW g
  PROVE  <<a, b, c, d>> \o <<e, f, g>> = <<a, b, c, d, e, f, g>>
<1> DEFINE S == {a, b, c, d, e, f, g}
           s == <<a, b, c, d>>
           t == <<e, f, g>>
           x == s \o t
           y == <<a, b, c, d, e, f, g>>
<1>1. /\ s \in Seq(S) /\ Len(s) = 4 /\ s[1] = a /\ s[2] = b /\ s[3] = c /\ s[4] = d
      /\ t \in Seq(S) /\ Len(t) = 3 /\ t[1] = e /\ t[2] = f /\ t[3] = g
  OBVIOUS
<1>2. /\ y \in Seq(S) /\ Len(y) = 7 /\ y[1] = a /\ y[2] = b /\ y[3] = c /\ y[4] = d
      /\ y[5] = e /\ y[6] = f /\ y[7] = g
  OBVIOUS
<1> HIDE DEF S, s, t, y
<1>0. s \in Seq(S) /\ t \in Seq(S) BY <1>1
<1>3. x \in Seq(S) /\ Len(x) = Len(s) + Len(t) BY <1>0, ConcatProperties
<1>7. \A i \in 1..Len(s) + Len(t) : x[i] = IF i <= Len(s) THEN s[i] ELSE t[i - Len(s)]
  BY <1>0, ConcatProperties
<1> HIDE DEF x
<1>4. /\ x[1] = s[1] /\ x[2] = s[2] /\ x[3] = s[3] /\ x[4] = s[4]
      /\ x[5] = t[1] /\ x[6] = t[2] /\ x[7] = t[3]
  BY <1>1, <1>7
<1>8. Len(x) = 7 BY <1>1, <1>3
<1>5. \A i \in 1..Len(x) : x[i] = y[i] BY <1>1, <1>2, <1>4, <1>8
<1>9. Len(x) = Len(y) BY <1>2, <1>8
<1>6. x = y BY <1>2, <1>3, <1>5, <1>9, SeqEqual
<1> QED BY <1>6 DEF x, y, s, t

LEMMA FourAppend ==
  ASSUME NEW a, NEW b, NEW c, NEW d
  PROVE  Append(<<a, b, c>>, d) = <<a, b, c, d>>
<1> DEFINE S == {a, b, c, d}
           s == <<a, b, c>>
           x == Append(s, d)
           y == <<a, b, c, d>>
<1>1. s \in Seq(S) /\ Len(s) = 3 /\ s[1] = a /\ s[2] = b /\ s[3] = c /\ d \in S OBVIOUS
<1>2. y \in Seq(S) /\ Len(y) = 4 /\ y[1] = a /\ y[2] = b /\ y[3] = c /\ y[4] = d OBVIOUS
<1> HIDE DEF S, s, y
<1>0. s \in Seq(S) /\ d \in S BY <1>1
<1>7. /\ x \in Seq(S) /\ Len(x) = Len(s) + 1 /\ x[Len(s) + 1] = d
      /\ \A i \in 1..Len(s) : x[i] = s[i]
  BY <1>0
<1> HIDE DEF x
<1>3. x \in Seq(S) /\ Len(x) = 4 /\ x[1] = s[1] /\ x[2] = s[2] /\ x[3] = s[3] /\ x[4] = d
  BY <1>1, <1>7
<1> HIDE DEF x
<1>4. \A i \in 1..Len(x) : x[i] = y[i] BY <1>1, <1>2, <1>3
<1>5. Len(x) = Len(y) BY <1>2, <1>3
<1>6. x = y BY <1>2, <1>3, <1>4, <1>5, SeqEqual
<1> QED BY <1>6 DEF x, y, s

\* The reader after the packet; n packets were read before it.
LEMMA Received ==
  ASSUME StreamInv, NEW o \in Offer, NEW f, NEW g, Linked(o, f, g, server, read, write, client), receive
  PROVE  LET r == compact(read)
             p == r.buf[1].packet
             m == p.msg
             q == poll_packet(r)
             n == Len(read.log)
         IN /\ Len(q.log) = n + 1 /\ q.log /= <<>> /\ n + 1 <= Len(client.write.log) /\ ReadOK(q)
            /\ Arrives(q, c2s, client.write.log) /\ q \in ReadState
            /\ m.type /= "NewKeys" => Holds("c2s", o, q.opener, q.sequence_number, f[n + 1])
            /\ q.sequence_number = (f[n].seq + 1) % SequenceModulus
            /\ "c2s" \in Dirs /\ "s2c" \in Dirs
<1> DEFINE r == compact(read)
           p == r.buf[1].packet
           m == p.msg
           q == poll_packet(r)
           n == Len(read.log)
           s == f[n]
           k == read.opener
           sq == read.sequence_number
<1>1. server.at = "receive" /\ IsComplete(r.buf) BY DEF receive
<1>2. /\ ReadOK(q) /\ Arrives(q, c2s, client.write.log) /\ q.log = Append(read.log, p) /\ q.opener = Used(k)
      /\ q.sequence_number = (sq + 1) % SequenceModulus /\ p \in WirePacket
      /\ n + 1 \in 1..Len(client.write.log)
  BY <1>1, ReceiveFacts
<1>3. /\ s \in Progress /\ m \in Message /\ f[n + 1] = After(o, s, m) BY ReceiveOK
<1>4. Holds("c2s", o, k, sq, s) BY DEF Linked, ServerAt
<1>5. read.log \in Seq(WirePacket) /\ client.write.log \in Seq(WirePacket) /\ ReadOK(read) BY LogTypes
<1>6. k \in KeyState /\ sq \in SequenceNumber BY <1>5 DEF ReadOK, ReadState
<1> HIDE DEF q, m, p, r, k, sq, s
<1>7. "c2s" \in Dirs /\ "s2c" \in Dirs BY DEF Dirs
<1>8. ASSUME m.type /= "NewKeys" PROVE Holds("c2s", o, q.opener, q.sequence_number, f[n + 1])
  <2>1. Holds("c2s", o, Used(k), (sq + 1) % SequenceModulus, After(o, s, m))
    BY <1>3, <1>4, <1>6, <1>7, <1>8, UseHolds
  <2> QED BY <1>2, <1>3, <2>1
<1>9. sq = s.seq BY <1>4 DEF Holds
<1>10. Len(q.log) = n + 1 /\ q.log /= <<>> BY <1>2, <1>5
<1>11. n + 1 <= Len(client.write.log) BY <1>2, <1>5
<1>12. q \in ReadState BY <1>2 DEF ReadOK
<1> QED BY <1>2, <1>7, <1>8, <1>9, <1>10, <1>11, <1>12 DEF q, m, p, r, s

\* A packet outside an exchange, with an answer or without one.
LEMMA PlainSync ==
  ASSUME StreamInv, NEW o \in Offer, NEW f, NEW g, Linked(o, f, g, server, read, write, client), receive,
         NEW q, q = poll_packet(compact(read)), NEW m, m = compact(read).buf[1].packet.msg,
         m.type \notin KxTypes,
         NEW v \in ServerState, NEW w,
         w = write \/ \E t \in {"Failure", "Answer", "Success"} : w = encode(write, Msg(t)),
         \/ v = server /\ m.type /= "Auth"
         \/ /\ v = [server EXCEPT !.stage = "granted"] /\ m.type = "Auth" /\ server.stage = "auth"
            /\ w = encode(write, Msg("Success")),
         Proceed(q, w, v)
  PROVE  \E h : Linked(o, f, h, server', read', write', client')
<1> DEFINE n == Len(read.log)
           s == f[n]
           x == f[n + 1]
           y == g[Len(write.log)]
<1>1. /\ s \in Progress /\ x \in Progress /\ m \in Message /\ Fits("c2s", o, s, m) /\ x = After(o, s, m)
      /\ server.at = "receive" /\ server.stage /= "granted"
  BY ReceiveOK
<1>2. /\ Len(q.log) = n + 1 /\ q.log /= <<>> /\ n + 1 <= Len(client.write.log)
      /\ m.type /= "NewKeys" => Holds("c2s", o, q.opener, q.sequence_number, x)
      /\ "c2s" \in Dirs
  BY Received
<1>3. /\ At("s2c", o, write, g) /\ ServerAt(o, server, read, write, s, y) /\ y \in Progress BY LinkedFacts
<1>4. Task(o, server, s) /\ s.epoch = y.epoch /\ s.phase = y.phase BY <1>3 DEF ServerAt
<1>5. WriteOK(write) /\ write \in WriteState /\ server \in ServerState /\ write.log \in Seq(WirePacket)
  BY LogTypes, BufferedType
<1> HIDE DEF n, s, x, y
<1>6. Holds("c2s", o, q.opener, q.sequence_number, x) BY <1>2 DEF KxTypes
<1>7. x.epoch = s.epoch /\ x.phase = s.phase BY <1>1, <1>2, AfterFacts
<1>8. Task(o, v, x)
  <2>1. CASE v = server /\ m.type /= "Auth"
    <3>1. x.asked = s.asked BY <1>1, <2>1, AskedFacts
    <3> QED BY <1>4, <1>5, <1>7, <2>1, <3>1, TaskSame
  <2>2. CASE v = [server EXCEPT !.stage = "granted"] /\ m.type = "Auth" /\ server.stage = "auth"
    <3>1. x.asked = TRUE BY <1>1, <2>2, AskedFacts
    <3>2. /\ v.stage = "granted" /\ v.state = server.state /\ v.exchanges = server.exchanges
          /\ v.exchange = server.exchange /\ v.session_id = server.session_id
          /\ v.failed = server.failed /\ v.strict_kx = server.strict_kx
      BY <1>5, <2>2 DEF ServerState
    <3>3. Tick(x) = Tick(s) BY <1>7 DEF Tick
    <3>4. s.epoch = 1 /\ s.phase = 0 /\ server.exchange = Covered(o, 1) BY <1>4, <2>2 DEF Task
    <3> QED BY <1>4, <1>7, <3>1, <3>2, <3>3, <3>4 DEF Task
  <2> QED BY <2>1, <2>2
<1>9. \E h : /\ At("s2c", o, w, h) /\ Prolongs(g, h, Len(write.log)) /\ Len(write.log) <= Len(w.log)
             /\ Len(w.log) \in Nat /\ h[Len(w.log)].epoch = y.epoch /\ h[Len(w.log)].phase = y.phase
  <2>1. CASE w = write
    <3>1. Prolongs(g, g, Len(write.log)) BY DEF Prolongs
    <3>2. Len(write.log) \in Nat BY <1>5
    <3> QED BY <1>3, <2>1, <3>1, <3>2 DEF y
  <2>2. ASSUME NEW t \in {"Failure", "Answer", "Success"}, w = encode(write, Msg(t))
        PROVE  \E h : /\ At("s2c", o, w, h) /\ Prolongs(g, h, Len(write.log)) /\ Len(write.log) <= Len(w.log)
                      /\ Len(w.log) \in Nat /\ h[Len(w.log)].epoch = y.epoch /\ h[Len(w.log)].phase = y.phase
    <3>1. Msg(t) \in Message /\ Msg(t).type = t BY MsgType DEF MessageTypes
    <3>2. Msg(t).type \notin KxTypes \union {"Ident"} BY <3>1 DEF KxTypes
    <3>3. PICK h : /\ At("s2c", o, w, h) /\ Prolongs(g, h, Len(write.log))
                   /\ Len(w.log) = Len(write.log) + 1
                   /\ h[Len(write.log) + 1].epoch = g[Len(write.log)].epoch
                   /\ h[Len(write.log) + 1].phase = g[Len(write.log)].phase
      BY <1>3, <1>5, <2>2, <3>1, <3>2, SayAt
    <3>4. Len(write.log) \in Nat BY <1>5
    <3> QED BY <3>3, <3>4 DEF y
  <2> QED BY <2>1, <2>2
<1>10. PICK h : /\ At("s2c", o, w, h) /\ Prolongs(g, h, Len(write.log)) /\ Len(write.log) <= Len(w.log)
                /\ Len(w.log) \in Nat /\ h[Len(w.log)].epoch = y.epoch /\ h[Len(w.log)].phase = y.phase
  BY <1>9
<1>11. v.stage = "granted" => buffered(w) /= <<>>
  <2>1. CASE v = server BY <1>1, <2>1
  <2>2. CASE w = encode(write, Msg("Success"))
    <3>1. Msg("Success") \in Message BY MsgType DEF MessageTypes
    <3> QED BY <1>5, <2>2, <3>1, WritesEncode
  <2> QED BY <2>1, <2>2
<1>12. Len(q.log) <= Len(client.write.log) /\ f[Len(q.log)] = x BY <1>2 DEF x
<1>13. x.epoch = h[Len(w.log)].epoch /\ x.phase = h[Len(w.log)].phase BY <1>4, <1>7, <1>10
<1>14. Linked(o, f, h, server', read', write', client')
  BY <1>2, <1>6, <1>8, <1>10, <1>11, <1>12, <1>13, ProceedSync
<1> QED BY <1>14

\* The server answers the message of the exchange it is in with its own.
LEMMA AnswerAt ==
  ASSUME NEW o \in Offer, NEW w \in WriteState, NEW g, At("s2c", o, w, g),
         NEW y, y = g[Len(w.log)], NEW m \in Message, m = KxMsg("s2c", o, y), m.type /= "NewKeys"
  PROVE  \E h : /\ At("s2c", o, encode(w, m), h) /\ Prolongs(g, h, Len(w.log))
                /\ Len(w.log) <= Len(encode(w, m).log) /\ Len(encode(w, m).log) \in Nat
                /\ h[Len(encode(w, m).log)] = After(o, y, m)
<1>1. "s2c" \in Dirs /\ "s2c" /= "c2s" BY DEF Dirs
<1>2. Fits("s2c", o, y, m) BY <1>1 DEF Fits
<1>3. Len(w.log) \in Nat BY DEF WriteState
<1> DEFINE v == encode(w, m)
<1> HIDE DEF v
<1>4. PICK h : /\ h[Len(w.log) + 1] = After(o, y, m) /\ Len(v.log) = Len(w.log) + 1
               /\ Prolongs(g, h, Len(w.log)) /\ At("s2c", o, v, h)
  BY <1>1, <1>2, EncodeAt DEF v
<1>5. Len(w.log) <= Len(v.log) /\ Len(v.log) \in Nat BY <1>3, <1>4
<1> QED BY <1>4, <1>5 DEF v

LEMMA KexInitSync ==
  ASSUME StreamInv, NonceInv, NEW o \in Offer, NEW f, NEW g, Linked(o, f, g, server, read, write, client),
         receive, NEW q, q = poll_packet(compact(read)), NEW m, m = compact(read).buf[1].packet.msg,
         handle_kexinit(m, q)
  PROVE  \E h : Linked(o, f, h, server', read', write', client')
<1> DEFINE n == Len(read.log)
           s == f[n]
           x == f[n + 1]
           y == g[Len(write.log)]
           e == server.exchanges + 1
           local == KexInit(e, server.stage = "kx", FALSE)
           w == encode(write, local)
           ex == server.identities \o <<m, local>>
           v == [server EXCEPT !.state = "AwaitingEcdhInit", !.exchanges = e, !.exchange = ex,
                   !.strict_kx = IF server.stage = "kx" THEN m.strict ELSE @,
                   !.ext_info = server.stage = "kx" /\ m.ext_info]
<1>0. m.type = "KexInit" /\ server.state = "AwaitingKexInit" /\ Proceed(q, w, v) BY DEF handle_kexinit
<1>1. /\ s \in Progress /\ x \in Progress /\ m \in Message /\ Fits("c2s", o, s, m) /\ x = After(o, s, m)
      /\ server.at = "receive" /\ server.stage /= "granted"
      /\ m.type \in KxTypes => m = KxMsg("c2s", o, s)
  BY ReceiveOK
<1>2. /\ Len(q.log) = n + 1 /\ q.log /= <<>> /\ n + 1 <= Len(client.write.log)
      /\ m.type /= "NewKeys" => Holds("c2s", o, q.opener, q.sequence_number, x)
      /\ "c2s" \in Dirs /\ "s2c" \in Dirs
  BY Received
<1>3. /\ At("s2c", o, write, g) /\ ServerAt(o, server, read, write, s, y) /\ y \in Progress BY LinkedFacts
<1>4. Task(o, server, s) /\ s.epoch = y.epoch /\ s.phase = y.phase BY <1>3 DEF ServerAt
<1>5. WriteOK(write) /\ write \in WriteState /\ server \in ServerState /\ write.log \in Seq(WirePacket)
  BY LogTypes, BufferedType
<1>6. e \in Nat /\ server.identities = <<"V_C", "V_S">>
  BY <1>1, <1>5 DEF NonceInv, NonceOf, ServerState
<1> HIDE DEF n, s, x, y
<1>7. s.epoch \in Nat /\ s.phase \in 0..2 /\ s.asked \in BOOLEAN BY <1>1, TickFacts
<1>8. x.epoch = s.epoch /\ x.phase = 1 /\ s.phase = 0 BY <1>0, <1>1, <1>2, AfterFacts
<1>9. x.asked = s.asked
  <2>1. m.type /= "Auth" BY <1>0
  <2>2. s \in Progress BY <1>1
  <2>3. After(o, s, m).asked = s.asked BY <2>1, <2>2, AskedFacts
  <2> QED BY <1>1, <2>3
<1>10. e = s.epoch + 1
  <2>1. s.epoch = server.exchanges BY <1>0, <1>4 DEF Task
  <2> QED BY <2>1
<1>11. m = ClientInit(o, e)
  <2>1. m = KxMsg("c2s", o, s) BY <1>0, <1>1 DEF KxTypes
  <2> QED BY <1>8, <1>10, <2>1 DEF KxMsg
<1>12. local = ServerInit(e)
  <2>1. CASE server.stage = "kx"
    <3>1. e = 1 BY <1>4, <1>7, <1>10, <2>1 DEF Task
    <3>2. (server.stage = "kx") = TRUE /\ (e = 1) = TRUE BY <2>1, <3>1
    <3>3. local = KexInit(e, TRUE, FALSE) BY <3>2
    <3>4. ServerInit(e) = KexInit(e, TRUE, FALSE) BY <3>2 DEF ServerInit
    <3> QED BY <3>3, <3>4
  <2>2. CASE server.stage /= "kx"
    <3>1. e /= 1 BY <1>4, <1>7, <1>10, <2>2 DEF Task
    <3>2. (server.stage = "kx") = FALSE /\ (e = 1) = FALSE BY <2>2, <3>1
    <3>3. local = KexInit(e, FALSE, FALSE) BY <3>2
    <3>4. ServerInit(e) = KexInit(e, FALSE, FALSE) BY <3>2 DEF ServerInit
    <3> QED BY <3>3, <3>4
  <2> QED BY <2>1, <2>2
<1>13. local \in Message /\ local.type = "KexInit" BY <1>6, <1>12, KxFacts
<1>14. m.strict = o.strict BY <1>11 DEF ClientInit, KexInit
<1>15. v.exchange = Halfway(o, e)
  <2>1. v.exchange = ex BY <1>5 DEF ServerState
  <2>2. ex = <<"V_C", "V_S">> \o <<m, local>> BY <1>6
  <2> HIDE DEF ex, local
  <2>3. ex = <<"V_C", "V_S", m, local>> BY <2>2, FourConcat
  <2> QED BY <1>11, <1>12, <2>1, <2>3 DEF Halfway
<1>16. v \in ServerState
  <2> DEFINE st == IF server.stage = "kx" THEN m.strict ELSE server.strict_kx
             xi == server.stage = "kx" /\ m.ext_info
  <2>1. st \in BOOLEAN BY <1>0, <1>1, <1>5, MessageFacts DEF ServerState
  <2>2. xi \in BOOLEAN OBVIOUS
  <2>3. ex \in Exchange BY <1>1, <1>5, <1>13, ExchangeFacts DEF ServerState
  <2>4. v = [server EXCEPT !.state = "AwaitingEcdhInit", !.exchanges = e, !.exchange = ex,
               !.strict_kx = st, !.ext_info = xi]
    OBVIOUS
  <2> HIDE DEF st, xi, ex, e, v
  <2> QED BY <1>5, <1>6, <2>1, <2>2, <2>3, <2>4 DEF ServerState
<1>17. /\ v.state = "AwaitingEcdhInit" /\ v.exchanges = e /\ v.stage = server.stage
       /\ v.session_id = server.session_id /\ v.failed = server.failed
       /\ v.strict_kx = IF server.stage = "kx" THEN m.strict ELSE server.strict_kx
  BY <1>5 DEF ServerState
<1> HIDE DEF v, e, ex, local
<1>18. Task(o, v, x)
  <2>1. Tick(s) = 3 * s.epoch /\ Tick(x) = 3 * s.epoch + 1 BY <1>7, <1>8 DEF Tick
  <2>2. \/ server.stage = "kx" /\ s.epoch = 0 /\ ~s.asked
        \/ server.stage = "session" /\ s.epoch >= 1 /\ s.asked
    <3>1. server.stage /= "auth" BY <1>0, <1>1, <1>2, <1>4, <1>5, Expected DEF KxTypes
    <3> QED BY <1>1, <1>4, <3>1 DEF Task
  <2>3. v.strict_kx = o.strict BY <1>4, <1>7, <1>14, <1>17, <2>1, <2>2 DEF Task
  <2>4. Tick(x) >= 2 => v.session_id = Covered(o, 1) BY <1>4, <1>7, <1>17, <2>1 DEF Task
  <2>5. ~v.failed BY <1>4, <1>17 DEF Task
  <2>6. x.epoch + 1 = v.exchanges BY <1>8, <1>10, <1>17
  <2>7. v.exchange = Halfway(o, v.exchanges) BY <1>15, <1>17
  <2> QED BY <1>8, <1>9, <1>17, <2>2, <2>3, <2>4, <2>5, <2>6, <2>7 DEF Task
<1>19. local = KxMsg("s2c", o, y)
  <2>1. "s2c" /= "c2s" OBVIOUS
  <2> QED BY <1>4, <1>8, <1>10, <1>12, <2>1 DEF KxMsg
<1>20. PICK h : /\ At("s2c", o, w, h) /\ Prolongs(g, h, Len(write.log)) /\ Len(write.log) <= Len(w.log)
                /\ Len(w.log) \in Nat /\ h[Len(w.log)] = After(o, y, local)
  BY <1>3, <1>5, <1>13, <1>19, AnswerAt DEF y
<1>21. After(o, y, local).epoch = y.epoch /\ After(o, y, local).phase = 1
  <2>1. Fits("s2c", o, y, local) BY <1>19 DEF Fits
  <2> QED BY <1>2, <1>3, <1>13, <2>1, AfterFacts
<1>22. Len(q.log) <= Len(client.write.log) /\ f[Len(q.log)] = x BY <1>2 DEF x
<1>23. x.epoch = h[Len(w.log)].epoch /\ x.phase = h[Len(w.log)].phase BY <1>4, <1>8, <1>20, <1>21
<1>24. Holds("c2s", o, q.opener, q.sequence_number, x) BY <1>0, <1>2
<1>25. v.stage = "granted" => buffered(w) /= <<>> BY <1>1, <1>17
<1> HIDE DEF w
<1>26. Linked(o, f, h, server', read', write', client')
  BY <1>0, <1>2, <1>16, <1>18, <1>20, <1>22, <1>23, <1>24, <1>25, ProceedSync
<1> QED BY <1>26

LEMMA EcdhSync ==
  ASSUME StreamInv, NonceInv, NEW o \in Offer, NEW f, NEW g, Linked(o, f, g, server, read, write, client),
         receive, NEW q, q = poll_packet(compact(read)), NEW m, m = compact(read).buf[1].packet.msg,
         handle_ecdh_init(m, q)
  PROVE  \E h : Linked(o, f, h, server', read', write', client')
<1> DEFINE n == Len(read.log)
           s == f[n]
           x == f[n + 1]
           y == g[Len(write.log)]
           e == server.exchanges
           q_s == Fresh("EcdhReply", server.exchanges)
           w == encode(write, q_s)
           ex == server.exchange \o <<"K_S", m, q_s>>
           v == [server EXCEPT !.state = "AwaitingNewKeys", !.exchange = ex,
                   !.session_id = IF server.stage = "kx" THEN ex ELSE @]
<1>0. m.type = "EcdhInit" /\ server.state = "AwaitingEcdhInit" /\ Proceed(q, w, v) BY DEF handle_ecdh_init
<1>1. /\ s \in Progress /\ x \in Progress /\ m \in Message /\ Fits("c2s", o, s, m) /\ x = After(o, s, m)
      /\ server.at = "receive" /\ server.stage /= "granted"
      /\ m.type \in KxTypes => m = KxMsg("c2s", o, s)
  BY ReceiveOK
<1>2. /\ Len(q.log) = n + 1 /\ q.log /= <<>> /\ n + 1 <= Len(client.write.log)
      /\ m.type /= "NewKeys" => Holds("c2s", o, q.opener, q.sequence_number, x)
      /\ "c2s" \in Dirs /\ "s2c" \in Dirs
  BY Received
<1>3. /\ At("s2c", o, write, g) /\ ServerAt(o, server, read, write, s, y) /\ y \in Progress BY LinkedFacts
<1>4. Task(o, server, s) /\ s.epoch = y.epoch /\ s.phase = y.phase BY <1>3 DEF ServerAt
<1>5. WriteOK(write) /\ write \in WriteState /\ server \in ServerState /\ write.log \in Seq(WirePacket)
  BY LogTypes, BufferedType
<1>6. e \in Nat BY <1>5 DEF ServerState
<1> HIDE DEF n, s, x, y
<1>7. s.epoch \in Nat /\ s.phase \in 0..2 /\ s.asked \in BOOLEAN BY <1>1, TickFacts
<1>8. x.epoch = s.epoch /\ x.phase = 2 /\ s.phase = 1 BY <1>0, <1>1, <1>2, AfterFacts
<1>9. x.asked = s.asked
  <2>1. m.type /= "Auth" BY <1>0
  <2>2. s \in Progress BY <1>1
  <2>3. After(o, s, m).asked = s.asked BY <2>1, <2>2, AskedFacts
  <2> QED BY <1>1, <2>3
<1>10. e = s.epoch + 1 /\ server.exchange = Halfway(o, e) BY <1>0, <1>4 DEF Task
<1>11. m = Fresh("EcdhInit", e)
  <2>1. m = KxMsg("c2s", o, s) BY <1>0, <1>1 DEF KxTypes
  <2> QED BY <1>8, <1>10, <2>1 DEF KxMsg
<1>13. q_s \in Message /\ q_s.type = "EcdhReply" BY <1>6, MsgType
<1>14. ex = Covered(o, e)
  <2> DEFINE a == ClientInit(o, e)
             b == ServerInit(e)
  <2>1. ex = <<"V_C", "V_S", a, b>> \o <<"K_S", m, q_s>> BY <1>10 DEF Halfway
  <2> HIDE DEF a, b, q_s, ex, e
  <2>2. ex = <<"V_C", "V_S", a, b, "K_S", m, q_s>> BY <2>1, SevenConcat
  <2> QED BY <1>11, <2>2 DEF Covered, a, b, q_s, e
<1>15. ex \in Exchange BY <1>6, <1>14, KxFacts
<1>16. v \in ServerState
  <2> DEFINE id == IF server.stage = "kx" THEN ex ELSE server.session_id
  <2>1. id \in Exchange BY <1>5, <1>15 DEF ServerState
  <2>2. v = [server EXCEPT !.state = "AwaitingNewKeys", !.exchange = ex, !.session_id = id] OBVIOUS
  <2> HIDE DEF id, ex, v
  <2> QED BY <1>5, <1>15, <2>1, <2>2 DEF ServerState
<1>17. /\ v.state = "AwaitingNewKeys" /\ v.exchanges = e /\ v.stage = server.stage /\ v.exchange = ex
       /\ v.session_id = IF server.stage = "kx" THEN ex ELSE server.session_id
       /\ v.failed = server.failed /\ v.strict_kx = server.strict_kx
  BY <1>5 DEF ServerState
<1> HIDE DEF v, e, ex, q_s
<1>18. Task(o, v, x)
  <2>1. Tick(s) = 3 * s.epoch + 1 /\ Tick(x) = 3 * s.epoch + 2 BY <1>7, <1>8 DEF Tick
  <2>2. \/ server.stage = "kx" /\ s.epoch = 0 /\ ~s.asked
        \/ server.stage = "session" /\ s.epoch >= 1 /\ s.asked
    <3>1. server.stage /= "auth" BY <1>0, <1>1, <1>2, <1>4, <1>5, Expected DEF KxTypes
    <3> QED BY <1>1, <1>4, <3>1 DEF Task
  <2>3. v.strict_kx = o.strict BY <1>4, <1>7, <1>17, <2>1 DEF Task
  <2>4. v.session_id = Covered(o, 1)
    <3>1. CASE server.stage = "kx"
      <4>1. e = 1 BY <1>10, <2>2, <3>1
      <4> QED BY <1>14, <1>17, <3>1, <4>1
    <3>2. CASE server.stage /= "kx"
      <4>1. Tick(s) >= 2 BY <1>7, <2>1, <2>2, <3>2
      <4> QED BY <1>4, <1>17, <3>2, <4>1 DEF Task
    <3> QED BY <3>1, <3>2
  <2>5. ~v.failed BY <1>4, <1>17 DEF Task
  <2>6. x.epoch + 1 = v.exchanges BY <1>8, <1>10, <1>17
  <2>7. v.exchange = Covered(o, v.exchanges) BY <1>14, <1>17
  <2> QED BY <1>8, <1>9, <1>17, <2>2, <2>3, <2>4, <2>5, <2>6, <2>7 DEF Task
<1>19. q_s = KxMsg("s2c", o, y)
  <2>1. "s2c" /= "c2s" OBVIOUS
  <2>2. y.phase = 1 /\ y.epoch + 1 = e BY <1>4, <1>8, <1>10
  <2> QED BY <2>1, <2>2 DEF KxMsg, q_s, e
<1>20. PICK h : /\ At("s2c", o, w, h) /\ Prolongs(g, h, Len(write.log)) /\ Len(write.log) <= Len(w.log)
                /\ Len(w.log) \in Nat /\ h[Len(w.log)] = After(o, y, q_s)
  BY <1>3, <1>5, <1>13, <1>19, AnswerAt DEF y
<1>21. After(o, y, q_s).epoch = y.epoch /\ After(o, y, q_s).phase = 2
  <2>1. Fits("s2c", o, y, q_s) BY <1>19 DEF Fits
  <2> QED BY <1>2, <1>3, <1>13, <2>1, AfterFacts
<1>22. Len(q.log) <= Len(client.write.log) /\ f[Len(q.log)] = x BY <1>2 DEF x
<1>23. x.epoch = h[Len(w.log)].epoch /\ x.phase = h[Len(w.log)].phase BY <1>4, <1>8, <1>20, <1>21
<1>24. Holds("c2s", o, q.opener, q.sequence_number, x) BY <1>0, <1>2
<1>25. v.stage = "granted" => buffered(w) /= <<>> BY <1>1, <1>17
<1> HIDE DEF w
<1>26. Linked(o, f, h, server', read', write', client')
  BY <1>0, <1>2, <1>16, <1>18, <1>20, <1>22, <1>23, <1>24, <1>25, ProceedSync
<1> QED BY <1>26

LEMMA NewKeysSync ==
  ASSUME StreamInv, NonceInv, NEW o \in Offer, NEW f, NEW g, Linked(o, f, g, server, read, write, client),
         receive, NEW q, q = poll_packet(compact(read)), NEW m, m = compact(read).buf[1].packet.msg,
         handle_newkeys(m, q)
  PROVE  \E h : Linked(o, f, h, server', read', write', client')
<1> DEFINE n == Len(read.log)
           s == f[n]
           x == f[n + 1]
           y == g[Len(write.log)]
           e == server.exchanges
           a == apply(write, server)
           xi == IF server.ext_info THEN encode(a, Msg("ExtInfo")) ELSE a
           w == IF server.stage = "kx" THEN encode(xi, Msg("Ignore")) ELSE a
           rd == apply_read(q, server)
           v == [server EXCEPT !.state = "AwaitingKexInit", !.stage = IF @ = "kx" THEN "auth" ELSE @]
           nk == Msg("NewKeys")
           z == After(o, y, nk)
<1>0. m.type = "NewKeys" /\ server.state = "AwaitingNewKeys" /\ Proceed(rd, w, v) BY DEF handle_newkeys
<1>1. /\ s \in Progress /\ x \in Progress /\ m \in Message /\ Fits("c2s", o, s, m) /\ x = After(o, s, m)
      /\ server.at = "receive" /\ server.stage /= "granted"
      /\ m.type \in KxTypes => m = KxMsg("c2s", o, s)
  BY ReceiveOK
<1>2. /\ Len(q.log) = n + 1 /\ q.log /= <<>> /\ n + 1 <= Len(client.write.log)
      /\ q.sequence_number = (s.seq + 1) % SequenceModulus
      /\ "c2s" \in Dirs /\ "s2c" \in Dirs /\ ReadOK(q) /\ Arrives(q, c2s, client.write.log)
  BY Received
<1>3. /\ At("s2c", o, write, g) /\ ServerAt(o, server, read, write, s, y) /\ y \in Progress BY LinkedFacts
<1>4. Task(o, server, s) /\ s.epoch = y.epoch /\ s.phase = y.phase BY <1>3 DEF ServerAt
<1>5. WriteOK(write) /\ write \in WriteState /\ server \in ServerState /\ write.log \in Seq(WirePacket)
  BY LogTypes, BufferedType
<1>6. e \in Nat /\ nk \in Message /\ nk.type = "NewKeys" BY <1>5, MsgType DEF ServerState, MessageTypes
<1> HIDE DEF n, s, x, y
<1>7. s.epoch \in Nat /\ s.phase \in 0..2 /\ s.asked \in BOOLEAN BY <1>1, TickFacts
<1>8. x.epoch = s.epoch + 1 /\ x.phase = 0 /\ s.phase = 2 BY <1>0, <1>1, <1>2, AfterFacts
<1>9. x.asked = s.asked
  <2>1. m.type /= "Auth" BY <1>0
  <2>2. s \in Progress BY <1>1
  <2>3. After(o, s, m).asked = s.asked BY <2>1, <2>2, AskedFacts
  <2> QED BY <1>1, <2>3
<1>10. e = s.epoch + 1 /\ server.exchange = Covered(o, e) BY <1>0, <1>4 DEF Task
<1>11. server.strict_kx = o.strict /\ server.session_id = Covered(o, 1)
  <2>1. Tick(s) >= 2 /\ Tick(s) >= 1 BY <1>7, <1>8 DEF Tick
  <2> QED BY <1>4, <2>1 DEF Task
<1>12. \/ server.stage = "kx" /\ s.epoch = 0 /\ ~s.asked
       \/ server.stage = "session" /\ s.epoch >= 1 /\ s.asked
  <2>1. server.stage /= "auth" BY <1>0, <1>1, <1>2, <1>4, <1>5, Expected DEF KxTypes
  <2> QED BY <1>1, <1>4, <2>1 DEF Task

\* The reader.
<1>13. /\ rd.log = q.log /\ rd.opener = [key |-> Key("c2s", server.exchange, server.session_id), counter |-> 0]
       /\ rd.sequence_number = IF server.strict_kx THEN 0 ELSE q.sequence_number
  BY <1>2, <1>5, ApplyReadFacts
<1> HIDE DEF rd
<1>14. Holds("c2s", o, rd.opener, rd.sequence_number, x)
  <2> DEFINE k == rd.opener
             sq == rd.sequence_number
             ee == server.exchange
             ii == server.session_id
  <2>1. /\ k = [key |-> Key("c2s", ee, ii), counter |-> 0]
        /\ sq = IF o.strict THEN 0 ELSE (s.seq + 1) % SequenceModulus
        /\ ee = Covered(o, s.epoch + 1) /\ ii = Covered(o, 1)
    BY <1>2, <1>10, <1>11, <1>13
  <2> HIDE DEF k, sq, ee, ii
  <2>2. Holds("c2s", o, k, sq, After(o, s, m)) BY <1>0, <1>1, <1>2, <2>1, NewKeysHolds
  <2> QED BY <1>1, <2>2 DEF k, sq

\* The writer.
<1>15. Fits("s2c", o, y, nk)
  <2>1. nk = KxMsg("s2c", o, y) BY <1>4, <1>8 DEF KxMsg
  <2> QED BY <2>1 DEF Fits
<1>16. z.epoch = s.epoch + 1 /\ z.phase = 0 BY <1>2, <1>3, <1>4, <1>6, <1>15, AfterFacts
<1>17. /\ a \in WriteState /\ a.log = encode(write, nk).log
       /\ a.sealer = [key |-> Key("s2c", server.exchange, server.session_id), counter |-> 0]
       /\ a.sequence_number = IF server.strict_kx THEN 0 ELSE encode(write, nk).sequence_number
  BY <1>5, ApplyFacts
<1>18. encode(write, nk).sequence_number = (y.seq + 1) % SequenceModulus
  <2>1. write.sequence_number = y.seq BY <1>3 DEF ServerAt, Holds
  <2>2. encode(write, nk).sequence_number = (write.sequence_number + 1) % SequenceModulus
    BY <1>5, <1>6, EncodeFacts
  <2> QED BY <2>1, <2>2
<1> HIDE DEF a
<1>19. Holds("s2c", o, a.sealer, a.sequence_number, z)
  <2> DEFINE k == a.sealer
             sq == a.sequence_number
             ee == server.exchange
             ii == server.session_id
  <2>1. /\ k = [key |-> Key("s2c", ee, ii), counter |-> 0]
        /\ sq = IF o.strict THEN 0 ELSE (y.seq + 1) % SequenceModulus
        /\ ee = Covered(o, y.epoch + 1) /\ ii = Covered(o, 1)
    BY <1>4, <1>10, <1>11, <1>17, <1>18
  <2> HIDE DEF k, sq, ee, ii, nk
  <2>2. Holds("s2c", o, k, sq, After(o, y, nk)) BY <1>2, <1>3, <1>6, <2>1, NewKeysHolds
  <2> QED BY <2>2 DEF k, sq
<1> HIDE DEF nk, z
<1>20. PICK h : /\ At("s2c", o, a, h) /\ Prolongs(g, h, Len(write.log)) /\ Len(a.log) = Len(write.log) + 1
                /\ h[Len(a.log)] = z
  <2>1. PICK h : /\ Course("s2c", o, encode(write, nk).log, h) /\ h[Len(write.log) + 1] = After(o, y, nk)
                 /\ Len(encode(write, nk).log) = Len(write.log) + 1 /\ Prolongs(g, h, Len(write.log))
    BY <1>2, <1>3, <1>5, <1>6, <1>15, EncodeAt DEF y
  <2>2. Course("s2c", o, a.log, h) /\ Len(a.log) = Len(write.log) + 1 /\ h[Len(a.log)] = z
    BY <1>17, <2>1 DEF z
  <2>3. At("s2c", o, a, h) BY <1>19, <2>2 DEF At
  <2> QED BY <2>1, <2>2, <2>3
<1> DEFINE Good(u) == \E d : /\ u \in WriteState /\ At("s2c", o, u, d) /\ Prolongs(g, d, Len(write.log))
                             /\ Len(write.log) <= Len(u.log) /\ Len(u.log) \in Nat
                             /\ d[Len(u.log)].epoch = z.epoch /\ d[Len(u.log)].phase = z.phase
<1>21. Good(a)
  <2>1. Len(write.log) \in Nat BY <1>5
  <2> QED BY <1>17, <1>20, <2>1
<1>22. ASSUME NEW u, Good(u), NEW t \in {"ExtInfo", "Ignore"} PROVE Good(encode(u, Msg(t)))
  <2>1. PICK d : /\ u \in WriteState /\ At("s2c", o, u, d) /\ Prolongs(g, d, Len(write.log))
                 /\ Len(write.log) <= Len(u.log) /\ Len(u.log) \in Nat
                 /\ d[Len(u.log)].epoch = z.epoch /\ d[Len(u.log)].phase = z.phase
    BY <1>22
  <2> DEFINE mt == Msg(t)
             c == encode(u, mt)
  <2>2. mt \in Message /\ mt.type = t BY MsgType DEF MessageTypes
  <2>3. mt.type \notin KxTypes \union {"Ident"} BY <2>2 DEF KxTypes
  <2>4. c \in WriteState BY <2>1, <2>2, EncodeFacts
  <2> HIDE DEF mt, c
  <2>5. PICK h2 : /\ At("s2c", o, c, h2) /\ Prolongs(d, h2, Len(u.log)) /\ Len(c.log) = Len(u.log) + 1
                  /\ h2[Len(u.log) + 1].epoch = d[Len(u.log)].epoch
                  /\ h2[Len(u.log) + 1].phase = d[Len(u.log)].phase
    BY <2>1, <2>2, <2>3, SayAt DEF c
  <2>6. Len(write.log) \in Nat BY <1>5
  <2>7. Prolongs(g, h2, Len(write.log)) BY <2>1, <2>5, <2>6, ProlongsTrans
  <2>8. Len(write.log) <= Len(c.log) /\ Len(c.log) \in Nat BY <2>1, <2>5, <2>6
  <2>9. h2[Len(c.log)].epoch = z.epoch /\ h2[Len(c.log)].phase = z.phase BY <2>1, <2>5
  <2>10. Good(c) BY <2>4, <2>5, <2>7, <2>8, <2>9
  <2> QED BY <2>10 DEF c, mt
<1> HIDE DEF Good
<1>23. Good(xi) BY <1>21, <1>22
<1>24. Good(w) BY <1>21, <1>22, <1>23
<1> HIDE DEF w, xi
<1>25. PICK d : /\ At("s2c", o, w, d) /\ Prolongs(g, d, Len(write.log))
                /\ Len(write.log) <= Len(w.log) /\ Len(w.log) \in Nat
                /\ d[Len(w.log)].epoch = z.epoch /\ d[Len(w.log)].phase = z.phase
  BY <1>24 DEF Good

\* The task.
<1>26. v \in ServerState BY <1>5 DEF ServerState
<1>27. /\ v.state = "AwaitingKexInit" /\ v.exchanges = e /\ v.exchange = server.exchange
       /\ v.session_id = server.session_id /\ v.failed = server.failed /\ v.strict_kx = server.strict_kx
       /\ v.stage = IF server.stage = "kx" THEN "auth" ELSE server.stage
  BY <1>5 DEF ServerState
<1> HIDE DEF v, e
<1>28. Task(o, v, x)
  <2>1. ~v.failed BY <1>4, <1>27 DEF Task
  <2>2. v.strict_kx = o.strict /\ v.session_id = Covered(o, 1) BY <1>11, <1>27
  <2>3. x.epoch = v.exchanges BY <1>8, <1>10, <1>27
  <2>4. CASE server.stage = "kx"
    <3>1. v.stage = "auth" /\ x.epoch = 1 /\ ~x.asked BY <1>7, <1>8, <1>9, <1>12, <1>27, <2>4
    <3>2. v.exchange = Covered(o, 1) BY <1>8, <1>10, <1>27, <3>1
    <3> QED BY <1>8, <1>27, <2>1, <2>2, <2>3, <3>1, <3>2 DEF Task
  <2>5. CASE server.stage = "session"
    <3>1. v.stage = "session" /\ x.epoch >= 1 /\ x.asked BY <1>7, <1>8, <1>9, <1>12, <1>27, <2>5
    <3> QED BY <1>8, <1>27, <2>1, <2>2, <2>3, <3>1 DEF Task
  <2> QED BY <1>12, <2>4, <2>5
<1>29. Len(rd.log) <= Len(client.write.log) /\ f[Len(rd.log)] = x /\ rd.log /= <<>> BY <1>2, <1>13 DEF x
<1>30. x.epoch = d[Len(w.log)].epoch /\ x.phase = d[Len(w.log)].phase BY <1>8, <1>16, <1>25
<1>31. v.stage /= "granted" BY <1>12, <1>27
<1>32. Linked(o, f, d, server', read', write', client')
  BY <1>0, <1>14, <1>25, <1>26, <1>28, <1>29, <1>30, <1>31, ProceedSync
<1> QED BY <1>32

LEMMA ReceiveSync ==
  ASSUME StreamInv, NonceInv, NEW o \in Offer, NEW f, NEW g, Linked(o, f, g, server, read, write, client), receive
  PROVE  \E h : Linked(o, f, h, server', read', write', client')
<1> DEFINE r == compact(read)
           m == r.buf[1].packet.msg
           q == poll_packet(r)
<1>1. \/ handle_kexinit(m, q)
      \/ handle_ecdh_init(m, q)
      \/ handle_newkeys(m, q)
      \/ Proceed(q, write, server) /\ m.type \notin KxTypes \union {"Auth"}
      \/ /\ \E t \in {"Failure", "Answer"} : Proceed(q, encode(write, Msg(t)), server)
         /\ m.type \notin KxTypes \union {"Auth"}
      \/ /\ Proceed(q, encode(write, Msg("Success")), [server EXCEPT !.stage = "granted"])
         /\ m.type = "Auth" /\ server.stage = "auth"
  BY ReceiveOK
<1>2. m = compact(read).buf[1].packet.msg /\ q = poll_packet(compact(read)) OBVIOUS
<1>3. server \in ServerState BY LogTypes
<1> HIDE DEF r, m, q
<1>4. CASE handle_kexinit(m, q) BY <1>2, <1>4, KexInitSync
<1>5. CASE handle_ecdh_init(m, q) BY <1>2, <1>5, EcdhSync
<1>6. CASE handle_newkeys(m, q) BY <1>2, <1>6, NewKeysSync
<1>7. CASE Proceed(q, write, server) /\ m.type \notin KxTypes \union {"Auth"} BY <1>2, <1>3, <1>7, PlainSync
<1>8. CASE /\ \E t \in {"Failure", "Answer"} : Proceed(q, encode(write, Msg(t)), server)
           /\ m.type \notin KxTypes \union {"Auth"}
  <2>1. PICK t \in {"Failure", "Answer"} : Proceed(q, encode(write, Msg(t)), server) BY <1>8
  <2> DEFINE w == encode(write, Msg(t))
  <2>2. \E u \in {"Failure", "Answer", "Success"} : w = encode(write, Msg(u)) OBVIOUS
  <2>3. Proceed(q, w, server) BY <2>1
  <2> HIDE DEF w
  <2> QED BY <1>2, <1>3, <1>8, <2>2, <2>3, PlainSync
<1>9. CASE /\ Proceed(q, encode(write, Msg("Success")), [server EXCEPT !.stage = "granted"])
           /\ m.type = "Auth" /\ server.stage = "auth"
  <2> DEFINE w == encode(write, Msg("Success"))
             v == [server EXCEPT !.stage = "granted"]
  <2>1. v \in ServerState BY <1>3 DEF ServerState
  <2>2. \E u \in {"Failure", "Answer", "Success"} : w = encode(write, Msg(u)) OBVIOUS
  <2>3. m.type \notin KxTypes BY <1>9 DEF KxTypes
  <2>4. /\ v = [server EXCEPT !.stage = "granted"] /\ m.type = "Auth" /\ server.stage = "auth"
        /\ w = encode(write, Msg("Success")) /\ Proceed(q, w, v)
    BY <1>9
  <2> HIDE DEF w, v
  <2> QED BY <1>2, <2>1, <2>2, <2>3, <2>4, PlainSync
<1> QED BY <1>1, <1>4, <1>5, <1>6, <1>7, <1>8, <1>9

\* A step of the server that neither reads nor writes a packet.
LEMMA QuietSync ==
  ASSUME StreamInv, NEW o \in Offer, NEW f, NEW g, Linked(o, f, g, server, read, write, client),
         NEW a, server' = [server EXCEPT !.at = a], client' = client,
         read'.log = read.log, read'.opener = read.opener, read'.sequence_number = read.sequence_number,
         write'.log = write.log, write'.sealer = write.sealer, write'.sequence_number = write.sequence_number,
         a = "identify" => write.log = <<>>,
         a \notin {"identify", "closed"} => read.log /= <<>>,
         a = "receive" => server.stage /= "granted"
  PROVE  Linked(o, f, g, server', read', write', client')
<1> DEFINE u == [server EXCEPT !.at = a]
<1>1. server \in ServerState BY LogTypes
<1>2. u.at = a /\ u.stage = server.stage BY <1>1 DEF ServerState
<1>3. Early(server, read, write, client) /\ ServerAt(o, server, read, write, f[Len(read.log)], g[Len(write.log)])
  BY DEF Linked
<1>4. Task(o, server, f[Len(read.log)]) BY <1>3 DEF ServerAt
<1>5. Task(o, u, f[Len(read.log)])
  <2> DEFINE x == f[Len(read.log)]
  <2>1. Task(o, server, x) BY <1>4
  <2> HIDE DEF x
  <2>2. Task(o, [server EXCEPT !.at = a], x) BY <1>1, <2>1, TaskSame
  <2> QED BY <2>2 DEF x
<1> HIDE DEF u
<1>6. Early(u, read', write', client) BY <1>2, <1>3 DEF Early
<1>7. ServerAt(o, u, read', write', f[Len(read'.log)], g[Len(write'.log)]) BY <1>3, <1>5 DEF ServerAt
<1>8. Linked(o, f, g, u, read', write', client) BY <1>6, <1>7 DEF Linked
<1> QED BY <1>8 DEF u

\* A step of the server that only writes.
LEMMA SaySync ==
  ASSUME StreamInv, NEW o \in Offer, NEW f, NEW g, Linked(o, f, g, server, read, write, client),
         NEW m \in Message, m.type \notin KxTypes \union {"Ident"}
  PROVE  \E h : /\ At("s2c", o, encode(write, m), h) /\ Prolongs(g, h, Len(write.log))
                /\ Len(write.log) <= Len(encode(write, m).log) /\ Len(encode(write, m).log) \in Nat
                /\ f[Len(read.log)].epoch = h[Len(encode(write, m).log)].epoch
                /\ f[Len(read.log)].phase = h[Len(encode(write, m).log)].phase
<1>1. write \in WriteState /\ Len(write.log) \in Nat BY LogTypes, BufferedType
<1>2. At("s2c", o, write, g) BY LinkedFacts
<1>3. f[Len(read.log)].epoch = g[Len(write.log)].epoch /\ f[Len(read.log)].phase = g[Len(write.log)].phase
  BY DEF Linked, ServerAt
<1> DEFINE w == encode(write, m)
<1> HIDE DEF w
<1>4. PICK h : /\ At("s2c", o, w, h) /\ Prolongs(g, h, Len(write.log)) /\ Len(w.log) = Len(write.log) + 1
               /\ h[Len(write.log) + 1].epoch = g[Len(write.log)].epoch
               /\ h[Len(write.log) + 1].phase = g[Len(write.log)].phase
  BY <1>1, <1>2, SayAt DEF w
<1>5. Len(write.log) <= Len(w.log) /\ Len(w.log) \in Nat BY <1>1, <1>4
<1>6. f[Len(read.log)].epoch = h[Len(w.log)].epoch /\ f[Len(read.log)].phase = h[Len(w.log)].phase BY <1>3, <1>4
<1> QED BY <1>4, <1>5, <1>6 DEF w

LEMMA TerminalsPollSync ==
  ASSUME StreamInv, NEW o \in Offer, NEW f, NEW g, Linked(o, f, g, server, read, write, client), TerminalsPoll
  PROVE  \E h : Linked(o, f, h, server', read', write', client')
<1> DEFINE m == Msg("Output")
           w == encode(write, m)
           v == [server EXCEPT !.outputs = @ + 1]
           x == f[Len(read.log)]
<1>1. Proceed(read, w, v) /\ server.at = "receive" /\ server.stage = "session" BY DEF TerminalsPoll
<1>2. m \in Message /\ m.type = "Output" BY MsgType DEF MessageTypes
<1>3. m.type \notin KxTypes \union {"Ident"} BY <1>2 DEF KxTypes
<1>4. server \in ServerState BY LogTypes
<1>5. /\ v \in ServerState /\ v.stage = server.stage /\ v.state = server.state /\ v.exchanges = server.exchanges
      /\ v.exchange = server.exchange /\ v.session_id = server.session_id /\ v.failed = server.failed
      /\ v.strict_kx = server.strict_kx
  BY <1>4 DEF ServerState
<1>6. /\ Task(o, server, x) /\ Holds("c2s", o, read.opener, read.sequence_number, x)
      /\ Len(read.log) <= Len(client.write.log) /\ Early(server, read, write, client)
  BY DEF Linked, ServerAt
<1>7. read.log /= <<>> BY <1>1, <1>6 DEF Early
<1> HIDE DEF w, m, v
<1>8. Task(o, v, x) BY <1>5, <1>6 DEF Task
<1>9. PICK h : /\ At("s2c", o, w, h) /\ Prolongs(g, h, Len(write.log)) /\ Len(write.log) <= Len(w.log)
               /\ Len(w.log) \in Nat /\ x.epoch = h[Len(w.log)].epoch /\ x.phase = h[Len(w.log)].phase
  BY <1>2, <1>3, SaySync DEF w
<1>10. v.stage /= "granted" BY <1>1, <1>5
<1>11. Linked(o, f, h, server', read', write', client')
  BY <1>1, <1>5, <1>6, <1>7, <1>8, <1>9, <1>10, ProceedSync
<1> QED BY <1>11

LEMMA TimesOutSync ==
  ASSUME StreamInv, NEW o \in Offer, NEW f, NEW g, Linked(o, f, g, server, read, write, client), TimesOut
  PROVE  \E h : Linked(o, f, h, server', read', write', client')
<1> DEFINE m == Msg("Disconnect")
           w == encode(write, m)
           v == [server EXCEPT !.at = "notify"]
           x == f[Len(read.log)]
<1>1. /\ server.at \in {"receive", "flush"} /\ server' = v /\ write' = w /\ read' = read /\ client' = client
  BY DEF TimesOut
<1>2. m \in Message /\ m.type = "Disconnect" BY MsgType DEF MessageTypes
<1>3. m.type \notin KxTypes \union {"Ident"} BY <1>2 DEF KxTypes
<1>4. server \in ServerState BY LogTypes
<1>5. v.at = "notify" BY <1>4 DEF ServerState
<1>6. /\ Task(o, server, x) /\ Holds("c2s", o, read.opener, read.sequence_number, x)
      /\ Len(read.log) <= Len(client.write.log) /\ Early(server, read, write, client)
  BY DEF Linked, ServerAt
<1>7. Task(o, v, x)
  <2> HIDE DEF x
  <2>1. Task(o, [server EXCEPT !.at = "notify"], x) BY <1>4, <1>6, TaskSame
  <2> QED BY <2>1
<1> HIDE DEF w, m, v
<1>8. PICK h : /\ At("s2c", o, w, h) /\ Prolongs(g, h, Len(write.log)) /\ Len(write.log) <= Len(w.log)
               /\ Len(w.log) \in Nat /\ x.epoch = h[Len(w.log)].epoch /\ x.phase = h[Len(w.log)].phase
  BY <1>2, <1>3, SaySync DEF w
<1>9. Early(v, read, w, client) BY <1>1, <1>5, <1>6 DEF Early
<1>10. Linked(o, f, h, v, read, w, client) BY <1>6, <1>7, <1>8, <1>9, ServerMoves
<1> QED BY <1>1, <1>10

\* A stream that begins with the identification and has nothing behind it.
LEMMA CarriesOne ==
  ASSUME NEW st \in Seq(Cell), NEW log \in Seq(WirePacket), Carries(st, log, 0), Len(log) <= 1,
         log /= <<>> => log[1].msg.type = "Ident"
  PROVE  Len(st) <= Size["Ident"]
<1>0. Len(log) \in {0, 1} /\ (Len(log) = 1 => log[1].msg.type = "Ident")
  <2>0. Len(log) \in Nat /\ Len(<<>>) = 0 BY LenProperties
  <2>1. Len(log) \in {0, 1}
    <3> DEFINE l == Len(log)
    <3>1. l \in Nat /\ l <= 1 BY <2>0
    <3> HIDE DEF l
    <3>2. l \in {0, 1} BY <3>1
    <3> QED BY <3>2 DEF l
  <2>2. Len(log) = 1 => log /= <<>>
    <3>1. 0 /= 1 OBVIOUS
    <3> QED BY <2>0, <3>1, Zenon
  <2> QED BY <2>1, <2>2
<1>1. PICK pos \in [0..Len(log) -> 0..Len(st)] :
        /\ pos[0] = 0 /\ pos[Len(log)] = Len(st)
        /\ \A i \in 0 + 1..Len(log) : pos[i] = pos[i - 1] + Size[log[i].msg.type]
  BY DEF Carries
<1>2. Size["Ident"] \in Nat BY PacketIOAssumption, TransportAssumption DEF MessageTypes
<1>5. pos[0] = 0 /\ pos[Len(log)] = Len(st) /\ Len(log) \in Nat BY <1>1
<1>3. CASE Len(log) = 0
  <2>1. Len(st) = 0 BY <1>3, <1>5
  <2> QED BY <1>2, <2>1
<1>4. CASE Len(log) = 1
  <2>1. pos[1] = pos[1 - 1] + Size[log[1].msg.type] BY <1>1, <1>4
  <2>2. log[1].msg.type = "Ident" BY <1>0, <1>4
  <2>3. Len(st) = 0 + Size["Ident"] BY <1>4, <1>5, <2>1, <2>2
  <2> QED BY <1>2, <2>3
<1> QED BY <1>0, <1>3, <1>4

\* Nothing is behind a client's identification before it has the server's.
LEMMA AloneIdent ==
  ASSUME StreamInv, NEW o \in Offer, NEW f, NEW g, Linked(o, f, g, server, read, write, client),
         server.at = "identify", NEW k \in 1..Len(c2s)
  PROVE  Len(read.buf \o SubSeq(c2s, 1, k)) <= Size["Ident"]
<1> DEFINE log == client.write.log
           x == SubSeq(c2s, 1, k)
           st == Rest(read) \o c2s
<1>1. log \in Seq(WirePacket) /\ client.read.log \in Seq(WirePacket) /\ ReadOK(read) /\ c2s \in Seq(Cell)
  BY LogTypes
<1>2. read.log = <<>> /\ read.last_length = 0 BY DEF StreamInv, AwaitInv
<1>3. Arrives(read, c2s, log) BY DEF StreamInv, InFlow, Ended
<1>4. Early(server, read, write, client) /\ Len(client.read.log) <= Len(write.log) BY DEF Linked
<1>5. write.log = <<>> BY <1>4 DEF Early
<1>6. Len(client.read.log) = 0 BY <1>1, <1>4, <1>5
<1>7. client.read.log = <<>> BY <1>1, <1>6
<1>8. Len(log) <= 1 BY <1>4, <1>7 DEF Early
<1>9. log /= <<>> => log[1].msg.type = "Ident" BY DEF StreamInv, ClientInv
<1>10. Rest(read) \in Seq(Cell) /\ Len(Rest(read)) = Len(read.buf) /\ read.buf \in Seq(Cell)
  BY <1>1, <1>2, RestType
<1>11. st \in Seq(Cell) /\ Len(st) = Len(read.buf) + Len(c2s)
  <2> DEFINE a == Rest(read)
  <2>1. a \in Seq(Cell) /\ Len(a) = Len(read.buf) BY <1>10
  <2> HIDE DEF a
  <2>2. a \o c2s \in Seq(Cell) /\ Len(a \o c2s) = Len(a) + Len(c2s) BY <1>1, <2>1, ConcatProperties
  <2> QED BY <2>1, <2>2 DEF a
<1>12. Carries(st, log, 0) BY <1>2, <1>3 DEF Arrives
<1>13. k \in Nat /\ k <= Len(c2s) BY <1>1
<1>14. Len(read.buf \o x) = Len(read.buf) + k BY <1>1, <1>10, <1>13, MoveConcat
<1> HIDE DEF log, st, x
<1>15. Len(st) <= Size["Ident"] BY <1>1, <1>8, <1>9, <1>11, <1>12, CarriesOne
<1>16. Size["Ident"] \in Nat BY PacketIOAssumption, TransportAssumption DEF MessageTypes
<1>17. k <= Len(c2s) /\ k \in Nat /\ Len(c2s) \in Nat /\ Len(read.buf) \in Nat BY <1>1, <1>10
<1> QED BY <1>11, <1>14, <1>15, <1>16, <1>17 DEF x

LEMMA IdentifySync ==
  ASSUME StreamInv, NEW o \in Offer, NEW f, NEW g, Linked(o, f, g, server, read, write, client),
         NEW k \in 1..Len(c2s), identify(k)
  PROVE  \E h : Linked(o, f, h, server', read', write', client')
<1> DEFINE x == SubSeq(c2s, 1, k)
           buf == read.buf \o x
           q == Taken(read, c2s, k)
           log == client.write.log
           first == buf[1].packet
<1>1. server.at = "identify" /\ ~Ended /\ client' = client BY DEF identify, Ended
<1>2. /\ server \in ServerState /\ log \in Seq(WirePacket) /\ ReadOK(read) /\ WriteOK(write)
      /\ c2s \in Seq(Cell) /\ write.log \in Seq(WirePacket)
  BY LogTypes
<1>3. read.log = <<>> /\ read.last_length = 0 BY <1>1 DEF StreamInv, AwaitInv
<1>4. Arrives(read, c2s, log) BY <1>1 DEF StreamInv, InFlow
<1>5. /\ ReadOK(q) /\ q.last_length = 0 /\ q.log = read.log /\ q.buf = buf /\ q.opener = read.opener
      /\ q.sequence_number = read.sequence_number /\ Arrives(q, Drop(c2s, k), log) /\ Drop(c2s, k) \in Seq(Cell)
  BY <1>2, <1>3, <1>4, TakeArrives
<1>6. Len(buf) <= Size["Ident"] BY <1>1, AloneIdent
<1>7. \/ q = read' /\ UNCHANGED <<server, write>>
      \/ /\ IsComplete(buf)
         /\ read' = [read EXCEPT !.buf = buf, !.last_length = Size["Ident"], !.log = Append(@, first)]
         /\ write' = encoded(write, Msg("Ident"))
         /\ server' = [server EXCEPT !.at = "ident", !.identities = <<"V_C", "V_S">>]
  <2>1. Size["Ident"] \in Nat BY PacketIOAssumption, TransportAssumption DEF MessageTypes
  <2>2. Len(buf) \in Nat BY <1>5 DEF ReadOK, ReadState
  <2>3. ~(Len(buf) > Size["Ident"]) BY <1>6, <2>1, <2>2
  <2> QED BY <2>3 DEF identify, Taken
<1>8. Early(server, read, write, client) BY DEF Linked
<1> HIDE DEF q, buf
<1>9. CASE q = read' /\ UNCHANGED <<server, write>>
  <2> DEFINE a == "identify"
  <2>1. server' = [server EXCEPT !.at = a] BY <1>1, <1>2, <1>9 DEF ServerState
  <2>2. write.log = <<>> BY <1>1, <1>8 DEF Early
  <2>3. /\ read'.log = read.log /\ read'.opener = read.opener /\ read'.sequence_number = read.sequence_number
        /\ write' = write
    BY <1>5, <1>9
  <2>4. Linked(o, f, g, server', read', write', client') BY <1>1, <2>1, <2>2, <2>3, QuietSync
  <2> QED BY <2>4
<1>10. CASE /\ IsComplete(buf)
            /\ read' = [read EXCEPT !.buf = buf, !.last_length = Size["Ident"], !.log = Append(@, first)]
            /\ write' = encoded(write, Msg("Ident"))
            /\ server' = [server EXCEPT !.at = "ident", !.identities = <<"V_C", "V_S">>]
  <2> DEFINE m == Msg("Ident")
             p == Packet(m, NoKey, 0, 0)
             v == server'
  <2>1. q.buf /= <<>> BY <1>5, <1>10 DEF IsComplete
  <2>2. Len(q.log) + 1 \in 1..Len(log) /\ q.buf[1].packet = log[Len(q.log) + 1] /\ q.buf[1].packet \in WirePacket
    BY <1>2, <1>5, <2>1, NextPacket
  <2>3. first = log[1] /\ first \in WirePacket /\ 1 \in 1..Len(log) BY <1>3, <1>5, <2>2
  <2>4. log[1].msg.type = "Ident"
    <3>1. log /= <<>> BY <1>2, <2>3
    <3> QED BY <3>1 DEF StreamInv, ClientInv
  <2>5. Course("c2s", o, log, f) /\ Course("s2c", o, write.log, g) BY DEF Linked
  <2>6. f[0] = Start /\ Moves("c2s", o, f[1 - 1], log[1], f[1]) BY <1>2, <2>3, <2>5, CourseFacts
  <2>7. f[1] = Start /\ f[0] = Start BY <2>4, <2>6 DEF Moves
  <2>8. m \in Message /\ m.type = "Ident" BY MsgType DEF MessageTypes
  <2>9. write.log = <<>> /\ Len(write.log) = 0 BY <1>1, <1>2, <1>8 DEF Early
  <2>10. /\ p \in WirePacket /\ write'.log = Append(write.log, p) /\ write'.sealer = write.sealer
         /\ write'.sequence_number = write.sequence_number
    BY <1>2, <1>10, <2>8, EncodedFacts, BufferedType
  <2>11. p.msg.type = "Ident" BY <2>8 DEF Packet
  <2> HIDE DEF p, m
  <2>12. g[0] = Start /\ Start \in Progress
    <3>1. g[0] = Start BY <2>5 DEF Course
    <3>2. 0 \in SequenceNumber BY PacketIOAssumption DEF SequenceNumber
    <3> QED BY <3>1, <3>2 DEF Start, Progress
  <2>13. Moves("s2c", o, Start, p, Start) BY <2>11 DEF Moves
  <2>14. Tick(Start) <= Tick(Start) BY <2>12, TickFacts
  <2>15. PICK h : Longer("s2c", o, write.log, g, p, Start, h)
    <3> DEFINE dir == "s2c"
               lg == write.log
    <3>1. /\ Course(dir, o, lg, g) /\ Moves(dir, o, g[Len(lg)], p, Start) /\ lg \in Seq(WirePacket)
          /\ Tick(g[Len(lg)]) <= Tick(Start) /\ lg = <<>>
      BY <1>2, <2>5, <2>9, <2>12, <2>13, <2>14
    <3> HIDE DEF dir, lg
    <3>2. \E h : Longer(dir, o, lg, g, p, Start, h) BY <2>10, <2>12, <3>1, CourseAppend
    <3> QED BY <3>2 DEF dir, lg
  <2>16. Course("s2c", o, write'.log, h) /\ h[1] = Start /\ Prolongs(g, h, Len(write.log)) /\ Len(write'.log) = 1
    BY <1>2, <2>9, <2>10, <2>15 DEF Longer
  <2>17. /\ read'.log = Append(read.log, first) /\ read'.opener = read.opener
         /\ read'.sequence_number = read.sequence_number
    BY <1>2, <1>10 DEF ReadOK, ReadState
  <2>18. Len(read'.log) = 1 /\ read'.log /= <<>> BY <1>3, <2>17
  <2>19. ServerAt(o, server, read, write, f[Len(read.log)], g[Len(write.log)]) BY DEF Linked
  <2>20. Len(read.log) = 0 BY <1>3
  <2>21. /\ Task(o, server, Start) /\ Holds("c2s", o, read.opener, read.sequence_number, Start)
         /\ Holds("s2c", o, write.sealer, write.sequence_number, Start)
    BY <2>7, <2>9, <2>12, <2>19, <2>20 DEF ServerAt
  <2>22. /\ v.at = "ident" /\ v.stage = server.stage /\ v.state = server.state
         /\ v.exchanges = server.exchanges /\ v.exchange = server.exchange
         /\ v.session_id = server.session_id /\ v.failed = server.failed /\ v.strict_kx = server.strict_kx
    BY <1>2, <1>10 DEF ServerState
  <2>23. Task(o, v, Start)
    <3> HIDE DEF v
    <3> QED BY <2>21, <2>22 DEF Task
  <2>24. At("s2c", o, write', h) BY <2>10, <2>16, <2>21 DEF At
  <2>25. Early(v, read', write', client)
    <3> HIDE DEF v
    <3> QED BY <1>8, <2>18, <2>22 DEF Early
  <2>26. /\ f[Len(read'.log)] = Start /\ h[Len(write'.log)] = Start /\ Len(read'.log) <= Len(client.write.log)
         /\ Len(write.log) <= Len(write'.log) /\ Len(write'.log) \in Nat
    BY <1>2, <2>3, <2>7, <2>9, <2>16, <2>18
  <2>27. Holds("c2s", o, read'.opener, read'.sequence_number, Start) BY <2>17, <2>21
  <2> HIDE DEF v
  <2>28. Linked(o, f, h, v, read', write', client)
    BY <2>16, <2>23, <2>24, <2>25, <2>26, <2>27, ServerMoves
  <2> QED BY <1>1, <2>28 DEF v
<1> QED BY <1>7, <1>9, <1>10

LEMMA QuietSteps ==
  ASSUME StreamInv, NonceInv, NEW o \in Offer, NEW f, NEW g, Linked(o, f, g, server, read, write, client),
         \/ \E k \in 1..Len(c2s) : buffer(k)
         \/ \E k \in 1..Len(buffered(write)) : flush(k)
         \/ accept \/ Lost
  PROVE  Linked(o, f, g, server', read', write', client')
<1>1. server \in ServerState /\ ReadOK(read) /\ WriteOK(write) /\ c2s \in Seq(Cell) /\ s2c \in Seq(Cell)
  BY LogTypes
<1>2. Early(server, read, write, client) BY DEF Linked
<1>3. ASSUME NEW k \in 1..Len(c2s), buffer(k)
      PROVE  Linked(o, f, g, server', read', write', client')
  <2> DEFINE a == "receive"
             c == compact(read)
  <2>1. /\ server.at = "receive" /\ server' = server /\ write' = write /\ client' = client
        /\ read' = Taken(c, c2s, k)
    BY <1>3 DEF buffer, Taken
  <2>2. /\ ReadOK(c) /\ c.last_length = 0 /\ c.log = read.log /\ c.opener = read.opener
        /\ c.sequence_number = read.sequence_number
    BY <1>1, CompactFacts
  <2> HIDE DEF c
  <2>3. /\ read'.log = read.log /\ read'.opener = read.opener /\ read'.sequence_number = read.sequence_number
    BY <1>1, <2>1, <2>2, TakeArrives
  <2>4. server' = [server EXCEPT !.at = a] BY <1>1, <2>1 DEF ServerState
  <2>5. read.log /= <<>> /\ server.stage /= "granted" BY <1>2, <2>1 DEF Early
  <2> HIDE DEF a
  <2>6. a = "receive" /\ write'.log = write.log /\ write'.sealer = write.sealer
        /\ write'.sequence_number = write.sequence_number /\ client' = client
    BY <2>1 DEF a
  <2> QED BY <2>3, <2>4, <2>5, <2>6, QuietSync
<1>4. ASSUME NEW k \in 1..Len(buffered(write)), flush(k)
      PROVE  Linked(o, f, g, server', read', write', client')
  <2> DEFINE w == written(write, k)
             a == CASE buffered(w) /= <<>> -> server.at
                    [] buffered(w) = <<>> /\ server.at = "notify" -> "closed"
                    [] buffered(w) = <<>> /\ server.at /= "notify" ->
                         IF server.stage = "granted" THEN "spawn" ELSE "receive"
  <2>1. /\ server.at \in {"ident", "flush", "notify"} /\ write' = w /\ server' = [server EXCEPT !.at = a]
        /\ read' = read /\ client' = client
    BY <1>4 DEF flush
  <2>2. w.log = write.log /\ w.sealer = write.sealer /\ w.sequence_number = write.sequence_number
    BY <1>1, FlushLeaves
  <2>3. \/ a \in {"ident", "flush", "notify", "closed"}
        \/ a = "spawn"
        \/ a = "receive" /\ server.stage /= "granted"
    BY <2>1
  <2> HIDE DEF w, a
  <2>4. read.log /= <<>> BY <1>2, <2>1 DEF Early
  <2> QED BY <2>1, <2>2, <2>3, <2>4, QuietSync
<1>5. CASE accept
  <2> DEFINE a == "handoff"
  <2>1. server.at = "spawn" /\ server' = [server EXCEPT !.at = a] /\ read' = read /\ write' = write /\ client' = client
    BY <1>5 DEF accept
  <2>2. read.log /= <<>> BY <1>2, <2>1 DEF Early
  <2> HIDE DEF a
  <2>3. a = "handoff" BY DEF a
  <2> QED BY <2>1, <2>2, <2>3, QuietSync
<1>6. CASE Lost
  <2> DEFINE a == "closed"
  <2>1. server' = [server EXCEPT !.at = a] /\ read' = read /\ write' = write /\ client' = client
    BY <1>6 DEF Lost
  <2> HIDE DEF a
  <2>3. a = "closed" BY DEF a
  <2> QED BY <2>1, <2>3, QuietSync
<1> QED BY <1>3, <1>4, <1>5, <1>6

\* The session process goes on exactly where the server stopped.
LEMMA ResumeSync ==
  ASSUME StreamInv, NonceInv, NEW o \in Offer, NEW f, NEW g, Linked(o, f, g, server, read, write, client), resume
  PROVE  Linked(o, f, g, server', read', write', client')
<1> DEFINE x == f[Len(read.log)]
           y == g[Len(write.log)]
           v == server'
<1>1. /\ server.at = "handoff" /\ client' = client
      /\ read' = [buf |-> Rest(read), last_length |-> 0, sequence_number |-> read.sequence_number,
                  opener |-> [key |-> Key("c2s", server.exchange, server.session_id),
                              counter |-> read.opener.counter],
                  log |-> read.log]
      /\ write' = [buf |-> <<>>, written |-> 0, sequence_number |-> write.sequence_number,
                   sealer |-> [key |-> Key("s2c", server.exchange, server.session_id),
                               counter |-> write.sealer.counter],
                   log |-> write.log]
      /\ server' = [server EXCEPT !.at = "receive", !.stage = "session",
                      !.state = "AwaitingKexInit", !.exchange = <<>>]
  BY ResumeFacts
<1>2. server \in ServerState BY LogTypes
<1>3. server.stage = "granted" BY <1>1 DEF NonceInv, NonceOf
<1>4. ServerAt(o, server, read, write, x, y) /\ Early(server, read, write, client) /\ x \in Progress /\ y \in Progress
  BY LinkedFacts
<1>5. /\ Task(o, server, x) /\ x.epoch = y.epoch /\ x.phase = y.phase
      /\ Holds("c2s", o, read.opener, read.sequence_number, x)
      /\ Holds("s2c", o, write.sealer, write.sequence_number, y)
  BY <1>4 DEF ServerAt
<1>6. /\ x.epoch = 1 /\ x.phase = 0 /\ server.exchange = Covered(o, 1) /\ x.asked
      /\ server.exchanges = 1 /\ ~server.failed
  BY <1>3, <1>5 DEF Task
<1>7. server.session_id = Covered(o, 1) /\ server.strict_kx = o.strict
  <2>1. Tick(x) >= 2 /\ Tick(x) >= 1 BY <1>6 DEF Tick
  <2> QED BY <1>5, <2>1 DEF Task
<1>8. /\ v.at = "receive" /\ v.stage = "session" /\ v.state = "AwaitingKexInit" /\ v.exchanges = server.exchanges
      /\ v.failed = server.failed /\ v.session_id = server.session_id /\ v.strict_kx = server.strict_kx
  BY <1>1, <1>2 DEF ServerState
<1>9. /\ read'.log = read.log /\ read'.sequence_number = read.sequence_number
      /\ read'.opener.key = Key("c2s", server.exchange, server.session_id)
      /\ read'.opener.counter = read.opener.counter
      /\ write'.log = write.log /\ write'.sequence_number = write.sequence_number
      /\ write'.sealer.key = Key("s2c", server.exchange, server.session_id)
      /\ write'.sealer.counter = write.sealer.counter
  BY <1>1
<1> HIDE DEF v, x, y
<1>10. Task(o, v, x) BY <1>6, <1>7, <1>8 DEF Task
<1>11. Holds("c2s", o, read'.opener, read'.sequence_number, x)
  BY <1>5, <1>6, <1>7, <1>9 DEF Holds, EpochKey
<1>12. Holds("s2c", o, write'.sealer, write'.sequence_number, y)
  BY <1>5, <1>6, <1>7, <1>9 DEF Holds, EpochKey
<1>13. ServerAt(o, v, read', write', x, y) BY <1>5, <1>10, <1>11, <1>12 DEF ServerAt
<1>14. Early(v, read', write', client) BY <1>1, <1>4, <1>8, <1>9 DEF Early
<1>15. Linked(o, f, g, v, read', write', client) BY <1>9, <1>13, <1>14 DEF Linked, x, y
<1> QED BY <1>1, <1>15 DEF v

-----------------------------------------------------------------------------
(* The client's steps. *)

\* The client sends a message that fits.
LEMMA ClientSendsFit ==
  ASSUME StreamInv, NEW o \in Offer, NEW f, NEW g, Linked(o, f, g, server, read, write, client),
         NEW m \in Message, NEW s, s = f[Len(client.write.log)], Fits("c2s", o, s, m),
         NEW w, NEW p, Puts(w, p),
         p = Packet(m, client.write.sealer.key, client.write.sealer.counter, client.write.sequence_number),
         NEW c \in ClientState, c.read = client.read, c.ok = client.ok, c.at /= "new", client.at /= "new",
         Transmit(w, c),
         Holds("c2s", o, w.sealer, w.sequence_number, After(o, s, m)),
         Peer(o, c, After(o, s, m), g[Len(client.read.log)]),
         c.strict = client.strict, c.ext_info = client.ext_info, c.heard = client.heard,
         c.asked = After(o, s, m).asked, c.exchanges /= 0, c.heard
  PROVE  \E h : Linked(o, h, g, server', read', write', client')
<1> DEFINE x == After(o, s, m)
           t == g[Len(client.read.log)]
           d == client'
<1>1. /\ d = [c EXCEPT !.write = d.write] /\ d.write.log = Append(client.write.log, p)
      /\ d.write.sealer = w.sealer /\ d.write.sequence_number = w.sequence_number
      /\ d \in ClientState
  BY TransmitStream
<1>2. server' = server /\ read' = read /\ write' = write BY DEF Transmit
<1>3. "c2s" \in Dirs /\ client.write.log \in Seq(WirePacket) BY LogTypes DEF Dirs
<1>4. /\ s \in Progress /\ ClientAt(o, client, s, t) /\ Early(server, read, write, client) BY LinkedFacts
<1>5. x \in Progress /\ m.type /= "Ident" /\ Tick(s) <= Tick(x) BY <1>3, <1>4, AfterFacts
<1> HIDE DEF d
<1>6. /\ d.read = client.read /\ d.ok = client.ok /\ d.strict = client.strict /\ d.ext_info = client.ext_info
      /\ d.heard = client.heard /\ d.asked = x.asked /\ d.at = c.at /\ d.exchanges = c.exchanges
      /\ d.exchange = c.exchange /\ d.session_id = c.session_id
  BY <1>1 DEF ClientState
<1>7. p \in WirePacket BY DEF Puts
<1>8. p.msg = m /\ p.key = client.write.sealer.key /\ p.counter = client.write.sealer.counter
      /\ p.seq = client.write.sequence_number
  BY DEF Packet
<1>9. Holds("c2s", o, client.write.sealer, client.write.sequence_number, s) BY <1>4 DEF ClientAt
<1> HIDE DEF x, t
<1>10. Moves("c2s", o, s, p, x) BY <1>5, <1>8, <1>9 DEF Moves, Holds, x
<1>11. Peer(o, d, x, t) BY <1>6 DEF Peer, x, t
<1>12. ClientAt(o, d, x, t)
  <2>1. Holds("c2s", o, d.write.sealer, d.write.sequence_number, x) BY <1>1 DEF x
  <2>2. /\ Holds("s2c", o, client.read.opener, client.read.sequence_number, t)
        /\ client.strict = o.strict /\ client.ext_info = o.ext_info /\ client.ok
    BY <1>4 DEF ClientAt
  <2> QED BY <1>6, <1>11, <2>1, <2>2 DEF ClientAt
<1>13. Early(server, read, write, d) BY <1>4, <1>6 DEF Early
<1>14. p.msg.type /= "Ident" BY <1>5, <1>8
<1>15. \E h : Linked(o, h, g, server, read, write, d)
  BY <1>1, <1>5, <1>6, <1>7, <1>10, <1>12, <1>13, <1>14, ClientMoves DEF t
<1> QED BY <1>2, <1>15 DEF d

LEMMA ClientIdentSync ==
  ASSUME StreamInv, NEW o \in Offer, NEW f, NEW g, Linked(o, f, g, server, read, write, client), ClientIdent
  PROVE  \E h : Linked(o, h, g, server', read', write', client')
<1> DEFINE m == Msg("Ident")
           w == encoded(client.write, m)
           p == Packet(m, NoKey, 0, 0)
           c == [client EXCEPT !.at = "idle"]
           s == f[Len(client.write.log)]
           t == g[Len(client.read.log)]
           d == client'
<1>1. client.at = "new" /\ Transmit(w, c) BY DEF ClientIdent
<1>2. m \in Message /\ m.type = "Ident" BY MsgType DEF MessageTypes
<1>3. Puts(w, p) BY <1>2, PutsEncode
<1>4. client \in ClientState /\ client.write \in WriteState /\ client.write.log \in Seq(WirePacket) BY LogTypes
<1>5. /\ c \in ClientState /\ c.read = client.read /\ c.ok = client.ok /\ c.at = "idle" BY <1>4 DEF ClientState
<1>6. p.msg.type = "Ident" /\ p \in WirePacket BY <1>2, <1>3 DEF Packet, Puts
<1>7. w.sealer = client.write.sealer /\ w.sequence_number = client.write.sequence_number
  BY <1>2, <1>4, EncodedFacts
<1> HIDE DEF w, p, c
<1>8. /\ d = [c EXCEPT !.write = d.write] /\ d.write.log = Append(client.write.log, p)
      /\ d.write.sealer = w.sealer /\ d.write.sequence_number = w.sequence_number
      /\ d \in ClientState
  BY <1>1, <1>3, <1>5, <1>6, TransmitStream
<1>9. server' = server /\ read' = read /\ write' = write BY <1>1 DEF Transmit
<1>10. /\ s \in Progress /\ ClientAt(o, client, s, t) /\ Early(server, read, write, client) BY LinkedFacts
<1>11. client.write.log = <<>> /\ Len(client.write.log) = 0 BY <1>1 DEF StreamInv, ClientInv
<1>12. s = Start /\ Tick(s) <= Tick(s)
  <2>1. Course("c2s", o, client.write.log, f) BY DEF Linked
  <2>2. Tick(s) \in Nat BY <1>10, TickFacts
  <2>3. f[0] = Start BY <2>1 DEF Course
  <2>4. s = Start BY <1>11, <2>3
  <2>5. Tick(s) <= Tick(s) BY <2>2
  <2> QED BY <2>4, <2>5
<1> HIDE DEF d
<1>13. /\ d.read = client.read /\ d.ok = client.ok /\ d.strict = client.strict /\ d.ext_info = client.ext_info
       /\ d.heard = client.heard /\ d.asked = client.asked /\ d.at = "idle" /\ d.exchanges = client.exchanges
       /\ d.exchange = client.exchange /\ d.session_id = client.session_id
  BY <1>4, <1>5, <1>8 DEF ClientState, c
<1> HIDE DEF s, t
<1>14. Moves("c2s", o, s, p, s) BY <1>6, <1>12 DEF Moves
<1>15. Peer(o, d, s, t)
  <2>1. Peer(o, client, s, t) BY <1>10 DEF ClientAt
  <2>2. s.epoch = client.exchanges /\ s.phase = 0 /\ t.epoch = client.exchanges /\ t.phase = 0
    BY <1>1, <2>1 DEF Peer
  <2>3. Tick(t) >= 2 => d.session_id = Covered(o, 1) BY <1>13, <2>1 DEF Peer
  <2> QED BY <1>13, <2>2, <2>3 DEF Peer
<1>16. ClientAt(o, d, s, t)
  <2>1. /\ Holds("c2s", o, client.write.sealer, client.write.sequence_number, s)
        /\ Holds("s2c", o, client.read.opener, client.read.sequence_number, t)
        /\ client.strict = o.strict /\ client.ext_info = o.ext_info /\ client.ok /\ s.asked = client.asked
    BY <1>10 DEF ClientAt
  <2> QED BY <1>7, <1>8, <1>13, <1>15, <2>1 DEF ClientAt
<1>17. Len(d.write.log) = 1 BY <1>4, <1>6, <1>8, <1>11
<1>18. Early(server, read, write, d) BY <1>10, <1>13, <1>17 DEF Early
<1>19. \E h : Linked(o, h, g, server, read, write, d)
  BY <1>6, <1>8, <1>10, <1>11, <1>12, <1>13, <1>14, <1>16, <1>18, ClientMoves DEF s, t
<1> QED BY <1>9, <1>19 DEF d

LEMMA ClientEncode ==
  ASSUME StreamInv, NEW o \in Offer, NEW f, NEW g, Linked(o, f, g, server, read, write, client),
         NEW m \in Message, m.type /= "NewKeys"
  PROVE  LET s == f[Len(client.write.log)]
             w == encode(client.write, m)
         IN Holds("c2s", o, w.sealer, w.sequence_number, After(o, s, m))
<1> DEFINE s == f[Len(client.write.log)]
           w == encode(client.write, m)
           k == client.write.sealer
           q == client.write.sequence_number
<1>1. client.write \in WriteState BY LogTypes
<1>2. k \in KeyState /\ q \in SequenceNumber BY <1>1 DEF WriteState
<1>3. w.sealer = Used(k) /\ w.sequence_number = (q + 1) % SequenceModulus BY <1>1, EncodeFacts
<1>4. s \in Progress /\ Holds("c2s", o, k, q, s) BY LinkedFacts DEF ClientAt
<1>5. "c2s" \in Dirs BY DEF Dirs
<1> HIDE DEF s, k, q, w
<1>6. Holds("c2s", o, Used(k), (q + 1) % SequenceModulus, After(o, s, m)) BY <1>2, <1>4, <1>5, UseHolds
<1> QED BY <1>3, <1>6 DEF s, w

LEMMA ClientKexInitSync ==
  ASSUME StreamInv, ~Eager, NEW o \in Offer, NEW f, NEW g, Linked(o, f, g, server, read, write, client),
         ClientKexInit
  PROVE  \E h : Linked(o, h, g, server', read', write', client')
<1> DEFINE n == client.exchanges + 1
           m == KexInit(n, client.strict, client.ext_info)
           ex == <<"V_C", "V_S", m>>
           c == [client EXCEPT !.at = "kexinit", !.exchanges = n, !.exchange = ex]
           s == f[Len(client.write.log)]
           t == g[Len(client.read.log)]
           x == After(o, s, m)
           w == encode(client.write, m)
           p == Packet(m, client.write.sealer.key, client.write.sealer.counter, client.write.sequence_number)
<1>1. /\ client.at = "idle" /\ Transmit(w, c)
      /\ IF client.exchanges = 0 THEN Eager \/ client.heard ELSE client.asked
  BY DEF ClientKexInit
<1>2. client \in ClientState BY LogTypes
<1>3. n \in Nat /\ client.exchanges \in Nat /\ client.strict \in BOOLEAN /\ client.ext_info \in BOOLEAN
  BY <1>2 DEF ClientState
<1>4. m \in Message /\ m.type = "KexInit" BY <1>3, MsgType
<1>5. ex \in Exchange BY <1>4 DEF Exchange
<1>6. Puts(w, p) BY <1>4, PutsEncode
<1>7. s \in Progress /\ ClientAt(o, client, s, t) /\ Early(server, read, write, client) /\ t \in Progress BY LinkedFacts
<1>8. /\ Peer(o, client, s, t) /\ client.strict = o.strict /\ client.ext_info = o.ext_info
      /\ s.asked = client.asked
  BY <1>7 DEF ClientAt
<1>9. m.type /= "NewKeys" BY <1>4
<1>10. Holds("c2s", o, w.sealer, w.sequence_number, x) BY <1>4, <1>9, ClientEncode
<1>11. s.epoch = client.exchanges /\ s.phase = 0 /\ t.epoch = client.exchanges /\ t.phase = 0
  BY <1>1, <1>8 DEF Peer
<1>12. m = ClientInit(o, n) BY <1>8 DEF ClientInit
<1> HIDE DEF s, t, m, ex
<1>13. Fits("c2s", o, s, m)
  <2>1. m = KxMsg("c2s", o, s) BY <1>11, <1>12 DEF KxMsg
  <2>2. s.epoch = 0 \/ s.asked BY <1>1, <1>8, <1>11
  <2> QED BY <2>1, <2>2 DEF Fits
<1>14. "c2s" \in Dirs BY DEF Dirs
<1>15. x.epoch = s.epoch /\ x.phase = 1 BY <1>4, <1>7, <1>13, <1>14, AfterFacts
<1>16. x.asked = s.asked
  <2>1. m.type /= "Auth" BY <1>4
  <2>2. s \in Progress BY <1>7
  <2> QED BY <2>1, <2>2, AskedFacts
<1> HIDE DEF x, w, p, n
<1>17. /\ c \in ClientState /\ c.read = client.read /\ c.ok = client.ok /\ c.at = "kexinit"
       /\ c.exchanges = n /\ c.exchange = ex /\ c.session_id = client.session_id
       /\ c.strict = client.strict /\ c.ext_info = client.ext_info /\ c.heard = client.heard
       /\ c.asked = client.asked
  BY <1>2, <1>3, <1>5 DEF ClientState
<1> HIDE DEF c
<1>18. Peer(o, c, x, t)
  <2>1. Tick(t) >= 2 => c.session_id = Covered(o, 1) BY <1>8, <1>17 DEF Peer
  <2>2. c.exchange = <<"V_C", "V_S", ClientInit(o, c.exchanges)>> BY <1>12, <1>17 DEF ex
  <2>3. x.epoch + 1 = c.exchanges /\ t.epoch + 1 = c.exchanges BY <1>11, <1>15, <1>17 DEF n
  <2> QED BY <1>11, <1>15, <1>17, <2>1, <2>2, <2>3 DEF Peer
<1>19. client.heard BY <1>1, <1>2, <1>7 DEF Early, ClientState
<1>20. c.exchanges /= 0 BY <1>3, <1>17 DEF n
<1>21. c.asked = x.asked BY <1>8, <1>16, <1>17
<1>22. /\ Holds("c2s", o, w.sealer, w.sequence_number, After(o, s, m))
       /\ Peer(o, c, After(o, s, m), g[Len(client.read.log)]) /\ c.asked = After(o, s, m).asked
       /\ s = f[Len(client.write.log)]
       /\ p = Packet(m, client.write.sealer.key, client.write.sealer.counter, client.write.sequence_number)
  BY <1>10, <1>18, <1>21 DEF x, t, s, p
<1>23. c.at /= "new" /\ client.at /= "new" /\ c.heard BY <1>1, <1>17, <1>19
<1> QED BY <1>1, <1>4, <1>6, <1>13, <1>17, <1>20, <1>22, <1>23, ClientSendsFit

LEMMA ClientEcdhInitSync ==
  ASSUME StreamInv, NEW o \in Offer, NEW f, NEW g, Linked(o, f, g, server, read, write, client),
         ClientEcdhInit
  PROVE  \E h : Linked(o, h, g, server', read', write', client')
<1> DEFINE m == Fresh("EcdhInit", client.exchanges)
           c == [client EXCEPT !.at = "ecdh"]
           s == f[Len(client.write.log)]
           t == g[Len(client.read.log)]
           x == After(o, s, m)
           w == encode(client.write, m)
           p == Packet(m, client.write.sealer.key, client.write.sealer.counter, client.write.sequence_number)
<1>1. client.at = "answered" /\ Transmit(w, c) BY DEF ClientEcdhInit
<1>2. client \in ClientState BY LogTypes
<1>3. client.exchanges \in Nat BY <1>2 DEF ClientState
<1>4. m \in Message /\ m.type = "EcdhInit" BY <1>3, MsgType
<1>6. Puts(w, p) BY <1>4, PutsEncode
<1>7. s \in Progress /\ ClientAt(o, client, s, t) /\ Early(server, read, write, client) BY LinkedFacts
<1>8. Peer(o, client, s, t) /\ s.asked = client.asked BY <1>7 DEF ClientAt
<1>9. m.type /= "NewKeys" BY <1>4
<1>10. Holds("c2s", o, w.sealer, w.sequence_number, x) BY <1>4, <1>9, ClientEncode
<1>11. /\ client.exchange = Halfway(o, client.exchanges)
       /\ s.epoch + 1 = client.exchanges /\ s.phase = 1 /\ t.epoch + 1 = client.exchanges /\ t.phase = 1
  BY <1>1, <1>8 DEF Peer
<1> HIDE DEF s, t
<1>13. Fits("c2s", o, s, m)
  <2>1. m = KxMsg("c2s", o, s) BY <1>11 DEF KxMsg
  <2> QED BY <1>11, <2>1 DEF Fits
<1>14. "c2s" \in Dirs BY DEF Dirs
<1> HIDE DEF m
<1>15. x.epoch = s.epoch /\ x.phase = 2 BY <1>4, <1>7, <1>13, <1>14, AfterFacts
<1>16. x.asked = s.asked
  <2>1. m.type /= "Auth" BY <1>4
  <2>2. s \in Progress BY <1>7
  <2> QED BY <2>1, <2>2, AskedFacts
<1> HIDE DEF x, w, p
<1>17. /\ c \in ClientState /\ c.read = client.read /\ c.ok = client.ok /\ c.at = "ecdh"
       /\ c.exchanges = client.exchanges /\ c.exchange = client.exchange /\ c.session_id = client.session_id
       /\ c.strict = client.strict /\ c.ext_info = client.ext_info /\ c.heard = client.heard
       /\ c.asked = client.asked
  BY <1>2 DEF ClientState
<1> HIDE DEF c
<1>18. Peer(o, c, x, t)
  <2>1. Tick(t) >= 2 => c.session_id = Covered(o, 1) BY <1>8, <1>17 DEF Peer
  <2>2. x.epoch + 1 = c.exchanges /\ t.epoch + 1 = c.exchanges BY <1>11, <1>15, <1>17
  <2> QED BY <1>11, <1>15, <1>17, <2>1, <2>2 DEF Peer
<1>20. c.exchanges /= 0
  <2>1. s.epoch \in Nat BY <1>7, TickFacts
  <2> QED BY <1>11, <1>17, <2>1
<1>19. client.heard BY <1>2, <1>7, <1>17, <1>20 DEF Early, ClientState
<1>21. c.asked = x.asked BY <1>8, <1>16, <1>17
<1>22. /\ Holds("c2s", o, w.sealer, w.sequence_number, After(o, s, m))
       /\ Peer(o, c, After(o, s, m), g[Len(client.read.log)]) /\ c.asked = After(o, s, m).asked
       /\ s = f[Len(client.write.log)]
       /\ p = Packet(m, client.write.sealer.key, client.write.sealer.counter, client.write.sequence_number)
  BY <1>10, <1>18, <1>21 DEF x, t, s, p
<1>23. c.at /= "new" /\ client.at /= "new" /\ c.heard BY <1>1, <1>17, <1>19
<1> QED BY <1>1, <1>4, <1>6, <1>13, <1>17, <1>20, <1>22, <1>23, ClientSendsFit

LEMMA ClientNewKeysSync ==
  ASSUME StreamInv, NEW o \in Offer, NEW f, NEW g, Linked(o, f, g, server, read, write, client),
         ClientNewKeys
  PROVE  \E h : Linked(o, h, g, server', read', write', client')
<1> DEFINE m == Msg("NewKeys")
           c == [client EXCEPT !.at = "newkeys"]
           s == f[Len(client.write.log)]
           t == g[Len(client.read.log)]
           x == After(o, s, m)
           u == encode(client.write, m)
           k == [key |-> Key("c2s", client.exchange, client.session_id), counter |-> 0]
           w == [u EXCEPT !.sequence_number = IF client.strict THEN 0 ELSE @, !.sealer = k]
           p == Packet(m, client.write.sealer.key, client.write.sealer.counter, client.write.sequence_number)
<1>1. client.at = "reply" /\ Transmit(w, c) BY DEF ClientNewKeys
<1>2. client \in ClientState /\ client.write \in WriteState BY LogTypes
<1>3. client.exchanges \in Nat BY <1>2 DEF ClientState
<1>4. m \in Message /\ m.type = "NewKeys" BY MsgType DEF MessageTypes
<1>5. k \in KeyState /\ 0 \in SequenceNumber
  BY <1>2, PacketIOAssumption DEF KeyState, Keys, Key, ClientState, SequenceNumber
<1>6. Puts(u, p) BY <1>4, PutsEncode
<1>7. s \in Progress /\ t \in Progress /\ ClientAt(o, client, s, t) /\ Early(server, read, write, client) BY LinkedFacts
<1>8. /\ Peer(o, client, s, t) /\ s.asked = client.asked /\ client.strict = o.strict
      /\ client.write.sequence_number = s.seq
  BY <1>7 DEF ClientAt, Holds
<1>9. u.sequence_number = (s.seq + 1) % SequenceModulus /\ u \in WriteState BY <1>2, <1>4, <1>8, EncodeFacts
<1>11. /\ client.exchange = Covered(o, client.exchanges)
       /\ s.epoch + 1 = client.exchanges /\ s.phase = 2 /\ t.epoch + 1 = client.exchanges /\ t.phase = 2
  BY <1>1, <1>8 DEF Peer
<1> HIDE DEF s, t
<1>12. client.session_id = Covered(o, 1)
  <2>1. t.epoch \in Nat BY <1>7, TickFacts
  <2>2. Tick(t) >= 2 BY <1>11, <2>1 DEF Tick
  <2> QED BY <1>8, <2>2 DEF Peer
<1>13. Fits("c2s", o, s, m)
  <2>1. m = KxMsg("c2s", o, s) BY <1>11 DEF KxMsg
  <2> QED BY <1>11, <2>1 DEF Fits
<1>14. "c2s" \in Dirs BY DEF Dirs
<1> HIDE DEF m, u, p
<1>15. x.epoch = s.epoch + 1 /\ x.phase = 0 BY <1>4, <1>7, <1>13, <1>14, AfterFacts
<1>16. x.asked = s.asked
  <2>1. m.type /= "Auth" BY <1>4
  <2>2. s \in Progress BY <1>7
  <2> QED BY <2>1, <2>2, AskedFacts
<1>10. w.sealer = k /\ w.sequence_number = (IF client.strict THEN 0 ELSE u.sequence_number)
       /\ w.buf = u.buf /\ w.log = u.log /\ w.written = u.written /\ w \in WriteState
  <2> HIDE DEF k
  <2> QED BY <1>5, <1>9 DEF WriteState
<1>24. Puts(w, p) BY <1>6, <1>10 DEF Puts
<1>25. Holds("c2s", o, w.sealer, w.sequence_number, x)
  <2> DEFINE kk == w.sealer
             sq == w.sequence_number
             ee == client.exchange
             ii == client.session_id
  <2>1. /\ kk = [key |-> Key("c2s", ee, ii), counter |-> 0]
        /\ sq = IF o.strict THEN 0 ELSE (s.seq + 1) % SequenceModulus
        /\ ee = Covered(o, s.epoch + 1) /\ ii = Covered(o, 1)
    BY <1>8, <1>9, <1>10, <1>11, <1>12
  <2> HIDE DEF kk, sq, ee, ii, x
  <2>2. Holds("c2s", o, kk, sq, After(o, s, m)) BY <1>4, <1>7, <1>14, <2>1, NewKeysHolds
  <2> QED BY <2>2 DEF kk, sq, x
<1> HIDE DEF x, w
<1>17. /\ c \in ClientState /\ c.read = client.read /\ c.ok = client.ok /\ c.at = "newkeys"
       /\ c.exchanges = client.exchanges /\ c.exchange = client.exchange /\ c.session_id = client.session_id
       /\ c.strict = client.strict /\ c.ext_info = client.ext_info /\ c.heard = client.heard
       /\ c.asked = client.asked
  BY <1>2 DEF ClientState
<1> HIDE DEF c
<1>18. Peer(o, c, x, t)
  <2>1. Tick(t) >= 2 => c.session_id = Covered(o, 1) BY <1>12, <1>17
  <2>2. x.epoch = c.exchanges /\ t.epoch + 1 = c.exchanges BY <1>11, <1>15, <1>17
  <2> QED BY <1>11, <1>15, <1>17, <2>1, <2>2 DEF Peer
<1>20. c.exchanges /= 0
  <2>1. s.epoch \in Nat BY <1>7, TickFacts
  <2> QED BY <1>11, <1>17, <2>1
<1>19. client.heard BY <1>2, <1>7, <1>17, <1>20 DEF Early, ClientState
<1>21. c.asked = x.asked BY <1>8, <1>16, <1>17
<1>22. /\ Holds("c2s", o, w.sealer, w.sequence_number, After(o, s, m))
       /\ Peer(o, c, After(o, s, m), g[Len(client.read.log)]) /\ c.asked = After(o, s, m).asked
       /\ s = f[Len(client.write.log)]
       /\ p = Packet(m, client.write.sealer.key, client.write.sealer.counter, client.write.sequence_number)
  BY <1>25, <1>18, <1>21 DEF x, t, s, p
<1>23. c.at /= "new" /\ client.at /= "new" /\ c.heard BY <1>1, <1>17, <1>19
<1> QED BY <1>1, <1>4, <1>24, <1>13, <1>17, <1>20, <1>22, <1>23, ClientSendsFit

LEMMA ClientRequestsSync ==
  ASSUME StreamInv, NEW o \in Offer, NEW f, NEW g, Linked(o, f, g, server, read, write, client),
         ClientRequests
  PROVE  \E h : Linked(o, h, g, server', read', write', client')
<1>2. client \in ClientState BY LogTypes
<1>3. client.exchanges \in Nat /\ client.messages \in Nat /\ client.asked \in BOOLEAN BY <1>2 DEF ClientState
<1> DEFINE Asks(ty, a, n) ==
             /\ client.at \in {"idle", "newkeys"} /\ client.exchanges > 0
             /\ Transmit(encode(client.write, Msg(ty)), [client EXCEPT !.messages = n, !.asked = a])
             /\ ty = "Data" => client.asked
             /\ ty \in {"Try", "Auth"} => ~client.asked
             /\ ty = "Auth" => a = TRUE
             /\ ty /= "Auth" => a = client.asked
           Says(t) == Transmit(encode(client.write, Msg(t)), [client EXCEPT !.messages = @ + 1])
           Begs == Transmit(encode(client.write, Msg("Auth")), [client EXCEPT !.asked = TRUE])
<1>30. client.at \in {"idle", "newkeys"} /\ client.exchanges > 0 BY DEF ClientRequests
<1>31. \/ Says(IF client.asked THEN "Data" ELSE "Try")
       \/ ~client.asked /\ Begs
  BY DEF ClientRequests
<1>1. PICK ty \in {"Data", "Try", "Auth"}, a \in BOOLEAN, n \in Nat : Asks(ty, a, n)
  <2>1. ASSUME NEW t, t = (IF client.asked THEN "Data" ELSE "Try"), Says(t)
        PROVE  Asks(t, client.asked, client.messages + 1) /\ t \in {"Data", "Try", "Auth"}
    <3>1. [client EXCEPT !.messages = @ + 1] = [client EXCEPT !.messages = client.messages + 1, !.asked = client.asked]
      BY <1>2 DEF ClientState
    <3>2. Transmit(encode(client.write, Msg(t)),
                   [client EXCEPT !.messages = client.messages + 1, !.asked = client.asked])
      BY <2>1, <3>1
    <3>3. t \in {"Data", "Try"} /\ (t = "Data" => client.asked) /\ (t = "Try" => ~client.asked)
      BY <2>1
    <3> QED BY <1>30, <3>2, <3>3
  <2>2. ASSUME ~client.asked, Begs PROVE Asks("Auth", TRUE, client.messages)
    <3>1. [client EXCEPT !.asked = TRUE] = [client EXCEPT !.messages = client.messages, !.asked = TRUE]
      BY <1>2 DEF ClientState
    <3>2. Transmit(encode(client.write, Msg("Auth")), [client EXCEPT !.messages = client.messages, !.asked = TRUE])
      BY <2>2, <3>1
    <3> QED BY <1>30, <2>2, <3>2
  <2>3. client.messages + 1 \in Nat /\ client.messages \in Nat /\ client.asked \in BOOLEAN BY <1>3
  <2> HIDE DEF Asks, Says, Begs
  <2> QED BY <1>31, <2>1, <2>2, <2>3
<1> DEFINE m == Msg(ty)
           c == [client EXCEPT !.messages = n, !.asked = a]
           s == f[Len(client.write.log)]
           t == g[Len(client.read.log)]
           x == After(o, s, m)
           w == encode(client.write, m)
           p == Packet(m, client.write.sealer.key, client.write.sealer.counter, client.write.sequence_number)
<1>4. m \in Message /\ m.type = ty BY MsgType DEF MessageTypes
<1>5. Transmit(w, c) BY <1>1
<1>6. Puts(w, p) BY <1>4, PutsEncode
<1>7. s \in Progress /\ ClientAt(o, client, s, t) /\ Early(server, read, write, client) BY LinkedFacts
<1>8. Peer(o, client, s, t) /\ s.asked = client.asked BY <1>7 DEF ClientAt
<1>9. m.type /= "NewKeys" /\ m.type \notin KxTypes \union {"Ident"} BY <1>4 DEF KxTypes
<1>10. Holds("c2s", o, w.sealer, w.sequence_number, x) BY <1>4, <1>9, ClientEncode
<1>11. s.epoch = client.exchanges /\ s.phase = 0 BY <1>1, <1>8 DEF Peer
<1> HIDE DEF s, t, m
<1>13. Fits("c2s", o, s, m)
  <2>1. s.epoch >= 1 BY <1>1, <1>3, <1>11
  <2>2. m.type \in IF s.asked THEN {"Data"} ELSE {"Try", "Auth"} BY <1>1, <1>4, <1>8
  <2> QED BY <1>9, <1>11, <2>1, <2>2 DEF Fits
<1>14. "c2s" \in Dirs BY DEF Dirs
<1>15. x.epoch = s.epoch /\ x.phase = s.phase BY <1>4, <1>7, <1>9, <1>13, <1>14, AfterFacts
<1>16. x.asked = a
  <2>1. s \in Progress BY <1>7
  <2>2. CASE ty = "Auth"
    <3>1. After(o, s, m).asked = TRUE BY <1>4, <2>1, <2>2, AskedFacts
    <3> QED BY <1>1, <2>2, <3>1
  <2>3. CASE ty /= "Auth"
    <3>1. After(o, s, m).asked = s.asked BY <1>4, <2>1, <2>3, AskedFacts
    <3> QED BY <1>1, <1>8, <2>3, <3>1
  <2> QED BY <2>2, <2>3
<1> HIDE DEF x, w, p
<1>17. /\ c \in ClientState /\ c.read = client.read /\ c.ok = client.ok /\ c.at = client.at
       /\ c.exchanges = client.exchanges /\ c.exchange = client.exchange /\ c.session_id = client.session_id
       /\ c.strict = client.strict /\ c.ext_info = client.ext_info /\ c.heard = client.heard
       /\ c.asked = a
  BY <1>2 DEF ClientState
<1> HIDE DEF c
<1>18. Peer(o, c, x, t) BY <1>8, <1>15, <1>17 DEF Peer
<1>20. c.exchanges /= 0 BY <1>1, <1>3, <1>17
<1>19. client.heard BY <1>2, <1>7, <1>17, <1>20 DEF Early, ClientState
<1>21. c.asked = x.asked BY <1>16, <1>17
<1>22. /\ Holds("c2s", o, w.sealer, w.sequence_number, After(o, s, m))
       /\ Peer(o, c, After(o, s, m), g[Len(client.read.log)]) /\ c.asked = After(o, s, m).asked
       /\ s = f[Len(client.write.log)]
       /\ p = Packet(m, client.write.sealer.key, client.write.sealer.counter, client.write.sequence_number)
  BY <1>10, <1>18, <1>21 DEF x, t, s, p
<1>23. c.at /= "new" /\ client.at /= "new" /\ c.heard BY <1>1, <1>17, <1>19
<1> QED BY <1>4, <1>5, <1>6, <1>13, <1>17, <1>20, <1>22, <1>23, ClientSendsFit

\* An IGNORE that is not in the clear.
LEMMA ClientIgnoresSync ==
  ASSUME StreamInv, NEW o \in Offer, NEW f, NEW g, Linked(o, f, g, server, read, write, client),
         ClientIgnores, client.write.sealer.key /= NoKey
  PROVE  \E h : Linked(o, h, g, server', read', write', client')
<1> DEFINE m == Msg("Ignore")
           c == [client EXCEPT !.messages = @ + 1]
           s == f[Len(client.write.log)]
           t == g[Len(client.read.log)]
           x == After(o, s, m)
           w == encode(client.write, m)
           p == Packet(m, client.write.sealer.key, client.write.sealer.counter, client.write.sequence_number)
<1>1. client.at /= "new" /\ client.heard /\ Transmit(w, c) BY DEF ClientIgnores
<1>2. client \in ClientState BY LogTypes
<1>3. client.exchanges \in Nat BY <1>2 DEF ClientState
<1>4. m \in Message /\ m.type = "Ignore" BY MsgType DEF MessageTypes
<1>5. m.type /= "NewKeys" /\ m.type /= "Auth" /\ m.type \notin KxTypes \union {"Ident"} BY <1>4 DEF KxTypes
<1>6. Puts(w, p) BY <1>4, PutsEncode
<1>7. s \in Progress /\ ClientAt(o, client, s, t) BY LinkedFacts
<1>8. /\ Peer(o, client, s, t) /\ s.asked = client.asked
      /\ client.write.sealer.key = EpochKey("c2s", o, s.epoch)
  BY <1>7 DEF ClientAt, Holds
<1>9. "c2s" \in Dirs /\ s.epoch \in Nat BY <1>7, TickFacts DEF Dirs
<1>10. s.epoch >= 1
  <2>1. s.epoch /= 0 BY <1>8, <1>9, EpochKeyFacts
  <2> QED BY <1>9, <2>1
<1>11. Holds("c2s", o, w.sealer, w.sequence_number, x) BY <1>4, <1>5, ClientEncode
<1> HIDE DEF s, t, m
<1>12. Fits("c2s", o, s, m) BY <1>4, <1>5, <1>10 DEF Fits
<1>13. x.epoch = s.epoch /\ x.phase = s.phase BY <1>4, <1>5, <1>7, <1>9, <1>12, AfterFacts
<1>14. x.asked = s.asked BY <1>5, <1>7, AskedFacts
<1>15. Tick(x) = Tick(s) BY <1>13 DEF Tick
<1> HIDE DEF x, w, p
<1>16. /\ c \in ClientState /\ c.read = client.read /\ c.ok = client.ok /\ c.at = client.at
       /\ c.exchanges = client.exchanges /\ c.exchange = client.exchange /\ c.session_id = client.session_id
       /\ c.strict = client.strict /\ c.ext_info = client.ext_info /\ c.heard = client.heard
       /\ c.asked = client.asked
  BY <1>2 DEF ClientState
<1> HIDE DEF c
<1>17. Peer(o, c, x, t) BY <1>8, <1>13, <1>16 DEF Peer
<1>18. client.exchanges /= 0
  <2>1. s.epoch = client.exchanges \/ s.epoch + 1 = client.exchanges BY <1>8 DEF Peer
  <2> QED BY <1>3, <1>9, <1>10, <2>1
<1>19. /\ Holds("c2s", o, w.sealer, w.sequence_number, After(o, s, m))
       /\ Peer(o, c, After(o, s, m), g[Len(client.read.log)]) /\ c.asked = After(o, s, m).asked
       /\ s = f[Len(client.write.log)]
       /\ p = Packet(m, client.write.sealer.key, client.write.sealer.counter, client.write.sequence_number)
  BY <1>8, <1>11, <1>14, <1>16, <1>17 DEF x, t, s, p
<1>20. c.at /= "new" /\ client.at /= "new" /\ c.heard /\ c.exchanges /= 0 BY <1>1, <1>16, <1>18
<1> QED BY <1>1, <1>4, <1>6, <1>12, <1>16, <1>19, <1>20, ClientSendsFit

\* The client takes a packet.
LEMMA ClientTakes ==
  ASSUME StreamInv, NEW o \in Offer, NEW f, NEW g, Linked(o, f, g, server, read, write, client),
         NEW c, c.write = client.write, NEW p, c.read.log = Append(client.read.log, p), p \in WirePacket,
         NEW n, n = Len(client.read.log), n + 1 \in 1..Len(write.log),
         ClientAt(o, c, f[Len(client.write.log)], g[n + 1]),
         c.heard \in BOOLEAN, client.heard \in BOOLEAN, client.heard => c.heard, c.exchanges = client.exchanges
  PROVE  Linked(o, f, g, server, read, write, c)
<1>1. client.read.log \in Seq(WirePacket) /\ write.log \in Seq(WirePacket) BY LogTypes
<1>2. Len(c.read.log) = n + 1 /\ c.read.log /= <<>> BY <1>1
<1>3. n + 1 <= Len(write.log) BY <1>1
<1>4. Early(server, read, write, client) BY DEF Linked
<1>5. Early(server, read, write, c) BY <1>2, <1>4 DEF Early
<1> QED BY <1>2, <1>3, <1>5 DEF Linked

\* What the client reads next, and where that leads.
ReadsNext(o, f, g, p, n, s, next) ==
  /\ n + 1 \in 1..Len(write.log) /\ p \in WirePacket /\ p.msg \in Message
  /\ g[n] \in Progress /\ g[n + 1] \in Progress /\ s \in Progress
  /\ Moves("s2c", o, g[n], p, g[n + 1]) /\ Tick(g[n + 1]) <= Tick(s)
  /\ ClientAt(o, client, s, g[n])
  /\ next \in ReadState /\ next.log = Append(client.read.log, p)
  /\ next.opener = Used(client.read.opener)
  /\ next.sequence_number = (client.read.sequence_number + 1) % SequenceModulus
  /\ p.msg.type /= "Ident" =>
       /\ client' = Understood(p.msg, next)
       /\ Fits("s2c", o, g[n], p.msg) /\ g[n + 1] = After(o, g[n], p.msg)
  /\ p.msg.type = "Ident" => client' = Understood(p.msg, [client.read EXCEPT !.log = Append(@, p)])
  /\ server' = server /\ read' = read /\ write' = write

LEMMA ClientReads ==
  ASSUME StreamInv, NEW o \in Offer, NEW f, NEW g, Linked(o, f, g, server, read, write, client), ClientReceives,
         NEW p, p = s2c[1].packet,
         NEW n, n = Len(client.read.log), NEW s, s = f[Len(client.write.log)],
         NEW next, next = [poll_packet([client.read EXCEPT !.buf = s2c]) EXCEPT !.buf = <<>>, !.last_length = 0]
  PROVE  ReadsNext(o, f, g, p, n, s, next)
<1> DEFINE lg == write.log
           r == [client.read EXCEPT !.buf = s2c]
           k == r.opener
<1>1. /\ n + 1 \in 1..Len(lg) /\ p = lg[n + 1] /\ p \in WirePacket /\ p.msg \in Message
      /\ r \in ReadState /\ r.buf = s2c /\ r.log = client.read.log
      /\ r.opener = client.read.opener /\ r.sequence_number = client.read.sequence_number
      /\ SubSeq(r.buf, 1, Len(Cells(p))) = Cells(p)
  BY GiveFacts
<1>2. /\ client' = IF p.msg.type = "Ident" THEN Understood(p.msg, [client.read EXCEPT !.log = Append(@, p)])
                   ELSE IF Opens(r) THEN Understood(p.msg, next)
                   ELSE [client EXCEPT !.ok = FALSE]
      /\ server' = server /\ read' = read /\ write' = write
  BY DEF ClientReceives
<1>3. lg \in Seq(WirePacket) /\ client.read.log \in Seq(WirePacket) BY LogTypes
<1>4. /\ s \in Progress /\ ClientAt(o, client, s, g[n]) /\ g[n] \in Progress
      /\ Tick(g[Len(lg)]) <= Tick(s)
  <2>1. /\ s \in Progress /\ ClientAt(o, client, s, g[n]) /\ g[n] \in Progress
        /\ f[Len(read.log)] \in Progress /\ g[Len(lg)] \in Progress
        /\ Tick(f[Len(read.log)]) <= Tick(s) /\ Tick(f[Len(read.log)]) = Tick(g[Len(lg)])
    BY LinkedFacts
  <2> QED BY <2>1
<1>5. Course("s2c", o, lg, g) BY DEF Linked
<1>20. next = [poll_packet(r) EXCEPT !.buf = <<>>, !.last_length = 0] OBVIOUS
<1> HIDE DEF lg, r
<1>6. n \in Nat /\ n + 1 \in 0..Len(lg) /\ Len(lg) \in 0..Len(lg) /\ n + 1 <= Len(lg) /\ (n + 1) - 1 = n
  BY <1>1, <1>3
<1>7. /\ g[n + 1] \in Progress /\ g[Len(lg)] \in Progress /\ Tick(g[n + 1]) <= Tick(g[Len(lg)])
  BY <1>3, <1>5, <1>6, CourseFacts
<1>8. Moves("s2c", o, g[(n + 1) - 1], lg[n + 1], g[n + 1]) BY <1>1, <1>3, <1>5, CourseFacts
<1>9. Moves("s2c", o, g[n], p, g[n + 1]) BY <1>1, <1>6, <1>8
<1>10. Tick(g[n + 1]) <= Tick(s)
  <2>1. Tick(g[n + 1]) \in Nat /\ Tick(g[Len(lg)]) \in Nat /\ Tick(s) \in Nat BY <1>4, <1>7, TickFacts
  <2> QED BY <1>4, <1>7, <2>1
<1>11. p.msg.type /= "Ident" => Fits("s2c", o, g[n], p.msg) /\ g[n + 1] = After(o, g[n], p.msg)
  BY <1>9 DEF Moves
<1>12. p.msg.type /= "Ident" => Opens(r)
  <2>1. Holds("s2c", o, r.opener, r.sequence_number, g[n]) BY <1>1, <1>4 DEF ClientAt
  <2>2. r.buf[1].packet = p BY <1>1
  <2> QED BY <1>1, <1>9, <2>1, <2>2 DEF Opens, Moves, Holds
<1>13. /\ next \in ReadState /\ next.log = Append(client.read.log, p) /\ next.opener = Used(r.opener)
       /\ next.sequence_number = (r.sequence_number + 1) % SequenceModulus
  <2> DEFINE q == poll_packet(r)
             z == Len(Cells(p))
  <2>1. k \in KeyState /\ r.sequence_number \in SequenceNumber /\ r.buf \in Seq(Cell) BY <1>1 DEF ReadState
  <2>2. r.buf[1].packet = p BY <1>1
  <2>3. z \in Nat BY <1>1, CellsFacts
  <2>4. (r.sequence_number + 1) % SequenceModulus \in SequenceNumber
    <3> DEFINE j == r.sequence_number
    <3>1. j \in SequenceNumber BY <2>1
    <3> HIDE DEF j
    <3>2. (j + 1) % SequenceModulus \in SequenceNumber BY <3>1, PacketIOAssumption DEF SequenceNumber
    <3> QED BY <3>2 DEF j
  <2>5. q = [r EXCEPT !.last_length = z, !.log = Append(@, p), !.opener = Used(@),
                      !.sequence_number = (@ + 1) % SequenceModulus]
    BY <2>2 DEF poll_packet
  <2>6. Used(k) \in KeyState
    <3> HIDE DEF k
    <3> QED BY <2>1 DEF Used, KeyState
  <2>7. Append(client.read.log, p) \in Seq(WirePacket) BY <1>1, <1>3
  <2> HIDE DEF q, z
  <2>8. /\ q \in ReadState /\ q.log = Append(client.read.log, p) /\ q.opener = Used(r.opener)
        /\ q.sequence_number = (r.sequence_number + 1) % SequenceModulus
    BY <1>1, <2>3, <2>4, <2>5, <2>6, <2>7 DEF ReadState
  <2>9. <<>> \in Seq(Cell) OBVIOUS
  <2>10. next = [q EXCEPT !.buf = <<>>, !.last_length = 0] BY <1>20 DEF q
  <2>11. /\ next.log = q.log /\ next.opener = q.opener /\ next.sequence_number = q.sequence_number
    BY <2>8, <2>10 DEF ReadState
  <2>12. next \in ReadState
    <3>1. q \in ReadState /\ 0 \in Nat BY <2>8
    <3> QED BY <2>9, <2>10, <3>1 DEF ReadState
  <2> QED BY <2>8, <2>11, <2>12
<1> HIDE DEF k
<1>14. p.msg.type /= "Ident" => client' = Understood(p.msg, next) BY <1>2, <1>12
<1>15. p.msg.type = "Ident" => client' = Understood(p.msg, [client.read EXCEPT !.log = Append(@, p)])
  BY <1>2
<1>16. server' = server /\ read' = read /\ write' = write BY <1>2
<1>17. /\ next.opener = Used(client.read.opener)
       /\ next.sequence_number = (client.read.sequence_number + 1) % SequenceModulus
  BY <1>1, <1>13
<1>18. n + 1 \in 1..Len(write.log) BY <1>1 DEF lg
<1>19. p \in WirePacket /\ p.msg \in Message BY <1>1
<1> QED BY <1>4, <1>7, <1>9, <1>10, <1>11, <1>13, <1>14, <1>15, <1>16, <1>17, <1>18, <1>19 DEF ReadsNext

\* What the client keeps of a packet.
Kept(m, r, u) ==
  /\ u.ext_info = client.ext_info /\ u.asked = client.asked /\ u.exchanges = client.exchanges
  /\ u.heard = (client.heard \/ m.type = "Ident")
  /\ m.type /= "NewKeys" => u.read = r
  /\ m.type \notin {"KexInit", "EcdhReply", "NewKeys"} =>
       u.at = client.at /\ u.ok = client.ok /\ u.exchange = client.exchange
  /\ m.type /= "EcdhReply" => u.session_id = client.session_id
  /\ m.type = "KexInit" =>
       /\ u.at = "answered" /\ u.ok = (client.at = "kexinit")
       /\ u.exchange = Append(client.exchange, m)
  /\ m.type = "EcdhReply" =>
       LET e == client.exchange \o <<"K_S", Fresh("EcdhInit", client.exchanges), m>>
       IN /\ u.at = "reply" /\ u.ok = (client.at = "ecdh") /\ u.exchange = e
          /\ u.session_id = IF client.exchanges = 1 THEN e ELSE client.session_id
  /\ m.type = "NewKeys" =>
       /\ u.at = "idle" /\ u.ok = (client.at = "newkeys") /\ u.exchange = client.exchange
       /\ u.read.opener = [key |-> Key("s2c", client.exchange, client.session_id), counter |-> 0]
       /\ u.read.sequence_number = IF client.strict THEN 0 ELSE r.sequence_number

LEMMA Keeps ==
  ASSUME client \in ClientState, NEW m \in Message, NEW r \in ReadState, NEW u, u = Understood(m, r)
  PROVE  Kept(m, r, u)
<1> DEFINE c == [client EXCEPT !.read = r]
           e == client.exchange \o <<"K_S", Fresh("EcdhInit", client.exchanges), m>>
<1>0. client.heard \in BOOLEAN BY DEF ClientState
<1>1. CASE m.type = "Ident"
  <2>1. u = [c EXCEPT !.heard = TRUE] BY <1>1 DEF Understood
  <2> QED BY <1>0, <1>1, <2>1 DEF ClientState, Kept
<1>2. CASE m.type = "KexInit"
  <2>1. u = [c EXCEPT !.at = "answered", !.exchange = Append(@, m), !.ok = client.at = "kexinit"]
    BY <1>2 DEF Understood
  <2> QED BY <1>0, <1>2, <2>1 DEF ClientState, Kept
<1>3. CASE m.type = "EcdhReply"
  <2>1. u = [c EXCEPT !.at = "reply", !.exchange = e, !.ok = client.at = "ecdh",
                      !.session_id = IF client.exchanges = 1 THEN e ELSE @]
    BY <1>3 DEF Understood
  <2> HIDE DEF e
  <2>2. /\ u.ext_info = client.ext_info /\ u.asked = client.asked /\ u.exchanges = client.exchanges
        /\ u.heard = client.heard /\ u.read = r
        /\ u.at = "reply" /\ u.ok = (client.at = "ecdh") /\ u.exchange = e
        /\ u.session_id = IF client.exchanges = 1 THEN e ELSE client.session_id
    BY <2>1 DEF ClientState
  <2> QED BY <1>0, <1>3, <2>2 DEF e, Kept
<1>4. CASE m.type = "NewKeys"
  <2>1. u = [c EXCEPT !.at = "idle", !.ok = client.at = "newkeys",
                      !.read.sequence_number = IF client.strict THEN 0 ELSE @,
                      !.read.opener = [key |-> Key("s2c", client.exchange, client.session_id), counter |-> 0]]
    BY <1>4 DEF Understood
  <2> DEFINE k == [key |-> Key("s2c", client.exchange, client.session_id), counter |-> 0]
             j == IF client.strict THEN 0 ELSE r.sequence_number
             x == [r EXCEPT !.sequence_number = j, !.opener = k]
  <2>2. u = [client EXCEPT !.at = "idle", !.ok = client.at = "newkeys", !.read = x]
    BY <2>1 DEF ClientState
  <2>3. x.opener = k /\ x.sequence_number = j BY DEF ReadState
  <2> HIDE DEF x, k, j
  <2>4. /\ u.ext_info = client.ext_info /\ u.asked = client.asked /\ u.exchanges = client.exchanges
        /\ u.heard = client.heard /\ u.read = x /\ u.at = "idle" /\ u.ok = (client.at = "newkeys")
        /\ u.exchange = client.exchange /\ u.session_id = client.session_id
    BY <2>2 DEF ClientState
  <2> QED BY <1>0, <1>4, <2>3, <2>4 DEF k, j, Kept
<1>5. CASE m.type \notin {"Ident", "KexInit", "EcdhReply", "NewKeys"}
  <2>1. u = c BY <1>5 DEF Understood
  <2> QED BY <1>0, <1>5, <2>1 DEF ClientState, Kept
<1> QED BY <1>1, <1>2, <1>3, <1>4, <1>5

\* The client, after a message of an exchange or another, is where it should be.
LEMMA ClientHears ==
  ASSUME client \in ClientState, NEW o \in Offer, NEW s \in Progress, NEW t \in Progress, NEW m \in Message,
         ClientAt(o, client, s, t), Fits("s2c", o, t, m), NEW z, z = After(o, t, m), Tick(z) <= Tick(s),
         NEW r \in ReadState, r.opener = Used(client.read.opener),
         r.sequence_number = (client.read.sequence_number + 1) % SequenceModulus,
         NEW u, u = Understood(m, r)
  PROVE  u.ok /\ Holds("s2c", o, u.read.opener, u.read.sequence_number, z) /\ Peer(o, u, s, z)
<1>0. Kept(m, r, u) BY Keeps
<1>1. /\ u.exchanges = client.exchanges
      /\ m.type /= "NewKeys" => u.read = r
      /\ m.type \notin {"Ident", "KexInit", "EcdhReply", "NewKeys"} =>
           u.at = client.at /\ u.ok = client.ok /\ u.exchange = client.exchange
      /\ m.type /= "EcdhReply" => u.session_id = client.session_id
      /\ m.type = "KexInit" =>
           /\ u.at = "answered" /\ u.ok = (client.at = "kexinit")
           /\ u.exchange = Append(client.exchange, m)
      /\ m.type = "NewKeys" =>
           /\ u.at = "idle" /\ u.ok = (client.at = "newkeys") /\ u.exchange = client.exchange
           /\ u.read.opener = [key |-> Key("s2c", client.exchange, client.session_id), counter |-> 0]
           /\ u.read.sequence_number = IF client.strict THEN 0 ELSE r.sequence_number
  BY <1>0 DEF Kept
<1>2. m.type = "EcdhReply" =>
        LET e == client.exchange \o <<"K_S", Fresh("EcdhInit", client.exchanges), m>>
        IN /\ u.at = "reply" /\ u.ok = (client.at = "ecdh") /\ u.exchange = e
           /\ u.session_id = IF client.exchanges = 1 THEN e ELSE client.session_id
  BY <1>0 DEF Kept
<1>3. "s2c" \in Dirs /\ "s2c" /= "c2s" BY DEF Dirs
<1>4. /\ z \in Progress /\ m.type /= "Ident"
      /\ m.type \in KxTypes => m = KxMsg("s2c", o, t) /\ Tick(z) = Tick(t) + 1
      /\ m.type \notin KxTypes => Tick(z) = Tick(t) /\ z.epoch = t.epoch /\ z.phase = t.phase
      /\ m.type = "KexInit" => t.phase = 0 /\ z.epoch = t.epoch /\ z.phase = 1
      /\ m.type \in {"EcdhInit", "EcdhReply"} => t.phase = 1 /\ z.epoch = t.epoch /\ z.phase = 2
      /\ m.type = "NewKeys" => t.phase = 2 /\ z.epoch = t.epoch + 1 /\ z.phase = 0
  BY <1>3, AfterFacts
<1>5. /\ client.ok /\ client.strict = o.strict /\ Peer(o, client, s, t)
      /\ Holds("s2c", o, client.read.opener, client.read.sequence_number, t)
  BY DEF ClientAt
<1>6. /\ s.epoch \in Nat /\ s.phase \in 0..2 /\ t.epoch \in Nat /\ t.phase \in 0..2
      /\ Tick(s) = 3 * s.epoch + s.phase /\ Tick(t) = 3 * t.epoch + t.phase
      /\ client.exchanges \in Nat
  BY TickFacts DEF ClientState
<1>7. client.read.opener \in KeyState /\ client.read.sequence_number \in SequenceNumber
  BY DEF ClientState, ReadState
<1>8. m.type /= "NewKeys" => Holds("s2c", o, r.opener, r.sequence_number, z)
  <2> DEFINE k == client.read.opener
             j == client.read.sequence_number
  <2>1. k \in KeyState /\ j \in SequenceNumber /\ Holds("s2c", o, k, j, t) BY <1>5, <1>7
  <2> HIDE DEF k, j
  <2>2. m.type /= "NewKeys" => Holds("s2c", o, Used(k), (j + 1) % SequenceModulus, z) BY <1>3, <2>1, UseHolds
  <2> QED BY <2>2 DEF k, j
<1>9. CASE m.type \notin KxTypes
  <2>1. /\ m.type \notin {"Ident", "KexInit", "EcdhReply", "NewKeys"} BY <1>4, <1>9 DEF KxTypes
  <2>2. u.at = client.at /\ u.ok = client.ok /\ u.exchange = client.exchange /\ u.read = r
        /\ u.session_id = client.session_id /\ u.exchanges = client.exchanges
    BY <1>1, <2>1
  <2>3. Peer(o, u, s, z) BY <1>4, <1>5, <1>9, <2>2 DEF Peer
  <2> QED BY <1>5, <1>8, <2>1, <2>2, <2>3
<1>10. CASE m.type = "KexInit"
  <2>1. /\ m = ServerInit(t.epoch + 1) /\ t.phase = 0 /\ Tick(t) + 1 <= Tick(s)
        /\ z.epoch = t.epoch /\ z.phase = 1 /\ Tick(z) = Tick(t) + 1
    BY <1>3, <1>4, <1>10 DEF KxMsg, KxTypes
  <2>2. /\ client.at = "kexinit" /\ client.exchange = <<"V_C", "V_S", ClientInit(o, client.exchanges)>>
        /\ s.epoch + 1 = client.exchanges /\ s.phase = 1 /\ t.epoch + 1 = client.exchanges
    <3>1. ~(t.epoch = s.epoch /\ s.phase = 0) BY <1>6, <2>1
    <3> QED BY <1>5, <1>6, <2>1, <3>1 DEF Peer
  <2>3. u.exchange = Halfway(o, client.exchanges)
    <3> DEFINE a == ClientInit(o, client.exchanges)
               b == ServerInit(client.exchanges)
    <3>1. m = b /\ client.exchange = <<"V_C", "V_S", a>> BY <2>1, <2>2
    <3>2. Halfway(o, client.exchanges) = <<"V_C", "V_S", a, b>> BY DEF Halfway
    <3>3. u.exchange = Append(client.exchange, m) BY <1>1, <1>10
    <3> HIDE DEF a, b
    <3>4. Append(<<"V_C", "V_S", a>>, b) = <<"V_C", "V_S", a, b>> BY FourAppend
    <3> QED BY <3>1, <3>2, <3>3, <3>4
  <2>4. u.at = "answered" /\ u.session_id = client.session_id /\ u.read = r /\ u.exchanges = client.exchanges
    BY <1>1, <1>10
  <2>5. u.ok BY <1>1, <1>10, <2>2
  <2>6. Tick(z) >= 2 => Tick(t) >= 2 BY <1>6, <2>1
  <2>7. Tick(z) >= 2 => u.session_id = Covered(o, 1) BY <1>5, <2>4, <2>6 DEF Peer
  <2>8. z.epoch + 1 = u.exchanges /\ s.epoch + 1 = u.exchanges BY <2>1, <2>2, <2>4
  <2>9. u.exchange = Halfway(o, u.exchanges) BY <2>3, <2>4
  <2>10. Peer(o, u, s, z) BY <2>1, <2>2, <2>4, <2>7, <2>8, <2>9 DEF Peer
  <2> QED BY <1>8, <1>10, <2>4, <2>5, <2>10
<1>11. CASE m.type = "EcdhReply"
  <2> DEFINE e == client.exchange \o <<"K_S", Fresh("EcdhInit", client.exchanges), m>>
  <2>1. /\ m = Fresh("EcdhReply", t.epoch + 1) /\ t.phase = 1 /\ Tick(t) + 1 <= Tick(s)
        /\ z.epoch = t.epoch /\ z.phase = 2 /\ Tick(z) = Tick(t) + 1
    BY <1>3, <1>4, <1>11 DEF KxMsg, KxTypes
  <2>2. /\ client.at = "ecdh" /\ client.exchange = Halfway(o, client.exchanges)
        /\ s.epoch + 1 = client.exchanges /\ s.phase = 2 /\ t.epoch + 1 = client.exchanges
    <3>1. ~(t.epoch = s.epoch /\ s.phase = 1) BY <1>6, <2>1
    <3>2. t.phase /= 0 /\ t.phase /= 2 BY <2>1
    <3>3. s.epoch + 1 = t.epoch + 1 => s.epoch = t.epoch BY <1>6
    <3> QED BY <1>5, <3>1, <3>2, <3>3 DEF Peer
  <2>3. e = Covered(o, client.exchanges)
    <3> DEFINE a == ClientInit(o, client.exchanges)
               b == ServerInit(client.exchanges)
               c == Fresh("EcdhInit", client.exchanges)
               d == Fresh("EcdhReply", client.exchanges)
    <3>1. m = d /\ client.exchange = <<"V_C", "V_S", a, b>> BY <2>1, <2>2 DEF Halfway
    <3>2. Covered(o, client.exchanges) = <<"V_C", "V_S", a, b, "K_S", c, d>> BY DEF Covered
    <3>3. e = <<"V_C", "V_S", a, b>> \o <<"K_S", c, d>> BY <3>1
    <3> HIDE DEF a, b, c, d, e
    <3> QED BY <3>2, <3>3, SevenConcat
  <2> HIDE DEF e
  <2>4. u.at = "reply" /\ u.ok = (client.at = "ecdh") /\ u.exchange = e
        /\ u.session_id = IF client.exchanges = 1 THEN e ELSE client.session_id
    BY <1>2, <1>11 DEF e
  <2>5. u.ok BY <2>2, <2>4
  <2>6. u.read = r /\ u.exchanges = client.exchanges BY <1>1, <1>11
  <2>7. u.session_id = Covered(o, 1)
    <3>1. CASE client.exchanges = 1 BY <2>3, <2>4, <3>1
    <3>2. CASE client.exchanges /= 1
      <4>1. Tick(t) >= 2 BY <1>6, <2>1, <2>2, <3>2
      <4> QED BY <1>5, <2>4, <3>2, <4>1 DEF Peer
    <3> QED BY <3>1, <3>2
  <2>8. z.epoch + 1 = u.exchanges /\ s.epoch + 1 = u.exchanges BY <2>1, <2>2, <2>6
  <2>9. u.exchange = Covered(o, u.exchanges) BY <2>3, <2>4, <2>6
  <2>10. Peer(o, u, s, z) BY <2>1, <2>2, <2>4, <2>7, <2>8, <2>9 DEF Peer
  <2> QED BY <1>8, <1>11, <2>5, <2>6, <2>10
<1>12. CASE m.type = "NewKeys"
  <2>1. /\ t.phase = 2 /\ Tick(t) + 1 <= Tick(s)
        /\ z.epoch = t.epoch + 1 /\ z.phase = 0 /\ Tick(z) = Tick(t) + 1
    BY <1>4, <1>12 DEF KxTypes
  <2>2. /\ client.at = "newkeys" /\ client.exchange = Covered(o, client.exchanges)
        /\ s.epoch = client.exchanges /\ s.phase = 0 /\ t.epoch + 1 = client.exchanges
    <3>1. ~(t.epoch = s.epoch /\ s.phase = 2) BY <1>6, <2>1
    <3>2. t.phase /= 0 /\ t.phase /= 1 BY <2>1
    <3>3. s.epoch + 1 = t.epoch + 1 => s.epoch = t.epoch BY <1>6
    <3> QED BY <1>5, <3>1, <3>2, <3>3 DEF Peer
  <2>3. Tick(t) >= 2 BY <1>6, <2>1
  <2>4. client.session_id = Covered(o, 1) BY <1>5, <2>3 DEF Peer
  <2>5. /\ u.at = "idle" /\ u.exchange = client.exchange /\ u.session_id = client.session_id
        /\ u.exchanges = client.exchanges
        /\ u.read.opener = [key |-> Key("s2c", client.exchange, client.session_id), counter |-> 0]
        /\ u.read.sequence_number = IF client.strict THEN 0 ELSE r.sequence_number
    BY <1>1, <1>12
  <2>6. u.ok BY <1>1, <1>12, <2>2
  <2>7. r.sequence_number = (t.seq + 1) % SequenceModulus BY <1>5 DEF Holds
  <2>8. Holds("s2c", o, u.read.opener, u.read.sequence_number, z)
    <3> DEFINE k == u.read.opener
               j == u.read.sequence_number
               e == client.exchange
               i == client.session_id
    <3>1. /\ k = [key |-> Key("s2c", e, i), counter |-> 0]
          /\ j = IF o.strict THEN 0 ELSE (t.seq + 1) % SequenceModulus
          /\ e = Covered(o, t.epoch + 1) /\ i = Covered(o, 1)
      BY <1>5, <2>2, <2>4, <2>5, <2>7
    <3> HIDE DEF k, j, e, i
    <3>2. Holds("s2c", o, k, j, After(o, t, m)) BY <1>3, <1>12, <3>1, NewKeysHolds
    <3> QED BY <3>2 DEF k, j
  <2>9. z.epoch = u.exchanges /\ s.epoch = u.exchanges BY <2>1, <2>2, <2>5
  <2>10. Peer(o, u, s, z) BY <2>1, <2>2, <2>4, <2>5, <2>9 DEF Peer
  <2> QED BY <2>6, <2>8, <2>10
<1>13. m.type /= "EcdhInit"
  <2>1. CASE m.type = "EcdhInit"
    <3>1. m = Fresh("EcdhReply", t.epoch + 1) BY <1>3, <1>4, <2>1 DEF KxMsg, KxTypes
    <3> QED BY <2>1, <3>1 DEF Fresh
  <2> QED BY <2>1
<1> QED BY <1>9, <1>10, <1>11, <1>12, <1>13 DEF KxTypes

LEMMA ClientReceivesSync ==
  ASSUME StreamInv, NEW o \in Offer, NEW f, NEW g, Linked(o, f, g, server, read, write, client), ClientReceives
  PROVE  Linked(o, f, g, server', read', write', client')
<1> DEFINE p == s2c[1].packet
           m == p.msg
           n == Len(client.read.log)
           s == f[Len(client.write.log)]
           t == g[n]
           z == g[n + 1]
           next == [poll_packet([client.read EXCEPT !.buf = s2c]) EXCEPT !.buf = <<>>, !.last_length = 0]
           kept == [client.read EXCEPT !.log = Append(@, p)]
           c == client'
<1>0. /\ next = [poll_packet([client.read EXCEPT !.buf = s2c]) EXCEPT !.buf = <<>>, !.last_length = 0]
      /\ p = s2c[1].packet /\ n = Len(client.read.log) /\ s = f[Len(client.write.log)]
  OBVIOUS
<1>1. client \in ClientState /\ client.read \in ReadState /\ client.read.log \in Seq(WirePacket) BY LogTypes
<1> HIDE DEF p, n, s, next
<1>20. ReadsNext(o, f, g, p, n, s, next) BY <1>0, ClientReads
<1>2. /\ n + 1 \in 1..Len(write.log) /\ p \in WirePacket /\ p.msg \in Message
      /\ t \in Progress /\ z \in Progress /\ s \in Progress
      /\ Moves("s2c", o, t, p, z) /\ Tick(z) <= Tick(s)
      /\ ClientAt(o, client, s, t)
      /\ next \in ReadState /\ next.log = Append(client.read.log, p)
      /\ next.opener = Used(client.read.opener)
      /\ next.sequence_number = (client.read.sequence_number + 1) % SequenceModulus
  BY <1>20 DEF ReadsNext
<1>3. /\ p.msg.type /= "Ident" =>
           client' = Understood(p.msg, next) /\ Fits("s2c", o, t, p.msg) /\ z = After(o, t, p.msg)
      /\ p.msg.type = "Ident" => client' = Understood(p.msg, [client.read EXCEPT !.log = Append(@, p)])
      /\ server' = server /\ read' = read /\ write' = write
  BY <1>20 DEF ReadsNext
<1>4. m \in Message BY <1>2
<1>5. kept \in ReadState /\ kept.log = Append(client.read.log, p) /\ kept.opener = client.read.opener
      /\ kept.sequence_number = client.read.sequence_number
  <2>1. Append(client.read.log, p) \in Seq(WirePacket) BY <1>1, <1>2
  <2> QED BY <1>1, <2>1 DEF ReadState
<1>6. PICK x \in ReadState : c = Understood(m, x) /\ x.log = Append(client.read.log, p)
  <2>1. CASE m.type = "Ident" BY <1>3, <1>5, <2>1
  <2>2. CASE m.type /= "Ident" BY <1>2, <1>3, <2>2
  <2> QED BY <2>1, <2>2
<1> HIDE DEF m, t, z, kept, c
<1>7. c.write = client.write /\ c.read.log = Append(client.read.log, p) /\ c.strict = client.strict
  BY <1>1, <1>4, <1>6, UnderstoodFacts
<1>8. /\ c.ext_info = client.ext_info /\ c.asked = client.asked /\ c.exchanges = client.exchanges
      /\ c.heard = (client.heard \/ m.type = "Ident")
  <2>1. Kept(m, x, c) BY <1>1, <1>4, <1>6, Keeps
  <2> QED BY <2>1 DEF Kept
<1>9. c.ok /\ Holds("s2c", o, c.read.opener, c.read.sequence_number, z) /\ Peer(o, c, s, z)
  <2>1. CASE m.type = "Ident"
    <3>1. c = Understood(m, kept) BY <1>3, <2>1 DEF m, c, kept
    <3>2. /\ c.read = kept /\ c.at = client.at /\ c.ok = client.ok /\ c.exchange = client.exchange
          /\ c.session_id = client.session_id
      <4>1. Kept(m, kept, c) BY <1>1, <1>4, <1>5, <3>1, Keeps
      <4> QED BY <2>1, <4>1 DEF Kept
    <3>3. z = t BY <1>2, <2>1 DEF Moves, m
    <3>4. /\ client.ok /\ Holds("s2c", o, client.read.opener, client.read.sequence_number, t)
          /\ Peer(o, client, s, t)
      BY <1>2 DEF ClientAt
    <3>5. Peer(o, c, s, z) BY <1>8, <3>2, <3>3, <3>4 DEF Peer
    <3> QED BY <1>5, <3>2, <3>3, <3>4, <3>5
  <2>2. CASE m.type /= "Ident"
    <3>1. c = Understood(m, next) /\ Fits("s2c", o, t, m) /\ z = After(o, t, m) BY <1>3, <2>2 DEF m, c
    <3> QED BY <1>1, <1>2, <1>4, <3>1, ClientHears
  <2> QED BY <2>1, <2>2
<1>10. ClientAt(o, c, s, z) BY <1>2, <1>7, <1>8, <1>9 DEF ClientAt
<1>11. c.heard \in BOOLEAN /\ client.heard \in BOOLEAN /\ (client.heard => c.heard)
  <2>1. client.heard \in BOOLEAN BY <1>1 DEF ClientState
  <2> QED BY <1>8, <2>1
<1>12. ClientAt(o, c, f[Len(client.write.log)], g[n + 1]) BY <1>10 DEF s, z
<1>13. Linked(o, f, g, server, read, write, c)
  BY <1>0, <1>2, <1>7, <1>8, <1>11, <1>12, ClientTakes
<1> QED BY <1>3, <1>13 DEF c

-----------------------------------------------------------------------------
LEMMA InitSync == InitTransport => SyncInv
<1> SUFFICES ASSUME InitTransport PROVE SyncInv OBVIOUS
<1>1. /\ server.at = "identify" /\ server.stage = "kx" /\ server.state = "AwaitingKexInit"
      /\ server.exchanges = 0 /\ server.failed = FALSE
      /\ read = NewReadState /\ write = NewWriteState
  BY DEF InitTransport
<1>2. PICK strict, ext \in BOOLEAN :
       client = [at |-> "new", strict |-> strict, ext_info |-> ext, asked |-> FALSE,
                 heard |-> FALSE, exchange |-> <<>>, session_id |-> <<>>,
                 exchanges |-> 0, messages |-> 0, strays |-> 0, ok |-> TRUE,
                 read |-> NewReadState, write |-> NewWriteState]
  BY DEF InitTransport
<1>3. /\ client.at = "new" /\ client.strict = strict /\ client.ext_info = ext /\ client.asked = FALSE
      /\ client.heard = FALSE /\ client.exchanges = 0 /\ client.ok = TRUE
      /\ client.read = NewReadState /\ client.write = NewWriteState
  BY <1>2
<1> DEFINE o == [strict |-> strict, ext_info |-> ext]
           f == [i \in 0..0 |-> Start]
<1>4. o \in Offer /\ o.strict = strict /\ o.ext_info = ext BY DEF Offer
<1>5. /\ Start \in Progress /\ Start.epoch = 0 /\ Start.phase = 0 /\ Start.asked = FALSE
      /\ Start.counter = 0 /\ Start.seq = 0
  BY PacketIOAssumption DEF Start, Progress, SequenceNumber
<1>6. f \in [0..0 -> Progress] /\ f[0] = Start BY <1>5
<1> HIDE DEF o, f
<1>7. Len(<<>>) = 0 OBVIOUS
<1>8. /\ NewReadState.log = <<>> /\ NewReadState.opener.key = NoKey /\ NewReadState.opener.counter = 0
      /\ NewReadState.sequence_number = 0
      /\ NewWriteState.log = <<>> /\ NewWriteState.sealer.key = NoKey /\ NewWriteState.sealer.counter = 0
      /\ NewWriteState.sequence_number = 0
  BY DEF NewReadState, NewWriteState
<1>9. ASSUME NEW dir PROVE Course(dir, o, <<>>, f)
  <2>1. \A i, j \in 0..0 : i = 0 /\ j = 0 OBVIOUS
  <2>2. Tick(f[0]) <= Tick(f[0]) BY <1>5, <1>6, TickFacts
  <2>3. \A i, j \in 0..0 : i <= j => Tick(f[i]) <= Tick(f[j]) BY <2>1, <2>2
  <2>4. 1..0 = {} OBVIOUS
  <2> QED BY <1>6, <1>7, <2>3, <2>4 DEF Course
<1>10. ASSUME NEW dir PROVE Holds(dir, o, NewReadState.opener, NewReadState.sequence_number, Start)
  BY <1>5, <1>8 DEF Holds, EpochKey
<1>11. ASSUME NEW dir PROVE Holds(dir, o, NewWriteState.sealer, NewWriteState.sequence_number, Start)
  BY <1>5, <1>8 DEF Holds, EpochKey
<1>12. Tick(Start) = 0 BY <1>5 DEF Tick
<1>13. Peer(o, client, Start, Start)
  <2>1. ~(Tick(Start) >= 2) BY <1>12
  <2> QED BY <1>3, <1>5, <2>1 DEF Peer
<1>14. ClientAt(o, client, Start, Start) BY <1>3, <1>4, <1>5, <1>10, <1>11, <1>13 DEF ClientAt
<1>15. Task(o, server, Start)
  <2>1. ~(Tick(Start) >= 2) /\ ~(Tick(Start) >= 1) BY <1>12
  <2> QED BY <1>1, <1>5, <2>1 DEF Task
<1>16. ServerAt(o, server, read, write, Start, Start) BY <1>1, <1>10, <1>11, <1>15 DEF ServerAt
<1>17. Early(server, read, write, client)
  <2>1. Len(client.write.log) <= 1 BY <1>3, <1>7, <1>8
  <2> QED BY <1>1, <1>3, <1>8, <2>1 DEF Early
<1>18. /\ client.write.log = <<>> /\ client.read.log = <<>> /\ read.log = <<>> /\ write.log = <<>>
  BY <1>1, <1>3, <1>8
<1>19. Linked(o, f, f, server, read, write, client)
  <2>1. /\ Course("c2s", o, client.write.log, f) /\ Course("s2c", o, write.log, f) BY <1>9, <1>18
  <2>2. /\ Len(client.write.log) = 0 /\ Len(client.read.log) = 0 /\ Len(read.log) = 0 /\ Len(write.log) = 0
    BY <1>7, <1>18
  <2>3. Len(read.log) <= Len(client.write.log) /\ Len(client.read.log) <= Len(write.log) BY <2>2
  <2>4. /\ ClientAt(o, client, f[Len(client.write.log)], f[Len(client.read.log)])
        /\ ServerAt(o, server, read, write, f[Len(read.log)], f[Len(write.log)])
    BY <1>6, <1>14, <1>16, <2>2
  <2> QED BY <1>17, <2>1, <2>3, <2>4 DEF Linked
<1>20. \E a, b : Linked(o, a, b, server, read, write, client) BY <1>19
<1> QED BY <1>4, <1>20 DEF SyncInv

\* Only a stray is counted as one.
LEMMA StraysStep ==
  ASSUME StreamInv, NextTransport
  PROVE  /\ client'.strays = 0 => client.strays = 0
         /\ client'.strays = 0 => ~ClientStrays
<1>1. client \in ClientState BY LogTypes
<1>2. client.strays \in Nat BY <1>1 DEF ClientState
<1>4. CASE ClientStrays
  <2> DEFINE c == [client EXCEPT !.strays = @ + 1, !.messages = @ + 1]
  <2>1. PICK v : Transmit(v, c) BY <1>4 DEF ClientStrays
  <2>2. client'.strays = c.strays BY <1>1, <2>1 DEF Transmit, ClientState
  <2>3. c.strays = client.strays + 1 BY <1>1 DEF ClientState
  <2> HIDE DEF c
  <2> QED BY <1>2, <2>2, <2>3
<1>5. CASE client'.strays = client.strays /\ ~ClientStrays BY <1>5
<1>6. ASSUME ~ClientStrays PROVE client'.strays = client.strays
  <2>1. CASE client' = client BY <2>1
  <2>2. CASE ClientReceives
    <3> DEFINE p == s2c[1].packet
               next == [poll_packet([client.read EXCEPT !.buf = s2c]) EXCEPT !.buf = <<>>, !.last_length = 0]
               kept == [client.read EXCEPT !.log = Append(@, p)]
    <3>1. \/ client' = Understood(p.msg, kept)
          \/ client' = Understood(p.msg, next)
          \/ client' = [client EXCEPT !.ok = FALSE]
      BY <2>2 DEF ClientReceives
    <3>2. ASSUME NEW m, NEW r PROVE Understood(m, r).strays = client.strays
      BY <1>1 DEF Understood, ClientState
    <3>3. [client EXCEPT !.ok = FALSE].strays = client.strays BY <1>1 DEF ClientState
    <3> HIDE DEF p, next, kept
    <3> QED BY <3>1, <3>2, <3>3
  <2>3. CASE ClientIdent
    <3> DEFINE c == [client EXCEPT !.at = "idle"]
    <3>1. PICK v : Transmit(v, c) BY <2>3 DEF ClientIdent
    <3>2. client'.strays = c.strays BY <3>1, <1>1 DEF Transmit, ClientState
    <3> QED BY <3>2, <1>1 DEF ClientState
  <2>4. CASE ClientKexInit BY <1>1, <2>4 DEF ClientKexInit, Transmit, ClientState
  <2>5. CASE ClientEcdhInit BY <1>1, <2>5 DEF ClientEcdhInit, Transmit, ClientState
  <2>6. CASE ClientNewKeys BY <1>1, <2>6 DEF ClientNewKeys, Transmit, ClientState
  <2>7. CASE ClientRequests BY <1>1, <2>7 DEF ClientRequests, Transmit, ClientState
  <2>9. CASE ClientIgnores BY <1>1, <2>9 DEF ClientIgnores, Transmit, ClientState
  <2>8. CASE ServerProgress \/ TerminalsPoll \/ TimesOut \/ Lost
    <3>1. client' = client
      <4>1. CASE receive
        <5>1. client' = client
          BY <4>1 DEF receive, exchange_keys, authenticate, run, handle_kx, handle_kexinit, handle_ecdh_init,
                      handle_newkeys, Proceed, Fails
        <5> QED BY <5>1
      <4>2. ASSUME NEW k, identify(k) PROVE client' = client BY <4>2 DEF identify
      <4>3. ASSUME NEW k, buffer(k) PROVE client' = client BY <4>3 DEF buffer
      <4>4. ASSUME NEW k, flush(k) PROVE client' = client BY <4>4 DEF flush
      <4>5. CASE accept BY <4>5 DEF accept
      <4>8. CASE resume BY <4>8, Zenon DEF resume
      <4>6. CASE TerminalsPoll
        <5>1. PICK w, v : Proceed(read, w, v) BY <4>6 DEF TerminalsPoll
        <5> QED BY <5>1 DEF Proceed
      <4>7. CASE TimesOut \/ Lost BY <4>7 DEF TimesOut, Lost
      <4> QED BY <2>8, <4>1, <4>2, <4>3, <4>4, <4>5, <4>6, <4>7, <4>8 DEF ServerProgress
    <3> QED BY <2>1, <3>1
  <2> QED BY <1>6, <2>2, <2>3, <2>4, <2>5, <2>6, <2>7, <2>8, <2>9 DEF NextTransport, ClientStep
<1> QED BY <1>2, <1>4, <1>5, <1>6

\* What the client has sent in the clear it has sent.
LEMMA RegularStep ==
  ASSUME StreamInv, NextTransport, Regular'
  PROVE  Regular /\ ~ClientStrays /\ (ClientIgnores => client.write.sealer.key /= NoKey)
<1> DEFINE a == client.write.log
           b == client'.write.log
           Clear(p) == p.key = NoKey /\ p.msg.type = "Ignore"
<1>1. client'.strays = 0 /\ ~IgnoresInTheClear' BY DEF Regular
<1>2. client.strays = 0 /\ ~ClientStrays BY <1>1, StraysStep
<1>3. StreamInv' /\ LogStep BY StreamStep
<1>4. a \in Seq(WirePacket) /\ b \in Seq(WirePacket) /\ client \in ClientState
  <2>1. b \in Seq(WirePacket) BY <1>3 DEF StreamInv, TypesInv, ClientState, WriteState
  <2> QED BY <2>1, LogTypes
<1>5. \A i \in DOMAIN b : ~Clear(b[i]) BY <1>1 DEF IgnoresInTheClear
<1>6. Len(a) <= Len(b) /\ \A i \in 1..Len(a) : b[i] = a[i]
  BY <1>3, <1>4 DEF LogStep, SendStep, TakeStep, GiveStep, Grows
<1>7. \A i \in DOMAIN a : ~Clear(a[i])
  <2>1. DOMAIN a = 1..Len(a) /\ DOMAIN b = 1..Len(b) BY <1>4
  <2> HIDE DEF a, b, Clear
  <2> QED BY <1>4, <1>5, <1>6, <2>1
<1>8. ASSUME ClientIgnores PROVE client.write.sealer.key /= NoKey
  <2> DEFINE m == Msg("Ignore")
             c == [client EXCEPT !.messages = @ + 1]
             w == encode(client.write, m)
             p == Packet(m, client.write.sealer.key, client.write.sealer.counter, client.write.sequence_number)
  <2>1. client.at /= "new" /\ Transmit(w, c) BY <1>8 DEF ClientIgnores
  <2>2. m \in Message /\ m.type = "Ignore" BY MsgType DEF MessageTypes
  <2>3. Puts(w, p) BY <2>2, PutsEncode
  <2>4. c \in ClientState /\ c.read = client.read /\ c.ok = client.ok /\ c.at = client.at
    BY <1>4 DEF ClientState
  <2>5. p.msg.type = "Ignore" /\ p.key = client.write.sealer.key BY <2>2 DEF Packet
  <2> HIDE DEF c, w, p
  <2>6. b = Append(a, p) BY <2>1, <2>3, <2>4, TransmitStream
  <2>7. Len(a) + 1 \in DOMAIN b /\ b[Len(a) + 1] = p BY <1>4, <2>6
  <2> QED BY <1>5, <2>5, <2>7
<1> QED BY <1>2, <1>7, <1>8 DEF Regular, IgnoresInTheClear

LEMMA SyncStep ==
  ASSUME ~Eager, StreamInv, NonceInv, SyncInv, NextTransport
  PROVE  SyncInv'
<1> SUFFICES ASSUME Regular'
             PROVE  \E o \in Offer : \E f, g : Linked(o, f, g, server', read', write', client')
  BY DEF SyncInv
<1>1. Regular /\ ~ClientStrays /\ (ClientIgnores => client.write.sealer.key /= NoKey) BY RegularStep
<1>2. PICK o \in Offer : \E f, g : Linked(o, f, g, server, read, write, client) BY <1>1 DEF SyncInv
<1>3. PICK f, g : Linked(o, f, g, server, read, write, client) BY <1>2
<1>4. \E a, b : Linked(o, a, b, server', read', write', client')
  <2>1. CASE receive BY <1>3, <2>1, ReceiveSync
  <2>2. CASE \E k \in 1..Len(c2s) : identify(k) BY <1>3, <2>2, IdentifySync
  <2>3. CASE \/ \E k \in 1..Len(c2s) : buffer(k)
             \/ \E k \in 1..Len(buffered(write)) : flush(k)
             \/ accept \/ Lost
    BY <1>3, <2>3, QuietSteps
  <2>4. CASE resume BY <1>3, <2>4, ResumeSync
  <2>5. CASE TerminalsPoll BY <1>3, <2>5, TerminalsPollSync
  <2>6. CASE TimesOut BY <1>3, <2>6, TimesOutSync
  <2>7. CASE ClientIdent BY <1>3, <2>7, ClientIdentSync
  <2>8. CASE ClientKexInit BY <1>3, <2>8, ClientKexInitSync
  <2>9. CASE ClientEcdhInit BY <1>3, <2>9, ClientEcdhInitSync
  <2>10. CASE ClientNewKeys BY <1>3, <2>10, ClientNewKeysSync
  <2>11. CASE ClientRequests BY <1>3, <2>11, ClientRequestsSync
  <2>12. CASE ClientReceives BY <1>3, <2>12, ClientReceivesSync
  <2>13. CASE ClientIgnores BY <1>1, <1>3, <2>13, ClientIgnoresSync
  <2> QED BY <1>1, <2>1, <2>2, <2>3, <2>4, <2>5, <2>6, <2>7, <2>8, <2>9, <2>10, <2>11, <2>12, <2>13
          DEF NextTransport, ServerProgress, ClientStep
<1> QED BY <1>4

LEMMA SyncInvariant ==
  ASSUME ~Eager
  PROVE  SpecTransport => [](StreamInv /\ SyncInv)
<1>1. NonceInv /\ StreamInv /\ [NextTransport]_transportVars => NonceInv'
  <2>1. CASE UNCHANGED transportVars BY <2>1 DEF transportVars, NonceInv
  <2> QED BY <2>1, NonceStep
<1>2. SyncInv /\ NonceInv /\ StreamInv /\ [NextTransport]_transportVars => SyncInv'
  <2>1. CASE UNCHANGED transportVars BY <2>1 DEF transportVars, SyncInv, Regular, IgnoresInTheClear
  <2> QED BY <2>1, SyncStep
<1> QED BY <1>1, <1>2, InitNonce, InitSync, StreamInvariant, PTL DEF SpecTransport

\* With a client that keeps to the protocol, waits for the server's
\* identification before its KEXINIT and sends no IGNORE before its first
\* NEWKEYS, every packet opens at its other end and is expected there: both
\* sides change each key, counter and sequence number at the same packet, in
\* both directions, whatever is pipelined around it, through any number of
\* exchanges and across the handoff (KeyUpdate::apply, accept and resume).
\* What the other clients meet, the third and the fifth finding show.
THEOREM TransportAgrees == ~Eager => (SpecTransport => []NoTransportError)
<1> SUFFICES ASSUME ~Eager PROVE SpecTransport => []NoTransportError OBVIOUS
<1>1. StreamInv /\ SyncInv => NoTransportError
  <2> SUFFICES ASSUME StreamInv, SyncInv, Regular PROVE ~server.failed /\ client.ok
    BY DEF NoTransportError
  <2>1. PICK o \in Offer : \E f, g : Linked(o, f, g, server, read, write, client) BY DEF SyncInv
  <2>2. PICK f, g : Linked(o, f, g, server, read, write, client) BY <2>1
  <2> QED BY <2>2 DEF Linked, ClientAt, ServerAt, Task
<1> QED BY <1>1, SyncInvariant, PTL

\* The session id that signatures are checked against is the one the client
\* signs, from the first exchange on, in later exchanges and in the session
\* process (EcdhKeyExchangeReply::new, SessionState).
THEOREM SessionIdsAgree == ~Eager => (SpecTransport => []SessionIdAgrees)
<1> SUFFICES ASSUME ~Eager PROVE SpecTransport => []SessionIdAgrees OBVIOUS
<1>1. StreamInv /\ SyncInv => SessionIdAgrees
  <2> SUFFICES ASSUME StreamInv, SyncInv, Regular, server.stage /= "kx"
               PROVE  server.session_id = client.session_id
    BY DEF SessionIdAgrees
  <2>1. PICK o \in Offer : \E f, g : Linked(o, f, g, server, read, write, client) BY DEF SyncInv
  <2>2. PICK f, g : Linked(o, f, g, server, read, write, client) BY <2>1
  <2> DEFINE s == f[Len(client.write.log)]
             t == g[Len(client.read.log)]
             x == f[Len(read.log)]
             y == g[Len(write.log)]
  <2>3. /\ s \in Progress /\ t \in Progress /\ x \in Progress
        /\ ClientAt(o, client, s, t) /\ ServerAt(o, server, read, write, x, y) /\ Tick(x) <= Tick(s)
    BY <2>2, LinkedFacts
  <2> HIDE DEF s, t, x, y
  <2>4. /\ Tick(s) = 3 * s.epoch + s.phase /\ Tick(t) = 3 * t.epoch + t.phase /\ Tick(x) = 3 * x.epoch + x.phase
        /\ s.epoch \in Nat /\ s.phase \in 0..2 /\ t.epoch \in Nat /\ t.phase \in 0..2
        /\ x.epoch \in Nat /\ x.phase \in 0..2
    BY <2>3, TickFacts
  <2>5. Task(o, server, x) /\ Peer(o, client, s, t) BY <2>3 DEF ServerAt, ClientAt
  <2>6. x.epoch >= 1
    <3>1. x.epoch = 1 \/ x.epoch >= 1 BY <2>5 DEF Task
    <3> QED BY <2>4, <3>1
  <2>7. Tick(x) >= 3 /\ Tick(s) >= 3
    <3>1. ASSUME NEW e \in Nat, NEW p \in 0..2, e >= 1 PROVE 3 * e + p >= 3 BY <3>1
    <3>2. Tick(x) >= 3 BY <2>4, <2>6, <3>1
    <3>3. Tick(x) \in Nat /\ Tick(s) \in Nat BY <2>3, TickFacts
    <3> QED BY <2>3, <3>2, <3>3
  <2>8. Tick(x) >= 2 BY <2>4, <2>7
  <2>9. server.session_id = Covered(o, 1) BY <2>5, <2>8 DEF Task
  <2>10. s.epoch >= 1 BY <2>4, <2>7
  <2>11. Tick(t) >= 2
    <3>1. \/ t.epoch = s.epoch
          \/ t.epoch + 1 = s.epoch /\ t.phase = 2
      <4>1. client \in ClientState BY LogTypes
      <4>2. client.exchanges \in Nat BY <4>1 DEF ClientState
      <4>3. ASSUME NEW i \in Nat, NEW j \in Nat, i + 1 = j + 1 PROVE i = j BY <4>3
      <4>4. s.epoch \in Nat /\ t.epoch \in Nat BY <2>4
      <4>5. s.epoch + 1 = t.epoch + 1 => s.epoch = t.epoch BY <4>3, <4>4
      <4> QED BY <2>5, <4>5 DEF Peer
    <3> QED BY <2>4, <2>10, <3>1
  <2>12. client.session_id = Covered(o, 1) BY <2>5, <2>11 DEF Peer
  <2> QED BY <2>9, <2>12
<1> QED BY <1>1, SyncInvariant, PTL
=============================================================================
