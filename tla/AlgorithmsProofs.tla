-------------------------- MODULE AlgorithmsProofs --------------------------
(***************************************************************************)
(* What the algorithms without state of their own compute, for every input *)
(* and not only for those TLC tries: packets of every length, host key     *)
(* files and KEXINITs of every content, authorized_keys lines and commands *)
(* of every length, every answer of the user database.                     *)
(*                                                                         *)
(* Loops over a sequence (FlattenSeq, the loop of KeyOptions::parse, the   *)
(* retries of getpwnam_r) are recursive functions, that is, functions      *)
(* chosen to satisfy an equation.  Each proof gives a function that does,  *)
(* and reasons about the values from place to place (PlaceInduction, which *)
(* rests on the natural numbers being well ordered).                       *)
(***************************************************************************)
EXTENDS Algorithms, SequenceTheorems, NaturalsInduction, WellFoundedInduction, TLAPS

-----------------------------------------------------------------------------
(* Packets. *)

\* The padding fits a byte several times over, and completes the region that
\* has to be aligned to blocks of eight bytes or, with a key, of sixteen.
LEMMA PaddingBounds ==
  ASSUME NEW n \in Nat, NEW sealed \in BOOLEAN
  PROVE  /\ padding_len(n, sealed) \in 4..19
         /\ padding_len(n, sealed) % 256 = padding_len(n, sealed)
         /\ region(n, sealed) \in Nat
         /\ region(n, sealed) + padding_len(n, sealed) >= 16
         /\ (region(n, sealed) + padding_len(n, sealed)) % block_size(sealed) = 0
<1>1. CASE sealed
  BY <1>1 DEF padding_len, region, block_size, block_len, Larger, next_multiple_of
<1>2. CASE ~sealed
  BY <1>2 DEF padding_len, region, block_size, block_len, Larger, next_multiple_of
<1> QED
  BY <1>1, <1>2

\* encode_kx pads every payload, however long, as RFC 4253 asks, and the length
\* of the padding fits its byte.
THEOREM PaddingRight ==
  ASSUME NEW n \in Nat, NEW sealed \in BOOLEAN
  PROVE  WellFormed(n, sealed)
<1> DEFINE p == encode_kx(n, sealed)
<1>1. /\ padding_len(n, sealed) \in 4..19
      /\ p.padding_length = padding_len(n, sealed)
      /\ p.bytes = 5 + n + padding_len(n, sealed) + tag_len(sealed)
  BY PaddingBounds DEF encode_kx
<1>2. p.bytes - tag_len(sealed) - (IF sealed THEN 4 ELSE 0)
        = region(n, sealed) + padding_len(n, sealed)
  BY <1>1 DEF region, tag_len
<1> HIDE DEF p
<1> QED
  BY <1>1, <1>2, PaddingBounds DEF WellFormed, p

\* The bytes of a packet are the ones its length field, the field itself and the
\* tag account for, and no packet of the server is too long for its peer.
LEMMA EncodedLengths ==
  ASSUME NEW n \in Payloads, NEW sealed \in BOOLEAN
  PROVE  LET p == encode_kx(n, sealed)
         IN /\ p.padding_length \in 4..19
            /\ p.packet_length = 1 + n + p.padding_length
            /\ p.packet_length <= MAX_PACKET_LEN
            /\ p.bytes = 4 + p.packet_length + tag_len(sealed)
<1>1. n \in Nat /\ n <= MAX_PACKET_LEN - 20
  BY DEF Payloads, MAX_PACKET_LEN
<1>2. padding_len(n, sealed) \in 4..19
  BY <1>1, PaddingBounds
<1>3. padding_len(n, sealed) % 256 = padding_len(n, sealed)
  BY <1>1, PaddingBounds
<1> QED
  BY <1>1, <1>2, <1>3 DEF encode_kx, tag_len, MAX_PACKET_LEN

\* What encode_kx wrote, for any payload the server can send, poll_packet
\* recognises at the right byte and decode_packet takes apart again, however
\* little or much of the stream has arrived.
THEOREM FramesRoundTrip ==
  ASSUME NEW n \in Payloads, NEW sealed \in BOOLEAN, NEW have \in Nat
  PROVE  RoundTrip(n, sealed, have)
<1> DEFINE p == encode_kx(n, sealed)
<1>1. /\ p.padding_length \in 4..19
      /\ p.packet_length = 1 + n + p.padding_length
      /\ p.packet_length <= MAX_PACKET_LEN
      /\ p.bytes = 4 + p.packet_length + tag_len(sealed)
  BY EncodedLengths
<1> HIDE DEF p
<1>2. n \in Nat /\ n > 0 /\ tag_len(sealed) \in {0, 16}
  BY DEF Payloads, MAX_PACKET_LEN, tag_len
<1>3. ASSUME have < p.bytes
      PROVE  /\ poll_packet(p, have, sealed).result = "incomplete"
             /\ poll_packet(p, have, sealed).length \in 1..(p.bytes - have)
             /\ have >= 4 => poll_packet(p, have, sealed).length = p.bytes - have
  BY <1>1, <1>2, <1>3 DEF poll_packet, PacketLength, Incomplete, Invalid, Complete
<1>4. ASSUME have >= p.bytes
      PROVE  /\ poll_packet(p, have, sealed) = Complete(p.bytes)
             /\ decode_packet(p, have) = Complete(n)
  BY <1>1, <1>2, <1>4
  DEF poll_packet, decode_packet, PacketLength, PaddingLength, Incomplete, Invalid, Complete
<1> QED
  BY <1>3, <1>4 DEF RoundTrip, p

\* Whatever a peer writes into the length fields, a payload that is handed on
\* lies inside a packet that has arrived completely.
THEOREM NoReadOutside ==
  ASSUME NEW packet, packet.packet_length \in Nat, packet.padding_length \in 0..255,
         NEW have \in Nat, NEW sealed \in BOOLEAN
  PROVE  WithinPacketBounds(packet, have, sealed)
  BY DEF WithinPacketBounds, poll_packet, decode_packet, PacketLength, PaddingLength, tag_len,
         Complete, Incomplete, Invalid

-----------------------------------------------------------------------------
(* Least numbers and induction. *)

\* A set of natural numbers that is not empty has a least one.
LEMMA NatMin ==
  ASSUME NEW T \in SUBSET Nat, T # {}
  PROVE  \E x \in T : \A y \in T : x <= y
<1> DEFINE R == OpToRel(<, Nat)
<1>1. IsWellFoundedOn(R, Nat) BY NatLessThanWellFounded
<1>2. PICK x \in T : \A y \in T : ~(<<y, x>> \in R) BY <1>1, WFMin
<1>3. \A y \in T : ~(y < x) BY <1>2 DEF R, OpToRel
<1> QED BY <1>3

\* What Min chooses.
LEMMA MinIs ==
  ASSUME NEW T \in SUBSET Nat, T # {}
  PROVE  Min(T) \in T /\ \A y \in T : Min(T) <= y
BY NatMin DEF Min

\* The least one is what Min chooses.
LEMMA MinUnique ==
  ASSUME NEW T \in SUBSET Nat, NEW x \in T, \A y \in T : x <= y
  PROVE  Min(T) = x
<1>1. Min(T) \in T /\ Min(T) <= x BY MinIs
<1>2. x <= Min(T) /\ x \in Nat /\ Min(T) \in Nat BY <1>1
<1> QED BY <1>1, <1>2

\* Induction over the places of a sequence.
LEMMA PlaceInduction ==
  ASSUME NEW n \in Nat, NEW S, 0 \in S, \A i \in 0..(n - 1) : i \in S => i + 1 \in S
  PROVE  0..n \subseteq S
<1> SUFFICES ASSUME NEW k \in 0..n, k \notin S PROVE FALSE OBVIOUS
<1> DEFINE T == {i \in 0..n : i \notin S}
<1>1. T \subseteq Nat /\ T # {} OBVIOUS
<1>2. PICK x \in T : \A y \in T : x <= y BY <1>1, NatMin
<1>3. x \in 0..n /\ x \notin S /\ x # 0 OBVIOUS
<1>4. x - 1 \in 0..(n - 1) /\ x - 1 \in 0..n /\ ~(x <= x - 1) BY <1>3
<1>5. x - 1 \in S BY <1>2, <1>4
<1>6. (x - 1) + 1 \in S BY <1>4, <1>5
<1>7. (x - 1) + 1 = x BY <1>3
<1> QED BY <1>3, <1>6, <1>7

-----------------------------------------------------------------------------
(* FlattenSeq. *)

\* g holds the sequences of p joined one after the other, up to place n.
Joins(p, n, U, g) ==
  /\ g \in [0..n -> Seq(U)]
  /\ g[0] = <<>>
  /\ \A i \in 1..n : g[i] = g[i - 1] \o p[i]

\* There is such a g.
LEMMA JoinsExists ==
  ASSUME NEW U, NEW p \in Seq(Seq(U))
  PROVE  \E g : Joins(p, Len(p), U, g)
<1> DEFINE l == Len(p)
           S == {n \in 0..l : \E g : Joins(p, n, U, g)}
<1>1. l \in Nat /\ \A i \in 1..l : p[i] \in Seq(U) OBVIOUS
<1> HIDE DEF l
<1>2. 0 \in S
  <2>1. [i \in 0..0 |-> <<>>] \in [0..0 -> Seq(U)] OBVIOUS
  <2>2. Joins(p, 0, U, [i \in 0..0 |-> <<>>]) BY <2>1 DEF Joins
  <2> QED BY <1>1, <2>2
<1>3. ASSUME NEW n \in 0..(l - 1), n \in S PROVE n + 1 \in S
  <2>1. PICK g : Joins(p, n, U, g) BY <1>3
  <2> DEFINE x == g[n] \o p[n + 1]
             h == [i \in 0..(n + 1) |-> IF i <= n THEN g[i] ELSE x]
  <2>2. n \in Nat /\ n \in 0..n /\ n + 1 \in 1..l /\ n + 1 \in 0..(n + 1) BY <1>1
  <2>3. g[n] \in Seq(U) /\ p[n + 1] \in Seq(U) BY <1>1, <2>1, <2>2 DEF Joins
  <2>4. x \in Seq(U) BY <2>3
  <2> HIDE DEF x
  <2>5. h \in [0..(n + 1) -> Seq(U)] BY <2>1, <2>2, <2>4 DEF Joins
  <2>6. \A i \in 0..n : h[i] = g[i] BY <2>2
  <2>7. h[n + 1] = x BY <2>2
  <2> HIDE DEF h
  <2>8. h[0] = <<>> BY <2>1, <2>2, <2>6 DEF Joins
  <2>9. ASSUME NEW i \in 1..(n + 1) PROVE h[i] = h[i - 1] \o p[i]
    <3>1. CASE i = n + 1
      <4>1. i - 1 = n BY <2>2, <3>1
      <4> QED BY <2>2, <2>6, <2>7, <3>1, <4>1 DEF x
    <3>2. CASE i # n + 1
      <4>1. i \in 1..n /\ i \in 0..n /\ i - 1 \in 0..n BY <2>2, <3>2
      <4>2. g[i] = g[i - 1] \o p[i] BY <2>1, <4>1 DEF Joins
      <4> QED BY <2>6, <4>1, <4>2
    <3> QED BY <3>1, <3>2
  <2>10. Joins(p, n + 1, U, h) BY <2>5, <2>8, <2>9 DEF Joins
  <2>11. n + 1 \in 0..l BY <1>1
  <2> QED BY <2>10, <2>11
<1> HIDE DEF S
<1>4. 0..l \subseteq S BY <1>1, <1>2, <1>3, PlaceInduction
<1>5. l \in S BY <1>1, <1>4
<1> QED BY <1>5 DEF S, l

\* Its last entry is what FlattenSeq returns.
LEMMA FlattenJoins ==
  ASSUME NEW U, NEW p \in Seq(Seq(U)), NEW g, Joins(p, Len(p), U, g)
  PROVE  FlattenSeq(p) = g[Len(p)]
<1> DEFINE l == Len(p)
           Recurs(f) == f = [i \in 1..l |-> IF i = 1 THEN p[i] ELSE f[i - 1] \o p[i]]
           k == CHOOSE f : Recurs(f)
           h == [i \in 1..l |-> g[i]]
<1>0. FlattenSeq(p) = IF l = 0 THEN p ELSE k[l] BY DEF FlattenSeq
<1>1. l \in Nat /\ \A i \in 1..l : p[i] \in Seq(U) OBVIOUS
<1>2. CASE l = 0
  <2>1. p = <<>> BY <1>2
  <2> QED BY <1>0, <1>2, <2>1 DEF Joins
<1>3. CASE l # 0
  <2> HIDE DEF l
  <2>1. g[1] = p[1]
    <3>1. 1 \in 1..l /\ 1 - 1 = 0 BY <1>1, <1>3
    <3>2. g[1] = g[0] \o p[1] /\ g[0] = <<>> BY <3>1 DEF Joins, l
    <3> QED BY <1>1, <3>1, <3>2
  <2>2. Recurs(h)
    <3>1. ASSUME NEW i \in 1..l PROVE h[i] = IF i = 1 THEN p[i] ELSE h[i - 1] \o p[i]
      <4>1. CASE i = 1 BY <2>1, <4>1
      <4>2. CASE i # 1
        <5>1. i - 1 \in 1..l BY <1>1, <4>2
        <5>2. g[i] = g[i - 1] \o p[i] BY DEF Joins, l
        <5> QED BY <4>2, <5>1, <5>2
      <4> QED BY <4>1, <4>2
    <3> QED BY <3>1
  <2>3. Recurs(k)
    <3> HIDE DEF Recurs
    <3> QED BY <2>2
  <2> HIDE DEF k
  <2> DEFINE S == {i \in 0..l : i # 0 => k[i] = g[i]}
  <2>4. 0 \in S BY <1>1
  <2>5. ASSUME NEW i \in 0..(l - 1), i \in S PROVE i + 1 \in S
    <3>1. i \in Nat /\ i + 1 \in 1..l /\ i + 1 \in 0..l /\ (i + 1) - 1 = i BY <1>1
    <3>2. k[i + 1] = IF i + 1 = 1 THEN p[i + 1] ELSE k[i] \o p[i + 1] BY <2>3, <3>1
    <3>3. CASE i = 0 BY <2>1, <3>1, <3>2, <3>3
    <3>4. CASE i # 0
      <4>1. k[i] = g[i] /\ i + 1 # 1 BY <2>5, <3>1, <3>4
      <4>2. g[i + 1] = g[i] \o p[i + 1] BY <3>1 DEF Joins, l
      <4> QED BY <3>1, <3>2, <4>1, <4>2
    <3> QED BY <3>3, <3>4
  <2> HIDE DEF S
  <2>6. 0..l \subseteq S BY <1>1, <2>4, <2>5, PlaceInduction
  <2>7. l \in S BY <1>1, <2>6
  <2> QED BY <1>0, <1>3, <2>7 DEF S, l
<1> QED BY <1>2, <1>3

\* Both in one, as the proofs below use it.
LEMMA FlattenSteps ==
  ASSUME NEW U, NEW p \in Seq(Seq(U))
  PROVE  \E g : Joins(p, Len(p), U, g) /\ FlattenSeq(p) = g[Len(p)]
BY JoinsExists, FlattenJoins

\* FlattenSeq of sequences is a sequence.
LEMMA FlattenType ==
  ASSUME NEW U, NEW p \in Seq(Seq(U))
  PROVE  FlattenSeq(p) \in Seq(U)
<1>1. PICK g : Joins(p, Len(p), U, g) /\ FlattenSeq(p) = g[Len(p)] BY FlattenSteps
<1>2. Len(p) \in 0..Len(p) OBVIOUS
<1> QED BY <1>1, <1>2 DEF Joins

\* A function over 1..n is a sequence.
LEMMA FunctionIsSeq ==
  ASSUME NEW S, NEW n \in Nat, NEW f \in [1..n -> S]
  PROVE  f \in Seq(S) /\ Len(f) = n
OBVIOUS

\* Sequences are the same when their elements are.
LEMMA SameSeq ==
  ASSUME NEW S, NEW T, NEW s \in Seq(S), NEW t \in Seq(T),
         Len(s) = Len(t), \A i \in 1..Len(s) : s[i] = t[i]
  PROVE  s = t
OBVIOUS

\* The end of a sequence from place m on.
LEMMA SubSeqIs ==
  ASSUME NEW S, NEW s \in Seq(S), NEW m \in 1..(Len(s) + 1)
  PROVE  /\ SubSeq(s, m, Len(s)) \in Seq(S)
         /\ Len(SubSeq(s, m, Len(s))) = Len(s) - m + 1
         /\ \A i \in 1..(Len(s) - m + 1) : SubSeq(s, m, Len(s))[i] = s[m + i - 1]
OBVIOUS

\* The elements of two sequences joined.
LEMMA ConcatIs ==
  ASSUME NEW S, NEW s \in Seq(S), NEW t \in Seq(S)
  PROVE  /\ s \o t \in Seq(S)
         /\ Len(s \o t) = Len(s) + Len(t)
         /\ \A i \in 1..Len(s) : (s \o t)[i] = s[i]
         /\ \A i \in 1..Len(t) : (s \o t)[Len(s) + i] = t[i]
OBVIOUS

-----------------------------------------------------------------------------
(* One host key. *)

\* Stripped starts at the first byte that is not zero.
LEMMA StrippedIs ==
  ASSUME NEW b \in Seq(Byte), NEW m \in 1..Len(b), b[m] # 0, \A i \in 1..(m - 1) : b[i] = 0
  PROVE  Stripped(b) = SubSeq(b, m, Len(b))
<1> DEFINE rest == {i \in DOMAIN b : b[i] # 0}
<1>1. rest \in SUBSET Nat /\ m \in rest OBVIOUS
<1>2. \A i \in rest : m <= i OBVIOUS
<1> HIDE DEF rest
<1>3. Min(rest) = m BY <1>1, <1>2, MinUnique
<1>4. rest # {} BY <1>1
<1> QED BY <1>3, <1>4 DEF Stripped, rest

\* A scalar without its leading zeros.
LEMMA ScalarStripped ==
  ASSUME NEW b \in [1..SCALAR_LEN -> Byte], NEW k \in 1..SCALAR_LEN, b[k] # 0
  PROVE  \E m \in 1..SCALAR_LEN :
           /\ \A i \in 1..(m - 1) : b[i] = 0
           /\ Stripped(b) \in Seq(Byte)
           /\ Len(Stripped(b)) = SCALAR_LEN - m + 1
           /\ \A i \in 1..(SCALAR_LEN - m + 1) : Stripped(b)[i] = b[m + i - 1]
           /\ Stripped(b)[1] # 0
<1>0. SCALAR_LEN \in Nat BY HostKeysAssumption
<1>1. b \in Seq(Byte) /\ Len(b) = SCALAR_LEN BY <1>0, FunctionIsSeq
<1> DEFINE T == {i \in 1..SCALAR_LEN : b[i] # 0}
<1>2. T \in SUBSET Nat /\ T # {} BY <1>0
<1>3. PICK m \in T : \A y \in T : m <= y BY <1>2, NatMin
<1>4. m \in 1..SCALAR_LEN /\ b[m] # 0 OBVIOUS
<1>5. \A i \in 1..(m - 1) : b[i] = 0
  <2> SUFFICES ASSUME NEW i \in 1..(m - 1), b[i] # 0 PROVE FALSE OBVIOUS
  <2>1. i \in 1..SCALAR_LEN /\ ~(m <= i) BY <1>0, <1>4
  <2>2. i \in T BY <2>1
  <2> QED BY <1>3, <2>1, <2>2
<1>6. Stripped(b) = SubSeq(b, m, Len(b)) BY <1>1, <1>4, <1>5, StrippedIs
<1>7. m \in 1..(Len(b) + 1) BY <1>0, <1>1, <1>4
<1>8. /\ Stripped(b) \in Seq(Byte)
      /\ Len(Stripped(b)) = SCALAR_LEN - m + 1
      /\ \A i \in 1..(SCALAR_LEN - m + 1) : Stripped(b)[i] = b[m + i - 1]
  BY <1>1, <1>6, <1>7, SubSeqIs
<1>9. 1 \in 1..(SCALAR_LEN - m + 1) /\ m + 1 - 1 = m BY <1>0, <1>4
<1>10. Stripped(b)[1] # 0 BY <1>4, <1>8, <1>9
<1> QED BY <1>4, <1>5, <1>8, <1>10

\* An integer that has been written has its zeros, or the one in front that
\* keeps it positive, taken off again.
LEMMA MpintStripped ==
  ASSUME NEW b \in [1..SCALAR_LEN -> Byte], NEW k \in 1..SCALAR_LEN, b[k] # 0
  PROVE  encode_mpint(b) \in Seq(Byte) /\ Stripped(encode_mpint(b)) = Stripped(b)
<1> DEFINE t == Stripped(b)
           e == encode_mpint(b)
<1>0. SCALAR_LEN \in Nat BY HostKeysAssumption
<1>1. t \in Seq(Byte) /\ Len(t) >= 1 /\ t[1] # 0
  BY <1>0, ScalarStripped
<1>2. e = t \/ e = <<0>> \o t BY DEF encode_mpint
<1> HIDE DEF t, e
<1>3. CASE e = t
  <2>1. 1 \in 1..Len(t) /\ 1 \in 1..(Len(t) + 1) BY <1>1
  <2>2. Stripped(t) = SubSeq(t, 1, Len(t)) BY <1>1, <2>1, StrippedIs
  <2>3. SubSeq(t, 1, Len(t)) = t BY <1>1
  <2> QED BY <1>1, <1>3, <2>2, <2>3 DEF t, e
<1>4. CASE e = <<0>> \o t
  <2>1. <<0>> \in Seq(Byte) /\ Len(<<0>>) = 1 BY DEF Byte
  <2>2. /\ e \in Seq(Byte) /\ Len(e) = 1 + Len(t)
        /\ e[1] = 0
        /\ \A i \in 1..Len(t) : e[1 + i] = t[i]
    BY <1>1, <1>4, <2>1
  <2>3. 2 \in 1..Len(e) /\ e[2] # 0 /\ 2 \in 1..(Len(e) + 1) BY <1>1, <2>2
  <2>4. \A i \in 1..(2 - 1) : e[i] = 0 BY <2>2
  <2>5. Stripped(e) = SubSeq(e, 2, Len(e)) BY <2>2, <2>3, <2>4, StrippedIs
  <2>6. SubSeq(e, 2, Len(e)) = t
    <3> DEFINE u == SubSeq(e, 2, Len(e))
    <3>1. u \in Seq(Byte) /\ Len(u) = Len(t) /\ \A i \in 1..Len(t) : u[i] = e[2 + i - 1]
      BY <1>1, <2>2, <2>3, SubSeqIs
    <3> HIDE DEF u
    <3>2. \A i \in 1..Len(t) : u[i] = t[i]
      <4> TAKE i \in 1..Len(t)
      <4>1. 2 + i - 1 = 1 + i BY <1>1
      <4> QED BY <2>2, <3>1, <4>1
    <3>3. u = t BY <1>1, <3>1, <3>2
    <3> QED BY <3>3 DEF u
  <2> QED BY <2>2, <2>5, <2>6 DEF t, e
<1> QED BY <1>2, <1>3, <1>4

\* The scalar comes back, all its bytes.
LEMMA ScalarRoundTrip ==
  ASSUME NEW b \in [1..SCALAR_LEN -> Byte], NEW k \in 1..SCALAR_LEN, b[k] # 0
  PROVE  DecodedScalar(encode_mpint(b)) = b /\ Len(Stripped(encode_mpint(b))) \in 1..SCALAR_LEN
<1> DEFINE t == Stripped(b)
<1>0. SCALAR_LEN \in Nat BY HostKeysAssumption
<1>1. Stripped(encode_mpint(b)) = t BY MpintStripped
<1>2. PICK m \in 1..SCALAR_LEN :
           /\ \A i \in 1..(m - 1) : b[i] = 0
           /\ t \in Seq(Byte)
           /\ Len(t) = SCALAR_LEN - m + 1
           /\ \A i \in 1..(SCALAR_LEN - m + 1) : t[i] = b[m + i - 1]
  BY ScalarStripped
<1> HIDE DEF t
<1> DEFINE d == [i \in 1..SCALAR_LEN |->
                   IF i <= SCALAR_LEN - Len(t) THEN 0 ELSE t[i - (SCALAR_LEN - Len(t))]]
<1>3. DecodedScalar(encode_mpint(b)) = d BY <1>1 DEF DecodedScalar
<1>4. ASSUME NEW i \in 1..SCALAR_LEN PROVE d[i] = b[i]
  <2>1. SCALAR_LEN - Len(t) = m - 1 BY <1>0, <1>2
  <2>2. CASE i <= m - 1
    <3>1. i \in 1..(m - 1) BY <2>2
    <3> QED BY <1>2, <2>1, <2>2, <3>1
  <2>3. CASE ~(i <= m - 1)
    <3>1. i - (m - 1) \in 1..(SCALAR_LEN - m + 1) /\ m + (i - (m - 1)) - 1 = i BY <1>0, <2>3
    <3>2. t[i - (m - 1)] = b[i] BY <1>2, <3>1
    <3> QED BY <2>1, <2>3, <3>2
  <2> QED BY <2>2, <2>3
<1>5. d = b BY <1>4
<1>6. Len(t) \in 1..SCALAR_LEN BY <1>0, <1>2
<1> QED BY <1>1, <1>3, <1>5, <1>6

\* A key that was written is read as the key it was.
LEMMA KeyRoundTrip ==
  ASSUME NEW k \in WritableKeys
  PROVE  Decodable(Encoded(k)) /\ DecodedKey(Encoded(k)) = k
<1>0. SCALAR_LEN \in Nat BY HostKeysAssumption
<1>1. /\ k = [algorithm |-> k.algorithm, secret |-> k.secret, public |-> k.public]
      /\ k.algorithm \in {Ecdsa, Ed25519}
      /\ k.secret \in [1..SCALAR_LEN -> Byte]
  BY DEF WritableKeys, PrivateKey
<1>2. CASE k.algorithm = Ecdsa
  <2>1. PICK i \in 1..SCALAR_LEN : k.secret[i] # 0 BY <1>2 DEF WritableKeys
  <2>2. /\ DecodedScalar(encode_mpint(k.secret)) = k.secret
        /\ Len(Stripped(encode_mpint(k.secret))) \in 1..SCALAR_LEN
    BY <1>1, <2>1, ScalarRoundTrip
  <2> QED BY <1>1, <1>2, <2>2 DEF Decodable, DecodedKey, Encoded
<1>3. CASE k.algorithm = Ed25519
  <2>1. Len(k.secret) = SCALAR_LEN BY <1>0, <1>1, FunctionIsSeq
  <2> QED BY <1>1, <1>3, <2>1 DEF Decodable, DecodedKey, Encoded, Ecdsa, Ed25519
<1> QED BY <1>1, <1>2, <1>3

-----------------------------------------------------------------------------
(* Files. *)

\* The length of a written key is a number.
LEMMA EncodedLengthType ==
  ASSUME NEW k \in WritableKeys
  PROVE  EncodedLength(Encoded(k)) \in Nat
<1>1. k.algorithm \in {Ecdsa, Ed25519} /\ k.secret \in [1..SCALAR_LEN -> Byte]
  BY DEF WritableKeys, PrivateKey
<1>2. CASE k.algorithm = Ecdsa
  <2>1. PICK i \in 1..SCALAR_LEN : k.secret[i] # 0 BY <1>2 DEF WritableKeys
  <2>2. Len(encode_mpint(k.secret)) \in Nat BY <1>1, <2>1, MpintStripped
  <2> QED BY <1>2, <2>2 DEF EncodedLength, Encoded
<1>3. CASE k.algorithm = Ed25519
  BY <1>3 DEF EncodedLength, Encoded, Ecdsa, Ed25519
<1> QED BY <1>1, <1>2, <1>3

\* So is the length of a private section.
LEMMA PrivateLengthType ==
  ASSUME NEW e, Len(e) \in Nat, \A i \in 1..Len(e) : EncodedLength(e[i]) \in Nat
  PROVE  PrivateLength(e) \in Nat
<1> DEFINE l == Len(e)
           w == [i \in 1..l |-> EncodedLength(e[i])]
           Recurs(n, f) ==
             f = [i \in 0..n |-> IF i = 0 THEN 8 ELSE f[i - 1] + EncodedLength(e[i])]
           k == CHOOSE f : Recurs(l, f)
           S == {n \in 0..l : \E f \in [0..n -> Nat] : Recurs(n, f)}
<1>0. PrivateLength(e) = k[l] BY DEF PrivateLength
<1>1. l \in Nat /\ \A i \in 1..l : EncodedLength(e[i]) \in Nat OBVIOUS
<1> HIDE DEF l
<1>2. 0 \in S
  <2>1. Recurs(0, [i \in 0..0 |-> 8]) /\ [i \in 0..0 |-> 8] \in [0..0 -> Nat] OBVIOUS
  <2> HIDE DEF Recurs
  <2> QED BY <1>1, <2>1
<1>3. ASSUME NEW n \in 0..(l - 1), n \in S PROVE n + 1 \in S
  <2>1. PICK f \in [0..n -> Nat] : Recurs(n, f) BY <1>3
  <2> DEFINE x == f[n] + EncodedLength(e[n + 1])
             h == [i \in 0..(n + 1) |-> IF i <= n THEN f[i] ELSE x]
  <2>2. /\ n \in Nat /\ n \in 0..n /\ n + 1 \in 1..l /\ n + 1 \in 0..(n + 1)
        /\ n + 1 \in 0..l
    BY <1>1
  <2>3. x \in Nat BY <1>1, <2>1, <2>2
  <2> HIDE DEF x
  <2>4. h \in [0..(n + 1) -> Nat] BY <2>1, <2>2, <2>3
  <2>5. \A i \in 0..n : h[i] = f[i] BY <2>2
  <2>6. h[n + 1] = x BY <2>2
  <2>7. ASSUME NEW i \in 0..(n + 1)
        PROVE  h[i] = IF i = 0 THEN 8 ELSE h[i - 1] + EncodedLength(e[i])
    <3> HIDE DEF h
    <3>1. CASE i = n + 1
      <4>1. i # 0 /\ i - 1 = n BY <2>2, <3>1
      <4> QED BY <2>2, <2>5, <2>6, <3>1, <4>1 DEF x
    <3>2. CASE i # n + 1
      <4>1. i \in 0..n /\ (i # 0 => i - 1 \in 0..n) BY <2>2, <3>2
      <4>2. f[i] = IF i = 0 THEN 8 ELSE f[i - 1] + EncodedLength(e[i]) BY <2>1, <4>1
      <4> QED BY <2>5, <4>1, <4>2
    <3> QED BY <3>1, <3>2
  <2>8. h = [i \in 0..(n + 1) |-> h[i]] OBVIOUS
  <2>9. Recurs(n + 1, h)
    <3> HIDE DEF h
    <3> QED BY <2>7, <2>8
  <2> HIDE DEF Recurs, h
  <2> QED BY <2>2, <2>4, <2>9
<1>4. l \in S
  <2> HIDE DEF S
  <2>1. 0..l \subseteq S BY <1>1, <1>2, <1>3, PlaceInduction
  <2> QED BY <1>1, <2>1
<1>5. Recurs(l, k)
  <2>1. \E f : Recurs(l, f) BY <1>4
  <2> HIDE DEF Recurs
  <2> QED BY <2>1
<1> HIDE DEF k
<1> DEFINE N == {i \in 0..l : k[i] \in Nat}
<1>6. 0 \in N BY <1>1, <1>5
<1>7. ASSUME NEW i \in 0..(l - 1), i \in N PROVE i + 1 \in N
  <2>1. i + 1 \in 1..l /\ i + 1 \in 0..l /\ i + 1 # 0 /\ (i + 1) - 1 = i BY <1>1
  <2>2. k[i + 1] = k[i] + EncodedLength(e[i + 1]) BY <1>5, <2>1
  <2>3. k[i] \in Nat /\ EncodedLength(e[i + 1]) \in Nat BY <1>1, <1>7, <2>1
  <2>4. k[i + 1] \in Nat BY <2>2, <2>3
  <2> QED BY <2>1, <2>4
<1> HIDE DEF N
<1>8. 0..l \subseteq N BY <1>1, <1>6, <1>7, PlaceInduction
<1>9. l \in N BY <1>1, <1>8
<1> QED BY <1>0, <1>9 DEF N

\* What to_bytes makes of keys.
LEMMA WrittenFile ==
  ASSUME NEW ks \in Seq(WritableKeys), ks # <<>>
  PROVE  LET file == to_bytes(ks)
         IN /\ file.header = TRUE /\ file.cipher = "none" /\ file.key_count = Len(ks)
            /\ file.checks = <<1, 1>>
            /\ file.private = [i \in 1..Len(ks) |-> Encoded(ks[i])]
            /\ Len(file.private) = Len(ks)
            /\ \A i \in DOMAIN file.padding : file.padding[i] = i % 256
            /\ Len(ks) \in Nat \ {0}
<1> DEFINE e == [i \in 1..Len(ks) |-> Encoded(ks[i])]
           r == PrivateLength(e)
<1>1. Len(ks) \in Nat \ {0} /\ DOMAIN ks = 1..Len(ks) /\ \A i \in 1..Len(ks) : ks[i] \in WritableKeys
  BY EmptySeq, LenProperties, ElementOfSeq
<1>2. /\ to_bytes(ks).header = TRUE /\ to_bytes(ks).cipher = "none"
      /\ to_bytes(ks).key_count = Len(ks) /\ to_bytes(ks).checks = <<1, 1>>
      /\ to_bytes(ks).private = e /\ to_bytes(ks).padding = Padding(e)
  BY <1>1 DEF to_bytes
<1>3. Len(e) = Len(ks) BY <1>1
<1>4. \A i \in 1..Len(e) : EncodedLength(e[i]) \in Nat BY <1>1, <1>3, EncodedLengthType
<1> HIDE DEF e
<1>5. r \in Nat BY <1>1, <1>3, <1>4, PrivateLengthType
<1> HIDE DEF r
<1>6. (8 - (r % 8)) % 8 \in 0..7 BY <1>5
<1>7. Padding(e) = [i \in 1..((8 - (r % 8)) % 8) |-> i] BY DEF Padding, r
<1>8. \A i \in DOMAIN Padding(e) : Padding(e)[i] = i % 256 BY <1>6, <1>7
<1> QED BY <1>1, <1>2, <1>3, <1>8 DEF e

\* A file that is as it was written is valid.
LEMMA WrittenIsValid ==
  ASSUME NEW ks \in Seq(WritableKeys), ks # <<>>
  PROVE  from_str_Valid(to_bytes(ks))
<1> DEFINE file == to_bytes(ks)
<1>1. /\ file.header = TRUE /\ file.cipher = "none" /\ file.key_count = Len(ks)
      /\ file.checks = <<1, 1>>
      /\ file.private = [i \in 1..Len(ks) |-> Encoded(ks[i])]
      /\ Len(file.private) = Len(ks)
      /\ \A i \in DOMAIN file.padding : file.padding[i] = i % 256
      /\ Len(ks) \in Nat \ {0}
  BY WrittenFile
<1> HIDE DEF file
<1>2. \A i \in 1..Len(ks) : Decodable(file.private[i])
  <2> TAKE i \in 1..Len(ks)
  <2>1. ks[i] \in WritableKeys BY ElementOfSeq
  <2> QED BY <1>1, <2>1, KeyRoundTrip
<1>3. from_str_Valid(file) BY <1>1, <1>2 DEF from_str_Valid
<1> QED BY <1>3 DEF file

\* One that has been changed is not.
LEMMA ChangedIsInvalid ==
  ASSUME NEW ks \in Seq(WritableKeys), ks # <<>>, NEW content, Changed(content, ks)
  PROVE  ~from_str_Valid(content)
<1> DEFINE file == to_bytes(ks)
<1>1. /\ file.header = TRUE /\ file.cipher = "none" /\ file.key_count = Len(ks)
      /\ file.checks = <<1, 1>>
      /\ file.private = [i \in 1..Len(ks) |-> Encoded(ks[i])]
      /\ Len(file.private) = Len(ks)
      /\ Len(ks) \in Nat \ {0}
  BY WrittenFile
<1>0. /\ file = [header |-> file.header, cipher |-> file.cipher, key_count |-> file.key_count,
                 checks |-> file.checks, private |-> file.private, padding |-> file.padding]
      /\ DOMAIN ks = 1..Len(ks)
  BY DEF to_bytes
<1>a. \/ ~content.header /\ content = [file EXCEPT !.header = FALSE]
      \/ content.cipher # "none" /\ content = [file EXCEPT !.cipher = content.cipher]
      \/ /\ content.key_count \in Nat /\ content.key_count # Len(ks)
         /\ content = [file EXCEPT !.key_count = content.key_count]
      \/ /\ content.checks[1] # content.checks[2]
         /\ content = [file EXCEPT !.checks = content.checks]
      \/ /\ \E i \in DOMAIN content.padding : content.padding[i] # i % 256
         /\ content = [file EXCEPT !.padding = content.padding]
      \/ \E i \in DOMAIN ks :
           /\ ks[i].algorithm = Ed25519
           /\ content.private[i].public # ks[i].public
           /\ content = [file EXCEPT !.private[i].public = content.private[i].public]
  BY DEF Changed
<1> HIDE DEF file
<1>2. CASE content.key_count # Len(ks) /\ content = [file EXCEPT !.key_count = content.key_count]
  <2>1. content.private = file.private BY <1>0, <1>2
  <2> QED BY <1>1, <1>2, <2>1 DEF from_str_Valid
<1>3. ASSUME NEW i \in DOMAIN ks, ks[i].algorithm = Ed25519,
             content.private[i].public # ks[i].public,
             content = [file EXCEPT !.private[i].public = content.private[i].public]
      PROVE  ~from_str_Valid(content)
  <2> DEFINE x == content.private[i].public
  <2>1. content = [file EXCEPT !.private =
                     [file.private EXCEPT ![i] = [file.private[i] EXCEPT !.public = x]]]
    BY <1>0, <1>3
  <2>2. x # ks[i].public BY <1>3
  <2> HIDE DEF x
  <2>3. i \in 1..Len(ks) BY <1>0
  <2>4. /\ content.key_count = Len(ks)
        /\ content.private[i] = [Encoded(ks[i]) EXCEPT !.public = x]
    BY <1>0, <1>1, <2>1, <2>3
  <2>5. Encoded(ks[i]) = [algorithm |-> Ed25519, public |-> ks[i].public,
                          private |-> ks[i].secret, copy |-> ks[i].public]
    BY <1>3 DEF Encoded, Ecdsa, Ed25519
  <2>6. /\ content.private[i].algorithm = Ed25519 /\ content.private[i].public = x
        /\ content.private[i].copy = ks[i].public
    BY <2>4, <2>5
  <2>7. ~Decodable(content.private[i]) BY <2>2, <2>6 DEF Decodable, Ecdsa, Ed25519
  <2> QED BY <2>3, <2>4, <2>7 DEF from_str_Valid
<1> QED BY <1>a, <1>2, <1>3 DEF from_str_Valid

\* A key of a file, as the server signs with it.
LEMMA SigningKey ==
  ASSUME NEW k \in WritableKeys
  PROVE  /\ to_pkcs8(k) \in PrivateKey
         /\ signing_key_from_pkcs8(to_pkcs8(k)) <=> (k.algorithm = Ecdsa => k.public = "matching")
         /\ signing_key_from_pkcs8(to_pkcs8(k)) =>
              to_pkcs8(k) = [algorithm |-> k.algorithm, secret |-> k.secret, public |-> "matching"]
<1>1. /\ k = [algorithm |-> k.algorithm, secret |-> k.secret, public |-> k.public]
      /\ k.algorithm \in {Ecdsa, Ed25519}
      /\ k \in PrivateKey
  BY DEF WritableKeys, PrivateKey
<1>2. CASE k.algorithm = Ecdsa
  BY <1>1, <1>2 DEF to_pkcs8, signing_key_from_pkcs8
<1>3. CASE k.algorithm # Ecdsa
  <2>1. to_pkcs8(k) = [algorithm |-> k.algorithm, secret |-> k.secret, public |-> "matching"]
    BY <1>1, <1>3 DEF to_pkcs8
  <2> QED BY <1>1, <1>3, <2>1 DEF signing_key_from_pkcs8, PrivateKey
<1> QED BY <1>2, <1>3

\* What from_files takes from a file, and what was written there.
Kept(file) == IF file.intact THEN file.keys ELSE <<>>

\* They correspond key by key, and a file that was changed gives none.
LEMMA KeysOfFile ==
  ASSUME NEW file, HostKeyFile(file)
  PROVE  /\ Kept(file) \in Seq(WritableKeys)
         /\ KeysOf(file) \in Seq(PrivateKey)
         /\ Len(KeysOf(file)) = Len(Kept(file))
         /\ \A i \in 1..Len(Kept(file)) : KeysOf(file)[i] = to_pkcs8(Kept(file)[i])
<1> DEFINE ks == file.keys
<1>1. ks \in Seq(WritableKeys) /\ ks # <<>> BY DEF HostKeyFile
<1> HIDE DEF ks
<1>2. Len(ks) \in Nat /\ \A i \in 1..Len(ks) : ks[i] \in WritableKeys BY <1>1, ElementOfSeq
<1>3. CASE file.intact
  <2>1. file.readable /\ file.content = to_bytes(ks) BY <1>3 DEF HostKeyFile, ks
  <2>2. from_str_Valid(file.content) BY <1>1, <2>1, WrittenIsValid
  <2>a. /\ to_bytes(ks).key_count = Len(ks)
        /\ to_bytes(ks).private = [i \in 1..Len(ks) |-> Encoded(ks[i])]
    BY <1>1, WrittenFile
  <2>3. /\ file.content.key_count = Len(ks)
        /\ \A i \in 1..Len(ks) : file.content.private[i] = Encoded(ks[i])
    BY <2>1, <2>a
  <2>4. KeysOf(file) = [i \in 1..Len(ks) |-> to_pkcs8(DecodedKey(file.content.private[i]))]
    BY <2>1, <2>2, <2>3 DEF KeysOf
  <2>5. \A i \in 1..Len(ks) : DecodedKey(file.content.private[i]) = ks[i]
    BY <1>2, <2>3, KeyRoundTrip
  <2>6. KeysOf(file) = [i \in 1..Len(ks) |-> to_pkcs8(ks[i])] BY <2>4, <2>5
  <2>7. \A i \in 1..Len(ks) : to_pkcs8(ks[i]) \in PrivateKey BY <1>2, SigningKey
  <2>8. Kept(file) = ks BY <1>3 DEF Kept, ks
  <2>9. KeysOf(file) \in [1..Len(ks) -> PrivateKey] BY <2>6, <2>7
  <2>10. KeysOf(file) \in Seq(PrivateKey) /\ Len(KeysOf(file)) = Len(ks)
    BY <1>2, <2>9, FunctionIsSeq
  <2> QED BY <1>1, <2>6, <2>8, <2>10
<1>4. CASE ~file.intact
  <2>1. ~file.readable \/ Changed(file.content, ks) BY <1>4 DEF HostKeyFile, ks
  <2>2. KeysOf(file) = <<>> BY <1>1, <2>1, ChangedIsInvalid DEF KeysOf
  <2>3. Kept(file) = <<>> BY <1>4 DEF Kept
  <2> QED BY <2>2, <2>3
<1> QED BY <1>3, <1>4

\* The keys of all files in a row correspond like those of each.
LEMMA FlattenKeys ==
  ASSUME NEW p \in Seq(Seq(PrivateKey)), NEW q \in Seq(Seq(WritableKeys)), Len(p) = Len(q),
         \A i \in 1..Len(q) : /\ Len(p[i]) = Len(q[i])
                              /\ \A j \in 1..Len(q[i]) : p[i][j] = to_pkcs8(q[i][j])
  PROVE  /\ Len(FlattenSeq(p)) = Len(FlattenSeq(q))
         /\ \A j \in 1..Len(FlattenSeq(q)) : FlattenSeq(p)[j] = to_pkcs8(FlattenSeq(q)[j])
<1> DEFINE l == Len(q)
<1>1. l \in Nat /\ Len(p) = l OBVIOUS
<1>2. PICK g : Joins(p, l, PrivateKey, g) /\ FlattenSeq(p) = g[l] BY <1>1, FlattenSteps
<1>3. PICK h : Joins(q, l, WritableKeys, h) /\ FlattenSeq(q) = h[l] BY FlattenSteps
<1>4. \A i \in 1..l : p[i] \in Seq(PrivateKey) /\ q[i] \in Seq(WritableKeys) OBVIOUS
<1> DEFINE Same(i) == Len(g[i]) = Len(h[i]) /\ \A j \in 1..Len(h[i]) : g[i][j] = to_pkcs8(h[i][j])
           S == {i \in 0..l : Same(i)}
<1> HIDE DEF l
<1>5. 0 \in S
  <2>1. g[0] = <<>> /\ h[0] = <<>> BY <1>2, <1>3 DEF Joins
  <2>2. Same(0) BY <2>1
  <2> QED BY <1>1, <2>2
<1>6. ASSUME NEW i \in 0..(l - 1), i \in S PROVE i + 1 \in S
  <2>1. i \in 0..l /\ i + 1 \in 1..l /\ i + 1 \in 0..l /\ (i + 1) - 1 = i BY <1>1
  <2> DEFINE a == g[i]
             b == h[i]
             c == p[i + 1]
             d == q[i + 1]
  <2>2. g[i + 1] = a \o c /\ a \in Seq(PrivateKey) BY <1>2, <2>1 DEF Joins
  <2>3. h[i + 1] = b \o d /\ b \in Seq(WritableKeys) BY <1>3, <2>1 DEF Joins
  <2>4. c \in Seq(PrivateKey) /\ d \in Seq(WritableKeys) BY <1>4, <2>1
  <2>5. Len(a) = Len(b) /\ \A j \in 1..Len(b) : a[j] = to_pkcs8(b[j]) BY <1>6
  <2>6. Len(c) = Len(d) /\ \A j \in 1..Len(d) : c[j] = to_pkcs8(d[j]) BY <2>1 DEF l
  <2> HIDE DEF a, b, c, d
  <2>7. /\ Len(a \o c) = Len(a) + Len(c) /\ Len(b \o d) = Len(b) + Len(d)
        /\ Len(a) \in Nat /\ Len(d) \in Nat
    BY <2>2, <2>3, <2>4
  <2>8. ASSUME NEW j \in 1..Len(b \o d) PROVE (a \o c)[j] = to_pkcs8((b \o d)[j])
    <3>1. CASE j <= Len(b)
      <4>1. j \in 1..Len(b) BY <2>5, <2>7, <3>1
      <4>2. (a \o c)[j] = a[j] /\ (b \o d)[j] = b[j] BY <2>2, <2>3, <2>4, <2>5, <4>1, ConcatIs
      <4> QED BY <2>5, <4>1, <4>2
    <3>2. CASE ~(j <= Len(b))
      <4>1. j - Len(b) \in 1..Len(d) /\ Len(b) + (j - Len(b)) = j BY <2>5, <2>7, <3>2
      <4>2. (b \o d)[j] = d[j - Len(b)] BY <2>3, <2>4, <4>1, ConcatIs
      <4>3. (a \o c)[j] = c[j - Len(b)] BY <2>2, <2>4, <2>5, <2>6, <4>1, ConcatIs
      <4> QED BY <2>6, <4>1, <4>2, <4>3
    <3> QED BY <3>1, <3>2
  <2>9. Same(i + 1) BY <2>2, <2>3, <2>5, <2>6, <2>7, <2>8
  <2> QED BY <2>1, <2>9
<1> HIDE DEF S
<1>7. 0..l \subseteq S BY <1>1, <1>5, <1>6, PlaceInduction
<1>8. l \in S BY <1>1, <1>7
<1> QED BY <1>2, <1>3, <1>8 DEF S

\* from_files and Written, file by file.
LEMMA LoadedKeys ==
  ASSUME NEW files, Len(files) \in Nat, DOMAIN files = 1..Len(files),
         \A i \in DOMAIN files : HostKeyFile(files[i])
  PROVE  \E loaded \in Seq(PrivateKey) :
           /\ from_files(files) = new(loaded)
           /\ Written(files) \in Seq(WritableKeys)
           /\ Len(loaded) = Len(Written(files))
           /\ \A j \in 1..Len(loaded) : loaded[j] = to_pkcs8(Written(files)[j])
<1> DEFINE p == [i \in DOMAIN files |-> KeysOf(files[i])]
           q == [i \in DOMAIN files |-> Kept(files[i])]
           n == Len(files)
<1>1. from_files(files) = new(FlattenSeq(p)) BY DEF from_files
<1>2. Written(files) = FlattenSeq(q) BY DEF Written, Kept
<1>3. \A i \in 1..n : p[i] \in Seq(PrivateKey) /\ q[i] \in Seq(WritableKeys) BY KeysOfFile
<1>4. \A i \in 1..n : /\ Len(p[i]) = Len(q[i])
                      /\ \A j \in 1..Len(q[i]) : p[i][j] = to_pkcs8(q[i][j])
  BY KeysOfFile
<1>5. /\ n \in Nat /\ DOMAIN p = 1..n /\ DOMAIN q = 1..n
      /\ p = [i \in 1..n |-> p[i]] /\ q = [i \in 1..n |-> q[i]]
  OBVIOUS
<1> HIDE DEF p, q, n
<1>6. p \in [1..n -> Seq(PrivateKey)] /\ q \in [1..n -> Seq(WritableKeys)] BY <1>3, <1>5
<1>7. p \in Seq(Seq(PrivateKey)) /\ Len(p) = n BY <1>5, <1>6, FunctionIsSeq
<1>8. q \in Seq(Seq(WritableKeys)) /\ Len(q) = n BY <1>5, <1>6, FunctionIsSeq
<1>9. /\ Len(FlattenSeq(p)) = Len(FlattenSeq(q))
      /\ \A j \in 1..Len(FlattenSeq(q)) : FlattenSeq(p)[j] = to_pkcs8(FlattenSeq(q)[j])
  BY <1>4, <1>7, <1>8, FlattenKeys
<1>10. FlattenSeq(p) \in Seq(PrivateKey) /\ FlattenSeq(q) \in Seq(WritableKeys)
  BY <1>7, <1>8, FlattenType
<1> QED BY <1>1, <1>2, <1>9, <1>10

\* from_files, for any number of files of any keys, written by to_bytes and
\* perhaps changed since in a way the parser can tell: the server loads the keys
\* of the files that are as they were written, in their order, with every byte of
\* a scalar in its place, and none of the others, or it refuses to start.
THEOREM HostKeysKept ==
  ASSUME NEW files, Len(files) \in Nat, DOMAIN files = 1..Len(files),
         \A i \in DOMAIN files : HostKeyFile(files[i])
  PROVE  KeysKept(files)
<1> DEFINE w == Written(files)
<1>1. PICK ks \in Seq(PrivateKey) :
           /\ from_files(files) = new(ks)
           /\ w \in Seq(WritableKeys)
           /\ Len(ks) = Len(w)
           /\ \A j \in 1..Len(ks) : ks[j] = to_pkcs8(w[j])
  BY LoadedKeys
<1> DEFINE Fits == /\ Len(w) \in 1..(MAX_KEYS - 1)
                   /\ \A i \in DOMAIN w : w[i].algorithm = Ecdsa => w[i].public = "matching"
<1>2. SUFFICES IF Fits
                 THEN /\ new(ks).error = "none"
                      /\ Len(new(ks).keys) = Len(w)
                      /\ \A i \in DOMAIN w :
                           new(ks).keys[i] = [algorithm |-> w[i].algorithm, secret |-> w[i].secret,
                                              public |-> "matching"]
                 ELSE new(ks).error # "none" /\ new(ks).keys = <<>>
  BY <1>1 DEF KeysKept
<1>3. /\ MAX_KEYS \in Nat \ {0} /\ Len(w) \in Nat /\ DOMAIN w = 1..Len(w) /\ DOMAIN ks = 1..Len(w)
      /\ \A i \in 1..Len(w) : w[i] \in WritableKeys
  BY <1>1, HostKeysAssumption, ElementOfSeq
<1> HIDE DEF w
<1>4. \A i \in 1..Len(w) :
        /\ signing_key_from_pkcs8(ks[i]) <=> (w[i].algorithm = Ecdsa => w[i].public = "matching")
        /\ signing_key_from_pkcs8(ks[i]) =>
             ks[i] = [algorithm |-> w[i].algorithm, secret |-> w[i].secret, public |-> "matching"]
  BY <1>1, <1>3, SigningKey
<1>5. CASE Fits
  <2>1. \A i \in DOMAIN ks : signing_key_from_pkcs8(ks[i]) BY <1>3, <1>4, <1>5
  <2>2. ks # <<>> /\ ~(Len(ks) >= MAX_KEYS) BY <1>1, <1>3, <1>5
  <2>3. new(ks) = [error |-> "none", keys |-> ks] BY <2>1, <2>2 DEF new
  <2> QED BY <1>1, <1>3, <1>4, <1>5, <2>1, <2>3
<1>6. CASE ~Fits
  <2>1. CASE Len(w) = 0
    <3>1. ks = <<>> /\ ~(Len(ks) >= MAX_KEYS) /\ DOMAIN ks = {} BY <1>1, <1>3, <2>1
    <3>2. new(ks) = [error |-> "NoHostKeys", keys |-> <<>>] BY <3>1 DEF new
    <3> QED BY <1>6, <3>2
  <2>2. CASE Len(w) >= MAX_KEYS
    <3>1. new(ks).error # "none" /\ new(ks).keys = <<>> BY <1>1, <2>2 DEF new
    <3> QED BY <1>6, <3>1
  <2>3. CASE Len(w) \in 1..(MAX_KEYS - 1)
    <3>1. PICK i \in 1..Len(w) : ~signing_key_from_pkcs8(ks[i]) BY <1>3, <1>4, <1>6, <2>3
    <3>2. i <= MAX_KEYS BY <1>3, <2>3
    <3>3. new(ks) = [error |-> "Crypto", keys |-> <<>>] BY <1>3, <3>1, <3>2 DEF new
    <3> QED BY <1>6, <3>3
  <2>4. Len(w) = 0 \/ Len(w) >= MAX_KEYS \/ Len(w) \in 1..(MAX_KEYS - 1) BY <1>3
  <2> QED BY <2>1, <2>2, <2>3, <2>4
<1> QED BY <1>5, <1>6

\* The keys of the server, when it has any: its host keys have an algorithm.
LEMMA LoadedType ==
  ASSUME NEW files, Len(files) \in Nat, DOMAIN files = 1..Len(files),
         \A i \in DOMAIN files : HostKeyFile(files[i])
  PROVE  from_files(files).keys \in Seq(PrivateKey)
<1>1. PICK ks \in Seq(PrivateKey) : from_files(files) = new(ks) BY LoadedKeys
<1>2. new(ks).keys = ks \/ new(ks).keys = <<>> BY DEF new
<1>3. <<>> \in Seq(PrivateKey) OBVIOUS
<1> DEFINE loaded == new(ks).keys
<1>4. from_files(files).keys = loaded BY <1>1
<1>5. loaded = ks \/ loaded = <<>> BY <1>2
<1> HIDE DEF loaded
<1>6. loaded \in Seq(PrivateKey) BY <1>3, <1>5
<1> QED BY <1>4, <1>6

-----------------------------------------------------------------------------
(* Negotiation. *)

\* The first of the places of a list.
LEMMA FirstCommon ==
  ASSUME NEW list \in Seq(Name), NEW places \in SUBSET DOMAIN list, places # {}
  PROVE  \E i \in DOMAIN list :
           /\ first_common(list, places) = list[i]
           /\ i \in places
           /\ \A j \in 1..(i - 1) : j \in DOMAIN list /\ j \notin places
<1>1. DOMAIN list = 1..Len(list) /\ Len(list) \in Nat OBVIOUS
<1>2. places \in SUBSET Nat BY <1>1
<1>3. Min(places) \in places /\ \A y \in places : Min(places) <= y BY <1>2, MinIs
<1> DEFINE i == Min(places)
<1>4. i \in DOMAIN list /\ i \in Nat BY <1>1, <1>3
<1>5. first_common(list, places) = list[i] BY DEF first_common
<1> HIDE DEF i
<1>6. \A j \in 1..(i - 1) : j \in DOMAIN list /\ j \notin places BY <1>1, <1>3, <1>4 DEF i
<1> QED BY <1>3, <1>4, <1>5, <1>6 DEF i

\* choose takes from each list what RFC 4253 says, for all lists it succeeds with.
LEMMA ChooseFollowsRfc ==
  ASSUME NEW client, IsInit(client), NEW server, CanChoose(client, server)
  PROVE  FollowsRfc(client, server, choose(client, server))
<1> DEFINE chosen == choose(client, server)
           k == client.key_exchange_algorithms
           h == client.server_host_key_algorithms
           c == client.encryption_algorithms_client_to_server
           s == client.encryption_algorithms_server_to_client
           sk == server.key_exchange_algorithms
           sh == server.server_host_key_algorithms
           sc == server.encryption_algorithms_client_to_server
           ss == server.encryption_algorithms_server_to_client
           right(mine, theirs, name) ==
             \E i \in DOMAIN mine :
               /\ mine[i] = name
               /\ Contains(theirs, name)
               /\ \A j \in 1..(i - 1) : Contains(theirs, mine[j]) => mine[j] \in ExtensionId
<1>1. /\ Places(client, server, 1) = CommonKeyExchange(k, sk)
      /\ Places(client, server, 2) = Common(h, sh)
      /\ Places(client, server, 3) = Common(c, sc)
      /\ Places(client, server, 4) = Common(s, ss)
  BY DEF Places, Lists
<1>2. /\ chosen.key_exchange = first_common(k, CommonKeyExchange(k, sk))
      /\ chosen.server_host_key = first_common(h, Common(h, sh))
      /\ chosen.encryption_client_to_server = first_common(c, Common(c, sc))
      /\ chosen.encryption_server_to_client = first_common(s, Common(s, ss))
  BY <1>1 DEF choose, Lists
<1>3. /\ CommonKeyExchange(k, sk) # {} /\ Common(h, sh) # {}
      /\ Common(c, sc) # {} /\ Common(s, ss) # {}
  BY <1>1 DEF CanChoose
<1>4. k \in Seq(Name) /\ h \in Seq(Name) /\ c \in Seq(Name) /\ s \in Seq(Name) BY DEF IsInit
<1> SUFFICES /\ right(k, sk, chosen.key_exchange)
             /\ chosen.key_exchange \notin ExtensionId
             /\ right(h, sh, chosen.server_host_key)
             /\ right(c, sc, chosen.encryption_client_to_server)
             /\ right(s, ss, chosen.encryption_server_to_client)
  BY DEF FollowsRfc
<1> HIDE DEF chosen, k, h, c, s, sk, sh, sc, ss
<1>5. ASSUME NEW mine \in Seq(Name), NEW theirs, Common(mine, theirs) # {}
      PROVE  right(mine, theirs, first_common(mine, Common(mine, theirs)))
  <2>1. Common(mine, theirs) \subseteq DOMAIN mine BY DEF Common
  <2>2. PICK i \in DOMAIN mine :
           /\ first_common(mine, Common(mine, theirs)) = mine[i]
           /\ i \in Common(mine, theirs)
           /\ \A j \in 1..(i - 1) : j \in DOMAIN mine /\ j \notin Common(mine, theirs)
    BY <1>5, <2>1, FirstCommon
  <2>3. Contains(theirs, mine[i]) BY <2>2 DEF Common
  <2>4. \A j \in 1..(i - 1) : ~Contains(theirs, mine[j]) BY <2>2 DEF Common
  <2> QED BY <2>2, <2>3, <2>4
<1>6. right(k, sk, chosen.key_exchange) /\ chosen.key_exchange \notin ExtensionId
  <2>1. CommonKeyExchange(k, sk) \subseteq DOMAIN k BY DEF CommonKeyExchange, Common
  <2>2. PICK i \in DOMAIN k :
           /\ first_common(k, CommonKeyExchange(k, sk)) = k[i]
           /\ i \in CommonKeyExchange(k, sk)
           /\ \A j \in 1..(i - 1) : j \in DOMAIN k /\ j \notin CommonKeyExchange(k, sk)
    BY <1>3, <1>4, <2>1, FirstCommon
  <2>3. Contains(sk, k[i]) /\ k[i] \notin ExtensionId BY <2>2 DEF CommonKeyExchange, Common, typed
  <2>4. \A j \in 1..(i - 1) : Contains(sk, k[j]) => k[j] \in ExtensionId
    BY <2>2 DEF CommonKeyExchange, Common, typed
  <2> QED BY <1>2, <2>2, <2>3, <2>4
<1>7. right(h, sh, chosen.server_host_key) BY <1>2, <1>3, <1>4, <1>5
<1>8. right(c, sc, chosen.encryption_client_to_server) BY <1>2, <1>3, <1>4, <1>5
<1>9. right(s, ss, chosen.encryption_server_to_client) BY <1>2, <1>3, <1>4, <1>5
<1> QED BY <1>6, <1>7, <1>8, <1>9

\* The extensions of an offer change nothing about the key exchange.
LEMMA SameKeyExchange ==
  ASSUME NEW x \in ExtensionId, NEW name, name \notin ExtensionId
  PROVE  Contains(supported_algorithms.key_exchange \o <<x>>, name)
           <=> Contains(supported_algorithms.key_exchange \o <<>>, name)
<1> DEFINE s == supported_algorithms.key_exchange
           S == {"mlkem768x25519-sha256", "curve25519-sha256", x}
<1>1. s \in Seq(S) /\ x \in S BY DEF supported_algorithms
<1>2. x # name OBVIOUS
<1> HIDE DEF s, S
<1>3. s \o <<>> = s BY <1>1
<1>4. /\ Len(s) \in Nat /\ Len(s \o <<x>>) = Len(s) + 1
      /\ \A i \in 1..Len(s) : (s \o <<x>>)[i] = s[i]
      /\ (s \o <<x>>)[Len(s) + 1] = x
  BY <1>1
<1>5. Contains(s \o <<x>>, name) <=> Contains(s, name)
  <2>1. ASSUME NEW i \in 1..(Len(s) + 1), (s \o <<x>>)[i] = name PROVE i \in 1..Len(s)
    <3>1. i # Len(s) + 1 BY <1>2, <1>4, <2>1
    <3> QED BY <1>4, <3>1
  <2>2. \A i \in 1..Len(s) : i \in 1..(Len(s) + 1) BY <1>4
  <2> QED BY <1>4, <2>1, <2>2 DEF Contains
<1> QED BY <1>3, <1>5 DEF s

\* Negotiated::choose, for all host key files and all lists a client can send,
\* the first time and again: each algorithm is the first of the client's that the
\* server has, a rekeying is with the host key of the first exchange, and the same
\* lists give the same algorithms.
THEOREM NegotiationRight ==
  ASSUME NEW files, Len(files) \in Nat, DOMAIN files = 1..Len(files),
         \A i \in DOMAIN files : HostKeyFile(files[i]),
         NEW client, IsInit(client), NEW again, IsInit(again)
  PROVE  NegotiationAgrees(files, client, again)
<1> DEFINE ks == from_files(files).keys
           offer == InitialOffer(ks)
           chosen == choose(client, offer)
           host == key(ks, chosen.server_host_key)
           reoffer == RekeyOffer(ks, host)
           rechosen == choose(again, reoffer)
           a == chosen.server_host_key
<1> SUFFICES ASSUME CanChoose(client, offer)
             PROVE  /\ FollowsRfc(client, offer, chosen)
                    /\ HasKey(ks, chosen.server_host_key)
                    /\ again = client => CanChoose(again, reoffer) /\ rechosen = chosen
                    /\ CanChoose(again, reoffer) =>
                         /\ FollowsRfc(again, reoffer, rechosen)
                         /\ rechosen.server_host_key = host.algorithm
  BY DEF NegotiationAgrees
<1>1. ks \in Seq(PrivateKey) BY LoadedType
<1>2. FollowsRfc(client, offer, chosen) BY ChooseFollowsRfc
<1>3. /\ offer.key_exchange_algorithms
           = supported_algorithms.key_exchange \o <<"kex-strict-s-v00@openssh.com">>
      /\ offer.server_host_key_algorithms = algorithms(ks)
      /\ offer.encryption_algorithms_client_to_server = supported_algorithms.encryption
      /\ offer.encryption_algorithms_server_to_client = supported_algorithms.encryption
  BY DEF InitialOffer, local
<1>4. /\ reoffer.key_exchange_algorithms = supported_algorithms.key_exchange \o <<>>
      /\ reoffer.server_host_key_algorithms = <<host.algorithm>>
      /\ reoffer.encryption_algorithms_client_to_server = supported_algorithms.encryption
      /\ reoffer.encryption_algorithms_server_to_client = supported_algorithms.encryption
  BY DEF RekeyOffer, local
<1> HIDE DEF ks, offer
<1>5. HasKey(ks, a) /\ host.algorithm = a
  <2>1. Contains(algorithms(ks), a) BY <1>2, <1>3 DEF FollowsRfc
  <2>2. DOMAIN ks = 1..Len(ks) /\ Len(ks) \in Nat BY <1>1
  <2>3. algorithms(ks) = [i \in 1..Len(ks) |-> ks[i].algorithm] BY <2>2 DEF algorithms
  <2>4. Len(algorithms(ks)) = Len(ks) BY <2>2, <2>3
  <2>5. PICK i \in 1..Len(ks) : ks[i].algorithm = a BY <2>1, <2>3, <2>4 DEF Contains
  <2> DEFINE T == {j \in DOMAIN ks : ks[j].algorithm = a}
  <2>6. T \in SUBSET Nat /\ T # {} BY <2>2, <2>5
  <2>7. Min(T) \in T BY <2>6, MinIs
  <2>8. host = ks[Min(T)] BY DEF key
  <2> HIDE DEF host
  <2>9. host.algorithm = a BY <2>7, <2>8
  <2> QED BY <2>2, <2>5, <2>9 DEF HasKey
<1> HIDE DEF host, reoffer
<1>6. ASSUME again = client PROVE CanChoose(again, reoffer) /\ rechosen = chosen
  <2> DEFINE k == client.key_exchange_algorithms
             h == client.server_host_key_algorithms
             c == client.encryption_algorithms_client_to_server
             s == client.encryption_algorithms_server_to_client
  <2>1. k \in Seq(Name) /\ h \in Seq(Name) /\ c \in Seq(Name) /\ s \in Seq(Name) BY DEF IsInit
  <2>2. CommonKeyExchange(k, offer.key_exchange_algorithms)
          = CommonKeyExchange(k, reoffer.key_exchange_algorithms)
    <3>2. "kex-strict-s-v00@openssh.com" \in ExtensionId BY DEF ExtensionId
    <3>3. \A i \in DOMAIN k : typed(k[i]) = "KeyExchange" =>
            (Contains(offer.key_exchange_algorithms, k[i])
              <=> Contains(reoffer.key_exchange_algorithms, k[i]))
      BY <1>3, <1>4, <3>2, SameKeyExchange DEF typed
    <3> HIDE DEF k
    <3> QED BY <3>3 DEF CommonKeyExchange, Common
  <2>3. /\ Common(h, offer.server_host_key_algorithms) # {}
        /\ a = first_common(h, Common(h, offer.server_host_key_algorithms))
    <3>1. Places(client, offer, 2) = Common(h, offer.server_host_key_algorithms) BY DEF Places, Lists
    <3> QED BY <3>1 DEF CanChoose, choose, Lists
  <2>4. Common(h, <<a>>) # {} /\ first_common(h, Common(h, <<a>>)) = a
    <3>1. Common(h, offer.server_host_key_algorithms) \subseteq DOMAIN h BY DEF Common
    <3>2. PICK i \in DOMAIN h : a = h[i] BY <2>1, <2>3, <3>1, FirstCommon
    <3>3. \A x : Contains(<<a>>, x) <=> x = a BY DEF Contains
    <3>4. i \in Common(h, <<a>>) BY <3>2, <3>3 DEF Common
    <3> DEFINE P == Common(h, <<a>>)
    <3>5. P \in SUBSET DOMAIN h /\ P # {} BY <3>4 DEF Common
    <3> HIDE DEF P, h, a
    <3>6. PICK j \in DOMAIN h : first_common(h, P) = h[j] /\ j \in P
      BY <2>1, <3>5, FirstCommon
    <3>7. h[j] = a BY <3>3, <3>6 DEF Common, P
    <3> QED BY <3>4, <3>6, <3>7 DEF P
  <2>5. /\ Places(client, reoffer, 1) = Places(client, offer, 1)
        /\ Places(client, reoffer, 2) = Common(h, <<a>>)
        /\ Places(client, reoffer, 3) = Places(client, offer, 3)
        /\ Places(client, reoffer, 4) = Places(client, offer, 4)
    BY <1>3, <1>4, <1>5, <2>2 DEF Places, Lists
  <2>6. CanChoose(client, reoffer) BY <2>4, <2>5 DEF CanChoose
  <2>7. first_common(Lists(client)[2], Places(client, reoffer, 2))
          = first_common(Lists(client)[2], Places(client, offer, 2))
    <3>1. Lists(client)[2] = h BY DEF Lists
    <3>2. first_common(h, Places(client, offer, 2)) = a BY <3>1 DEF choose
    <3> QED BY <2>4, <2>5, <3>1, <3>2
  <2>8. choose(client, reoffer) = choose(client, offer) BY <2>5, <2>7 DEF choose
  <2> QED BY <1>6, <2>6, <2>8
<1>7. ASSUME CanChoose(again, reoffer)
      PROVE  FollowsRfc(again, reoffer, rechosen) /\ rechosen.server_host_key = host.algorithm
  <2>1. FollowsRfc(again, reoffer, rechosen) BY <1>7, ChooseFollowsRfc
  <2> HIDE DEF rechosen
  <2>2. Contains(<<host.algorithm>>, rechosen.server_host_key) BY <1>4, <2>1 DEF FollowsRfc
  <2> QED BY <2>1, <2>2 DEF Contains
<1> QED BY <1>2, <1>5, <1>6, <1>7

-----------------------------------------------------------------------------
(* Lines: finding and trimming. *)

\* The first of some places of a sequence from k on, or its end.
LEMMA FirstOf ==
  ASSUME NEW n \in Nat, NEW k \in 1..(n + 1), NEW T \in SUBSET (k..n)
  PROVE  LET m == Min(T \cup {n + 1})
         IN /\ m \in k..(n + 1)
            /\ \A i \in k..(m - 1) : i \notin T
            /\ m <= n => m \in T
<1> DEFINE A == T \cup {n + 1}
           m == Min(A)
<1>1. A \in SUBSET Nat /\ A # {} OBVIOUS
<1>2. m \in A /\ \A y \in A : m <= y BY <1>1, MinIs
<1> HIDE DEF m
<1>3. m \in k..(n + 1) BY <1>2
<1>4. \A i \in k..(m - 1) : i \notin T BY <1>2, <1>3
<1>5. m <= n => m \in T BY <1>2, <1>3
<1> QED BY <1>3, <1>4, <1>5 DEF m

\* The only place that is first.
LEMMA FirstIs ==
  ASSUME NEW n \in Nat, NEW k \in 1..(n + 1), NEW T \in SUBSET (k..n),
         NEW m \in k..(n + 1), \A i \in k..(m - 1) : i \notin T, m <= n => m \in T
  PROVE  Min(T \cup {n + 1}) = m
<1> DEFINE A == T \cup {n + 1}
<1>1. A \in SUBSET Nat /\ m \in A OBVIOUS
<1>2. \A y \in A : m <= y OBVIOUS
<1> QED BY <1>1, <1>2, MinUnique

\* find stops at the first of the symbols.
LEMMA FindIs ==
  ASSUME NEW s \in Seq(Symbol), NEW k \in 1..(Len(s) + 1), NEW X
  PROVE  /\ find(s, k, X) \in k..(Len(s) + 1)
         /\ \A i \in k..(find(s, k, X) - 1) : s[i] \notin X
         /\ find(s, k, X) <= Len(s) => s[find(s, k, X)] \in X
<1> DEFINE T == {i \in k..Len(s) : s[i] \in X}
           m == Min(T \cup {Len(s) + 1})
<1>1. Len(s) \in Nat /\ T \in SUBSET (k..Len(s)) OBVIOUS
<1>2. /\ m \in k..(Len(s) + 1)
      /\ \A i \in k..(m - 1) : i \notin T
      /\ m <= Len(s) => m \in T
  BY <1>1, FirstOf
<1>3. find(s, k, X) = m BY DEF find
<1> HIDE DEF m
<1>4. \A i \in k..(m - 1) : i \in k..Len(s) BY <1>1, <1>2
<1> QED BY <1>2, <1>3, <1>4

\* The only place where find can stop.
LEMMA FindUnique ==
  ASSUME NEW s \in Seq(Symbol), NEW k \in 1..(Len(s) + 1), NEW X, NEW m \in k..(Len(s) + 1),
         \A i \in k..(m - 1) : s[i] \notin X, m <= Len(s) => s[m] \in X
  PROVE  find(s, k, X) = m
<1> DEFINE T == {i \in k..Len(s) : s[i] \in X}
<1>1. Len(s) \in Nat /\ T \in SUBSET (k..Len(s)) OBVIOUS
<1>2. \A i \in k..(m - 1) : i \notin T OBVIOUS
<1>3. m <= Len(s) => m \in T OBVIOUS
<1> HIDE DEF T
<1>4. Min(T \cup {Len(s) + 1}) = m BY <1>1, <1>2, <1>3, FirstIs
<1> QED BY <1>4 DEF find, T

\* The quote that ends a value.
LEMMA EndQuoteIs ==
  ASSUME NEW s \in Seq(Symbol), NEW k \in 0..Len(s)
  PROVE  /\ EndQuote(s, k) \in (k + 1)..(Len(s) + 1)
         /\ \A i \in (k + 1)..(EndQuote(s, k) - 1) : s[i] = Quote => s[i - 1] = Backslash
         /\ EndQuote(s, k) <= Len(s) =>
              s[EndQuote(s, k)] = Quote /\ s[EndQuote(s, k) - 1] # Backslash
<1> DEFINE T == {i \in (k + 1)..Len(s) : s[i] = Quote /\ s[i - 1] # Backslash}
           n == Len(s)
           j == k + 1
           m == Min(T \cup {n + 1})
<1>1. n \in Nat /\ j \in 1..(n + 1) /\ T \in SUBSET (j..n) OBVIOUS
<1>3. EndQuote(s, k) = m BY DEF EndQuote
<1> HIDE DEF T, j, n
<1>2. /\ m \in j..(n + 1)
      /\ \A i \in j..(m - 1) : i \notin T
      /\ m <= n => m \in T
  BY <1>1, FirstOf
<1> HIDE DEF m
<1>4. \A i \in j..(m - 1) : i \in j..n BY <1>1, <1>2
<1> QED BY <1>2, <1>3, <1>4 DEF T, j, n

\* The only place where a value can end.
LEMMA EndQuoteUnique ==
  ASSUME NEW s \in Seq(Symbol), NEW k \in 0..Len(s), NEW m \in (k + 1)..Len(s),
         \A i \in (k + 1)..(m - 1) : s[i] = Quote => s[i - 1] = Backslash,
         s[m] = Quote, s[m - 1] # Backslash
  PROVE  EndQuote(s, k) = m
<1> DEFINE T == {i \in (k + 1)..Len(s) : s[i] = Quote /\ s[i - 1] # Backslash}
           n == Len(s)
           j == k + 1
<1>1. n \in Nat /\ j \in 1..(n + 1) /\ T \in SUBSET (j..n) /\ m \in j..(n + 1) OBVIOUS
<1>2. \A i \in j..(m - 1) : i \notin T OBVIOUS
<1>3. m <= n => m \in T OBVIOUS
<1> HIDE DEF T, j, n
<1>4. Min(T \cup {n + 1}) = m BY <1>1, <1>2, <1>3, FirstIs
<1> QED BY <1>4 DEF EndQuote, T, j, n

\* A line from place k on.
LEMMA FromIs ==
  ASSUME NEW s \in Seq(Symbol), NEW k \in 1..(Len(s) + 1)
  PROVE  /\ From(s, k) \in Seq(Symbol)
         /\ Len(From(s, k)) = Len(s) - k + 1
         /\ \A i \in 1..(Len(s) - k + 1) : From(s, k)[i] = s[k + i - 1]
BY SubSeqIs DEF From

\* From a place of such a rest on, the line from a later place on.
LEMMA FromFrom ==
  ASSUME NEW s \in Seq(Symbol), NEW k \in 1..(Len(s) + 1), NEW m \in k..(Len(s) + 1)
  PROVE  From(From(s, k), m - k + 1) = From(s, m)
<1> DEFINE t == From(s, k)
           u == From(t, m - k + 1)
           v == From(s, m)
<1>1. Len(s) \in Nat /\ m \in 1..(Len(s) + 1) OBVIOUS
<1>2. /\ t \in Seq(Symbol) /\ Len(t) = Len(s) - k + 1
      /\ \A i \in 1..(Len(s) - k + 1) : t[i] = s[k + i - 1]
  BY FromIs
<1>3. /\ v \in Seq(Symbol) /\ Len(v) = Len(s) - m + 1
      /\ \A i \in 1..(Len(s) - m + 1) : v[i] = s[m + i - 1]
  BY <1>1, FromIs
<1>4. m - k + 1 \in 1..(Len(t) + 1) BY <1>1, <1>2
<1> HIDE DEF t, v
<1>5. /\ u \in Seq(Symbol) /\ Len(u) = Len(t) - (m - k + 1) + 1
      /\ \A i \in 1..(Len(t) - (m - k + 1) + 1) : u[i] = t[(m - k + 1) + i - 1]
  BY <1>2, <1>4, FromIs
<1> HIDE DEF u
<1>6. Len(u) = Len(v) BY <1>1, <1>2, <1>3, <1>5
<1>7. ASSUME NEW i \in 1..Len(u) PROVE u[i] = v[i]
  <2>1. /\ i \in 1..(Len(t) - (m - k + 1) + 1) /\ i \in 1..(Len(s) - m + 1)
        /\ (m - k + 1) + i - 1 \in 1..(Len(s) - k + 1)
        /\ k + ((m - k + 1) + i - 1) - 1 = m + i - 1
    BY <1>1, <1>2, <1>3, <1>5, <1>6
  <2> QED BY <1>2, <1>3, <1>5, <2>1
<1>8. u = v BY <1>3, <1>5, <1>6, <1>7, SameSeq
<1> QED BY <1>8 DEF u, v, t

\* trim_start takes the spaces in front off.
LEMMA TrimIs ==
  ASSUME NEW s \in Seq(Symbol), NEW m \in 1..(Len(s) + 1),
         \A i \in 1..(m - 1) : s[i] = Space, m <= Len(s) => s[m] # Space
  PROVE  trim_start(s) = From(s, m)
<1> DEFINE T == {i \in DOMAIN s : s[i] # Space}
<1>1. /\ Len(s) \in Nat /\ DOMAIN s = 1..Len(s) /\ T \in SUBSET (1..Len(s))
      /\ 1 \in 1..(Len(s) + 1)
  OBVIOUS
<1>2. \A i \in 1..(m - 1) : i \notin T OBVIOUS
<1>3. m <= Len(s) => m \in T BY <1>1
<1> HIDE DEF T
<1>4. Min(T \cup {Len(s) + 1}) = m BY <1>1, <1>2, <1>3, FirstIs
<1> QED BY <1>4 DEF trim_start, T

\* There is a place where the spaces end.
LEMMA TrimExists ==
  ASSUME NEW s \in Seq(Symbol), NEW k \in 1..(Len(s) + 1)
  PROVE  \E m \in k..(Len(s) + 1) :
           (\A i \in k..(m - 1) : s[i] = Space) /\ (m <= Len(s) => s[m] # Space)
<1> DEFINE T == {i \in k..Len(s) : s[i] # Space}
           m == Min(T \cup {Len(s) + 1})
<1>1. Len(s) \in Nat /\ T \in SUBSET (k..Len(s)) OBVIOUS
<1> HIDE DEF T
<1>2. /\ m \in k..(Len(s) + 1)
      /\ \A i \in k..(m - 1) : i \notin T
      /\ m <= Len(s) => m \in T
  BY <1>1, FirstOf
<1> HIDE DEF m
<1>3. \A i \in k..(m - 1) : i \in k..Len(s) BY <1>1, <1>2
<1> QED BY <1>2, <1>3 DEF T

\* trim_start on the rest of a line.
LEMMA TrimFrom ==
  ASSUME NEW s \in Seq(Symbol), NEW k \in 1..(Len(s) + 1), NEW m \in k..(Len(s) + 1),
         \A i \in k..(m - 1) : s[i] = Space, m <= Len(s) => s[m] # Space
  PROVE  trim_start(From(s, k)) = From(s, m)
<1> DEFINE t == From(s, k)
           n == m - k + 1
<1>1. /\ t \in Seq(Symbol) /\ Len(t) = Len(s) - k + 1
      /\ \A i \in 1..(Len(s) - k + 1) : t[i] = s[k + i - 1]
  BY FromIs
<1>2. Len(s) \in Nat OBVIOUS
<1> HIDE DEF t
<1>3. n \in 1..(Len(t) + 1) BY <1>1, <1>2
<1>4. ASSUME NEW i \in 1..(n - 1) PROVE t[i] = Space
  <2>1. i \in 1..(Len(s) - k + 1) /\ k + i - 1 \in k..(m - 1) BY <1>2
  <2> QED BY <1>1, <2>1
<1>5. ASSUME n <= Len(t) PROVE t[n] # Space
  <2>1. n \in 1..(Len(s) - k + 1) /\ k + n - 1 = m /\ m <= Len(s) BY <1>1, <1>2, <1>5
  <2> QED BY <1>1, <2>1
<1> HIDE DEF n
<1>6. trim_start(t) = From(t, n) BY <1>1, <1>3, <1>4, <1>5, TrimIs
<1> QED BY <1>6, FromFrom DEF t, n

\* A space in front makes no difference.
LEMMA TrimSpace ==
  ASSUME NEW s \in Seq(Symbol), NEW k \in 1..Len(s), s[k] = Space
  PROVE  trim_start(From(s, k)) = trim_start(From(s, k + 1))
<1>1. k \in 1..(Len(s) + 1) /\ k + 1 \in 1..(Len(s) + 1) OBVIOUS
<1>2. PICK m \in (k + 1)..(Len(s) + 1) :
        (\A i \in (k + 1)..(m - 1) : s[i] = Space) /\ (m <= Len(s) => s[m] # Space)
  BY <1>1, TrimExists
<1>3. m \in k..(Len(s) + 1) /\ \A i \in k..(m - 1) : s[i] = Space BY <1>2
<1>4. trim_start(From(s, k + 1)) = From(s, m) BY <1>1, <1>2, TrimFrom
<1>5. trim_start(From(s, k)) = From(s, m) BY <1>1, <1>2, <1>3, TrimFrom
<1> QED BY <1>4, <1>5

\* A trimmed line is a line.
LEMMA TrimStartType ==
  ASSUME NEW s \in Seq(Symbol)
  PROVE  trim_start(s) \in Seq(Symbol)
<1>1. 1 \in 1..(Len(s) + 1) OBVIOUS
<1>2. PICK m \in 1..(Len(s) + 1) :
        (\A i \in 1..(m - 1) : s[i] = Space) /\ (m <= Len(s) => s[m] # Space)
  BY <1>1, TrimExists
<1>3. trim_start(s) = From(s, m) BY <1>2, TrimIs
<1> QED BY <1>3, FromIs

\* The symbols of a line backwards.
LEMMA ReverseIs ==
  ASSUME NEW s \in Seq(Symbol)
  PROVE  /\ Reverse(s) \in Seq(Symbol)
         /\ Len(Reverse(s)) = Len(s)
         /\ \A i \in 1..Len(s) : Reverse(s)[i] = s[(Len(s) - i) + 1]
<1>1. Len(s) \in Nat /\ \A i \in 1..Len(s) : s[(Len(s) - i) + 1] \in Symbol OBVIOUS
<1>2. Reverse(s) = [i \in 1..Len(s) |-> s[(Len(s) - i) + 1]] BY DEF Reverse
<1>3. Reverse(s) \in [1..Len(s) -> Symbol] BY <1>1, <1>2
<1> QED BY <1>1, <1>2, <1>3, FunctionIsSeq

\* A line trimmed at both ends is a line.
LEMMA TrimType ==
  ASSUME NEW s \in Seq(Symbol)
  PROVE  trim(s) \in Seq(Symbol)
BY TrimStartType, ReverseIs DEF trim

\* A line without spaces at its ends stays as it is.
LEMMA TrimNothing ==
  ASSUME NEW s \in Seq(Symbol), s # <<>>, s[1] # Space, s[Len(s)] # Space
  PROVE  trim(s) = s
<1>0. Len(s) \in Nat \ {0} /\ 1 \in 1..(Len(s) + 1) BY EmptySeq
<1>1. trim_start(s) = s
  <2>1. trim_start(s) = From(s, 1) BY <1>0, TrimIs
  <2> QED BY <2>1 DEF From
<1> DEFINE r == Reverse(s)
<1>2. /\ r \in Seq(Symbol) /\ Len(r) = Len(s)
      /\ \A i \in 1..Len(s) : r[i] = s[(Len(s) - i) + 1]
  BY ReverseIs
<1> HIDE DEF r
<1>3. r[1] # Space
  <2>1. 1 \in 1..Len(s) /\ (Len(s) - 1) + 1 = Len(s) BY <1>0
  <2> QED BY <1>2, <2>1
<1>4. trim_start(r) = r
  <2>1. trim_start(r) = From(r, 1) BY <1>0, <1>2, <1>3, TrimIs
  <2> QED BY <1>2, <2>1 DEF From
<1>5. Reverse(r) = s
  <2>1. /\ Reverse(r) \in Seq(Symbol) /\ Len(Reverse(r)) = Len(s)
        /\ \A i \in 1..Len(s) : Reverse(r)[i] = r[(Len(s) - i) + 1]
    BY <1>2, ReverseIs
  <2>2. ASSUME NEW i \in 1..Len(s) PROVE Reverse(r)[i] = s[i]
    <3>1. (Len(s) - i) + 1 \in 1..Len(s) /\ (Len(s) - ((Len(s) - i) + 1)) + 1 = i BY <1>0
    <3> QED BY <1>2, <2>1, <3>1
  <2> HIDE DEF r
  <2> QED BY <2>1, <2>2, SameSeq
<1> QED BY <1>1, <1>4, <1>5 DEF trim, r

-----------------------------------------------------------------------------
(* Escaping and its inverse. *)

\* One sequence more is one more joined.
LEMMA FlattenAppend ==
  ASSUME NEW U, NEW p \in Seq(Seq(U)), NEW x \in Seq(U)
  PROVE  FlattenSeq(Append(p, x)) = FlattenSeq(p) \o x
<1> DEFINE n == Len(p)
           q == Append(p, x)
<1>1. PICK g : Joins(p, n, U, g) /\ FlattenSeq(p) = g[n] BY FlattenSteps
<1>2. /\ n \in Nat /\ q \in Seq(Seq(U)) /\ Len(q) = n + 1
      /\ q[n + 1] = x /\ \A i \in 1..n : q[i] = p[i]
  OBVIOUS
<1> HIDE DEF n, q
<1>3. n \in 0..n /\ n + 1 \in 0..(n + 1) /\ n + 1 \in 1..(n + 1) BY <1>2
<1> DEFINE y == g[n] \o x
           h == [i \in 0..(n + 1) |-> IF i <= n THEN g[i] ELSE y]
<1>4. y \in Seq(U) BY <1>1, <1>3 DEF Joins
<1> HIDE DEF y
<1>5. h \in [0..(n + 1) -> Seq(U)] BY <1>1, <1>2, <1>4 DEF Joins
<1>6. \A i \in 0..n : h[i] = g[i] BY <1>2
<1>7. h[n + 1] = y BY <1>2
<1> HIDE DEF h
<1>8. h[0] = <<>> BY <1>1, <1>2, <1>6 DEF Joins
<1>9. ASSUME NEW i \in 1..(n + 1) PROVE h[i] = h[i - 1] \o q[i]
  <2>1. CASE i = n + 1
    <3>1. i - 1 = n BY <1>2, <2>1
    <3> QED BY <1>2, <1>3, <1>6, <1>7, <2>1, <3>1 DEF y
  <2>2. CASE i # n + 1
    <3>1. i \in 1..n /\ i \in 0..n /\ i - 1 \in 0..n BY <1>2, <2>2
    <3>2. g[i] = g[i - 1] \o p[i] BY <1>1, <3>1 DEF Joins
    <3> QED BY <1>2, <1>6, <3>1, <3>2
  <2> QED BY <2>1, <2>2
<1>10. Joins(q, Len(q), U, h) BY <1>2, <1>5, <1>8, <1>9 DEF Joins
<1>11. FlattenSeq(q) = h[Len(q)] BY <1>2, <1>10, FlattenJoins
<1> QED BY <1>1, <1>2, <1>7, <1>11 DEF y, q

\* What a symbol of a command becomes between quotes.
Piece(x) == IF x = Quote THEN <<Backslash, Quote>> ELSE <<x>>
Pieces(c) == [i \in DOMAIN c |-> Piece(c[i])]

\* A piece has one symbol or two and ends in the symbol it is for.
LEMMA PieceIs ==
  ASSUME NEW x \in Symbol
  PROVE  /\ Piece(x) \in Seq(Symbol)
         /\ Len(Piece(x)) \in 1..2
         /\ Piece(x)[Len(Piece(x))] = x
<1>1. Backslash \in Symbol /\ Quote \in Symbol BY KeyOptionsAssumption
<1> QED BY <1>1 DEF Piece

\* Escape joins the pieces of a command.
LEMMA PiecesIs ==
  ASSUME NEW c \in Seq(Symbol)
  PROVE  /\ Pieces(c) \in Seq(Seq(Symbol)) /\ Len(Pieces(c)) = Len(c)
         /\ \A i \in 1..Len(c) : Pieces(c)[i] = Piece(c[i])
         /\ Escape(c) = FlattenSeq(Pieces(c))
<1>1. Len(c) \in Nat /\ DOMAIN c = 1..Len(c) /\ \A i \in 1..Len(c) : c[i] \in Symbol OBVIOUS
<1>2. \A i \in 1..Len(c) : Piece(c[i]) \in Seq(Symbol) BY <1>1, PieceIs
<1>3. Pieces(c) \in [1..Len(c) -> Seq(Symbol)] BY <1>1, <1>2 DEF Pieces
<1>4. Pieces(c) \in Seq(Seq(Symbol)) /\ Len(Pieces(c)) = Len(c) BY <1>1, <1>3, FunctionIsSeq
<1>5. Escape(c) = FlattenSeq(Pieces(c)) BY DEF Escape, Pieces, Piece
<1>6. \A i \in 1..Len(c) : Pieces(c)[i] = Piece(c[i]) BY <1>1 DEF Pieces
<1> QED BY <1>4, <1>5, <1>6

\* A written command is a sequence of symbols.
LEMMA EscapeType ==
  ASSUME NEW c \in Seq(Symbol)
  PROVE  Escape(c) \in Seq(Symbol)
BY PiecesIs, FlattenType

\* The empty command is written as nothing.
LEMMA EscapeNothing == Escape(<<>>) = <<>>
<1> DEFINE c == <<>>
<1>1. c \in Seq(Symbol) /\ Len(c) = 0 OBVIOUS
<1> HIDE DEF c
<1>2. Pieces(c) \in Seq(Seq(Symbol)) /\ Len(Pieces(c)) = 0 /\ Escape(c) = FlattenSeq(Pieces(c))
  BY <1>1, PiecesIs
<1>3. PICK g : Joins(Pieces(c), Len(Pieces(c)), Symbol, g) /\ FlattenSeq(Pieces(c)) = g[Len(Pieces(c))]
  BY <1>2, FlattenSteps
<1>4. Escape(c) = <<>> BY <1>2, <1>3 DEF Joins
<1> QED BY <1>4 DEF c

\* A symbol more is a piece more.
LEMMA EscapeAppend ==
  ASSUME NEW c \in Seq(Symbol), NEW x \in Symbol
  PROVE  Escape(Append(c, x)) = Escape(c) \o Piece(x)
<1> DEFINE d == Append(c, x)
           n == Len(c)
           q == Append(Pieces(c), Piece(x))
<1>1. /\ n \in Nat /\ d \in Seq(Symbol) /\ Len(d) = n + 1
      /\ d[n + 1] = x /\ \A i \in 1..n : d[i] = c[i]
  OBVIOUS
<1>2. /\ Pieces(c) \in Seq(Seq(Symbol)) /\ Len(Pieces(c)) = n
      /\ \A i \in 1..n : Pieces(c)[i] = Piece(c[i])
      /\ Escape(c) = FlattenSeq(Pieces(c))
  BY PiecesIs
<1> HIDE DEF d, n
<1>3. /\ Pieces(d) \in Seq(Seq(Symbol)) /\ Len(Pieces(d)) = n + 1
      /\ \A i \in 1..(n + 1) : Pieces(d)[i] = Piece(d[i])
      /\ Escape(d) = FlattenSeq(Pieces(d))
  BY <1>1, PiecesIs
<1>4. Piece(x) \in Seq(Symbol) BY PieceIs
<1>5. /\ q \in Seq(Seq(Symbol)) /\ Len(q) = n + 1
      /\ q[n + 1] = Piece(x) /\ \A i \in 1..n : q[i] = Pieces(c)[i]
  BY <1>2, <1>4
<1> HIDE DEF q
<1>6. ASSUME NEW i \in 1..(n + 1) PROVE Pieces(d)[i] = q[i]
  <2>1. CASE i = n + 1 BY <1>1, <1>3, <1>5, <2>1
  <2>2. CASE i # n + 1
    <3>1. i \in 1..n BY <1>1, <2>2
    <3> QED BY <1>1, <1>2, <1>3, <1>5, <3>1
  <2> QED BY <2>1, <2>2
<1>7. Pieces(d) = q BY <1>3, <1>5, <1>6, SameSeq
<1>8. FlattenSeq(q) = FlattenSeq(Pieces(c)) \o Piece(x) BY <1>2, <1>4, FlattenAppend DEF q
<1> QED BY <1>2, <1>3, <1>7, <1>8 DEF d

\* Equal sequences with equal ends begin equal.
LEMMA Cancelled ==
  ASSUME NEW S, NEW a \in Seq(S), NEW b \in Seq(S), NEW p \in Seq(S), a \o p = b \o p
  PROVE  a = b
<1>1. /\ Len(a) \in Nat /\ Len(b) \in Nat /\ Len(p) \in Nat
      /\ Len(a \o p) = Len(a) + Len(p) /\ Len(b \o p) = Len(b) + Len(p)
  OBVIOUS
<1>2. Len(a) = Len(b) BY <1>1
<1>3. ASSUME NEW i \in 1..Len(a) PROVE a[i] = b[i]
  <2>1. (a \o p)[i] = a[i] /\ (b \o p)[i] = b[i] BY <1>2, ConcatIs
  <2> QED BY <2>1
<1> QED BY <1>2, <1>3, SameSeq

\* What a piece ends in.
LEMMA EndsIn ==
  ASSUME NEW a \in Seq(Symbol), NEW x \in Symbol, NEW y, y = a \o Piece(x)
  PROVE  y \in Seq(Symbol) /\ Len(y) \in Nat \ {0} /\ y[Len(y)] = x
<1> DEFINE p == Piece(x)
           l == Len(p)
<1>1. p \in Seq(Symbol) /\ l \in 1..2 /\ p[l] = x BY PieceIs
<1>2. y = a \o p OBVIOUS
<1> HIDE DEF p
<1>3. /\ Len(a) \in Nat /\ y \in Seq(Symbol) /\ Len(y) = Len(a) + l
      /\ \A i \in 1..l : y[Len(a) + i] = p[i]
  BY <1>1, <1>2, ConcatIs
<1> HIDE DEF l
<1>4. l \in 1..l BY <1>1
<1> QED BY <1>1, <1>3, <1>4

\* Two commands are not written the same.
LEMMA EscapeInjective ==
  ASSUME NEW c \in Seq(Symbol), NEW d \in Seq(Symbol), Escape(c) = Escape(d)
  PROVE  c = d
<1> DEFINE n == Len(c)
           m == Len(d)
           p == Pieces(c)
           q == Pieces(d)
<1>1. /\ p \in Seq(Seq(Symbol)) /\ Len(p) = n /\ \A i \in 1..n : p[i] = Piece(c[i])
      /\ Escape(c) = FlattenSeq(p)
  BY PiecesIs
<1>2. /\ q \in Seq(Seq(Symbol)) /\ Len(q) = m /\ \A i \in 1..m : q[i] = Piece(d[i])
      /\ Escape(d) = FlattenSeq(q)
  BY PiecesIs
<1>3. /\ n \in Nat /\ m \in Nat
      /\ \A i \in 1..n : c[i] \in Symbol
      /\ \A i \in 1..m : d[i] \in Symbol
  OBVIOUS
<1> HIDE DEF n, m, p, q
<1>4. PICK g : Joins(p, n, Symbol, g) /\ FlattenSeq(p) = g[n] BY <1>1, FlattenSteps
<1>5. PICK h : Joins(q, m, Symbol, h) /\ FlattenSeq(q) = h[m] BY <1>2, FlattenSteps
<1> DEFINE Same(i, j) == i = j /\ \A l \in 1..i : c[l] = d[l]
           S == {i \in 0..n : \A j \in 0..m : g[i] = h[j] => Same(i, j)}
<1>6. /\ \A i \in 0..n : g[i] \in Seq(Symbol)
      /\ g[0] = <<>> /\ \A i \in 1..n : g[i] = g[i - 1] \o Piece(c[i])
  BY <1>1, <1>4 DEF Joins
<1>7. /\ \A i \in 0..m : h[i] \in Seq(Symbol)
      /\ h[0] = <<>> /\ \A i \in 1..m : h[i] = h[i - 1] \o Piece(d[i])
  BY <1>2, <1>5 DEF Joins
<1>8. 0 \in S
  <2>1. ASSUME NEW j \in 0..m, g[0] = h[j] PROVE j = 0
    <3> SUFFICES ASSUME j # 0 PROVE FALSE OBVIOUS
    <3>1. j \in 1..m /\ j - 1 \in 0..m BY <1>3
    <3>2. h[j] = h[j - 1] \o Piece(d[j]) /\ h[j - 1] \in Seq(Symbol) /\ d[j] \in Symbol
      BY <1>3, <1>7, <3>1
    <3>3. Len(h[j]) # 0 BY <3>2, EndsIn
    <3> QED BY <1>6, <2>1, <3>3
  <2>2. \A j \in 0..m : g[0] = h[j] => Same(0, j) BY <2>1
  <2> QED BY <1>3, <2>2
<1>9. ASSUME NEW i \in 0..(n - 1), i \in S PROVE i + 1 \in S
  <2>1. i \in Nat /\ i \in 0..n /\ i + 1 \in 1..n /\ i + 1 \in 0..n /\ (i + 1) - 1 = i BY <1>3
  <2>2. g[i + 1] = g[i] \o Piece(c[i + 1]) /\ g[i] \in Seq(Symbol) /\ c[i + 1] \in Symbol
    BY <1>3, <1>6, <2>1
  <2>3. ASSUME NEW j \in 0..m, g[i + 1] = h[j] PROVE Same(i + 1, j)
    <3>1. Len(g[i + 1]) # 0 /\ g[i + 1][Len(g[i + 1])] = c[i + 1]
      <4> DEFINE y == g[i + 1]
                 a == g[i]
                 x == c[i + 1]
      <4>1. y = a \o Piece(x) /\ a \in Seq(Symbol) /\ x \in Symbol BY <2>2
      <4> HIDE DEF y, a, x
      <4>2. Len(y) # 0 /\ y[Len(y)] = x BY <4>1, EndsIn
      <4> QED BY <4>2 DEF y, x
    <3>2. j # 0 BY <1>7, <2>3, <3>1
    <3>3. j \in 1..m /\ j - 1 \in 0..m BY <1>3, <3>2
    <3>4. h[j] = h[j - 1] \o Piece(d[j]) /\ h[j - 1] \in Seq(Symbol) /\ d[j] \in Symbol
      BY <1>3, <1>7, <3>3
    <3>5. h[j][Len(h[j])] = d[j] BY <3>4, EndsIn
    <3>6. c[i + 1] = d[j] BY <2>3, <3>1, <3>5
    <3>7. g[i] = h[j - 1]
      <4>1. Piece(d[j]) \in Seq(Symbol) BY <3>4, PieceIs
      <4> QED BY <2>2, <2>3, <3>4, <3>6, <4>1, Cancelled
    <3>8. Same(i, j - 1) BY <1>9, <3>3, <3>7
    <3>9. j = i + 1 BY <2>1, <3>3, <3>8
    <3>10. ASSUME NEW l \in 1..(i + 1) PROVE c[l] = d[l]
      <4>1. CASE l = i + 1 BY <3>6, <3>9, <4>1
      <4>2. CASE l # i + 1
        <5>1. l \in 1..i BY <2>1, <4>2
        <5> QED BY <3>8, <5>1
      <4> QED BY <4>1, <4>2
    <3> QED BY <3>9, <3>10
  <2> QED BY <2>1, <2>3
<1> HIDE DEF S
<1>10. 0..n \subseteq S BY <1>3, <1>8, <1>9, PlaceInduction
<1>11. n \in S /\ m \in 0..m BY <1>3, <1>10
<1>12. g[n] = h[m] BY <1>1, <1>2, <1>4, <1>5
<1>13. Same(n, m) BY <1>11, <1>12 DEF S
<1> QED BY <1>13, SameSeq DEF n, m

\* ConcatIs for a sequence that has a name.
LEMMA JoinedIs ==
  ASSUME NEW S, NEW s \in Seq(S), NEW t \in Seq(S), NEW y, y = s \o t
  PROVE  /\ y \in Seq(S)
         /\ Len(y) = Len(s) + Len(t) /\ Len(s) \in Nat /\ Len(t) \in Nat
         /\ \A i \in 1..Len(s) : y[i] = s[i]
         /\ \A i \in 1..Len(t) : y[Len(s) + i] = t[i]
OBVIOUS

\* Every quote has a backslash before it.
Guarded(t) == \A j \in 1..Len(t) : t[j] = Quote => j > 1 /\ t[j - 1] = Backslash

\* A piece more leaves it so.
LEMMA GuardedPiece ==
  ASSUME NEW a \in Seq(Symbol), NEW x \in Symbol, NEW b, b = a \o Piece(x), Guarded(a)
  PROVE  Guarded(b)
<1>3. CASE x = Quote
  <2>1. Backslash \in Symbol /\ Quote \in Symbol /\ Backslash # Quote
    BY KeyOptionsAssumption DEF Backslash, Quote
  <2> DEFINE e == <<Backslash, Quote>>
  <2>2. e \in Seq(Symbol) /\ Len(e) = 2 /\ e[1] = Backslash /\ e[2] = Quote BY <2>1
  <2>3. b = a \o e BY <1>3 DEF Piece
  <2> HIDE DEF e
  <2>4. /\ Len(b) = Len(a) + 2 /\ Len(a) \in Nat
        /\ \A l \in 1..Len(a) : b[l] = a[l]
        /\ b[Len(a) + 1] = Backslash /\ b[Len(a) + 2] = Quote
    <3>0. e \in Seq(Symbol) BY <2>2
    <3>1. Len(b) = Len(a) + Len(e) BY <2>3, <3>0, JoinedIs
    <3>3. Len(a) \in Nat OBVIOUS
    <3>4. \A l \in 1..Len(a) : b[l] = a[l] BY <2>3, <3>0, JoinedIs
    <3>5. \A l \in 1..Len(e) : b[Len(a) + l] = e[l] BY <2>3, <3>0, JoinedIs
    <3>2. 1 \in 1..Len(e) /\ 2 \in 1..Len(e) BY <2>2
    <3> QED BY <2>2, <3>1, <3>2, <3>3, <3>4, <3>5
  <2>5. Guarded(b)
    <3> SUFFICES ASSUME NEW l \in 1..Len(b), b[l] = Quote PROVE l > 1 /\ b[l - 1] = Backslash
      BY DEF Guarded
    <3>1. CASE l \in 1..Len(a)
      <4>1. l > 1 /\ a[l - 1] = Backslash BY <2>4, <3>1 DEF Guarded
      <4>2. l - 1 \in 1..Len(a) BY <2>4, <3>1, <4>1
      <4> QED BY <2>4, <4>1, <4>2
    <3>2. CASE l = Len(a) + 1 BY <2>1, <2>4, <3>2
    <3>3. CASE l = Len(a) + 2
      <4>1. l > 1 /\ l - 1 = Len(a) + 1 BY <2>4, <3>3
      <4> QED BY <2>4, <4>1
    <3> QED BY <2>4, <3>1, <3>2, <3>3
  <2> QED BY <2>5
<1>4. CASE x # Quote
  <2> DEFINE e == <<x>>
  <2>2. e \in Seq(Symbol) /\ Len(e) = 1 /\ e[1] = x OBVIOUS
  <2>3. b = a \o e BY <1>4 DEF Piece
  <2> HIDE DEF e
  <2>4. /\ Len(b) = Len(a) + 1 /\ Len(a) \in Nat
        /\ \A l \in 1..Len(a) : b[l] = a[l]
        /\ b[Len(a) + 1] = x
    <3>0. e \in Seq(Symbol) BY <2>2
    <3>1. Len(b) = Len(a) + Len(e) BY <2>3, <3>0, JoinedIs
    <3>3. Len(a) \in Nat OBVIOUS
    <3>4. \A l \in 1..Len(a) : b[l] = a[l] BY <2>3, <3>0, JoinedIs
    <3>5. \A l \in 1..Len(e) : b[Len(a) + l] = e[l] BY <2>3, <3>0, JoinedIs
    <3>2. 1 \in 1..Len(e) BY <2>2
    <3> QED BY <2>2, <3>1, <3>2, <3>3, <3>4, <3>5
  <2>5. Guarded(b)
    <3> SUFFICES ASSUME NEW l \in 1..Len(b), b[l] = Quote PROVE l > 1 /\ b[l - 1] = Backslash
      BY DEF Guarded
    <3>1. CASE l \in 1..Len(a)
      <4>1. l > 1 /\ a[l - 1] = Backslash BY <2>4, <3>1 DEF Guarded
      <4>2. l - 1 \in 1..Len(a) BY <2>4, <3>1, <4>1
      <4> QED BY <2>4, <4>1, <4>2
    <3>2. CASE l = Len(a) + 1 BY <1>4, <2>4, <3>2
    <3> QED BY <2>4, <3>1, <3>2
  <2> QED BY <2>5
<1> QED BY <1>3, <1>4

\* A quote in a written command has a backslash before it.
LEMMA EscapedQuotes ==
  ASSUME NEW c \in Seq(Symbol), NEW i \in 1..Len(Escape(c)), Escape(c)[i] = Quote
  PROVE  i > 1 /\ Escape(c)[i - 1] = Backslash
<1> DEFINE n == Len(c)
           p == Pieces(c)
<1>1. /\ p \in Seq(Seq(Symbol)) /\ Len(p) = n /\ \A j \in 1..n : p[j] = Piece(c[j])
      /\ Escape(c) = FlattenSeq(p)
  BY PiecesIs
<1>2. n \in Nat /\ \A j \in 1..n : c[j] \in Symbol OBVIOUS
<1> HIDE DEF n, p
<1>3. PICK g : Joins(p, n, Symbol, g) /\ FlattenSeq(p) = g[n] BY <1>1, FlattenSteps
<1>4. /\ \A j \in 0..n : g[j] \in Seq(Symbol)
      /\ g[0] = <<>> /\ \A j \in 1..n : g[j] = g[j - 1] \o Piece(c[j])
  BY <1>1, <1>3 DEF Joins
<1> DEFINE S == {j \in 0..n : Guarded(g[j])}
<1>5. 0 \in S BY <1>2, <1>4 DEF Guarded
<1>6. ASSUME NEW j \in 0..(n - 1), j \in S PROVE j + 1 \in S
  <2> DEFINE a == g[j]
             x == c[j + 1]
             b == g[j + 1]
  <2>1. j \in 0..n /\ j + 1 \in 1..n /\ j + 1 \in 0..n /\ (j + 1) - 1 = j BY <1>2
  <2>2. a \in Seq(Symbol) /\ b = a \o Piece(x) /\ x \in Symbol BY <1>2, <1>4, <2>1
  <2>5. Guarded(a) BY <1>6
  <2> HIDE DEF a, b, x
  <2>3. Guarded(b) BY <2>2, <2>5, GuardedPiece
  <2> QED BY <2>1, <2>3 DEF b
<1> HIDE DEF S
<1>7. 0..n \subseteq S BY <1>2, <1>5, <1>6, PlaceInduction
<1>8. n \in S BY <1>2, <1>7
<1>9. Guarded(g[n]) BY <1>8 DEF S
<1> QED BY <1>1, <1>3, <1>9 DEF Guarded

\* A written command ends as the command does.
LEMMA EscapeEnd ==
  ASSUME NEW c \in Seq(Symbol), Escape(c) # <<>>
  PROVE  c # <<>> /\ Escape(c)[Len(Escape(c))] = c[Len(c)]
<1>0. c # <<>> BY EscapeNothing
<1> DEFINE n == Len(c)
           p == Pieces(c)
<1>1. /\ p \in Seq(Seq(Symbol)) /\ Len(p) = n /\ \A j \in 1..n : p[j] = Piece(c[j])
      /\ Escape(c) = FlattenSeq(p)
  BY PiecesIs
<1>2. n \in Nat /\ n # 0 /\ \A j \in 1..n : c[j] \in Symbol BY <1>0, EmptySeq
<1> HIDE DEF n, p
<1>3. PICK g : Joins(p, n, Symbol, g) /\ FlattenSeq(p) = g[n] BY <1>1, FlattenSteps
<1>4. n \in 1..n /\ n \in 0..n /\ n - 1 \in 0..n BY <1>2
<1> DEFINE y == g[n]
           a == g[n - 1]
           x == c[n]
<1>5. y = a \o Piece(x) /\ a \in Seq(Symbol) /\ x \in Symbol
  BY <1>1, <1>2, <1>3, <1>4 DEF Joins
<1> HIDE DEF y, a, x
<1>6. y[Len(y)] = x BY <1>5, EndsIn
<1> QED BY <1>0, <1>1, <1>3, <1>6 DEF y, x, n

\* The quoted value is what the command was written from.
LEMMA EscapeValue ==
  ASSUME NEW s \in Seq(Symbol), NEW k \in 1..Len(s), s[k] = Quote, EndQuote(s, k) <= Len(s)
  PROVE  /\ Value(s, k, EndQuote(s, k)) \in Seq(Symbol)
         /\ Escape(Value(s, k, EndQuote(s, k))) = SubSeq(s, k + 1, EndQuote(s, k) - 1)
<1> DEFINE e == EndQuote(s, k)
           n == e - k - 1
           p == [i \in 1..n |->
                   IF s[k + i] = Backslash /\ At(s, k + i + 1) = Quote THEN <<>> ELSE <<s[k + i]>>]
<1>0. Len(s) \in Nat /\ k \in 0..Len(s) /\ \A i \in 1..Len(s) : s[i] \in Symbol OBVIOUS
<1>1. /\ e \in (k + 1)..Len(s)
      /\ \A i \in (k + 1)..(e - 1) : s[i] = Quote => s[i - 1] = Backslash
      /\ s[e] = Quote /\ s[e - 1] # Backslash
  BY <1>0, EndQuoteIs
<1>2. Value(s, k, e) = FlattenSeq(p) BY DEF Value
<1> HIDE DEF e
<1>3. n \in Nat /\ k + n + 1 = e /\ k + n = e - 1 BY <1>0, <1>1
<1>4. ASSUME NEW i \in 1..n
      PROVE  k + i \in 1..Len(s) /\ k + i + 1 \in 1..Len(s) /\ k + i \in (k + 1)..(e - 1)
  BY <1>0, <1>1, <1>3
<1>5. p \in Seq(Seq(Symbol)) /\ Len(p) = n
  <2>1. \A i \in 1..n : <<s[k + i]>> \in Seq(Symbol) BY <1>0, <1>4
  <2>2. p \in [1..n -> Seq(Symbol)] BY <2>1
  <2> HIDE DEF p, n
  <2> QED BY <1>3, <2>2, FunctionIsSeq
<1>6. ASSUME NEW i \in 1..n
      PROVE  p[i] = IF s[k + i] = Backslash /\ s[k + i + 1] = Quote THEN <<>> ELSE <<s[k + i]>>
  <2>1. At(s, k + i + 1) = s[k + i + 1] BY <1>0, <1>4 DEF At
  <2> QED BY <2>1
<1> HIDE DEF p, n
<1>7. PICK v : Joins(p, n, Symbol, v) /\ FlattenSeq(p) = v[n] BY <1>5, FlattenSteps
<1>8. /\ \A i \in 0..n : v[i] \in Seq(Symbol)
      /\ v[0] = <<>> /\ \A i \in 1..n : v[i] = v[i - 1] \o p[i]
  BY <1>7 DEF Joins
<1> DEFINE Pending(i) == IF s[k + i] = Backslash /\ s[k + i + 1] = Quote THEN <<Backslash>> ELSE <<>>
           S == {i \in 0..n : Escape(v[i]) \o Pending(i) = SubSeq(s, k + 1, k + i)}
<1>9. Backslash \in Symbol /\ Quote \in Symbol /\ Backslash # Quote
  BY KeyOptionsAssumption DEF Backslash, Quote
<1>10. 0 \in S
  <2>1. k + 0 = k BY <1>0
  <2>2. Pending(0) = <<>> BY <1>9, <2>1
  <2>3. SubSeq(s, k + 1, k + 0) = <<>> BY <1>0, <2>1
  <2>4. Escape(v[0]) = <<>> BY <1>8, EscapeNothing
  <2>5. <<>> \o <<>> = <<>> OBVIOUS
  <2> QED BY <1>3, <2>2, <2>3, <2>4, <2>5
<1>11. ASSUME NEW i \in 0..(n - 1), i \in S PROVE i + 1 \in S
  <2> DEFINE x == s[k + i + 1]
             a == v[i]
             b == v[i + 1]
             u == SubSeq(s, k + 1, k + i)
             w == SubSeq(s, k + 1, k + (i + 1))
  <2>1. /\ i \in Nat /\ i \in 0..n /\ i + 1 \in 1..n /\ i + 1 \in 0..n /\ (i + 1) - 1 = i
        /\ k + (i + 1) = k + i + 1
    BY <1>3
  <2>2. /\ k + i + 1 \in 1..Len(s) /\ k + (i + 1) \in (k + 1)..(e - 1) /\ (k + i + 1) - 1 = k + i
        /\ x \in Symbol
    BY <1>0, <1>4, <2>1
  <2>3. a \in Seq(Symbol) /\ b = a \o p[i + 1] /\ Escape(a) \o Pending(i) = u
    BY <1>8, <1>11, <2>1
  <2>4. w = u \o <<x>> /\ u \in Seq(Symbol) BY <1>0, <2>1, <2>2
  <2>5. p[i + 1] = IF x = Backslash /\ s[k + i + 1 + 1] = Quote THEN <<>> ELSE <<x>>
    BY <1>6, <2>1
  <2>6. Pending(i) = IF s[k + i] = Backslash /\ x = Quote THEN <<Backslash>> ELSE <<>> OBVIOUS
  <2>7. Pending(i + 1) = IF x = Backslash /\ s[k + i + 1 + 1] = Quote THEN <<Backslash>> ELSE <<>>
    BY <2>1
  <2>8. x = Quote => s[k + i] = Backslash BY <1>1, <2>1, <2>2
  <2>9. Escape(a) \in Seq(Symbol) BY <2>3, EscapeType
  <2> DEFINE f == Pending(i)
             h == Pending(i + 1)
  <2> HIDE DEF x, a, b, u, w, Pending
  <2>10. Escape(b) \o h = w
    <3>1. CASE x = Backslash /\ s[k + i + 1 + 1] = Quote
      <4>1. f = <<>> /\ p[i + 1] = <<>> /\ h = <<x>> BY <1>9, <2>5, <2>6, <2>7, <3>1
      <4>2. b = a /\ Escape(a) = u BY <2>3, <2>9, <4>1
      <4> QED BY <2>4, <4>1, <4>2
    <3>2. CASE ~(x = Backslash /\ s[k + i + 1 + 1] = Quote)
      <4>1. p[i + 1] = <<x>> /\ h = <<>> BY <2>5, <2>7, <3>2
      <4>2. b = Append(a, x) BY <2>2, <2>3, <4>1
      <4>3. Escape(b) = Escape(a) \o Piece(x) BY <2>2, <2>3, <4>2, EscapeAppend
      <4>4. Escape(a) \o Piece(x) = u \o <<x>>
        <5>1. CASE x = Quote
          <6>1. Piece(x) = <<Backslash, x>> /\ f = <<Backslash>> BY <2>6, <2>8, <5>1 DEF Piece
          <6>2. Escape(a) \o <<Backslash, x>> = (Escape(a) \o <<Backslash>>) \o <<x>>
            BY <1>9, <2>2, <2>9
          <6> QED BY <2>3, <6>1, <6>2
        <5>2. CASE x # Quote
          <6>1. Piece(x) = <<x>> /\ f = <<>> BY <2>6, <5>2 DEF Piece
          <6>2. Escape(a) = u BY <2>3, <2>9, <6>1
          <6> QED BY <6>1, <6>2
        <5> QED BY <5>1, <5>2
      <4>5. Escape(b) = w BY <2>4, <4>3, <4>4
      <4>6. w \in Seq(Symbol) BY <2>2, <2>4
      <4> QED BY <4>1, <4>5, <4>6
    <3> QED BY <3>1, <3>2
  <2> QED BY <2>1, <2>10 DEF b, w
<1> HIDE DEF S
<1>12. 0..n \subseteq S BY <1>3, <1>10, <1>11, PlaceInduction
<1>13. n \in S /\ n \in 0..n BY <1>3, <1>12
<1>14. Pending(n) = <<>> /\ v[n] \in Seq(Symbol) BY <1>1, <1>3, <1>8, <1>13
<1>15. Escape(v[n]) \o <<>> = SubSeq(s, k + 1, k + n) BY <1>13, <1>14 DEF S
<1>16. Escape(v[n]) = SubSeq(s, k + 1, e - 1) BY <1>3, <1>14, <1>15, EscapeType
<1> QED BY <1>2, <1>7, <1>14, <1>16 DEF e

-----------------------------------------------------------------------------
(* The options of a line. *)

\* What the first option makes of a line; there is no second one.
First(s) ==
  LET option == Option(s, 1)
  IN IF ~option.valid \/ option.name # <<Command>> \/ option.value = NoCommand
       THEN Malformed
     ELSE IF At(s, option.next) \in {Space, NoSymbol}
       THEN Typed(option.value, trim_start(From(s, option.next)))
     ELSE Malformed

\* The symbol at a place, if the line has it.
LEMMA AtIs ==
  ASSUME NEW s \in Seq(Symbol), NEW k
  PROVE  /\ At(s, k) # NoSymbol => k \in 1..Len(s)
         /\ k \in 1..Len(s) => At(s, k) = s[k] /\ s[k] \in Symbol /\ At(s, k) # NoSymbol
<1>1. DOMAIN s = 1..Len(s) /\ \A i \in 1..Len(s) : s[i] \in Symbol OBVIOUS
<1>2. NoSymbol \notin Symbol BY KeyOptionsAssumption
<1>3. CASE k \in 1..Len(s)
  <2>1. At(s, k) = s[k] BY <1>1, <1>3 DEF At
  <2> QED BY <1>1, <1>2, <1>3, <2>1
<1>4. CASE k \notin 1..Len(s)
  <2>1. At(s, k) = NoSymbol BY <1>1, <1>4 DEF At
  <2> QED BY <1>4, <2>1
<1> QED BY <1>3, <1>4

\* An option's value is a command or none.
LEMMA OptionValue ==
  ASSUME NEW s \in Seq(Symbol), NEW k \in 1..(Len(s) + 1), Option(s, k).valid
  PROVE  Option(s, k).value \in {NoCommand} \cup Seq(Symbol)
<1> DEFINE end == find(s, k, {"=", ",", Space})
           close == EndQuote(s, end + 1)
<1>1. CASE At(s, end) # "="
  <2>1. Option(s, k).value = NoCommand BY <1>1 DEF Option
  <2> QED BY <2>1
<1>2. CASE At(s, end) = "="
  <2>1. /\ Option(s, k).value = Value(s, end + 1, close)
        /\ At(s, end + 1) = Quote /\ close <= Len(s)
    BY <1>2 DEF Option
  <2>2. NoSymbol # Quote BY DEF NoSymbol, Quote
  <2>3. end + 1 \in 1..Len(s) /\ s[end + 1] = Quote BY <2>1, <2>2, AtIs
  <2> DEFINE j == end + 1
  <2>4. j \in 1..Len(s) /\ s[j] = Quote /\ EndQuote(s, j) <= Len(s)
        /\ Option(s, k).value = Value(s, j, EndQuote(s, j))
    BY <2>1, <2>3
  <2> HIDE DEF j
  <2>5. Value(s, j, EndQuote(s, j)) \in Seq(Symbol) BY <2>4, EscapeValue
  <2> QED BY <2>4, <2>5
<1> QED BY <1>1, <1>2

\* The loop takes one option at most.
LEMMA OptionsIs ==
  ASSUME NEW s \in Seq(Symbol)
  PROVE  options(s) = First(s)
<1> DEFINE D == [k : 1..(Len(s) + 1), command : {NoCommand} \cup Seq(Symbol)]
           Wrong(at) == LET option == Option(s, at.k)
                        IN \/ ~option.valid
                           \/ option.name # <<Command>>
                           \/ option.value = NoCommand
                           \/ at.command # NoCommand
           NextAt(at) == [k |-> Option(s, at.k).next + 1, command |-> Option(s, at.k).value]
           Rest(at) == LET option == Option(s, at.k)
                       IN IF At(s, option.next) \in {Space, NoSymbol}
                            THEN Typed(option.value, trim_start(From(s, option.next)))
                          ELSE Malformed
           Step(f, at) == IF Wrong(at) THEN Malformed
                          ELSE IF At(s, Option(s, at.k).next) = "," THEN f[NextAt(at)]
                          ELSE Rest(at)
           Loops(f) == f = [at \in D |-> Step(f, at)]
           F == [at \in D |-> IF Wrong(at) THEN Malformed ELSE Rest(at)]
           f == CHOOSE x : Loops(x)
           start == [k |-> 1, command |-> NoCommand]
<1>1. options(s) = f[start] BY DEF options
<1>2. ASSUME NEW at \in D, ~Wrong(at), At(s, Option(s, at.k).next) = ","
      PROVE  NextAt(at) \in D /\ Wrong(NextAt(at)) /\ Rest(at) = Malformed
  <2> DEFINE o == Option(s, at.k)
  <2>1. at.k \in 1..(Len(s) + 1) OBVIOUS
  <2>2. o.valid /\ o.value # NoCommand BY <1>2
  <2>3. o.value \in {NoCommand} \cup Seq(Symbol) BY <2>1, <2>2, OptionValue
  <2>4. "," # NoSymbol /\ "," # Space BY DEF NoSymbol, Space
  <2>11. At(s, o.next) # NoSymbol BY <1>2, <2>4
  <2> HIDE DEF o
  <2>5. o.next \in 1..Len(s) BY <2>11, AtIs
  <2>6. o.next + 1 \in 1..(Len(s) + 1) BY <2>5
  <2>7. [k |-> o.next + 1, command |-> o.value] \in D BY <2>3, <2>6
  <2>8. NextAt(at) \in D BY <2>7 DEF o
  <2>9. NextAt(at).command # NoCommand BY <2>2 DEF o
  <2>10. Rest(at) = Malformed BY <1>2, <2>4
  <2> QED BY <2>8, <2>9, <2>10
<1>3. start \in D
  <2>1. 1 \in 1..(Len(s) + 1) OBVIOUS
  <2> QED BY <2>1
<1> HIDE DEF D, NextAt, Rest, start
<1>4. Loops(F)
  <2>1. ASSUME NEW at \in D PROVE F[at] = Step(F, at)
    <3>1. CASE Wrong(at) BY <3>1
    <3>2. CASE ~Wrong(at) /\ At(s, Option(s, at.k).next) = ","
      <4> HIDE DEF Wrong
      <4>1. NextAt(at) \in D /\ Wrong(NextAt(at)) /\ Rest(at) = Malformed BY <1>2, <3>2
      <4>2. F[NextAt(at)] = Malformed BY <4>1
      <4>3. F[at] = Malformed BY <3>2, <4>1
      <4> HIDE DEF F
      <4> QED BY <3>2, <4>2, <4>3
    <3>3. CASE ~Wrong(at) /\ At(s, Option(s, at.k).next) # ","
      <4> HIDE DEF Wrong
      <4> QED BY <3>3
    <3> QED BY <3>1, <3>2, <3>3
  <2> HIDE DEF Step
  <2> DEFINE G == [at \in D |-> Step(F, at)]
  <2>2. \A at \in D : F[at] = G[at] BY <2>1
  <2>3. F = G BY <2>2
  <2> QED BY <2>3
<1>5. Loops(f)
  <2> HIDE DEF Loops
  <2> QED BY <1>4
<1> HIDE DEF f
<1>6. ASSUME NEW at \in D PROVE f[at] = Step(f, at)
  <2> HIDE DEF Step
  <2> QED BY <1>5
<1>7. f[start] = IF Wrong(start) THEN Malformed ELSE Rest(start)
  <2> HIDE DEF Wrong
  <2>1. CASE Wrong(start) BY <1>3, <1>6, <2>1
  <2>2. CASE ~Wrong(start) /\ At(s, Option(s, start.k).next) = ","
    <3>1. NextAt(start) \in D /\ Wrong(NextAt(start)) /\ Rest(start) = Malformed
      BY <1>2, <1>3, <2>2
    <3>2. f[NextAt(start)] = Malformed BY <1>6, <3>1
    <3>3. f[start] = f[NextAt(start)] BY <1>3, <1>6, <2>2
    <3> QED BY <2>2, <3>1, <3>2, <3>3
  <2>3. CASE ~Wrong(start) /\ At(s, Option(s, start.k).next) # "," BY <1>3, <1>6, <2>3
  <2> QED BY <2>1, <2>2, <2>3
<1>8. First(s) = IF Wrong(start) THEN Malformed ELSE Rest(start)
  <2>1. start.k = 1 /\ start.command = NoCommand BY DEF start
  <2> HIDE DEF start
  <2>2. Wrong(start) <=> LET option == Option(s, 1)
                         IN ~option.valid \/ option.name # <<Command>> \/ option.value = NoCommand
    BY <2>1
  <2>3. Rest(start) = LET option == Option(s, 1)
                      IN IF At(s, option.next) \in {Space, NoSymbol}
                            THEN Typed(option.value, trim_start(From(s, option.next)))
                          ELSE Malformed
    BY <2>1 DEF Rest
  <2> HIDE DEF Wrong
  <2> QED BY <2>2, <2>3 DEF First
<1> QED BY <1>1, <1>7, <1>8

\* A word is a type only if the line begins with it.
LEMMA TypeInFront ==
  ASSUME NEW s \in Seq(Symbol), NEW c, NEW w, Typed(c, s).algorithm = <<w>>
  PROVE  /\ s # <<>> /\ s[1] = w /\ s[1] # Space
         /\ find(s, 1, {Space}) = 2
<1> DEFINE end == find(s, 1, {Space})
<1>0. Len(s) \in Nat /\ 1 \in 1..(Len(s) + 1) OBVIOUS
<1>1. SubSeq(s, 1, end - 1) = <<w>> BY DEF Typed
<1>2. /\ end \in 1..(Len(s) + 1)
      /\ \A i \in 1..(end - 1) : s[i] \notin {Space}
  BY <1>0, FindIs
<1> HIDE DEF end
<1>3. Len(SubSeq(s, 1, end - 1)) = end - 1 BY <1>0, <1>2
<1>4. Len(<<w>>) = 1 /\ <<w>>[1] = w OBVIOUS
<1>5. end = 2
  <2>1. end - 1 = 1 BY <1>1, <1>3, <1>4
  <2> QED BY <1>0, <1>2, <2>1
<1>6. 1 \in 1..Len(s) /\ 1 \in 1..(end - 1) BY <1>0, <1>2, <1>5
<1>7. SubSeq(s, 1, end - 1)[1] = s[1] BY <1>0, <1>2, <1>6
<1>8. s[1] = w BY <1>1, <1>4, <1>7
<1>9. s[1] # Space BY <1>2, <1>6
<1>10. s # <<>> BY <1>6
<1> QED BY <1>5, <1>8, <1>9, <1>10 DEF end

\* The name, the equals sign and the quote of an option that has a command.
LEMMA OptionInFront ==
  ASSUME NEW s \in Seq(Symbol), Option(s, 1).valid, Option(s, 1).name = <<Command>>,
         Option(s, 1).value # NoCommand
  PROVE  /\ 3 \in 1..Len(s) /\ s[1] = Command /\ s[2] = "=" /\ s[3] = Quote
         /\ EndQuote(s, 3) <= Len(s)
         /\ Option(s, 1).value = Value(s, 3, EndQuote(s, 3))
         /\ Option(s, 1).next = EndQuote(s, 3) + 1
<1> DEFINE end == find(s, 1, {"=", ",", Space})
           close == EndQuote(s, end + 1)
<1>0. Len(s) \in Nat /\ 1 \in 1..(Len(s) + 1) OBVIOUS
<1>1. end \in 1..(Len(s) + 1) BY <1>0, FindIs
<1>2. At(s, end) = "=" BY DEF Option
<1>3. /\ SubSeq(s, 1, end - 1) = <<Command>>
      /\ Option(s, 1).value = Value(s, end + 1, close)
      /\ Option(s, 1).next = close + 1
      /\ At(s, end + 1) = Quote /\ close <= Len(s)
  BY <1>2 DEF Option
<1> HIDE DEF end
<1>4. Len(SubSeq(s, 1, end - 1)) = end - 1 BY <1>0, <1>1
<1>5. Len(<<Command>>) = 1 /\ <<Command>>[1] = Command OBVIOUS
<1>6. end = 2
  <2>1. end - 1 = 1 BY <1>3, <1>4, <1>5
  <2> QED BY <1>0, <1>1, <2>1
<1>7. end + 1 = 3 BY <1>6
<1>8. NoSymbol # Quote /\ NoSymbol # "=" BY DEF NoSymbol, Quote
<1>9. At(s, 2) = "=" /\ At(s, 3) = Quote BY <1>2, <1>3, <1>6, <1>7
<1>10. 3 \in 1..Len(s) /\ s[3] = Quote BY <1>8, <1>9, AtIs
<1>11. s[2] = "=" BY <1>8, <1>9, AtIs
<1>12. s[1] = Command
  <2>1. SubSeq(s, 1, end - 1)[1] = s[1] BY <1>0, <1>6, <1>10
  <2> QED BY <1>3, <1>5, <2>1
<1> QED BY <1>3, <1>7, <1>10, <1>11, <1>12

\* The beginning of a line that is written as the restriction.
LEMMA RestrictionInFront ==
  ASSUME NEW s \in Seq(Symbol), NEW c \in Seq(Symbol), NEW e \in 4..(Len(s) - 1),
         s[1] = Command, s[2] = "=", s[3] = Quote, s[e] = Quote, s[e + 1] = Space,
         Escape(c) = SubSeq(s, 4, e - 1)
  PROVE  Len(Restriction(c)) = e + 1 /\ IsPrefix(Restriction(c), s)
<1> DEFINE a == <<Command, "=", Quote>>
           b == Escape(c)
           d == <<Quote, Space>>
           r == Restriction(c)
<1>0. Len(s) \in Nat /\ e \in Nat OBVIOUS
<1>1. {Command, "=", Quote, Space} \subseteq Symbol BY KeyOptionsAssumption
<1>2. a \in Seq(Symbol) /\ Len(a) = 3 /\ a[1] = s[1] /\ a[2] = s[2] /\ a[3] = s[3] BY <1>1
<1>3. d \in Seq(Symbol) /\ Len(d) = 2 /\ d[1] = s[e] /\ d[2] = s[e + 1] BY <1>1
<1>4. /\ b \in Seq(Symbol) /\ Len(b) = e - 4
      /\ \A i \in 1..(e - 4) : b[i] = s[3 + i]
  BY <1>0
<1>5. r = (a \o b) \o d BY DEF Restriction
<1> HIDE DEF a, b, d, r
<1> DEFINE ab == a \o b
<1>6. /\ ab \in Seq(Symbol) /\ Len(ab) = e - 1
      /\ \A i \in 1..3 : ab[i] = a[i]
      /\ \A i \in 1..(e - 4) : ab[3 + i] = b[i]
  <2>0. ab = a \o b /\ a \in Seq(Symbol) /\ b \in Seq(Symbol) BY <1>2, <1>4
  <2> HIDE DEF ab
  <2>1. ab \in Seq(Symbol) /\ Len(ab) = Len(a) + Len(b) BY <2>0, JoinedIs
  <2>2. \A i \in 1..Len(a) : ab[i] = a[i] BY <2>0, JoinedIs
  <2>3. \A i \in 1..Len(b) : ab[Len(a) + i] = b[i] BY <2>0, JoinedIs
  <2> QED BY <1>0, <1>2, <1>4, <2>1, <2>2, <2>3
<1>7. r = ab \o d BY <1>5
<1> HIDE DEF ab
<1>8. /\ r \in Seq(Symbol) /\ Len(r) = e + 1
      /\ \A i \in 1..(e - 1) : r[i] = ab[i]
      /\ r[e] = d[1] /\ r[e + 1] = d[2]
  <2>0. r = ab \o d /\ ab \in Seq(Symbol) /\ d \in Seq(Symbol) BY <1>3, <1>6, <1>7
  <2>1. r \in Seq(Symbol) /\ Len(r) = Len(ab) + Len(d) BY <2>0, JoinedIs
  <2>2. \A i \in 1..Len(ab) : r[i] = ab[i] BY <2>0, JoinedIs
  <2>3. \A i \in 1..Len(d) : r[Len(ab) + i] = d[i] BY <2>0, JoinedIs
  <2>4. 1 \in 1..Len(d) /\ 2 \in 1..Len(d) /\ Len(ab) + 1 = e /\ Len(ab) + 2 = e + 1
    BY <1>0, <1>3, <1>6
  <2> QED BY <1>0, <1>3, <1>6, <2>1, <2>2, <2>3, <2>4
<1>9. ASSUME NEW i \in 1..(e + 1) PROVE r[i] = s[i]
  <2>1. CASE i \in 1..3
    <3>1. i = 1 \/ i = 2 \/ i = 3 BY <2>1
    <3>2. i \in 1..(e - 1) BY <1>0, <2>1
    <3> QED BY <1>2, <1>6, <1>8, <2>1, <3>1, <3>2
  <2>2. CASE i \in 4..(e - 1)
    <3>1. i - 3 \in 1..(e - 4) /\ i \in 1..(e - 1) /\ 3 + (i - 3) = i BY <1>0, <2>2
    <3> QED BY <1>4, <1>6, <1>8, <3>1
  <2>3. CASE i = e BY <1>3, <1>8, <2>3
  <2>4. CASE i = e + 1 BY <1>3, <1>8, <2>4
  <2> QED BY <1>0, <2>1, <2>2, <2>3, <2>4
<1>10. SubSeq(r, 1, Len(r)) = SubSeq(s, 1, Len(r))
  <2> DEFINE u == SubSeq(r, 1, Len(r))
             v == SubSeq(s, 1, Len(r))
  <2>1. u \in Seq(Symbol) /\ Len(u) = e + 1 /\ \A i \in 1..(e + 1) : u[i] = r[i]
    BY <1>0, <1>8
  <2>2. v \in Seq(Symbol) /\ Len(v) = e + 1 /\ \A i \in 1..(e + 1) : v[i] = s[i]
    BY <1>0, <1>8
  <2> HIDE DEF u, v
  <2>3. u = v BY <1>9, <2>1, <2>2, SameSeq
  <2> QED BY <2>3 DEF u, v
<1>11. IsPrefix(r, s) BY <1>0, <1>8, <1>10 DEF IsPrefix
<1> QED BY <1>8, <1>11 DEF r

\* AuthorizedKey::from_str, for every line: one that grants a key without a command
\* begins with the key, one that grants it with a command has that command, to the
\* last symbol, as its only option.  Nothing in front of a key is dropped.
THEOREM LinesKeepOptions ==
  ASSUME NEW line \in Seq(Symbol)
  PROVE  OptionsKept(line)
<1> DEFINE s == trim(line)
           entry == from_str(line)
           parsed == parse(s)
           plain == Typed(NoCommand, s)
<1>0. s \in Seq(Symbol) BY TrimType
<1> SUFFICES ASSUME entry.granted
             PROVE  IF entry.command = NoCommand THEN NamesKey(s)
                    ELSE /\ IsPrefix(Restriction(entry.command), s)
                         /\ NamesKey(From(s, Len(Restriction(entry.command)) + 1))
  BY DEF OptionsKept
<1>1. /\ parsed.algorithm = <<KeyType>>
      /\ Typed(NoCommand, trim_start(parsed.rest)).algorithm = <<KeyData>>
      /\ entry.command = parsed.command
  BY DEF from_str, Ignored
<1>2. CASE plain.algorithm = <<KeyType>>
  <2>1. parsed = plain BY <1>2 DEF parse
  <2>2. entry.command = NoCommand BY <1>1, <2>1 DEF Typed
  <2> HIDE DEF s
  <2>3. s # <<>> /\ s[1] # Space BY <1>0, <1>2, TypeInFront
  <2>4. trim_start(s) = s
    <3>1. Len(s) \in Nat /\ 1 \in 1..(Len(s) + 1) /\ \A i \in 1..(1 - 1) : s[i] = Space
      BY <1>0
    <3>2. trim_start(s) = From(s, 1) BY <1>0, <2>3, <3>1, TrimIs
    <3> QED BY <1>0, <3>2 DEF From
  <2>5. NamesKey(s) BY <1>1, <1>2, <2>1, <2>4 DEF NamesKey
  <2> QED BY <2>2, <2>5 DEF s
<1>3. CASE plain.algorithm # <<KeyType>>
  <2> DEFINE o == Option(s, 1)
             t == trim_start(From(s, o.next))
  <2>1. parsed = First(s) BY <1>0, <1>3, OptionsIs DEF parse
  <2>2. Malformed.algorithm # <<KeyType>> BY DEF Malformed
  <2>3. /\ o.valid /\ o.name = <<Command>> /\ o.value # NoCommand
        /\ At(s, o.next) \in {Space, NoSymbol}
        /\ parsed = Typed(o.value, t)
    BY <1>1, <2>1, <2>2 DEF First
  <2> HIDE DEF s
  <2> DEFINE e == EndQuote(s, 3)
  <2>4. /\ 3 \in 1..Len(s) /\ s[1] = Command /\ s[2] = "=" /\ s[3] = Quote
        /\ e <= Len(s) /\ o.value = Value(s, 3, e) /\ o.next = e + 1
    BY <1>0, <2>3, OptionInFront
  <2>5. /\ e \in 4..(Len(s) + 1) /\ s[e] = Quote
    <3>1. Len(s) \in Nat /\ 3 \in 0..Len(s) /\ 3 + 1 = 4 BY <1>0, <2>4
    <3> QED BY <1>0, <2>4, <3>1, EndQuoteIs
  <2>6. o.value \in Seq(Symbol) /\ Escape(o.value) = SubSeq(s, 4, e - 1)
    <3>1. 3 + 1 = 4 OBVIOUS
    <3> QED BY <1>0, <2>4, <3>1, EscapeValue
  <2> DEFINE x == o.value
             n == o.next
  <2>7. entry.command = x BY <1>1, <2>3 DEF Typed
  <2>8. Typed(NoCommand, t).algorithm = <<KeyType>> /\ Typed(NoCommand, t).rest = parsed.rest
    <3> HIDE DEF t, parsed, o
    <3>1. Typed(NoCommand, t).algorithm = parsed.algorithm BY <2>3 DEF Typed
    <3>2. Typed(NoCommand, t).rest = parsed.rest BY <2>3 DEF Typed
    <3> QED BY <1>1, <3>1, <3>2
  <2>9. n \in 1..(Len(s) + 1) /\ Len(s) \in Nat BY <1>0, <2>4, <2>5
  <2> HIDE DEF e, o
  <2>10. From(s, n) \in Seq(Symbol) /\ t \in Seq(Symbol) BY <1>0, <2>9, FromIs, TrimStartType
  <2>11. n # Len(s) + 1
    <3> SUFFICES ASSUME n = Len(s) + 1 PROVE FALSE OBVIOUS
    <3>1. \A i \in n..(n - 1) : s[i] = Space BY <2>9
    <3>2. n \in n..(Len(s) + 1) /\ ~(n <= Len(s)) BY <2>9
    <3>3. t = From(s, n) BY <1>0, <2>9, <3>1, <3>2, TrimFrom
    <3>4. Len(From(s, n)) = 0 BY <1>0, <2>9, FromIs
    <3>5. t = <<>> BY <2>10, <3>3, <3>4, EmptySeq
    <3> HIDE DEF t
    <3> QED BY <2>8, <2>10, <3>5, TypeInFront
  <2>12. n \in 1..Len(s) /\ e \in 4..(Len(s) - 1) /\ n = e + 1 BY <2>4, <2>5, <2>9, <2>11
  <2>13. s[n] = Space BY <1>0, <2>3, <2>12, AtIs
  <2>14. s[e + 1] = Space BY <2>12, <2>13
  <2> HIDE DEF x, n
  <2>15. Len(Restriction(x)) = e + 1 /\ IsPrefix(Restriction(x), s)
    BY <1>0, <2>4, <2>5, <2>6, <2>12, <2>14, RestrictionInFront DEF x
  <2>16. t = trim_start(From(s, n + 1)) BY <1>0, <2>12, <2>13, TrimSpace DEF n
  <2>17. NamesKey(From(s, n + 1)) BY <1>1, <2>8, <2>16 DEF NamesKey
  <2>18. entry.command # NoCommand BY <2>3, <2>7 DEF x
  <2> QED BY <2>7, <2>12, <2>15, <2>17, <2>18 DEF s
<1> QED BY <1>2, <1>3

\* The symbols of a line that restricts a key to a command.
LEMMA RestrictedLine ==
  ASSUME NEW c \in Seq(Symbol)
  PROVE  LET b == Escape(c)
             n == Len(Escape(c))
             s == Restriction(c) \o <<KeyType, Space, KeyData>>
         IN /\ n \in Nat /\ s \in Seq(Symbol) /\ Len(s) = n + 8
            /\ s[1] = Command /\ s[2] = "=" /\ s[3] = Quote
            /\ \A i \in 1..n : s[3 + i] = b[i]
            /\ s[n + 4] = Quote /\ s[n + 5] = Space
            /\ s[n + 6] = KeyType /\ s[n + 7] = Space /\ s[n + 8] = KeyData
<1> DEFINE a == <<Command, "=", Quote>>
           b == Escape(c)
           n == Len(b)
           d == <<Quote, Space>>
           k == <<KeyType, Space, KeyData>>
           r == Restriction(c)
           s == r \o k
           ab == a \o b
<1>1. {Command, "=", Quote, Space, KeyType, KeyData} \subseteq Symbol BY KeyOptionsAssumption
<1>2. a \in Seq(Symbol) /\ Len(a) = 3 /\ a[1] = Command /\ a[2] = "=" /\ a[3] = Quote BY <1>1
<1>3. d \in Seq(Symbol) /\ Len(d) = 2 /\ d[1] = Quote /\ d[2] = Space BY <1>1
<1>4. k \in Seq(Symbol) /\ Len(k) = 3 /\ k[1] = KeyType /\ k[2] = Space /\ k[3] = KeyData BY <1>1
<1>5. b \in Seq(Symbol) BY EscapeType
<1>6. n \in Nat BY <1>5
<1>7. r = ab \o d BY DEF Restriction
<1>8. ab = a \o b OBVIOUS
<1>16. s = r \o k OBVIOUS
<1> HIDE DEF a, b, d, k, r, s, ab
<1>9. /\ ab \in Seq(Symbol) /\ Len(ab) = n + 3
      /\ \A i \in 1..3 : ab[i] = a[i]
      /\ \A i \in 1..n : ab[3 + i] = b[i]
  <2>0. a \in Seq(Symbol) BY <1>2
  <2>1. ab \in Seq(Symbol) /\ Len(ab) = Len(a) + Len(b) BY <1>5, <1>8, <2>0, JoinedIs
  <2>2. \A i \in 1..Len(a) : ab[i] = a[i] BY <1>5, <1>8, <2>0, JoinedIs
  <2>3. \A i \in 1..Len(b) : ab[Len(a) + i] = b[i] BY <1>5, <1>8, <2>0, JoinedIs
  <2> QED BY <1>2, <1>6, <2>1, <2>2, <2>3
<1> HIDE DEF n
<1>10. /\ r \in Seq(Symbol) /\ Len(r) = n + 5
       /\ \A i \in 1..(n + 3) : r[i] = ab[i]
       /\ r[n + 4] = Quote /\ r[n + 5] = Space
  <2>0. ab \in Seq(Symbol) /\ d \in Seq(Symbol) BY <1>3, <1>9
  <2>1. r \in Seq(Symbol) /\ Len(r) = Len(ab) + Len(d) BY <1>7, <2>0, JoinedIs
  <2>2. \A i \in 1..Len(ab) : r[i] = ab[i] BY <1>7, <2>0, JoinedIs
  <2>3. \A i \in 1..Len(d) : r[Len(ab) + i] = d[i] BY <1>7, <2>0, JoinedIs
  <2>4. /\ 1 \in 1..Len(d) /\ 2 \in 1..Len(d)
        /\ Len(ab) + 1 = n + 4 /\ Len(ab) + 2 = n + 5 /\ Len(ab) + Len(d) = n + 5
    BY <1>3, <1>6, <1>9
  <2>5. r[n + 4] = Quote /\ r[n + 5] = Space BY <1>3, <2>3, <2>4
  <2> QED BY <1>9, <2>1, <2>2, <2>4, <2>5
<1>11. /\ s \in Seq(Symbol) /\ Len(s) = n + 8
       /\ \A i \in 1..(n + 5) : s[i] = r[i]
       /\ s[n + 6] = KeyType /\ s[n + 7] = Space /\ s[n + 8] = KeyData
  <2>0. r \in Seq(Symbol) /\ k \in Seq(Symbol) BY <1>4, <1>10
  <2>1. s \in Seq(Symbol) /\ Len(s) = Len(r) + Len(k) BY <1>16, <2>0, JoinedIs
  <2>2. \A i \in 1..Len(r) : s[i] = r[i] BY <1>16, <2>0, JoinedIs
  <2>3. \A i \in 1..Len(k) : s[Len(r) + i] = k[i] BY <1>16, <2>0, JoinedIs
  <2>4. /\ 1 \in 1..Len(k) /\ 2 \in 1..Len(k) /\ 3 \in 1..Len(k)
        /\ Len(r) + 1 = n + 6 /\ Len(r) + 2 = n + 7 /\ Len(r) + 3 = n + 8
        /\ Len(r) + Len(k) = n + 8
    BY <1>4, <1>6, <1>10
  <2>5. s[n + 6] = KeyType /\ s[n + 7] = Space /\ s[n + 8] = KeyData BY <1>4, <2>3, <2>4
  <2> QED BY <1>10, <2>1, <2>2, <2>4, <2>5
<1>12. ASSUME NEW i \in 1..3 PROVE s[i] = a[i]
  <2>1. i \in 1..(n + 5) /\ i \in 1..(n + 3) BY <1>6
  <2> QED BY <1>9, <1>10, <1>11, <2>1
<1>13. s[1] = Command /\ s[2] = "=" /\ s[3] = Quote
  <2>1. 1 \in 1..3 /\ 2 \in 1..3 /\ 3 \in 1..3 OBVIOUS
  <2> QED BY <1>2, <1>12, <2>1
<1>14. ASSUME NEW i \in 1..n PROVE s[3 + i] = b[i]
  <2>1. 3 + i \in 1..(n + 5) /\ 3 + i \in 1..(n + 3) BY <1>6
  <2> QED BY <1>9, <1>10, <1>11, <2>1
<1>15. s[n + 4] = Quote /\ s[n + 5] = Space
  <2>1. n + 4 \in 1..(n + 5) /\ n + 5 \in 1..(n + 5) BY <1>6
  <2> QED BY <1>10, <1>11, <2>1
<1> QED BY <1>6, <1>11, <1>13, <1>14, <1>15 DEF b, n, s, r, k

\* The first symbol of a line.
LEMMA FirstSymbol ==
  ASSUME NEW s \in Seq(Symbol), 1 <= Len(s)
  PROVE  SubSeq(s, 1, 2 - 1) = <<s[1]>>
<1> DEFINE u == SubSeq(s, 1, 1)
           v == <<s[1]>>
<1>1. Len(s) \in Nat /\ s[1] \in Symbol /\ 2 - 1 = 1 OBVIOUS
<1>2. u \in Seq(Symbol) /\ Len(u) = 1 BY <1>1
<1>4. u[1] = s[1] BY <1>1
<1>3. v \in Seq(Symbol) /\ Len(v) = 1 /\ v[1] = s[1] BY <1>1
<1> HIDE DEF u, v
<1>5. \A i \in 1..Len(u) : u[i] = v[i] BY <1>2, <1>3, <1>4
<1>6. u = v BY <1>2, <1>3, <1>5, SameSeq
<1> QED BY <1>1, <1>6 DEF u, v

\* The end of such a line: the type, and behind it the data.
LEMMA KeyAtEnd ==
  ASSUME NEW s \in Seq(Symbol), NEW k \in 1..(Len(s) - 3), Len(s) = k + 3,
         s[k] = Space, s[k + 1] = KeyType, s[k + 2] = Space, s[k + 3] = KeyData, NEW c
  PROVE  LET entry == Typed(c, trim_start(From(s, k)))
         IN /\ entry.command = c /\ entry.algorithm = <<KeyType>>
            /\ Typed(NoCommand, trim_start(entry.rest)).algorithm = <<KeyData>>
<1> DEFINE t == From(s, k + 1)
           rest == From(t, 3)
<1>12. KeyType # Space /\ KeyData # Space BY DEF KeyType, KeyData, Space
<1>13. Len(s) \in Nat OBVIOUS
<1>0. Len(s) \in Nat /\ k \in Nat /\ KeyType # Space /\ KeyData # Space BY <1>12, <1>13
<1>1. trim_start(From(s, k)) = t
  <2>1. /\ k \in 1..(Len(s) + 1) /\ k + 1 \in k..(Len(s) + 1)
        /\ \A i \in k..((k + 1) - 1) : s[i] = Space
        /\ s[k + 1] # Space
    BY <1>0
  <2> DEFINE m == k + 1
  <2>2. m \in k..(Len(s) + 1) /\ (\A i \in k..(m - 1) : s[i] = Space) /\ s[m] # Space BY <2>1
  <2> HIDE DEF m
  <2>3. trim_start(From(s, k)) = From(s, m) BY <2>1, <2>2, TrimFrom
  <2> QED BY <2>3 DEF m
<1>2. t \in Seq(Symbol) /\ Len(t) = 3 /\ t[1] = KeyType /\ t[2] = Space /\ t[3] = KeyData
  <2> DEFINE m == k + 1
  <2>1. m \in 1..(Len(s) + 1) /\ Len(s) - m + 1 = 3 BY <1>0
  <2>3. m + 1 - 1 = k + 1 /\ m + 2 - 1 = k + 2 /\ m + 3 - 1 = k + 3 BY <1>0
  <2> HIDE DEF m
  <2>2. /\ From(s, m) \in Seq(Symbol) /\ Len(From(s, m)) = 3
        /\ \A i \in 1..3 : From(s, m)[i] = s[m + i - 1]
    BY <2>1, FromIs
  <2>4. 1 \in 1..3 /\ 2 \in 1..3 /\ 3 \in 1..3 OBVIOUS
  <2>5. /\ From(s, m) \in Seq(Symbol) /\ Len(From(s, m)) = 3
        /\ From(s, m)[1] = KeyType /\ From(s, m)[2] = Space /\ From(s, m)[3] = KeyData
    BY <2>2, <2>3, <2>4
  <2> QED BY <2>5 DEF m
<1> HIDE DEF t
<1>3. find(t, 1, {Space}) = 2
  <2>1. /\ 1 \in 1..(Len(t) + 1) /\ 2 \in 1..(Len(t) + 1)
        /\ \A i \in 1..(2 - 1) : t[i] \notin {Space}
        /\ t[2] \in {Space}
    BY <1>0, <1>2
  <2> QED BY <1>2, <2>1, FindUnique
<1>4. SubSeq(t, 1, 2 - 1) = <<KeyType>>
  <2>1. t \in Seq(Symbol) /\ 1 <= Len(t) BY <1>2
  <2>2. SubSeq(t, 1, 2 - 1) = <<t[1]>> BY <2>1, FirstSymbol
  <2> QED BY <1>2, <2>2
<1>5. 2 + 1 = 3 OBVIOUS
<1>6. Typed(c, t) = [command |-> c, algorithm |-> <<KeyType>>, rest |-> rest]
  BY <1>3, <1>4, <1>5 DEF Typed
<1>7. rest \in Seq(Symbol) /\ Len(rest) = 1 /\ rest[1] = KeyData
  <2>1. 3 \in 1..(Len(t) + 1) /\ Len(t) - 3 + 1 = 1 /\ 3 + 1 - 1 = 3 /\ 1 \in 1..1 BY <1>2
  <2>2. /\ rest \in Seq(Symbol) /\ Len(rest) = Len(t) - 3 + 1
        /\ \A i \in 1..(Len(t) - 3 + 1) : rest[i] = t[3 + i - 1]
    BY <1>2, <2>1, FromIs
  <2> HIDE DEF rest
  <2> QED BY <1>2, <2>1, <2>2
<1> HIDE DEF rest
<1>8. trim_start(rest) = rest
  <2>1. 1 \in 1..(Len(rest) + 1) /\ (\A i \in 1..(1 - 1) : rest[i] = Space) /\ rest[1] # Space
    BY <1>0, <1>7
  <2>2. trim_start(rest) = From(rest, 1) BY <1>7, <2>1, TrimIs
  <2> QED BY <1>7, <2>2 DEF From
<1>9. find(rest, 1, {Space}) = 2
  <2>1. /\ 1 \in 1..(Len(rest) + 1) /\ 2 \in 1..(Len(rest) + 1)
        /\ \A i \in 1..(2 - 1) : rest[i] \notin {Space}
        /\ ~(2 <= Len(rest))
    BY <1>0, <1>7
  <2> QED BY <1>7, <2>1, FindUnique
<1>10. SubSeq(rest, 1, 2 - 1) = <<KeyData>> BY <1>7, FirstSymbol
<1>11. Typed(NoCommand, rest).algorithm = <<KeyData>> BY <1>9, <1>10 DEF Typed
<1> QED BY <1>1, <1>6, <1>8, <1>11

\* AuthorizedKey::from_str, for every command: one that is written down as sshd(8)
\* has it, quotes escaped, is the command that is run, unless it ends in a
\* backslash.
THEOREM CommandsComeThrough ==
  ASSUME NEW c \in Seq(Symbol)
  PROVE  CommandKept(c)
<1> DEFINE b == Escape(c)
           n == Len(b)
           s == Restriction(c) \o <<KeyType, Space, KeyData>>
<1> SUFFICES ASSUME c = <<>> \/ Last(c) # Backslash
             PROVE  from_str(s) = [granted |-> TRUE, command |-> c]
  BY DEF CommandKept
<1>1. /\ n \in Nat /\ s \in Seq(Symbol) /\ Len(s) = n + 8
      /\ s[1] = Command /\ s[2] = "=" /\ s[3] = Quote
      /\ \A i \in 1..n : s[3 + i] = b[i]
      /\ s[n + 4] = Quote /\ s[n + 5] = Space
      /\ s[n + 6] = KeyType /\ s[n + 7] = Space /\ s[n + 8] = KeyData
  BY RestrictedLine
<1>2. b \in Seq(Symbol) BY EscapeType
<1>3. /\ Command # Space /\ KeyData # Space /\ Command # KeyType /\ Command # "#" /\ Quote # Backslash
      /\ Space # NoSymbol /\ Command \notin {"=", ",", Space}
  BY DEF Command, Space, KeyData, KeyType, Quote, Backslash, NoSymbol
<1>4. \A i \in 1..n : b[i] = Quote => i > 1 /\ b[i - 1] = Backslash BY EscapedQuotes
<1>5. n # 0 => b[n] # Backslash
  <2> SUFFICES ASSUME n # 0 PROVE b[n] # Backslash OBVIOUS
  <2>1. b # <<>> BY <1>2
  <2>2. c # <<>> /\ b[n] = c[Len(c)] BY <2>1, EscapeEnd
  <2> QED BY <2>2 DEF Last
<1> HIDE DEF s, n
<1>6. trim(s) = s
  <2>1. Len(s) # 0 BY <1>1
  <2>2. s # <<>> BY <2>1
  <2>3. s[Len(s)] # Space BY <1>1, <1>3
  <2> QED BY <1>1, <1>3, <2>2, <2>3, TrimNothing
<1> DEFINE e == n + 4
<1>7. EndQuote(s, 3) = e
  <2>1. 3 \in 0..Len(s) /\ e \in (3 + 1)..Len(s) BY <1>1
  <2>2. ASSUME NEW i \in (3 + 1)..(e - 1), s[i] = Quote PROVE s[i - 1] = Backslash
    <3>1. i - 3 \in 1..n /\ 3 + (i - 3) = i BY <1>1
    <3>2. b[i - 3] = Quote BY <1>1, <2>2, <3>1
    <3>3. i - 3 > 1 /\ b[(i - 3) - 1] = Backslash BY <1>4, <3>1, <3>2
    <3>4. (i - 3) - 1 \in 1..n /\ 3 + ((i - 3) - 1) = i - 1 BY <1>1, <3>1, <3>3
    <3> QED BY <1>1, <3>3, <3>4
  <2>3. s[e - 1] # Backslash
    <3>1. CASE n = 0
      <4>1. e - 1 = 3 BY <3>1
      <4> QED BY <1>1, <1>3, <4>1
    <3>2. CASE n # 0
      <4>1. n \in 1..n /\ 3 + n = e - 1 BY <1>1, <3>2
      <4>2. s[3 + n] = b[n] BY <1>1, <4>1
      <4> QED BY <1>5, <3>2, <4>1, <4>2
    <3> QED BY <3>1, <3>2
  <2>4. s[e] = Quote BY <1>1
  <2> HIDE DEF e
  <2> QED BY <1>1, <2>1, <2>2, <2>3, <2>4, EndQuoteUnique
<1>8. Value(s, 3, e) = c
  <2>1. 3 \in 1..Len(s) /\ e <= Len(s) /\ 3 + 1 = 4 /\ e - 1 = n + 3 BY <1>1
  <2> HIDE DEF e
  <2>2. Value(s, 3, e) \in Seq(Symbol) /\ Escape(Value(s, 3, e)) = SubSeq(s, 4, e - 1)
    BY <1>1, <1>7, <2>1, EscapeValue
  <2>3. SubSeq(s, 4, n + 3) = b
    <3> DEFINE u == SubSeq(s, 4, n + 3)
    <3>1. u \in Seq(Symbol) /\ Len(u) = n /\ \A i \in 1..n : u[i] = s[3 + i]
      <4>1. u \in Seq(Symbol) /\ Len(u) = n BY <1>1
      <4>2. ASSUME NEW i \in 1..n PROVE u[i] = s[3 + i]
        <5>1. u[i] = s[4 + i - 1] BY <1>1
        <5>2. 4 + i - 1 = 3 + i OBVIOUS
        <5> QED BY <5>1, <5>2
      <4> QED BY <4>1, <4>2
    <3> HIDE DEF u
    <3>2. \A i \in 1..n : u[i] = b[i] BY <1>1, <3>1
    <3>3. u = b BY <1>2, <3>1, <3>2, SameSeq DEF n
    <3> QED BY <3>3 DEF u
  <2> HIDE DEF b
  <2>4. Escape(Value(s, 3, e)) = Escape(c) BY <2>1, <2>2, <2>3 DEF b
  <2> QED BY <2>2, <2>4, EscapeInjective
<1>9. c # NoCommand
  <2>1. "none" \notin Symbol BY KeyOptionsAssumption
  <2> QED BY <2>1 DEF NoCommand
<1>10. find(s, 1, {"=", ",", Space}) = 2
  <2>1. 1 \in 1..(Len(s) + 1) /\ 2 \in 1..(Len(s) + 1) BY <1>1
  <2>2. \A i \in 1..(2 - 1) : i = 1 OBVIOUS
  <2>3. \A i \in 1..(2 - 1) : s[i] \notin {"=", ",", Space} BY <1>1, <1>3, <2>2
  <2>4. s[2] \in {"=", ",", Space} BY <1>1
  <2> QED BY <1>1, <2>1, <2>3, <2>4, FindUnique
<1>11. /\ At(s, 2) = "=" /\ At(s, 3) = Quote /\ At(s, e + 1) = Space
  <2>1. 2 \in 1..Len(s) /\ 3 \in 1..Len(s) /\ n + 5 \in 1..Len(s) /\ e + 1 = n + 5 BY <1>1
  <2> QED BY <1>1, <2>1, AtIs
<1>12. Option(s, 1) = [name |-> <<Command>>, value |-> c, next |-> e + 1, valid |-> TRUE]
  <2>1. SubSeq(s, 1, 2 - 1) = <<Command>>
    <3>1. 1 <= Len(s) BY <1>1
    <3> QED BY <1>1, <3>1, FirstSymbol
  <2>2. 2 + 1 = 3 /\ e <= Len(s) BY <1>1
  <2> HIDE DEF e
  <2> QED BY <1>7, <1>8, <1>10, <1>11, <2>1, <2>2 DEF Option
<1> DEFINE k == e + 1
           entry == Typed(c, trim_start(From(s, k)))
<1>13. First(s) = entry BY <1>9, <1>11, <1>12 DEF First
<1>14. /\ entry.command = c /\ entry.algorithm = <<KeyType>>
       /\ Typed(NoCommand, trim_start(entry.rest)).algorithm = <<KeyData>>
  <2>1. /\ k \in 1..(Len(s) - 3) /\ Len(s) = k + 3
        /\ s[k] = Space /\ s[k + 1] = KeyType /\ s[k + 2] = Space /\ s[k + 3] = KeyData
    <3>1. k = n + 5 /\ k + 1 = n + 6 /\ k + 2 = n + 7 /\ k + 3 = n + 8 BY <1>1
    <3> HIDE DEF k
    <3> QED BY <1>1, <3>1
  <2> HIDE DEF k
  <2> QED BY <1>1, <2>1, KeyAtEnd
<1>15. Typed(NoCommand, s).algorithm # <<KeyType>>
  <2> SUFFICES ASSUME Typed(NoCommand, s).algorithm = <<KeyType>> PROVE FALSE OBVIOUS
  <2>1. s[1] = KeyType BY <1>1, TypeInFront
  <2> QED BY <1>1, <1>3, <2>1
<1> HIDE DEF entry
<1>16. parse(s) = entry BY <1>1, <1>13, <1>15, OptionsIs DEF parse
<1>17. s # <<>> BY <1>1
<1> QED BY <1>1, <1>3, <1>6, <1>14, <1>16, <1>17 DEF from_str

-----------------------------------------------------------------------------
(* The user store. *)

Outcome(answer) ==
  IF answer.failed THEN "EIO" ELSE IF answer.length > MAX_BUF_LEN THEN "ERANGE" ELSE "0"

\* The loop ends as the largest buffer would, whatever its first one is.
LEMMA RetriedIs ==
  ASSUME NEW answer, IsAnswer(answer), NEW limit \in Nat \cup {-1}
  PROVE  retried(answer, limit) = Outcome(answer)
<1> DEFINE D == MIN_BUF_LEN..MAX_BUF_LEN
           Ret(len) == getpw_r(answer, len)
           Ends(len) == Ret(len) # "ERANGE" \/ len >= MAX_BUF_LEN
           Doubled(len) == IF len * 2 < MAX_BUF_LEN THEN len * 2 ELSE MAX_BUF_LEN
           Step(f, len) == IF Ends(len) THEN Ret(len) ELSE f[Doubled(len)]
           Loops(f) == f = [len \in D |-> Step(f, len)]
           F == [len \in D |-> Outcome(answer)]
           f == CHOOSE x : Loops(x)
<1>0. /\ MIN_BUF_LEN \in Nat \ {0} /\ MAX_BUF_LEN \in Nat /\ MAX_BUF_LEN >= MIN_BUF_LEN
  BY UserStoreAssumption
<1>1. answer.failed \in BOOLEAN /\ answer.length \in Nat BY DEF IsAnswer
<1>2. retried(answer, limit) = f[buf_len(limit)] BY DEF retried
<1>3. buf_len(limit) \in D BY <1>0 DEF buf_len
<1>4. ASSUME NEW len \in D, Ends(len) PROVE Ret(len) = Outcome(answer)
  <2>1. len \in Nat /\ len <= MAX_BUF_LEN BY <1>0
  <2>2. CASE answer.failed BY <2>2 DEF getpw_r, Outcome
  <2>3. CASE ~answer.failed /\ answer.length > len
    <3>1. Ret(len) = "ERANGE" BY <2>3 DEF getpw_r
    <3>2. len = MAX_BUF_LEN BY <1>0, <1>4, <2>1, <3>1
    <3> QED BY <2>3, <3>1, <3>2 DEF Outcome
  <2>4. CASE ~answer.failed /\ ~(answer.length > len)
    <3>1. Ret(len) = "0" BY <2>4 DEF getpw_r
    <3>2. ~(answer.length > MAX_BUF_LEN) BY <1>0, <1>1, <2>1, <2>4
    <3> QED BY <2>4, <3>1, <3>2 DEF Outcome
  <2> QED BY <2>2, <2>3, <2>4
<1>5. ASSUME NEW len \in D, ~Ends(len)
      PROVE  Doubled(len) \in D /\ Doubled(len) > len
  <2>1. len \in Nat /\ len >= 1 /\ len < MAX_BUF_LEN /\ len >= MIN_BUF_LEN BY <1>0, <1>5
  <2> QED BY <1>0, <2>1
<1> HIDE DEF Ret, Ends, Doubled
<1>6. Loops(F)
  <2>1. ASSUME NEW len \in D PROVE F[len] = Step(F, len)
    <3>1. CASE Ends(len) BY <1>4, <3>1
    <3>2. CASE ~Ends(len)
      <4> HIDE DEF D
      <4> QED BY <1>5, <3>2
    <3> QED BY <3>1, <3>2
  <2> HIDE DEF Step, D
  <2> DEFINE G == [len \in D |-> Step(F, len)]
  <2>2. \A len \in D : F[len] = G[len] BY <2>1
  <2>3. F = G BY <2>2
  <2> QED BY <2>3
<1>7. Loops(f)
  <2> HIDE DEF Loops
  <2> QED BY <1>6
<1> HIDE DEF f, F
<1>8. ASSUME NEW len \in D PROVE f[len] = Step(f, len)
  <2> HIDE DEF Step, D
  <2> QED BY <1>7
<1> DEFINE n == MAX_BUF_LEN - MIN_BUF_LEN
           S == {d \in 0..n : \A len \in D : MAX_BUF_LEN - len <= d => f[len] = Outcome(answer)}
<1>9. n \in Nat BY <1>0
<1>10. ASSUME NEW d \in 0..n, NEW len \in D, MAX_BUF_LEN - len <= d,
              ~Ends(len) => d # 0 /\ d - 1 \in S
       PROVE  f[len] = Outcome(answer)
  <2>1. CASE Ends(len) BY <1>4, <1>8, <2>1
  <2>2. CASE ~Ends(len)
    <3> DEFINE next == Doubled(len)
    <3>1. next \in D /\ next > len BY <1>5, <2>2
    <3> HIDE DEF next
    <3>2. MAX_BUF_LEN - next <= d - 1 BY <1>0, <1>10, <3>1
    <3>3. f[next] = Outcome(answer) BY <1>10, <2>2, <3>1, <3>2
    <3>4. f[len] = f[next] BY <1>8, <2>2 DEF next
    <3> QED BY <3>3, <3>4
  <2> QED BY <2>1, <2>2
<1>11. 0 \in S
  <2>1. 0 \in 0..n BY <1>9
  <2>2. ASSUME NEW len \in D, MAX_BUF_LEN - len <= 0 PROVE f[len] = Outcome(answer)
    <3>1. len >= MAX_BUF_LEN BY <1>0, <2>2
    <3>2. Ends(len) BY <3>1 DEF Ends
    <3> QED BY <1>4, <1>8, <3>2
  <2> QED BY <2>1, <2>2
<1>12. ASSUME NEW d \in 0..(n - 1), d \in S PROVE d + 1 \in S
  <2>1. d + 1 \in 0..n /\ d + 1 # 0 /\ (d + 1) - 1 = d BY <1>9
  <2>2. ASSUME NEW len \in D, MAX_BUF_LEN - len <= d + 1 PROVE f[len] = Outcome(answer)
    <3> HIDE DEF S
    <3> QED BY <1>10, <1>12, <2>1, <2>2
  <2> QED BY <2>1, <2>2
<1> HIDE DEF S, n
<1>13. 0..n \subseteq S BY <1>9, <1>11, <1>12, PlaceInduction
<1>14. n \in S BY <1>9, <1>13
<1>15. MAX_BUF_LEN - buf_len(limit) <= n BY <1>0, <1>3 DEF n
<1> QED BY <1>2, <1>3, <1>14, <1>15 DEF S

\* The elements of a sequence.
Holds(s, x) == \E i \in 1..Len(s) : s[i] = x

\* What two sequences joined hold.
LEMMA HoldsJoined ==
  ASSUME NEW U, NEW s \in Seq(U), NEW t \in Seq(U), NEW y, y = s \o t, NEW x
  PROVE  Holds(y, x) <=> Holds(s, x) \/ Holds(t, x)
<1>1. y \in Seq(U) /\ Len(y) = Len(s) + Len(t) BY JoinedIs
<1>2. Len(s) \in Nat /\ Len(t) \in Nat OBVIOUS
<1>3. \A i \in 1..Len(s) : y[i] = s[i] BY JoinedIs
<1>4. \A i \in 1..Len(t) : y[Len(s) + i] = t[i] BY JoinedIs
<1>5. ASSUME Holds(y, x) PROVE Holds(s, x) \/ Holds(t, x)
  <2>1. PICK i \in 1..Len(y) : y[i] = x BY <1>5 DEF Holds
  <2>2. CASE i <= Len(s)
    <3>1. i \in 1..Len(s) BY <1>2, <2>2
    <3> QED BY <1>3, <2>1, <3>1 DEF Holds
  <2>3. CASE ~(i <= Len(s))
    <3>1. i - Len(s) \in 1..Len(t) /\ Len(s) + (i - Len(s)) = i BY <1>1, <1>2, <2>3
    <3>2. t[i - Len(s)] = x BY <1>4, <2>1, <3>1
    <3> QED BY <3>1, <3>2 DEF Holds
  <2> QED BY <2>2, <2>3
<1>6. ASSUME Holds(s, x) PROVE Holds(y, x)
  <2>1. PICK i \in 1..Len(s) : s[i] = x BY <1>6 DEF Holds
  <2>2. i \in 1..Len(y) BY <1>1, <1>2
  <2> QED BY <1>3, <2>1, <2>2 DEF Holds
<1>7. ASSUME Holds(t, x) PROVE Holds(y, x)
  <2>1. PICK i \in 1..Len(t) : t[i] = x BY <1>7 DEF Holds
  <2>2. Len(s) + i \in 1..Len(y) BY <1>1, <1>2
  <2> QED BY <1>4, <2>1, <2>2 DEF Holds
<1> QED BY <1>5, <1>6, <1>7

\* Joining loses nothing and adds nothing.
LEMMA FlattenHolds ==
  ASSUME NEW U, NEW p \in Seq(Seq(U)), NEW x
  PROVE  Holds(FlattenSeq(p), x) <=> \E i \in 1..Len(p) : Holds(p[i], x)
<1> DEFINE n == Len(p)
<1>1. n \in Nat /\ \A i \in 1..n : p[i] \in Seq(U) OBVIOUS
<1>2. PICK g : Joins(p, n, U, g) /\ FlattenSeq(p) = g[n] BY FlattenSteps
<1> HIDE DEF n
<1>3. /\ \A i \in 0..n : g[i] \in Seq(U)
      /\ g[0] = <<>> /\ \A i \in 1..n : g[i] = g[i - 1] \o p[i]
  BY <1>2 DEF Joins
<1> DEFINE S == {j \in 0..n : Holds(g[j], x) <=> \E i \in 1..j : Holds(p[i], x)}
<1>4. 0 \in S
  <2>1. ~Holds(g[0], x) BY <1>3 DEF Holds
  <2>2. ~\E i \in 1..0 : Holds(p[i], x) OBVIOUS
  <2> QED BY <1>1, <2>1, <2>2
<1>5. ASSUME NEW j \in 0..(n - 1), j \in S PROVE j + 1 \in S
  <2> DEFINE y == g[j + 1]
             s == g[j]
             t == p[j + 1]
  <2>1. j \in Nat /\ j \in 0..n /\ j + 1 \in 1..n /\ j + 1 \in 0..n /\ (j + 1) - 1 = j BY <1>1
  <2>2. y = s \o t BY <1>3, <2>1
  <2>3. s \in Seq(U) /\ t \in Seq(U) BY <1>1, <1>3, <2>1
  <2>4. Holds(s, x) <=> \E i \in 1..j : Holds(p[i], x) BY <1>5
  <2> HIDE DEF y, s, t
  <2>5. Holds(y, x) <=> Holds(s, x) \/ Holds(t, x) BY <2>2, <2>3, HoldsJoined
  <2>6. \A i : i \in 1..(j + 1) <=> i \in 1..j \/ i = j + 1 BY <2>1
  <2>7. Holds(y, x) <=> \E i \in 1..(j + 1) : Holds(p[i], x) BY <2>4, <2>5, <2>6 DEF t
  <2> QED BY <2>1, <2>7 DEF y
<1> HIDE DEF S
<1>6. 0..n \subseteq S BY <1>1, <1>4, <1>5, PlaceInduction
<1>7. n \in S BY <1>1, <1>6
<1> QED BY <1>2, <1>7 DEF S, n

\* What a line comes to: nothing, or a key.
LEMMA GrantedOrIgnored ==
  ASSUME NEW line
  PROVE  from_str(line).granted <=> from_str(line) # Ignored
<1>1. \/ from_str(line) = Ignored
      \/ from_str(line) = [granted |-> TRUE, command |-> parse(trim(line)).command]
  BY DEF from_str
<1>2. Ignored.granted = FALSE BY DEF Ignored
<1>3. CASE from_str(line) = Ignored BY <1>2, <1>3
<1>4. CASE from_str(line) = [granted |-> TRUE, command |-> parse(trim(line)).command]
  <2>1. from_str(line).granted = TRUE BY <1>4
  <2> QED BY <1>2, <2>1
<1> QED BY <1>1, <1>3, <1>4

\* One bad line does not touch the others.
LEMMA EntriesOfLines ==
  ASSUME NEW lines \in Seq(Seq(Symbol))
  PROVE  LET granted == FlattenSeq([i \in DOMAIN lines |-> Entry(lines[i])])
         IN {granted[i] : i \in DOMAIN granted}
              = {from_str(lines[i]) : i \in DOMAIN lines} \ {Ignored}
<1> DEFINE U == {from_str(line) : line \in Seq(Symbol)}
           n == Len(lines)
           p == [i \in DOMAIN lines |-> Entry(lines[i])]
           granted == FlattenSeq(p)
<1>1. n \in Nat /\ DOMAIN lines = 1..n /\ \A i \in 1..n : lines[i] \in Seq(Symbol) OBVIOUS
<1>2. \A i \in 1..n : from_str(lines[i]) \in U BY <1>1
<1> HIDE DEF n, U
<1>3. \A i \in 1..n : Entry(lines[i]) \in Seq(U) BY <1>2 DEF Entry
<1>4. p \in [1..n -> Seq(U)] /\ \A i \in 1..n : p[i] = Entry(lines[i]) BY <1>1, <1>3
<1> HIDE DEF p
<1>5. p \in Seq(Seq(U)) /\ Len(p) = n BY <1>1, <1>4, FunctionIsSeq
<1>6. granted \in Seq(U) BY <1>5, FlattenType
<1>7. \A x : Holds(granted, x) <=> \E i \in 1..n : Holds(p[i], x) BY <1>5, FlattenHolds
<1> HIDE DEF granted
<1>8. ASSUME NEW i \in 1..n, NEW x
      PROVE  Holds(p[i], x) <=> from_str(lines[i]) = x /\ x # Ignored
  <2> DEFINE e == from_str(lines[i])
  <2>1. p[i] = IF e.granted THEN <<e>> ELSE <<>> BY <1>4 DEF Entry
  <2>2. e.granted <=> e # Ignored BY GrantedOrIgnored
  <2> HIDE DEF e
  <2>3. CASE e # Ignored
    <3>1. Len(<<e>>) = 1 /\ <<e>>[1] = e /\ \A j \in 1..1 : j = 1 OBVIOUS
    <3>2. p[i] = <<e>> BY <2>1, <2>2, <2>3
    <3>3. Holds(<<e>>, x) <=> e = x BY <3>1 DEF Holds
    <3> QED BY <2>3, <3>2, <3>3 DEF e
  <2>4. CASE e = Ignored
    <3>1. p[i] = <<>> BY <2>1, <2>2, <2>4
    <3>2. ~Holds(<<>>, x) BY DEF Holds
    <3> QED BY <2>4, <3>1, <3>2 DEF e
  <2> QED BY <2>3, <2>4
<1>9. DOMAIN granted = 1..Len(granted) BY <1>6
<1>10. ASSUME NEW x
       PROVE  x \in {granted[i] : i \in DOMAIN granted}
                <=> x \in {from_str(lines[i]) : i \in DOMAIN lines} \ {Ignored}
  <2>1. x \in {granted[i] : i \in DOMAIN granted} <=> Holds(granted, x) BY <1>9 DEF Holds
  <2>2. x \in {from_str(lines[i]) : i \in DOMAIN lines} \ {Ignored}
          <=> \E i \in 1..n : from_str(lines[i]) = x /\ x # Ignored
    BY <1>1
  <2> QED BY <1>7, <1>8, <2>1, <2>2
<1>11. {granted[i] : i \in DOMAIN granted}
         = {from_str(lines[i]) : i \in DOMAIN lines} \ {Ignored}
  BY <1>10
<1> QED BY <1>11 DEF granted, p

\* SystemStore, for every answer of the database, every limit of sysconf and every
\* content of a home directory: an account that fits the largest buffer is found
\* whatever the first buffer is, keys come only from a file nobody else could
\* write, and exactly those of the lines that grant one.
THEOREM StoreIsRight ==
  ASSUME NEW name, NEW answer, IsAnswer(answer), NEW limit \in Nat \cup {-1},
         NEW home, IsHome(home), NEW root_policy
  PROVE  StoreRight(name, answer, limit, home, root_policy)
<1> DEFINE user == resolve(name, answer, limit)
           exists == answer.found /\ answer.length <= MAX_BUF_LEN
           granted == IF Admits(user, root_policy) THEN keys(home, user) ELSE <<>>
           Levels == {"home", "ssh", "file"}
           Safe(level) == /\ home[level].there /\ home[level].statable
                          /\ ~home[level].writable
                          /\ home[level].owner = 0 \/ (exists /\ home[level].owner = answer.uid)
           safe == \A level \in Levels : Safe(level)
<1>0. U32_MAX \in Nat \ {0} /\ MAX_BUF_LEN \in Nat BY UserStoreAssumption
<1>1. /\ answer.failed \in BOOLEAN /\ answer.found \in BOOLEAN /\ answer.length \in Nat
      /\ answer.found => ~answer.failed /\ answer.uid \in 0..(U32_MAX - 1)
  BY DEF IsAnswer
<1>2. retried(answer, limit) = "0" /\ answer.found <=> exists
  <2>1. retried(answer, limit) = Outcome(answer) BY RetriedIs
  <2>2. Outcome(answer) = "0" <=> ~answer.failed /\ ~(answer.length > MAX_BUF_LEN)
    BY DEF Outcome
  <2> QED BY <1>0, <1>1, <2>1, <2>2
<1>3. IF exists
        THEN /\ user.id = answer.uid /\ user.home_dir \in {answer.dir, FAKE_HOME}
             /\ user.shell = IF answer.shell \in {Null, ""} THEN DEFAULT_SHELL ELSE answer.shell
        ELSE user.id = U32_MAX /\ user.home_dir = FAKE_HOME /\ user.shell = DEFAULT_SHELL
  BY <1>2 DEF resolve
<1>4. user.shell \notin {Null, ""}
  <2>1. DEFAULT_SHELL \notin {Null, ""} BY DEF DEFAULT_SHELL, Null
  <2> QED BY <1>3, <2>1
<1> HIDE DEF exists, user
<1>5. ASSUME NEW level \in Levels
      PROVE  Opens(home[level]) /\ check_permissions(home[level], user.id) <=> Safe(level)
  <2>1. home[level].owner \in 0..(U32_MAX - 1) BY DEF IsHome
  <2>2. home[level].owner \in {0, user.id}
          <=> home[level].owner = 0 \/ (exists /\ home[level].owner = answer.uid)
    <3>1. CASE exists BY <1>3, <3>1
    <3>2. CASE ~exists
      <4>1. user.id = U32_MAX BY <1>3, <3>2
      <4>2. home[level].owner # U32_MAX BY <1>0, <2>1
      <4> QED BY <3>2, <4>1, <4>2
    <3> QED BY <3>1, <3>2
  <2> QED BY <2>2 DEF Opens, check_permissions
<1> HIDE DEF Safe
<1>6. keys(home, user) = IF safe
                           THEN IF home.readable
                                  THEN FlattenSeq([i \in DOMAIN home.lines |-> Entry(home.lines[i])])
                                  ELSE <<>>
                           ELSE <<>>
  BY <1>5 DEF keys
<1>7. granted # <<>> => safe /\ (user.id = 0 => root_policy = "Allow") BY <1>6 DEF Admits
<1>8. safe /\ home.readable /\ Admits(user, root_policy) =>
        {granted[i] : i \in DOMAIN granted}
          = {from_str(home.lines[i]) : i \in DOMAIN home.lines} \ {Ignored}
  <2> SUFFICES ASSUME safe, home.readable, Admits(user, root_policy)
               PROVE  {granted[i] : i \in DOMAIN granted}
                        = {from_str(home.lines[i]) : i \in DOMAIN home.lines} \ {Ignored}
    OBVIOUS
  <2> DEFINE lines == home.lines
  <2>1. lines \in Seq(Seq(Symbol)) BY DEF IsHome
  <2>2. granted = FlattenSeq([i \in DOMAIN lines |-> Entry(lines[i])]) BY <1>6
  <2> HIDE DEF lines, granted
  <2> QED BY <2>1, <2>2, EntriesOfLines DEF lines
<1>9. IF exists THEN user.id = answer.uid /\ user.home_dir \in {answer.dir, FAKE_HOME}
      ELSE user.id = U32_MAX /\ user.home_dir = FAKE_HOME
  BY <1>3
<1> HIDE DEF granted
<1> QED BY <1>4, <1>7, <1>8, <1>9 DEF StoreRight, user, exists, granted, Safe

-----------------------------------------------------------------------------
(* The runs' invariants, for every set of inputs. *)

\* An input is one of those that are given, and of the kind it says.
Given ==
  \/ input = [kind |-> "none"]
  \/ input.kind = "sent" /\ input.value \in Sent
  \/ input.kind = "foreign" /\ input.value \in Foreign
  \/ input.kind = "connection" /\ input.value \in Connections
  \/ input.kind = "line" /\ input.value \in Lines
  \/ input.kind = "command" /\ input.value \in Commands
  \/ input.kind = "user" /\ input.value \in Lookups

\* No step hands an algorithm another input.
LEMMA InputsGiven == Spec => []Given
<1>1. Init => Given BY DEF Init, Given
<1>2. Given /\ [Next]_input => Given'
  <2> SUFFICES ASSUME Given, [Next]_input PROVE Given' OBVIOUS
  <2>1. CASE UNCHANGED input BY <2>1 DEF Given
  <2>2. CASE Input("sent", Sent) BY <2>2 DEF Given, Input
  <2>3. CASE Input("foreign", Foreign) BY <2>3 DEF Given, Input
  <2>4. CASE Input("connection", Connections) BY <2>4 DEF Given, Input
  <2>5. CASE Input("line", Lines) BY <2>5 DEF Given, Input
  <2>6. CASE Input("command", Commands) BY <2>6 DEF Given, Input
  <2>7. CASE Input("user", Lookups) BY <2>7 DEF Given, Input
  <2> QED BY <2>1, <2>2, <2>3, <2>4, <2>5, <2>6, <2>7 DEF Next, Frame, Negotiate, Read, LookUp
<1> QED BY <1>1, <1>2, PTL DEF Spec

\* An input of a kind is from that kind's set.
LEMMA KindOfInput ==
  ASSUME Given
  PROVE  /\ input.kind = "sent" => input.value \in Sent
         /\ input.kind = "foreign" => input.value \in Foreign
         /\ input.kind = "connection" => input.value \in Connections
         /\ input.kind = "line" => input.value \in Lines
         /\ input.kind = "command" => input.value \in Commands
         /\ input.kind = "user" => input.value \in Lookups
BY DEF Given

\* In every state, whatever packets are given: encode_kx pads as RFC 4253 asks,
\* poll_packet and decode_packet undo it at every point of the arrival, and no
\* length field makes them read outside the packet.
THEOREM FramingIsSound == Spec => []FramingSound
<1>1. Given => FramingSound
  <2> SUFFICES ASSUME Given PROVE FramingSound OBVIOUS
  <2> DEFINE given == input.value
             n == given.payload_len
             sealed == given.sealed
             packet == given.packet
             have == given.have
  <2>1. ASSUME input.kind = "sent"
        PROVE  /\ WellFormed(n, sealed)
               /\ \A h \in 0..(encode_kx(n, sealed).bytes + 1) : RoundTrip(n, sealed, h)
    <3>1. n \in Payloads /\ sealed \in BOOLEAN BY <2>1, KindOfInput, AlgorithmsAssumption
    <3>2. n \in Nat BY <3>1 DEF Payloads
    <3> HIDE DEF n, sealed
    <3>3. WellFormed(n, sealed) BY <3>1, <3>2, PaddingRight
    <3>4. \A h \in Nat : RoundTrip(n, sealed, h) BY <3>1, FramesRoundTrip
    <3>5. \A h \in 0..(encode_kx(n, sealed).bytes + 1) : h \in Nat OBVIOUS
    <3> QED BY <3>3, <3>4, <3>5
  <2>2. ASSUME input.kind = "foreign" PROVE WithinPacketBounds(packet, have, sealed)
    <3>1. /\ packet.packet_length \in Nat /\ packet.padding_length \in 0..255
          /\ have \in Nat /\ sealed \in BOOLEAN
      BY <2>2, KindOfInput, AlgorithmsAssumption
    <3> HIDE DEF packet, have, sealed
    <3> QED BY <3>1, NoReadOutside
  <2> QED BY <2>1, <2>2 DEF FramingSound
<1> QED BY <1>1, InputsGiven, PTL

\* In every state, whatever files and clients are given: the host keys are the ones
\* that were written, and both exchanges of a connection choose as they have to.
THEOREM HostKeysDoAgree == Spec => []HostKeysAgree
<1>1. Given => HostKeysAgree
  <2> SUFFICES ASSUME Given, input.kind = "connection"
               PROVE  /\ KeysKept(input.value.files)
                      /\ NegotiationAgrees(input.value.files, input.value.client, input.value.again)
    BY DEF HostKeysAgree
  <2> DEFINE files == input.value.files
             client == input.value.client
             again == input.value.again
  <2>1. input.value \in Connections BY KindOfInput
  <2>2. /\ Len(files) \in Nat /\ DOMAIN files = 1..Len(files)
        /\ \A i \in DOMAIN files : HostKeyFile(files[i])
    BY <2>1, AlgorithmsAssumption
  <2>3. IsInit(client) /\ IsInit(again) BY <2>1, AlgorithmsAssumption
  <2> HIDE DEF files, client, again
  <2>4. KeysKept(files) BY <2>2, HostKeysKept
  <2>5. NegotiationAgrees(files, client, again) BY <2>2, <2>3, NegotiationRight
  <2> QED BY <2>4, <2>5 DEF files, client, again
<1> QED BY <1>1, InputsGiven, PTL

\* In every state, whatever lines, commands and users are given: no line loses a
\* restriction, every command comes through, and a user gets the keys of a file
\* that is safe from others and nothing else.
THEOREM AuthorizedKeysAreRight == Spec => []AuthorizedKeysRight
<1>1. Given => AuthorizedKeysRight
  <2> SUFFICES ASSUME Given PROVE AuthorizedKeysRight OBVIOUS
  <2> DEFINE given == input.value
  <2>1. ASSUME input.kind = "line" PROVE OptionsKept(given)
    <3>1. given \in Seq(Symbol) BY <2>1, KindOfInput, AlgorithmsAssumption
    <3> QED BY <3>1, LinesKeepOptions
  <2>2. ASSUME input.kind = "command" PROVE CommandKept(given)
    <3>1. given \in Seq(Symbol) BY <2>2, KindOfInput, AlgorithmsAssumption
    <3> QED BY <3>1, CommandsComeThrough
  <2>3. ASSUME input.kind = "user"
        PROVE  StoreRight("a", given.answer, given.limit, given.home, given.root_policy)
    <3> DEFINE answer == given.answer
               limit == given.limit
               home == given.home
    <3>1. given \in Lookups BY <2>3, KindOfInput
    <3>2. IsAnswer(answer) /\ limit \in Nat \cup {-1} /\ IsHome(home)
      BY <3>1, AlgorithmsAssumption
    <3> HIDE DEF answer, limit, home
    <3>3. StoreRight("a", answer, limit, home, given.root_policy) BY <3>2, StoreIsRight
    <3> QED BY <3>3 DEF answer, limit, home
  <2> QED BY <2>1, <2>2, <2>3 DEF AuthorizedKeysRight
<1> QED BY <1>1, InputsGiven, PTL
=============================================================================
