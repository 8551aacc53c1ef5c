------------------------------ MODULE PacketIO ------------------------------
(***************************************************************************)
(* oxish-proto/src/io.rs: ReadState and WriteState, as operators on their  *)
(* values, over streams that carry a packet in several pieces.             *)
(*                                                                         *)
(* A stream is a sequence of cells; a packet occupies Size[type] cells in  *)
(* a row, and a read or a write moves any number of them.  Encryption is   *)
(* what it promises: a packet opens under the key, the invocation counter  *)
(* and the sequence number it was sealed with, and under nothing else.     *)
(* (AES-GCM, the only cipher there is, does not look at the sequence       *)
(* number; SealingKey and OpeningKey are handed it all the same.)          *)
(***************************************************************************)
EXTENDS Integers, Sequences

CONSTANTS
  Size,            \* cells of a packet, by the type of its message
  SequenceModulus  \* 2^32

ASSUME PacketIOAssumption ==
  /\ \A t \in DOMAIN Size : Size[t] \in Nat \ {0}
  /\ SequenceModulus \in Nat \ {0}

NoKey == <<>>

\* What goes over the wire for one message.
Packet(m, key, counter, seq) ==
  [msg |-> m, key |-> key, counter |-> counter, seq |-> seq]

Cells(p) == [i \in 1..Size[p.msg.type] |-> [packet |-> p, at |-> i]]

-----------------------------------------------------------------------------
(* log is history: the packets that were encoded, or decoded, so far. *)

NewWriteState ==
  [buf |-> <<>>, written |-> 0, sequence_number |-> 0,
   sealer |-> [key |-> NoKey, counter |-> 0], log |-> <<>>]

NewReadState ==
  [buf |-> <<>>, last_length |-> 0, sequence_number |-> 0,
   opener |-> [key |-> NoKey, counter |-> 0], log |-> <<>>]

\* A sealer or an opener after one more packet; without a key there is none.
Used(k) == IF k.key = NoKey THEN k ELSE [k EXCEPT !.counter = @ + 1]

encode(w, m) ==
  LET p == Packet(m, w.sealer.key, w.sealer.counter, w.sequence_number)
  IN [w EXCEPT !.buf = @ \o Cells(p), !.log = Append(@, p),
               !.sealer = Used(@),
               !.sequence_number = (@ + 1) % SequenceModulus]

\* WriteState::encoded: a message that is not framed as a packet.
encoded(w, m) ==
  LET p == Packet(m, NoKey, 0, 0)
  IN [w EXCEPT !.buf = @ \o Cells(p), !.log = Append(@, p)]

buffered(w) == SubSeq(w.buf, w.written + 1, Len(w.buf))

\* n cells of what is buffered were written to the stream.
written(w, n) ==
  IF w.written + n = Len(w.buf)
  THEN [w EXCEPT !.buf = <<>>, !.written = 0]
  ELSE [w EXCEPT !.written = @ + n]

-----------------------------------------------------------------------------
\* The bytes of the last packet are dropped when the next one is polled.
compact(r) ==
  [r EXCEPT !.buf = SubSeq(@, r.last_length + 1, Len(@)), !.last_length = 0]

IsComplete_NeedsMore(buf) == buf /= <<>> /\ Len(buf) > Size[buf[1].packet.msg.type]
\* The buffer begins with a whole packet; its length is in its first cell.
IsComplete(buf) == buf /= <<>> /\ Len(buf) >= Size[buf[1].packet.msg.type]

\* The cells at the front are those of one packet, and it opens.  Nothing
\* protects a packet before the first keys.
Opens(r) ==
  LET p == r.buf[1].packet
  IN /\ SubSeq(r.buf, 1, Len(Cells(p))) = Cells(p)
     /\ p.key = r.opener.key
     /\ p.key /= NoKey => p.counter = r.opener.counter /\ p.seq = r.sequence_number

poll_packet_NoLength(r) ==
  LET p == r.buf[1].packet
  IN [r EXCEPT !.log = Append(@, p), !.opener = Used(@),
               !.sequence_number = (@ + 1) % SequenceModulus]
poll_packet(r) ==
  LET p == r.buf[1].packet
  IN [r EXCEPT !.last_length = Len(Cells(p)), !.log = Append(@, p),
               !.opener = Used(@),
               !.sequence_number = (@ + 1) % SequenceModulus]
=============================================================================
