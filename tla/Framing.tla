------------------------------ MODULE Framing -------------------------------
(***************************************************************************)
(* oxish-proto/src/io.rs: the arithmetic of packets.  encode_kx lays a     *)
(* payload out as a packet, poll_packet finds out whether a whole packet   *)
(* has arrived, decode_packet takes the payload out of it.                 *)
(*                                                                         *)
(* A packet is its two length fields and the number of bytes it takes; a   *)
(* buffer is the number of bytes it holds from the start of that packet    *)
(* on, those of later packets included.  Order, keys and sequence numbers  *)
(* are in PacketIO.                                                        *)
(***************************************************************************)
EXTENDS Integers

MAX_PACKET_LEN == 64 * 1024

\* AES-GCM, the only cipher: block_len and tag_len of the keys.
block_len == 16
tag_len(sealed) == IF sealed THEN 16 ELSE 0

Larger(a, b) == IF a > b THEN a ELSE b

\* usize::next_multiple_of.
next_multiple_of(n, m) == IF n % m = 0 THEN n ELSE n + m - (n % m)

-----------------------------------------------------------------------------
(* WriteState::encode_kx. *)

block_size(sealed) == Larger(IF sealed THEN block_len ELSE 0, 8)

\* The part that has to be a multiple of block_size, before padding: the packet
\* length is sent in the clear, and left out, once there is a key.
region(payload_len, sealed) == 5 + payload_len - (IF sealed THEN 4 ELSE 0)

padding_len_Short(payload_len, sealed) ==
  Larger(next_multiple_of(region(payload_len, sealed), block_size(sealed)), 16)
    - region(payload_len, sealed)
padding_len(payload_len, sealed) ==
  LET r == region(payload_len, sealed)
      min_padding == Larger(next_multiple_of(r, block_size(sealed)), 16) - r
  IN IF min_padding < 4 THEN min_padding + block_size(sealed) ELSE min_padding

\* The padding length keeps 8 bits.  The packet length keeps 32, which no payload
\* of the server comes near.
encode_kx(payload_len, sealed) ==
  LET padding == padding_len(payload_len, sealed)
  IN [packet_length |-> 1 + payload_len + padding,
      padding_length |-> padding % 256,
      bytes |-> 5 + payload_len + padding + tag_len(sealed)]

-----------------------------------------------------------------------------
(* ReadState. *)

Incomplete(n) == [result |-> "incomplete", length |-> n]
Complete(n) == [result |-> "complete", length |-> n]
Invalid == [result |-> "invalid", length |-> 0]

PacketLength(packet) == packet.packet_length <= MAX_PACKET_LEN
PaddingLength(packet) == packet.padding_length >= 4

\* Complete(n): the packet takes the first n bytes, which is what last_length
\* is set to.
poll_packet(packet, have, sealed) ==
  LET end == 4 + packet.packet_length
  IN IF have < 4 THEN Incomplete(4 - have)
     ELSE IF ~PacketLength(packet) THEN Invalid
     ELSE IF have < end + tag_len(sealed) THEN Incomplete(end + tag_len(sealed) - have)
     ELSE Complete(end + tag_len(sealed))

\* packet.padding_length is the fifth byte of the buffer, whosever it is: a
\* packet of length 0 has none.
decode_packet(packet, have) ==
  LET payload_len == packet.packet_length - 1 - packet.padding_length
  IN IF have < 5 \/ ~PaddingLength(packet) \/ payload_len <= 0
     THEN Invalid
     ELSE Complete(payload_len)

-----------------------------------------------------------------------------
(* Properties. *)

\* What the server can send as one packet.
Payloads == 1..(MAX_PACKET_LEN - 20)

\* RFC 4253, 6: at least four bytes of padding, which one byte can count, up to
\* a multiple of the block size and to sixteen bytes.
WellFormed(payload_len, sealed) ==
  LET p == encode_kx(payload_len, sealed)
      covered == p.bytes - tag_len(sealed) - (IF sealed THEN 4 ELSE 0)
  IN /\ p.padding_length = padding_len(payload_len, sealed)
     /\ p.padding_length \in 4..255
     /\ covered % block_size(sealed) = 0
     /\ covered >= 16

\* What encode_kx wrote, poll_packet and decode_packet read: whatever part has
\* arrived, the packet is complete when its last byte is there and not before,
\* a count of missing bytes never goes beyond it, and the payload comes out as
\* long as it went in.
RoundTrip(payload_len, sealed, have) ==
  LET p == encode_kx(payload_len, sealed)
      polled == poll_packet(p, have, sealed)
  IN /\ have < p.bytes =>
          /\ polled.result = "incomplete"
          /\ polled.length \in 1..(p.bytes - have)
          /\ have >= 4 => polled.length = p.bytes - have
     /\ have >= p.bytes =>
          /\ polled = Complete(p.bytes)
          /\ decode_packet(p, have) = Complete(payload_len)

\* Any packet of a peer, whatever its length fields say: a payload that is
\* handed on lies inside the packet, behind the fields and before the padding.
WithinPacketBounds(packet, have, sealed) ==
  LET polled == poll_packet(packet, have, sealed)
      decoded == decode_packet(packet, have)
  IN polled.result = "complete" /\ decoded.result = "complete" =>
       /\ decoded.length > 0
       /\ 5 + decoded.length + packet.padding_length = polled.length - tag_len(sealed)
       /\ polled.length <= have
=============================================================================
