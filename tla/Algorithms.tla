----------------------------- MODULE Algorithms -----------------------------
(***************************************************************************)
(* The algorithms without state of their own: a step hands one of them an  *)
(* input, the invariants compare what the algorithm makes of it with what  *)
(* it should.                                                              *)
(***************************************************************************)
EXTENDS Framing, Negotiation, UserStore

CONSTANTS
  Sent,          \* packets the server sends: payload_len, sealed
  Foreign,       \* packets of a peer, as far as they have arrived: packet, have, sealed
  Name,          \* names of algorithms
  Connections,   \* the host key files, and the KEXINITs of a client: files, client, again
  Lines,         \* lines of authorized_keys
  Commands,      \* commands to restrict a key to
  Lookups        \* what the system knows of a user: answer, limit, home, root_policy

IsInit(init) ==
  /\ init.key_exchange_algorithms \in Seq(Name)
  /\ init.server_host_key_algorithms \in Seq(Name)
  /\ init.encryption_algorithms_client_to_server \in Seq(Name)
  /\ init.encryption_algorithms_server_to_client \in Seq(Name)

ASSUME AlgorithmsAssumption ==
  /\ \A sent \in Sent : sent.payload_len \in Payloads /\ sent.sealed \in BOOLEAN
  /\ \A foreign \in Foreign :
       /\ foreign.packet.packet_length \in Nat
       /\ foreign.packet.padding_length \in 0..255
       /\ foreign.have \in Nat
       /\ foreign.sealed \in BOOLEAN
  /\ \A connection \in Connections :
       /\ Len(connection.files) \in Nat
       /\ DOMAIN connection.files = 1..Len(connection.files)
       /\ \A i \in DOMAIN connection.files : HostKeyFile(connection.files[i])
       /\ IsInit(connection.client)
       /\ IsInit(connection.again)
  /\ Lines \subseteq Seq(Symbol)
  /\ Commands \subseteq Seq(Symbol)
  /\ \A lookup \in Lookups :
       /\ IsAnswer(lookup.answer)
       /\ lookup.limit \in Nat \cup {-1}
       /\ IsHome(lookup.home)
       /\ lookup.root_policy \in {"Allow", "Deny"}

VARIABLE input

Input(kind, set) == \E value \in set : input' = [kind |-> kind, value |-> value]

Frame == Input("sent", Sent) \/ Input("foreign", Foreign)
Negotiate == Input("connection", Connections)
Read == Input("line", Lines) \/ Input("command", Commands)
LookUp == Input("user", Lookups)

Init == input = [kind |-> "none"]
Next == input.kind = "none" /\ (Frame \/ Negotiate \/ Read \/ LookUp)
Spec == Init /\ [][Next]_input

-----------------------------------------------------------------------------
(* Properties. *)

\* encode_kx pads as RFC 4253 asks, poll_packet and decode_packet undo it at
\* every point of the arrival, and no length field makes them read elsewhere.
FramingSound ==
  LET given == input.value
      bytes == encode_kx(given.payload_len, given.sealed).bytes
  IN /\ input.kind = "sent" =>
          /\ WellFormed(given.payload_len, given.sealed)
          /\ \A have \in 0..(bytes + 1) : RoundTrip(given.payload_len, given.sealed, have)
     /\ input.kind = "foreign" =>
          WithinPacketBounds(given.packet, given.have, given.sealed)

\* From the files of the server to the rekeying of a connection: the keys it
\* loads are those that were written, whatever else was done to the other files
\* that from_files can detect, and the algorithms and the host key of
\* both exchanges are the ones they have to be.
HostKeysAgree ==
  LET given == input.value
  IN input.kind = "connection" =>
       KeysKept(given.files) /\ NegotiationAgrees(given.files, given.client, given.again)

\* What the database and the files of a user grant: an account is found, its
\* file counts only if it is safe from others, no line loses a restriction, and
\* every command comes through.
AuthorizedKeysRight ==
  LET given == input.value
  IN /\ input.kind = "line" => OptionsKept(given)
     /\ input.kind = "command" => CommandKept(given)
     /\ input.kind = "user" =>
          StoreRight("a", given.answer, given.limit, given.home, given.root_policy)
=============================================================================
