----------------------------- MODULE Transport ------------------------------
(***************************************************************************)
(* The transport of one connection, from its first byte to its session     *)
(* process: Connection::identify, exchange_keys and flush (oxish/src/      *)
(* lib.rs), the key exchanges (key_exchange.rs), the handoff of the        *)
(* transport's state (server.rs, unix/mod.rs) and what authenticate and    *)
(* Session::run do to it.  The client, which is external, keeps to         *)
(* RFC 4253 but for MaxStrays packets: it pipelines requests and data, and *)
(* sends IGNORE (DEBUG is treated alike) wherever it may, within an        *)
(* exchange too.  It begins the exchanges, and guesses none of them.       *)
(*                                                                         *)
(*   server   the task that owns the connection:                           *)
(*     at        what it awaits ("identify", "ident" while it writes its   *)
(*               own identification, "receive", "flush", "notify" while it *)
(*               flushes a last Disconnect), or that it is between two     *)
(*               processes ("spawn", "handoff"), or that it ended          *)
(*     stage     "kx", "auth", "granted" or "session"                      *)
(*     state     which message the key exchange awaits                     *)
(*     exchange  HandshakeBuffer: what the exchange hash covers            *)
(*     session_id, keys, strict_kx, ext_info, identities                   *)
(*     exchanges, outputs   exchanges begun, output sent by the terminals  *)
(*     failed    history: whether it ended with a protocol error           *)
(*   read, write   ReadState and WriteState                                *)
(*   handoff       the SessionState under way to the session process       *)
(*   client        the peer, with a ReadState and a WriteState of its own  *)
(*   c2s, s2c      the cells that are in the network                       *)
(***************************************************************************)
EXTENDS PacketIO

CONSTANTS
  Eager,         \* whether the client sends KEXINIT before it has read the
                 \* server's identification
  Capacity,      \* cells the network holds in a direction
  MaxStrays,     \* bound: packets by which the client breaks the protocol
  MaxMessages,   \* bound: optional messages of the client, those included
  MaxOutputs,    \* bound: messages the terminals cause
  MaxExchanges   \* bound: key exchanges

VARIABLES server, read, write, handoff, client, c2s, s2c

transportVars == <<server, read, write, handoff, client, c2s, s2c>>

\* The messages the transport tells apart: the packets of an exchange, those
\* of authentication (Try is a request that fails) and those of a session.
MessageTypes ==
  {"Ident", "KexInit", "EcdhInit", "EcdhReply", "NewKeys", "ExtInfo", "Ignore", "Try",
   "Auth", "Failure", "Success", "Disconnect", "Data", "Answer", "Output"}

ASSUME TransportAssumption ==
  /\ Eager \in BOOLEAN
  /\ MessageTypes \subseteq DOMAIN Size
  /\ \A t \in DOMAIN Size : Size[t] <= Capacity
  /\ {Capacity, MaxStrays, MaxMessages, MaxOutputs, MaxExchanges} \subseteq Nat

\* Messages.  Those of an exchange are fresh: the cookie, the ephemeral keys.
Msg(t) == [type |-> t]
Fresh(t, n) == [type |-> t, n |-> n]
KexInit(n, strict, ext) ==
  [type |-> "KexInit", n |-> n, strict |-> strict, ext_info |-> ext]

\* The keys of a direction, from what went into the exchange hash.
Key(direction, exchange, session_id) == <<direction, exchange, session_id>>

InitTransport ==
  /\ server = [at |-> "identify", stage |-> "kx", state |-> "AwaitingKexInit",
               exchange |-> <<>>, session_id |-> <<>>, strict_kx |-> FALSE,
               ext_info |-> FALSE, identities |-> <<>>, exchanges |-> 0, outputs |-> 0,
               failed |-> FALSE]
  /\ read = NewReadState /\ write = NewWriteState
  /\ handoff = {}
  /\ \E strict, ext \in BOOLEAN :
       client = [at |-> "new", strict |-> strict, ext_info |-> ext, asked |-> FALSE,
                 heard |-> FALSE, exchange |-> <<>>, session_id |-> <<>>,
                 exchanges |-> 0, messages |-> 0, strays |-> 0, ok |-> TRUE,
                 read |-> NewReadState, write |-> NewWriteState]
  /\ c2s = <<>> /\ s2c = <<>>

-----------------------------------------------------------------------------
(* The server: how its steps end. *)

\* r and w are the new states of the two sides, s that of the task, which
\* flushes what there is to flush and then receives.
Proceed(r, w, s) ==
  /\ read' = r /\ write' = w
  /\ server' = [s EXCEPT !.at = IF buffered(w) = <<>> THEN "receive" ELSE "flush"]
  /\ UNCHANGED <<handoff, client, c2s, s2c>>

\* The error of a step ends the connection.  authenticate says so to the peer.
Fails(r) ==
  LET told == server.stage = "auth"
  IN /\ read' = r
     /\ write' = IF told THEN encode(write, Msg("Disconnect")) ELSE write
     /\ server' = [server EXCEPT !.at = IF told THEN "notify" ELSE "closed",
                                !.failed = TRUE]
     /\ UNCHANGED <<handoff, client, c2s, s2c>>

-----------------------------------------------------------------------------
(* Connection::identify. *)

\* The bytes after the client's line are those of packets, which need not
\* be the UTF-8 that Identification::decode expects of the whole buffer.
identify(k) ==
  LET buf == read.buf \o SubSeq(c2s, 1, k)
      first == buf[1].packet
  IN /\ server.at = "identify"
     /\ c2s' = SubSeq(c2s, k + 1, Len(c2s))
     /\ \/ /\ ~IsComplete(buf)
           /\ read' = [read EXCEPT !.buf = buf]
           /\ UNCHANGED <<server, write>>
        \/ /\ IsComplete(buf)
           /\ read' = [read EXCEPT !.buf = buf, !.last_length = Size["Ident"],
                                   !.log = Append(@, first)]
           /\ write' = encoded(write, Msg("Ident"))
           /\ server' = [server EXCEPT !.at = "ident", !.identities = <<"V_C", "V_S">>]
        \/ /\ Len(buf) > Size["Ident"]
           /\ read' = [read EXCEPT !.buf = buf]
           /\ server' = [server EXCEPT !.at = "closed", !.failed = TRUE]
           /\ UNCHANGED write
     /\ UNCHANGED <<handoff, client, s2c>>

-----------------------------------------------------------------------------
(* KeyUpdate::apply: NEWKEYS goes out under the old keys. *)

apply_EarlyKey(w, s) ==
  encode([w EXCEPT !.sealer = [key |-> Key("s2c", s.exchange, s.session_id), counter |-> 0]],
         Msg("NewKeys"))
apply(w, s) ==
  LET v == encode(w, Msg("NewKeys"))
  IN [v EXCEPT !.sequence_number = IF s.strict_kx THEN 0 ELSE @,
               !.sealer = [key |-> Key("s2c", s.exchange, s.session_id), counter |-> 0]]

apply_read(r, s) ==
  [r EXCEPT !.sequence_number = IF s.strict_kx THEN 0 ELSE @,
            !.opener = [key |-> Key("c2s", s.exchange, s.session_id), counter |-> 0]]

\* KeyExchange::start.  Only the first exchange settles what is strict.
handle_kexinit(m, r) ==
  LET n == server.exchanges + 1
      local == KexInit(n, server.stage = "kx", FALSE)
  IN /\ server.state = "AwaitingKexInit" /\ m.type = "KexInit"
     /\ Proceed(r, encode(write, local),
          [server EXCEPT !.state = "AwaitingEcdhInit", !.exchanges = n,
             !.exchange = server.identities \o <<m, local>>,
             !.strict_kx = IF server.stage = "kx" THEN m.strict ELSE @,
             !.ext_info = server.stage = "kx" /\ m.ext_info])

handle_ecdh_init_NewId(m, r) ==
  LET q_s == Fresh("EcdhReply", server.exchanges)
      exchange == server.exchange \o <<"K_S", m, q_s>>
  IN /\ server.state = "AwaitingEcdhInit" /\ m.type = "EcdhInit"
     /\ Proceed(r, encode(write, q_s),
          [server EXCEPT !.state = "AwaitingNewKeys", !.exchange = exchange,
             !.session_id = exchange])
\* EcdhKeyExchangeReply::new.  The first exchange hash is the session id.
handle_ecdh_init(m, r) ==
  LET q_s == Fresh("EcdhReply", server.exchanges)
      exchange == server.exchange \o <<"K_S", m, q_s>>
  IN /\ server.state = "AwaitingEcdhInit" /\ m.type = "EcdhInit"
     /\ Proceed(r, encode(write, q_s),
          [server EXCEPT !.state = "AwaitingNewKeys", !.exchange = exchange,
             !.session_id = IF server.stage = "kx" THEN exchange ELSE @])

\* After the first exchange, extension information and an IGNORE follow.
handle_newkeys(m, r) ==
  LET w == apply(write, server)
      x == IF server.ext_info THEN encode(w, Msg("ExtInfo")) ELSE w
  IN /\ server.state = "AwaitingNewKeys" /\ m.type = "NewKeys"
     /\ Proceed(apply_read(r, server),
          IF server.stage = "kx" THEN encode(x, Msg("Ignore")) ELSE w,
          [server EXCEPT !.state = "AwaitingKexInit",
             !.stage = IF @ = "kx" THEN "auth" ELSE @])

handle_kx(m, r) ==
  \/ handle_kexinit(m, r)
  \/ handle_ecdh_init(m, r)
  \/ handle_newkeys(m, r)

ExpectedKx(m) ==
  \/ server.state = "AwaitingKexInit" /\ m.type = "KexInit"
  \/ server.state = "AwaitingEcdhInit" /\ m.type = "EcdhInit"
  \/ server.state = "AwaitingNewKeys" /\ m.type = "NewKeys"

-----------------------------------------------------------------------------
(* The three loops that receive packets. *)

\* Connection::exchange_keys.
exchange_keys(m, r) ==
  /\ server.stage = "kx"
  /\ \/ handle_kx(m, r)
     \/ ~ExpectedKx(m) /\ Fails(r)

\* authenticate, reduced to one request that fails and one that succeeds.
authenticate(m, r) ==
  /\ server.stage = "auth"
  /\ \/ m.type = "Ignore" /\ Proceed(r, write, server)
     \/ m.type = "Try" /\ Proceed(r, encode(write, Msg("Failure")), server)
     \/ /\ m.type = "Auth"
        /\ Proceed(r, encode(write, Msg("Success")), [server EXCEPT !.stage = "granted"])
     \/ m.type \notin {"Ignore", "Try", "Auth"} /\ Fails(r)

\* Session::run; a handler of Channels answers, or it does not.
run(m, r) ==
  LET kx == m.type = "KexInit" \/ server.state /= "AwaitingKexInit"
  IN /\ server.stage = "session"
     /\ \/ m.type = "Ignore" /\ Proceed(r, write, server)
        \/ m.type /= "Ignore" /\ kx /\ handle_kx(m, r)
        \/ m.type /= "Ignore" /\ kx /\ ~ExpectedKx(m) /\ Fails(r)
        \/ /\ ~kx /\ m.type = "Data"
           /\ \/ Proceed(r, write, server)
              \/ Proceed(r, encode(write, Msg("Answer")), server)
        \/ ~kx /\ m.type \notin {"Data", "Ignore"} /\ Fails(r)

\* receive, and what its caller does with the packet.
receive ==
  LET r == compact(read)
      m == r.buf[1].packet.msg
  IN /\ server.at = "receive" /\ IsComplete(r.buf)
     /\ \/ ~Opens(r) /\ Fails(r)
        \/ /\ Opens(r)
           /\ \/ exchange_keys(m, poll_packet(r))
              \/ authenticate(m, poll_packet(r))
              \/ run(m, poll_packet(r))

\* Without a whole packet in the buffer, receive awaits more: k cells of
\* what is in the network.
buffer(k) ==
  /\ server.at = "receive" /\ ~IsComplete(compact(read).buf)
  /\ read' = [compact(read) EXCEPT !.buf = @ \o SubSeq(c2s, 1, k)]
  /\ c2s' = SubSeq(c2s, k + 1, Len(c2s))
  /\ UNCHANGED <<server, write, handoff, client, s2c>>

\* A terminal has something to say: select! drops a receive that awaits.
TerminalsPoll ==
  /\ server.at = "receive" /\ server.stage = "session"
  /\ server.state = "AwaitingKexInit"
  /\ server.outputs < MaxOutputs
  /\ Proceed(read, encode(write, Msg("Output")), [server EXCEPT !.outputs = @ + 1])

\* The stream takes k of the buffered cells.  A flush that is done goes on to the next
\* packet, to the handoff, or to the end.
flush(k) ==
  LET w == written(write, k)
  IN /\ server.at \in {"ident", "flush", "notify"}
     /\ Len(s2c) + k <= Capacity
     /\ s2c' = s2c \o SubSeq(buffered(write), 1, k)
     /\ write' = w
     /\ server' = [server EXCEPT !.at =
          CASE buffered(w) /= <<>> -> server.at
            [] buffered(w) = <<>> /\ server.at = "notify" -> "closed"
            [] buffered(w) = <<>> /\ server.at /= "notify" ->
                 IF server.stage = "granted" THEN "spawn" ELSE "receive"]
     /\ UNCHANGED <<read, handoff, client, c2s>>

\* The limit on authentication drops a flush that is half done, but not the
\* last one of exchange_keys, before any packet under the new keys.
TimesOut ==
  /\ server.at \in {"receive", "flush"} /\ server.stage \in {"auth", "granted"}
  /\ server.at = "flush" => read.opener.counter > 0
  /\ write' = encode(write, Msg("Disconnect"))
  /\ server' = [server EXCEPT !.at = "notify"]
  /\ UNCHANGED <<read, handoff, client, c2s, s2c>>

-----------------------------------------------------------------------------
(* The handoff to the session process. *)

SideState(key, counter, seq) ==
  [source |-> key, counter |-> counter, sequence_number |-> seq]

SessionState(read_buf) ==
  [strict_kx |-> server.strict_kx, session_id |-> server.session_id,
   identities |-> server.identities, read_buf |-> read_buf,
   read |-> SideState(Key("c2s", server.exchange, server.session_id),
                      read.opener.counter, read.sequence_number),
   write |-> SideState(Key("s2c", server.exchange, server.session_id),
                       write.sealer.counter, write.sequence_number)]

\* The end of Server::accept: without the bytes of the packet before.
accept ==
  /\ server.at = "spawn"
  /\ handoff' = {SessionState(compact(read).buf)}
  /\ server' = [server EXCEPT !.at = "handoff"]
  /\ UNCHANGED <<read, write, client, c2s, s2c>>

resume_FirstCounter ==
  /\ server.at = "handoff"
  /\ \E s \in handoff :
       /\ read' = [buf |-> s.read_buf, last_length |-> 0,
                   sequence_number |-> s.read.sequence_number,
                   opener |-> [key |-> s.read.source, counter |-> s.read.counter],
                   log |-> read.log]
       /\ write' = [NewWriteState EXCEPT
                     !.sequence_number = s.write.sequence_number,
                     !.sealer = [key |-> s.write.source, counter |-> 0],
                     !.log = write.log]
       /\ server' = [server EXCEPT !.at = "receive", !.stage = "session"]
  /\ handoff' = {}
  /\ UNCHANGED <<client, c2s, s2c>>
\* The session process builds its transport from what it was sent.
resume ==
  /\ server.at = "handoff"
  /\ \E s \in handoff :
       /\ read' = [buf |-> s.read_buf, last_length |-> 0,
                   sequence_number |-> s.read.sequence_number,
                   opener |-> [key |-> s.read.source, counter |-> s.read.counter],
                   log |-> read.log]
       /\ write' = [NewWriteState EXCEPT
                     !.sequence_number = s.write.sequence_number,
                     !.sealer = [key |-> s.write.source, counter |-> s.write.counter],
                     !.log = write.log]
       /\ server' = [server EXCEPT !.at = "receive", !.stage = "session",
                       !.state = "AwaitingKexInit", !.exchange = <<>>,
                       !.strict_kx = s.strict_kx, !.session_id = s.session_id,
                       !.identities = s.identities]
  /\ handoff' = {}
  /\ UNCHANGED <<client, c2s, s2c>>

Ended == server.at = "closed"

\* The stream fails or ends, a limit on time passes, a process dies; what is
\* in the network is lost with it.
Lost ==
  /\ ~Ended
  /\ server' = [server EXCEPT !.at = "closed"]
  /\ c2s' = <<>> /\ s2c' = <<>>
  /\ UNCHANGED <<read, write, handoff, client>>

-----------------------------------------------------------------------------
(* The client.  It is free to send requests and data ahead of the answers, *)
(* also ahead of the server's NEWKEYS, but not during an exchange.         *)

Transmit(w, c) ==
  /\ ~Ended
  /\ Len(c2s) + Len(w.buf) <= Capacity
  /\ c2s' = c2s \o w.buf
  /\ client' = [c EXCEPT !.write = [w EXCEPT !.buf = <<>>]]
  /\ UNCHANGED <<server, read, write, handoff, s2c>>

ClientIdent ==
  /\ client.at = "new"
  /\ Transmit(encoded(client.write, Msg("Ident")), [client EXCEPT !.at = "idle"])

ClientKexInit ==
  LET n == client.exchanges + 1
      m == KexInit(n, client.strict, client.ext_info)
  IN /\ client.at = "idle" /\ client.exchanges < MaxExchanges
     /\ IF client.exchanges = 0 THEN Eager \/ client.heard ELSE client.asked
     /\ Transmit(encode(client.write, m),
          [client EXCEPT !.at = "kexinit", !.exchanges = n, !.exchange = <<"V_C", "V_S", m>>])

ClientEcdhInit ==
  /\ client.at = "answered"
  /\ Transmit(encode(client.write, Fresh("EcdhInit", client.exchanges)),
       [client EXCEPT !.at = "ecdh"])

ClientNewKeys ==
  LET w == encode(client.write, Msg("NewKeys"))
  IN /\ client.at = "reply"
     /\ Transmit([w EXCEPT !.sequence_number = IF client.strict THEN 0 ELSE @,
                           !.sealer = [key |-> Key("c2s", client.exchange, client.session_id),
                                       counter |-> 0]],
          [client EXCEPT !.at = "newkeys"])

ClientRequests ==
  /\ client.at \in {"idle", "newkeys"} /\ client.exchanges > 0
  /\ \/ /\ client.messages < MaxMessages
        /\ Transmit(encode(client.write, Msg(IF client.asked THEN "Data" ELSE "Try")),
             [client EXCEPT !.messages = @ + 1])
     \/ /\ ~client.asked
        /\ Transmit(encode(client.write, Msg("Auth")), [client EXCEPT !.asked = TRUE])

\* RFC 4253 allows IGNORE and DEBUG at any time once the identifications are
\* exchanged, also between KEXINIT and NEWKEYS; only what makes an exchange
\* strict forbids them, in the clear.
ClientIgnores ==
  /\ client.at /= "new" /\ client.heard /\ client.messages < MaxMessages
  /\ client.write.sealer.key = NoKey => ~client.strict
  /\ Transmit(encode(client.write, Msg("Ignore")), [client EXCEPT !.messages = @ + 1])

\* A client that breaks the protocol: a message at the wrong time, or a packet
\* that does not open.
ClientStrays ==
  LET w == client.write
  IN /\ client.at /= "new"
     /\ client.strays < MaxStrays /\ client.messages < MaxMessages
     /\ \E v \in {encode(w, m) : m \in {Msg("Ignore"), Msg("Try"), Msg("Data"), Msg("NewKeys"),
                                     Fresh("EcdhInit", 0), KexInit(0, FALSE, FALSE)}}
                \cup {encode([w EXCEPT !.sealer.counter = @ + 1], Msg("Ignore"))} :
          Transmit(v, [client EXCEPT !.strays = @ + 1, !.messages = @ + 1])

\* What the client makes of a packet; r is its ReadState afterwards.
Understood(m, r) ==
  LET c == [client EXCEPT !.read = r]
      exchange == client.exchange \o <<"K_S", Fresh("EcdhInit", client.exchanges), m>>
  IN CASE m.type = "Ident" -> [c EXCEPT !.heard = TRUE]
       [] m.type = "KexInit" ->
            [c EXCEPT !.at = "answered", !.exchange = Append(@, m),
                      !.ok = client.at = "kexinit"]
       [] m.type = "EcdhReply" ->
            [c EXCEPT !.at = "reply", !.exchange = exchange, !.ok = client.at = "ecdh",
                      !.session_id = IF client.exchanges = 1 THEN exchange ELSE @]
       [] m.type = "NewKeys" ->
            [c EXCEPT !.at = "idle", !.ok = client.at = "newkeys",
                      !.read.sequence_number = IF client.strict THEN 0 ELSE @,
                      !.read.opener = [key |-> Key("s2c", client.exchange, client.session_id),
                                       counter |-> 0]]
       [] OTHER -> c

\* The client takes a packet once it has all of it.
ClientReceives ==
  LET r == [client.read EXCEPT !.buf = s2c]
      p == s2c[1].packet
      next == [poll_packet(r) EXCEPT !.buf = <<>>, !.last_length = 0]
  IN /\ IsComplete(s2c) /\ client.ok
     /\ s2c' = SubSeq(s2c, Len(Cells(p)) + 1, Len(s2c))
     /\ client' = IF p.msg.type = "Ident"
                  THEN Understood(p.msg, [client.read EXCEPT !.log = Append(@, p)])
                  ELSE IF Opens(r) THEN Understood(p.msg, next)
                  ELSE [client EXCEPT !.ok = FALSE]
     /\ UNCHANGED <<server, read, write, handoff, c2s>>

ClientStep ==
  \/ ClientIdent
  \/ ClientKexInit
  \/ ClientEcdhInit
  \/ ClientNewKeys
  \/ ClientRequests
  \/ ClientIgnores
  \/ ClientStrays
  \/ ClientReceives

-----------------------------------------------------------------------------
ServerProgress ==
  \/ \E k \in 1..Len(c2s) : identify(k)
  \/ \E k \in 1..Len(c2s) : buffer(k)
  \/ receive
  \/ \E k \in 1..Len(buffered(write)) : flush(k)
  \/ accept
  \/ resume

NextTransport ==
  \/ ServerProgress
  \/ TerminalsPoll
  \/ TimesOut
  \/ Lost
  \/ ClientStep

SpecTransport == InitTransport /\ [][NextTransport]_transportVars

FairTransport ==
  /\ SpecTransport
  /\ WF_transportVars(ServerProgress)
  /\ WF_transportVars(ClientReceives)

-----------------------------------------------------------------------------
(* Properties. *)

\* The state has its type; the lengths that are subtracted from the lengths
\* of the two buffers never exceed them, which would panic (poll_packet,
\* accept and buffered).
TypeOKTransport ==
  /\ server.at \in {"identify", "ident", "receive", "flush", "notify", "spawn",
                    "handoff", "closed"}
  /\ server.stage \in {"kx", "auth", "granted", "session"}
  /\ server.state \in {"AwaitingKexInit", "AwaitingEcdhInit", "AwaitingNewKeys"}
  /\ read.last_length \in 0..Len(read.buf)
  /\ write.written \in 0..Len(write.buf)
  /\ write.written > 0 => write.written < Len(write.buf)
  /\ {read.sequence_number, write.sequence_number} \subseteq 0..SequenceModulus - 1
  /\ Len(c2s) <= Capacity /\ Len(s2c) <= Capacity

\* The client has sent IGNORE in its first exchange.
IgnoresInTheClear ==
  \E i \in DOMAIN client.write.log :
    client.write.log[i].key = NoKey /\ client.write.log[i].msg.type = "Ignore"

\* It has not, and has kept to the protocol.
Regular == client.strays = 0 /\ ~IgnoresInTheClear

\* With a client that keeps to the protocol every packet opens at its other
\* end and is expected there: both sides change each key, counter and
\* sequence number at the same packet, in both directions, whatever is
\* pipelined around it, and the session process goes on exactly where the
\* server stopped (KeyUpdate::apply, accept and resume).  The exception is
\* an IGNORE in the first exchange, which exchange_keys refuses; authenticate
\* and Session::run, which is the one to meet it in a later exchange, do not.
NoTransportError == Regular => ~server.failed /\ client.ok

\* The message that "Must be ignored by the receiver" (oxish-proto/src/lib.rs,
\* Ignore) is, whenever a client that keeps to the protocol sends it.
IgnoreIsIgnored == client.strays = 0 => ~server.failed

\* The server never seals two packets with one key and one counter, not in
\* two processes either: that would void the encryption (GcmState::nonce).
NoncesUnique ==
  \A i, j \in DOMAIN write.log :
    /\ write.log[i].key = write.log[j].key /\ write.log[i].key /= NoKey
    /\ write.log[i].counter = write.log[j].counter
    => i = j

\* Each direction delivers what was sent, in order and once, although reads
\* and writes move any part of a packet, receives are dropped by select!,
\* flushes by the limit on authentication, and the buffer changes hands.
Inbound == INSTANCE Fifo WITH out <- client.write.log, in <- read.log
Outbound == INSTANCE Fifo WITH out <- write.log, in <- client.read.log
DeliversInOrder == Inbound!SpecFifo /\ Outbound!SpecFifo

\* The session id that signatures are checked against is the one the client
\* signs, and outlives exchanges and the handoff (EcdhKeyExchangeReply::new).
SessionIdAgrees ==
  Regular /\ server.stage /= "kx" => server.session_id = client.session_id

\* Nothing is left in a buffer: what either side has sent arrives, unless
\* the connection ends (receive polls its buffer before it reads the stream;
\* flush goes on until nothing is buffered).
Unread == Len(read.log) < Len(client.write.log)
Unsent == Len(client.read.log) < Len(write.log)
EverythingArrives ==
  /\ Unread ~> (~Unread \/ Ended \/ ~client.ok)
  /\ Unsent ~> (~Unsent \/ Ended \/ ~client.ok)

\* A client whose identification is well-formed is not refused for it,
\* whatever it sends next: Identification::decode takes the identification
\* "from the start of `bytes`".
IdentifiedFromStart == server.failed => server.identities /= <<>>
=============================================================================
