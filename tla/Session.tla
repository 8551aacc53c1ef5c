------------------------------ MODULE Session -------------------------------
(***************************************************************************)
(* oxish/src/session/mod.rs, Session::run: the loop that selects between   *)
(* the next packet and the poll of the terminals, and the dispatch of a    *)
(* packet to the key exchange (RekeyState of oxish-proto), the global      *)
(* requests and the channels.                                              *)
(*                                                                         *)
(*   kx    RekeyState, with the post-quantum flag of a started exchange    *)
(*   post_quantum_kx  whether the keys in use are post-quantum secure      *)
(*                                                                         *)
(* The peer of this module is any peer, as in Channels.                    *)
(***************************************************************************)
EXTENDS Channels

VARIABLES kx, post_quantum_kx

kxVars == <<kx, post_quantum_kx>>
sessionVars == <<vars, kxVars>>

KxStates == [state : {"AwaitingKexInit", "AwaitingEcdhInit", "AwaitingNewKeys"},
             pq : BOOLEAN]

InitSession ==
  /\ Init
  /\ kx = [state |-> "AwaitingKexInit", pq |-> FALSE]
  /\ post_quantum_kx \in BOOLEAN

-----------------------------------------------------------------------------
(* The packets outside the channels. *)

\* ok: the packet decodes, an algorithm can be agreed on, the key is valid.
KexInit == [type : {"KexInit"}, pq : BOOLEAN, ok : BOOLEAN]
EcdhInit == [type : {"EcdhInit"}, ok : BOOLEAN]
GlobalRequest == [type : {"GlobalRequest"}, want_reply : BOOLEAN]
Transport == [type : {"Ignore", "Disconnect", "NewKeys", "RequestSuccess", "Other"}]

KxTypes == {"KexInit", "EcdhReply", "NewKeys"}

-----------------------------------------------------------------------------
(* RekeyState. *)

in_progress == kx.state /= "AwaitingKexInit"

HandleKexInit(m) ==
  /\ kx.state = "AwaitingKexInit" /\ m.type = "KexInit" /\ m.ok
  /\ kx' = [state |-> "AwaitingEcdhInit", pq |-> m.pq]
  /\ write' = Append(write, Msg("KexInit", 0, 0))
  /\ UNCHANGED post_quantum_kx

HandleEcdhInit(m) ==
  /\ kx.state = "AwaitingEcdhInit" /\ m.type = "EcdhInit" /\ m.ok
  /\ kx' = [kx EXCEPT !.state = "AwaitingNewKeys"]
  /\ write' = Append(write, Msg("EcdhReply", 0, 0))
  /\ UNCHANGED post_quantum_kx

\* KeyUpdate::apply sends our NEWKEYS and installs both keys.
HandleNewKeys(m) ==
  /\ kx.state = "AwaitingNewKeys" /\ m.type = "NewKeys"
  /\ kx' = [state |-> "AwaitingKexInit", pq |-> FALSE]
  /\ write' = Append(write, Msg("NewKeys", 0, 0))
  /\ post_quantum_kx' = kx.pq

\* The packet is the one the exchange awaits, and it is in order.
Expected(m) ==
  \/ kx.state = "AwaitingKexInit" /\ m.type = "KexInit" /\ m.ok
  \/ kx.state = "AwaitingEcdhInit" /\ m.type = "EcdhInit" /\ m.ok
  \/ kx.state = "AwaitingNewKeys" /\ m.type = "NewKeys"

Rekey(m) ==
  \/ /\ HandleKexInit(m) \/ HandleEcdhInit(m) \/ HandleNewKeys(m)
     /\ UNCHANGED <<shells, next_id, channels, pending, session, credit>>
  \/ /\ ~Expected(m)
     /\ Fail("proto_error")
     /\ UNCHANGED <<shells, channels, kxVars>>

-----------------------------------------------------------------------------
(* Session::run. *)

RefuseGlobal(m) ==
  /\ write' = IF m.want_reply THEN Append(write, Msg("RequestFailure", 0, 0)) ELSE write
  /\ UNCHANGED <<shells, next_id, channels, pending, session, credit>>

\* The banner of a pty-req warns of keys that are not post-quantum secure.
banner(m) ==
  IF post_quantum_kx \/ m.request /= "pty-req" THEN 0 ELSE BANNER_LEN

\* IncomingChannelMessage, and the handler of each; another type is an error.
ChannelTypes == {"ChannelOpen", "ChannelRequest", "ChannelWindowAdjust", "ChannelData",
                 "ChannelEof", "ChannelClose"}

ChannelMessage(m) ==
  \/ m.type = "ChannelOpen" /\ open(m)
  \/ m.type = "ChannelRequest" /\ request(m, banner(m))
  \/ m.type = "ChannelWindowAdjust" /\ adjust_window(m)
  \/ m.type = "ChannelData" /\ data(m)
  \/ m.type = "ChannelEof" /\ eof(m)
  \/ m.type = "ChannelClose" /\ close(m)
  \/ /\ m.type \notin ChannelTypes
     /\ Fail("proto_error")
     /\ UNCHANGED <<shells, channels>>

Ignored(m) ==
  \/ m.type = "Ignore"
  \/ m.type = "RequestSuccess" /\ ~in_progress

Ends(how) ==
  /\ session' = how
  /\ UNCHANGED <<shells, next_id, channels, write, pending, credit, kxVars>>

\* Receiving packet m.  What the loop does with it depends, in this order, on
\* its being ignorable or a disconnect, on a key exchange, and on its type.
Receive(m) ==
  /\ Idle
  /\ \/ Ignored(m) /\ UNCHANGED sessionVars
     \/ m.type = "Disconnect" /\ Ends("closed")
     \/ /\ m.type \notin {"Ignore", "Disconnect"}
        /\ m.type = "KexInit" \/ in_progress
        /\ Rekey(m)
     \/ /\ m.type \notin {"Ignore", "Disconnect", "KexInit", "RequestSuccess"} /\ ~in_progress
        /\ IF m.type = "GlobalRequest" THEN RefuseGlobal(m) ELSE ChannelMessage(m)
        /\ UNCHANGED kxVars

\* The stream ends or fails: receive or flush returns an error.
ConnectionLost ==
  /\ session = "running" /\ pending = NoWrite
  /\ Ends("io_error")

PollTerminals_Always == Poll /\ UNCHANGED kxVars
\* The terminals are polled only outside a key exchange.
PollTerminals ==
  /\ ~in_progress
  /\ Poll
  /\ UNCHANGED kxVars
AwaitWrite_Cancelled ==
  /\ session = "running" /\ pending /= NoWrite
  /\ pending' = NoWrite
  /\ UNCHANGED <<shells, next_id, channels, write, session, credit, kxVars>>
AwaitWrite == WritePty /\ UNCHANGED kxVars

Environment == (DeadlinePasses \/ ShellSteps) /\ UNCHANGED kxVars

PeerPackets ==
  ChannelOpen \cup ChannelRequest \cup ChannelWindowAdjust \cup ChannelData
  \cup ChannelEof \cup ChannelClose
  \cup KexInit \cup EcdhInit \cup GlobalRequest \cup Transport

NextSession ==
  \/ \E m \in PeerPackets : Receive(m)
  \/ PollTerminals
  \/ AwaitWrite
  \/ Environment
  \/ ConnectionLost
  \/ PeerReads /\ UNCHANGED kxVars

SpecSession == InitSession /\ [][NextSession]_sessionVars

-----------------------------------------------------------------------------
(* Properties, for every peer. *)

\* Every variable of the session loop has its type; those of the channels
\* have theirs by ImplementsChannels.
TypeOKSession == kx \in KxStates /\ post_quantum_kx \in BOOLEAN

\* RFC 4253, 7.1: between its KEXINIT and its NEWKEYS the server sends nothing
\* but messages of the key exchange, whatever its shells do (the guard on the
\* TerminalsFuture branch of Session::run) and whatever replies or window
\* adjustments were due when the exchange began.
RekeyQuiet ==
  [][in_progress =>
       \A i \in (Len(write) + 1)..Len(write') : write'[i].type \in KxTypes]_sessionVars

\* The session loop drives the channels as Channels says: with the messages
\* of the key exchange and the global requests left out of the stream, each
\* step of the loop is a step of one handler, of one poll, or of none.
ForChannels(m) == m.type \notin KxTypes \cup {"RequestFailure"}
OfChannels(q) ==
  LET kept[i \in 0..Len(q)] ==
        IF i = 0 THEN <<>>
        ELSE IF ForChannels(q[i]) THEN Append(kept[i - 1], q[i]) ELSE kept[i - 1]
  IN kept[Len(q)]
ChannelsOnly == INSTANCE Channels WITH write <- OfChannels(write)
ImplementsChannels == ChannelsOnly!Spec
=============================================================================
