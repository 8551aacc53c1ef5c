----------------------------- MODULE Connection -----------------------------
(***************************************************************************)
(* A session and a client that keeps to RFC 4253 and RFC 4254, over a      *)
(* reliable byte stream whose two directions are `read` and `write`.  The  *)
(* client is external; what it does is what the server relies on.  It      *)
(* opens each of its channels once, asks for a terminal once and then for  *)
(* a shell once, and sends no extended data.  One client channel is a      *)
(* record                                                                  *)
(*   phase   "unopened", "opening", "open", "refused"                      *)
(*   peer    the server's id for it                                        *)
(*   credit  bytes the client may still send                               *)
(*   window  bytes the client is still prepared to receive                 *)
(*   asked   requests that await a reply                                   *)
(*   pty, shell, eof, closed  what the client has sent                     *)
(*   early   whether it has sent data before it asked for a shell          *)
(*   geof, gclosed, status    what the client has got                      *)
(***************************************************************************)
EXTENDS Session

CONSTANTS
  MaxSteps,     \* bound: optional messages the client sends
  MaxRead,      \* bound: messages of the client in flight
  ClientWindow, \* window the client opens a channel with, and refills to
  ClientPacket, \* maximum packet size the client accepts
  DataSizes,    \* sizes of the client's data messages
  Optional      \* the kinds of optional messages the client sends

ASSUME ConnectionAssumption ==
  /\ MaxSteps \in Nat
  /\ MaxRead \in Nat \ {0}
  /\ ClientWindow \in 1..MaxWindow
  /\ ClientPacket \in 1..MaxWindow
  /\ DataSizes \subseteq 0..MaxWindow
  /\ 0..ClientWindow \cup {ClientPacket} \cup DataSizes \subseteq Sizes

VARIABLES
  read,    \* packets of the client that the server has not received
  client,  \* the client's channels
  ckx,     \* the client's side of a key exchange
  steps,   \* optional messages still to send
  ran      \* history: the process each client channel's shell got

clientVars == <<client, ckx, steps>>
allVars == <<sessionVars, read, clientVars, ran>>

Unopened == [phase |-> "unopened", peer |-> 0, credit |-> 0, window |-> 0, asked |-> 0,
             pty |-> FALSE, shell |-> FALSE, early |-> FALSE, eof |-> FALSE,
             closed |-> FALSE, geof |-> FALSE, gclosed |-> FALSE, status |-> "none"]

InitConnection ==
  /\ InitSession
  /\ read = <<>>
  /\ client = [c \in RemoteIds |-> Unopened]
  /\ ckx = "idle"
  /\ steps = MaxSteps
  /\ ran = [c \in RemoteIds |-> 0]

-----------------------------------------------------------------------------
(* The client sends.  Between its KEXINIT and its NEWKEYS it sends nothing *)
(* but the messages of the exchange.                                       *)

Put(m) ==
  /\ session = "running"
  /\ Len(read) < MaxRead
  /\ read' = Append(read, m)
  /\ UNCHANGED <<sessionVars, ran>>

MaySend == ckx \in {"idle", "awaiting"}

Spend(kind) == kind \in Optional /\ steps > 0 /\ steps' = steps - 1

Usable(c) == client[c].phase = "open" /\ ~client[c].closed

Request(c, r) == [type |-> "ChannelRequest", to |-> client[c].peer, request |-> r,
                  want_reply |-> TRUE]

OpenChannel(c) ==
  /\ MaySend /\ client[c].phase = "unopened"
  /\ Put([type |-> "ChannelOpen", kind |-> "session", sender |-> c,
          window |-> ClientWindow, maximum |-> ClientPacket])
  /\ client' = [client EXCEPT ![c].phase = "opening", ![c].window = ClientWindow]
  /\ UNCHANGED <<ckx, steps>>

AskPty(c) ==
  /\ MaySend /\ Usable(c) /\ ~client[c].pty
  /\ Put(Request(c, "pty-req"))
  /\ client' = [client EXCEPT ![c].pty = TRUE, ![c].asked = @ + 1]
  /\ UNCHANGED <<ckx, steps>>

AskShell(c) ==
  /\ MaySend /\ Usable(c) /\ client[c].pty /\ ~client[c].shell
  /\ Put(Request(c, "shell"))
  /\ client' = [client EXCEPT ![c].shell = TRUE, ![c].asked = @ + 1]
  /\ UNCHANGED <<ckx, steps>>

AskOther(c) ==
  /\ MaySend /\ Usable(c)
  /\ \E r \in {"env", "window-change", "other"} :
       /\ Spend(r)
       /\ Put(Request(c, r))
  /\ client' = [client EXCEPT ![c].asked = @ + 1]
  /\ UNCHANGED ckx

\* A message may be empty, and then takes no credit: the client may send it
\* before it has been granted any.
SendData(c) ==
  /\ MaySend /\ Usable(c) /\ ~client[c].eof
  /\ Spend("data")
  /\ \E n \in DataSizes :
       /\ n <= client[c].credit
       /\ Put([type |-> "ChannelData", to |-> client[c].peer, n |-> n])
       /\ client' = [client EXCEPT ![c].credit = @ - n, ![c].early = @ \/ ~client[c].shell]
  /\ UNCHANGED ckx

SendEof(c) ==
  /\ MaySend /\ Usable(c) /\ ~client[c].eof
  /\ Spend("eof")
  /\ Put([type |-> "ChannelEof", to |-> client[c].peer])
  /\ client' = [client EXCEPT ![c].eof = TRUE]
  /\ UNCHANGED ckx

PutClose(c) ==
  /\ MaySend /\ Usable(c)
  /\ Put([type |-> "ChannelClose", to |-> client[c].peer])
  /\ client' = [client EXCEPT ![c].closed = TRUE]
  /\ UNCHANGED ckx

\* The user closes the channel; or the client answers the server's close.
SendClose(c) == Spend("close") /\ PutClose(c)
AnswerClose(c) == client[c].gclosed /\ UNCHANGED steps /\ PutClose(c)

\* The window is filled up again once half of it is used up.
Refill(c) ==
  /\ MaySend /\ Usable(c) /\ client[c].window <= ClientWindow \div 2
  /\ Put([type |-> "ChannelWindowAdjust", to |-> client[c].peer,
          n |-> ClientWindow - client[c].window])
  /\ client' = [client EXCEPT ![c].window = ClientWindow]
  /\ UNCHANGED <<ckx, steps>>

SendGlobal ==
  /\ MaySend
  /\ \/ /\ Spend("global")
        /\ \E w \in BOOLEAN : Put([type |-> "GlobalRequest", want_reply |-> w])
     \/ Spend("ignore") /\ Put([type |-> "Ignore"])
     \/ Spend("disconnect") /\ Put([type |-> "Disconnect"])
  /\ UNCHANGED <<client, ckx>>

StartRekey ==
  /\ ckx = "idle"
  /\ Spend("rekey")
  /\ \E pq \in BOOLEAN : Put([type |-> "KexInit", pq |-> pq, ok |-> TRUE])
  /\ ckx' = "init"
  /\ UNCHANGED client

ContinueRekey ==
  /\ \/ ckx = "got_init" /\ Put([type |-> "EcdhInit", ok |-> TRUE]) /\ ckx' = "ecdh"
     \/ ckx = "got_reply" /\ Put([type |-> "NewKeys"]) /\ ckx' = "awaiting"
  /\ UNCHANGED <<client, steps>>

-----------------------------------------------------------------------------
(* The client receives. *)

Got(c, m) ==
  CASE m.type = "OpenConfirmation" -> [client[c] EXCEPT !.phase = "open", !.peer = m.arg]
    [] m.type = "OpenFailure" -> [client[c] EXCEPT !.phase = "refused"]
    [] m.type \in {"Success", "Failure"} -> [client[c] EXCEPT !.asked = @ - 1]
    [] m.type = "WindowAdjust" -> [client[c] EXCEPT !.credit = @ + m.arg]
    [] m.type = "Data" -> [client[c] EXCEPT !.window = @ - m.arg]
    [] m.type = "Eof" -> [client[c] EXCEPT !.geof = TRUE]
    [] m.type = "ExitStatus" -> [client[c] EXCEPT !.status = m.arg]
    [] m.type = "Close" -> [client[c] EXCEPT !.gclosed = TRUE]

ClientReads ==
  /\ write /= <<>>
  /\ write' = Tail(write)
  /\ LET m == Head(write) IN
     \/ /\ m.type \in {"KexInit", "EcdhReply", "NewKeys"}
        /\ ckx' = CASE m.type = "KexInit" -> "got_init"
                    [] m.type = "EcdhReply" -> "got_reply"
                    [] m.type = "NewKeys" -> "idle"
        /\ UNCHANGED client
     \/ m.type = "RequestFailure" /\ UNCHANGED <<client, ckx>>
     \/ /\ ForChannels(m) /\ m.to \in RemoteIds
        /\ client' = [client EXCEPT ![m.to] = Got(m.to, m)]
        /\ UNCHANGED ckx
  /\ UNCHANGED <<shells, next_id, channels, pending, session, credit, kxVars, read, steps, ran>>

-----------------------------------------------------------------------------

\* The process whose terminal the channel with remote id c has just got.
Started(c) ==
  LET ids == {id \in DOMAIN channels' : channels'[id].remote_id = c
                                         /\ channels'[id].terminal.state = "Running"}
  IN IF ids = {} THEN ran[c] ELSE channels'[CHOOSE id \in ids : TRUE].terminal.shell

Server(A) ==
  /\ A
  /\ ran' = [c \in RemoteIds |-> Started(c)]
  /\ UNCHANGED clientVars

ServerReceives == read /= <<>> /\ read' = Tail(read) /\ Server(Receive(Head(read)))
ServerPolls == UNCHANGED read /\ Server(PollTerminals)
ServerWrites == UNCHANGED read /\ Server(AwaitWrite)

World == (Environment \/ ConnectionLost) /\ UNCHANGED <<read, clientVars, ran>>

ClientAct(c) ==
  \/ OpenChannel(c) \/ AskPty(c) \/ AskShell(c) \/ AskOther(c) \/ SendData(c)
  \/ SendEof(c) \/ SendClose(c) \/ AnswerClose(c) \/ Refill(c)

NextConnection ==
  \/ ServerReceives \/ ServerPolls \/ ServerWrites
  \/ World
  \/ \E c \in RemoteIds : ClientAct(c)
  \/ SendGlobal \/ StartRekey \/ ContinueRekey
  \/ ClientReads

SpecConnection == InitConnection /\ [][NextConnection]_allVars

\* What keeps happening.  The runtime polls Session::run when a packet is
\* there, when a PTY or a child has woken it, and when an awaited write can
\* go on; SIGKILL kills; the client keeps reading, refills a window it has
\* used up, answers a close and goes on with a key exchange.  Nothing makes
\* a shell exit, a user close a channel, or a poll notice a deadline.
ServerWakes == (\E id \in DOMAIN channels : Woken(id)) /\ ServerPolls
Unmoved == UNCHANGED <<next_id, channels, write, pending, session, credit,
                       kxVars, read, clientVars, ran>>

Fairness ==
  /\ WF_allVars(ServerReceives) /\ WF_allVars(ServerWakes) /\ WF_allVars(ServerWrites)
  /\ \A p \in Shells : WF_allVars(ShellDies(p) /\ Unmoved)
  /\ WF_allVars(ClientReads) /\ WF_allVars(ContinueRekey)
  /\ \A c \in RemoteIds : WF_allVars(Refill(c)) /\ WF_allVars(AnswerClose(c))

FairConnection == SpecConnection /\ Fairness

\* A shell that reads its input as long as it can, and answers what it reads.
FairShells ==
  \A p \in Shells : WF_allVars(ShellReads(p) /\ Unmoved) /\ WF_allVars(ShellAnswers(p) /\ Unmoved)

FairInteractive == FairConnection /\ FairShells

-----------------------------------------------------------------------------
(* Properties, with a client that keeps to the protocol. *)

Running == session = "running"

\* Places of q that hold a message of one of the types for the client's c.
Sent(q, types, c) == {i \in DOMAIN q : q[i].type \in types /\ q[i].to = c}

\* The sum of the numbers in w.
Total(w) ==
  LET sum[i \in 0..Len(w)] == IF i = 0 THEN 0 ELSE sum[i - 1] + w[i]
  IN sum[Len(w)]

\* Bytes on their way to the client's c, and to the server's channel id.
Bytes(q, type, c) ==
  Total([i \in 1..Len(q) |-> IF q[i].type = type /\ q[i].to = c THEN q[i].arg ELSE 0])
Coming(q, type, id) ==
  Total([i \in 1..Len(q) |-> IF q[i].type = type /\ q[i].to = id THEN q[i].n ELSE 0])

\* Replies and requests on their way.
Replies(q, c) ==
  Total([i \in 1..Len(q) |-> IF q[i].type \in {"Success", "Failure"} /\ q[i].to = c THEN 1 ELSE 0])
Requests(q, id) ==
  Total([i \in 1..Len(q) |-> IF q[i].type = "ChannelRequest" /\ q[i].to = id THEN 1 ELSE 0])

\* The client's counters never go below zero: it is never sent a byte that it
\* has no window for, nor a reply that it has not asked for.
TypeOKConnection ==
  client \in [RemoteIds ->
    [phase : {"unopened", "opening", "open", "refused"}, peer : Ids, credit : Nat,
     window : 0..ClientWindow, asked : Nat, pty : BOOLEAN, shell : BOOLEAN, early : BOOLEAN,
     eof : BOOLEAN, closed : BOOLEAN, geof : BOOLEAN, gclosed : BOOLEAN,
     status : ExitCodes \cup {"none"}]]

\* A client that keeps to the protocol is not cut off for breaking it: not by a
\* request that crosses a close, not by data that crosses a window adjustment,
\* not by a message before or after a key exchange.  One client is: if it sends
\* data before it asks for the shell (an empty message needs no credit), data()
\* grants the initial window and the shell arm of request, which sets the
\* window and does not add to it, grants it again; the client may then send
\* what "channel data exceeds receive window" ends the session for.
NoProtocolError == (\A c \in RemoteIds : ~client[c].early) => session /= "proto_error"

\* The receive window the server enforces (data, the shell arm of request) is
\* at all times the window the client counts on, with the data and the
\* adjustments on their way between them accounted for.  A client that sent
\* data before it asked for the shell may count on more, by no more than one
\* initial window: it is never granted less than the server accepts.
ReceiveCredit ==
  Running => \A id \in DOMAIN channels :
    LET c == channels[id].remote_id
        counted == client[c].credit + Bytes(write, "WindowAdjust", c)
                   + Bytes(pending.out, "WindowAdjust", c) + Coming(read, "ChannelData", id)
        window == channels[id].receive_window
    IN /\ ~client[c].early => counted = window
       /\ counted \in window..window + INITIAL_WINDOW_SIZE

\* The send window the server keeps to (adjust_window, the banner, poll) is at
\* all times what the client is prepared to receive, with the data and the
\* adjustments on their way between them accounted for.
SendCredit ==
  Running => \A id \in DOMAIN channels :
    LET c == channels[id].remote_id IN
    channels[id].send_window + Bytes(write, "Data", c)
      + Coming(read, "ChannelWindowAdjust", id) = client[c].window

\* Each request of the client gets one reply, whatever the channel's state; a
\* channel that is gone has none outstanding, although its id may be in use
\* again (request, and the wrapping ids of open).
RepliesMatch ==
  Running => \A c \in RemoteIds :
    LET ids == {id \in DOMAIN channels : channels[id].remote_id = c} IN
    /\ ids = {} => client[c].asked = Replies(write, c)
    /\ \A id \in ids : client[c].asked = Replies(write, c) + Requests(read, id)

\* Once the server's close is on its way no output, end of output or exit
\* status follows it, and no output follows the end of output: a killed,
\* reaped or closing shell never speaks again (close, TerminalsFuture::poll).
CloseIsLast ==
  \A c \in RemoteIds : \A i \in Sent(write, {"Data", "Eof", "ExitStatus"}, c) :
    /\ ~client[c].gclosed
    /\ \A j \in Sent(write, {"Close"}, c) : i < j
    /\ write[i].type = "Data" =>
         ~client[c].geof /\ \A j \in Sent(write, {"Eof"}, c) : i < j

\* "Its exit status must reach the client before the channel close": when the
\* client sees a close that it did not ask for, it has got all output, the
\* end of output, and the exit code if the shell left one.
CompleteBeforeClose ==
  \A c \in RemoteIds :
    client[c].gclosed /\ ~client[c].closed =>
      /\ client[c].geof
      /\ ran[c] \in Shells /\ shells[ran[c]].out = 0
      /\ shells[ran[c]].status \in ExitCodes => client[c].status = shells[ran[c]].status

\* While the session runs, a shell that has been started and not been killed
\* is held by a channel: none is forgotten.
NoStrayShell ==
  Running => \A p \in Shells :
    shells[p].run = "alive" =>
      \E id \in DOMAIN channels :
        channels[id].terminal.state \in OwningStates /\ channels[id].terminal.shell = p

\* The loop does not wait for ever to write into one terminal (mod.rs:116).
\* Nothing in the code makes this so: InputDelivered fails, and while the loop
\* waits it reads no packet and polls no terminal.  What the server promises
\* in the end it promises only where its writes end.
WritesEnd == []<>(pending = NoWrite)

\* A shell that has exited and let go of its terminal is reported: the client
\* gets a close, unless it closes the channel itself or the session ends.
\* (Not if the loop is for ever waiting for room in a terminal, be it that of
\* the shell that exited while the other end stays open.)
ExitIsReported ==
  WritesEnd =>
    \A c \in RemoteIds :
      (ran[c] \in Shells /\ shells[ran[c]].run = "zombie" /\ shells[ran[c]].hup)
        ~> (client[c].gclosed \/ client[c].closed \/ ~Running)

\* Every request is answered in the end, or the session ends; a request that
\* stands behind a write that never ends is not.
RequestsAnswered ==
  WritesEnd => \A c \in RemoteIds : (client[c].asked > 0) ~> (client[c].asked = 0 \/ ~Running)

\* A channel the client closes is closed by the server too, its shell does not
\* live on, and the channel is dropped, or the session ends, unless a write
\* that never ends keeps the loop from the client's close.  (A shell that is
\* not reapable within the grace period is left to the runtime to reap.)
CloseCompletes ==
  WritesEnd =>
    \A c \in RemoteIds :
      client[c].closed ~>
        \/ ~Running
        \/ /\ client[c].gclosed
           /\ \A id \in DOMAIN channels : channels[id].remote_id /= c
           /\ ran[c] \in Shells => shells[ran[c]].run /= "alive"

\* Input the server has accepted goes to the shell in the end, although the
\* loop does nothing else while it waits for room in the PTY (Terminal::write).
InputDelivered ==
  (pending /= NoWrite) ~>
    \/ pending = NoWrite
    \/ ~Running
    \/ ~Attached(shells[pending.shell])

\* ChannelOpen::maximum_packet_size is the "maximum packet size the sender is
\* willing to receive": no data message to the client is larger.
WithinPacket ==
  \A c \in RemoteIds : \A i \in Sent(write, {"Data"}, c) : write[i].arg <= ClientPacket
=============================================================================
