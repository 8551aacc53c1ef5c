------------------------------ MODULE Channels ------------------------------
(***************************************************************************)
(* oxish/src/session/connections.rs: the channels of one SSH session.      *)
(* Channels::{open, request, adjust_window, data, eof, close} handle one   *)
(* message of the peer each; TerminalsFuture::poll moves shell output and  *)
(* shell exits to the peer.  Session::run calls one of them at a time and  *)
(* flushes what they encoded before it calls the next.                     *)
(*                                                                         *)
(*   next_id   the local id the next channel gets                          *)
(*   channels  BTreeMap from local ids to channels (a partial function)    *)
(*   write     messages encoded and not yet read by the peer: the write    *)
(*             buffer and the byte stream behind it, both first-in         *)
(*             first-out                                                   *)
(*   pending   the PTY write that Session::run awaits (nothing else of the *)
(*             session moves meanwhile), and what flushes after it         *)
(*   session   "running", or how Session::run has returned                 *)
(*   credit    history: bytes the peer has allowed the server to send on   *)
(*             a channel, less the bytes the server has sent               *)
(*                                                                         *)
(* The peer is any peer: Next offers every handler every message.  Session *)
(* composes these handlers with the session loop and a peer that keeps to  *)
(* the protocol.                                                           *)
(***************************************************************************)
EXTENDS Terminal, Sequences

CONSTANTS
  MaxId,               \* largest channel id (u32::MAX)
  MaxWindow,           \* largest window size (u32::MAX)
  INITIAL_WINDOW_SIZE, \* the window a shell starts with, in bytes
  READ_BUF,            \* size of the buffer TerminalsFuture reads into
  MAX_ENV,             \* environment variables kept per channel
  BANNER_LEN,          \* length of the warning about non-post-quantum keys
  RemoteIds,           \* ids the peer gives its channels
  Sizes,               \* sizes the peer uses in its messages
  MaxWrite,            \* bound: no step starts with more messages unread
  MaxCredit            \* bound: how much credit a peer accumulates

ASSUME ChannelsAssumption ==
  /\ MaxId \in Nat
  /\ MaxWindow \in Nat
  /\ INITIAL_WINDOW_SIZE \in 1..MaxWindow
  /\ READ_BUF \in Nat \ {0}
  /\ MAX_ENV \in Nat
  /\ BANNER_LEN \in Nat \ {0}
  /\ Sizes \subseteq 0..MaxWindow
  /\ MaxWrite \in Nat
  /\ MaxCredit \in Nat

VARIABLES next_id, channels, write, pending, session, credit

vars == <<shells, next_id, channels, write, pending, session, credit>>

Ids == 0..MaxId

-----------------------------------------------------------------------------
(* Messages. *)

RequestTypes == {"pty-req", "env", "env-other", "shell", "window-change",
                 "exit-status", "other"}

ChannelOpen == [type : {"ChannelOpen"}, kind : {"session", "other"},
                sender : RemoteIds, window : Sizes, maximum : Sizes]
ChannelRequest == [type : {"ChannelRequest"}, to : Ids, request : RequestTypes,
                   want_reply : BOOLEAN]
ChannelWindowAdjust == [type : {"ChannelWindowAdjust"}, to : Ids, n : Sizes]
ChannelData == [type : {"ChannelData"}, to : Ids, n : Sizes]
ChannelEof == [type : {"ChannelEof"}, to : Ids]
ChannelClose == [type : {"ChannelClose"}, to : Ids]

\* What the server sends for a channel, where arg is a size, a local id or an
\* exit code, and what the session loop sends in between.
LoopMessage ==
  [type : {"KexInit", "EcdhReply", "NewKeys", "RequestFailure"}, to : {0}, arg : {0}]
ServerMessage ==
  LoopMessage \cup
  [type : {"OpenFailure", "OpenConfirmation", "Success", "Failure", "Data",
           "WindowAdjust", "Eof", "ExitStatus", "Close"},
   to : RemoteIds, arg : Nat \cup ExitCodes]

Msg(type, to, arg) == [type |-> type, to |-> to, arg |-> arg]

-----------------------------------------------------------------------------
(* State. *)

\* TerminalState.  Exited is left within the poll that enters it, so it is
\* never a state between two steps.  late: the deadline has passed.
Terminals == [state : {"None", "Requested", "Running", "Exiting", "Reaping", "Closing"},
              shell : 0..MaxShells, late : BOOLEAN]

TState(s) == [state |-> s, shell |-> 0, late |-> FALSE]
Late(t) == [t EXCEPT !.late = TRUE]
WithShell(s, p) == [state |-> s, shell |-> p, late |-> FALSE]

Channel == [remote_id : RemoteIds, send_window : 0..MaxWindow,
            receive_window : 0..MaxWindow, maximum_packet_size : 0..MaxWindow,
            env : 0..MAX_ENV, terminal : Terminals, close_sent : BOOLEAN]

WithTerminal(c, t) == [c EXCEPT !.terminal = t]
WithSendWindow(c, w) == [c EXCEPT !.send_window = w]
WithReceiveWindow(c, w) == [c EXCEPT !.receive_window = w]
WithEnv(c) == [c EXCEPT !.env = @ + 1]
WithClose(c) == [c EXCEPT !.close_sent = TRUE]

\* Terminal states that own a process.
OwningStates == {"Running", "Exiting", "Reaping"}

NoWrite == [shell |-> 0, left |-> 0, out |-> <<>>]

Init ==
  /\ InitShells
  /\ next_id = 0
  /\ channels = [id \in {} |-> TState("None")]
  /\ write = <<>>
  /\ pending = NoWrite
  /\ session = "running"
  /\ credit = [id \in Ids |-> 0]

-----------------------------------------------------------------------------
(* Helpers. *)

Known(id) == id \in DOMAIN channels

Insert(id, c) ==
  [i \in DOMAIN channels \cup {id} |-> IF i = id THEN c ELSE channels[i]]

Update(id, c) == [channels EXCEPT ![id] = c]

Remove(id) == [i \in DOMAIN channels \ {id} |-> channels[i]]

\* The map entry for id is taken.
Occupied_Never(id) == FALSE
Occupied(id) == Known(id)

Smaller(a, b) == IF a <= b THEN a ELSE b

saturating_add(a, b) == Smaller(MaxWindow, a + b)
Idle_DuringWrite == session = "running" /\ Len(write) <= MaxWrite
\* Session::run is between two branches of its select.
Idle == session = "running" /\ pending = NoWrite /\ Len(write) <= MaxWrite

\* A handler or a poll returns Err: Session::run returns it, nothing flushes.
Fail(error) == session' = error /\ UNCHANGED <<next_id, write, pending, credit>>

\* A reply, if the request wants one.
Reply(m, type) ==
  IF m.want_reply THEN <<Msg(type, channels[m.to].remote_id, 0)>> ELSE <<>>

-----------------------------------------------------------------------------
(* Channels::open. *)

OpenFailure(m) == write' = Append(write, Msg("OpenFailure", m.sender, 0))
NewChannel_OwnWindow(m) ==
  [remote_id |-> m.sender, send_window |-> INITIAL_WINDOW_SIZE, receive_window |-> 0,
   maximum_packet_size |-> m.maximum, env |-> 0, terminal |-> TState("None"),
   close_sent |-> FALSE]
NewChannel_Open(m) ==
  [remote_id |-> m.sender, send_window |-> m.window, receive_window |-> INITIAL_WINDOW_SIZE,
   maximum_packet_size |-> m.maximum, env |-> 0, terminal |-> TState("None"),
   close_sent |-> FALSE]
NewChannel(m) ==
  [remote_id |-> m.sender, send_window |-> m.window, receive_window |-> 0,
   maximum_packet_size |-> m.maximum, env |-> 0, terminal |-> TState("None"),
   close_sent |-> FALSE]

open(m) ==
  /\ Idle
  /\ \/ /\ m.kind /= "session"
        /\ OpenFailure(m)
        /\ UNCHANGED <<next_id, channels, credit>>
     \/ /\ m.kind = "session"
        /\ next_id' = (next_id + 1) % (MaxId + 1)
        /\ \/ /\ Occupied(next_id)
              /\ OpenFailure(m)
              /\ UNCHANGED <<channels, credit>>
           \/ /\ ~Occupied(next_id)
              /\ channels' = Insert(next_id, NewChannel(m))
              /\ credit' = [credit EXCEPT ![next_id] = m.window]
              /\ write' = Append(write, Msg("OpenConfirmation", m.sender, next_id))
  /\ UNCHANGED <<shells, pending, session>>

-----------------------------------------------------------------------------
(* Channels::request, by type of request. *)

\* The terminal is replaced whatever it was.  After the reply comes the
\* banner (0: none), in one piece, if the send window has room for it.
PtyReq(m, banner) ==
  LET c == channels[m.to]
      shown == banner > 0 /\ banner <= c.send_window
  IN /\ m.request = "pty-req"
     /\ \/ /\ shown
           /\ channels' = Update(m.to, WithSendWindow(WithTerminal(c, TState("Requested")),
                                                     c.send_window - banner))
           /\ credit' = [credit EXCEPT ![m.to] = @ - banner]
           /\ write' = write \o Reply(m, "Success") \o <<Msg("Data", c.remote_id, banner)>>
        \/ /\ ~shown
           /\ channels' = Update(m.to, WithTerminal(c, TState("Requested")))
           /\ write' = write \o Reply(m, "Success")
           /\ UNCHANGED credit
     /\ UNCHANGED <<shells, next_id, pending, session>>

Env(m) ==
  /\ m.request = "env" /\ channels[m.to].env < MAX_ENV
  /\ channels' = Update(m.to, WithEnv(channels[m.to]))
  /\ write' = write \o Reply(m, "Success")
  /\ UNCHANGED <<shells, next_id, pending, session, credit>>

\* take() leaves the channel without a terminal when the request fails.
ShellError(m) ==
  /\ m.request = "shell"
  /\ channels' = Update(m.to, WithTerminal(channels[m.to], TState("None")))
  /\ \/ channels[m.to].terminal.state /= "Requested" /\ Fail("proto_error")
     \/ channels[m.to].terminal.state = "Requested" /\ IoErrors /\ Fail("io_error")
  /\ UNCHANGED shells

StartShell(m) ==
  /\ m.request = "shell" /\ channels[m.to].terminal.state = "Requested"
  /\ \E p \in Shells :
       /\ IsFresh(p)
       /\ shells' = spawn(p)
       /\ channels' = Update(m.to,
            WithReceiveWindow(WithTerminal(channels[m.to], WithShell("Running", p)),
                              INITIAL_WINDOW_SIZE))
  /\ write' = write \o <<Msg("WindowAdjust", channels[m.to].remote_id, INITIAL_WINDOW_SIZE)>>
                    \o Reply(m, "Success")
  /\ UNCHANGED <<next_id, pending, session, credit>>

\* resize can only fail on a running terminal; otherwise the request is moot.
WindowChange(m) ==
  /\ m.request = "window-change"
  /\ \/ /\ write' = write \o Reply(m, "Success")
        /\ UNCHANGED <<next_id, pending, session, credit>>
     \/ channels[m.to].terminal.state = "Running" /\ IoErrors /\ Fail("io_error")
  /\ UNCHANGED <<shells, channels>>
Refused_Silent(m) ==
  /\ \/ m.request \in {"env-other", "exit-status", "other"}
     \/ m.request = "env" /\ channels[m.to].env >= MAX_ENV
  /\ UNCHANGED vars
Refused(m) ==
  /\ \/ m.request \in {"env-other", "exit-status", "other"}
     \/ m.request = "env" /\ channels[m.to].env >= MAX_ENV
  /\ write' = write \o Reply(m, "Failure")
  /\ UNCHANGED <<shells, next_id, channels, pending, session, credit>>

\* A message other than open and close for a channel that is not there.
UnknownChannel(m) ==
  /\ ~Known(m.to)
  /\ Fail("proto_error")
  /\ UNCHANGED <<shells, channels>>

request(m, banner) ==
  /\ Idle
  /\ \/ UnknownChannel(m)
     \/ /\ Known(m.to)
        /\ \/ PtyReq(m, banner) \/ Env(m) \/ ShellError(m) \/ StartShell(m)
           \/ WindowChange(m) \/ Refused(m)

-----------------------------------------------------------------------------
(* Channels::adjust_window, data, eof and close. *)
GrantSendWindow_Unsaturated(c, n) == WithSendWindow(c, c.send_window + n)
GrantSendWindow_Sets(c, n) == WithSendWindow(c, n)
GrantSendWindow_Ignored(c, n) == c
GrantSendWindow(c, n) == WithSendWindow(c, saturating_add(c.send_window, n))

adjust_window(m) ==
  /\ Idle
  /\ \/ UnknownChannel(m)
     \/ /\ Known(m.to)
        /\ credit[m.to] + m.n <= MaxCredit
        /\ channels' = Update(m.to, GrantSendWindow(channels[m.to], m.n))
        /\ credit' = [credit EXCEPT ![m.to] = @ + m.n]
        /\ UNCHANGED <<shells, next_id, write, pending, session>>
Replenish_AtZero(window) == IF window = 0 THEN INITIAL_WINDOW_SIZE ELSE window
\* A receive window that has fallen below half is filled up again.
Replenish(window) ==
  IF window < INITIAL_WINDOW_SIZE \div 2 THEN INITIAL_WINDOW_SIZE ELSE window

data(m) ==
  LET c == channels[m.to]
      left == c.receive_window - m.n
      added == Replenish(left) - left
      adjust == IF added > 0
                THEN <<Msg("WindowAdjust", c.remote_id, added)>> ELSE <<>>
  IN /\ Idle
     /\ \/ UnknownChannel(m)
        \/ /\ Known(m.to) /\ m.n > c.receive_window
           /\ Fail("proto_error")
           /\ UNCHANGED <<shells, channels>>
        \/ /\ Known(m.to) /\ m.n <= c.receive_window
           /\ channels' = Update(m.to, WithReceiveWindow(c, Replenish(left)))
           /\ \/ /\ c.terminal.state = "Running" /\ m.n > 0
                 /\ pending' = [shell |-> c.terminal.shell, left |-> m.n, out |-> adjust]
                 /\ UNCHANGED write
              \/ /\ c.terminal.state /= "Running" \/ m.n = 0
                 /\ write' = write \o adjust
                 /\ UNCHANGED pending
           /\ UNCHANGED <<shells, next_id, session, credit>>
\* Terminal::write, awaited by Session::run: the PTY takes what it has room
\* for; the flush follows the last byte.
WritePty ==
  LET s == shells[pending.shell]
      k == Smaller(pending.left, Room(s))
  IN /\ session = "running" /\ pending /= NoWrite
     /\ \/ /\ k > 0
           /\ shells' = [shells EXCEPT ![pending.shell] = Filled(s, k)]
           /\ \/ /\ k < pending.left
                 /\ pending' = [pending EXCEPT !.left = @ - k]
                 /\ UNCHANGED write
              \/ /\ k = pending.left
                 /\ pending' = NoWrite
                 /\ write' = write \o pending.out
           /\ UNCHANGED <<next_id, channels, session, credit>>
        \/ /\ IoErrors
           /\ Fail("io_error")
           /\ UNCHANGED <<shells, channels>>
eof_Removes(m) ==
  /\ Idle
  /\ \/ UnknownChannel(m)
     \/ /\ Known(m.to)
        /\ channels' = Remove(m.to)
        /\ UNCHANGED <<shells, next_id, write, pending, session, credit>>
eof(m) ==
  /\ Idle
  /\ \/ UnknownChannel(m)
     \/ Known(m.to) /\ UNCHANGED vars
close_StaysRunning(m) ==
  /\ Idle /\ Known(m.to)
  /\ shells' = [p \in Shells |->
       IF p = channels[m.to].terminal.shell THEN start_kill(shells[p]) ELSE shells[p]]
  /\ channels' = Update(m.to, WithClose(channels[m.to]))
  /\ write' = Append(write, Msg("Close", channels[m.to].remote_id, 0))
  /\ UNCHANGED <<next_id, pending, session, credit>>
close_Removes(m) ==
  /\ Idle /\ Known(m.to)
  /\ channels' = Remove(m.to)
  /\ write' = Append(write, Msg("Close", channels[m.to].remote_id, 0))
  /\ UNCHANGED <<shells, next_id, pending, session, credit>>
\* The shell of a channel the peer closes is killed and the channel kept
\* until it is reaped; a channel without a shell goes at once.
close(m) ==
  LET c == channels[m.to]
      p == c.terminal.shell
  IN /\ Idle
     /\ \/ ~Known(m.to) /\ UNCHANGED <<shells, channels, write>>
        \/ /\ Known(m.to)
           /\ write' = IF c.close_sent THEN write
                       ELSE Append(write, Msg("Close", c.remote_id, 0))
           /\ \/ /\ c.terminal.state \in {"Running", "Exiting"}
                 /\ shells' = [shells EXCEPT ![p] = start_kill(@)]
                 /\ channels' = Update(m.to,
                      WithClose(WithTerminal(c, WithShell("Reaping", p))))
              \/ /\ c.terminal.state = "Reaping"
                 /\ channels' = Update(m.to, WithClose(c))
                 /\ UNCHANGED shells
              \/ /\ c.terminal.state \in {"None", "Requested", "Closing"}
                 /\ channels' = Remove(m.to)
                 /\ UNCHANGED shells
     /\ UNCHANGED <<next_id, pending, session, credit>>

-----------------------------------------------------------------------------
(* TerminalsFuture::poll: channels in order of id; the poll returns at the *)
(* first that has something to do, and leaves its mark on some it passes.  *)

ShellOf(id) == shells[channels[id].terminal.shell]

\* How much poll_read may read: nothing is read, not even EOF, at 0.
limit(c) == Smaller(READ_BUF, Smaller(c.maximum_packet_size, c.send_window))

\* The channel has something to do that woke the task.
Woken(id) ==
  LET c == channels[id] IN
  \/ c.terminal.state = "Running" /\ limit(c) > 0 /\ ReadyRead(ShellOf(id))
  \/ c.terminal.state = "Exiting" /\ ReadyWait(ShellOf(id)) /\ ~c.close_sent
  \/ c.terminal.state = "Reaping" /\ ReadyWait(ShellOf(id))
  \/ c.terminal.state = "Closing" /\ ~c.close_sent

\* A deadline has no waker; it is noticed when something else polls.
Returns(id) ==
  \/ Woken(id)
  \/ channels[id].terminal.state = "Reaping" /\ channels[id].terminal.late

FirstReady(id) ==
  /\ Known(id) /\ Returns(id)
  /\ \A j \in DOMAIN channels : j < id => ~Returns(j)

\* Passing an Exiting channel: if its close was sent there is nothing left to
\* say and it turns Closing; if its grace period is over its shell is killed.
PassedReaps(j) ==
  channels[j].terminal.state = "Exiting" /\ ReadyWait(ShellOf(j))
PassedKills(j) ==
  /\ channels[j].terminal.state = "Exiting" /\ ~ReadyWait(ShellOf(j))
  /\ channels[j].terminal.late
PassedChannel(j) ==
  IF PassedReaps(j) THEN WithTerminal(channels[j], TState("Closing"))
  ELSE channels[j]

\* The shells once the channels in js are passed.
PassedShells(js) ==
  [p \in Shells |->
    IF \E j \in js : channels[j].terminal.shell = p /\ PassedReaps(j)
    THEN Reaped(shells[p])
    ELSE IF \E j \in js : channels[j].terminal.shell = p /\ PassedKills(j)
    THEN start_kill(shells[p])
    ELSE shells[p]]

Below(id) == {j \in DOMAIN channels : j < id}

\* The poll returns at id, whose channel becomes c.
PollAt(id, c) ==
  channels' = [j \in DOMAIN channels |->
    IF j = id THEN c ELSE IF j < id THEN PassedChannel(j) ELSE channels[j]]

PollUnchanged == UNCHANGED <<next_id, pending, session>>

PollRead(id) ==
  LET c == channels[id] IN
  /\ Idle /\ FirstReady(id)
  /\ c.terminal.state = "Running" /\ ShellOf(id).out > 0
  /\ \E n \in 1..Smaller(limit(c), ShellOf(id).out) :
       /\ PollAt(id, WithSendWindow(c, c.send_window - n))
       /\ shells' = [PassedShells(Below(id)) EXCEPT ![c.terminal.shell] = Drained(@, n)]
       /\ credit' = [credit EXCEPT ![id] = @ - n]
       /\ write' = Append(write, Msg("Data", c.remote_id, n))
  /\ PollUnchanged
PollEof_Closes(id) ==
  LET c == channels[id] IN
  /\ Idle /\ FirstReady(id)
  /\ c.terminal.state = "Running" /\ AtEof(ShellOf(id))
  /\ PollAt(id, WithTerminal(c, TState("Closing")))
  /\ shells' = PassedShells(Below(id))
  /\ write' = Append(write, Msg("Eof", c.remote_id, 0))
  /\ PollUnchanged /\ UNCHANGED credit
PollEof(id) ==
  LET c == channels[id] IN
  /\ Idle /\ FirstReady(id)
  /\ c.terminal.state = "Running" /\ AtEof(ShellOf(id))
  /\ PollAt(id, WithTerminal(c, WithShell("Exiting", c.terminal.shell)))
  /\ shells' = PassedShells(Below(id))
  /\ write' = Append(write, Msg("Eof", c.remote_id, 0))
  /\ PollUnchanged /\ UNCHANGED credit

\* A read error kills the shell and ends the session.
PollReadError(id) ==
  LET c == channels[id] IN
  /\ IoErrors /\ Idle /\ Known(id)
  /\ c.terminal.state = "Running" /\ limit(c) > 0
  /\ \A j \in Below(id) : ~Returns(j)
  /\ PollAt(id, c)
  /\ shells' = [PassedShells(Below(id)) EXCEPT ![c.terminal.shell] = start_kill(@)]
  /\ Fail("io_error")

\* The shell is reaped.  An exit code goes to the peer (Exited, then Closing);
\* without one the channel turns Closing and the close goes out at once.
PollExit(id) ==
  LET c == channels[id]
      s == ShellOf(id)
  IN /\ Idle /\ FirstReady(id)
     /\ c.terminal.state = "Exiting"
     /\ shells' = [PassedShells(Below(id)) EXCEPT ![c.terminal.shell] = Reaped(@)]
     /\ \/ /\ s.status \in ExitCodes
           /\ PollAt(id, WithTerminal(c, TState("Closing")))
           /\ write' = Append(write, Msg("ExitStatus", c.remote_id, s.status))
        \/ /\ s.status \notin ExitCodes
           /\ PollAt(id, WithClose(WithTerminal(c, TState("Closing"))))
           /\ write' = Append(write, Msg("Close", c.remote_id, 0))
     /\ PollUnchanged /\ UNCHANGED credit

PollClose(id) ==
  LET c == channels[id] IN
  /\ Idle /\ FirstReady(id)
  /\ c.terminal.state = "Closing"
  /\ PollAt(id, WithClose(c))
  /\ shells' = PassedShells(Below(id))
  /\ write' = Append(write, Msg("Close", c.remote_id, 0))
  /\ PollUnchanged /\ UNCHANGED credit

\* The killed shell is reaped, or given up on after the deadline.
PollReap(id) ==
  LET p == channels[id].terminal.shell IN
  /\ Idle /\ FirstReady(id)
  /\ channels[id].terminal.state = "Reaping"
  /\ channels' = [j \in DOMAIN channels \ {id} |->
       IF j < id THEN PassedChannel(j) ELSE channels[j]]
  /\ shells' = IF ReadyWait(shells[p])
               THEN [PassedShells(Below(id)) EXCEPT ![p] = Reaped(@)]
               ELSE PassedShells(Below(id))
  /\ PollUnchanged /\ UNCHANGED <<write, credit>>

\* The poll finds nothing to return for, and passes every channel.
PollPending ==
  /\ Idle
  /\ \A id \in DOMAIN channels : ~Returns(id)
  /\ channels' = [j \in DOMAIN channels |-> PassedChannel(j)]
  /\ shells' = PassedShells(DOMAIN channels)
  /\ PollUnchanged /\ UNCHANGED <<write, credit>>

PollReady(id) ==
  \/ PollRead(id) \/ PollEof(id) \/ PollReadError(id) \/ PollExit(id)
  \/ PollClose(id) \/ PollReap(id)

Poll == PollPending \/ \E id \in DOMAIN channels : PollReady(id)

-----------------------------------------------------------------------------
(* The world around the session. *)

\* Time passes: a grace period ends.
DeadlinePasses ==
  /\ session = "running"
  /\ \E id \in DOMAIN channels :
       /\ channels[id].terminal.state \in {"Exiting", "Reaping"}
       /\ ~channels[id].terminal.late
       /\ channels' = Update(id, WithTerminal(channels[id], Late(channels[id].terminal)))
  /\ UNCHANGED <<shells, next_id, write, pending, session, credit>>

ShellSteps ==
  /\ session = "running"
  /\ \E p \in Shells : ShellStep(p)
  /\ UNCHANGED <<next_id, channels, write, pending, session, credit>>

\* The peer reads what has been flushed.
PeerReads ==
  /\ write /= <<>>
  /\ write' = Tail(write)
  /\ UNCHANGED <<shells, next_id, channels, pending, session, credit>>

\* Session::run returns for a reason of its own: the peer disconnects, the
\* connection is lost, or a packet is not one it expects.
SessionEnds ==
  /\ session = "running" /\ pending = NoWrite
  /\ session' \in {"closed", "proto_error", "io_error"}
  /\ UNCHANGED <<shells, next_id, channels, write, pending, credit>>

\* The banner is computed for pty-req only, and only without post-quantum keys.
Banners(m) == IF m.request = "pty-req" THEN {0, BANNER_LEN} ELSE {0}

Next ==
  \/ \E m \in ChannelOpen : open(m)
  \/ \E m \in ChannelRequest : \E b \in Banners(m) : request(m, b)
  \/ \E m \in ChannelWindowAdjust : adjust_window(m)
  \/ \E m \in ChannelData : data(m)
  \/ \E m \in ChannelEof : eof(m)
  \/ \E m \in ChannelClose : close(m)
  \/ WritePty
  \/ Poll
  \/ DeadlinePasses
  \/ ShellSteps
  \/ PeerReads
  \/ SessionEnds

Spec == Init /\ [][Next]_vars

-----------------------------------------------------------------------------
(* Properties, for every peer. *)

\* Every variable has its type.
TypeOK ==
  /\ shells \in [Shells -> Shell]
  /\ next_id \in Ids
  /\ DOMAIN channels \subseteq Ids
  /\ channels \in [DOMAIN channels -> Channel]
  /\ write \in Seq(ServerMessage)
  /\ pending \in [shell : 0..MaxShells, left : 0..MaxWindow, out : Seq(ServerMessage)]
  /\ session \in {"running", "closed", "proto_error", "io_error"}
  /\ credit \in [Ids -> Int]

\* Flow control towards the peer: whatever the peer grants, and although the
\* window saturates at u32::MAX, the server never counts on more credit than
\* the peer has given it and it has not used (adjust_window, the banner of
\* request, and the reads of TerminalsFuture::poll).
WithinCredit ==
  \A id \in DOMAIN channels : channels[id].send_window <= credit[id]

\* Flow control from the peer: a receive window is either still shut or at
\* least half of the initial window, and it is open while a shell runs, so a
\* peer that has something to type is never left waiting for an adjustment
\* (data, and the shell arm of request).
WindowReplenished ==
  \A id \in DOMAIN channels :
    LET c == channels[id] IN
    /\ c.receive_window <= INITIAL_WINDOW_SIZE
    /\ c.receive_window > 0 \/ c.terminal.state \in OwningStates
         => 2 * c.receive_window + 1 >= INITIAL_WINDOW_SIZE

\* Processes: a terminal state that holds a Terminal holds one that was
\* spawned and not yet reaped, no two channels hold the same one, and the one
\* of a Reaping channel has been killed.  Hence no kill ever goes to a pid
\* that has been waited on, and no wait is for a shell left alive.
ShellsOwned ==
  \A id \in DOMAIN channels :
    LET t == channels[id].terminal IN
    t.state \in OwningStates =>
      /\ t.shell \in Shells
      /\ shells[t.shell].run \in {"alive", "dying", "zombie"}
      /\ t.state = "Reaping" => shells[t.shell].run /= "alive"
      /\ \A j \in DOMAIN channels :
           channels[j].terminal.state \in OwningStates
             /\ channels[j].terminal.shell = t.shell => j = id

\* The PTY write that the session awaits is for the shell of a channel that
\* is still Running: nothing closes, reaps or replaces it meanwhile.
WriteTargetRuns ==
  pending /= NoWrite /\ session = "running" =>
    \E id \in DOMAIN channels :
      /\ channels[id].terminal.state = "Running"
      /\ channels[id].terminal.shell = pending.shell

\* A channel keeps its peer for life: although ids wrap around, open never
\* replaces a channel, and a close once sent stays sent.
ChannelsKeepIdentity ==
  [][\A id \in DOMAIN channels \cap DOMAIN channels' :
       /\ channels'[id].remote_id = channels[id].remote_id
       /\ channels[id].close_sent => channels'[id].close_sent]_vars
=============================================================================
