--------------------------- MODULE ChannelsProofs ---------------------------
(***************************************************************************)
(* The invariants of Channels hold for every number of channels and        *)
(* processes, every window and packet size, and every peer.                *)
(*                                                                         *)
(* The inductive invariant IInv is the conjunction of the five invariants  *)
(* that the runs check.  None of them is inductive by itself: a kill or a  *)
(* reap is harmless only because no other channel owns the process         *)
(* (ShellsOwned), a read may be charged to window and credit only because  *)
(* the window has its type, and the process of an awaited write stays      *)
(* Running only because the session does nothing else meanwhile.           *)
(***************************************************************************)
EXTENDS Channels, TLAPS

-----------------------------------------------------------------------------
(* What the operators on shells, terminals and channels return. *)

\* Every operator of Terminal on a shell returns a shell.
LEMMA ShellOpsType ==
  ASSUME NEW s \in Shell
  PROVE  /\ Reaped(s) \in Shell
         /\ start_kill(s) \in Shell
         /\ HungUp(s) \in Shell
         /\ \A n \in 1..s.out : Drained(s, n) \in Shell
         /\ \A n \in 0..Room(s) : Filled(s, n) \in Shell
         /\ s.in > 0 => \A a \in BOOLEAN : Consumed(s, a) \in Shell
         /\ s.out < PtyOut => Answered(s) \in Shell
         /\ s.out < PtyOut /\ s.quota > 0 => Wrote(s) \in Shell
         /\ \A x \in ExitCodes \cup {"signal", "error"} : Exited(s, x) \in Shell
<1> USE TerminalAssumption DEF Shell
<1>1. Reaped(s) \in Shell BY DEF Reaped
<1>2. start_kill(s) \in Shell BY DEF start_kill
<1>3. HungUp(s) \in Shell BY DEF HungUp
<1>4. \A n \in 1..s.out : Drained(s, n) \in Shell BY DEF Drained
<1>5. \A n \in 0..Room(s) : Filled(s, n) \in Shell BY DEF Filled, Room
<1>6. s.in > 0 => \A a \in BOOLEAN : Consumed(s, a) \in Shell
  <2>1. s.in > 0 => s.in - 1 \in 0..PtyIn OBVIOUS
  <2> QED BY <2>1, Zenon DEF Consumed
<1>7. s.out < PtyOut => Answered(s) \in Shell
  <2>1. s.out < PtyOut => s.out + 1 \in 0..PtyOut OBVIOUS
  <2> QED BY <2>1, Zenon DEF Answered
<1>8. s.out < PtyOut /\ s.quota > 0 => Wrote(s) \in Shell
  <2>1. s.out < PtyOut => s.out + 1 \in 0..PtyOut OBVIOUS
  <2>2. s.quota > 0 => s.quota - 1 \in 0..MaxOutput OBVIOUS
  <2> QED BY <2>1, <2>2, Zenon DEF Wrote
<1>9. \A x \in ExitCodes \cup {"signal", "error"} : Exited(s, x) \in Shell BY DEF Exited
<1> QED BY <1>1, <1>2, <1>3, <1>4, <1>5, <1>6, <1>7, <1>8, <1>9

\* What they do to the process.
LEMMA ShellOpsRun ==
  ASSUME NEW s \in Shell
  PROVE  /\ Reaped(s).run = "reaped"
         /\ start_kill(s).run = IF s.run = "alive" THEN "dying" ELSE s.run
         /\ HungUp(s).run = s.run
         /\ \A n : Drained(s, n).run = s.run
         /\ \A n : Filled(s, n).run = s.run
         /\ \A a : Consumed(s, a).run = s.run
         /\ Answered(s).run = s.run
         /\ Wrote(s).run = s.run
         /\ \A x : Exited(s, x).run = "zombie"
BY DEF Shell, Reaped, start_kill, HungUp, Drained, Filled, Consumed, Answered, Wrote, Exited

\* A shell or the kernel only ever ends a process, and leaves its wait to
\* the server.
LEMMA ShellStepEffect ==
  ASSUME shells \in [Shells -> Shell], NEW p \in Shells, ShellStep(p)
  PROVE  /\ shells' \in [Shells -> Shell]
         /\ \A q \in Shells :
              \/ shells'[q].run = shells[q].run
              \/ shells[q].run \in {"alive", "dying"} /\ shells'[q].run = "zombie"
<1>1. PICK s \in Shell : s = shells[p] OBVIOUS
<1>2. \E t \in Shell : /\ shells' = [shells EXCEPT ![p] = t]
                       /\ \/ t.run = s.run
                          \/ s.run \in {"alive", "dying"} /\ t.run = "zombie"
  <2>1. CASE ShellReads(p)
    <3>1. PICK a \in BOOLEAN : shells' = [shells EXCEPT ![p] = Consumed(s, a)]
      BY <1>1, <2>1 DEF ShellReads, Becomes
    <3>2. s.in > 0 BY <1>1, <2>1 DEF ShellReads
    <3>3. Consumed(s, a) \in Shell BY <3>2, ShellOpsType
    <3>4. Consumed(s, a).run = s.run BY ShellOpsRun
    <3> QED BY <3>1, <3>3, <3>4
  <2>2. CASE ShellAnswers(p)
    <3>1. s.out < PtyOut /\ shells' = [shells EXCEPT ![p] = Answered(s)]
      BY <1>1, <2>2 DEF ShellAnswers, Becomes
    <3>2. Answered(s) \in Shell BY <3>1, ShellOpsType
    <3>3. Answered(s).run = s.run BY ShellOpsRun
    <3> QED BY <3>1, <3>2, <3>3
  <2>3. CASE ShellWrites(p)
    <3>1. /\ s.out < PtyOut /\ s.quota > 0
          /\ shells' = [shells EXCEPT ![p] = Wrote(s)]
      BY <1>1, <2>3 DEF ShellWrites, Becomes
    <3>2. Wrote(s) \in Shell BY <3>1, ShellOpsType
    <3>3. Wrote(s).run = s.run BY ShellOpsRun
    <3> QED BY <3>1, <3>2, <3>3
  <2>4. ASSUME NEW x \in ExitCodes \cup {"signal", "error"}, Leaves(p, x),
               s.run \in {"alive", "dying"}
        PROVE  \E t \in Shell : /\ shells' = [shells EXCEPT ![p] = t]
                                /\ \/ t.run = s.run
                                   \/ s.run \in {"alive", "dying"} /\ t.run = "zombie"
    <3>1. Exited(s, x) \in Shell BY ShellOpsType
    <3>2. Exited(s, x).run = "zombie" BY ShellOpsRun
    <3>3. HungUp(Exited(s, x)) \in Shell BY <3>1, ShellOpsType
    <3>4. HungUp(Exited(s, x)).run = "zombie" BY <3>1, <3>2, ShellOpsRun
    <3> QED BY <1>1, <3>1, <3>2, <3>3, <3>4, <2>4 DEF Leaves, Becomes
  <2>5. CASE ShellExits(p)
    BY <1>1, <2>4, <2>5 DEF ShellExits, ExitStatuses
  <2>6. CASE ShellDies(p)
    BY <1>1, <2>4, <2>6 DEF ShellDies
  <2>7. CASE ShellHangsUp(p)
    <3>1. HungUp(s) \in Shell BY ShellOpsType
    <3>2. HungUp(s).run = s.run BY ShellOpsRun
    <3> QED BY <1>1, <2>7, <3>1, <3>2 DEF ShellHangsUp, Becomes
  <2> QED BY <2>1, <2>2, <2>3, <2>5, <2>6, <2>7 DEF ShellStep
<1> QED BY <1>1, <1>2

\* Terminal states have their type and their fields.
LEMMA TerminalOps ==
  /\ \A s \in {"None", "Requested", "Closing"} :
       TState(s) \in Terminals /\ TState(s).state = s
  /\ \A s \in OwningStates, p \in Shells :
       /\ WithShell(s, p) \in Terminals
       /\ WithShell(s, p).state = s
       /\ WithShell(s, p).shell = p
  /\ \A t \in Terminals :
       Late(t) \in Terminals /\ Late(t).state = t.state /\ Late(t).shell = t.shell
<1> USE TerminalAssumption DEF Terminals, OwningStates, Shells
<1>1. \A s \in {"None", "Requested", "Closing"} :
       TState(s) \in Terminals /\ TState(s).state = s
  BY DEF TState
<1>2. \A s \in OwningStates, p \in Shells :
       /\ WithShell(s, p) \in Terminals
       /\ WithShell(s, p).state = s
       /\ WithShell(s, p).shell = p
  BY DEF WithShell
<1>3. \A t \in Terminals : Late(t) \in Terminals BY DEF Late
<1>4. \A t \in Terminals : Late(t).state = t.state /\ Late(t).shell = t.shell BY DEF Late
<1> QED BY <1>1, <1>2, <1>3, <1>4

\* A channel with one field replaced is a channel.
LEMMA ChannelOpsType ==
  ASSUME NEW c \in Channel
  PROVE  /\ \A t \in Terminals : WithTerminal(c, t) \in Channel
         /\ \A w \in 0..MaxWindow : WithSendWindow(c, w) \in Channel
         /\ \A w \in 0..MaxWindow : WithReceiveWindow(c, w) \in Channel
         /\ c.env < MAX_ENV => WithEnv(c) \in Channel
         /\ WithClose(c) \in Channel
<1> USE ChannelsAssumption DEF Channel
<1>1. \A t \in Terminals : WithTerminal(c, t) \in Channel BY DEF WithTerminal
<1>2. \A w \in 0..MaxWindow : WithSendWindow(c, w) \in Channel BY DEF WithSendWindow
<1>3. \A w \in 0..MaxWindow : WithReceiveWindow(c, w) \in Channel BY DEF WithReceiveWindow
<1>4. c.env < MAX_ENV => WithEnv(c) \in Channel BY DEF WithEnv
<1>5. WithClose(c) \in Channel BY DEF WithClose
<1> QED BY <1>1, <1>2, <1>3, <1>4, <1>5

\* Which fields the operators on channels replace and which they keep.
LEMMA ChannelOpsFields ==
  ASSUME NEW c \in Channel
  PROVE  /\ \A t : LET d == WithTerminal(c, t) IN
              /\ d.terminal = t /\ d.remote_id = c.remote_id
              /\ d.send_window = c.send_window /\ d.receive_window = c.receive_window
              /\ d.close_sent = c.close_sent
         /\ \A w : LET d == WithSendWindow(c, w) IN
              /\ d.terminal = c.terminal /\ d.remote_id = c.remote_id
              /\ d.send_window = w /\ d.receive_window = c.receive_window
              /\ d.close_sent = c.close_sent
         /\ \A w : LET d == WithReceiveWindow(c, w) IN
              /\ d.terminal = c.terminal /\ d.remote_id = c.remote_id
              /\ d.send_window = c.send_window /\ d.receive_window = w
              /\ d.close_sent = c.close_sent
         /\ LET d == WithEnv(c) IN
              /\ d.terminal = c.terminal /\ d.remote_id = c.remote_id
              /\ d.send_window = c.send_window /\ d.receive_window = c.receive_window
              /\ d.close_sent = c.close_sent
         /\ LET d == WithClose(c) IN
              /\ d.terminal = c.terminal /\ d.remote_id = c.remote_id
              /\ d.send_window = c.send_window /\ d.receive_window = c.receive_window
              /\ d.close_sent
BY DEF Channel, WithTerminal, WithSendWindow, WithReceiveWindow, WithEnv, WithClose

\* Messages to the peer have their type.
LEMMA MsgType ==
  ASSUME NEW to \in RemoteIds, NEW arg \in Nat \cup ExitCodes,
         NEW t \in {"OpenFailure", "OpenConfirmation", "Success", "Failure", "Data",
                    "WindowAdjust", "Eof", "ExitStatus", "Close"}
  PROVE  Msg(t, to, arg) \in ServerMessage
BY DEF Msg, ServerMessage

\* A reply to a channel that is there is a sequence of messages.
LEMMA ReplyType ==
  ASSUME NEW m, NEW t \in {"Success", "Failure"}, channels[m.to].remote_id \in RemoteIds
  PROVE  Reply(m, t) \in Seq(ServerMessage)
BY MsgType DEF Reply

-----------------------------------------------------------------------------
(* The inductive invariant, and lemmas that reduce its parts to conditions *)
(* on single channels.                                                     *)

\* The inductive invariant.
IInv ==
  /\ TypeOK
  /\ WithinCredit
  /\ WindowReplenished
  /\ ShellsOwned
  /\ WriteTargetRuns

\* Processes that a terminal may own.
Ownable == {"alive", "dying", "zombie"}

\* Ownership survives a step that gives no channel a new process.
LEMMA OwnershipStep ==
  ASSUME ShellsOwned,
         \A j \in DOMAIN channels' :
           channels'[j].terminal.state \in OwningStates =>
             /\ j \in DOMAIN channels
             /\ channels[j].terminal.state \in OwningStates
             /\ channels'[j].terminal.shell = channels[j].terminal.shell
             /\ shells'[channels[j].terminal.shell].run \in Ownable
             /\ channels'[j].terminal.state = "Reaping"
                  => shells'[channels[j].terminal.shell].run /= "alive"
  PROVE  ShellsOwned'
BY DEF ShellsOwned, Ownable

\* The windows of a channel are in order.
WindowsOK(c, cr) ==
  /\ c.send_window <= cr
  /\ c.receive_window <= INITIAL_WINDOW_SIZE
  /\ c.receive_window > 0 \/ c.terminal.state \in OwningStates
       => 2 * c.receive_window + 1 >= INITIAL_WINDOW_SIZE

\* The two window invariants, channel by channel.
LEMMA WindowsOfChannels ==
  (\A j \in DOMAIN channels : WindowsOK(channels[j], credit[j]))
    <=> WithinCredit /\ WindowReplenished
BY DEF WindowsOK, WithinCredit, WindowReplenished

\* A channel that keeps its windows and gets no new process keeps them in order.
LEMMA WindowsKept ==
  ASSUME NEW c, NEW d, NEW cr, WindowsOK(c, cr),
         d.send_window = c.send_window, d.receive_window = c.receive_window,
         d.terminal.state \in OwningStates => c.terminal.state \in OwningStates
  PROVE  WindowsOK(d, cr)
BY DEF WindowsOK

\* A known channel has its type.
LEMMA KnownType ==
  ASSUME TypeOK, NEW id, Known(id)
  PROVE  /\ id \in DOMAIN channels /\ id \in Ids
         /\ channels[id] \in Channel
         /\ channels[id].terminal \in Terminals
         /\ channels[id].remote_id \in RemoteIds
         /\ channels[id].send_window \in 0..MaxWindow
         /\ channels[id].receive_window \in 0..MaxWindow
BY DEF TypeOK, Known, Channel

\* The map with one channel replaced.
LEMMA UpdateMap ==
  ASSUME TypeOK, NEW id \in DOMAIN channels, NEW c \in Channel,
         channels' = Update(id, c)
  PROVE  /\ DOMAIN channels' = DOMAIN channels
         /\ channels' \in [DOMAIN channels' -> Channel]
         /\ channels'[id] = c
         /\ \A j \in DOMAIN channels : j /= id => channels'[j] = channels[j]
BY DEF TypeOK, Update

\* Replacing one channel by one with windows in order and no new process.
LEMMA UpdateStep ==
  ASSUME IInv, NEW id \in DOMAIN channels, NEW c \in Channel,
         channels' = Update(id, c), UNCHANGED shells,
         \A j \in DOMAIN channels : j /= id => credit'[j] = credit[j],
         WindowsOK(c, credit'[id]),
         c.terminal.state \in OwningStates => c.terminal = channels[id].terminal
  PROVE  WithinCredit' /\ WindowReplenished' /\ ShellsOwned'
<1>1. /\ DOMAIN channels' = DOMAIN channels
      /\ channels'[id] = c
      /\ \A j \in DOMAIN channels : j /= id => channels'[j] = channels[j]
  BY UpdateMap DEF IInv
<1>2. \A j \in DOMAIN channels' : WindowsOK(channels'[j], credit'[j])
  BY <1>1, WindowsOfChannels DEF IInv
<1>3. WithinCredit' /\ WindowReplenished'
  BY <1>2 DEF WindowsOK, WithinCredit, WindowReplenished
<1>4. ShellsOwned'
  BY <1>1, OwnershipStep DEF IInv, ShellsOwned, Ownable
<1> QED BY <1>3, <1>4

-----------------------------------------------------------------------------
(* The messages of the peer. *)

\* A step that leaves processes, channels and credit alone, and either awaits
\* nothing or ends the session.
LEMMA QuietStep ==
  ASSUME IInv, UNCHANGED <<shells, channels, credit>>,
         \/ UNCHANGED <<pending, session>>
         \/ pending' = NoWrite
         \/ session' /= "running"
  PROVE  WithinCredit' /\ WindowReplenished' /\ ShellsOwned' /\ WriteTargetRuns'
<1>1. WithinCredit' /\ WindowReplenished'
  BY DEF IInv, WithinCredit, WindowReplenished
<1>2. ShellsOwned' BY DEF IInv, ShellsOwned
<1>3. WriteTargetRuns' BY DEF IInv, WriteTargetRuns
<1> QED BY <1>1, <1>2, <1>3

\* Channels::open keeps the invariant: a new channel owns no process, has no
\* receive window, and counts on the credit it was opened with.
LEMMA OpenStep ==
  ASSUME IInv, NEW m \in ChannelOpen, open(m)
  PROVE  IInv'
<1> USE ChannelsAssumption
<1>1. TypeOK BY DEF IInv
<1>2. next_id \in Ids /\ next_id' \in Ids
  <2>1. next_id \in Ids BY <1>1 DEF TypeOK
  <2>2. next_id' = next_id \/ next_id' = (next_id + 1) % (MaxId + 1) BY DEF open
  <2>3. (next_id + 1) % (MaxId + 1) \in 0..MaxId BY <2>1 DEF Ids
  <2> QED BY <2>1, <2>2, <2>3 DEF Ids
<1>m. /\ m.sender \in RemoteIds /\ m.window \in 0..MaxWindow
      /\ m.maximum \in 0..MaxWindow
  BY DEF ChannelOpen
<1>3. UNCHANGED <<shells, pending, session>> /\ pending = NoWrite
  BY DEF open, Idle
<1>4. CASE UNCHANGED <<channels, credit>> /\ OpenFailure(m)
  <2>1. write' \in Seq(ServerMessage)
    <3>1. Msg("OpenFailure", m.sender, 0) \in ServerMessage BY <1>m, MsgType
    <3> QED BY <1>1, <1>4, <3>1 DEF OpenFailure, TypeOK
  <2>2. TypeOK' BY <1>1, <1>2, <1>3, <1>4, <2>1 DEF TypeOK
  <2> QED BY <2>2, <1>3, <1>4, QuietStep DEF IInv
<1>5. CASE /\ ~Occupied(next_id)
           /\ channels' = Insert(next_id, NewChannel(m))
           /\ credit' = [credit EXCEPT ![next_id] = m.window]
           /\ write' = Append(write, Msg("OpenConfirmation", m.sender, next_id))
  <2> DEFINE c == NewChannel(m)
  <2>1. c \in Channel
    BY <1>m, TerminalOps DEF NewChannel, Channel
  <2>2. c.send_window = m.window /\ c.receive_window = 0 /\ c.terminal.state = "None"
    BY DEF NewChannel, TState
  <2> HIDE DEF c
  <2>3. /\ DOMAIN channels' = DOMAIN channels \cup {next_id}
        /\ channels'[next_id] = c
        /\ \A j \in DOMAIN channels : channels'[j] = channels[j]
        /\ channels' \in [DOMAIN channels' -> Channel]
    BY <1>1, <1>5, <2>1 DEF Insert, TypeOK, Occupied, Known, c
  <2>4. /\ credit' \in [Ids -> Int] /\ credit'[next_id] = m.window
        /\ \A j \in DOMAIN channels : credit'[j] = credit[j]
    BY <1>1, <1>2, <1>m, <1>5 DEF TypeOK, Occupied, Known
  <2>5. write' \in Seq(ServerMessage)
    <3>1. Msg("OpenConfirmation", m.sender, next_id) \in ServerMessage
      BY <1>2, <1>m, MsgType DEF Ids
    <3> QED BY <1>1, <1>5, <3>1 DEF TypeOK
  <2>6. TypeOK' BY <1>1, <1>2, <1>3, <2>3, <2>4, <2>5 DEF TypeOK
  <2>7. WindowsOK(c, credit'[next_id])
    BY <2>2, <2>4, <1>m DEF WindowsOK, OwningStates
  <2>8. \A j \in DOMAIN channels' : WindowsOK(channels'[j], credit'[j])
    BY <2>3, <2>4, <2>7, WindowsOfChannels DEF IInv
  <2>9. WithinCredit' /\ WindowReplenished'
    BY <2>8 DEF WindowsOK, WithinCredit, WindowReplenished
  <2>10. ShellsOwned'
    BY <1>3, <2>2, <2>3, OwnershipStep DEF IInv, ShellsOwned, Ownable, OwningStates
  <2>11. WriteTargetRuns' BY <1>3 DEF WriteTargetRuns
  <2> QED BY <2>6, <2>9, <2>10, <2>11 DEF IInv
<1> QED BY <1>4, <1>5 DEF open

\* A pty-req keeps it: the banner is charged to window and credit alike.
LEMMA PtyReqStep ==
  ASSUME IInv, NEW m \in ChannelRequest, NEW b \in Banners(m), Idle, Known(m.to),
         PtyReq(m, b)
  PROVE  IInv'
<1> DEFINE id == m.to
           c == channels[id]
           d == WithTerminal(c, TState("Requested"))
<1>1. TypeOK BY DEF IInv
<1>2. /\ id \in DOMAIN channels /\ id \in Ids /\ c \in Channel
      /\ c.remote_id \in RemoteIds /\ c.send_window \in 0..MaxWindow
  BY <1>1, KnownType
<1>3. b \in Nat BY ChannelsAssumption DEF Banners
<1>4. TState("Requested") \in Terminals /\ TState("Requested").state = "Requested"
  BY TerminalOps
<1>5. /\ d \in Channel
      /\ d.send_window = c.send_window /\ d.receive_window = c.receive_window
      /\ d.terminal.state = "Requested"
  <2>1. d \in Channel BY <1>2, <1>4, ChannelOpsType
  <2>2. /\ d.send_window = c.send_window /\ d.receive_window = c.receive_window
        /\ d.terminal = TState("Requested")
    BY <1>2, ChannelOpsFields
  <2> QED BY <1>4, <2>1, <2>2
<1>6. WindowsOK(c, credit[id]) BY <1>2, WindowsOfChannels DEF IInv
<1>7. Reply(m, "Success") \in Seq(ServerMessage) BY <1>2, ReplyType
<1>8. UNCHANGED <<shells, next_id, pending, session>> /\ pending = NoWrite
  BY DEF PtyReq, Idle
<1> HIDE DEF d
<1>9. CASE /\ b > 0 /\ b <= c.send_window
           /\ channels' = Update(id, WithSendWindow(d, c.send_window - b))
           /\ credit' = [credit EXCEPT ![id] = @ - b]
           /\ write' = write \o Reply(m, "Success") \o <<Msg("Data", c.remote_id, b)>>
  <2> DEFINE e == WithSendWindow(d, c.send_window - b)
  <2>1. c.send_window - b \in 0..MaxWindow
    <3>1. b <= c.send_window BY <1>9
    <3> QED BY <1>2, <1>3, <3>1, ChannelsAssumption
  <2>2. e \in Channel BY <1>5, <2>1, ChannelOpsType
  <2>3. /\ e.send_window = c.send_window - b /\ e.receive_window = c.receive_window
        /\ e.terminal.state = "Requested"
    BY <1>5, ChannelOpsFields
  <2> HIDE DEF e
  <2>4. /\ credit' \in [Ids -> Int] /\ credit'[id] = credit[id] - b
        /\ \A j \in DOMAIN channels : j /= id => credit'[j] = credit[j]
    BY <1>1, <1>2, <1>3, <1>9 DEF TypeOK
  <2>5. WindowsOK(e, credit'[id])
    BY <1>1, <1>2, <1>3, <1>6, <2>3, <2>4 DEF WindowsOK, OwningStates, TypeOK
  <2>6. write' \in Seq(ServerMessage)
    BY <1>1, <1>2, <1>3, <1>7, <1>9, MsgType DEF TypeOK
  <2>7. channels' = Update(id, e) BY <1>9 DEF e
  <2>8. TypeOK' BY <1>1, <1>2, <1>8, <2>2, <2>4, <2>6, <2>7, UpdateMap DEF TypeOK
  <2>9. WithinCredit' /\ WindowReplenished' /\ ShellsOwned'
    BY <1>2, <1>8, <2>2, <2>3, <2>4, <2>5, <2>7, UpdateStep DEF OwningStates
  <2>10. WriteTargetRuns' BY <1>8 DEF WriteTargetRuns
  <2> QED BY <2>8, <2>9, <2>10 DEF IInv
<1>10. CASE /\ channels' = Update(id, d) /\ UNCHANGED credit
            /\ write' = write \o Reply(m, "Success")
  <2>1. WindowsOK(d, credit'[id])
    BY <1>5, <1>6, <1>10, WindowsKept DEF OwningStates
  <2>2. TypeOK' BY <1>1, <1>2, <1>5, <1>7, <1>8, <1>10, UpdateMap DEF TypeOK
  <2>3. WithinCredit' /\ WindowReplenished' /\ ShellsOwned'
    BY <1>2, <1>5, <1>8, <1>10, <2>1, UpdateStep DEF OwningStates
  <2>4. WriteTargetRuns' BY <1>8 DEF WriteTargetRuns
  <2> QED BY <2>2, <2>3, <2>4 DEF IInv
<1> QED BY <1>9, <1>10 DEF PtyReq, d

\* An env request that is accepted touches nothing but the variables.
LEMMA EnvStep ==
  ASSUME IInv, NEW m \in ChannelRequest, Idle, Known(m.to), Env(m)
  PROVE  IInv'
<1> DEFINE id == m.to
           c == channels[id]
           d == WithEnv(c)
<1>1. TypeOK BY DEF IInv
<1>2. /\ id \in DOMAIN channels /\ c \in Channel /\ c.remote_id \in RemoteIds
  BY <1>1, KnownType
<1>3. d \in Channel
  <2>1. c.env < MAX_ENV BY DEF Env
  <2> QED BY <1>2, <2>1, ChannelOpsType
<1>4. /\ d.send_window = c.send_window /\ d.receive_window = c.receive_window
      /\ d.terminal = c.terminal
  BY <1>2, ChannelOpsFields
<1>5. Reply(m, "Success") \in Seq(ServerMessage) BY <1>2, ReplyType
<1>6. /\ channels' = Update(id, d) /\ write' = write \o Reply(m, "Success")
      /\ UNCHANGED <<shells, next_id, pending, session, credit>> /\ pending = NoWrite
  BY DEF Env, Idle
<1> HIDE DEF d
<1>7. WindowsOK(d, credit'[id])
  <2>1. WindowsOK(c, credit[id]) BY <1>2, WindowsOfChannels DEF IInv
  <2> QED BY <1>4, <1>6, <2>1, WindowsKept
<1>8. TypeOK' BY <1>1, <1>2, <1>3, <1>5, <1>6, UpdateMap DEF TypeOK
<1>9. WithinCredit' /\ WindowReplenished' /\ ShellsOwned'
  BY <1>2, <1>3, <1>4, <1>6, <1>7, UpdateStep
<1>10. WriteTargetRuns' BY <1>6 DEF WriteTargetRuns
<1> QED BY <1>8, <1>9, <1>10 DEF IInv

\* A shell request that fails leaves the channel without a terminal.
LEMMA ShellErrorStep ==
  ASSUME IInv, NEW m \in ChannelRequest, Idle, Known(m.to), ShellError(m)
  PROVE  IInv'
<1> DEFINE id == m.to
           c == channels[id]
           d == WithTerminal(c, TState("None"))
<1>1. TypeOK BY DEF IInv
<1>2. id \in DOMAIN channels /\ c \in Channel BY <1>1, KnownType
<1>3. TState("None") \in Terminals /\ TState("None").state = "None" BY TerminalOps
<1>4. d \in Channel BY <1>2, <1>3, ChannelOpsType
<1>5. /\ d.send_window = c.send_window /\ d.receive_window = c.receive_window
      /\ d.terminal = TState("None")
  BY <1>2, ChannelOpsFields
<1>6. /\ channels' = Update(id, d)
      /\ UNCHANGED <<shells, next_id, write, pending, credit>>
      /\ session' \in {"proto_error", "io_error"}
  BY DEF ShellError, Fail
<1> HIDE DEF d
<1>7. WindowsOK(d, credit'[id])
  <2>1. WindowsOK(c, credit[id]) BY <1>2, WindowsOfChannels DEF IInv
  <2> QED BY <1>3, <1>5, <1>6, <2>1, WindowsKept DEF OwningStates
<1>8. TypeOK' BY <1>1, <1>2, <1>4, <1>6, UpdateMap DEF TypeOK
<1>9. WithinCredit' /\ WindowReplenished' /\ ShellsOwned'
  BY <1>2, <1>3, <1>4, <1>5, <1>6, <1>7, UpdateStep DEF OwningStates
<1>10. WriteTargetRuns' BY <1>6 DEF WriteTargetRuns
<1> QED BY <1>8, <1>9, <1>10 DEF IInv

\* A shell request that succeeds: the new process was owned by no channel, and
\* the receive window opens in full.
LEMMA StartShellStep ==
  ASSUME IInv, NEW m \in ChannelRequest, Idle, Known(m.to), StartShell(m)
  PROVE  IInv'
<1> DEFINE id == m.to
           c == channels[id]
<1>1. TypeOK BY DEF IInv
<1>2. id \in DOMAIN channels /\ c \in Channel /\ c.remote_id \in RemoteIds
  BY <1>1, KnownType
<1>3. PICK p \in Shells :
        /\ IsFresh(p) /\ shells' = spawn(p)
        /\ channels' = Update(id,
             WithReceiveWindow(WithTerminal(c, WithShell("Running", p)),
                               INITIAL_WINDOW_SIZE))
  BY DEF StartShell
<1>4. /\ write' = write \o <<Msg("WindowAdjust", c.remote_id, INITIAL_WINDOW_SIZE)>>
                        \o Reply(m, "Success")
      /\ UNCHANGED <<next_id, pending, session, credit>> /\ pending = NoWrite
  BY DEF StartShell, Idle
<1> DEFINE t == WithShell("Running", p)
           d == WithTerminal(c, t)
           e == WithReceiveWindow(d, INITIAL_WINDOW_SIZE)
<1>5. t \in Terminals /\ t.state = "Running" /\ t.shell = p
  BY TerminalOps DEF OwningStates
<1>6. d \in Channel BY <1>2, <1>5, ChannelOpsType
<1>7. d.terminal = t /\ d.send_window = c.send_window BY <1>2, ChannelOpsFields
<1>8. INITIAL_WINDOW_SIZE \in 0..MaxWindow /\ INITIAL_WINDOW_SIZE \in Nat
  BY ChannelsAssumption
<1> HIDE DEF t, d
<1>9. e \in Channel BY <1>6, <1>8, ChannelOpsType
<1>10. /\ e.terminal = t /\ e.send_window = c.send_window
       /\ e.receive_window = INITIAL_WINDOW_SIZE
  BY <1>6, <1>7, ChannelOpsFields
<1>11. channels' = Update(id, e) BY <1>3 DEF d, t
<1> HIDE DEF e
<1>12. /\ DOMAIN channels' = DOMAIN channels
       /\ channels' \in [DOMAIN channels' -> Channel]
       /\ channels'[id] = e
       /\ \A j \in DOMAIN channels : j /= id => channels'[j] = channels[j]
  BY <1>1, <1>2, <1>9, <1>11, UpdateMap
<1>13. /\ shells' \in [Shells -> Shell] /\ shells'[p].run = "alive"
       /\ \A q \in Shells : q /= p => shells'[q] = shells[q]
  <2> DEFINE u == [Unspawned EXCEPT !.run = "alive"]
  <2>1. u \in Shell /\ u.run = "alive"
    <3>1. Unspawned \in Shell BY TerminalAssumption DEF Unspawned, Shell
    <3>2. \A v \in Shell : [v EXCEPT !.run = "alive"] \in Shell
                          /\ [v EXCEPT !.run = "alive"].run = "alive"
      BY DEF Shell
    <3> QED BY <3>1, <3>2
  <2> HIDE DEF u
  <2> QED BY <1>1, <1>3, <2>1 DEF TypeOK, spawn, u
<1>14. TypeOK'
  <2>1. Reply(m, "Success") \in Seq(ServerMessage) BY <1>2, ReplyType
  <2>2. Msg("WindowAdjust", c.remote_id, INITIAL_WINDOW_SIZE) \in ServerMessage
    BY <1>2, <1>8, MsgType
  <2>3. write' \in Seq(ServerMessage) BY <1>1, <1>4, <2>1, <2>2 DEF TypeOK
  <2> QED BY <1>1, <1>4, <1>12, <1>13, <2>3 DEF TypeOK
<1>15. WithinCredit' /\ WindowReplenished'
  <2>1. WindowsOK(c, credit[id]) BY <1>2, WindowsOfChannels DEF IInv
  <2>2. WindowsOK(e, credit[id]) BY <1>8, <1>10, <2>1 DEF WindowsOK
  <2>3. \A j \in DOMAIN channels' : WindowsOK(channels'[j], credit'[j])
    BY <1>4, <1>12, <2>2, WindowsOfChannels DEF IInv
  <2> QED BY <2>3 DEF WindowsOK, WithinCredit, WindowReplenished
<1>16. ShellsOwned'
  <2>1. shells[p].run = "unspawned" BY <1>3 DEF IsFresh
  <2>2. \A j \in DOMAIN channels : channels[j].terminal.state \in OwningStates
          => channels[j].terminal.shell \in Shells /\ channels[j].terminal.shell /= p
    BY <2>1 DEF IInv, ShellsOwned
  <2> QED BY <1>5, <1>10, <1>12, <1>13, <2>2 DEF IInv, ShellsOwned
<1>17. WriteTargetRuns' BY <1>4 DEF WriteTargetRuns
<1> QED BY <1>14, <1>15, <1>16, <1>17 DEF IInv

\* A reply that changes nothing else, or an error before anything changes.
LEMMA ReplyOnlyStep ==
  ASSUME IInv, NEW m \in ChannelRequest, Idle, Known(m.to), WindowChange(m) \/ Refused(m)
  PROVE  IInv'
<1>1. TypeOK BY DEF IInv
<1>2. channels[m.to].remote_id \in RemoteIds BY <1>1, KnownType
<1>3. Reply(m, "Success") \in Seq(ServerMessage) /\ Reply(m, "Failure") \in Seq(ServerMessage)
  BY <1>2, ReplyType
<1>4. /\ UNCHANGED <<shells, next_id, channels, pending, credit>>
      /\ pending = NoWrite
      /\ session' \in {session, "io_error"}
      /\ write' \in {write, write \o Reply(m, "Success"), write \o Reply(m, "Failure")}
  BY DEF WindowChange, Refused, Fail, Idle
<1>5. write' \in Seq(ServerMessage)
  <2>1. write \in Seq(ServerMessage) BY <1>1 DEF TypeOK
  <2>2. \A r \in Seq(ServerMessage) : write \o r \in Seq(ServerMessage) BY <2>1
  <2> QED BY <1>3, <1>4, <2>1, <2>2
<1>6. TypeOK' BY <1>1, <1>4, <1>5 DEF TypeOK
<1> QED BY <1>4, <1>6, QuietStep DEF IInv

\* A message for a channel that is not there ends the session.
LEMMA UnknownChannelStep ==
  ASSUME IInv, NEW m, UnknownChannel(m)
  PROVE  IInv'
<1>1. TypeOK' BY DEF IInv, TypeOK, UnknownChannel, Fail
<1> QED BY <1>1, QuietStep DEF IInv, UnknownChannel, Fail

\* Channels::request, from its arms.
LEMMA RequestStep ==
  ASSUME IInv, NEW m \in ChannelRequest, NEW b \in Banners(m), request(m, b)
  PROVE  IInv'
BY PtyReqStep, EnvStep, ShellErrorStep, StartShellStep, ReplyOnlyStep, UnknownChannelStep
   DEF request

\* adjust_window: the window saturates, so it grows by no more than the credit.
LEMMA AdjustWindowStep ==
  ASSUME IInv, NEW m \in ChannelWindowAdjust, adjust_window(m)
  PROVE  IInv'
<1> DEFINE id == m.to
           c == channels[id]
           w == saturating_add(c.send_window, m.n)
           d == GrantSendWindow(c, m.n)
<1>1. TypeOK BY DEF IInv
<1>2. CASE UnknownChannel(m) BY <1>2, UnknownChannelStep
<1>3. CASE /\ Known(m.to) /\ channels' = Update(id, d)
           /\ credit' = [credit EXCEPT ![id] = @ + m.n]
           /\ UNCHANGED <<shells, next_id, write, pending, session>>
  <2>1. /\ id \in DOMAIN channels /\ id \in Ids /\ c \in Channel
        /\ c.send_window \in 0..MaxWindow
    BY <1>1, <1>3, KnownType
  <2>2. m.n \in 0..MaxWindow BY ChannelsAssumption DEF ChannelWindowAdjust
  <2>3. w \in 0..MaxWindow /\ w <= c.send_window + m.n
    BY <2>1, <2>2, ChannelsAssumption DEF saturating_add, Smaller
  <2>4. d \in Channel BY <2>1, <2>3, ChannelOpsType DEF GrantSendWindow
  <2>5. /\ d.send_window = w /\ d.receive_window = c.receive_window
        /\ d.terminal = c.terminal
    BY <2>1, ChannelOpsFields DEF GrantSendWindow
  <2>6. /\ credit' \in [Ids -> Int] /\ credit[id] \in Int
        /\ credit'[id] = credit[id] + m.n
        /\ \A j \in DOMAIN channels : j /= id => credit'[j] = credit[j]
    BY <1>1, <1>3, <2>1, <2>2 DEF TypeOK
  <2> HIDE DEF d, w
  <2>7. WindowsOK(d, credit'[id])
    <3>1. WindowsOK(c, credit[id]) BY <2>1, WindowsOfChannels DEF IInv
    <3> QED BY <2>1, <2>2, <2>3, <2>5, <2>6, <3>1 DEF WindowsOK
  <2>8. TypeOK' BY <1>1, <1>3, <2>1, <2>4, <2>6, UpdateMap DEF TypeOK
  <2>9. WithinCredit' /\ WindowReplenished' /\ ShellsOwned'
    BY <1>3, <2>1, <2>4, <2>5, <2>6, <2>7, UpdateStep
  <2>10. WriteTargetRuns' BY <1>3 DEF WriteTargetRuns, Idle, adjust_window
  <2> QED BY <2>8, <2>9, <2>10 DEF IInv
<1> QED BY <1>2, <1>3 DEF adjust_window

\* data: the window left is replenished below half, and the write it starts is
\* for the shell of a Running channel.
LEMMA DataStep ==
  ASSUME IInv, NEW m \in ChannelData, data(m)
  PROVE  IInv'
<1> DEFINE id == m.to
           c == channels[id]
           left == c.receive_window - m.n
           w == Replenish(left)
           added == w - left
           adjust == IF added > 0 THEN <<Msg("WindowAdjust", c.remote_id, added)>> ELSE <<>>
           d == WithReceiveWindow(c, w)
<1>1. TypeOK BY DEF IInv
<1>2. pending = NoWrite /\ session = "running" BY DEF data, Idle
<1>3. CASE UnknownChannel(m) BY <1>3, UnknownChannelStep
<1>4. CASE Fail("proto_error") /\ UNCHANGED <<shells, channels>>
  <2>1. TypeOK' BY <1>1, <1>4 DEF TypeOK, Fail
  <2> QED BY <1>4, <2>1, QuietStep DEF IInv, Fail
<1>5. CASE /\ Known(m.to) /\ m.n <= c.receive_window /\ channels' = Update(id, d)
           /\ \/ /\ c.terminal.state = "Running" /\ m.n > 0
                 /\ pending' = [shell |-> c.terminal.shell, left |-> m.n, out |-> adjust]
                 /\ UNCHANGED write
              \/ write' = write \o adjust /\ UNCHANGED pending
           /\ UNCHANGED <<shells, next_id, session, credit>>
  <2>1. /\ id \in DOMAIN channels /\ id \in Ids /\ c \in Channel
        /\ c.terminal \in Terminals /\ c.remote_id \in RemoteIds
        /\ c.receive_window \in 0..MaxWindow
    BY <1>1, <1>5, KnownType
  <2>2. m.n \in 0..MaxWindow BY ChannelsAssumption DEF ChannelData
  <2>3. m.n <= c.receive_window BY <1>5
  <2>4. WindowsOK(c, credit[id]) BY <2>1, WindowsOfChannels DEF IInv
  <2>5. /\ left \in Nat /\ w \in 0..MaxWindow /\ added \in Nat
        /\ w <= INITIAL_WINDOW_SIZE /\ 2 * w + 1 >= INITIAL_WINDOW_SIZE
    BY <2>1, <2>2, <2>3, <2>4, ChannelsAssumption DEF Replenish, WindowsOK
  <2>6. adjust \in Seq(ServerMessage)
    <3>1. Msg("WindowAdjust", c.remote_id, added) \in ServerMessage
      BY <2>1, <2>5, MsgType
    <3> QED BY <3>1
  <2> HIDE DEF w, added, adjust
  <2>7. d \in Channel BY <2>1, <2>5, ChannelOpsType
  <2>8. /\ d.send_window = c.send_window /\ d.receive_window = w
        /\ d.terminal = c.terminal
    BY <2>1, ChannelOpsFields
  <2> HIDE DEF d
  <2>9. WindowsOK(d, credit'[id])
    BY <1>5, <2>4, <2>5, <2>8 DEF WindowsOK
  <2>10. /\ pending' \in [shell : 0..MaxShells, left : 0..MaxWindow, out : Seq(ServerMessage)]
         /\ write' \in Seq(ServerMessage)
    <3>1. /\ write \in Seq(ServerMessage) /\ write \o adjust \in Seq(ServerMessage)
          /\ pending \in [shell : 0..MaxShells, left : 0..MaxWindow, out : Seq(ServerMessage)]
      BY <1>1, <2>6 DEF TypeOK
    <3>2. [shell |-> c.terminal.shell, left |-> m.n, out |-> adjust]
            \in [shell : 0..MaxShells, left : 0..MaxWindow, out : Seq(ServerMessage)]
      BY <2>1, <2>2, <2>6 DEF Terminals
    <3> QED BY <1>5, <3>1, <3>2
  <2>11. TypeOK' BY <1>1, <1>5, <2>1, <2>7, <2>10, UpdateMap DEF TypeOK
  <2>12. WithinCredit' /\ WindowReplenished' /\ ShellsOwned'
    BY <1>5, <2>1, <2>7, <2>8, <2>9, UpdateStep
  <2>13. WriteTargetRuns'
    <3>1. DOMAIN channels' = DOMAIN channels /\ channels'[id] = d
      BY <1>1, <1>5, <2>1, <2>7, UpdateMap
    <3> QED BY <1>2, <1>5, <2>1, <2>8, <3>1 DEF WriteTargetRuns
  <2> QED BY <2>11, <2>12, <2>13 DEF IInv
<1> QED BY <1>3, <1>4, <1>5 DEF data

\* An awaited write only moves bytes into the PTY, or ends the session.
LEMMA WritePtyStep ==
  ASSUME IInv, WritePty
  PROVE  IInv'
<1> DEFINE p == pending.shell
           s == shells[p]
           k == Smaller(pending.left, Room(s))
<1>1. TypeOK BY DEF IInv
<1>2. pending /= NoWrite /\ session = "running" BY DEF WritePty
<1>3. PICK id \in DOMAIN channels :
        channels[id].terminal.state = "Running" /\ channels[id].terminal.shell = p
  BY <1>2 DEF IInv, WriteTargetRuns
<1>4. p \in Shells /\ s \in Shell
  BY <1>1, <1>3 DEF IInv, ShellsOwned, OwningStates, TypeOK
<1>5. CASE Fail("io_error") /\ UNCHANGED <<shells, channels>>
  <2>1. TypeOK' BY <1>1, <1>5 DEF TypeOK, Fail
  <2> QED BY <1>5, <2>1, QuietStep DEF IInv, Fail
<1>6. CASE /\ k > 0
           /\ shells' = [shells EXCEPT ![p] = Filled(s, k)]
           /\ \/ /\ k < pending.left
                 /\ pending' = [pending EXCEPT !.left = @ - k]
                 /\ UNCHANGED write
              \/ /\ k = pending.left
                 /\ pending' = NoWrite
                 /\ write' = write \o pending.out
           /\ UNCHANGED <<next_id, channels, session, credit>>
  <2>1. pending.left \in 0..MaxWindow /\ pending.out \in Seq(ServerMessage)
    BY <1>1 DEF TypeOK
  <2>2. Room(s) \in Nat BY <1>4, TerminalAssumption DEF Room, Shell
  <2>3. k \in 0..Room(s) BY <2>1, <2>2, ChannelsAssumption DEF Smaller
  <2>4. Filled(s, k) \in Shell BY <1>4, <2>3, ShellOpsType
  <2>5. Filled(s, k).run = s.run BY <1>4, ShellOpsRun
  <2> HIDE DEF k
  <2>6. shells' \in [Shells -> Shell] /\ \A q \in Shells : shells'[q].run = shells[q].run
    BY <1>1, <1>4, <1>6, <2>4, <2>5 DEF TypeOK
  <2>7. /\ pending' \in [shell : 0..MaxShells, left : 0..MaxWindow, out : Seq(ServerMessage)]
        /\ pending' = NoWrite \/ pending'.shell = p
        /\ write' \in Seq(ServerMessage)
    <3>1. CASE pending' = NoWrite /\ write' = write \o pending.out
      BY <1>1, <2>1, <3>1, TerminalAssumption, ChannelsAssumption DEF TypeOK, NoWrite
    <3>2. CASE k < pending.left /\ pending' = [pending EXCEPT !.left = @ - k] /\ UNCHANGED write
      <4>1. pending.left - k \in 0..MaxWindow BY <2>1, <2>3, <2>2, <3>2, ChannelsAssumption
      <4> QED BY <1>1, <3>2, <4>1 DEF TypeOK
    <3> QED BY <1>6, <3>1, <3>2
  <2>8. TypeOK' BY <1>1, <1>6, <2>6, <2>7 DEF TypeOK
  <2>9. WithinCredit' /\ WindowReplenished'
    BY <1>6 DEF IInv, WithinCredit, WindowReplenished
  <2>10. ShellsOwned' BY <1>6, <2>6 DEF IInv, ShellsOwned
  <2>11. WriteTargetRuns' BY <1>3, <1>6, <2>7 DEF WriteTargetRuns
  <2> QED BY <2>8, <2>9, <2>10, <2>11 DEF IInv
<1> QED BY <1>5, <1>6 DEF WritePty

\* eof changes nothing.
LEMMA EofStep ==
  ASSUME IInv, NEW m, eof(m)
  PROVE  IInv'
<1>1. CASE UnknownChannel(m) BY <1>1, UnknownChannelStep
<1>2. CASE UNCHANGED vars
  <2>1. TypeOK' BY <1>2 DEF IInv, TypeOK, vars
  <2> QED BY <1>2, <2>1, QuietStep DEF IInv, vars
<1> QED BY <1>1, <1>2 DEF eof

\* close: the process of a channel that turns Reaping has been killed, and a
\* channel that goes at once owned none.
LEMMA CloseStep ==
  ASSUME IInv, NEW m \in ChannelClose, close(m)
  PROVE  IInv'
<1> DEFINE id == m.to
           c == channels[id]
           p == c.terminal.shell
<1>1. TypeOK BY DEF IInv
<1>2. pending = NoWrite /\ UNCHANGED <<next_id, pending, session, credit>>
  BY DEF close, Idle
<1>3. WriteTargetRuns' BY <1>2 DEF WriteTargetRuns
<1>4. CASE ~Known(id) /\ UNCHANGED <<shells, channels, write>>
  <2>1. TypeOK' BY <1>1, <1>2, <1>4 DEF TypeOK
  <2> QED BY <1>2, <1>4, <2>1, QuietStep DEF IInv
<1>5. CASE Known(id)
  <2>1. /\ id \in DOMAIN channels /\ id \in Ids /\ c \in Channel
        /\ c.terminal \in Terminals /\ c.remote_id \in RemoteIds
    BY <1>1, <1>5, KnownType
  <2>2. WindowsOK(c, credit[id]) BY <2>1, WindowsOfChannels DEF IInv
  <2>3. write' \in Seq(ServerMessage)
    <3>1. Msg("Close", c.remote_id, 0) \in ServerMessage BY <2>1, MsgType
    <3>2. write' = write \/ write' = Append(write, Msg("Close", c.remote_id, 0))
      BY <1>5 DEF close
    <3>3. /\ write \in Seq(ServerMessage)
          /\ \A x \in ServerMessage : Append(write, x) \in Seq(ServerMessage)
      BY <1>1 DEF TypeOK
    <3> QED BY <3>1, <3>2, <3>3
  <2>4. CASE /\ c.terminal.state \in {"Running", "Exiting"}
             /\ shells' = [shells EXCEPT ![p] = start_kill(@)]
             /\ channels' = Update(id, WithClose(WithTerminal(c, WithShell("Reaping", p))))
    <3> DEFINE t == WithShell("Reaping", p)
               d == WithTerminal(c, t)
               e == WithClose(d)
    <3>1. p \in Shells /\ shells[p] \in Shell /\ shells[p].run \in Ownable
      BY <1>1, <2>1, <2>4 DEF IInv, ShellsOwned, OwningStates, Ownable, TypeOK
    <3>2. t \in Terminals /\ t.state = "Reaping" /\ t.shell = p
      BY <3>1, TerminalOps DEF OwningStates
    <3>3. d \in Channel BY <2>1, <3>2, ChannelOpsType
    <3>4. /\ d.terminal = t /\ d.send_window = c.send_window
          /\ d.receive_window = c.receive_window
      BY <2>1, ChannelOpsFields
    <3> HIDE DEF d, t
    <3>5. e \in Channel BY <3>3, ChannelOpsType
    <3>6. /\ e.terminal = t /\ e.send_window = c.send_window
          /\ e.receive_window = c.receive_window
      BY <3>3, <3>4, ChannelOpsFields
    <3>7. channels' = Update(id, e) BY <2>4 DEF d, t
    <3> HIDE DEF e
    <3>8. /\ DOMAIN channels' = DOMAIN channels
          /\ channels' \in [DOMAIN channels' -> Channel]
          /\ channels'[id] = e
          /\ \A j \in DOMAIN channels : j /= id => channels'[j] = channels[j]
      BY <1>1, <2>1, <3>5, <3>7, UpdateMap
    <3>9. start_kill(shells[p]) \in Shell BY <3>1, ShellOpsType
    <3>10. start_kill(shells[p]).run \in {"dying", "zombie"} BY <3>1, ShellOpsRun DEF Ownable
    <3>11. /\ shells' \in [Shells -> Shell] /\ shells'[p].run \in {"dying", "zombie"}
           /\ \A q \in Shells : q /= p => shells'[q] = shells[q]
      BY <1>1, <2>4, <3>1, <3>9, <3>10 DEF TypeOK
    <3>12. TypeOK' BY <1>1, <1>2, <2>3, <3>8, <3>11 DEF TypeOK
    <3>13. WindowsOK(e, credit[id])
      BY <2>2, <2>4, <3>2, <3>6, WindowsKept DEF OwningStates
    <3>14. \A j \in DOMAIN channels' : WindowsOK(channels'[j], credit'[j])
      BY <1>2, <3>8, <3>13, WindowsOfChannels DEF IInv
    <3>15. WithinCredit' /\ WindowReplenished'
      BY <3>14 DEF WindowsOK, WithinCredit, WindowReplenished
    <3>16. ShellsOwned'
      <4>1. \A j \in DOMAIN channels : channels[j].terminal.state \in OwningStates =>
              channels[j].terminal.shell \in Shells /\ shells[channels[j].terminal.shell].run \in Ownable
        BY DEF IInv, ShellsOwned, Ownable
      <4>2. \A j \in DOMAIN channels : channels[j].terminal.state \in OwningStates /\ j /= id =>
              channels[j].terminal.shell /= p
        BY <2>1, <2>4 DEF IInv, ShellsOwned, OwningStates
      <4>3. \A j \in DOMAIN channels : channels[j].terminal.state = "Reaping" =>
              shells[channels[j].terminal.shell].run /= "alive"
        BY DEF IInv, ShellsOwned, OwningStates
      <4> QED BY <2>1, <2>4, <3>2, <3>6, <3>8, <3>11, <4>1, <4>2, <4>3, OwnershipStep
              DEF IInv, OwningStates, Ownable
    <3> QED BY <1>3, <3>12, <3>15, <3>16 DEF IInv
  <2>5. CASE UNCHANGED shells /\ channels' = Update(id, WithClose(c))
    <3>1. WithClose(c) \in Channel BY <2>1, ChannelOpsType
    <3>2. /\ WithClose(c).terminal = c.terminal /\ WithClose(c).send_window = c.send_window
          /\ WithClose(c).receive_window = c.receive_window
      BY <2>1, ChannelOpsFields
    <3>3. WindowsOK(WithClose(c), credit'[id]) BY <1>2, <2>2, <3>2, WindowsKept
    <3>4. TypeOK' BY <1>1, <1>2, <2>1, <2>3, <2>5, <3>1, UpdateMap DEF TypeOK
    <3>5. WithinCredit' /\ WindowReplenished' /\ ShellsOwned'
      BY <1>2, <2>1, <2>5, <3>1, <3>2, <3>3, UpdateStep
    <3> QED BY <1>3, <3>4, <3>5 DEF IInv
  <2>6. CASE UNCHANGED shells /\ channels' = Remove(id)
    <3>1. /\ DOMAIN channels' = DOMAIN channels \ {id}
          /\ channels' \in [DOMAIN channels' -> Channel]
          /\ \A j \in DOMAIN channels' : channels'[j] = channels[j]
      BY <1>1, <2>6 DEF TypeOK, Remove
    <3>2. TypeOK' BY <1>1, <1>2, <2>3, <2>6, <3>1 DEF TypeOK
    <3>3. WithinCredit' /\ WindowReplenished'
      BY <1>2, <3>1 DEF IInv, WithinCredit, WindowReplenished
    <3>4. ShellsOwned' BY <2>6, <3>1 DEF IInv, ShellsOwned
    <3> QED BY <1>3, <3>2, <3>3, <3>4 DEF IInv
  <2> QED BY <1>5, <2>4, <2>5, <2>6 DEF close
<1> QED BY <1>4, <1>5 DEF close

-----------------------------------------------------------------------------
(* The poll of the terminals. *)

\* A channel the poll passes keeps its windows, and either stays as it is or
\* gives up its process.
LEMMA PassedChannelFacts ==
  ASSUME IInv, NEW j \in DOMAIN channels
  PROVE  /\ PassedChannel(j) \in Channel
         /\ PassedChannel(j).send_window = channels[j].send_window
         /\ PassedChannel(j).receive_window = channels[j].receive_window
         /\ PassedChannel(j).remote_id = channels[j].remote_id
         /\ PassedChannel(j).close_sent = channels[j].close_sent
         /\ PassedChannel(j).terminal.state \in OwningStates =>
              PassedChannel(j) = channels[j] /\ ~PassedReaps(j)
<1> DEFINE c == channels[j]
           d == WithTerminal(c, TState("Closing"))
<1>1. c \in Channel BY DEF IInv, TypeOK
<1>2. TState("Closing") \in Terminals /\ TState("Closing").state = "Closing"
  BY TerminalOps
<1>3. d \in Channel BY <1>1, <1>2, ChannelOpsType
<1>4. /\ d.send_window = c.send_window /\ d.receive_window = c.receive_window
      /\ d.remote_id = c.remote_id /\ d.close_sent = c.close_sent
      /\ d.terminal = TState("Closing")
  BY <1>1, ChannelOpsFields
<1>5. PassedReaps(j) => PassedChannel(j) = d BY DEF PassedChannel
<1>6. ~PassedReaps(j) => PassedChannel(j) = c BY DEF PassedChannel
<1> HIDE DEF d
<1> QED BY <1>1, <1>2, <1>3, <1>4, <1>5, <1>6 DEF OwningStates

\* Passing channels reaps no process but theirs, and starts none.
LEMMA PassedShellsFacts ==
  ASSUME IInv, NEW js \in SUBSET DOMAIN channels
  PROVE  /\ PassedShells(js) \in [Shells -> Shell]
         /\ \A j \in DOMAIN channels :
              /\ channels[j].terminal.state \in OwningStates
              /\ j \in js => ~PassedReaps(j)
              => LET p == channels[j].terminal.shell IN
                 /\ p \in Shells
                 /\ PassedShells(js)[p].run \in Ownable
                 /\ shells[p].run /= "alive" => PassedShells(js)[p].run /= "alive"
                 /\ shells[p].run = "zombie" => PassedShells(js)[p].run = "zombie"
<1>1. \A p \in Shells : shells[p] \in Shell BY DEF IInv, TypeOK
<1>2. \A p \in Shells : Reaped(shells[p]) \in Shell BY <1>1, ShellOpsType
<1>3. \A p \in Shells : start_kill(shells[p]) \in Shell BY <1>1, ShellOpsType
<1>4. PassedShells(js) \in [Shells -> Shell] BY <1>1, <1>2, <1>3 DEF PassedShells
<1>5. ASSUME NEW j \in DOMAIN channels, channels[j].terminal.state \in OwningStates,
             j \in js => ~PassedReaps(j)
      PROVE  LET p == channels[j].terminal.shell IN
             /\ p \in Shells
             /\ PassedShells(js)[p].run \in Ownable
             /\ shells[p].run /= "alive" => PassedShells(js)[p].run /= "alive"
             /\ shells[p].run = "zombie" => PassedShells(js)[p].run = "zombie"
  <2> DEFINE p == channels[j].terminal.shell
  <2>1. p \in Shells /\ shells[p].run \in Ownable
    BY <1>5 DEF IInv, ShellsOwned, Ownable
  <2>2. ~\E i \in js : channels[i].terminal.shell = p /\ PassedReaps(i)
    <3> SUFFICES ASSUME NEW i \in js, channels[i].terminal.shell = p, PassedReaps(i)
                 PROVE  FALSE
      OBVIOUS
    <3>1. channels[i].terminal.state \in OwningStates BY DEF PassedReaps, OwningStates
    <3>2. i = j BY <1>5, <3>1 DEF IInv, ShellsOwned
    <3> QED BY <1>5, <3>2
  <2>3. PassedShells(js)[p] \in {shells[p], start_kill(shells[p])}
    BY <2>1, <2>2 DEF PassedShells
  <2>4. start_kill(shells[p]).run = IF shells[p].run = "alive" THEN "dying" ELSE shells[p].run
    BY <1>1, <2>1, ShellOpsRun
  <2> QED BY <2>1, <2>3, <2>4 DEF Ownable
<1> QED BY <1>4, <1>5

\* A poll that returns at id, given what it makes of that channel and of its
\* process, keeps windows in order and processes owned.
LEMMA PollAtStep ==
  ASSUME IInv, NEW id \in DOMAIN channels, NEW c \in Channel, PollAt(id, c),
         shells' \in [Shells -> Shell],
         \A q \in Shells :
           \/ shells'[q] = PassedShells(Below(id))[q]
           \/ /\ q = channels[id].terminal.shell
              /\ channels[id].terminal.state \in OwningStates,
         c.terminal.state \in OwningStates =>
           /\ channels[id].terminal.state \in OwningStates
           /\ c.terminal.state /= "Reaping"
           /\ c.terminal.shell = channels[id].terminal.shell
           /\ shells'[c.terminal.shell].run \in Ownable,
         WindowsOK(c, credit'[id]),
         \A j \in DOMAIN channels : j /= id => credit'[j] = credit[j]
  PROVE  /\ DOMAIN channels' = DOMAIN channels
         /\ channels' \in [DOMAIN channels' -> Channel]
         /\ WithinCredit' /\ WindowReplenished' /\ ShellsOwned'
<1>1. /\ DOMAIN channels' = DOMAIN channels
      /\ channels'[id] = c
      /\ \A j \in DOMAIN channels : j /= id =>
           channels'[j] = IF j < id THEN PassedChannel(j) ELSE channels[j]
  BY DEF PollAt
<1>2. \A j \in DOMAIN channels : channels[j] \in Channel BY DEF IInv, TypeOK
<1>3. \A j \in DOMAIN channels : channels'[j] \in Channel
  BY <1>1, <1>2, PassedChannelFacts
<1>4. channels' \in [DOMAIN channels' -> Channel] BY <1>1, <1>3 DEF PollAt
<1>5. \A j \in DOMAIN channels : WindowsOK(channels'[j], credit'[j])
  <2> SUFFICES ASSUME NEW j \in DOMAIN channels, j /= id
               PROVE  WindowsOK(channels'[j], credit'[j])
    BY <1>1
  <2>1. WindowsOK(channels[j], credit[j]) BY WindowsOfChannels DEF IInv
  <2>2. WindowsOK(PassedChannel(j), credit[j])
    <3>1. /\ PassedChannel(j).send_window = channels[j].send_window
          /\ PassedChannel(j).receive_window = channels[j].receive_window
          /\ PassedChannel(j).terminal.state \in OwningStates =>
               channels[j].terminal.state \in OwningStates
      BY PassedChannelFacts
    <3> QED BY <2>1, <3>1, WindowsKept
  <2> QED BY <1>1, <2>1, <2>2
<1>6. WithinCredit' /\ WindowReplenished'
  BY <1>1, <1>5 DEF WindowsOK, WithinCredit, WindowReplenished
<1>7. ShellsOwned'
  <2>1. SUFFICES ASSUME NEW j \in DOMAIN channels,
                        channels'[j].terminal.state \in OwningStates
                 PROVE  /\ channels[j].terminal.state \in OwningStates
                        /\ channels'[j].terminal.shell = channels[j].terminal.shell
                        /\ shells'[channels[j].terminal.shell].run \in Ownable
                        /\ channels'[j].terminal.state = "Reaping"
                             => shells'[channels[j].terminal.shell].run /= "alive"
    BY <1>1, OwnershipStep DEF IInv
  <2>2. CASE j = id BY <1>1, <2>1, <2>2
  <2>3. CASE j /= id
    <3> DEFINE p == channels[j].terminal.shell
    <3>1. channels'[j] = channels[j] /\ (j < id => ~PassedReaps(j))
      BY <1>1, <2>1, <2>3, PassedChannelFacts
    <3>2. /\ p \in Shells
          /\ channels[j].terminal.state = "Reaping" => shells[p].run /= "alive"
      BY <2>1, <3>1 DEF IInv, ShellsOwned
    <3>3. Below(id) \in SUBSET DOMAIN channels /\ (j \in Below(id) => j < id)
      BY DEF Below
    <3>4. /\ PassedShells(Below(id))[p].run \in Ownable
          /\ shells[p].run /= "alive" => PassedShells(Below(id))[p].run /= "alive"
      BY <2>1, <3>1, <3>3, PassedShellsFacts
    <3>5. channels[id].terminal.state \in OwningStates => p /= channels[id].terminal.shell
      BY <2>1, <2>3, <3>1 DEF IInv, ShellsOwned
    <3>6. shells'[p] = PassedShells(Below(id))[p] BY <3>2, <3>5
    <3> QED BY <2>1, <3>1, <3>2, <3>4, <3>6
  <2> QED BY <2>2, <2>3
<1> QED BY <1>1, <1>4, <1>6, <1>7

\* The channel at which a poll returns, and what the poll leaves of shells.
LEMMA PollBase ==
  ASSUME IInv, NEW id \in DOMAIN channels
  PROVE  /\ channels[id] \in Channel /\ id \in Ids
         /\ channels[id].terminal \in Terminals
         /\ channels[id].remote_id \in RemoteIds
         /\ channels[id].send_window \in 0..MaxWindow
         /\ channels[id].maximum_packet_size \in 0..MaxWindow
         /\ WindowsOK(channels[id], credit[id])
         /\ PassedShells(Below(id)) \in [Shells -> Shell]
         /\ channels[id].terminal.state \in OwningStates =>
              /\ channels[id].terminal.shell \in Shells
              /\ shells[channels[id].terminal.shell] \in Shell
              /\ PassedShells(Below(id))[channels[id].terminal.shell].run \in Ownable
<1>1. channels[id] \in Channel /\ id \in Ids BY DEF IInv, TypeOK
<1>2. /\ channels[id].terminal \in Terminals
      /\ channels[id].remote_id \in RemoteIds
      /\ channels[id].send_window \in 0..MaxWindow
      /\ channels[id].maximum_packet_size \in 0..MaxWindow
  BY <1>1 DEF Channel
<1>3. WindowsOK(channels[id], credit[id]) BY WindowsOfChannels DEF IInv
<1>4. Below(id) \in SUBSET DOMAIN channels /\ id \notin Below(id)
  <2>1. id \in Int BY <1>1, ChannelsAssumption DEF Ids
  <2> QED BY <2>1 DEF Below
<1>5. PassedShells(Below(id)) \in [Shells -> Shell] BY <1>4, PassedShellsFacts
<1>6. channels[id].terminal.state \in OwningStates =>
        /\ channels[id].terminal.shell \in Shells
        /\ shells[channels[id].terminal.shell] \in Shell
  BY DEF IInv, ShellsOwned, TypeOK
<1>7. channels[id].terminal.state \in OwningStates =>
        PassedShells(Below(id))[channels[id].terminal.shell].run \in Ownable
  BY <1>4, PassedShellsFacts
<1> QED BY <1>1, <1>2, <1>3, <1>5, <1>6, <1>7

\* Passing the channels below a Running one leaves its process alone.
LEMMA PassedOwnShell ==
  ASSUME IInv, NEW id \in DOMAIN channels, channels[id].terminal.state \in OwningStates
  PROVE  PassedShells(Below(id))[channels[id].terminal.shell]
           = shells[channels[id].terminal.shell]
<1> DEFINE p == channels[id].terminal.shell
<1>1. p \in Shells BY DEF IInv, ShellsOwned
<1>2. \A j \in Below(id) : channels[j].terminal.state = "Exiting" => channels[j].terminal.shell /= p
  <2>1. id \in Int BY ChannelsAssumption DEF IInv, TypeOK, Ids
  <2>2. \A j \in Below(id) : j \in DOMAIN channels /\ j /= id BY <2>1 DEF Below
  <2> QED BY <2>2 DEF IInv, ShellsOwned, OwningStates
<1> QED BY <1>1, <1>2 DEF PassedShells, PassedReaps, PassedKills

\* A read keeps to the send window and to what the PTY has buffered.
LEMMA ReadBounds ==
  ASSUME NEW r \in Nat, NEW m \in Nat, NEW w \in Nat, NEW out \in Nat,
         NEW n \in 1..Smaller(Smaller(r, Smaller(m, w)), out)
  PROVE  n \in Nat /\ n <= w /\ n \in 1..out
BY DEF Smaller

\* A read of n bytes takes n from the window and n from the credit.
LEMMA PollReadStep ==
  ASSUME IInv, NEW id \in DOMAIN channels, PollRead(id)
  PROVE  IInv'
<1> DEFINE c == channels[id]
           p == c.terminal.shell
           S == PassedShells(Below(id))
<1>1. TypeOK BY DEF IInv
<1>2. c.terminal.state = "Running" /\ pending = NoWrite /\ UNCHANGED <<next_id, pending, session>>
  BY DEF PollRead, PollUnchanged, Idle
<1>3. c.terminal.state \in OwningStates BY <1>2 DEF OwningStates
<1>4. /\ c \in Channel /\ id \in Ids /\ c.remote_id \in RemoteIds
      /\ c.send_window \in 0..MaxWindow /\ c.maximum_packet_size \in 0..MaxWindow
      /\ WindowsOK(c, credit[id]) /\ S \in [Shells -> Shell]
      /\ p \in Shells /\ shells[p] \in Shell /\ S[p].run \in Ownable
  BY <1>3, PollBase
<1>5. S[p] = shells[p] BY <1>3, PassedOwnShell
<1>6. PICK n \in 1..Smaller(limit(c), shells[p].out) :
        /\ PollAt(id, WithSendWindow(c, c.send_window - n))
        /\ shells' = [S EXCEPT ![p] = Drained(@, n)]
        /\ credit' = [credit EXCEPT ![id] = @ - n]
        /\ write' = Append(write, Msg("Data", c.remote_id, n))
  BY DEF PollRead, ShellOf
<1>7. n \in Nat /\ n <= c.send_window /\ n \in 1..shells[p].out
  <2>1. shells[p].out \in Nat BY <1>4, TerminalAssumption DEF Shell
  <2>2. c.send_window \in Nat /\ c.maximum_packet_size \in Nat /\ READ_BUF \in Nat
    BY <1>4, ChannelsAssumption
  <2>3. n \in 1..Smaller(Smaller(READ_BUF, Smaller(c.maximum_packet_size, c.send_window)), shells[p].out)
    BY <1>6 DEF limit
  <2> HIDE DEF c, p, S
  <2> QED BY <2>1, <2>2, <2>3, ReadBounds
<1> DEFINE d == WithSendWindow(c, c.send_window - n)
<1>8. c.send_window - n \in 0..MaxWindow BY <1>4, <1>7, ChannelsAssumption
<1>9. d \in Channel BY <1>4, <1>8, ChannelOpsType
<1>10. /\ d.send_window = c.send_window - n /\ d.receive_window = c.receive_window
       /\ d.terminal = c.terminal
  BY <1>4, ChannelOpsFields
<1> HIDE DEF d, S
<1>11. Drained(S[p], n) \in Shell BY <1>4, <1>5, <1>7, ShellOpsType
<1>12. Drained(S[p], n).run = S[p].run BY <1>4, <1>5, ShellOpsRun
<1>13. /\ shells' \in [Shells -> Shell] /\ shells'[p].run = S[p].run
       /\ \A q \in Shells : q /= p => shells'[q] = S[q]
  BY <1>4, <1>6, <1>11, <1>12
<1>14. /\ credit' \in [Ids -> Int] /\ credit'[id] = credit[id] - n /\ credit[id] \in Int
       /\ \A j \in DOMAIN channels : j /= id => credit'[j] = credit[j]
  BY <1>1, <1>4, <1>6, <1>7 DEF TypeOK
<1>15. WindowsOK(d, credit'[id])
  BY <1>4, <1>7, <1>10, <1>14 DEF WindowsOK
<1>16. PollAt(id, d) BY <1>6 DEF d
<1>17. /\ DOMAIN channels' = DOMAIN channels
       /\ channels' \in [DOMAIN channels' -> Channel]
       /\ WithinCredit' /\ WindowReplenished' /\ ShellsOwned'
  BY <1>2, <1>3, <1>4, <1>9, <1>10, <1>13, <1>14, <1>15, <1>16, PollAtStep DEF S
<1>18. write' \in Seq(ServerMessage)
  <2>1. Msg("Data", c.remote_id, n) \in ServerMessage BY <1>4, <1>7, MsgType
  <2> QED BY <1>1, <1>6, <2>1 DEF TypeOK
<1>19. TypeOK' BY <1>1, <1>2, <1>13, <1>14, <1>17, <1>18 DEF TypeOK
<1>20. WriteTargetRuns' BY <1>2 DEF WriteTargetRuns
<1> QED BY <1>17, <1>19, <1>20 DEF IInv

\* The end of output moves the terminal, with its process, to Exiting.
LEMMA PollEofStep ==
  ASSUME IInv, NEW id \in DOMAIN channels, PollEof(id)
  PROVE  IInv'
<1> DEFINE c == channels[id]
           p == c.terminal.shell
           t == WithShell("Exiting", p)
           d == WithTerminal(c, t)
<1>1. TypeOK BY DEF IInv
<1>2. /\ c.terminal.state = "Running" /\ pending = NoWrite
      /\ UNCHANGED <<next_id, pending, session, credit>>
      /\ shells' = PassedShells(Below(id)) /\ PollAt(id, d)
      /\ write' = Append(write, Msg("Eof", c.remote_id, 0))
  BY DEF PollEof, PollUnchanged, Idle
<1>3. c.terminal.state \in OwningStates BY <1>2 DEF OwningStates
<1>4. /\ c \in Channel /\ c.remote_id \in RemoteIds /\ WindowsOK(c, credit[id])
      /\ shells' \in [Shells -> Shell] /\ p \in Shells /\ shells'[p].run \in Ownable
  BY <1>2, <1>3, PollBase
<1>5. t \in Terminals /\ t.state = "Exiting" /\ t.shell = p
  BY <1>4, TerminalOps DEF OwningStates
<1>6. d \in Channel BY <1>4, <1>5, ChannelOpsType
<1>7. /\ d.send_window = c.send_window /\ d.receive_window = c.receive_window
      /\ d.terminal = t
  BY <1>4, ChannelOpsFields
<1> HIDE DEF d, t
<1>8. WindowsOK(d, credit'[id])
  BY <1>2, <1>3, <1>4, <1>7, WindowsKept
<1>9. /\ DOMAIN channels' = DOMAIN channels
      /\ channels' \in [DOMAIN channels' -> Channel]
      /\ WithinCredit' /\ WindowReplenished' /\ ShellsOwned'
  BY <1>2, <1>3, <1>4, <1>5, <1>6, <1>7, <1>8, PollAtStep
<1>10. write' \in Seq(ServerMessage)
  <2>1. Msg("Eof", c.remote_id, 0) \in ServerMessage BY <1>4, MsgType
  <2> QED BY <1>1, <1>2, <2>1 DEF TypeOK
<1>11. TypeOK' BY <1>1, <1>2, <1>4, <1>9, <1>10 DEF TypeOK
<1>12. WriteTargetRuns' BY <1>2 DEF WriteTargetRuns
<1> QED BY <1>9, <1>11, <1>12 DEF IInv

\* A read error kills the process and ends the session.
LEMMA PollReadErrorStep ==
  ASSUME IInv, NEW id \in DOMAIN channels, PollReadError(id)
  PROVE  IInv'
<1> DEFINE c == channels[id]
           p == c.terminal.shell
           S == PassedShells(Below(id))
<1>1. TypeOK BY DEF IInv
<1>2. /\ c.terminal.state = "Running" /\ PollAt(id, c)
      /\ UNCHANGED <<next_id, write, pending, credit>> /\ session' = "io_error"
      /\ shells' = [S EXCEPT ![p] = start_kill(@)]
  BY DEF PollReadError, Fail
<1>3. c.terminal.state \in OwningStates BY <1>2 DEF OwningStates
<1>4. /\ c \in Channel /\ WindowsOK(c, credit[id]) /\ S \in [Shells -> Shell]
      /\ p \in Shells /\ S[p].run \in Ownable
  BY <1>3, PollBase
<1> HIDE DEF S
<1>5. start_kill(S[p]) \in Shell BY <1>4, ShellOpsType
<1>6. start_kill(S[p]).run \in Ownable BY <1>4, ShellOpsRun DEF Ownable
<1>7. /\ shells' \in [Shells -> Shell] /\ shells'[p].run \in Ownable
      /\ \A q \in Shells : q /= p => shells'[q] = S[q]
  BY <1>2, <1>4, <1>5, <1>6
<1>8. /\ DOMAIN channels' = DOMAIN channels
      /\ channels' \in [DOMAIN channels' -> Channel]
      /\ WithinCredit' /\ WindowReplenished' /\ ShellsOwned'
  BY <1>2, <1>3, <1>4, <1>7, PollAtStep DEF S
<1>9. TypeOK' BY <1>1, <1>2, <1>7, <1>8 DEF TypeOK
<1>10. WriteTargetRuns' BY <1>2 DEF WriteTargetRuns
<1> QED BY <1>8, <1>9, <1>10 DEF IInv

\* A process that is reaped is let go of in the same step.
LEMMA PollExitStep ==
  ASSUME IInv, NEW id \in DOMAIN channels, PollExit(id)
  PROVE  IInv'
<1> DEFINE c == channels[id]
           p == c.terminal.shell
           S == PassedShells(Below(id))
           t == TState("Closing")
           d == WithTerminal(c, t)
           e == WithClose(d)
<1>1. TypeOK BY DEF IInv
<1>2. /\ c.terminal.state = "Exiting" /\ pending = NoWrite
      /\ UNCHANGED <<next_id, pending, session, credit>>
      /\ shells' = [S EXCEPT ![p] = Reaped(@)]
  BY DEF PollExit, PollUnchanged, Idle
<1>3. c.terminal.state \in OwningStates BY <1>2 DEF OwningStates
<1>4. /\ c \in Channel /\ c.remote_id \in RemoteIds /\ WindowsOK(c, credit[id])
      /\ S \in [Shells -> Shell] /\ p \in Shells
  BY <1>3, PollBase
<1>5. t \in Terminals /\ t.state = "Closing" BY TerminalOps
<1>6. d \in Channel BY <1>4, <1>5, ChannelOpsType
<1>7. /\ d.send_window = c.send_window /\ d.receive_window = c.receive_window
      /\ d.terminal = t
  BY <1>4, ChannelOpsFields
<1> HIDE DEF t, S
<1>8. e \in Channel BY <1>6, ChannelOpsType
<1>9. /\ e.send_window = c.send_window /\ e.receive_window = c.receive_window
      /\ e.terminal = t
  BY <1>6, <1>7, ChannelOpsFields
<1>10. \/ PollAt(id, d) /\ write' = Append(write, Msg("ExitStatus", c.remote_id, ShellOf(id).status))
          /\ ShellOf(id).status \in ExitCodes
       \/ PollAt(id, e) /\ write' = Append(write, Msg("Close", c.remote_id, 0))
  BY DEF PollExit, t
<1> HIDE DEF d, e
<1>11. WindowsOK(d, credit'[id]) /\ WindowsOK(e, credit'[id])
  BY <1>2, <1>4, <1>5, <1>7, <1>9, WindowsKept DEF OwningStates
<1>12. Reaped(S[p]) \in Shell BY <1>4, ShellOpsType
<1>13. shells' \in [Shells -> Shell] /\ \A q \in Shells : q /= p => shells'[q] = S[q]
  BY <1>2, <1>4, <1>12
<1>14. ASSUME NEW x \in {d, e}, PollAt(id, x)
       PROVE  /\ DOMAIN channels' = DOMAIN channels
              /\ channels' \in [DOMAIN channels' -> Channel]
              /\ WithinCredit' /\ WindowReplenished' /\ ShellsOwned'
  <2>1. x \in Channel /\ x.terminal.state \notin OwningStates /\ WindowsOK(x, credit'[id])
    BY <1>5, <1>6, <1>7, <1>8, <1>9, <1>11 DEF OwningStates
  <2> QED BY <1>2, <1>3, <1>13, <1>14, <2>1, PollAtStep DEF S
<1>15. write' \in Seq(ServerMessage)
  <2>1. Msg("Close", c.remote_id, 0) \in ServerMessage BY <1>4, MsgType
  <2>2. ASSUME NEW x \in ExitCodes PROVE Msg("ExitStatus", c.remote_id, x) \in ServerMessage
    BY <1>4, MsgType
  <2>3. \A x \in ServerMessage : Append(write, x) \in Seq(ServerMessage)
    BY <1>1 DEF TypeOK
  <2> QED BY <1>10, <2>1, <2>2, <2>3
<1>16. TypeOK' BY <1>1, <1>2, <1>10, <1>13, <1>14, <1>15 DEF TypeOK
<1>17. WriteTargetRuns' BY <1>2 DEF WriteTargetRuns
<1> QED BY <1>10, <1>14, <1>16, <1>17 DEF IInv

\* Sending the close changes no window and no owner.
LEMMA PollCloseStep ==
  ASSUME IInv, NEW id \in DOMAIN channels, PollClose(id)
  PROVE  IInv'
<1> DEFINE c == channels[id]
           d == WithClose(c)
<1>1. TypeOK BY DEF IInv
<1>2. /\ c.terminal.state = "Closing" /\ pending = NoWrite /\ PollAt(id, d)
      /\ UNCHANGED <<next_id, pending, session, credit>>
      /\ shells' = PassedShells(Below(id))
      /\ write' = Append(write, Msg("Close", c.remote_id, 0))
  BY DEF PollClose, PollUnchanged, Idle
<1>3. /\ c \in Channel /\ c.remote_id \in RemoteIds /\ WindowsOK(c, credit[id])
      /\ shells' \in [Shells -> Shell]
  BY <1>2, PollBase
<1>4. d \in Channel BY <1>3, ChannelOpsType
<1>5. /\ d.send_window = c.send_window /\ d.receive_window = c.receive_window
      /\ d.terminal = c.terminal
  BY <1>3, ChannelOpsFields
<1> HIDE DEF d
<1>6. WindowsOK(d, credit'[id]) BY <1>2, <1>3, <1>5, WindowsKept
<1>7. /\ DOMAIN channels' = DOMAIN channels
      /\ channels' \in [DOMAIN channels' -> Channel]
      /\ WithinCredit' /\ WindowReplenished' /\ ShellsOwned'
  BY <1>2, <1>3, <1>4, <1>5, <1>6, PollAtStep DEF OwningStates
<1>8. write' \in Seq(ServerMessage)
  <2>1. Msg("Close", c.remote_id, 0) \in ServerMessage BY <1>3, MsgType
  <2> QED BY <1>1, <1>2, <2>1 DEF TypeOK
<1>9. TypeOK' BY <1>1, <1>2, <1>3, <1>7, <1>8 DEF TypeOK
<1>10. WriteTargetRuns' BY <1>2 DEF WriteTargetRuns
<1> QED BY <1>7, <1>9, <1>10 DEF IInv

\* What passing channels does to windows and ownership of the channels kept,
\* D, when every channel that is dropped or passed gives up its process.
LEMMA PollDropStep ==
  ASSUME IInv, NEW D \in SUBSET DOMAIN channels, NEW js \in SUBSET DOMAIN channels,
         channels' = [j \in D |-> IF j \in js THEN PassedChannel(j) ELSE channels[j]],
         shells' \in [Shells -> Shell], UNCHANGED credit,
         \A q \in Shells :
           \/ shells'[q] = PassedShells(js)[q]
           \/ \E i \in DOMAIN channels \ D :
                channels[i].terminal.state \in OwningStates /\ channels[i].terminal.shell = q
  PROVE  /\ channels' \in [DOMAIN channels' -> Channel] /\ DOMAIN channels' = D
         /\ WithinCredit' /\ WindowReplenished' /\ ShellsOwned'
<1>1. /\ DOMAIN channels' = D
      /\ \A j \in D : channels'[j] = IF j \in js THEN PassedChannel(j) ELSE channels[j]
  OBVIOUS
<1>2. \A j \in D : channels[j] \in Channel BY DEF IInv, TypeOK
<1>3. \A j \in D : channels'[j] \in Channel BY <1>1, <1>2, PassedChannelFacts
<1>4. channels' \in [DOMAIN channels' -> Channel] BY <1>1, <1>3
<1>5. \A j \in D : WindowsOK(channels'[j], credit'[j])
  <2> SUFFICES ASSUME NEW j \in D PROVE WindowsOK(channels'[j], credit'[j])
    OBVIOUS
  <2>1. WindowsOK(channels[j], credit[j]) BY WindowsOfChannels DEF IInv
  <2>2. WindowsOK(PassedChannel(j), credit[j])
    <3>1. /\ PassedChannel(j).send_window = channels[j].send_window
          /\ PassedChannel(j).receive_window = channels[j].receive_window
          /\ PassedChannel(j).terminal.state \in OwningStates =>
               channels[j].terminal.state \in OwningStates
      BY PassedChannelFacts
    <3> QED BY <2>1, <3>1, WindowsKept
  <2> QED BY <1>1, <2>1, <2>2
<1>6. WithinCredit' /\ WindowReplenished'
  BY <1>1, <1>5 DEF WindowsOK, WithinCredit, WindowReplenished
<1>7. ShellsOwned'
  <2>1. SUFFICES ASSUME NEW j \in D, channels'[j].terminal.state \in OwningStates
                 PROVE  /\ channels[j].terminal.state \in OwningStates
                        /\ channels'[j].terminal.shell = channels[j].terminal.shell
                        /\ shells'[channels[j].terminal.shell].run \in Ownable
                        /\ channels'[j].terminal.state = "Reaping"
                             => shells'[channels[j].terminal.shell].run /= "alive"
    BY <1>1, OwnershipStep DEF IInv
  <2> DEFINE p == channels[j].terminal.shell
  <2>2. channels'[j] = channels[j] /\ (j \in js => ~PassedReaps(j))
    BY <1>1, <2>1, PassedChannelFacts
  <2>3. /\ p \in Shells
        /\ channels[j].terminal.state = "Reaping" => shells[p].run /= "alive"
    BY <2>1, <2>2 DEF IInv, ShellsOwned
  <2>4. /\ PassedShells(js)[p].run \in Ownable
        /\ shells[p].run /= "alive" => PassedShells(js)[p].run /= "alive"
    BY <2>1, <2>2, PassedShellsFacts
  <2>5. shells'[p] = PassedShells(js)[p]
    BY <2>1, <2>2, <2>3 DEF IInv, ShellsOwned
  <2> QED BY <2>1, <2>2, <2>3, <2>4, <2>5
<1> QED BY <1>1, <1>4, <1>6, <1>7

\* The channel goes with the process it had killed, reaped or given up on.
LEMMA PollReapStep ==
  ASSUME IInv, NEW id \in DOMAIN channels, PollReap(id)
  PROVE  IInv'
<1> DEFINE c == channels[id]
           p == c.terminal.shell
           S == PassedShells(Below(id))
           D == DOMAIN channels \ {id}
<1>1. TypeOK BY DEF IInv
<1>2. /\ c.terminal.state = "Reaping" /\ pending = NoWrite
      /\ UNCHANGED <<next_id, pending, session, write, credit>>
      /\ channels' = [j \in D |-> IF j < id THEN PassedChannel(j) ELSE channels[j]]
      /\ shells' = S \/ shells' = [S EXCEPT ![p] = Reaped(@)]
  BY DEF PollReap, PollUnchanged, Idle
<1>3. c.terminal.state \in OwningStates BY <1>2 DEF OwningStates
<1>4. p \in Shells /\ S \in [Shells -> Shell] BY <1>3, PollBase
<1>5. channels' = [j \in D |-> IF j \in Below(id) THEN PassedChannel(j) ELSE channels[j]]
  BY <1>2 DEF Below
<1> HIDE DEF S
<1>6. Reaped(S[p]) \in Shell BY <1>4, ShellOpsType
<1>7. shells' \in [Shells -> Shell] /\ \A q \in Shells : q /= p => shells'[q] = S[q]
  BY <1>2, <1>4, <1>6
<1>8. /\ D \in SUBSET DOMAIN channels /\ Below(id) \in SUBSET DOMAIN channels
      /\ id \in DOMAIN channels \ D
  BY DEF Below
<1>9. \A q \in Shells :
        \/ shells'[q] = PassedShells(Below(id))[q]
        \/ \E i \in DOMAIN channels \ D :
             channels[i].terminal.state \in OwningStates /\ channels[i].terminal.shell = q
  BY <1>3, <1>7, <1>8 DEF S
<1> HIDE DEF D
<1>10. /\ channels' \in [DOMAIN channels' -> Channel] /\ DOMAIN channels' = D
       /\ WithinCredit' /\ WindowReplenished' /\ ShellsOwned'
  <2>1. UNCHANGED credit BY <1>2
  <2> QED BY <1>5, <1>7, <1>8, <1>9, <2>1, PollDropStep
<1>11. TypeOK' BY <1>1, <1>2, <1>7, <1>8, <1>10 DEF TypeOK
<1>12. WriteTargetRuns' BY <1>2 DEF WriteTargetRuns
<1> QED BY <1>10, <1>11, <1>12 DEF IInv

\* A poll that finds nothing to return for passes every channel.
LEMMA PollPendingStep ==
  ASSUME IInv, PollPending
  PROVE  IInv'
<1> DEFINE D == DOMAIN channels
<1>1. TypeOK BY DEF IInv
<1>2. /\ pending = NoWrite /\ UNCHANGED <<next_id, pending, session, write, credit>>
      /\ channels' = [j \in D |-> PassedChannel(j)]
      /\ shells' = PassedShells(D)
  BY DEF PollPending, PollUnchanged, Idle
<1>3. channels' = [j \in D |-> IF j \in D THEN PassedChannel(j) ELSE channels[j]]
  BY <1>2
<1>4. shells' \in [Shells -> Shell] BY <1>2, PassedShellsFacts
<1>5. /\ channels' \in [DOMAIN channels' -> Channel] /\ DOMAIN channels' = D
      /\ WithinCredit' /\ WindowReplenished' /\ ShellsOwned'
  BY <1>2, <1>3, <1>4, PollDropStep
<1>6. TypeOK' BY <1>1, <1>2, <1>4, <1>5 DEF TypeOK
<1>7. WriteTargetRuns' BY <1>2 DEF WriteTargetRuns
<1> QED BY <1>5, <1>6, <1>7 DEF IInv

-----------------------------------------------------------------------------
(* The world around the session, and the theorems. *)

\* Time that passes marks a terminal late and keeps its state and process.
LEMMA DeadlineStep ==
  ASSUME IInv, DeadlinePasses
  PROVE  IInv'
<1>1. TypeOK BY DEF IInv
<1>2. PICK id \in DOMAIN channels :
        channels' = Update(id, WithTerminal(channels[id], Late(channels[id].terminal)))
  BY DEF DeadlinePasses
<1> DEFINE c == channels[id]
           t == Late(c.terminal)
           d == WithTerminal(c, t)
<1>3. UNCHANGED <<shells, next_id, write, pending, session, credit>> BY DEF DeadlinePasses
<1>4. c \in Channel /\ c.terminal \in Terminals /\ WindowsOK(c, credit[id]) BY PollBase
<1>5. t \in Terminals /\ t.state = c.terminal.state /\ t.shell = c.terminal.shell
  BY <1>4, TerminalOps
<1>6. d \in Channel BY <1>4, <1>5, ChannelOpsType
<1>7. /\ d.send_window = c.send_window /\ d.receive_window = c.receive_window
      /\ d.terminal = t
  BY <1>4, ChannelOpsFields
<1> HIDE DEF d, t
<1>8. /\ DOMAIN channels' = DOMAIN channels
      /\ channels' \in [DOMAIN channels' -> Channel]
      /\ channels'[id] = d
      /\ \A j \in DOMAIN channels : j /= id => channels'[j] = channels[j]
  <2>1. channels' = Update(id, d) BY <1>2 DEF d, t
  <2> QED BY <1>1, <1>6, <2>1, UpdateMap
<1>9. TypeOK' BY <1>1, <1>3, <1>8 DEF TypeOK
<1>10. WindowsOK(d, credit[id]) BY <1>4, <1>5, <1>7, WindowsKept
<1>11. \A j \in DOMAIN channels' : WindowsOK(channels'[j], credit'[j])
  BY <1>3, <1>8, <1>10, WindowsOfChannels DEF IInv
<1>12. WithinCredit' /\ WindowReplenished'
  BY <1>11 DEF WindowsOK, WithinCredit, WindowReplenished
<1>13. \A j \in DOMAIN channels :
         /\ channels'[j].terminal.state = channels[j].terminal.state
         /\ channels'[j].terminal.shell = channels[j].terminal.shell
  BY <1>5, <1>7, <1>8
<1>14. ShellsOwned' BY <1>3, <1>8, <1>13 DEF IInv, ShellsOwned
<1>15. WriteTargetRuns' BY <1>3, <1>8, <1>13 DEF IInv, WriteTargetRuns
<1> QED BY <1>9, <1>12, <1>14, <1>15 DEF IInv

\* A process that exits turns from alive or dying to zombie, and stays owned.
LEMMA ShellStepsStep ==
  ASSUME IInv, ShellSteps
  PROVE  IInv'
<1>1. PICK p \in Shells : ShellStep(p) BY DEF ShellSteps
<1>2. UNCHANGED <<next_id, channels, write, pending, session, credit>> BY DEF ShellSteps
<1>3. /\ shells' \in [Shells -> Shell]
      /\ \A q \in Shells :
           \/ shells'[q].run = shells[q].run
           \/ shells[q].run \in {"alive", "dying"} /\ shells'[q].run = "zombie"
  BY <1>1, ShellStepEffect DEF IInv, TypeOK
<1>4. TypeOK' BY <1>2, <1>3 DEF IInv, TypeOK
<1>5. WithinCredit' /\ WindowReplenished'
  BY <1>2 DEF IInv, WithinCredit, WindowReplenished
<1>6. ShellsOwned' BY <1>2, <1>3 DEF IInv, ShellsOwned
<1>7. WriteTargetRuns' BY <1>2 DEF IInv, WriteTargetRuns
<1> QED BY <1>4, <1>5, <1>6, <1>7 DEF IInv

\* The peer takes the first message off the stream.
LEMMA PeerReadsStep ==
  ASSUME IInv, PeerReads
  PROVE  IInv'
<1>1. Tail(write) \in Seq(ServerMessage) BY DEF IInv, TypeOK, PeerReads
<1>2. TypeOK' BY <1>1 DEF IInv, TypeOK, PeerReads
<1> QED BY <1>2, QuietStep DEF IInv, PeerReads

\* Session::run returns: nothing moves any more.
LEMMA SessionEndsStep ==
  ASSUME IInv, SessionEnds
  PROVE  IInv'
<1>1. TypeOK' BY DEF IInv, TypeOK, SessionEnds
<1>2. WriteTargetRuns' BY DEF SessionEnds, WriteTargetRuns
<1>3. WithinCredit' /\ WindowReplenished' /\ ShellsOwned'
  BY DEF IInv, SessionEnds, WithinCredit, WindowReplenished, ShellsOwned
<1> QED BY <1>1, <1>2, <1>3 DEF IInv

\* The invariant holds without channels.
LEMMA InitIInv == Init => IInv
<1> SUFFICES ASSUME Init PROVE IInv OBVIOUS
<1>1. DOMAIN channels = {} BY DEF Init
<1>2. shells \in [Shells -> Shell]
  <2>1. Unspawned \in Shell BY TerminalAssumption DEF Unspawned, Shell
  <2> QED BY <2>1 DEF Init, InitShells
<1>3. TypeOK
  BY <1>1, <1>2, TerminalAssumption, ChannelsAssumption DEF Init, TypeOK, Ids, NoWrite
<1> QED BY <1>1, <1>3
        DEF Init, IInv, WithinCredit, WindowReplenished, ShellsOwned, WriteTargetRuns

\* The invariant is inductive: one case per action.
LEMMA NextIInv == IInv /\ [Next]_vars => IInv'
<1> SUFFICES ASSUME IInv, [Next]_vars PROVE IInv' OBVIOUS
<1>1. CASE UNCHANGED vars
  <2>1. TypeOK' BY <1>1 DEF IInv, TypeOK, vars
  <2> QED BY <1>1, <2>1, QuietStep DEF IInv, vars
<1>2. CASE \E m \in ChannelOpen : open(m) BY <1>2, OpenStep
<1>3. CASE \E m \in ChannelRequest : \E b \in Banners(m) : request(m, b)
  BY <1>3, RequestStep
<1>4. CASE \E m \in ChannelWindowAdjust : adjust_window(m) BY <1>4, AdjustWindowStep
<1>5. CASE \E m \in ChannelData : data(m) BY <1>5, DataStep
<1>6. CASE \E m \in ChannelEof : eof(m) BY <1>6, EofStep
<1>7. CASE \E m \in ChannelClose : close(m) BY <1>7, CloseStep
<1>8. CASE WritePty BY <1>8, WritePtyStep
<1>9. CASE Poll
  BY <1>9, PollPendingStep, PollReadStep, PollEofStep, PollReadErrorStep, PollExitStep,
     PollCloseStep, PollReapStep DEF Poll, PollReady
<1>10. CASE DeadlinePasses BY <1>10, DeadlineStep
<1>11. CASE ShellSteps BY <1>11, ShellStepsStep
<1>12. CASE PeerReads BY <1>12, PeerReadsStep
<1>13. CASE SessionEnds BY <1>13, SessionEndsStep
<1> QED BY <1>1, <1>2, <1>3, <1>4, <1>5, <1>6, <1>7, <1>8, <1>9, <1>10, <1>11, <1>12, <1>13
        DEF Next

\* The inductive invariant holds of every behaviour of the channels.
THEOREM Inductive == Spec => []IInv
BY InitIInv, NextIInv, PTL DEF Spec

\* Every variable keeps its type, whatever the peer sends.
THEOREM TypeCorrect == Spec => []TypeOK
<1>1. IInv => TypeOK BY DEF IInv
<1> QED BY <1>1, Inductive, PTL

\* The server never sends more on a channel than the peer has granted.
THEOREM SendsWithinCredit == Spec => []WithinCredit
<1>1. IInv => WithinCredit BY DEF IInv
<1> QED BY <1>1, Inductive, PTL

\* Receive windows are shut or at least half open, and open while a shell runs.
THEOREM WindowsReplenished == Spec => []WindowReplenished
<1>1. IInv => WindowReplenished BY DEF IInv
<1> QED BY <1>1, Inductive, PTL

\* Terminals own distinct processes that were spawned and not yet reaped.
THEOREM ShellsAreOwned == Spec => []ShellsOwned
<1>1. IInv => ShellsOwned BY DEF IInv
<1> QED BY <1>1, Inductive, PTL

\* The process that an awaited PTY write goes to belongs to a Running channel.
THEOREM WriteTargetIsRunning == Spec => []WriteTargetRuns
<1>1. IInv => WriteTargetRuns BY DEF IInv
<1> QED BY <1>1, Inductive, PTL

-----------------------------------------------------------------------------
(* Channels keep their identity. *)

IdentityKept ==
  \A id \in DOMAIN channels \cap DOMAIN channels' :
    /\ channels'[id].remote_id = channels[id].remote_id
    /\ channels[id].close_sent => channels'[id].close_sent

\* Replacing one channel by one with the same peer and close.
LEMMA UpdateIdentity ==
  ASSUME TypeOK, NEW id \in DOMAIN channels, NEW c, channels' = Update(id, c),
         c.remote_id = channels[id].remote_id,
         channels[id].close_sent => c.close_sent
  PROVE  IdentityKept
<1>1. /\ DOMAIN channels' = DOMAIN channels /\ channels'[id] = c
      /\ \A j \in DOMAIN channels : j /= id => channels'[j] = channels[j]
  BY DEF TypeOK, Update
<1> QED BY <1>1 DEF IdentityKept

\* No arm of request changes the peer of a channel or takes back a close.
LEMMA RequestIdentity ==
  ASSUME IInv, NEW m \in ChannelRequest, NEW b \in Banners(m), request(m, b)
  PROVE  IdentityKept
<1> DEFINE c == channels[m.to]
<1>1. CASE UNCHANGED channels BY <1>1 DEF IdentityKept
<1>2. ASSUME Known(m.to), NEW d, channels' = Update(m.to, d),
             \/ \E t \in Terminals : d = WithTerminal(c, t)
             \/ \E t \in Terminals : \E w : d = WithSendWindow(WithTerminal(c, t), w)
             \/ \E t \in Terminals : \E w : d = WithReceiveWindow(WithTerminal(c, t), w)
             \/ d = WithEnv(c)
      PROVE  IdentityKept
  <2>1. TypeOK /\ m.to \in DOMAIN channels /\ c \in Channel
    BY <1>2, KnownType DEF IInv
  <2>2. ASSUME NEW t \in Terminals
        PROVE  /\ WithTerminal(c, t) \in Channel
               /\ WithTerminal(c, t).remote_id = c.remote_id
               /\ WithTerminal(c, t).close_sent = c.close_sent
    <3>1. WithTerminal(c, t) \in Channel BY <2>1, ChannelOpsType
    <3> QED BY <2>1, <3>1, ChannelOpsFields
  <2>3. d.remote_id = c.remote_id /\ d.close_sent = c.close_sent
    <3>1. CASE d = WithEnv(c) BY <2>1, <3>1, ChannelOpsFields
    <3>2. CASE \E t \in Terminals : d = WithTerminal(c, t) BY <2>2, <3>2
    <3>3. CASE \E t \in Terminals : \E w : d = WithSendWindow(WithTerminal(c, t), w)
      BY <2>2, <3>3, ChannelOpsFields
    <3>4. CASE \E t \in Terminals : \E w : d = WithReceiveWindow(WithTerminal(c, t), w)
      BY <2>2, <3>4, ChannelOpsFields
    <3> QED BY <1>2, <3>1, <3>2, <3>3, <3>4
  <2> QED BY <1>2, <2>1, <2>3, UpdateIdentity
<1>3. CASE Known(m.to) /\ PtyReq(m, b)
  BY <1>2, <1>3, TerminalOps DEF PtyReq
<1>4. CASE Known(m.to) /\ Env(m) BY <1>2, <1>4 DEF Env
<1>5. CASE Known(m.to) /\ ShellError(m) BY <1>2, <1>5, TerminalOps DEF ShellError
<1>6. CASE Known(m.to) /\ StartShell(m)
  <2>1. PICK p \in Shells : channels' = Update(m.to,
             WithReceiveWindow(WithTerminal(c, WithShell("Running", p)), INITIAL_WINDOW_SIZE))
    BY <1>6 DEF StartShell
  <2>2. WithShell("Running", p) \in Terminals BY TerminalOps DEF OwningStates
  <2> QED BY <1>2, <1>6, <2>1, <2>2
<1> QED BY <1>1, <1>3, <1>4, <1>5, <1>6 DEF request, UnknownChannel, WindowChange, Refused

\* Nor does a poll, for the channel it returns at and for those it passes.
LEMMA PollIdentity ==
  ASSUME IInv, Poll
  PROVE  IdentityKept
<1>1. ASSUME NEW id \in DOMAIN channels, NEW c, PollAt(id, c),
             c.remote_id = channels[id].remote_id,
             channels[id].close_sent => c.close_sent
      PROVE  IdentityKept
  BY <1>1, PassedChannelFacts DEF PollAt, IdentityKept
<1>2. ASSUME NEW id \in DOMAIN channels, PollReady(id)
      PROVE  IdentityKept
  <2> DEFINE c == channels[id]
             d == WithTerminal(c, TState("Closing"))
  <2>1. c \in Channel BY PollBase
  <2>2. CASE PollRead(id) BY <1>1, <2>1, <2>2, ChannelOpsFields DEF PollRead
  <2>3. CASE PollEof(id) BY <1>1, <2>1, <2>3, ChannelOpsFields DEF PollEof
  <2>4. CASE PollReadError(id) BY <1>1, <2>4 DEF PollReadError
  <2>5. CASE PollExit(id)
    <3>1. d \in Channel BY <2>1, TerminalOps, ChannelOpsType
    <3>2. d.remote_id = c.remote_id /\ d.close_sent = c.close_sent
      BY <2>1, ChannelOpsFields
    <3>3. WithClose(d).remote_id = c.remote_id /\ WithClose(d).close_sent
      BY <3>1, <3>2, ChannelOpsFields
    <3>4. PollAt(id, d) \/ PollAt(id, WithClose(d)) BY <2>5 DEF PollExit
    <3> HIDE DEF d
    <3> QED BY <1>1, <3>2, <3>3, <3>4
  <2>6. CASE PollClose(id) BY <1>1, <2>1, <2>6, ChannelOpsFields DEF PollClose
  <2>7. CASE PollReap(id) BY <2>7, PassedChannelFacts DEF PollReap, IdentityKept
  <2> QED BY <1>2, <2>2, <2>3, <2>4, <2>5, <2>6, <2>7 DEF PollReady
<1>3. CASE PollPending BY <1>3, PassedChannelFacts DEF PollPending, IdentityKept
<1> QED BY <1>2, <1>3 DEF Poll

\* Nor does any step.
LEMMA NextIdentity == IInv /\ [Next]_vars => [IdentityKept]_vars
<1> SUFFICES ASSUME IInv, Next PROVE IdentityKept
  OBVIOUS
<1> USE DEF IdentityKept
<1>1. TypeOK BY DEF IInv
<1>2. CASE UNCHANGED channels BY <1>2
<1>3. ASSUME NEW m \in ChannelOpen, open(m) PROVE IdentityKept
  BY <1>3, <1>1 DEF open, Insert, Occupied, Known, TypeOK
<1>4. CASE \E m \in ChannelRequest : \E b \in Banners(m) : request(m, b)
  BY <1>4, RequestIdentity
<1>5. ASSUME NEW m \in ChannelWindowAdjust, adjust_window(m) PROVE IdentityKept
  <2>1. CASE Known(m.to) /\ channels' = Update(m.to, GrantSendWindow(channels[m.to], m.n))
    <3>1. m.to \in DOMAIN channels /\ channels[m.to] \in Channel BY <1>1, <2>1, KnownType
    <3> QED BY <1>1, <2>1, <3>1, ChannelOpsFields, UpdateIdentity DEF GrantSendWindow
  <2> QED BY <1>2, <1>5, <2>1 DEF adjust_window, UnknownChannel
<1>6. ASSUME NEW m \in ChannelData, data(m) PROVE IdentityKept
  <2>1. ASSUME Known(m.to), NEW w, channels' = Update(m.to, WithReceiveWindow(channels[m.to], w))
        PROVE  IdentityKept
    <3>1. m.to \in DOMAIN channels /\ channels[m.to] \in Channel BY <1>1, <2>1, KnownType
    <3> QED BY <1>1, <2>1, <3>1, ChannelOpsFields, UpdateIdentity
  <2> QED BY <1>2, <1>6, <2>1 DEF data, UnknownChannel
<1>7. ASSUME NEW m \in ChannelClose, close(m) PROVE IdentityKept
  <2> DEFINE c == channels[m.to]
  <2>1. CASE Known(m.to) /\ channels' = Update(m.to, WithClose(c))
    <3>1. m.to \in DOMAIN channels /\ c \in Channel BY <1>1, <2>1, KnownType
    <3> QED BY <1>1, <2>1, <3>1, ChannelOpsFields, UpdateIdentity
  <2>2. CASE /\ Known(m.to) /\ c.terminal.state \in {"Running", "Exiting"}
             /\ channels' = Update(m.to,
                  WithClose(WithTerminal(c, WithShell("Reaping", c.terminal.shell))))
    <3> DEFINE t == WithShell("Reaping", c.terminal.shell)
               d == WithTerminal(c, t)
    <3>1. m.to \in DOMAIN channels /\ c \in Channel BY <1>1, <2>2, KnownType
    <3>2. c.terminal.shell \in Shells
      BY <2>2, <3>1 DEF IInv, ShellsOwned, OwningStates
    <3>3. t \in Terminals BY <3>2, TerminalOps DEF OwningStates
    <3>4. d \in Channel BY <3>1, <3>3, ChannelOpsType
    <3>5. d.remote_id = c.remote_id BY <3>1, ChannelOpsFields
    <3> HIDE DEF d
    <3>6. WithClose(d).remote_id = c.remote_id /\ WithClose(d).close_sent
      BY <3>4, <3>5, ChannelOpsFields
    <3>7. channels' = Update(m.to, WithClose(d)) BY <2>2 DEF d
    <3> QED BY <1>1, <3>1, <3>6, <3>7, UpdateIdentity
  <2>3. CASE channels' = Remove(m.to) BY <2>3 DEF Remove
  <2> QED BY <1>2, <1>7, <2>1, <2>2, <2>3 DEF close
<1>8. CASE Poll BY <1>8, PollIdentity
<1>9. CASE DeadlinePasses
  <2>1. PICK id \in DOMAIN channels :
          channels' = Update(id, WithTerminal(channels[id], Late(channels[id].terminal)))
    BY <1>9 DEF DeadlinePasses
  <2>2. channels[id] \in Channel BY PollBase
  <2> QED BY <1>1, <2>1, <2>2, ChannelOpsFields, UpdateIdentity
<1> QED BY <1>2, <1>3, <1>4, <1>5, <1>6, <1>7, <1>8, <1>9
        DEF Next, eof, UnknownChannel, vars, WritePty, Fail, ShellSteps, PeerReads,
            SessionEnds

\* Ids wrap around, yet no channel ever changes its peer or takes back a close.
THEOREM IdentityIsKept == Spec => ChannelsKeepIdentity
<1>1. IInv /\ [Next]_vars => [IdentityKept]_vars BY NextIdentity
<1> QED BY <1>1, Inductive, PTL DEF Spec, ChannelsKeepIdentity, IdentityKept
=============================================================================
