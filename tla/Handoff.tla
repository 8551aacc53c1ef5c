------------------------------ MODULE Handoff -------------------------------
(***************************************************************************)
(* oxish/src/unix/mod.rs: spawn starts a session process per authenticated *)
(* connection and hands it the connection over a socket pair; resume, in   *)
(* that process, takes it.  Several handoffs run at once in the tasks of   *)
(* the server, which share the worker threads of the runtime: spawn never  *)
(* awaits, so it keeps its worker from its first line to its return, in    *)
(* system calls that block.                                                *)
(*                                                                         *)
(*   up        the server process is alive                                 *)
(*   at        where accept is with a connection: before spawn, in one of  *)
(*             its three blocking calls, or after it                       *)
(*   size      length of the encoded SessionState                          *)
(*   sent      bytes of the message that are in the socket                 *)
(*   child     where the session process is; "died" before it acknowledged *)
(*   got       bytes the session process took from the socket              *)
(*   length, received   the variables of resume                            *)
(*   ack       the acknowledgement is in the socket, or was read           *)
(*                                                                         *)
(* The message is its length, PREFIX bytes of length before it; what the   *)
(* state says is in Transport.  Who holds the descriptors of the sockets   *)
(* and of the connection follows from where the two processes are.         *)
(***************************************************************************)
EXTENDS Integers, FiniteSets

CONSTANTS
  Conns,     \* connections that reach the handoff
  Workers,   \* worker threads of the runtime
  Fragile,   \* bound: connections whose session process may die early
  Sizes,     \* bound: lengths of an encoded state
  PREFIX,    \* 4, the bytes of the length
  CHUNK,     \* 16384, what one recvmsg takes
  BUFFER     \* what the socket holds

VARIABLES up, at, size, sent, child, got, length, received, ack

serverSide == <<at, size, sent>>
childSide == <<child, got, length, received, ack>>
handoffVars == <<up, serverSide, childSide>>

ASSUME HandoffAssumption ==
  /\ Workers \in Nat \ {0}
  /\ IsFiniteSet(Conns)
  /\ Fragile \subseteq Conns
  /\ Sizes \subseteq Nat
  /\ PREFIX \in Nat \ {0}
  /\ CHUNK \in Nat /\ CHUNK >= PREFIX
  /\ BUFFER \in Nat /\ BUFFER >= PREFIX

NoLength == -1

\* In spawn, blocked or about to block.
Blocking == {"sendmsg", "send", "recvmsg"}
Alive == {"reading", "complete", "serving"}

InitHandoff ==
  /\ up = TRUE
  /\ at = [c \in Conns |-> "ready"]
  /\ size \in [Conns -> Sizes]
  /\ sent = [c \in Conns |-> 0]
  /\ child = [c \in Conns |-> "none"]
  /\ got = [c \in Conns |-> 0]
  /\ length = [c \in Conns |-> NoLength]
  /\ received = [c \in Conns |-> 0]
  /\ ack = [c \in Conns |-> FALSE]

-----------------------------------------------------------------------------
(* Descriptors. *)

message(c) == PREFIX + size[c]

\* parent, until spawn returns.
ServerEndOpen(c) == up /\ at[c] \in Blocking

\* The session process has child_sock as its standard input.  Command::stdin
\* took the server's own copy, and command lives until spawn returns.
ChildEndOpen(c) == child[c] \in Alive \/ ServerEndOpen(c)

ServerHolds_UntilSent(c) == up /\ at[c] \in {"ready", "sendmsg", "send"}
\* tcp is dropped when spawn returns.
ServerHolds(c) == up /\ at[c] \in Blocking \union {"ready"}

\* SCM_RIGHTS: a copy travels with the first byte, as long as somebody might
\* receive it.
InFlight(c) == sent[c] > 0 /\ got[c] = 0 /\ ChildEndOpen(c)

ChildHolds(c) == child[c] \in Alive /\ got[c] > 0

-----------------------------------------------------------------------------
(* The server: spawn, and the wait for the child in accept. *)

Busy == {c \in Conns : at[c] \in Blocking}

FreeWorker == up /\ Cardinality(Busy) < Workers

Goto(c, where) == at' = [at EXCEPT ![c] = where]

\* No socket pair, too many groups; or setgroups, setgid, setuid, chdir, setsid
\* or exec fails in the child, which command.spawn() reports.
spawn_Fails(c) ==
  /\ FreeWorker /\ at[c] = "ready"
  /\ Goto(c, "failed")
  /\ UNCHANGED <<up, size, sent, childSide>>

spawn(c) ==
  /\ FreeWorker /\ at[c] = "ready"
  /\ Goto(c, "sendmsg")
  /\ child' = [child EXCEPT ![c] = "reading"]
  /\ UNCHANGED <<up, size, sent, got, length, received, ack>>

\* What one call may put into the socket: it blocks while there is no room,
\* and the first call finds the socket empty.
Sendable(c) ==
  {n \in (IF sent[c] = 0 THEN PREFIX ELSE 1)..message(c) :
     sent[c] + n <= message(c) /\ sent[c] + n - got[c] <= BUFFER}

Transmit_Once(c) ==
  /\ UNCHANGED <<up, size, childSide>>
  /\ \E n \in Sendable(c) :
       /\ sent' = [sent EXCEPT ![c] = @ + n]
       /\ Goto(c, "recvmsg")
\* sendmsg, or one round of the loop of send: EPIPE if nobody can read any more,
\* which cannot be while the server holds the child's end itself.
Transmit(c) ==
  /\ UNCHANGED <<up, size, childSide>>
  /\ \E n \in Sendable(c) :
       IF ~ChildEndOpen(c)
         THEN Goto(c, "failed") /\ UNCHANGED sent
         ELSE /\ sent' = [sent EXCEPT ![c] = @ + n]
              /\ Goto(c, IF sent[c] + n < message(c) THEN "send" ELSE "recvmsg")

sendmsg(c) == up /\ at[c] = "sendmsg" /\ Transmit(c)

send(c) == up /\ at[c] = "send" /\ Transmit(c)

\* Either call fails, for want of memory or because too many descriptors are in
\* flight.  spawn returns the error; what was sent stays in the socket.
send_Fails(c) ==
  /\ up /\ at[c] \in {"sendmsg", "send"}
  /\ Goto(c, "failed")
  /\ UNCHANGED <<up, size, sent, childSide>>

recvmsg_NoWait(c) ==
  /\ up /\ at[c] = "recvmsg"
  /\ Goto(c, "wait")
  /\ UNCHANGED <<up, size, sent, childSide>>
\* Blocks until there is a byte, or end of file: no bytes, and no copy of the
\* other end left.  (It has no other error: the socket is connected, has no
\* time limit, and the runtime's signal handlers restart the call.)
recvmsg(c) ==
  /\ up /\ at[c] = "recvmsg"
  /\ ack[c] \/ ~ChildEndOpen(c)
  /\ Goto(c, IF ack[c] THEN "wait" ELSE "failed")
  /\ UNCHANGED <<up, size, sent, childSide>>

\* accept awaits child.wait(), which needs a worker to be noticed.
wait(c) ==
  /\ FreeWorker /\ at[c] = "wait"
  /\ child[c] = "over"
  /\ Goto(c, "ended")
  /\ UNCHANGED <<up, size, sent, childSide>>

\* The server process ends at any point: its descriptors are closed.
ServerDies ==
  /\ up /\ up' = FALSE
  /\ UNCHANGED <<serverSide, childSide>>

-----------------------------------------------------------------------------
(* The session process: resume. *)

\* What one recvmsg may return.  A first call returns no less than the length:
\* the first sendmsg found room for it.
Receivable(c) ==
  {n \in (IF got[c] = 0 THEN PREFIX ELSE 1)..CHUNK : got[c] + n <= sent[c]}

Compared(have, len) ==
  IF have > len THEN "misread" ELSE IF have = len THEN "complete" ELSE "reading"

resume_CountsPrefix(c) ==
  /\ child[c] = "reading"
  /\ \E n \in Receivable(c) :
       LET len == size[c]
           have == received[c] + n
       IN /\ got' = [got EXCEPT ![c] = @ + n]
          /\ length' = [length EXCEPT ![c] = len]
          /\ received' = [received EXCEPT ![c] = have]
          /\ child' = [child EXCEPT ![c] = Compared(have, len)]
  /\ UNCHANGED <<up, serverSide, ack>>
\* One round of the loop.  The first chunk begins with the length.
resume(c) ==
  /\ child[c] = "reading"
  /\ \E n \in Receivable(c) :
       LET first == length[c] = NoLength
           len == IF first THEN size[c] ELSE length[c]
           have == received[c] + (IF first THEN n - PREFIX ELSE n)
       IN /\ got' = [got EXCEPT ![c] = @ + n]
          /\ length' = [length EXCEPT ![c] = len]
          /\ received' = [received EXCEPT ![c] = have]
          /\ child' = [child EXCEPT ![c] = Compared(have, len)]
  /\ UNCHANGED <<up, serverSide, ack>>

resume_Eof_Retries(c) ==
  /\ child[c] = "reading"
  /\ sent[c] = got[c] /\ ~ServerEndOpen(c)
  /\ UNCHANGED handoffVars
\* End of file in the loop.
resume_Eof(c) ==
  /\ child[c] = "reading"
  /\ sent[c] = got[c] /\ ~ServerEndOpen(c)
  /\ child' = [child EXCEPT ![c] = "died"]
  /\ UNCHANGED <<up, serverSide, got, length, received, ack>>

acknowledge_IgnoresError(c) ==
  /\ child[c] = "complete"
  /\ child' = [child EXCEPT ![c] = "serving"]
  /\ ack' = [ack EXCEPT ![c] = ServerEndOpen(c)]
  /\ UNCHANGED <<up, serverSide, got, length, received>>
\* The state is decoded and the acknowledgement sent: EPIPE if the server is
\* gone.
acknowledge(c) ==
  /\ child[c] = "complete"
  /\ child' = [child EXCEPT ![c] = IF ServerEndOpen(c) THEN "serving" ELSE "died"]
  /\ ack' = [ack EXCEPT ![c] = ServerEndOpen(c)]
  /\ UNCHANGED <<up, serverSide, got, length, received>>

\* It is killed, or fails to decode or to set up what it needs.
Dies(c) ==
  /\ c \in Fragile /\ child[c] \in {"reading", "complete"}
  /\ child' = [child EXCEPT ![c] = "died"]
  /\ UNCHANGED <<up, serverSide, got, length, received, ack>>

SessionEnds(c) ==
  /\ child[c] = "serving"
  /\ child' = [child EXCEPT ![c] = "over"]
  /\ UNCHANGED <<up, serverSide, got, length, received, ack>>

-----------------------------------------------------------------------------

ServerStep(c) ==
  \/ spawn_Fails(c)
  \/ spawn(c)
  \/ sendmsg(c)
  \/ send(c)
  \/ recvmsg(c)
  \/ wait(c)

ChildStep(c) == resume(c) \/ resume_Eof(c) \/ acknowledge(c)

NextHandoff ==
  \/ \E c \in Conns : ServerStep(c) \/ send_Fails(c) \/ ChildStep(c) \/ Dies(c) \/ SessionEnds(c)
  \/ ServerDies

SpecHandoff == InitHandoff /\ [][NextHandoff]_handoffVars

\* The runtime gives a free worker to a task that is ready, and the system
\* runs both processes; nobody has to die, no session to end and no call
\* to fail.
FairHandoff ==
  SpecHandoff /\ \A c \in Conns : WF_handoffVars(ServerStep(c)) /\ WF_handoffVars(ChildStep(c))

-----------------------------------------------------------------------------
(* Properties. *)

ServerStates == Blocking \union {"ready", "failed", "wait", "ended"}
ChildStates == Alive \union {"none", "misread", "died", "over"}

\* The state of both processes has its type.
TypeOKHandoff ==
  /\ up \in BOOLEAN
  /\ at \in [Conns -> ServerStates]
  /\ size \in [Conns -> Nat]
  /\ sent \in [Conns -> Nat]
  /\ child \in [Conns -> ChildStates]
  /\ got \in [Conns -> Nat]
  /\ length \in [Conns -> Nat \union {NoLength}]
  /\ received \in [Conns -> Nat]
  /\ ack \in [Conns -> BOOLEAN]

\* "Keep the connection's file descriptor open until the child acknowledges
\* the handoff": while the server lives and has not given the handoff up, the
\* descriptor is never in flight without a copy in one of the two processes.
NeverOnlyInFlight ==
  \A c \in Conns : up /\ at[c] /= "failed" /\ InFlight(c) => ServerHolds(c)

\* The session process takes the message for what it is, however the socket
\* cuts it: none of the errors about lengths is returned, and a session that
\* serves, or has, holds the connection and exactly the state it was sent.
ExactState ==
  \A c \in Conns :
    /\ child[c] /= "misread"
    /\ child[c] \in {"complete", "serving", "over"} =>
         got[c] = message(c) /\ length[c] = size[c] /\ received[c] = size[c]
    /\ child[c] = "serving" => ChildHolds(c)

\* spawn returns a child exactly when there is a session: one that it gave up
\* never serves, and one that it returned has started to.
ReturnedMeansServing ==
  \A c \in Conns :
    /\ at[c] \in {"wait", "ended"} => child[c] \in {"serving", "over"}
    /\ at[c] = "failed" => child[c] \in {"none", "reading", "died"}

\* Who answers for a connection; the server, until it is acknowledged.
Owner(c) ==
  IF child[c] = "serving" THEN "session"
  ELSE IF ServerHolds(c) /\ ~ack[c] THEN "server"
  ELSE "nobody"

\* The connection goes from the server to the session in one step, never back,
\* and once nobody answers for it nobody ever does again, whenever either
\* process dies.
OwnerMoves ==
  [][\A c \in Conns :
       Owner(c)' /= Owner(c) =>
         <<Owner(c), Owner(c)'>> \in {<<"server", "session">>, <<"server", "nobody">>,
                                      <<"session", "nobody">>}]_handoffVars

\* A handoff ends, unless its own session process dies: one that hangs takes a
\* worker with it, and others go on as long as one is left.
HandoffsEnd ==
  \A c \in Conns \ Fragile :
    at[c] = "ready" ~> ~up \/ at[c] \in {"failed", "wait", "ended"}

\* When the server process dies in the middle, or spawn gives up, the session
\* process notices: no connection stays open that nobody serves.
NothingStranded ==
  \A c \in Conns :
    ~up \/ at[c] = "failed" ~> child[c] = "serving" \/ ~(InFlight(c) \/ ChildHolds(c))

\* "session process exited before acknowledging handoff": spawn notices that
\* the session process died, and returns the error it has for that.
DeathNoticed == \A c \in Conns : child[c] = "died" ~> ~up \/ at[c] = "failed"
=============================================================================
