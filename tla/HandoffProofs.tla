---------------------------- MODULE HandoffProofs ---------------------------
(***************************************************************************)
(* Handoff keeps its safety properties for any number of connections and   *)
(* workers, any lengths of the state, and any size of the socket and of a  *)
(* chunk.                                                                  *)
(*                                                                         *)
(* Stages relates, per connection, where spawn is to where resume is, and  *)
(* Counts what both have counted to the position in the stream.  Neither   *)
(* is inductive alone: a chunk is compared rightly only because got and    *)
(* received move together, and spawn returns rightly only because its own  *)
(* copy of the socket keeps it from seeing an end of file.                 *)
(***************************************************************************)
EXTENDS Handoff, TLAPS

Stages(c) ==
  /\ at[c] = "ready" => child[c] = "none"
  /\ child[c] = "none" => at[c] \in {"ready", "failed"}
  /\ at[c] = "failed" => child[c] \in {"none", "reading", "died"}
  /\ child[c] \in {"reading", "complete", "died"} => at[c] \in Blocking \union {"failed"}
  /\ at[c] \in {"wait", "ended"} => ack[c]
  /\ ack[c] <=> child[c] \in {"serving", "over"}
  /\ child[c] /= "misread"

Counts(c) ==
  /\ at[c] \in {"ready", "sendmsg"} => sent[c] = 0
  /\ at[c] \in {"failed", "send"} => sent[c] < message(c)
  /\ at[c] = "recvmsg" => sent[c] = message(c)
  /\ got[c] <= sent[c] /\ sent[c] <= message(c)
  /\ got[c] = 0 => length[c] = NoLength /\ received[c] = 0
  /\ got[c] /= 0 => length[c] = size[c] /\ got[c] = PREFIX + received[c]
  /\ child[c] = "reading" /\ got[c] /= 0 => received[c] < size[c]
  /\ child[c] \in {"complete", "serving", "over"} => got[c] = message(c)

IInvHandoff == TypeOKHandoff /\ \A c \in Conns : Stages(c) /\ Counts(c)

-----------------------------------------------------------------------------

LEMMA InitiallyInv == InitHandoff => IInvHandoff
<1> SUFFICES ASSUME InitHandoff PROVE IInvHandoff
  OBVIOUS
<1>1. TypeOKHandoff
  BY HandoffAssumption
  DEF InitHandoff, TypeOKHandoff, ServerStates, ChildStates, NoLength
<1>2. ASSUME NEW c \in Conns PROVE Stages(c)
  BY DEF InitHandoff, Stages
<1>3. ASSUME NEW c \in Conns PROVE Counts(c)
  <2>1. message(c) \in Nat
    <3>1. size[c] \in Nat
      BY HandoffAssumption DEF InitHandoff
    <3>. QED  BY <3>1, HandoffAssumption DEF message
  <2>. QED  BY <2>1 DEF InitHandoff, Counts
<1>. QED  BY <1>1, <1>2, <1>3 DEF IInvHandoff

\* What a step of one connection leaves alone holds on.
LEMMA Others ==
  ASSUME IInvHandoff, NEW d \in Conns,
         UNCHANGED <<at[d], size[d], sent[d], child[d], got[d], length[d], received[d], ack[d]>>
  PROVE  Stages(d)' /\ Counts(d)'
  BY DEF IInvHandoff, Stages, Counts, message

\* A session process that has not acknowledged leaves spawn blocked, and then the
\* server's own copy keeps the socket open.
LEMMA EndStaysOpen ==
  ASSUME NEW c \in Conns, up, at[c] \in Blocking
  PROVE  ChildEndOpen(c)
  BY DEF ChildEndOpen, ServerEndOpen

LEMMA spawn_Fails_Inv == ASSUME IInvHandoff, NEW c \in Conns, spawn_Fails(c) PROVE IInvHandoff'
<1> USE DEF IInvHandoff, spawn_Fails, Goto, childSide
<1>1. TypeOKHandoff'
  BY DEF TypeOKHandoff, ServerStates, Blocking
<1>2. ASSUME NEW d \in Conns, d /= c PROVE Stages(d)' /\ Counts(d)'
  BY <1>2, Others DEF TypeOKHandoff
<1>3. Stages(c)'
  BY DEF TypeOKHandoff, Stages, Blocking
<1>4. Counts(c)'
  <2>1. size[c] \in Nat /\ message(c) \in Nat \ {0} /\ message(c)' = message(c)
    BY HandoffAssumption DEF TypeOKHandoff, message
  <2>. QED  BY <2>1 DEF TypeOKHandoff, Stages, Counts, Blocking
<1>. QED  BY <1>1, <1>2, <1>3, <1>4

LEMMA spawn_Inv == ASSUME IInvHandoff, NEW c \in Conns, spawn(c) PROVE IInvHandoff'
<1> USE DEF IInvHandoff, spawn, Goto
<1>1. TypeOKHandoff'
  BY DEF TypeOKHandoff, ServerStates, Blocking, ChildStates, Alive
<1>2. ASSUME NEW d \in Conns, d /= c PROVE Stages(d)' /\ Counts(d)'
  BY <1>2, Others DEF TypeOKHandoff
<1>3. Stages(c)'
  BY DEF TypeOKHandoff, Stages, Blocking
<1>4. Counts(c)'
  BY DEF TypeOKHandoff, Stages, Counts, message, Blocking
<1>. QED  BY <1>1, <1>2, <1>3, <1>4

\* One call into the socket; spawn never sees EPIPE, so the counts go on.
LEMMA Transmit_Inv ==
  ASSUME IInvHandoff, NEW c \in Conns, up, at[c] \in {"sendmsg", "send"}, Transmit(c)
  PROVE  IInvHandoff'
<1>1. ChildEndOpen(c)
  BY EndStaysOpen DEF Blocking
<1>2. PICK n \in Sendable(c) :
        /\ sent' = [sent EXCEPT ![c] = @ + n]
        /\ at' = [at EXCEPT ![c] = IF sent[c] + n < message(c) THEN "send" ELSE "recvmsg"]
  BY <1>1 DEF Transmit, Goto
<1>3. /\ UNCHANGED <<up, size, child, got, length, received, ack>>
      /\ n \in Nat \ {0} /\ sent[c] + n <= message(c) /\ message(c) \in Nat
  BY <1>2, HandoffAssumption
  DEF Transmit, childSide, Sendable, message, IInvHandoff, TypeOKHandoff
<1>4. TypeOKHandoff'
  BY <1>2, <1>3 DEF IInvHandoff, TypeOKHandoff, ServerStates, Blocking
<1>5. ASSUME NEW d \in Conns, d /= c PROVE Stages(d)' /\ Counts(d)'
  BY <1>2, <1>3, <1>5, Others DEF IInvHandoff, TypeOKHandoff
<1>6. Stages(c)'
  BY <1>2, <1>3 DEF IInvHandoff, TypeOKHandoff, Stages, Blocking
<1>7. Counts(c)'
  <2>1. /\ sent'[c] = sent[c] + n /\ sent[c] \in Nat /\ got[c] \in Nat /\ message(c)' = message(c)
        /\ at'[c] = IF sent[c] + n < message(c) THEN "send" ELSE "recvmsg"
    BY <1>2, <1>3 DEF IInvHandoff, TypeOKHandoff, message
  <2>. QED  BY <1>3, <2>1 DEF IInvHandoff, Counts
<1>. QED  BY <1>4, <1>5, <1>6, <1>7 DEF IInvHandoff

LEMMA sendmsg_Inv == ASSUME IInvHandoff, NEW c \in Conns, sendmsg(c) PROVE IInvHandoff'
  BY Transmit_Inv DEF sendmsg

LEMMA send_Inv == ASSUME IInvHandoff, NEW c \in Conns, send(c) PROVE IInvHandoff'
  BY Transmit_Inv DEF send

\* What was sent before a call failed is not all of the message.
LEMMA send_Fails_Inv == ASSUME IInvHandoff, NEW c \in Conns, send_Fails(c) PROVE IInvHandoff'
<1> USE DEF IInvHandoff, send_Fails, Goto, childSide
<1>1. TypeOKHandoff'
  BY DEF TypeOKHandoff, ServerStates, Blocking
<1>2. ASSUME NEW d \in Conns, d /= c PROVE Stages(d)' /\ Counts(d)'
  BY <1>2, Others DEF TypeOKHandoff
<1>3. sent[c] \in Nat /\ got[c] \in Nat /\ message(c) \in Nat /\ sent[c] < message(c)
  <2>1. sent[c] \in Nat /\ got[c] \in Nat /\ size[c] \in Nat /\ PREFIX \in Nat \ {0}
    BY HandoffAssumption DEF TypeOKHandoff
  <2>. QED  BY <2>1 DEF Counts, message
<1>4. child[c] \notin {"complete", "serving", "over"}
  BY <1>3 DEF Counts
<1>5. Stages(c)'
  BY <1>4 DEF TypeOKHandoff, Stages, Blocking, ChildStates, Alive
<1>6. Counts(c)'
  BY <1>3 DEF TypeOKHandoff, Stages, Counts, message, Blocking
<1>. QED  BY <1>1, <1>2, <1>5, <1>6

LEMMA recvmsg_Inv == ASSUME IInvHandoff, NEW c \in Conns, recvmsg(c) PROVE IInvHandoff'
<1> USE DEF IInvHandoff, recvmsg, Goto, childSide
<1>1. TypeOKHandoff'
  BY EndStaysOpen DEF TypeOKHandoff, ServerStates, Blocking
<1>2. ASSUME NEW d \in Conns, d /= c PROVE Stages(d)' /\ Counts(d)'
  BY <1>2, Others DEF TypeOKHandoff
<1>3. Stages(c)'
  BY EndStaysOpen DEF TypeOKHandoff, Stages, Blocking
<1>4. Counts(c)'
  BY EndStaysOpen DEF TypeOKHandoff, Stages, Counts, message, Blocking
<1>. QED  BY <1>1, <1>2, <1>3, <1>4

LEMMA wait_Inv == ASSUME IInvHandoff, NEW c \in Conns, wait(c) PROVE IInvHandoff'
<1> USE DEF IInvHandoff, wait, Goto, childSide
<1>1. TypeOKHandoff'
  BY DEF TypeOKHandoff, ServerStates, Blocking
<1>2. ASSUME NEW d \in Conns, d /= c PROVE Stages(d)' /\ Counts(d)'
  BY <1>2, Others DEF TypeOKHandoff
<1>3. Stages(c)'
  BY DEF TypeOKHandoff, Stages, Blocking
<1>4. Counts(c)'
  BY DEF TypeOKHandoff, Stages, Counts, message, Blocking
<1>. QED  BY <1>1, <1>2, <1>3, <1>4

\* A chunk: length and received are what the position in the stream says, so
\* the comparison finds the end of the message and nothing beyond it.
LEMMA resume_Inv == ASSUME IInvHandoff, NEW c \in Conns, resume(c) PROVE IInvHandoff'
<1>1. PICK n \in Receivable(c) :
        LET first == length[c] = NoLength
            len == IF first THEN size[c] ELSE length[c]
            have == received[c] + (IF first THEN n - PREFIX ELSE n)
        IN /\ got' = [got EXCEPT ![c] = @ + n]
           /\ length' = [length EXCEPT ![c] = len]
           /\ received' = [received EXCEPT ![c] = have]
           /\ child' = [child EXCEPT ![c] = Compared(have, len)]
  BY DEF resume
<1>2. /\ child[c] = "reading" /\ UNCHANGED <<up, at, size, sent, ack>>
      /\ n \in Nat \ {0} /\ got[c] + n <= sent[c]
      /\ got[c] = 0 => n >= PREFIX
  BY <1>1, HandoffAssumption
  DEF resume, Receivable, serverSide, IInvHandoff, TypeOKHandoff
<1>3. /\ got[c] \in Nat /\ size[c] \in Nat /\ sent[c] \in Nat /\ received[c] \in Nat
      /\ PREFIX \in Nat /\ sent[c] <= PREFIX + size[c]
      /\ got[c] = 0 => length[c] = NoLength /\ received[c] = 0
      /\ got[c] /= 0 => length[c] = size[c] /\ got[c] = PREFIX + received[c]
  BY HandoffAssumption DEF IInvHandoff, TypeOKHandoff, Counts, message
<1> DEFINE r == got[c] + n - PREFIX
<1>4. r \in Nat /\ r <= size[c] /\ size[c] /= NoLength
  BY <1>2, <1>3 DEF NoLength
<1>5. /\ got' = [got EXCEPT ![c] = @ + n]
      /\ length' = [length EXCEPT ![c] = size[c]]
      /\ received' = [received EXCEPT ![c] = r]
      /\ child' = [child EXCEPT ![c] = IF r = size[c] THEN "complete" ELSE "reading"]
  <2> DEFINE len == IF length[c] = NoLength THEN size[c] ELSE length[c]
             have == received[c] + (IF length[c] = NoLength THEN n - PREFIX ELSE n)
  <2>1. len = size[c]
    BY <1>3
  <2>2. have = r
    BY <1>2, <1>3, <1>4
  <2>3. Compared(r, size[c]) = IF r = size[c] THEN "complete" ELSE "reading"
    BY <1>3, <1>4 DEF Compared
  <2>. QED  BY <1>1, <2>1, <2>2, <2>3
<1>6. TypeOKHandoff'
  BY <1>2, <1>3, <1>4, <1>5 DEF IInvHandoff, TypeOKHandoff, ChildStates, Alive
<1>7. ASSUME NEW d \in Conns, d /= c PROVE Stages(d)' /\ Counts(d)'
  BY <1>2, <1>5, <1>7, Others DEF IInvHandoff, TypeOKHandoff
<1>8. Stages(c)'
  <2>1. at[c] = "failed" => r /= size[c]
    BY <1>2, <1>3 DEF IInvHandoff, Counts, message
  <2>. QED  BY <1>2, <1>5, <2>1 DEF IInvHandoff, TypeOKHandoff, Stages
<1>9. Counts(c)'
  <2>1. /\ got'[c] = got[c] + n /\ length'[c] = size[c] /\ received'[c] = r
        /\ child'[c] = IF r = size[c] THEN "complete" ELSE "reading"
        /\ message(c)' = PREFIX + size[c]
    BY <1>2, <1>5 DEF IInvHandoff, TypeOKHandoff, message
  <2>2. got[c] + n = PREFIX + r /\ got[c] + n /= 0
    BY <1>2, <1>3
  <2>. QED  BY <1>2, <1>3, <1>4, <2>1, <2>2 DEF IInvHandoff, Counts, message
<1>. QED  BY <1>6, <1>7, <1>8, <1>9 DEF IInvHandoff

LEMMA resume_Eof_Inv == ASSUME IInvHandoff, NEW c \in Conns, resume_Eof(c) PROVE IInvHandoff'
<1> USE DEF IInvHandoff, resume_Eof, serverSide
<1>1. TypeOKHandoff'
  BY DEF TypeOKHandoff, ChildStates, Alive
<1>2. ASSUME NEW d \in Conns, d /= c PROVE Stages(d)' /\ Counts(d)'
  BY <1>2, Others DEF TypeOKHandoff
<1>3. Stages(c)'
  BY DEF TypeOKHandoff, Stages, Blocking
<1>4. Counts(c)'
  BY DEF TypeOKHandoff, Stages, Counts, message, Blocking
<1>. QED  BY <1>1, <1>2, <1>3, <1>4

LEMMA acknowledge_Inv == ASSUME IInvHandoff, NEW c \in Conns, acknowledge(c) PROVE IInvHandoff'
<1> USE DEF IInvHandoff, acknowledge, serverSide, ServerEndOpen
<1>1. TypeOKHandoff'
  BY DEF TypeOKHandoff, ChildStates, Alive
<1>2. ASSUME NEW d \in Conns, d /= c PROVE Stages(d)' /\ Counts(d)'
  BY <1>2, Others DEF TypeOKHandoff
<1>3. Stages(c)'
  BY DEF TypeOKHandoff, Stages, Blocking
<1>4. Counts(c)'
  BY DEF TypeOKHandoff, Stages, Counts, message, Blocking
<1>. QED  BY <1>1, <1>2, <1>3, <1>4

LEMMA Dies_Inv == ASSUME IInvHandoff, NEW c \in Conns, Dies(c) PROVE IInvHandoff'
<1> USE DEF IInvHandoff, Dies, serverSide
<1>1. TypeOKHandoff'
  BY DEF TypeOKHandoff, ChildStates, Alive
<1>2. ASSUME NEW d \in Conns, d /= c PROVE Stages(d)' /\ Counts(d)'
  BY <1>2, Others DEF TypeOKHandoff
<1>3. Stages(c)'
  BY DEF TypeOKHandoff, Stages, Blocking
<1>4. Counts(c)'
  BY DEF TypeOKHandoff, Stages, Counts, message, Blocking
<1>. QED  BY <1>1, <1>2, <1>3, <1>4

LEMMA SessionEnds_Inv == ASSUME IInvHandoff, NEW c \in Conns, SessionEnds(c) PROVE IInvHandoff'
<1> USE DEF IInvHandoff, SessionEnds, serverSide
<1>1. TypeOKHandoff'
  BY DEF TypeOKHandoff, ChildStates, Alive
<1>2. ASSUME NEW d \in Conns, d /= c PROVE Stages(d)' /\ Counts(d)'
  BY <1>2, Others DEF TypeOKHandoff
<1>3. Stages(c)'
  BY DEF TypeOKHandoff, Stages, Blocking
<1>4. Counts(c)'
  BY DEF TypeOKHandoff, Stages, Counts, message, Blocking
<1>. QED  BY <1>1, <1>2, <1>3, <1>4

LEMMA ServerDies_Inv == IInvHandoff /\ ServerDies => IInvHandoff'
  BY DEF ServerDies, IInvHandoff, TypeOKHandoff, Stages, Counts, message, serverSide, childSide

LEMMA NextInv == IInvHandoff /\ [NextHandoff]_handoffVars => IInvHandoff'
<1> SUFFICES ASSUME IInvHandoff, [NextHandoff]_handoffVars PROVE IInvHandoff'
  OBVIOUS
<1>1. CASE ServerDies
  BY <1>1, ServerDies_Inv
<1>2. ASSUME NEW c \in Conns, ServerStep(c) PROVE IInvHandoff'
  BY <1>2, spawn_Fails_Inv, spawn_Inv, sendmsg_Inv, send_Inv, recvmsg_Inv, wait_Inv
  DEF ServerStep
<1>3. ASSUME NEW c \in Conns, ChildStep(c) PROVE IInvHandoff'
  BY <1>3, resume_Inv, resume_Eof_Inv, acknowledge_Inv DEF ChildStep
<1>4. ASSUME NEW c \in Conns, send_Fails(c) \/ Dies(c) \/ SessionEnds(c) PROVE IInvHandoff'
  BY <1>4, send_Fails_Inv, Dies_Inv, SessionEnds_Inv
<1>5. CASE UNCHANGED handoffVars
  BY <1>5
  DEF handoffVars, serverSide, childSide, IInvHandoff, TypeOKHandoff, Stages, Counts, message
<1>. QED  BY <1>1, <1>2, <1>3, <1>4, <1>5 DEF NextHandoff

\* Wherever the two processes are in spawn and resume, what each has done fits
\* what the other has, and the counts of bytes fit both.
THEOREM HandoffInvariant == SpecHandoff => []IInvHandoff
<1>1. InitHandoff => IInvHandoff
  BY InitiallyInv
<1>2. IInvHandoff /\ [NextHandoff]_handoffVars => IInvHandoff'
  BY NextInv
<1>. QED  BY <1>1, <1>2, PTL DEF SpecHandoff

-----------------------------------------------------------------------------

\* The types of both processes' state (TypeOKHandoff) hold of every behaviour of
\* spawn and resume.
THEOREM HandoffTyped == SpecHandoff => []TypeOKHandoff
<1>1. IInvHandoff => TypeOKHandoff
  BY DEF IInvHandoff
<1>. QED  BY <1>1, HandoffInvariant, PTL

\* The comment in spawn on the connection's descriptor: it is in flight only
\* while the server has its own copy, tcp, which it keeps until recvmsg returns,
\* or has given the handoff up.
THEOREM NeverLost == SpecHandoff => []NeverOnlyInFlight
<1>1. IInvHandoff => NeverOnlyInFlight
  <2> SUFFICES ASSUME IInvHandoff, NEW c \in Conns, up, at[c] /= "failed", InFlight(c) PROVE ServerHolds(c)
    BY DEF NeverOnlyInFlight
  <2>1. sent[c] /= 0 /\ got[c] = 0
    BY DEF InFlight, IInvHandoff, TypeOKHandoff
  <2>2. child[c] \notin {"complete", "serving", "over"}
    BY <2>1, HandoffAssumption DEF IInvHandoff, TypeOKHandoff, Counts, message
  <2>. QED  BY <2>1, <2>2
    DEF IInvHandoff, TypeOKHandoff, Stages, Counts, InFlight, ChildEndOpen, ServerEndOpen,
        ServerHolds, Alive, Blocking
<1>. QED  BY <1>1, HandoffInvariant, PTL

\* However the socket cuts the message, resume takes it for what it is: no error
\* about lengths, and a session has the connection and all of the state.
THEOREM ResumesExactly == SpecHandoff => []ExactState
<1>1. IInvHandoff => ExactState
  <2> SUFFICES ASSUME IInvHandoff, NEW c \in Conns
               PROVE  /\ child[c] /= "misread"
                      /\ child[c] \in {"complete", "serving", "over"} =>
                           got[c] = message(c) /\ length[c] = size[c] /\ received[c] = size[c]
                      /\ child[c] = "serving" => ChildHolds(c)
    BY DEF ExactState
  <2>. QED  BY HandoffAssumption
    DEF IInvHandoff, TypeOKHandoff, Stages, Counts, message, ChildHolds, Alive
<1>. QED  BY <1>1, HandoffInvariant, PTL

\* spawn returns Ok for a session that has started, and Err only when there is
\* none and never will be.
THEOREM ReturnsRightly == SpecHandoff => []ReturnedMeansServing
<1>1. IInvHandoff => ReturnedMeansServing
  BY DEF IInvHandoff, Stages, ReturnedMeansServing
<1>. QED  BY <1>1, HandoffInvariant, PTL

\* One step takes a connection from the server to its session; nothing brings
\* back one that nobody answers for.
THEOREM OwnershipMoves == SpecHandoff => OwnerMoves
<1> DEFINE Move(c) == Owner(c)' /= Owner(c) =>
             <<Owner(c), Owner(c)'>> \in {<<"server", "session">>, <<"server", "nobody">>,
                                          <<"session", "nobody">>}
<1>1. ASSUME IInvHandoff, NextHandoff, NEW c \in Conns PROVE Move(c)
  <2> USE <1>1 DEF IInvHandoff, Owner
  <2>1. CASE ServerDies
    BY <2>1 DEF ServerDies, ServerHolds, serverSide, childSide
  <2>2. ASSUME NEW d \in Conns, ServerStep(d) \/ send_Fails(d) PROVE Move(c)
    <3>1. UNCHANGED <<up, got, length, received, ack>>
      BY <2>2
      DEF ServerStep, spawn_Fails, spawn, sendmsg, send, send_Fails, recvmsg, wait, Transmit,
          childSide
    <3>2. child[c]' /= child[c] => child[c] = "none" /\ child[c]' = "reading"
      BY <2>2
      DEF ServerStep, spawn_Fails, spawn, sendmsg, send, send_Fails, recvmsg, wait, Transmit,
          childSide, TypeOKHandoff, Stages
    <3>3. ServerHolds(c)' => ServerHolds(c)
      BY <2>2, <3>1
      DEF ServerStep, spawn_Fails, spawn, sendmsg, send, send_Fails, recvmsg, wait, Transmit,
          childSide, TypeOKHandoff, Goto, ServerHolds, Blocking
    <3>. QED  BY <3>1, <3>2, <3>3
  <2>3. ASSUME NEW d \in Conns, ChildStep(d) \/ Dies(d) \/ SessionEnds(d) PROVE Move(c)
    <3>1. UNCHANGED <<up, at>> /\ (ServerHolds(c)' <=> ServerHolds(c))
      BY <2>3
      DEF ChildStep, resume, resume_Eof, acknowledge, Dies, SessionEnds, serverSide, ServerHolds
    <3>2. CASE child[c]' = child[c]
      BY <2>3, <3>1, <3>2
      DEF ChildStep, resume, resume_Eof, acknowledge, Dies, SessionEnds, serverSide,
          TypeOKHandoff, Stages
    <3>3. CASE child[c]' /= child[c] /\ acknowledge(c)
      BY <3>1, <3>3
      DEF acknowledge, TypeOKHandoff, Stages, ServerEndOpen, ServerHolds, Blocking
    <3>4. CASE child[c]' /= child[c] /\ SessionEnds(c)
      BY <3>1, <3>4 DEF SessionEnds, TypeOKHandoff, Stages
    <3>5. CASE child[c]' /= child[c] /\ (resume(c) \/ resume_Eof(c) \/ Dies(c))
      <4>1. child[c] /= "serving" /\ child[c]' /= "serving" /\ ack' = ack
        BY <3>5 DEF resume, resume_Eof, Dies, TypeOKHandoff, Compared
      <4>. QED  BY <3>1, <4>1
    <3>6. child[c]' /= child[c] => d = c
      BY <2>3
      DEF ChildStep, resume, resume_Eof, acknowledge, Dies, SessionEnds, TypeOKHandoff
    <3>. QED  BY <2>3, <3>2, <3>3, <3>4, <3>5, <3>6 DEF ChildStep
  <2>. QED  BY <2>1, <2>2, <2>3 DEF NextHandoff
<1>2. IInvHandoff /\ [NextHandoff]_handoffVars => [\A c \in Conns : Move(c)]_handoffVars
  BY <1>1
<1>. QED  BY <1>2, HandoffInvariant, PTL DEF OwnerMoves, SpecHandoff

=============================================================================
