------------------------------- MODULE Server -------------------------------
(***************************************************************************)
(* oxish/src/server.rs: Server::run spawns a task per connection, and      *)
(* Server::accept takes it through key exchange, authentication and the    *)
(* handoff to a session process.  The tasks share the semaphore of         *)
(* handshakes in progress, and the user store.                             *)
(*                                                                         *)
(*   permits   permits left in Server::authenticating                      *)
(*   phase     where accept is, per connection; "new" before it is called  *)
(*                                                                         *)
(* The semaphore permit lives on the stack of accept: every return and the *)
(* explicit drop after authenticate give it back.  Key exchange and the    *)
(* session process are reduced to how they end.                            *)
(***************************************************************************)
EXTENDS Authentication

CONSTANT MaxPermits   \* 32

VARIABLES permits, phase

serverVars == <<authVars, permits, phase>>

ASSUME ServerAssumption == MaxPermits \in Nat \ {0}

Phases ==
  {"new", "rejected", "kx", "auth", "unflushed", "spawn", "serving", "closed"}

\* Where accept holds a permit.
Handshake == {"kx", "auth"}

InitServer ==
  /\ InitAuthentication
  /\ permits = MaxPermits
  /\ phase = [c \in Conns |-> "new"]

Enter(c, to) == phase' = [phase EXCEPT ![c] = to]

accept_Unchecked(c) ==
  /\ phase[c] = "new"
  /\ permits' = permits - 1
  /\ Enter(c, "kx")
  /\ UNCHANGED authVars
\* try_acquire: a connection that gets no permit is dropped at once.
accept(c) ==
  /\ phase[c] = "new"
  /\ \/ /\ permits > 0
        /\ permits' = permits - 1
        /\ Enter(c, "kx")
     \/ /\ permits = 0
        /\ UNCHANGED permits
        /\ Enter(c, "rejected")
  /\ UNCHANGED authVars

KeysExchanged(c) ==
  /\ phase[c] = "kx"
  /\ Enter(c, "auth")
  /\ Begin(c)
  /\ UNCHANGED permits

\* exchange_keys fails, or 30 s pass.
KeyExchangeFails(c) ==
  /\ phase[c] = "kx"
  /\ Enter(c, "closed")
  /\ permits' = permits + 1
  /\ UNCHANGED authVars
Authenticating_Leaks(c) ==
  /\ phase[c] = "auth"
  /\ AuthenticateStep(c)
  /\ \/ /\ auth'[c].at = "ok"
        /\ permits' = permits + 1
        /\ Enter(c, IF out'[c] = <<>> THEN "spawn" ELSE "unflushed")
     \/ /\ auth'[c].at = "err"
        /\ Enter(c, "closed")
        /\ UNCHANGED permits
     \/ /\ auth'[c].at \notin {"ok", "err"}
        /\ UNCHANGED <<permits, phase>>
\* A step of authenticate, and if it returns, what accept does next: drop the
\* permit, and check that nothing is left to flush.
Authenticating(c) ==
  /\ phase[c] = "auth"
  /\ AuthenticateStep(c)
  /\ \/ /\ auth'[c].at = "ok"
        /\ permits' = permits + 1
        /\ Enter(c, IF out'[c] = <<>> THEN "spawn" ELSE "unflushed")
     \/ /\ auth'[c].at = "err"
        /\ permits' = permits + 1
        /\ Enter(c, "closed")
     \/ /\ auth'[c].at \notin {"ok", "err"}
        /\ UNCHANGED <<permits, phase>>

Spawned(c) == phase[c] = "spawn" /\ Enter(c, "serving") /\ UNCHANGED <<authVars, permits>>

\* spawn fails; or the child has been waited for.
Finished(c) ==
  /\ phase[c] \in {"spawn", "serving"}
  /\ Enter(c, "closed")
  /\ UNCHANGED <<authVars, permits>>

AcceptStep(c) ==
  \/ accept(c)
  \/ KeysExchanged(c)
  \/ KeyExchangeFails(c)
  \/ Authenticating(c)
  \/ Spawned(c)
  \/ Finished(c)

NextServer ==
  \/ \E c \in Conns : AcceptStep(c)
  \/ StoreStep /\ UNCHANGED <<permits, phase>>

SpecServer == InitServer /\ [][NextServer]_serverVars

\* The three limits on time are all that is fair: nothing is assumed of the
\* peers, who may send packets for ever or stop reading, nor of the blocking
\* pool.
LimitPasses(c) ==
  \/ KeyExchangeFails(c)
  \/ Authenticating(c) /\ TimesOut(c)
  \/ Authenticating(c) /\ NotifyEnds(c)

FairServer == SpecServer /\ \A c \in Conns : WF_serverVars(LimitPasses(c))

-----------------------------------------------------------------------------
(* Properties. *)

\* The state of Server has its type: the semaphore never runs below none
\* nor above what it was created with.
TypeOKServer ==
  /\ TypeOKAuthentication
  /\ permits \in 0..MaxPermits
  /\ phase \in [Conns -> Phases]

InHandshake == {c \in Conns : phase[c] \in Handshake}

\* No permit is lost or returned twice, on any path through accept: the
\* permits that are left and the handshakes in progress always make up the
\* semaphore.
PermitsAccounted == permits + Cardinality(InHandshake) = MaxPermits

\* A session process is spawned only for a connection that has been
\* authenticated and whose buffer is empty: the error "unflushed bytes in
\* write buffer" is never returned.
HandoffIsClean ==
  \A c \in Conns :
    /\ phase[c] /= "unflushed"
    /\ phase[c] \in {"spawn", "serving"} => auth[c].granted /= {} /\ out[c] = <<>>

\* The server admits and turns away connections as Admission says.
Promise == INSTANCE Admission
  WITH Visitors <- Conns, Limit <- MaxPermits,
       inside <- InHandshake, seen <- {c \in Conns : phase[c] /= "new"}
ImplementsAdmission == Promise!SpecAdmission

\* Every permit comes back: a handshake ends, whatever its peer does and
\* even if a signature check never returns (the limits of 30, 60 and 1 s).
HandshakesEnd ==
  \A c \in Conns : phase[c] \in Handshake ~> phase[c] \notin Handshake
=============================================================================
