---------------------------- MODULE ServerProofs ----------------------------
(***************************************************************************)
(* The permits of Server add up, the handoff is clean, and Server          *)
(* implements Admission, for every number of connections and of permits.   *)
(*                                                                         *)
(* ServerInv adds to AuthInv what accept knows: the count of permits, and  *)
(* that a connection past authentication has been granted and flushed.     *)
(***************************************************************************)
EXTENDS Server, AuthenticationProofs, FiniteSetTheorems

ServerInv ==
  /\ AuthInv
  /\ permits \in Nat /\ phase \in [Conns -> Phases]
  /\ IsFiniteSet(InHandshake) /\ PermitsAccounted
  /\ HandoffIsClean

\* A step of authenticate is of one connection only.
LEMMA OwnStep ==
  ASSUME AuthInv, NEW c \in Conns, AuthenticateStep(c) \/ Begin(c)
  PROVE  \A d \in Conns : d /= c => auth'[d] = auth[d] /\ out'[d] = out[d]
<1> USE DEF AuthInv, TypeOKAuthentication
<1>1. ASSUME NEW a, NEW m, Answer(c, a, m) \/ Abort(c, a)
      PROVE  \A d \in Conns : d /= c => auth'[d] = auth[d] /\ out'[d] = out[d]
  BY <1>1 DEF Answer, Abort
<1>2. ASSUME NEW a, NEW p, handle_publickey(c, p, a)
      PROVE  \A d \in Conns : d /= c => auth'[d] = auth[d] /\ out'[d] = out[d]
  BY <1>1, <1>2 DEF handle_publickey
<1>3. ASSUME NEW p \in Packets, handle(c, p)
      PROVE  \A d \in Conns : d /= c => auth'[d] = auth[d] /\ out'[d] = out[d]
  BY <1>1, <1>2, <1>3 DEF handle, handle_service, handle_auth_request, authVars
<1>4. CASE Verified(c) BY <1>1, <1>4 DEF Verified
<1>5. CASE Flushed(c) BY <1>5 DEF Flushed
<1>6. CASE NotifySends(c) \/ NotifyEnds(c) BY <1>6 DEF NotifySends, NotifyEnds
<1>7. CASE Begin(c) BY <1>7 DEF Begin
<1> QED BY <1>1, <1>3, <1>4, <1>5, <1>6, <1>7 DEF AuthenticateStep, ReceiveFails, FlushFails, TimesOut

\* authenticate returns Ok only when its flush has ended, with a grant.
LEMMA ReturnsOk ==
  ASSUME AuthInv', NEW c \in Conns, auth'[c].at = "ok"
  PROVE  auth'[c].granted /= {} /\ out'[c] = <<>>
BY DEF AuthInv, Delivered, ConnInv, BaseInv

\* accept goes to another phase.
LEMMA EnterStep ==
  ASSUME phase \in [Conns -> Phases], NEW c \in Conns, NEW x \in Phases, Enter(c, x)
  PROVE  /\ phase' \in [Conns -> Phases] /\ phase'[c] = x
         /\ \A d \in Conns : d /= c => phase'[d] = phase[d]
         /\ x \in Handshake => InHandshake' = InHandshake \union {c}
         /\ x \notin Handshake => InHandshake' = InHandshake \ {c}
BY DEF Enter, InHandshake

\* Taking the permit for a handshake that begins.
LEMMA PermitTaken ==
  ASSUME permits \in Nat, IsFiniteSet(InHandshake), PermitsAccounted,
         NEW c \in Conns, c \notin InHandshake, permits > 0,
         permits' = permits - 1, InHandshake' = InHandshake \union {c}
  PROVE  permits' \in Nat /\ IsFiniteSet(InHandshake)' /\ PermitsAccounted'
<1>1. Cardinality(InHandshake) \in Nat BY FS_CardinalityType
<1>2. /\ IsFiniteSet(InHandshake \union {c})
      /\ Cardinality(InHandshake \union {c}) = Cardinality(InHandshake) + 1
  BY FS_AddElement
<1> QED BY <1>1, <1>2, ServerAssumption DEF PermitsAccounted

\* Giving it back when the handshake ends.
LEMMA PermitReturned ==
  ASSUME permits \in Nat, IsFiniteSet(InHandshake), PermitsAccounted,
         NEW c \in Conns, c \in InHandshake,
         permits' = permits + 1, InHandshake' = InHandshake \ {c}
  PROVE  permits' \in Nat /\ IsFiniteSet(InHandshake)' /\ PermitsAccounted'
<1>1. Cardinality(InHandshake) \in Nat BY FS_CardinalityType
<1>2. /\ IsFiniteSet(InHandshake \ {c})
      /\ Cardinality(InHandshake \ {c}) = Cardinality(InHandshake) - 1
  BY FS_RemoveElement
<1> QED BY <1>1, <1>2, ServerAssumption DEF PermitsAccounted

\* The same handshakes and permits.
LEMMA PermitKept ==
  ASSUME permits \in Nat, IsFiniteSet(InHandshake), PermitsAccounted,
         UNCHANGED permits, InHandshake' = InHandshake
  PROVE  permits' \in Nat /\ IsFiniteSet(InHandshake)' /\ PermitsAccounted'
BY DEF PermitsAccounted

\* A connection that is not in the middle of authenticate stays clean.
LEMMA CleanKept ==
  ASSUME HandoffIsClean, NEW c \in Conns,
         \A d \in Conns : d /= c => phase'[d] = phase[d] /\ auth'[d] = auth[d] /\ out'[d] = out[d],
         phase'[c] /= "unflushed",
         phase'[c] \in {"spawn", "serving"} => auth'[c].granted /= {} /\ out'[c] = <<>>
  PROVE  HandoffIsClean'
BY DEF HandoffIsClean

-----------------------------------------------------------------------------

\* try_acquire, either way.
LEMMA AcceptInv ==
  ASSUME ServerInv, NEW c \in Conns, accept(c)
  PROVE  ServerInv'
<1>1. AuthInv' BY StutterStep DEF accept, ServerInv
<1>2. phase[c] = "new" /\ c \notin InHandshake /\ UNCHANGED <<auth, out>>
  BY DEF accept, InHandshake, Handshake, authVars
<1>3. {"kx", "rejected"} \subseteq Phases /\ "kx" \in Handshake /\ "rejected" \notin Handshake
  BY DEF Phases, Handshake
<1>4. CASE permits > 0 /\ permits' = permits - 1 /\ Enter(c, "kx")
  <2>1. /\ phase' \in [Conns -> Phases] /\ phase'[c] = "kx"
        /\ \A d \in Conns : d /= c => phase'[d] = phase[d]
        /\ InHandshake' = InHandshake \union {c}
    BY <1>3, <1>4, EnterStep DEF ServerInv
  <2>2. permits' \in Nat /\ IsFiniteSet(InHandshake)' /\ PermitsAccounted'
    BY <1>2, <1>4, <2>1, PermitTaken DEF ServerInv
  <2>3. HandoffIsClean' BY <1>2, <2>1, CleanKept DEF ServerInv
  <2> QED BY <1>1, <2>1, <2>2, <2>3 DEF ServerInv
<1>5. CASE UNCHANGED permits /\ Enter(c, "rejected")
  <2>1. /\ phase' \in [Conns -> Phases] /\ phase'[c] = "rejected"
        /\ \A d \in Conns : d /= c => phase'[d] = phase[d]
        /\ InHandshake' = InHandshake
    BY <1>2, <1>3, <1>5, EnterStep DEF ServerInv
  <2>2. permits' \in Nat /\ IsFiniteSet(InHandshake)' /\ PermitsAccounted'
    BY <1>5, <2>1, PermitKept DEF ServerInv
  <2>3. HandoffIsClean' BY <1>2, <2>1, CleanKept DEF ServerInv
  <2> QED BY <1>1, <2>1, <2>2, <2>3 DEF ServerInv
<1> QED BY <1>4, <1>5 DEF accept

\* From key exchange to authentication the permit is kept.
LEMMA KeysExchangedInv ==
  ASSUME ServerInv, NEW c \in Conns, KeysExchanged(c)
  PROVE  ServerInv'
<1>1. AuthInv' BY BeginStep DEF KeysExchanged, ServerInv
<1>2. c \in InHandshake /\ Enter(c, "auth") /\ UNCHANGED permits
  BY DEF KeysExchanged, InHandshake, Handshake
<1>3. "auth" \in Phases /\ "auth" \in Handshake BY DEF Phases, Handshake
<1>4. /\ phase' \in [Conns -> Phases] /\ phase'[c] = "auth"
      /\ \A d \in Conns : d /= c => phase'[d] = phase[d]
      /\ InHandshake' = InHandshake
  BY <1>2, <1>3, EnterStep DEF ServerInv
<1>5. permits' \in Nat /\ IsFiniteSet(InHandshake)' /\ PermitsAccounted'
  BY <1>2, <1>4, PermitKept DEF ServerInv
<1>6. \A d \in Conns : d /= c => auth'[d] = auth[d] /\ out'[d] = out[d]
  BY OwnStep DEF KeysExchanged, ServerInv
<1>7. HandoffIsClean' BY <1>4, <1>6, CleanKept DEF ServerInv
<1> QED BY <1>1, <1>4, <1>5, <1>7 DEF ServerInv

\* A key exchange that fails gives it back.
LEMMA KeyExchangeFailsInv ==
  ASSUME ServerInv, NEW c \in Conns, KeyExchangeFails(c)
  PROVE  ServerInv'
<1>1. AuthInv' BY StutterStep DEF KeyExchangeFails, ServerInv
<1>2. c \in InHandshake /\ Enter(c, "closed") /\ permits' = permits + 1 /\ UNCHANGED <<auth, out>>
  BY DEF KeyExchangeFails, InHandshake, Handshake, authVars
<1>3. "closed" \in Phases /\ "closed" \notin Handshake BY DEF Phases, Handshake
<1>4. /\ phase' \in [Conns -> Phases] /\ phase'[c] = "closed"
      /\ \A d \in Conns : d /= c => phase'[d] = phase[d]
      /\ InHandshake' = InHandshake \ {c}
  BY <1>2, <1>3, EnterStep DEF ServerInv
<1>5. permits' \in Nat /\ IsFiniteSet(InHandshake)' /\ PermitsAccounted'
  BY <1>2, <1>4, PermitReturned DEF ServerInv
<1>7. HandoffIsClean' BY <1>2, <1>4, CleanKept DEF ServerInv
<1> QED BY <1>1, <1>4, <1>5, <1>7 DEF ServerInv

\* A step of authenticate, and the return of the permit if it ends it.
LEMMA AuthenticatingInv ==
  ASSUME ServerInv, NEW c \in Conns, Authenticating(c)
  PROVE  ServerInv'
<1>1. AuthInv' BY AuthenticateStepInv DEF Authenticating, ServerInv
<1>2. \A d \in Conns : d /= c => auth'[d] = auth[d] /\ out'[d] = out[d]
  BY OwnStep DEF Authenticating, ServerInv
<1>3. c \in InHandshake /\ phase[c] = "auth" BY DEF Authenticating, InHandshake, Handshake
<1>4. {"spawn", "closed"} \subseteq Phases /\ "spawn" \notin Handshake /\ "closed" \notin Handshake
  BY DEF Phases, Handshake
<1>5. ASSUME NEW x \in {"spawn", "closed"}, Enter(c, x), permits' = permits + 1,
             x = "spawn" => auth'[c].at = "ok"
      PROVE  ServerInv'
  <2>1. /\ phase' \in [Conns -> Phases] /\ phase'[c] = x
        /\ \A d \in Conns : d /= c => phase'[d] = phase[d]
        /\ InHandshake' = InHandshake \ {c}
    BY <1>4, <1>5, EnterStep DEF ServerInv
  <2>2. permits' \in Nat /\ IsFiniteSet(InHandshake)' /\ PermitsAccounted'
    BY <1>3, <1>5, <2>1, PermitReturned DEF ServerInv
  <2>3. x = "spawn" => auth'[c].granted /= {} /\ out'[c] = <<>> BY <1>1, <1>5, ReturnsOk
  <2>4. HandoffIsClean' BY <1>2, <1>5, <2>1, <2>3, CleanKept DEF ServerInv
  <2> QED BY <1>1, <2>1, <2>2, <2>4 DEF ServerInv
<1>6. CASE auth'[c].at = "ok" /\ permits' = permits + 1
             /\ Enter(c, IF out'[c] = <<>> THEN "spawn" ELSE "unflushed")
  <2>1. out'[c] = <<>> BY <1>1, <1>6, ReturnsOk
  <2>2. Enter(c, "spawn") BY <1>6, <2>1
  <2> QED BY <1>5, <1>6, <2>2
<1>7. CASE auth'[c].at = "err" /\ permits' = permits + 1 /\ Enter(c, "closed")
  BY <1>5, <1>7
<1>8. CASE UNCHANGED <<permits, phase>>
  <2>1. InHandshake' = InHandshake BY <1>8 DEF InHandshake
  <2>2. permits' \in Nat /\ IsFiniteSet(InHandshake)' /\ PermitsAccounted'
    BY <1>8, <2>1, PermitKept DEF ServerInv
  <2>3. HandoffIsClean' BY <1>2, <1>3, <1>8, CleanKept DEF ServerInv
  <2> QED BY <1>1, <1>8, <2>2, <2>3 DEF ServerInv
<1> QED BY <1>6, <1>7, <1>8 DEF Authenticating

\* After the handshake: the session process is spawned, and waited for.
LEMMA AfterwardsInv ==
  ASSUME ServerInv, NEW c \in Conns, Spawned(c) \/ Finished(c)
  PROVE  ServerInv'
<1>1. AuthInv' BY StutterStep DEF Spawned, Finished, ServerInv
<1>2. /\ phase[c] \in {"spawn", "serving"} /\ UNCHANGED <<permits, auth, out>>
      /\ Enter(c, "serving") \/ Enter(c, "closed")
  BY DEF Spawned, Finished, authVars
<1>3. PICK x \in {"serving", "closed"} : Enter(c, x) BY <1>2
<1>4. x \in Phases /\ x \notin Handshake BY <1>3 DEF Phases, Handshake
<1>5. /\ phase' \in [Conns -> Phases] /\ phase'[c] = x
      /\ \A d \in Conns : d /= c => phase'[d] = phase[d]
      /\ InHandshake' = InHandshake \ {c}
  BY <1>3, <1>4, EnterStep DEF ServerInv
<1>6. c \notin InHandshake BY <1>2 DEF InHandshake, Handshake
<1>7. permits' \in Nat /\ IsFiniteSet(InHandshake)' /\ PermitsAccounted'
  BY <1>2, <1>5, <1>6, PermitKept DEF ServerInv
<1>8. auth[c].granted /= {} /\ out[c] = <<>> BY <1>2 DEF ServerInv, HandoffIsClean
<1>9. HandoffIsClean' BY <1>2, <1>3, <1>5, <1>8, CleanKept DEF ServerInv
<1> QED BY <1>1, <1>5, <1>7, <1>9 DEF ServerInv

\* What accept leaves alone.
LEMMA OtherInv ==
  ASSUME ServerInv, AuthInv', UNCHANGED <<auth, out, permits, phase>>
  PROVE  ServerInv'
<1>1. InHandshake' = InHandshake BY DEF InHandshake
<1>2. permits' \in Nat /\ IsFiniteSet(InHandshake)' /\ PermitsAccounted'
  BY <1>1, PermitKept DEF ServerInv
<1>3. HandoffIsClean' BY DEF ServerInv, HandoffIsClean
<1> QED BY <1>2, <1>3 DEF ServerInv

\* ServerInv is inductive.
THEOREM ServerInvariant == SpecServer => []ServerInv
<1>1. InitServer => ServerInv
  <2> SUFFICES ASSUME InitServer PROVE ServerInv OBVIOUS
  <2>1. AuthInv BY InitInv DEF InitServer
  <2>2. InHandshake = {} BY DEF InitServer, InHandshake, Handshake
  <2>3. IsFiniteSet(InHandshake) /\ Cardinality(InHandshake) = 0 BY <2>2, FS_EmptySet
  <2>4. permits \in Nat /\ PermitsAccounted BY <2>3, ServerAssumption DEF InitServer, PermitsAccounted
  <2>5. phase \in [Conns -> Phases] /\ HandoffIsClean
    BY DEF InitServer, Phases, HandoffIsClean
  <2> QED BY <2>1, <2>3, <2>4, <2>5 DEF ServerInv
<1>2. ServerInv /\ [NextServer]_serverVars => ServerInv'
  <2> SUFFICES ASSUME ServerInv, [NextServer]_serverVars PROVE ServerInv' OBVIOUS
  <2>1. CASE UNCHANGED serverVars
    <3>1. UNCHANGED authVars /\ UNCHANGED <<auth, out, permits, phase>>
      BY <2>1 DEF serverVars, authVars
    <3>2. AuthInv' BY <3>1, StutterStep DEF ServerInv
    <3> QED BY <3>1, <3>2, OtherInv
  <2>2. CASE StoreStep /\ UNCHANGED <<permits, phase>>
    <3>1. AuthInv' BY <2>2, StoreStepInv DEF ServerInv
    <3>2. UNCHANGED <<auth, out>> BY <2>2 DEF StoreStep, StoreChanges
    <3> QED BY <2>2, <3>1, <3>2, OtherInv
  <2>3. ASSUME NEW c \in Conns, AcceptStep(c) PROVE ServerInv'
    BY <2>3, AcceptInv, KeysExchangedInv, KeyExchangeFailsInv, AuthenticatingInv, AfterwardsInv
       DEF AcceptStep
  <2> QED BY <2>1, <2>2, <2>3 DEF NextServer
<1> QED BY <1>1, <1>2, PTL DEF SpecServer

\* Every state of the server has its type.
THEOREM ServerTypeCorrect == SpecServer => []TypeOKServer
<1>1. ServerInv => TypeOKServer
  <2> SUFFICES ASSUME ServerInv PROVE TypeOKServer OBVIOUS
  <2>1. Cardinality(InHandshake) \in Nat BY FS_CardinalityType DEF ServerInv
  <2>2. permits \in 0..MaxPermits BY <2>1, ServerAssumption DEF ServerInv, PermitsAccounted
  <2> QED BY <2>2 DEF ServerInv, AuthInv, TypeOKServer
<1> QED BY <1>1, ServerInvariant, PTL

\* No path through accept loses or duplicates a permit.
THEOREM NoPermitIsLost == SpecServer => []PermitsAccounted
<1>1. ServerInv => PermitsAccounted BY DEF ServerInv
<1> QED BY <1>1, ServerInvariant, PTL

\* A session process is spawned only for an authenticated connection with
\* nothing left to flush, so accept never reports unflushed bytes.
THEOREM HandoffsAreClean == SpecServer => []HandoffIsClean
<1>1. ServerInv => HandoffIsClean BY DEF ServerInv
<1> QED BY <1>1, ServerInvariant, PTL

\* Connections that share a server do not weaken authentication.
THEOREM ServerIsSound == SpecServer => []SoundAuthentication
<1>1. ServerInv => SoundAuthentication
  BY DEF ServerInv, AuthInv, ConnInv, BaseInv, Evidence, SoundAuthentication
<1> QED BY <1>1, ServerInvariant, PTL

-----------------------------------------------------------------------------

\* The connections accept has been called for.
Seen == {c \in Conns : phase[c] /= "new"}

\* Admission counts as Server does.
LEMMA SameCardinality == \A S : Promise!Cardinality(S) = Cardinality(S)
BY DEF Promise!Cardinality, Cardinality

\* Each step of the server is one of Admission, or invisible to it.
LEMMA AdmissionStep ==
  ASSUME ServerInv, [NextServer]_serverVars
  PROVE  [Promise!NextAdmission]_(Promise!admissionVars)
<1> USE DEF ServerInv
<1>0. ASSUME UNCHANGED phase PROVE UNCHANGED Promise!admissionVars
  BY <1>0 DEF Promise!admissionVars, InHandshake
<1>1. CASE UNCHANGED serverVars BY <1>0, <1>1 DEF serverVars
<1>2. CASE StoreStep /\ UNCHANGED <<permits, phase>> BY <1>0, <1>2
<1>3. ASSUME NEW c \in Conns, accept(c)
      PROVE  [Promise!NextAdmission]_(Promise!admissionVars)
  <2>1. phase[c] = "new" BY <1>3 DEF accept
  <2>2. ASSUME NEW x \in Phases, x /= "new", Enter(c, x)
        PROVE  /\ c \notin Seen /\ Seen' = Seen \union {c}
               /\ x \in Handshake => InHandshake' = InHandshake \union {c}
               /\ x \notin Handshake => InHandshake' = InHandshake
    <3>1. c \notin InHandshake BY <2>1 DEF InHandshake, Handshake
    <3>2. phase'[c] = x /\ \A d \in Conns : d /= c => phase'[d] = phase[d]
      BY <2>2, EnterStep
    <3>3. c \notin Seen /\ Seen' = Seen \union {c} BY <2>1, <2>2, <3>2 DEF Seen
    <3> QED BY <2>2, <3>1, <3>3, EnterStep
  <2>3. {"kx", "rejected"} \subseteq Phases /\ "kx" \in Handshake /\ "rejected" \notin Handshake
    BY DEF Phases, Handshake
  <2>4. Cardinality(InHandshake) \in Nat BY FS_CardinalityType
  <2>5. CASE permits > 0 /\ Enter(c, "kx")
    <3>1. Cardinality(InHandshake) < MaxPermits
      BY <2>4, <2>5, ServerAssumption DEF PermitsAccounted
    <3>2. c \notin Seen /\ Seen' = Seen \union {c} /\ InHandshake' = InHandshake \union {c}
      BY <2>2, <2>3, <2>5
    <3>3. Promise!Admit(c) BY <3>1, <3>2, SameCardinality DEF Promise!Admit, Seen
    <3> QED BY <3>3 DEF Promise!NextAdmission
  <2>6. CASE permits = 0 /\ Enter(c, "rejected")
    <3>1. Cardinality(InHandshake) = MaxPermits
      BY <2>4, <2>6, ServerAssumption DEF PermitsAccounted
    <3>2. c \notin Seen /\ Seen' = Seen \union {c} /\ InHandshake' = InHandshake
      BY <2>2, <2>3, <2>6
    <3>3. Promise!TurnAway(c) BY <3>1, <3>2, SameCardinality DEF Promise!TurnAway, Seen
    <3> QED BY <3>3 DEF Promise!NextAdmission
  <2> QED BY <1>3, <2>5, <2>6 DEF accept
<1>4. ASSUME NEW c \in Conns, NEW x \in Phases, x /= "new", phase[c] /= "new", Enter(c, x),
             x \in Handshake => c \in InHandshake
      PROVE  [Promise!NextAdmission]_(Promise!admissionVars)
  <2>1. phase'[c] = x /\ \A d \in Conns : d /= c => phase'[d] = phase[d]
    BY <1>4, EnterStep
  <2>2. Seen' = Seen BY <1>4, <2>1 DEF Seen
  <2>3. CASE c \in InHandshake /\ x \notin Handshake
    <3>1. InHandshake' = InHandshake \ {c} BY <1>4, <2>3, EnterStep
    <3>2. Promise!Leave(c) BY <2>2, <2>3, <3>1 DEF Promise!Leave, Seen
    <3> QED BY <3>2 DEF Promise!NextAdmission
  <2>4. CASE c \notin InHandshake \/ x \in Handshake
    <3>1. InHandshake' = InHandshake BY <1>4, <2>4, EnterStep
    <3> QED BY <2>2, <3>1 DEF Promise!admissionVars, Seen
  <2> QED BY <2>3, <2>4
<1>5. ASSUME NEW c \in Conns,
             KeysExchanged(c) \/ KeyExchangeFails(c) \/ Authenticating(c) \/ Spawned(c) \/ Finished(c)
      PROVE  [Promise!NextAdmission]_(Promise!admissionVars)
  <2>1. CASE KeysExchanged(c)
    BY <1>4, <2>1 DEF KeysExchanged, Phases, Handshake, InHandshake
  <2>2. CASE KeyExchangeFails(c)
    BY <1>4, <2>2 DEF KeyExchangeFails, Phases, Handshake
  <2>3. CASE Spawned(c) \/ Finished(c)
    BY <1>4, <2>3 DEF Spawned, Finished, Phases, Handshake
  <2>4. CASE Authenticating(c)
    <3>1. phase[c] = "auth"
          /\ (UNCHANGED phase \/ \E x \in {"spawn", "unflushed", "closed"} : Enter(c, x))
      BY <2>4 DEF Authenticating
    <3>2. ASSUME NEW x \in {"spawn", "unflushed", "closed"}, Enter(c, x)
          PROVE  [Promise!NextAdmission]_(Promise!admissionVars)
      BY <1>4, <3>1, <3>2 DEF Phases, Handshake
    <3> QED BY <1>0, <3>1, <3>2
  <2> QED BY <1>5, <2>1, <2>2, <2>3, <2>4
<1> QED BY <1>1, <1>2, <1>3, <1>5 DEF NextServer, AcceptStep

\* The server implements Admission: at most MaxPermits connections are in
\* their handshake, and one is turned away only when there are that many.
THEOREM ServerImplementsAdmission == SpecServer => ImplementsAdmission
<1>1. InitServer => Promise!InitAdmission
  BY DEF InitServer, Promise!InitAdmission, InHandshake, Handshake
<1> QED BY <1>1, AdmissionStep, ServerInvariant, PTL
        DEF SpecServer, ImplementsAdmission, Promise!SpecAdmission
=============================================================================
