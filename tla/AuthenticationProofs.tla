------------------------ MODULE AuthenticationProofs ------------------------
(***************************************************************************)
(* Type correctness and soundness of Authentication, for every number of   *)
(* connections, every user store however often it is edited, every set of  *)
(* packets and every limit on attempts.                                    *)
(*                                                                         *)
(* The invariant that is inductive, AuthInv, speaks of one connection at a *)
(* time (ConnInv): the cached user is one the store has held, a signature  *)
(* check under way is for the user the request named, with an entry of     *)
(* that user's file or with the fake key, and a grant has its evidence.    *)
(***************************************************************************)
EXTENDS Authentication, FiniteSetTheorems, SequenceTheorems, TLAPS

\* What a grant rests on, for the locals a of connection c, when the store
\* has held K.
Evidence(c, a, g, K) ==
  \E j \in a.job :
    LET r == j.request IN
    /\ r.user = g.user
    /\ \E sig \in r.signature :
         sig.by = r.key.blob /\ sig.over = [session |-> c, user |-> g.user, key |-> r.key]
    /\ \E u \in K : u.name = g.user
         /\ \E e \in authorized_key(u.keys, r.key) : e.options = g.options
    /\ g.user \in Root => AllowRoot

Admissible(u, K) == (u \in K \/ u.keys = <<>>) /\ (u.name \in Root => AllowRoot)

\* The check j was started for the cached user.
JobOK(a, j) ==
  /\ j.request \in UserAuthRequest
  /\ \E u \in a.cached :
       /\ a.cached = {u} /\ u.name = j.user /\ u.name = j.request.user
       /\ \/ j.entry \in authorized_key(u.keys, j.request.key)
          \/ j.entry.key.blob = FakeBlob

\* What holds of the locals between any two awaits, inside a handler too.
BaseInv(c, a, K) ==
  /\ a \in Authenticate
  /\ \A u \in a.cached : Admissible(u, K)
  /\ a.granted /= {} <=> a.state = "Complete"
  /\ \A g \in a.granted : Evidence(c, a, g, K)

ConnInv(c, a, K) ==
  /\ BaseInv(c, a, K)
  /\ a.at \notin {"notify", "err"} => a.attempts > 0
  /\ a.at = "verify" => \A j \in a.job : JobOK(a, j)
  /\ a.state = "Complete" => a.at \in {"flush", "ok", "notify", "err"}
  /\ a.at = "ok" => a.state = "Complete"

StoreIsKnown == \A u \in Users : [name |-> u, keys |-> store[u]] \in known

\* authenticate does not return Ok before its buffer is empty.
Delivered == \A c \in Conns : auth[c].at = "ok" => out[c] = <<>>

AuthInv ==
  /\ TypeOKAuthentication
  /\ StoreIsKnown
  /\ Delivered
  /\ \A c \in Conns : ConnInv(c, auth[c], known)

-----------------------------------------------------------------------------

\* A step of one connection that keeps ConnInv keeps the invariant.
LEMMA ConnStep ==
  ASSUME AuthInv, NEW c \in Conns, NEW a, ConnInv(c, a, known),
         auth' = [auth EXCEPT ![c] = a], UNCHANGED <<store, known>>,
         out' \in [Conns -> Seq(Reply)], sent' \in [Conns -> Seq(Reply)],
         \A d \in Conns : d /= c => out'[d] = out[d],
         a.at = "ok" => out'[c] = <<>>
  PROVE  AuthInv'
<1>1. auth' \in [Conns -> Authenticate] /\ auth'[c] = a
      /\ \A d \in Conns : d /= c => auth'[d] = auth[d]
  BY DEF AuthInv, TypeOKAuthentication, ConnInv, BaseInv
<1>2. \A d \in Conns : ConnInv(d, auth'[d], known)
  BY <1>1 DEF AuthInv
<1>3. \A d \in Conns : ConnInv(d, auth'[d], known')
  BY <1>2
<1>5. \A d \in Conns : auth'[d].at \notin {"notify", "err"} => auth'[d].attempts > 0
  BY <1>2 DEF ConnInv
<1>6. TypeOKAuthentication'
  BY <1>1, <1>5 DEF AuthInv, TypeOKAuthentication
<1>7. StoreIsKnown'
  BY DEF AuthInv, StoreIsKnown
<1>8. Delivered'
  BY <1>1 DEF AuthInv, Delivered
<1> QED BY <1>3, <1>6, <1>7, <1>8 DEF AuthInv

\* The first request has attempts left.
LEMMA AttemptsFacts == MAX_ATTEMPTS \in 0..MAX_ATTEMPTS /\ MAX_ATTEMPTS > 0
<1>1. MAX_ATTEMPTS \in 2..255 BY AuthenticationAssumption
<1> QED BY <1>1

\* A stuttering step keeps the invariant.
LEMMA StutterStep ==
  ASSUME AuthInv, UNCHANGED authVars
  PROVE  AuthInv'
BY DEF AuthInv, authVars, TypeOKAuthentication, StoreIsKnown, Delivered

\* Going to another await keeps the invariant, if it is not the signature
\* check and, with the success decided, no way back to the next packet.
LEMMA AtStep ==
  ASSUME NEW c \in Conns, NEW a, BaseInv(c, a, known),
         NEW x \in {"receive", "flush", "notify", "ok", "err"},
         x \in {"receive", "flush", "ok"} => a.attempts > 0,
         a.state = "Complete" => x /= "receive",
         x = "ok" => a.state = "Complete"
  PROVE  ConnInv(c, [a EXCEPT !.at = x], known) /\ [a EXCEPT !.at = x].at = x
<1> DEFINE b == [a EXCEPT !.at = x]
<1>1. /\ b \in Authenticate /\ b.at = x
      /\ b.state = a.state /\ b.cached = a.cached /\ b.attempts = a.attempts
      /\ b.job = a.job /\ b.granted = a.granted
  BY DEF BaseInv, Authenticate
<1> HIDE DEF b
<1>2. \A g \in b.granted : Evidence(c, b, g, known)
  BY <1>1 DEF BaseInv, Evidence
<1>3. BaseInv(c, b, known)
  BY <1>1, <1>2 DEF BaseInv
<1>4. ConnInv(c, b, known)
  BY <1>1, <1>3 DEF ConnInv
<1> QED BY <1>1, <1>4 DEF b

\* Encoding an answer keeps the invariant.
LEMMA AnswerStep ==
  ASSUME AuthInv, NEW c \in Conns, NEW a, BaseInv(c, a, known), a.attempts > 0,
         NEW m \in Reply, Answer(c, a, m)
  PROVE  AuthInv'
<1>1. ConnInv(c, [a EXCEPT !.at = "flush"], known) /\ [a EXCEPT !.at = "flush"].at = "flush"
  BY AtStep
<1>2. /\ out' \in [Conns -> Seq(Reply)] /\ sent' \in [Conns -> Seq(Reply)]
      /\ \A d \in Conns : d /= c => out'[d] = out[d]
  BY DEF Answer, AuthInv, TypeOKAuthentication
<1> QED BY <1>1, <1>2, ConnStep DEF Answer

\* Giving up keeps the invariant.
LEMMA AbortStep ==
  ASSUME AuthInv, NEW c \in Conns, NEW a, BaseInv(c, a, known), Abort(c, a)
  PROVE  AuthInv'
<1>1. ConnInv(c, [a EXCEPT !.at = "notify"], known) /\ [a EXCEPT !.at = "notify"].at = "notify"
  BY AtStep
<1>2. "Disconnect" \in Reply BY DEF Reply
<1>3. /\ out' \in [Conns -> Seq(Reply)] /\ sent' \in [Conns -> Seq(Reply)]
      /\ \A d \in Conns : d /= c => out'[d] = out[d]
  BY <1>2 DEF Abort, AuthInv, TypeOKAuthentication
<1> QED BY <1>1, <1>3, ConnStep DEF Abort

-----------------------------------------------------------------------------

\* A lookup gives the named user as the store has it, or one without keys, and
\* root only if the policy allows it.
LEMMA LookupFacts ==
  ASSUME AuthInv, NEW name
  PROVE  \A u \in lookup(name) : u \in CachedUser /\ Admissible(u, known) /\ u.name = name
<1> SUFFICES ASSUME NEW u \in lookup(name)
             PROVE  u \in CachedUser /\ Admissible(u, known) /\ u.name = name
  OBVIOUS
<1>1. /\ name \in Accounts /\ (name \in Root => AllowRoot)
      /\ u = [name |-> name, keys |-> IF name \in Users THEN store[name] ELSE <<>>]
  BY AuthenticationAssumption DEF lookup
<1>2. CASE name \in Users
  <2>1. u = [name |-> name, keys |-> store[name]] BY <1>1, <1>2
  <2>2. u \in known BY <1>2, <2>1 DEF AuthInv, StoreIsKnown
  <2>3. u \in CachedUser BY <1>1, <1>2, <2>1 DEF AuthInv, TypeOKAuthentication, CachedUser
  <2> QED BY <1>1, <2>1, <2>2, <2>3 DEF Admissible
<1>3. CASE name \notin Users
  <2>1. u = [name |-> name, keys |-> <<>>] BY <1>1, <1>3
  <2>2. u \in CachedUser BY <1>1, <2>1 DEF CachedUser
  <2> QED BY <1>1, <2>1, <2>2 DEF Admissible
<1> QED BY <1>2, <1>3

\* So does resolve, from the cache too.
LEMMA ResolveFacts ==
  ASSUME AuthInv, NEW c \in Conns, NEW a, BaseInv(c, a, known), NEW name
  PROVE  \A u \in resolve(a.cached, name) :
           u \in CachedUser /\ Admissible(u, known) /\ u.name = name
<1>1. \A u \in a.cached : u \in CachedUser /\ Admissible(u, known)
  BY DEF BaseInv, Authenticate
<1> QED BY <1>1, LookupFacts DEF resolve

\* The key of a check is an entry of the file for the key of the request, or
\* it is the fake key.
LEMMA VerifierFacts ==
  ASSUME NEW p \in UserAuthRequest, NEW u \in CachedUser, NEW sig,
         NEW e \in verifier(p, sig, authorized_key(u.keys, p.key))
  PROVE  e \in Entry /\ (e \in authorized_key(u.keys, p.key) \/ e.key.blob = FakeBlob)
<1>1. u.keys \in Seq(Entry)
  <2>1. u.keys \in KeyFiles \union {<<>>} BY DEF CachedUser
  <2>2. \A f \in KeyFiles : f \in Seq(Entry) BY AuthenticationAssumption
  <2>3. <<>> \in Seq(Entry) OBVIOUS
  <2> QED BY <2>1, <2>2, <2>3
<1>2. CASE e \in authorized_key(u.keys, p.key)
  <2>1. e \in Entry BY <1>1, <1>2 DEF authorized_key
  <2> QED BY <1>2, <2>1
<1>3. CASE e \in fake_key(p.key.alg)
  <2>1. e = [key |-> [alg |-> p.key.alg, blob |-> FakeBlob], options |-> NoOptions]
        /\ p.key.alg \in Supported
    BY <1>3 DEF fake_key
  <2>2. e \in Entry BY <2>1, AuthenticationAssumption DEF Entry, PublicKey
  <2> QED BY <2>1, <2>2
<1> QED BY <1>2, <1>3 DEF verifier

\* A packet of this type is such a request.
LEMMA RequestType ==
  ASSUME NEW p \in Packets, p.type = "UserAuthRequest"
  PROVE  p \in UserAuthRequest
<1>1. p \in Packet BY AuthenticationAssumption
<1>2. p \in [type : {"ServiceRequest"}, ok : BOOLEAN] => p.type = "ServiceRequest" OBVIOUS
<1>3. p \in [type : {"Ignore", "Disconnect", "Other"}] => p.type \in {"Ignore", "Disconnect", "Other"}
  OBVIOUS
<1> QED BY <1>1, <1>2, <1>3 DEF Packet

-----------------------------------------------------------------------------

\* A service request, before which nobody is cached.
LEMMA ServiceStep ==
  ASSUME AuthInv, NEW c \in Conns, NEW p, auth[c].at = "receive", handle_service(c, p)
  PROVE  AuthInv'
<1> DEFINE a == auth[c]
           b == [a EXCEPT !.state = "AwaitAuthRequest", !.cached = {}, !.attempts = MAX_ATTEMPTS]
<1>1. BaseInv(c, a, known) /\ a.state = "AwaitServiceRequest" /\ a.granted = {}
  BY DEF AuthInv, ConnInv, BaseInv, handle_service
<1>2. MAX_ATTEMPTS \in 0..MAX_ATTEMPTS /\ MAX_ATTEMPTS > 0 BY AttemptsFacts
<1>7. a \in Authenticate BY <1>1 DEF BaseInv
<1>8. /\ b \in Authenticate /\ b.cached = {} /\ b.granted = a.granted
      /\ b.attempts = MAX_ATTEMPTS /\ b.state = "AwaitAuthRequest"
  <2> HIDE DEF a
  <2> QED BY <1>2, <1>7 DEF Authenticate
<1>3. BaseInv(c, b, known) BY <1>1, <1>8 DEF BaseInv
<1>4. "ServiceAccept" \in Reply BY DEF Reply
<1>5. CASE Abort(c, a) BY <1>1, <1>5, AbortStep
<1>6. CASE Answer(c, b, "ServiceAccept") BY <1>2, <1>3, <1>4, <1>6, <1>8, AnswerStep
<1> QED BY <1>5, <1>6 DEF handle_service

\* Caching the user a name resolves to.
LEMMA CacheStep ==
  ASSUME AuthInv, NEW c \in Conns, NEW a, BaseInv(c, a, known), a.state = "AwaitAuthRequest",
         NEW name, NEW u \in resolve(a.cached, name)
  PROVE  LET b == [a EXCEPT !.cached = {u}] IN
         /\ BaseInv(c, b, known) /\ b.attempts = a.attempts
         /\ b.state = a.state /\ b.cached = {u}
<1> DEFINE b == [a EXCEPT !.cached = {u}]
<1>1. u \in CachedUser /\ Admissible(u, known) BY ResolveFacts
<1>2. a \in Authenticate /\ a.granted = {} BY DEF BaseInv
<1>3. /\ b \in Authenticate /\ b.cached = {u} /\ b.granted = a.granted
      /\ b.attempts = a.attempts /\ b.state = a.state
  BY <1>1, <1>2 DEF Authenticate
<1> HIDE DEF b
<1>4. BaseInv(c, b, known) BY <1>1, <1>2, <1>3 DEF BaseInv
<1> QED BY <1>3, <1>4 DEF b

\* The user request with the publickey method, from the locals a with one
\* attempt less.
LEMMA PublicKeyStep ==
  ASSUME AuthInv, NEW c \in Conns, NEW p \in Packets, p.type = "UserAuthRequest",
         NEW a, BaseInv(c, a, known), a.attempts > 0, a.state = "AwaitAuthRequest", a.job = {},
         handle_publickey(c, p, a)
  PROVE  AuthInv'
<1>0. "Failure" \in Reply /\ "PkOk" \in Reply BY DEF Reply
<1>1. CASE Answer(c, a, "Failure") BY <1>0, <1>1, AnswerStep
<1>2. ASSUME NEW u \in resolve(a.cached, p.user),
             Answer(c, [a EXCEPT !.cached = {u}], "Failure")
               \/ Answer(c, [a EXCEPT !.cached = {u}], "PkOk")
      PROVE  AuthInv'
  <2> DEFINE b == [a EXCEPT !.cached = {u}]
  <2>1. BaseInv(c, b, known) /\ b.attempts = a.attempts BY CacheStep
  <2> HIDE DEF b
  <2>2. Answer(c, b, "Failure") \/ Answer(c, b, "PkOk") BY <1>2 DEF b
  <2> QED BY <1>0, <2>1, <2>2, AnswerStep
<1>3. ASSUME NEW u \in resolve(a.cached, p.user), NEW job,
             job = {[request |-> p, entry |-> e, user |-> u.name] :
                      e \in UNION {verifier(p, sig, authorized_key(u.keys, p.key)) :
                                     sig \in p.signature}},
             auth' = [auth EXCEPT ![c] = [[a EXCEPT !.cached = {u}] EXCEPT !.at = "verify", !.job = job]],
             UNCHANGED <<store, known, out, sent>>
      PROVE  AuthInv'
  <2> DEFINE b == [a EXCEPT !.cached = {u}]
             d == [b EXCEPT !.at = "verify", !.job = job]
  <2>1. BaseInv(c, b, known) /\ b.attempts = a.attempts /\ b.state = a.state /\ b.cached = {u}
    BY CacheStep
  <2>2. p \in UserAuthRequest BY RequestType
  <2>3. u \in CachedUser /\ u.name = p.user /\ u.name \in Accounts
    BY ResolveFacts DEF CachedUser
  <2>4. \A j \in job : /\ j.request = p /\ j.user = u.name /\ j.entry \in Entry
                       /\ j.entry \in authorized_key(u.keys, p.key) \/ j.entry.key.blob = FakeBlob
                       /\ j \in Job
    <3> SUFFICES ASSUME NEW j \in job
                 PROVE  /\ j.request = p /\ j.user = u.name /\ j.entry \in Entry
                        /\ j.entry \in authorized_key(u.keys, p.key) \/ j.entry.key.blob = FakeBlob
                        /\ j \in Job
      OBVIOUS
    <3>1. PICK sig \in p.signature : \E e \in verifier(p, sig, authorized_key(u.keys, p.key)) :
                 j = [request |-> p, entry |-> e, user |-> u.name]
      BY <1>3
    <3>2. PICK e \in verifier(p, sig, authorized_key(u.keys, p.key)) :
                 j = [request |-> p, entry |-> e, user |-> u.name]
      BY <3>1
    <3>3. e \in Entry /\ (e \in authorized_key(u.keys, p.key) \/ e.key.blob = FakeBlob)
      BY <2>2, <2>3, <3>2, VerifierFacts
    <3> QED BY <2>3, <3>2, <3>3 DEF Job
  <2>5. job \in SUBSET Job BY <2>4
  <2>6. b \in Authenticate /\ b.granted = {} BY <2>1 DEF BaseInv
  <2> HIDE DEF b
  <2>7. /\ d \in Authenticate /\ d.at = "verify" /\ d.job = job /\ d.cached = b.cached
        /\ d.granted = b.granted /\ d.state = b.state /\ d.attempts = b.attempts
    BY <2>5, <2>6 DEF Authenticate
  <2> HIDE DEF d
  <2>8. BaseInv(c, d, known) BY <2>1, <2>6, <2>7 DEF BaseInv
  <2>9. \A j \in d.job : JobOK(d, j)
    <3> SUFFICES ASSUME NEW j \in d.job PROVE JobOK(d, j) OBVIOUS
    <3>1. d.cached = {u} /\ u \in d.cached BY <2>1, <2>7
    <3>2. /\ j.request = p /\ j.user = u.name
          /\ j.entry \in authorized_key(u.keys, p.key) \/ j.entry.key.blob = FakeBlob
      BY <2>4, <2>7
    <3> QED BY <2>2, <2>3, <3>1, <3>2 DEF JobOK
  <2>10. ConnInv(c, d, known) BY <2>1, <2>7, <2>8, <2>9 DEF ConnInv
  <2>11. auth' = [auth EXCEPT ![c] = d] BY <1>3 DEF b, d
  <2>12. out' \in [Conns -> Seq(Reply)] /\ sent' \in [Conns -> Seq(Reply)]
    BY <1>3 DEF AuthInv, TypeOKAuthentication
  <2> QED BY <1>3, <2>7, <2>10, <2>11, <2>12, ConnStep
<1> QED BY <1>1, <1>2, <1>3 DEF handle_publickey

\* A user request takes one attempt, and the last one ends it all.
LEMMA AuthRequestStep ==
  ASSUME AuthInv, NEW c \in Conns, NEW p \in Packets, auth[c].at = "receive",
         handle_auth_request(c, p)
  PROVE  AuthInv'
<1> DEFINE a == [auth[c] EXCEPT !.attempts = @ - 1, !.job = {}]
<1>1. /\ BaseInv(c, auth[c], known) /\ auth[c].attempts > 0
      /\ auth[c].state = "AwaitAuthRequest" /\ p.type = "UserAuthRequest"
  BY DEF AuthInv, ConnInv, handle_auth_request
<1>2. auth[c] \in Authenticate /\ auth[c].granted = {} BY <1>1 DEF BaseInv
<1>3. auth[c].attempts - 1 \in 0..MAX_ATTEMPTS
  BY <1>1, <1>2, AuthenticationAssumption DEF Authenticate
<1>4. /\ a \in Authenticate /\ a.attempts = auth[c].attempts - 1 /\ a.job = {}
      /\ a.cached = auth[c].cached /\ a.granted = {} /\ a.state = "AwaitAuthRequest"
  BY <1>1, <1>2, <1>3 DEF Authenticate
<1>5. \/ Abort(c, a)
      \/ a.attempts /= 0 /\ (Answer(c, a, "Failure") \/ handle_publickey(c, p, a))
  BY DEF handle_auth_request
<1> HIDE DEF a
<1>6. BaseInv(c, a, known) BY <1>1, <1>4 DEF BaseInv
<1>7. CASE Abort(c, a) BY <1>6, <1>7, AbortStep
<1>8. a.attempts \in Int /\ a.attempts >= 0 BY <1>3, <1>4, AuthenticationAssumption
<1>9. CASE a.attempts /= 0 /\ Answer(c, a, "Failure")
  <2>2. a.attempts > 0 BY <1>8, <1>9
  <2>1. "Failure" \in Reply BY DEF Reply
  <2> QED BY <1>6, <1>9, <2>1, <2>2, AnswerStep
<1>10. CASE a.attempts /= 0 /\ handle_publickey(c, p, a)
  <2>1. a.attempts > 0 BY <1>8, <1>10
  <2> QED BY <1>1, <1>4, <1>6, <1>10, <2>1, PublicKeyStep
<1> QED BY <1>5, <1>7, <1>9, <1>10

\* Any packet.
LEMMA HandleStep ==
  ASSUME AuthInv, NEW c \in Conns, NEW p \in Packets, handle(c, p)
  PROVE  AuthInv'
<1>1. auth[c].at = "receive" /\ BaseInv(c, auth[c], known) BY DEF handle, AuthInv, ConnInv
<1>2. CASE UNCHANGED authVars BY <1>2, StutterStep
<1>3. CASE handle_service(c, p) BY <1>1, <1>3, ServiceStep
<1>4. CASE handle_auth_request(c, p) BY <1>1, <1>4, AuthRequestStep
<1>5. CASE Abort(c, auth[c]) BY <1>1, <1>5, AbortStep
<1> QED BY <1>2, <1>3, <1>4, <1>5 DEF handle

\* The one step that grants: nobody holds the private key of the fake key, so
\* a signature that checks out was made with an entry of the user's file.
LEMMA VerifiedStep ==
  ASSUME AuthInv, NEW c \in Conns, Verified(c)
  PROVE  AuthInv'
<1> DEFINE a == auth[c]
<1>1. BaseInv(c, a, known) /\ a.at = "verify" /\ a.attempts > 0 /\ a.state /= "Complete"
  BY DEF Verified, AuthInv, ConnInv
<1>2. a \in Authenticate /\ a.granted = {} BY <1>1 DEF BaseInv
<1>3. "Success" \in Reply /\ "Failure" \in Reply BY DEF Reply
<1>4. PICK j \in a.job :
        IF verify(c, j)
        THEN Answer(c, [a EXCEPT !.state = "Complete",
                         !.granted = {[user |-> u.name, options |-> j.entry.options] :
                                        u \in a.cached}], "Success")
        ELSE Answer(c, [a EXCEPT !.job = {}], "Failure")
  BY DEF Verified
<1>5. JobOK(a, j) BY <1>1, <1>4 DEF AuthInv, ConnInv
<1>6. CASE ~verify(c, j)
  <2> DEFINE b == [a EXCEPT !.job = {}]
  <2> HIDE DEF a
  <2>1. /\ b \in Authenticate /\ b.granted = a.granted /\ b.cached = a.cached
        /\ b.attempts = a.attempts /\ b.state = a.state
    BY <1>2 DEF Authenticate
  <2>2. BaseInv(c, b, known)
    <3> HIDE DEF b
    <3> QED BY <1>1, <1>2, <2>1 DEF BaseInv
  <2>3. Answer(c, b, "Failure") BY <1>4, <1>6
  <2> HIDE DEF b
  <2> QED BY <1>1, <1>3, <2>1, <2>2, <2>3, AnswerStep
<1>7. CASE verify(c, j)
  <2>1. PICK u \in a.cached :
          /\ a.cached = {u} /\ u.name = j.user /\ u.name = j.request.user
          /\ \/ j.entry \in authorized_key(u.keys, j.request.key)
             \/ j.entry.key.blob = FakeBlob
    BY <1>5 DEF JobOK
  <2>2. PICK sig \in j.request.signature :
          /\ sig.by = j.entry.key.blob
          /\ sig.over = [session |-> c, user |-> j.user, key |-> j.request.key]
    BY <1>7 DEF verify
  <2>3. j.request \in UserAuthRequest BY <1>5 DEF JobOK
  <2>4. sig.by \in Blobs BY <2>2, <2>3 DEF UserAuthRequest, Signature
  <2>5. j.entry \in authorized_key(u.keys, j.request.key)
    BY <2>1, <2>2, <2>4, AuthenticationAssumption
  <2>6. j.entry.key = j.request.key BY <2>5 DEF authorized_key
  <2>7. Admissible(u, known) BY <1>1, <2>1 DEF BaseInv
  <2> DEFINE g == [user |-> u.name, options |-> j.entry.options]
             G == {[user |-> v.name, options |-> j.entry.options] : v \in a.cached}
             b == [a EXCEPT !.state = "Complete", !.granted = G]
  <2>8. G = {g} BY <2>1
  <2>9. g \in [user : Accounts, options : Options]
    <3>1. u \in CachedUser /\ j \in Job BY <1>2, <1>4, <2>1 DEF Authenticate
    <3>2. u.name \in Accounts BY <3>1 DEF CachedUser
    <3>3. j.entry \in Entry BY <3>1 DEF Job
    <3>4. j.entry.options \in Options BY <3>3 DEF Entry
    <3> QED BY <3>2, <3>4
  <2>10. g.user = u.name /\ g.options = j.entry.options OBVIOUS
  <2>11. Answer(c, b, "Success") BY <1>4, <1>7
  <2>12. G \in SUBSET [user : Accounts, options : Options] BY <2>8, <2>9
  <2> HIDE DEF a, g, G
  <2>13. /\ b \in Authenticate /\ b.granted = G /\ b.cached = a.cached
         /\ b.attempts = a.attempts /\ b.job = a.job /\ b.state = "Complete"
    BY <1>2, <2>12 DEF Authenticate
  <2> HIDE DEF b
  <2>14. Evidence(c, b, g, known)
    <3>1. sig.by = j.request.key.blob BY <2>2, <2>6
    <3>2. sig.over = [session |-> c, user |-> g.user, key |-> j.request.key]
      BY <2>1, <2>2, <2>10
    <3>3. u \in known /\ u.name = g.user /\ (g.user \in Root => AllowRoot)
      <4>1. u.keys /= <<>> BY <2>5 DEF authorized_key
      <4> QED BY <2>7, <2>10, <4>1 DEF Admissible
    <3>4. j.request.user = g.user /\ j \in b.job BY <1>4, <2>1, <2>10, <2>13
    <3> QED BY <2>2, <2>5, <2>10, <3>1, <3>2, <3>3, <3>4 DEF Evidence
  <2>15. BaseInv(c, b, known) BY <1>1, <2>8, <2>13, <2>14 DEF BaseInv
  <2> QED BY <1>1, <1>3, <2>11, <2>13, <2>15, AnswerStep
<1> QED BY <1>6, <1>7

\* authenticate begins.
LEMMA BeginStep ==
  ASSUME AuthInv, NEW c \in Conns, Begin(c)
  PROVE  AuthInv'
<1>1. BaseInv(c, auth[c], known) /\ auth[c].at = "idle" /\ auth[c].state /= "Complete"
      /\ auth[c].attempts > 0
  BY DEF Begin, AuthInv, ConnInv
<1>3. /\ ConnInv(c, [auth[c] EXCEPT !.at = "receive"], known)
      /\ [auth[c] EXCEPT !.at = "receive"].at = "receive"
  BY <1>1, AtStep
<1>4. auth' = [auth EXCEPT ![c] = [auth[c] EXCEPT !.at = "receive"]] BY DEF Begin
<1>5. out' \in [Conns -> Seq(Reply)] /\ sent' \in [Conns -> Seq(Reply)]
  BY DEF Begin, AuthInv, TypeOKAuthentication
<1> QED BY <1>3, <1>4, <1>5, ConnStep DEF Begin

\* A flush that ends.
LEMMA FlushedStep ==
  ASSUME AuthInv, NEW c \in Conns, Flushed(c)
  PROVE  AuthInv'
<1> DEFINE x == IF auth[c].state = "Complete" THEN "ok" ELSE "receive"
<1>1. BaseInv(c, auth[c], known) /\ auth[c].attempts > 0
  BY DEF Flushed, AuthInv, ConnInv
<1>2. /\ x \in {"ok", "receive"} /\ (auth[c].state = "Complete" => x /= "receive")
      /\ x = "ok" => auth[c].state = "Complete"
  OBVIOUS
<1>3. auth' = [auth EXCEPT ![c] = [auth[c] EXCEPT !.at = x]] BY DEF Flushed
<1> HIDE DEF x
<1>4. ConnInv(c, [auth[c] EXCEPT !.at = x], known) BY <1>1, <1>2, AtStep
<1>5. sent[c] \o out[c] \in Seq(Reply) BY DEF AuthInv, TypeOKAuthentication
<1>6. /\ out' \in [Conns -> Seq(Reply)] /\ sent' \in [Conns -> Seq(Reply)]
      /\ out'[c] = <<>> /\ \A d \in Conns : d /= c => out'[d] = out[d]
  BY <1>5 DEF Flushed, AuthInv, TypeOKAuthentication
<1> QED BY <1>3, <1>4, <1>6, ConnStep DEF Flushed

\* The last flush.
LEMMA NotifyStep ==
  ASSUME AuthInv, NEW c \in Conns, NotifySends(c) \/ NotifyEnds(c)
  PROVE  AuthInv'
<1>1. BaseInv(c, auth[c], known)
  BY DEF AuthInv, ConnInv
<1>2. PICK x \in {"err", "notify"} : auth' = [auth EXCEPT ![c] = [auth[c] EXCEPT !.at = x]]
  <2>1. CASE NotifyEnds(c) BY <2>1 DEF NotifyEnds
  <2>2. CASE NotifySends(c)
    <3>1. CASE Tail(out[c]) = <<>> BY <2>2, <3>1 DEF NotifySends
    <3>2. CASE Tail(out[c]) /= <<>> BY <2>2, <3>2 DEF NotifySends
    <3> QED BY <3>1, <3>2
  <2> QED BY <2>1, <2>2
<1>3. ConnInv(c, [auth[c] EXCEPT !.at = x], known) /\ [auth[c] EXCEPT !.at = x].at = x
  <2>1. x /= "receive" /\ x /= "flush" /\ x /= "ok" BY <1>2
  <2>2. x \in {"receive", "flush", "notify", "ok", "err"} BY <1>2
  <2> QED BY <1>1, <2>1, <2>2, AtStep
<1>4. /\ out' \in [Conns -> Seq(Reply)] /\ sent' \in [Conns -> Seq(Reply)]
      /\ \A d \in Conns : d /= c => out'[d] = out[d]
  <2>1. CASE NotifyEnds(c) BY <2>1 DEF NotifyEnds, AuthInv, TypeOKAuthentication
  <2>2. CASE NotifySends(c)
    <3>1. out[c] \in Seq(Reply) /\ out[c] /= <<>> /\ sent[c] \in Seq(Reply)
      BY <2>2 DEF NotifySends, AuthInv, TypeOKAuthentication
    <3>2. Head(out[c]) \in Reply /\ Tail(out[c]) \in Seq(Reply) BY <3>1
    <3>3. Append(sent[c], Head(out[c])) \in Seq(Reply) BY <3>1, <3>2
    <3> QED BY <2>2, <3>2, <3>3 DEF NotifySends, AuthInv, TypeOKAuthentication
  <2> QED BY <2>1, <2>2
<1>5. UNCHANGED <<store, known>> BY DEF NotifySends, NotifyEnds
<1> QED BY <1>2, <1>3, <1>4, <1>5, ConnStep

\* A packet, a check that returns, or a limit that passes.
LEMMA AuthenticateStepInv ==
  ASSUME AuthInv, NEW c \in Conns, AuthenticateStep(c)
  PROVE  AuthInv'
<1>1. BaseInv(c, auth[c], known) BY DEF AuthInv, ConnInv
<1>2. CASE \E p \in Packets : handle(c, p) BY <1>2, HandleStep
<1>3. CASE Verified(c) BY <1>3, VerifiedStep
<1>4. CASE Abort(c, auth[c]) BY <1>1, <1>4, AbortStep
<1>5. CASE Flushed(c) BY <1>5, FlushedStep
<1>6. CASE NotifySends(c) \/ NotifyEnds(c) BY <1>6, NotifyStep
<1> QED BY <1>2, <1>3, <1>4, <1>5, <1>6 DEF AuthenticateStep, ReceiveFails, FlushFails, TimesOut

\* An edit of a key file only adds to what the store has held.
LEMMA StoreStepInv ==
  ASSUME AuthInv, StoreStep
  PROVE  AuthInv'
<1>1. PICK u \in Users : \E keys \in KeyFiles : StoreChanges(u, keys) BY DEF StoreStep
<1>2. PICK keys \in KeyFiles : StoreChanges(u, keys) BY <1>1
<1> DEFINE n == [name |-> u, keys |-> keys]
<1>3. n \in CachedUser BY DEF CachedUser, Accounts
<1>4. /\ store' = [store EXCEPT ![u] = keys] /\ known' = known \union {n}
      /\ UNCHANGED <<auth, out, sent>>
  BY <1>2 DEF StoreChanges
<1>5. TypeOKAuthentication' BY <1>3, <1>4 DEF AuthInv, TypeOKAuthentication
<1>6. StoreIsKnown'
  <2> SUFFICES ASSUME NEW v \in Users PROVE [name |-> v, keys |-> store'[v]] \in known'
    BY DEF StoreIsKnown
  <2>1. CASE v = u BY <1>4, <2>1 DEF AuthInv, TypeOKAuthentication
  <2>2. CASE v /= u BY <1>4, <2>2 DEF AuthInv, TypeOKAuthentication, StoreIsKnown
  <2> QED BY <2>1, <2>2
<1>7. \A c \in Conns : ConnInv(c, auth[c], known')
  <2> SUFFICES ASSUME NEW c \in Conns PROVE ConnInv(c, auth[c], known') OBVIOUS
  <2>1. ConnInv(c, auth[c], known) BY DEF AuthInv
  <2>2. known \subseteq known' BY <1>4
  <2>3. \A v \in auth[c].cached : Admissible(v, known')
    BY <2>1, <2>2 DEF ConnInv, BaseInv, Admissible
  <2>4. \A g \in auth[c].granted : Evidence(c, auth[c], g, known')
    BY <2>1, <2>2 DEF ConnInv, BaseInv, Evidence
  <2> QED BY <2>1, <2>3, <2>4 DEF ConnInv, BaseInv
<1>8. Delivered' BY <1>4 DEF AuthInv, Delivered
<1> QED BY <1>4, <1>5, <1>6, <1>7, <1>8 DEF AuthInv

\* Nothing is cached or granted at the start.
LEMMA InitInv == InitAuthentication => AuthInv
<1> SUFFICES ASSUME InitAuthentication PROVE AuthInv OBVIOUS
<1>1. TypeOKAuthentication
  <2>1. known \subseteq CachedUser BY DEF InitAuthentication, CachedUser, Accounts
  <2>2. /\ out \in [Conns -> Seq(Reply)] /\ sent \in [Conns -> Seq(Reply)]
    BY DEF InitAuthentication
  <2>3. MAX_ATTEMPTS \in 0..MAX_ATTEMPTS /\ MAX_ATTEMPTS > 0 BY AttemptsFacts
  <2>4. auth \in [Conns -> Authenticate]
    BY <2>3 DEF InitAuthentication, Authenticate
  <2>5. \A c \in Conns : auth[c].attempts > 0 BY <2>3 DEF InitAuthentication
  <2> QED BY <2>1, <2>2, <2>4, <2>5 DEF InitAuthentication, TypeOKAuthentication
<1>2. StoreIsKnown BY DEF InitAuthentication, StoreIsKnown
<1>3. ASSUME NEW c \in Conns PROVE ConnInv(c, auth[c], known)
  <2>1. /\ auth[c].cached = {} /\ auth[c].granted = {} /\ auth[c].at = "idle"
        /\ auth[c].state = "AwaitServiceRequest" /\ auth[c] \in Authenticate /\ auth[c].attempts > 0
    BY <1>1 DEF InitAuthentication, TypeOKAuthentication
  <2> QED BY <2>1 DEF ConnInv, BaseInv
<1>4. Delivered BY DEF InitAuthentication, Delivered
<1> QED BY <1>1, <1>2, <1>3, <1>4 DEF AuthInv

\* AuthInv is inductive.
THEOREM AuthInvariant == SpecAuthentication => []AuthInv
<1>1. AuthInv /\ [NextAuthentication]_authVars => AuthInv'
  <2> SUFFICES ASSUME AuthInv, [NextAuthentication]_authVars PROVE AuthInv' OBVIOUS
  <2>1. CASE UNCHANGED authVars BY <2>1, StutterStep
  <2>2. CASE \E c \in Conns : Begin(c) BY <2>2, BeginStep
  <2>3. CASE \E c \in Conns : AuthenticateStep(c) BY <2>3, AuthenticateStepInv
  <2>4. CASE StoreStep BY <2>4, StoreStepInv
  <2> QED BY <2>1, <2>2, <2>3, <2>4 DEF NextAuthentication
<1> QED BY <1>1, InitInv, PTL DEF SpecAuthentication

\* The locals of authenticate always have their types, and the count of
\* attempts never underflows.
THEOREM AuthenticationTypeCorrect == SpecAuthentication => []TypeOKAuthentication
<1>1. AuthInv => TypeOKAuthentication BY DEF AuthInv
<1> QED BY <1>1, AuthInvariant, PTL

\* Nobody is authenticated without a signature of this session by a key that
\* the named user's file listed, whatever the order of requests and edits.
THEOREM AuthenticationIsSound == SpecAuthentication => []SoundAuthentication
<1>1. AuthInv => SoundAuthentication
  BY DEF AuthInv, ConnInv, BaseInv, Evidence, SoundAuthentication
<1> QED BY <1>1, AuthInvariant, PTL

-----------------------------------------------------------------------------
(* What the peer is sent.  Said is what was encoded for it so far, in order; *)
(* SayInv relates it to the locals of authenticate.                          *)

Said(c) == sent[c] \o out[c]

\* The answers in q are as many as the locals a say, and a success is in its
\* place: q is what was encoded, o what is not yet sent.
SayInv(a, o, q) ==
  LET n == Cardinality(Answers(q))
      asked == MAX_ATTEMPTS - a.attempts
      NoSuccess == \A i \in DOMAIN q : q[i] /= "Success"
  IN /\ n < MAX_ATTEMPTS
     /\ a.state = "AwaitServiceRequest" => asked = 0 /\ n = 0
     /\ a.at \in {"idle", "receive", "flush", "ok"} => n = asked
     /\ a.at = "verify" => n + 1 = asked
     /\ n <= asked /\ asked <= n + 1
     /\ a.at \in {"idle", "receive", "verify", "ok"} => o = <<>>
     /\ a.at = "flush" => o /= <<>>
     /\ a.at \in {"idle", "receive", "verify"} => NoSuccess
     /\ a.at \in {"flush", "ok"} =>
          IF a.state = "Complete"
          THEN /\ q /= <<>> /\ q[Len(q)] = "Success"
               /\ \A i \in DOMAIN q : q[i] = "Success" => i = Len(q)
          ELSE NoSuccess
     /\ a.at \in {"notify", "err"} =>
          \A i, k \in DOMAIN q : q[i] = "Success" /\ k > i => q[k] = "Disconnect"

SayInvAll == \A c \in Conns : SayInv(auth[c], out[c], Said(c))

\* One more message adds to the answers if it is one.
LEMMA AnswersAppend ==
  ASSUME NEW q \in Seq(Reply), NEW m \in Reply
  PROVE  /\ Cardinality(Answers(q)) \in Nat
         /\ Cardinality(Answers(Append(q, m))) = Cardinality(Answers(q))
              + (IF m \in {"Failure", "PkOk", "Success"} THEN 1 ELSE 0)
<1>1. IsFiniteSet(Answers(q))
  <2>1. Answers(q) \subseteq 1..Len(q) BY DEF Answers
  <2>2. IsFiniteSet(1..Len(q)) BY FS_Interval
  <2> QED BY <2>1, <2>2, FS_Subset
<1>2. Answers(Append(q, m)) = IF m \in {"Failure", "PkOk", "Success"}
                              THEN Answers(q) \union {Len(q) + 1} ELSE Answers(q)
  BY DEF Answers
<1>3. Len(q) + 1 \notin Answers(q) BY DEF Answers
<1>4. Cardinality(Answers(q)) \in Nat BY <1>1, FS_CardinalityType
<1>5. Cardinality(Answers(q) \union {Len(q) + 1}) = Cardinality(Answers(q)) + 1
  BY <1>1, <1>3, FS_AddElement
<1> QED BY <1>2, <1>4, <1>5

\* A step of one connection is all there is to show.
LEMMA SayStep ==
  ASSUME AuthInv, SayInvAll, NEW c \in Conns, NEW a, auth' = [auth EXCEPT ![c] = a],
         \A d \in Conns : d /= c => out'[d] = out[d] /\ sent'[d] = sent[d],
         SayInv(a, out'[c], sent'[c] \o out'[c])
  PROVE  SayInvAll'
<1>1. auth'[c] = a /\ \A d \in Conns : d /= c => auth'[d] = auth[d]
  BY DEF AuthInv, TypeOKAuthentication
<1>2. ASSUME NEW d \in Conns PROVE SayInv(auth'[d], out'[d], sent'[d] \o out'[d])
  <2>1. CASE d = c BY <1>1, <2>1
  <2>2. CASE d /= c BY <1>1, <2>2 DEF SayInvAll, Said
  <2> QED BY <2>1, <2>2
<1> QED BY <1>2 DEF SayInvAll, Said

\* Appending to the end of a concatenation.
LEMMA ConcatAppend ==
  ASSUME NEW S, NEW s \in Seq(S), NEW t \in Seq(S), NEW x \in S
  PROVE  s \o Append(t, x) = Append(s \o t, x)
<1> DEFINE a == s \o Append(t, x)
           b == Append(s \o t, x)
<1>1. a \in Seq(S) /\ b \in Seq(S) OBVIOUS
<1>2. Len(a) = Len(b) /\ \A i \in 1..Len(a) : a[i] = b[i] OBVIOUS
<1> HIDE DEF a, b
<1>3. a = b BY <1>1, <1>2, SeqEqual
<1> QED BY <1>3 DEF a, b

\* Encoding a message appends it to what was said.
LEMMA SaidAppend ==
  ASSUME AuthInv, NEW c \in Conns, NEW m \in Reply,
         out' = [out EXCEPT ![c] = Append(@, m)], sent' = sent
  PROVE  /\ Said(c) \in Seq(Reply) /\ out[c] \in Seq(Reply)
         /\ out'[c] = Append(out[c], m)
         /\ sent'[c] \o out'[c] = Append(Said(c), m)
         /\ \A d \in Conns : d /= c => out'[d] = out[d] /\ sent'[d] = sent[d]
<1>1. sent[c] \in Seq(Reply) /\ out[c] \in Seq(Reply)
  BY DEF AuthInv, TypeOKAuthentication
<1>2. out'[c] = Append(out[c], m) /\ \A d \in Conns : d /= c => out'[d] = out[d]
  BY DEF AuthInv, TypeOKAuthentication
<1>3. sent[c] \o Append(out[c], m) = Append(sent[c] \o out[c], m)
  <2> DEFINE s == sent[c]
             o == out[c]
  <2>1. s \in Seq(Reply) /\ o \in Seq(Reply) BY <1>1
  <2> HIDE DEF s, o
  <2>2. s \o Append(o, m) = Append(s \o o, m) BY <2>1, ConcatAppend
  <2> QED BY <2>2 DEF s, o
<1>4. sent[c] \o out[c] \in Seq(Reply) BY <1>1
<1>5. sent'[c] \o out'[c] = Append(sent[c] \o out[c], m) BY <1>2, <1>3
<1> QED BY <1>1, <1>2, <1>4, <1>5 DEF Said

\* What the attempts of a connection may be.
LEMMA AttemptsType ==
  ASSUME NEW a \in Authenticate
  PROVE  MAX_ATTEMPTS \in Int /\ MAX_ATTEMPTS >= 2 /\ a.attempts \in 0..MAX_ATTEMPTS
BY AuthenticationAssumption DEF Authenticate

\* An answer, to a service request or to a user request, at once or after
\* the signature check.
LEMMA SayAnswer ==
  ASSUME AuthInv, SayInvAll, NEW c \in Conns, NEW a \in Authenticate, NEW m \in Reply,
         Answer(c, a, m),
         \/ /\ auth[c].at = "receive" /\ auth[c].state = "AwaitServiceRequest"
            /\ m = "ServiceAccept" /\ a.state = "AwaitAuthRequest" /\ a.attempts = MAX_ATTEMPTS
         \/ /\ auth[c].at = "receive" /\ auth[c].state = "AwaitAuthRequest"
            /\ m \in {"Failure", "PkOk"} /\ a.state = "AwaitAuthRequest"
            /\ a.attempts = auth[c].attempts - 1 /\ a.attempts > 0
         \/ /\ auth[c].at = "verify" /\ a.attempts = auth[c].attempts /\ a.attempts > 0
            /\ \/ m = "Success" /\ a.state = "Complete"
               \/ m = "Failure" /\ a.state \notin {"Complete", "AwaitServiceRequest"}
  PROVE  SayInvAll'
<1> DEFINE b == [a EXCEPT !.at = "flush"]
           q == Said(c)
           n == Cardinality(Answers(q))
<1>1. b.at = "flush" /\ b.state = a.state /\ b.attempts = a.attempts BY DEF Authenticate
<1>2. /\ q \in Seq(Reply) /\ out'[c] = Append(out[c], m)
      /\ sent'[c] \o out'[c] = Append(q, m)
      /\ \A d \in Conns : d /= c => out'[d] = out[d] /\ sent'[d] = sent[d]
  BY SaidAppend DEF Answer
<1>3. SayInv(auth[c], out[c], q) BY DEF SayInvAll
<1>4. /\ n \in Nat
      /\ Cardinality(Answers(Append(q, m))) =
           n + (IF m \in {"Failure", "PkOk", "Success"} THEN 1 ELSE 0)
  BY <1>2, AnswersAppend
<1>5. MAX_ATTEMPTS \in Int /\ a.attempts \in 0..MAX_ATTEMPTS /\ auth[c].attempts \in 0..MAX_ATTEMPTS
      /\ MAX_ATTEMPTS >= 2
  BY AttemptsType DEF AuthInv, TypeOKAuthentication
<1>6. auth' = [auth EXCEPT ![c] = b] BY DEF Answer
<1> HIDE DEF b, q
<1>7. SayInv(b, out'[c], Append(q, m))
  <2>1. \A i \in DOMAIN q : q[i] /= "Success" BY <1>3 DEF SayInv
  <2>9. out'[c] /= <<>>
    <3>1. out[c] \in Seq(Reply) BY DEF AuthInv, TypeOKAuthentication
    <3>2. Append(out[c], m) /= <<>> BY <3>1, AppendProperties
    <3> QED BY <1>2, <3>2
  <2>2. /\ DOMAIN Append(q, m) = 1..Len(q) + 1 /\ Append(q, m)[Len(q) + 1] = m
        /\ Len(Append(q, m)) = Len(q) + 1 /\ Append(q, m) /= <<>>
        /\ \A i \in 1..Len(q) : Append(q, m)[i] = q[i]
        /\ DOMAIN q = 1..Len(q) /\ Len(q) \in Nat
    BY <1>2
  <2>3. \A i \in DOMAIN Append(q, m) : Append(q, m)[i] = "Success" => i = Len(q) + 1 /\ m = "Success"
    BY <2>1, <2>2
  <2> DEFINE r == Append(q, m)
             k == Cardinality(Answers(r))
             asked == MAX_ATTEMPTS - b.attempts
  <2>4. k = n + (IF m \in {"Failure", "PkOk", "Success"} THEN 1 ELSE 0) BY <1>4
  <2>5. b.state = "Complete" <=> m = "Success" BY <1>1
  <2>6. b.state /= "AwaitServiceRequest" BY <1>1
  <2>7. k = asked /\ k < MAX_ATTEMPTS
    <3> HIDE DEF k
    <3>1. CASE auth[c].at = "receive" /\ auth[c].state = "AwaitServiceRequest"
      BY <1>1, <1>3, <1>4, <1>5, <2>4, <3>1 DEF SayInv
    <3>2. CASE auth[c].at = "receive" /\ auth[c].state = "AwaitAuthRequest"
      BY <1>1, <1>3, <1>4, <1>5, <2>4, <3>2 DEF SayInv
    <3>3. CASE auth[c].at = "verify"
      BY <1>1, <1>3, <1>4, <1>5, <2>4, <3>3 DEF SayInv
    <3> QED BY <3>1, <3>2, <3>3
  <2>8. k \in Int /\ asked \in Int BY <1>1, <1>4, <1>5, <2>4
  <2> QED BY <1>1, <2>2, <2>3, <2>5, <2>6, <2>7, <2>8, <2>9 DEF SayInv
<1> QED BY <1>2, <1>6, <1>7, SayStep

\* A Disconnect comes last.
LEMMA SayAbort ==
  ASSUME AuthInv, SayInvAll, NEW c \in Conns, NEW a \in Authenticate, Abort(c, a),
         auth[c].at \in {"receive", "verify", "flush"}, a.state = auth[c].state,
         \/ a.attempts = auth[c].attempts
         \/ /\ auth[c].at = "receive" /\ auth[c].state = "AwaitAuthRequest"
            /\ a.attempts = auth[c].attempts - 1
  PROVE  SayInvAll'
<1> DEFINE b == [a EXCEPT !.at = "notify"]
           q == Said(c)
           n == Cardinality(Answers(q))
           m == "Disconnect"
<1>1. b.at = "notify" /\ b.state = a.state /\ b.attempts = a.attempts BY DEF Authenticate
<1>2. m \in Reply BY DEF Reply
<1>3. /\ q \in Seq(Reply)
      /\ sent'[c] \o out'[c] = Append(q, m)
      /\ \A d \in Conns : d /= c => out'[d] = out[d] /\ sent'[d] = sent[d]
  BY <1>2, SaidAppend DEF Abort
<1>4. SayInv(auth[c], out[c], q) BY DEF SayInvAll
<1>5. n \in Nat /\ Cardinality(Answers(Append(q, m))) = n
  BY <1>2, <1>3, AnswersAppend
<1>6. MAX_ATTEMPTS \in Int /\ a.attempts \in 0..MAX_ATTEMPTS /\ auth[c].attempts \in 0..MAX_ATTEMPTS
  BY AttemptsType DEF AuthInv, TypeOKAuthentication
<1>7. auth' = [auth EXCEPT ![c] = b] BY DEF Abort
<1>8. \A i, k \in DOMAIN Append(q, m) : Append(q, m)[i] = "Success" /\ k > i => Append(q, m)[k] = m
  <2>1. \A i \in DOMAIN q : q[i] = "Success" => i = Len(q) BY <1>4 DEF SayInv
  <2> HIDE DEF q
  <2> QED BY <1>3, <2>1
<1> HIDE DEF b, q, n
<1>9. SayInv(b, out'[c], Append(q, m))
  BY <1>1, <1>4, <1>5, <1>6, <1>8 DEF SayInv, n
<1> QED BY <1>3, <1>7, <1>9, SayStep

\* A service request.
LEMMA SayService ==
  ASSUME AuthInv, SayInvAll, NEW c \in Conns, NEW p, auth[c].at = "receive", handle_service(c, p)
  PROVE  SayInvAll'
<1> DEFINE a == auth[c]
           b == [a EXCEPT !.state = "AwaitAuthRequest", !.cached = {}, !.attempts = MAX_ATTEMPTS]
<1>1. a \in Authenticate /\ MAX_ATTEMPTS \in 0..MAX_ATTEMPTS
  BY AttemptsFacts DEF AuthInv, TypeOKAuthentication
<1>2. a.state = "AwaitServiceRequest" /\ (Answer(c, b, "ServiceAccept") \/ Abort(c, a))
  BY DEF handle_service
<1>3. a.at = "receive" OBVIOUS
<1> HIDE DEF a
<1>4. b \in Authenticate /\ b.state = "AwaitAuthRequest" /\ b.attempts = MAX_ATTEMPTS
  BY <1>1 DEF Authenticate
<1> HIDE DEF b
<1>5. "ServiceAccept" \in Reply BY DEF Reply
<1>6. CASE Answer(c, b, "ServiceAccept")
  BY <1>2, <1>3, <1>4, <1>5, <1>6, SayAnswer DEF a
<1>7. CASE Abort(c, a) BY <1>1, <1>3, <1>7, SayAbort DEF a
<1> QED BY <1>2, <1>6, <1>7

\* A step to the signature check takes one attempt and says nothing.
LEMMA SayVerify ==
  ASSUME AuthInv, SayInvAll, NEW c \in Conns, NEW b \in Authenticate,
         auth[c].at = "receive", auth[c].state = "AwaitAuthRequest",
         b.at = "verify", b.state = "AwaitAuthRequest", b.attempts = auth[c].attempts - 1,
         auth' = [auth EXCEPT ![c] = b], UNCHANGED <<out, sent>>
  PROVE  SayInvAll'
<1>1. SayInv(auth[c], out[c], Said(c)) BY DEF SayInvAll
<1>2. Said(c) \in Seq(Reply) BY DEF Said, AuthInv, TypeOKAuthentication
<1>3. Cardinality(Answers(Said(c))) \in Nat
  <2>1. "Failure" \in Reply BY DEF Reply
  <2> QED BY <1>2, <2>1, AnswersAppend
<1>4. MAX_ATTEMPTS \in Int /\ auth[c].attempts \in 0..MAX_ATTEMPTS /\ auth[c].attempts > 0
  BY AttemptsType DEF AuthInv, TypeOKAuthentication
<1>5. SayInv(b, out[c], Said(c)) BY <1>1, <1>3, <1>4 DEF SayInv
<1>6. SayInv(b, out'[c], sent'[c] \o out'[c]) BY <1>5 DEF Said
<1> QED BY <1>6, SayStep

\* A user request with the publickey method, from the locals a with one
\* attempt less.
LEMMA SayPublicKey ==
  ASSUME AuthInv, SayInvAll, NEW c \in Conns, NEW p \in Packets, p.type = "UserAuthRequest",
         auth[c].at = "receive", auth[c].state = "AwaitAuthRequest",
         NEW a \in Authenticate, BaseInv(c, a, known), a.state = "AwaitAuthRequest",
         a.attempts = auth[c].attempts - 1, a.attempts > 0, AuthInv',
         handle_publickey(c, p, a)
  PROVE  SayInvAll'
<1>0. "Failure" \in Reply /\ "PkOk" \in Reply BY DEF Reply
<1>1. CASE Answer(c, a, "Failure") BY <1>0, <1>1, SayAnswer
<1>2. ASSUME NEW u \in resolve(a.cached, p.user), NEW m \in {"Failure", "PkOk"},
             Answer(c, [a EXCEPT !.cached = {u}], m)
      PROVE  SayInvAll'
  <2> DEFINE b == [a EXCEPT !.cached = {u}]
  <2>1. BaseInv(c, b, known) /\ b.attempts = a.attempts /\ b.state = a.state
    BY CacheStep
  <2>2. b \in Authenticate BY <2>1 DEF BaseInv
  <2>3. Answer(c, b, m) BY <1>2
  <2> HIDE DEF b
  <2> QED BY <1>0, <2>1, <2>2, <2>3, SayAnswer
<1>3. ASSUME NEW u \in resolve(a.cached, p.user), NEW job,
             auth' = [auth EXCEPT ![c] = [[a EXCEPT !.cached = {u}] EXCEPT !.at = "verify", !.job = job]],
             UNCHANGED <<store, known, out, sent>>
      PROVE  SayInvAll'
  <2> DEFINE b == [[a EXCEPT !.cached = {u}] EXCEPT !.at = "verify", !.job = job]
  <2>1. b = auth'[c] /\ auth' = [auth EXCEPT ![c] = b] /\ b \in Authenticate
    BY <1>3 DEF AuthInv, TypeOKAuthentication
  <2>2. b.at = "verify" /\ b.attempts = a.attempts /\ b.state = a.state
    BY DEF Authenticate
  <2> HIDE DEF b
  <2>3. UNCHANGED <<out, sent>> BY <1>3
  <2>4. b.state = "AwaitAuthRequest" /\ b.attempts = auth[c].attempts - 1 BY <2>2
  <2> QED BY <2>1, <2>2, <2>3, <2>4, SayVerify
<1> QED BY <1>1, <1>2, <1>3 DEF handle_publickey

\* A user request.
LEMMA SayAuthRequest ==
  ASSUME AuthInv, SayInvAll, NEW c \in Conns, NEW p \in Packets, auth[c].at = "receive",
         handle_auth_request(c, p), AuthInv'
  PROVE  SayInvAll'
<1> DEFINE a == [auth[c] EXCEPT !.attempts = @ - 1, !.job = {}]
<1>1. /\ BaseInv(c, auth[c], known) /\ auth[c].attempts > 0
      /\ auth[c].state = "AwaitAuthRequest" /\ p.type = "UserAuthRequest"
  BY DEF AuthInv, ConnInv, handle_auth_request
<1>2. auth[c] \in Authenticate /\ auth[c].granted = {} BY <1>1 DEF BaseInv
<1>3. auth[c].attempts - 1 \in 0..MAX_ATTEMPTS
  BY <1>1, <1>2, AuthenticationAssumption DEF Authenticate
<1>4. /\ a \in Authenticate /\ a.attempts = auth[c].attempts - 1
      /\ a.cached = auth[c].cached /\ a.granted = {} /\ a.state = "AwaitAuthRequest"
  BY <1>1, <1>2, <1>3 DEF Authenticate
<1>5. \/ Abort(c, a)
      \/ a.attempts /= 0 /\ (Answer(c, a, "Failure") \/ handle_publickey(c, p, a))
  BY DEF handle_auth_request
<1> HIDE DEF a
<1>6. BaseInv(c, a, known) BY <1>1, <1>4 DEF BaseInv
<1>7. CASE Abort(c, a) BY <1>1, <1>4, <1>7, SayAbort
<1>8. a.attempts \in Int /\ a.attempts >= 0 BY <1>3, <1>4, AuthenticationAssumption
<1>9. CASE a.attempts /= 0 /\ Answer(c, a, "Failure")
  <2>1. "Failure" \in Reply /\ a.attempts > 0 BY <1>8, <1>9 DEF Reply
  <2> QED BY <1>1, <1>4, <1>9, <2>1, SayAnswer
<1>10. CASE a.attempts /= 0 /\ handle_publickey(c, p, a)
  <2>1. a.attempts > 0 BY <1>8, <1>10
  <2> QED BY <1>1, <1>4, <1>6, <1>10, <2>1, SayPublicKey
<1> QED BY <1>5, <1>7, <1>9, <1>10

\* The signature check returns.
LEMMA SayVerified ==
  ASSUME AuthInv, SayInvAll, NEW c \in Conns, Verified(c)
  PROVE  SayInvAll'
<1> DEFINE a == auth[c]
<1>1. a \in Authenticate /\ a.at = "verify" /\ a.attempts > 0 /\ a.state /= "Complete"
  BY DEF Verified, AuthInv, ConnInv, BaseInv
<1>2. "Success" \in Reply /\ "Failure" \in Reply BY DEF Reply
<1>3. a.state /= "AwaitServiceRequest"
  <2>1. SayInv(a, out[c], Said(c)) BY DEF SayInvAll
  <2>2. Said(c) \in Seq(Reply) BY DEF Said, AuthInv, TypeOKAuthentication
  <2>3. Cardinality(Answers(Said(c))) \in Nat BY <1>2, <2>2, AnswersAppend
  <2> QED BY <1>1, <2>1, <2>3 DEF SayInv
<1>4. PICK j \in a.job :
        IF verify(c, j)
        THEN Answer(c, [a EXCEPT !.state = "Complete",
                         !.granted = {[user |-> u.name, options |-> j.entry.options] :
                                        u \in a.cached}], "Success")
        ELSE Answer(c, [a EXCEPT !.job = {}], "Failure")
  BY DEF Verified
<1>5. JobOK(a, j) BY <1>1, <1>4 DEF AuthInv, ConnInv
<1>6. CASE ~verify(c, j)
  <2> DEFINE b == [a EXCEPT !.job = {}]
  <2> HIDE DEF a
  <2>1. b \in Authenticate /\ b.attempts = a.attempts /\ b.state = a.state
    BY <1>1 DEF Authenticate
  <2>2. Answer(c, b, "Failure") BY <1>4, <1>6
  <2> HIDE DEF b
  <2> QED BY <1>1, <1>2, <1>3, <2>1, <2>2, SayAnswer DEF a
<1>7. CASE verify(c, j)
  <2> DEFINE G == {[user |-> v.name, options |-> j.entry.options] : v \in a.cached}
             b == [a EXCEPT !.state = "Complete", !.granted = G]
  <2>1. Answer(c, b, "Success") BY <1>4, <1>7
  <2>2. G \in SUBSET [user : Accounts, options : Options]
    <3>1. j \in Job /\ a.cached \in SUBSET CachedUser BY <1>1, <1>4 DEF Authenticate
    <3>2. j.entry \in Entry BY <3>1 DEF Job
    <3>3. j.entry.options \in Options BY <3>2 DEF Entry
    <3>4. \A v \in a.cached : v.name \in Accounts BY <3>1 DEF CachedUser
    <3> QED BY <3>3, <3>4
  <2> HIDE DEF a, G
  <2>3. b \in Authenticate /\ b.attempts = a.attempts /\ b.state = "Complete"
    BY <1>1, <2>2 DEF Authenticate
  <2> HIDE DEF b
  <2> QED BY <1>1, <1>2, <2>1, <2>3, SayAnswer DEF a
<1> QED BY <1>6, <1>7

\* A flush moves what is encoded to what is sent.
LEMMA SayFlushed ==
  ASSUME AuthInv, SayInvAll, NEW c \in Conns, Flushed(c)
  PROVE  SayInvAll'
<1> DEFINE x == IF auth[c].state = "Complete" THEN "ok" ELSE "receive"
           b == [auth[c] EXCEPT !.at = x]
<1>1. auth' = [auth EXCEPT ![c] = b] BY DEF Flushed
<1>2. auth[c] \in Authenticate /\ auth[c].at = "flush"
  BY DEF Flushed, AuthInv, TypeOKAuthentication
<1>3. b.at = x /\ b.state = auth[c].state /\ b.attempts = auth[c].attempts BY <1>2 DEF Authenticate
<1>4. /\ out'[c] = <<>> /\ sent'[c] = Said(c) /\ Said(c) \in Seq(Reply)
      /\ \A d \in Conns : d /= c => out'[d] = out[d] /\ sent'[d] = sent[d]
  BY DEF Flushed, Said, AuthInv, TypeOKAuthentication
<1>5. sent'[c] \o out'[c] = Said(c) BY <1>4, ConcatEmptySeq
<1>6. SayInv(auth[c], out[c], Said(c)) BY DEF SayInvAll
<1>7. SayInv(b, <<>>, Said(c))
  <2> HIDE DEF b
  <2> QED BY <1>2, <1>3, <1>6 DEF SayInv
<1> HIDE DEF b
<1> QED BY <1>1, <1>4, <1>5, <1>7, SayStep

\* So does the last flush, packet by packet.
LEMMA SayNotify ==
  ASSUME AuthInv, SayInvAll, NEW c \in Conns, NotifySends(c) \/ NotifyEnds(c)
  PROVE  SayInvAll'
<1>1. auth[c] \in Authenticate /\ auth[c].at = "notify"
  BY DEF NotifySends, NotifyEnds, AuthInv, TypeOKAuthentication
<1>2. PICK x \in {"err", "notify"} : auth' = [auth EXCEPT ![c] = [auth[c] EXCEPT !.at = x]]
  <2>1. CASE NotifyEnds(c) BY <2>1 DEF NotifyEnds
  <2>2. CASE NotifySends(c)
    <3>1. CASE Tail(out[c]) = <<>> BY <2>2, <3>1 DEF NotifySends
    <3>2. CASE Tail(out[c]) /= <<>> BY <2>2, <3>2 DEF NotifySends
    <3> QED BY <3>1, <3>2
  <2> QED BY <2>1, <2>2
<1>3. sent'[c] \o out'[c] = Said(c) /\ \A d \in Conns : d /= c => out'[d] = out[d] /\ sent'[d] = sent[d]
  <2>1. CASE NotifyEnds(c) BY <2>1 DEF NotifyEnds, Said
  <2>2. CASE NotifySends(c)
    <3> DEFINE o == out[c]
               s == sent[c]
               r == Append(s, Head(o)) \o Tail(o)
               q == s \o o
    <3>1. o \in Seq(Reply) /\ o /= <<>> /\ s \in Seq(Reply)
      BY <2>2 DEF NotifySends, AuthInv, TypeOKAuthentication
    <3>2. /\ sent'[c] = Append(s, Head(o)) /\ out'[c] = Tail(o)
          /\ \A d \in Conns : d /= c => out'[d] = out[d] /\ sent'[d] = sent[d]
      BY <2>2 DEF NotifySends, AuthInv, TypeOKAuthentication
    <3> HIDE DEF o, s
    <3>3. r \in Seq(Reply) /\ q \in Seq(Reply) BY <3>1
    <3>4. Len(r) = Len(q) /\ \A i \in 1..Len(r) : r[i] = q[i] BY <3>1
    <3> HIDE DEF r, q
    <3>5. r = q BY <3>3, <3>4, SeqEqual
    <3> QED BY <3>2, <3>5 DEF Said, r, q, s, o
  <2> QED BY <2>1, <2>2
<1>4. SayInv(auth[c], out[c], Said(c)) BY DEF SayInvAll
<1> DEFINE b == [auth[c] EXCEPT !.at = x]
<1>5. b.at = x /\ b.state = auth[c].state /\ b.attempts = auth[c].attempts BY <1>1 DEF Authenticate
<1>6. SayInv(b, out'[c], Said(c))
  <2> HIDE DEF b
  <2> QED BY <1>1, <1>4, <1>5 DEF SayInv
<1> HIDE DEF b
<1> QED BY <1>2, <1>3, <1>6, SayStep DEF b

\* authenticate begins with nothing said.
LEMMA SayBegin ==
  ASSUME AuthInv, SayInvAll, NEW c \in Conns, Begin(c)
  PROVE  SayInvAll'
<1> DEFINE b == [auth[c] EXCEPT !.at = "receive"]
<1>1. auth[c] \in Authenticate /\ auth[c].at = "idle" /\ auth[c].state /= "Complete"
  BY DEF Begin, AuthInv, TypeOKAuthentication, ConnInv
<1>2. b.at = "receive" /\ b.state = auth[c].state /\ b.attempts = auth[c].attempts
  BY <1>1 DEF Authenticate
<1>3. auth' = [auth EXCEPT ![c] = b] /\ UNCHANGED <<out, sent>> BY DEF Begin
<1> HIDE DEF b
<1>4. SayInv(auth[c], out[c], Said(c)) BY DEF SayInvAll
<1>5. SayInv(b, out[c], Said(c)) BY <1>1, <1>2, <1>4 DEF SayInv
<1>6. SayInv(b, out'[c], sent'[c] \o out'[c]) BY <1>3, <1>5 DEF Said
<1> QED BY <1>3, <1>6, SayStep

\* Every step keeps what was said in order.
LEMMA SayNext ==
  ASSUME AuthInv, SayInvAll, [NextAuthentication]_authVars, AuthInv'
  PROVE  SayInvAll'
<1>1. CASE UNCHANGED <<auth, out, sent>> BY <1>1 DEF SayInvAll, Said
<1>2. ASSUME NEW c \in Conns, AuthenticateStep(c) PROVE SayInvAll'
  <2>1. auth[c] \in Authenticate BY DEF AuthInv, TypeOKAuthentication
  <2>2. ASSUME NEW p \in Packets, handle(c, p) PROVE SayInvAll'
    <3>1. auth[c].at = "receive" BY <2>2 DEF handle
    <3>2. CASE UNCHANGED authVars BY <1>1, <3>2 DEF authVars
    <3>3. CASE handle_service(c, p) BY <3>1, <3>3, SayService
    <3>4. CASE handle_auth_request(c, p) BY <3>1, <3>4, SayAuthRequest
    <3>5. CASE Abort(c, auth[c]) BY <2>1, <3>1, <3>5, SayAbort
    <3> QED BY <2>2, <3>2, <3>3, <3>4, <3>5 DEF handle
  <2>3. CASE Verified(c) BY <2>3, SayVerified
  <2>4. CASE ReceiveFails(c) \/ FlushFails(c) \/ TimesOut(c)
    <3>1. Abort(c, auth[c]) /\ auth[c].at \in {"receive", "verify", "flush"}
      BY <2>4 DEF ReceiveFails, FlushFails, TimesOut
    <3> QED BY <2>1, <3>1, SayAbort
  <2>5. CASE Flushed(c) BY <2>5, SayFlushed
  <2>6. CASE NotifySends(c) \/ NotifyEnds(c) BY <2>6, SayNotify
  <2> QED BY <1>2, <2>2, <2>3, <2>4, <2>5, <2>6 DEF AuthenticateStep
<1>3. CASE \E c \in Conns : Begin(c) BY <1>3, SayBegin
<1>4. CASE StoreStep BY <1>1, <1>4 DEF StoreStep, StoreChanges
<1>5. CASE UNCHANGED authVars BY <1>1, <1>5 DEF authVars
<1> QED BY <1>2, <1>3, <1>4, <1>5 DEF NextAuthentication

\* Nothing is said at the start.
LEMMA SayInit == InitAuthentication => SayInvAll
<1> SUFFICES ASSUME InitAuthentication, NEW c \in Conns PROVE SayInv(auth[c], out[c], Said(c))
  BY DEF SayInvAll
<1>1. /\ auth[c].at = "idle" /\ auth[c].state = "AwaitServiceRequest"
      /\ auth[c].attempts = MAX_ATTEMPTS /\ out[c] = <<>> /\ sent[c] = <<>>
  BY DEF InitAuthentication
<1>2. Said(c) = <<>> BY <1>1 DEF Said
<1>3. Answers(<<>>) = {} BY DEF Answers
<1>4. Cardinality(Answers(Said(c))) = 0 BY <1>2, <1>3, FS_EmptySet
<1>5. MAX_ATTEMPTS \in Int /\ MAX_ATTEMPTS > 0 BY AuthenticationAssumption
<1> QED BY <1>1, <1>2, <1>4, <1>5 DEF SayInv

\* AuthInv and SayInvAll together are inductive.
THEOREM SayInvariant == SpecAuthentication => [](AuthInv /\ SayInvAll)
<1>1. SayInvAll /\ AuthInv /\ AuthInv' /\ [NextAuthentication]_authVars => SayInvAll'
  BY SayNext
<1> QED BY <1>1, SayInit, AuthInvariant, PTL DEF SpecAuthentication

\* Each request has one answer, in its turn, for every limit on attempts: a
\* client that pipelines its requests can count the answers.
THEOREM EachIsAnswered == SpecAuthentication => []OneAnswerEach
<1>1. AuthInv /\ SayInvAll => OneAnswerEach
  BY DEF SayInvAll, SayInv, Said, OneAnswerEach
<1> QED BY <1>1, SayInvariant, PTL

\* A success is the last thing a peer is sent, and nothing is left to flush
\* when authenticate returns; only the Disconnect of a limit that passed or a
\* stream that failed meanwhile comes after it.
THEOREM SuccessArrives == SpecAuthentication => []SuccessIsDelivered
<1>1. ASSUME AuthInv, SayInvAll PROVE SuccessIsDelivered
  <2> SUFFICES ASSUME NEW c \in Conns
               PROVE  /\ auth[c].at = "ok" =>
                           out[c] = <<>> /\ sent[c] /= <<>> /\ sent[c][Len(sent[c])] = "Success"
                      /\ \A i \in DOMAIN sent[c] : sent[c][i] = "Success" =>
                           \/ i = Len(sent[c]) /\ auth[c].at = "ok"
                           \/ auth[c].at \in {"notify", "err"}
                                /\ \A k \in DOMAIN sent[c] : k > i => sent[c][k] = "Disconnect"
    BY DEF SuccessIsDelivered
  <2> DEFINE s == sent[c]
             o == out[c]
             a == auth[c]
             q == s \o o
  <2>1. s \in Seq(Reply) /\ o \in Seq(Reply) /\ a \in Authenticate
    BY <1>1 DEF AuthInv, TypeOKAuthentication
  <2>2. SayInv(a, o, q) BY <1>1 DEF SayInvAll, Said
  <2>3. a.at = "ok" => a.state = "Complete" BY <1>1 DEF AuthInv, ConnInv
  <2> HIDE DEF s, o, a
  <2>4. /\ q \in Seq(Reply) /\ Len(q) = Len(s) + Len(o) /\ DOMAIN q = 1..Len(q)
        /\ DOMAIN s = 1..Len(s) /\ Len(s) \in Nat /\ Len(o) \in Nat
        /\ \A i \in 1..Len(s) : q[i] = s[i]
    BY <2>1
  <2>5. CASE a.at = "ok"
    <3>1. o = <<>> /\ Len(o) = 0 BY <2>2, <2>5 DEF SayInv
    <3>2. /\ q /= <<>> /\ q[Len(q)] = "Success"
          /\ \A i \in DOMAIN q : q[i] = "Success" => i = Len(q)
      <4> HIDE DEF q
      <4> QED BY <2>2, <2>3, <2>5 DEF SayInv
    <3>3. Len(q) = Len(s) /\ Len(q) > 0
      <4> HIDE DEF q
      <4> QED BY <2>4, <3>1, <3>2
    <3>4. s /= <<>> /\ s[Len(s)] = "Success" /\ \A i \in DOMAIN s : s[i] = "Success" => i = Len(s)
      <4> HIDE DEF q
      <4> QED BY <2>1, <2>4, <3>2, <3>3
    <3> QED BY <2>5, <3>1, <3>4 DEF s, o, a
  <2>6. CASE a.at \in {"notify", "err"}
    <3>1. \A i, k \in DOMAIN q : q[i] = "Success" /\ k > i => q[k] = "Disconnect"
      <4> HIDE DEF q
      <4> QED BY <2>2, <2>6 DEF SayInv
    <3>2. \A i, k \in DOMAIN s : s[i] = "Success" /\ k > i => s[k] = "Disconnect"
      <4> HIDE DEF q
      <4> QED BY <2>4, <3>1
    <3> QED BY <2>6, <3>2 DEF s, o, a
  <2>7. CASE a.at \in {"idle", "receive", "verify", "flush"}
    <3>1. \A i \in DOMAIN q : q[i] = "Success" => a.at = "flush" /\ i = Len(q)
      <4> HIDE DEF q
      <4> QED BY <2>2, <2>7 DEF SayInv
    <3>2. a.at = "flush" => Len(o) > 0 BY <2>1, <2>2 DEF SayInv
    <3>3. \A i \in DOMAIN s : s[i] /= "Success"
      <4> HIDE DEF q
      <4> QED BY <2>4, <3>1, <3>2
    <3> QED BY <2>7, <3>3 DEF s, o, a
  <2>8. a.at \in {"idle", "receive", "verify", "flush", "notify", "ok", "err"}
    BY <2>1 DEF Authenticate
  <2> QED BY <2>5, <2>6, <2>7, <2>8
<1> QED BY <1>1, SayInvariant, PTL
=============================================================================
