--------------------------- MODULE Authentication ---------------------------
(***************************************************************************)
(* oxish/src/authentication.rs: authenticate, the loop that receives a     *)
(* packet, handles it and flushes the answer, under a limit of 60 s, and   *)
(* AuthenticationState::handle, for a set of connections that share one    *)
(* user store.                                                             *)
(*                                                                         *)
(*   store    the authorized_keys file of every user, as a sequence of     *)
(*            entries; its owner may edit it at any time                   *)
(*   known    history: every user, with a key file, that store ever held   *)
(*   auth     per connection, the locals of authenticate:                  *)
(*     at       the await it is suspended in: the next packet ("receive"), *)
(*              a signature check on the blocking pool ("verify"), the     *)
(*              flush of an answer ("flush") or of the final Disconnect    *)
(*              ("notify"); or it has not begun ("idle") or has returned   *)
(*              ("ok", "err")                                              *)
(*     state, cached, attempts   AuthenticationState                       *)
(*     job      the signature check under way, and afterwards the one      *)
(*              that succeeded                                             *)
(*     granted  Authenticated                                              *)
(*   out      per connection, answers encoded and not yet sent             *)
(*   sent     per connection, the answers the peer has been sent           *)
(*                                                                         *)
(* An Option is a set with at most one element.  The peer is any peer: it  *)
(* sends any packet at any time and reads, or not, what it is sent.        *)
(***************************************************************************)
EXTENDS Integers, Sequences, FiniteSets

CONSTANTS
  Conns,         \* connections; each is its own session id
  SessionIds,    \* session ids a signature may cover
  Names,         \* user names a request may carry
  Users,         \* names the user database resolves
  Unknown,       \* other names that Username::try_from accepts
  Root,          \* users with uid 0
  AllowRoot,     \* RootPolicy
  Algorithms,    \* public key algorithms a packet may name
  Supported,     \* the algorithms the server implements
  Blobs,         \* key blobs whose private key somebody holds
  FakeBlob,      \* the blob of the fake keys, whose private key nobody holds
  Options,       \* options of authorized_keys entries
  NoOptions,     \* KeyOptions::default()
  KeyFiles,      \* contents an authorized_keys file may have
  Packets,       \* packets the peers send
  MAX_ATTEMPTS,  \* 6
  MaxFiles       \* bound: user and key file pairs that store ever holds

VARIABLES store, known, auth, out, sent

authVars == <<store, known, auth, out, sent>>

PublicKey == [alg : Algorithms, blob : Blobs \union {FakeBlob}]
Entry == [key : PublicKey, options : Options]
Accounts == Users \union Unknown
CachedUser == [name : Accounts, keys : KeyFiles \union {<<>>}]

\* What a signature covers (SignatureData); the service is the requested one.
SignatureData == [session : SessionIds, user : Names, key : PublicKey]
Signature == [alg : Algorithms, by : Blobs, over : SignatureData]

UserAuthRequest ==
  [type : {"UserAuthRequest"}, user : Names, service : {"connection", "other"},
   method : {"publickey", "none", "malformed"}, key : PublicKey,
   signature : SUBSET Signature]
Packet ==
  UserAuthRequest
    \union [type : {"ServiceRequest"}, ok : BOOLEAN]
    \union [type : {"Ignore", "Disconnect", "Other"}]

Reply == {"ServiceAccept", "Failure", "PkOk", "Success", "Disconnect"}

ASSUME AuthenticationAssumption ==
  /\ Conns \subseteq SessionIds
  /\ Users \subseteq Names /\ Unknown \subseteq Names \ Users /\ Root \subseteq Users /\ AllowRoot \in BOOLEAN
  /\ Supported \subseteq Algorithms
  /\ FakeBlob \notin Blobs
  /\ NoOptions \in Options
  /\ \A f \in KeyFiles : f \in Seq(Entry)
       /\ \A i \in DOMAIN f : f[i].key.alg \in Supported /\ f[i].key.blob \in Blobs
  /\ \A p \in Packets : p \in Packet
  /\ \A p \in Packets : p.type = "UserAuthRequest" => \A s, t \in p.signature : s = t
  /\ MAX_ATTEMPTS \in 2..255
  /\ MaxFiles \in Nat

Job == [request : Packets, entry : Entry, user : Accounts]

Authenticate ==
  [at : {"idle", "receive", "verify", "flush", "notify", "ok", "err"},
   state : {"AwaitServiceRequest", "AwaitAuthRequest", "Complete"},
   cached : SUBSET CachedUser, attempts : 0..MAX_ATTEMPTS,
   job : SUBSET Job, granted : SUBSET [user : Accounts, options : Options]]

InitAuthentication ==
  /\ store \in [Users -> KeyFiles]
  /\ known = {[name |-> u, keys |-> store[u]] : u \in Users}
  /\ auth = [c \in Conns |->
               [at |-> "idle", state |-> "AwaitServiceRequest", cached |-> {},
                attempts |-> MAX_ATTEMPTS, job |-> {}, granted |-> {}]]
  /\ out = [c \in Conns |-> <<>>]
  /\ sent = [c \in Conns |-> <<>>]

-----------------------------------------------------------------------------
(* The user store and the keys. *)

\* UserStore::lookup and keys: none for an invalid name, and none for root if
\* the policy says so.  A name that is not in the database has a user too,
\* whose home is FAKE_HOME, with no key file.
lookup(name) ==
  {[name |-> u, keys |-> IF u \in Users THEN store[u] ELSE <<>>] :
     u \in {name} \intersect (IF AllowRoot THEN Accounts ELSE Accounts \ Root)}
resolve_AnyCached(cached, name) ==
  IF cached /= {} THEN cached ELSE lookup(name)
\* The cached user if it is the one that is asked for, else a new lookup.
resolve(cached, name) ==
  LET hit == {u \in cached : u.name = name}
  IN IF hit /= {} THEN hit ELSE lookup(name)

\* The first entry that matches the algorithm and the blob.
authorized_key(keys, key) ==
  {keys[i] : i \in {j \in DOMAIN keys :
     /\ keys[j].key = key
     /\ \A k \in DOMAIN keys : keys[k].key = key => j <= k}}

fake_key(alg) ==
  {[key |-> [alg |-> a, blob |-> FakeBlob], options |-> NoOptions] :
     a \in {alg} \intersect Supported}

\* The key a signature is checked with, and none if it is not checked: the
\* algorithms differ, or the signature has none that can be encoded.
verifier(request, sig, authorized) ==
  {e \in IF authorized /= {} THEN authorized ELSE fake_key(request.key.alg) :
     /\ authorized /= {} => sig.alg = e.key.alg
     /\ sig.alg \in Supported}

\* AuthorizedKey::verify of SignatureData::encode.
verify(c, job) ==
  \E sig \in job.request.signature :
    /\ sig.by = job.entry.key.blob
    /\ sig.over = [session |-> c, user |-> job.user, key |-> job.request.key]

-----------------------------------------------------------------------------
(* The ways a handler ends. *)

\* The answer is in the buffer, and authenticate awaits its flush.
Answer(c, a, m) ==
  /\ auth' = [auth EXCEPT ![c] = [a EXCEPT !.at = "flush"]]
  /\ out' = [out EXCEPT ![c] = Append(@, m)]
  /\ UNCHANGED <<store, known, sent>>

\* The future failed: authenticate encodes a Disconnect, and flushes for 1 s.
Abort(c, a) ==
  /\ auth' = [auth EXCEPT ![c] = [a EXCEPT !.at = "notify"]]
  /\ out' = [out EXCEPT ![c] = Append(@, "Disconnect")]
  /\ UNCHANGED <<store, known, sent>>

-----------------------------------------------------------------------------
(* AuthenticationState::handle. *)

handle_service(c, p) ==
  LET a == auth[c]
  IN /\ a.state = "AwaitServiceRequest" /\ p.type = "ServiceRequest"
     /\ \/ /\ p.ok
           /\ Answer(c, [a EXCEPT !.state = "AwaitAuthRequest", !.cached = {},
                                  !.attempts = MAX_ATTEMPTS], "ServiceAccept")
        \/ ~p.ok /\ Abort(c, a)

handle_publickey(c, p, a) ==
  LET user == resolve(a.cached, p.user)
  IN \/ user = {} /\ Answer(c, a, "Failure")
     \/ \E u \in user :
          LET b == [a EXCEPT !.cached = {u}]
              authorized == authorized_key(u.keys, p.key)
              job == {[request |-> p, entry |-> e, user |-> u.name] :
                        e \in UNION {verifier(p, sig, authorized) : sig \in p.signature}}
          IN \/ /\ p.signature = {}
                /\ Answer(c, b, IF authorized /= {} THEN "PkOk" ELSE "Failure")
             \/ /\ p.signature /= {} /\ job = {}
                /\ Answer(c, b, "Failure")
             \/ /\ job /= {}
                /\ auth' = [auth EXCEPT ![c] = [b EXCEPT !.at = "verify", !.job = job]]
                /\ UNCHANGED <<store, known, out, sent>>

handle_auth_request_NoLimit(c, p) ==
  LET a == [auth[c] EXCEPT !.attempts = @ - 1, !.job = {}]
  IN /\ auth[c].state = "AwaitAuthRequest" /\ p.type = "UserAuthRequest"
     /\ IF p.method = "malformed" \/ p.service /= "connection"
        THEN Abort(c, a)
        ELSE \/ p.method = "none" /\ Answer(c, a, "Failure")
             \/ p.method = "publickey" /\ handle_publickey(c, p, a)
handle_auth_request(c, p) ==
  LET a == [auth[c] EXCEPT !.attempts = @ - 1, !.job = {}]
  IN /\ auth[c].state = "AwaitAuthRequest" /\ p.type = "UserAuthRequest"
     /\ IF a.attempts = 0 \/ p.method = "malformed" \/ p.service /= "connection"
        THEN Abort(c, a)
        ELSE \/ p.method = "none" /\ Answer(c, a, "Failure")
             \/ p.method = "publickey" /\ handle_publickey(c, p, a)

Expected(a, p) ==
  \/ p.type = "Ignore"
  \/ a.state = "AwaitServiceRequest" /\ p.type = "ServiceRequest"
  \/ a.state = "AwaitAuthRequest" /\ p.type = "UserAuthRequest"

\* An Ignore leaves nothing to flush; any other packet is an error.
handle(c, p) ==
  /\ auth[c].at = "receive"
  /\ \/ p.type = "Ignore" /\ UNCHANGED authVars
     \/ handle_service(c, p)
     \/ handle_auth_request(c, p)
     \/ ~Expected(auth[c], p) /\ Abort(c, auth[c])

\* The signature check returns, and the handler goes on.
Verified(c) ==
  /\ auth[c].at = "verify"
  /\ \E j \in auth[c].job :
       IF verify(c, j)
       THEN Answer(c, [auth[c] EXCEPT !.state = "Complete",
                         !.granted = {[user |-> u.name, options |-> j.entry.options] :
                                        u \in auth[c].cached}], "Success")
       ELSE Answer(c, [auth[c] EXCEPT !.job = {}], "Failure")

-----------------------------------------------------------------------------
(* authenticate. *)

Begin(c) ==
  /\ auth[c].at = "idle"
  /\ auth' = [auth EXCEPT ![c].at = "receive"]
  /\ UNCHANGED <<store, known, out, sent>>

\* The stream ends or fails, or a packet cannot be decrypted.
ReceiveFails(c) == auth[c].at = "receive" /\ Abort(c, auth[c])
Flushed_EarlyOk(c) ==
  /\ auth[c].at = "flush"
  /\ \/ /\ auth[c].state = "Complete"
        /\ auth' = [auth EXCEPT ![c].at = "ok"]
        /\ UNCHANGED <<out, sent>>
     \/ /\ auth[c].state /= "Complete"
        /\ auth' = [auth EXCEPT ![c].at = "receive"]
        /\ sent' = [sent EXCEPT ![c] = @ \o out[c]]
        /\ out' = [out EXCEPT ![c] = <<>>]
  /\ UNCHANGED <<store, known>>
Flushed_Again(c) ==
  /\ auth[c].at = "flush"
  /\ sent' = [sent EXCEPT ![c] = @ \o out[c]]
  /\ auth' = [auth EXCEPT ![c].at = IF auth[c].state = "Complete" THEN "ok" ELSE "receive"]
  /\ UNCHANGED <<store, known, out>>
\* The flush ends with the last byte, in one poll with what follows it.
Flushed(c) ==
  /\ auth[c].at = "flush"
  /\ sent' = [sent EXCEPT ![c] = @ \o out[c]]
  /\ out' = [out EXCEPT ![c] = <<>>]
  /\ auth' = [auth EXCEPT ![c].at = IF auth[c].state = "Complete" THEN "ok" ELSE "receive"]
  /\ UNCHANGED <<store, known>>

FlushFails(c) == auth[c].at = "flush" /\ Abort(c, auth[c])

TimesOut_Receiving(c) == auth[c].at = "receive" /\ Abort(c, auth[c])
\* The limit of 60 s drops the future wherever it is suspended; what is left
\* of an answer stays in the buffer, in front of the Disconnect.
TimesOut(c) == auth[c].at \in {"receive", "verify", "flush"} /\ Abort(c, auth[c])

\* One more packet of the last flush has gone out.
NotifySends(c) ==
  /\ auth[c].at = "notify" /\ out[c] /= <<>>
  /\ sent' = [sent EXCEPT ![c] = Append(@, Head(out[c]))]
  /\ out' = [out EXCEPT ![c] = Tail(@)]
  /\ auth' = [auth EXCEPT ![c].at = IF Tail(out[c]) = <<>> THEN "err" ELSE "notify"]
  /\ UNCHANGED <<store, known>>

\* It fails or takes longer than 1 s, which is ignored.
NotifyEnds(c) ==
  /\ auth[c].at = "notify"
  /\ auth' = [auth EXCEPT ![c].at = "err"]
  /\ UNCHANGED <<store, known, out, sent>>

StoreChanges(u, keys) ==
  /\ store' = [store EXCEPT ![u] = keys]
  /\ known' = known \union {[name |-> u, keys |-> keys]}
  /\ Cardinality(known') <= MaxFiles
  /\ UNCHANGED <<auth, out, sent>>

AuthenticateStep(c) ==
  \/ \E p \in Packets : handle(c, p)
  \/ Verified(c)
  \/ ReceiveFails(c)
  \/ Flushed(c)
  \/ FlushFails(c)
  \/ TimesOut(c)
  \/ NotifySends(c)
  \/ NotifyEnds(c)

StoreStep == \E u \in Users : \E keys \in KeyFiles : StoreChanges(u, keys)

NextAuthentication ==
  \/ \E c \in Conns : Begin(c) \/ AuthenticateStep(c)
  \/ StoreStep

SpecAuthentication == InitAuthentication /\ [][NextAuthentication]_authVars

-----------------------------------------------------------------------------
(* Properties. *)

\* Every local of authenticate has its type; a state that awaits requests
\* has at least one attempt left, so that the u8 never underflows.
TypeOKAuthentication ==
  /\ store \in [Users -> KeyFiles]
  /\ known \subseteq CachedUser
  /\ auth \in [Conns -> Authenticate]
  /\ out \in [Conns -> Seq(Reply)]
  /\ sent \in [Conns -> Seq(Reply)]
  /\ \A c \in Conns : auth[c].at \notin {"notify", "err"} => auth[c].attempts > 0

\* A connection is authenticated only as the user its last request named, by
\* a signature over that name and the id of this very session, made with a
\* key that the user's file listed when it was read, with the options of the
\* first entry for that key, and as root only if the policy allows it.  The
\* cached user of an earlier request, an edit of the file, or a check against
\* the fake key never lead to anything else (handle, UserAuthRequest arm).
SoundAuthentication ==
  \A c \in Conns : \A g \in auth[c].granted :
    \E j \in auth[c].job :
      LET r == j.request IN
      /\ r.user = g.user
      /\ \E sig \in r.signature :
           sig.by = r.key.blob /\ sig.over = [session |-> c, user |-> g.user, key |-> r.key]
      /\ \E u \in known : u.name = g.user
           /\ \E e \in authorized_key(u.keys, r.key) : e.options = g.options
      /\ g.user \in Root => AllowRoot

\* The places of q that hold the answer to a request.
Answers(q) == {i \in DOMAIN q : q[i] \in {"Failure", "PkOk", "Success"}}

\* Each request is answered once, in order, and before the next is received,
\* so a client that pipelines its requests can tell the answers apart; only
\* the request that ends the authentication goes without (the returns of
\* handle, and the flush in authenticate).
OneAnswerEach ==
  \A c \in Conns :
    LET asked == MAX_ATTEMPTS - auth[c].attempts
        answers == Cardinality(Answers(sent[c] \o out[c]))
    IN /\ answers <= asked /\ asked <= answers + 1
       /\ auth[c].at \in {"receive", "flush", "ok"} => answers = asked
       /\ answers < MAX_ATTEMPTS

\* When authenticate returns Ok the success is the last thing the peer was
\* sent and nothing is left to flush, which accept relies on.  A peer that
\* was sent a success has been authenticated, unless the limit of 60 s passed
\* or the stream failed while it was being flushed; then nothing but the
\* Disconnect comes after it (authenticate).
SuccessIsDelivered ==
  \A c \in Conns :
    /\ auth[c].at = "ok" => out[c] = <<>> /\ sent[c] /= <<>> /\ sent[c][Len(sent[c])] = "Success"
    /\ \A i \in DOMAIN sent[c] : sent[c][i] = "Success" =>
         \/ i = Len(sent[c]) /\ auth[c].at = "ok"
         \/ auth[c].at \in {"notify", "err"}
              /\ \A k \in DOMAIN sent[c] : k > i => sent[c][k] = "Disconnect"
=============================================================================
