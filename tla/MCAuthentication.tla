-------------------------- MODULE MCAuthentication --------------------------
(* Authentication for TLC: one connection, any order of requests, three     *)
(* users, two keys, and files that differ in their entries and in the   *)
(* order of them.                                                           *)
EXTENDS Authentication

Key(b) == [alg |-> "ed25519", blob |-> b]
Line(b, o) == [key |-> Key(b), options |-> o]

MCKeyFiles ==
  {<<>>, <<Line("k1", "command")>>, <<Line("k2", "plain"), Line("k1", "plain"), Line("k1", "command")>>}

Request(user, key, signature) ==
  [type |-> "UserAuthRequest", user |-> user, service |-> "connection",
   method |-> "publickey", key |-> key, signature |-> signature]

Signed(alg, by, session, user, key) ==
  {[alg |-> alg, by |-> by, over |-> [session |-> session, user |-> user, key |-> key]]}

\* Signatures that are right, by the wrong key, of another session, for
\* another user, over another key, and of another algorithm.
SignaturesFor(user, b) ==
  {Signed("ed25519", b, "c1", user, Key(b))}
    \union {Signed("ed25519", d, "c1", user, Key(b)) : d \in Blobs \ {b}}
    \union {Signed("ed25519", b, "c2", user, Key(b)),
            Signed("rsa", b, "c1", user, Key(b))}
    \union {Signed("ed25519", b, "c1", other, Key(b)) : other \in {"alice", "bob"} \ {user}}
    \union {Signed("ed25519", b, "c1", user, Key(d)) : d \in Blobs \ {b}}

Rsa == [alg |-> "rsa", blob |-> "k1"]

MCPackets ==
  {[type |-> t] : t \in {"Ignore", "Disconnect", "Other"}}
    \union {[type |-> "ServiceRequest", ok |-> b] : b \in BOOLEAN}
    \union UNION {{Request(u, Key(b), s) : s \in {{}} \union SignaturesFor(u, b)} :
                    u \in {"alice", "bob"}, b \in Blobs}
    \union {Request("m@llory", Key("k1"), {}), Request("mallory", Key("k1"), {}),
            Request("mallory", Key("k1"), Signed("ed25519", "k1", "c1", "mallory", Key("k1"))),
            Request("root", Key("k1"), Signed("ed25519", "k1", "c1", "root", Key("k1"))),
            Request("alice", Rsa, Signed("rsa", "k1", "c1", "alice", Rsa)),
            [Request("alice", Key("k1"), {}) EXCEPT !.method = "none"],
            [Request("alice", Key("k1"), {}) EXCEPT !.method = "malformed"],
            [Request("alice", Key("k1"), {}) EXCEPT !.service = "other"]}
=============================================================================
