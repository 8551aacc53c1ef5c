------------------------------ MODULE MCServer ------------------------------
(* Server for TLC: three connections that compete for two permits, one     *)
(* user, and the packets that lead to each way authenticate ends.          *)
EXTENDS Server

Key == [alg |-> "ed25519", blob |-> "k1"]

MCKeyFiles == {<<[key |-> Key, options |-> "plain"]>>}

Request(signature) ==
  [type |-> "UserAuthRequest", user |-> "alice", service |-> "connection",
   method |-> "publickey", key |-> Key, signature |-> signature]

MCPackets ==
  {[type |-> "Ignore"], [type |-> "ServiceRequest", ok |-> TRUE]}
    \union {Request({[alg |-> "ed25519", by |-> "k1",
                      over |-> [session |-> c, user |-> "alice", key |-> Key]]}) : c \in Conns}
=============================================================================
