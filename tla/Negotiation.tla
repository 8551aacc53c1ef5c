---------------------------- MODULE Negotiation -----------------------------
(***************************************************************************)
(* oxish-proto/src/key_exchange.rs and named.rs: which algorithms and      *)
(* which host key an exchange uses, first when the connection is set up    *)
(* and then in every rekeying.                                             *)
(*                                                                         *)
(* A KEXINIT is its lists of names; the lists for MACs, compression and    *)
(* languages are sent, and read, and nothing is chosen from them.          *)
(***************************************************************************)
EXTENDS HostKeys

\* What both providers support, in their order.
supported_algorithms ==
  [key_exchange |-> <<"mlkem768x25519-sha256", "curve25519-sha256">>,
   encryption |-> <<"aes128-gcm@openssh.com">>]

ExtensionId == {"ext-info-c", "kex-strict-c-v00@openssh.com", "kex-strict-s-v00@openssh.com"}

\* KeyExchangeAlgorithmOrExtensionId::typed: a name that is neither known is an
\* unknown key exchange algorithm, which the server never has.
typed(name) == IF name \in ExtensionId THEN "Extension" ELSE "KeyExchange"

\* KeyExchange::start, the server's own KEXINIT.
local(server_host_key_algorithms, extensions) ==
  [key_exchange_algorithms |-> supported_algorithms.key_exchange \o extensions,
   server_host_key_algorithms |-> server_host_key_algorithms,
   encryption_algorithms_client_to_server |-> supported_algorithms.encryption,
   encryption_algorithms_server_to_client |-> supported_algorithms.encryption]

has_extension(init, extension) == Contains(init.key_exchange_algorithms, extension)

-----------------------------------------------------------------------------
(* Negotiated. *)

\* The places of the client's names that the server has too.
Common(client, server) == {i \in DOMAIN client : Contains(server, client[i])}

\* Of the first lists, only a name that is a key exchange on both sides counts.
CommonKeyExchange(client, server) ==
  {i \in Common(client, server) : typed(client[i]) = "KeyExchange"}

\* The first of the client's names at the places.
first_common(client, places) == client[Min(places)]

\* What choose looks at, in its order: a list, and the places in it.
Lists(init) ==
  <<init.key_exchange_algorithms, init.server_host_key_algorithms,
    init.encryption_algorithms_client_to_server, init.encryption_algorithms_server_to_client>>
Places(client, server, i) ==
  IF i = 1 THEN CommonKeyExchange(Lists(client)[i], Lists(server)[i])
  ELSE Common(Lists(client)[i], Lists(server)[i])

\* NoCommonAlgorithm otherwise.
CanChoose(client, server) == \A i \in 1..4 : Places(client, server, i) # {}

choose(client, server) ==
  LET common(i) == first_common(Lists(client)[i], Places(client, server, i))
  IN [key_exchange |-> common(1), server_host_key |-> common(2),
      encryption_client_to_server |-> common(3), encryption_server_to_client |-> common(4),
      want_extension_info |-> has_extension(client, "ext-info-c"),
      strict_key_exchange |-> has_extension(client, "kex-strict-c-v00@openssh.com")]

-----------------------------------------------------------------------------
(* The exchanges of a connection. *)

\* InitialKeyExchangeState: all host keys are offered.
InitialOffer(host_keys) == local(algorithms(host_keys), <<"kex-strict-s-v00@openssh.com">>)

\* RekeyState: only the algorithm of the key that signed the first exchange, and
\* no extensions.
RekeyOffer_AllKeys(host_keys, host_key) == local(algorithms(host_keys), <<>>)
RekeyOffer(host_keys, host_key) == local(<<host_key.algorithm>>, <<>>)

-----------------------------------------------------------------------------
(* Properties. *)

\* A scalar is not 0.
WritableKeys == {k \in PrivateKey : k.algorithm = Ecdsa => \E i \in 1..SCALAR_LEN : k.secret[i] # 0}

\* Written with these keys and changed since, so that the parser can tell: one
\* field says what to_bytes never puts there, the rest is as it was.  It cannot
\* tell that a secret was changed: the seed of another Ed25519 key is loaded, and
\* a scalar that does not belong to its public key ends the start-up.
Changed(content, keys) ==
  LET written == to_bytes(keys)
  IN \/ ~content.header /\ content = [written EXCEPT !.header = FALSE]
     \/ content.cipher # "none" /\ content = [written EXCEPT !.cipher = content.cipher]
     \/ /\ content.key_count \in Nat /\ content.key_count # Len(keys)
        /\ content = [written EXCEPT !.key_count = content.key_count]
     \/ /\ content.checks[1] # content.checks[2]
        /\ content = [written EXCEPT !.checks = content.checks]
     \/ /\ \E i \in DOMAIN content.padding : content.padding[i] # i % 256
        /\ content = [written EXCEPT !.padding = content.padding]
     \/ \E i \in DOMAIN keys :
          /\ keys[i].algorithm = Ed25519
          /\ content.private[i].public # keys[i].public
          /\ content = [written EXCEPT !.private[i].public = content.private[i].public]

\* A file that keys were put into: files[i].keys are those keys, files[i].intact
\* says that it is unchanged.
HostKeyFile(file) ==
  /\ file.keys \in Seq(WritableKeys)
  /\ file.keys # <<>>
  /\ file.readable \in BOOLEAN
  /\ file.intact \in BOOLEAN
  /\ IF file.intact THEN file.readable /\ file.content = to_bytes(file.keys)
     ELSE ~file.readable \/ Changed(file.content, file.keys)

\* The keys in the files that are as they were written.
Written(files) ==
  FlattenSeq([i \in DOMAIN files |-> IF files[i].intact THEN files[i].keys ELSE <<>>])

\* The server starts with exactly the keys that were written to intact files,
\* in that order and with every bit of their secrets, whatever the parser
\* can tell was done to the other files, and signs with the public keys that belong to them; it refuses to start
\* only for having none of them, MAX_KEYS and more, or an ECDSA key that comes
\* with a public key of another secret.
KeysKept(files) ==
  LET loaded == from_files(files)
      keys == Written(files)
  IN IF /\ Len(keys) \in 1..(MAX_KEYS - 1)
        /\ \A i \in DOMAIN keys : keys[i].algorithm = Ecdsa => keys[i].public = "matching"
       THEN /\ loaded.error = "none"
            /\ Len(loaded.keys) = Len(keys)
            /\ \A i \in DOMAIN keys :
                 loaded.keys[i] = [algorithm |-> keys[i].algorithm, secret |-> keys[i].secret,
                                   public |-> "matching"]
       ELSE loaded.error # "none" /\ loaded.keys = <<>>

\* RFC 4253, 7.1: of each list, the first name of the client's that the server
\* has as well; a name that only marks an extension is never chosen.
FollowsRfc(client, server, chosen) ==
  LET right(mine, theirs, name) ==
        \E i \in DOMAIN mine :
          /\ mine[i] = name
          /\ Contains(theirs, name)
          /\ \A j \in 1..(i - 1) : Contains(theirs, mine[j]) => mine[j] \in ExtensionId
  IN /\ right(client.key_exchange_algorithms, server.key_exchange_algorithms,
              chosen.key_exchange)
     /\ chosen.key_exchange \notin ExtensionId
     /\ right(client.server_host_key_algorithms, server.server_host_key_algorithms,
              chosen.server_host_key)
     /\ right(client.encryption_algorithms_client_to_server,
              server.encryption_algorithms_client_to_server,
              chosen.encryption_client_to_server)
     /\ right(client.encryption_algorithms_server_to_client,
              server.encryption_algorithms_server_to_client,
              chosen.encryption_server_to_client)

\* A connection from the files of the server to its rekeying.  The algorithms
\* are those of the RFC; the server has a host key for what it agreed to; the
\* rekeying is signed by the same key whatever lists the client sends then, and
\* a client that sends the same lists again gets the same algorithms.
NegotiationAgrees(files, client, again) ==
  LET keys == from_files(files).keys
      offer == InitialOffer(keys)
      chosen == choose(client, offer)
      host_key == key(keys, chosen.server_host_key)
      reoffer == RekeyOffer(keys, host_key)
      rechosen == choose(again, reoffer)
  IN keys # <<>> /\ CanChoose(client, offer) =>
       /\ FollowsRfc(client, offer, chosen)
       /\ HasKey(keys, chosen.server_host_key)
       /\ again = client => CanChoose(again, reoffer) /\ rechosen = chosen
       /\ CanChoose(again, reoffer) =>
            /\ FollowsRfc(again, reoffer, rechosen)
            /\ rechosen.server_host_key = host_key.algorithm
=============================================================================
