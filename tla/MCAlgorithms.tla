---------------------------- MODULE MCAlgorithms ----------------------------
(***************************************************************************)
(* Bounded inputs for Algorithms.                                          *)
(***************************************************************************)
EXTENDS Algorithms

CONSTANTS
  MaxPayload,     \* the longest payload to send
  LengthFields,   \* packet lengths a peer may write
  OptionLength    \* symbols in front of a key, or inside the quotes of a command

-----------------------------------------------------------------------------
(* Packets. *)

\* Sent ones, and those of a peer with any part of them there.
MCSent == [payload_len : 1..MaxPayload, sealed : BOOLEAN]
MCForeign ==
  [sealed : BOOLEAN, have : {0, 3, 4, 5, 20, 24, 36, 40},
   packet : [packet_length : LengthFields, padding_length : {0, 3, 4, 11, 15, 255}]]

-----------------------------------------------------------------------------
(* Host keys and negotiation. *)

Key(algorithm, bytes, public) == [algorithm |-> algorithm, secret |-> bytes, public |-> public]

Good(secrets) ==
  [readable |-> TRUE, content |-> to_bytes(secrets), keys |-> secrets, intact |-> TRUE]
Damaged(file) ==
  {[file EXCEPT !.intact = FALSE, !.readable = FALSE],
   [file EXCEPT !.intact = FALSE, !.content.header = FALSE],
   [file EXCEPT !.intact = FALSE, !.content.cipher = "aes256-ctr"],
   [file EXCEPT !.intact = FALSE, !.content.key_count = 0],
   [file EXCEPT !.intact = FALSE, !.content.key_count = @ + 1],
   [file EXCEPT !.intact = FALSE, !.content.checks = <<1, 2>>],
   [file EXCEPT !.intact = FALSE, !.content.padding = <<1, 3>>],
   [file EXCEPT !.intact = FALSE, !.content.private[1].public = "third"]}

EcdsaKeys ==
  {Key(Ecdsa, bytes, "matching") : bytes \in {<<0, 1>>, <<1, 0>>, <<0, 128>>, <<128, 0>>}}
Ed == Key(Ed25519, <<0, 7>>, "matching")
OtherKeys == {Key(Ecdsa, <<3, 3>>, "other"), Key(Ed25519, <<0, 0>>, "other")}

Files ==
  {Good(<<k>>) : k \in EcdsaKeys \cup {Ed} \cup OtherKeys}
    \cup {Good(<<Ed, Key(Ecdsa, <<0, 1>>, "matching")>>)}
    \cup Damaged(Good(<<Ed>>))
FileLists == UNION {[1..n -> Files] : n \in 0..2}
TwoKeys == <<Good(<<Key(Ecdsa, <<0, 128>>, "matching")>>), Good(<<Ed>>)>>

Names(symbols, n) == UNION {[1..m -> symbols] : m \in 0..n}
KexNames == {"mlkem768x25519-sha256", "curve25519-sha256", "other@example",
             "kex-strict-c-v00@openssh.com", "kex-strict-s-v00@openssh.com"}
EncryptionLists == {<<>>, <<"other@example", "aes128-gcm@openssh.com">>}
Clients ==
  [key_exchange_algorithms : Names(KexNames, 2),
   server_host_key_algorithms : Names({Ecdsa, Ed25519, "ssh-rsa"}, 2),
   encryption_algorithms_client_to_server : EncryptionLists,
   encryption_algorithms_server_to_client : EncryptionLists]
Usual ==
  [key_exchange_algorithms |-> <<"ext-info-c", "curve25519-sha256">>,
   server_host_key_algorithms |-> <<Ed25519, Ecdsa>>,
   encryption_algorithms_client_to_server |-> <<"aes128-gcm@openssh.com">>,
   encryption_algorithms_server_to_client |-> <<"aes128-gcm@openssh.com">>]

MCName ==
  KexNames \cup {Ecdsa, Ed25519, "ssh-rsa", "ext-info-c", "aes128-gcm@openssh.com"}

\* All files with the usual client, and all clients with two keys, who send the
\* same lists or the usual ones when they rekey.
MCConnections ==
  [files : FileLists, client : {Usual}, again : {Usual}]
    \cup UNION {[files : {TwoKeys}, client : {client}, again : {client, Usual}] :
                  client \in Clients}

-----------------------------------------------------------------------------
(* Lines of authorized_keys and accounts. *)

Symbols == {Command, "=", Quote, Backslash, ",", Space, "x"}
MCSymbol == Symbols \cup {"#", KeyType, KeyData}
TheKey == <<Space, KeyType, Space, KeyData>>

MCLines ==
  {start \o text \o TheKey :
     start \in {<<>>, <<Space>>, <<Command, "=", Quote>>, <<Space, Command, "=", Quote>>},
     text \in Names(Symbols, OptionLength)}
    \cup Names(MCSymbol, OptionLength - 1)
MCCommands == Names(Symbols, OptionLength)

Answers ==
  {Failure, NoEntry}
    \cup [failed : {FALSE}, found : {TRUE}, uid : {0, 5}, length : {1, 8, 9, 20, 21},
          dir : {Null, "/home/a"}, shell : {Null, "", "/bin/zsh"}]
Objects == [there : BOOLEAN, statable : {TRUE}, writable : BOOLEAN, owner : {0, 5, 6}]
Homes ==
  [home : Objects, ssh : Objects, file : {o \in Objects : o.there}, readable : {TRUE},
   lines : {<<TheKey, <<"x">>, Restriction(<<"x">>) \o TheKey>>}]
Root == [there |-> TRUE, statable |-> TRUE, writable |-> FALSE, owner |-> 0]
Account ==
  [failed |-> FALSE, found |-> TRUE, uid |-> 5, length |-> 1, dir |-> "/home/a", shell |-> ""]
SafeHome ==
  [home |-> Root, ssh |-> Root, file |-> Root, readable |-> TRUE, lines |-> <<TheKey>>]

\* All accounts with a good directory, and all directories with one account or none.
MCLookups ==
  [answer : Answers, limit : {-1, 1, 5, 30}, home : {SafeHome}, root_policy : {"Allow", "Deny"}]
    \cup [answer : {NoEntry, Account}, limit : {-1}, home : Homes, root_policy : {"Deny"}]
=============================================================================
