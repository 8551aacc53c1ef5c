------------------------------ MODULE HostKeys ------------------------------
(***************************************************************************)
(* oxish-proto/src/host_keys.rs: the files that hold the server's keys and *)
(* the list the server makes of them when it starts.                       *)
(*                                                                         *)
(* A private key is its algorithm, its secret as bytes, the most           *)
(* significant one first, and the public key it comes with.  A file is     *)
(* what to_bytes puts into it, field by field, or one that cannot be read  *)
(* that far.                                                               *)
(***************************************************************************)
EXTENDS Integers, Sequences, SequencesExt, FiniteSetsExt

CONSTANTS
  SCALAR_LEN,   \* the bytes of a secret, 32
  MAX_KEYS      \* HostKeys::MAX_KEYS, 16

ASSUME HostKeysAssumption == SCALAR_LEN \in Nat \ {0} /\ MAX_KEYS \in Nat \ {0}

Ecdsa == "ecdsa-sha2-nistp256"
Ed25519 == "ssh-ed25519"

Byte == 0..255
PrivateKey == [algorithm : {Ecdsa, Ed25519}, secret : [1..SCALAR_LEN -> Byte],
               public : {"matching", "other"}]

-----------------------------------------------------------------------------
(* One key. *)

Stripped(bytes) ==
  LET rest == {i \in DOMAIN bytes : bytes[i] # 0}
  IN IF rest = {} THEN <<>> ELSE SubSeq(bytes, Min(rest), Len(bytes))

\* A byte of zeros keeps a number whose top bit is set positive.
encode_mpint(value) ==
  LET trimmed == Stripped(value)
  IN IF trimmed # <<>> /\ trimmed[1] >= 128 THEN <<0>> \o trimmed ELSE trimmed

Encoded(key) ==
  IF key.algorithm = Ecdsa
    THEN [algorithm |-> Ecdsa, curve |-> "nistp256", public |-> key.public,
          private |-> encode_mpint(key.secret)]
    ELSE [algorithm |-> Ed25519, public |-> key.public,
          private |-> key.secret, copy |-> key.public]

\* The scalar gets back the zeros it was written without.
DecodedScalar(bytes) ==
  LET scalar == Stripped(bytes)
  IN [i \in 1..SCALAR_LEN |->
        IF i <= SCALAR_LEN - Len(scalar) THEN 0
        ELSE scalar[i - (SCALAR_LEN - Len(scalar))]]

Decodable(e) ==
  IF e.algorithm = Ecdsa
    THEN e.curve = "nistp256" /\ Len(Stripped(e.private)) \in 1..SCALAR_LEN
    ELSE e.algorithm = Ed25519 /\ Len(e.private) = SCALAR_LEN /\ e.copy = e.public

DecodedKey(e) ==
  [algorithm |-> e.algorithm, public |-> e.public,
   secret |-> IF e.algorithm = Ecdsa THEN DecodedScalar(e.private) ELSE e.private]

-----------------------------------------------------------------------------
(* OpenSshKeyV1. *)

\* The bytes of a key among the private ones, with its empty comment.
EncodedLength(e) ==
  4 + (IF e.algorithm = Ecdsa THEN (4 + 19) + (4 + 8) + (4 + 65) + 4 + Len(e.private)
                              ELSE (4 + 11) + (4 + 32) + 4 + 64)

\* The private section before its padding; the two check values take eight bytes.
PrivateLength(encoded) ==
  LET length[n \in 0..Len(encoded)] ==
        IF n = 0 THEN 8 ELSE length[n - 1] + EncodedLength(encoded[n])
  IN length[Len(encoded)]

\* 1, 2, 3, ... up to a multiple of eight.
Padding(encoded) == [i \in 1..((8 - (PrivateLength(encoded) % 8)) % 8) |-> i]

to_bytes(keys) ==
  LET encoded == [i \in DOMAIN keys |-> Encoded(keys[i])]
  IN [header |-> TRUE, cipher |-> "none", key_count |-> Len(keys), checks |-> <<1, 1>>,
      private |-> encoded, padding |-> Padding(encoded)]

\* OpenSshKeyV1::new wants a key, from_str refuses to do without one.
from_str_Valid(file) ==
  /\ file.header
  /\ file.cipher = "none"
  /\ file.key_count # 0
  /\ file.checks[1] = file.checks[2]
  /\ file.key_count <= Len(file.private)
  /\ \A i \in 1..file.key_count : Decodable(file.private[i])
  /\ file.key_count = Len(file.private)
  /\ \A i \in DOMAIN file.padding : file.padding[i] = i % 256

-----------------------------------------------------------------------------
(* HostKeys. *)

\* PKCS#8 holds the public key of an ECDSA key; an Ed25519 key gets it from the
\* secret.
to_pkcs8(key) == IF key.algorithm = Ecdsa THEN key ELSE [key EXCEPT !.public = "matching"]

\* A provider wants the public key to be the one of the secret.
signing_key_from_pkcs8(pkcs8) == pkcs8.public = "matching"

new(keys) ==
  LET refused == {i \in DOMAIN keys : ~signing_key_from_pkcs8(keys[i])}
  IN IF \E i \in refused : i <= MAX_KEYS THEN [error |-> "Crypto", keys |-> <<>>]
     ELSE IF Len(keys) >= MAX_KEYS THEN [error |-> "TooManyHostKeys", keys |-> <<>>]
     ELSE IF keys = <<>> THEN [error |-> "NoHostKeys", keys |-> <<>>]
     ELSE [error |-> "none", keys |-> keys]

\* Files that are not readable or not valid are skipped.
KeysOf(file) ==
  IF file.readable /\ from_str_Valid(file.content)
    THEN [i \in 1..file.content.key_count |->
            to_pkcs8(DecodedKey(file.content.private[i]))]
    ELSE <<>>

from_files(files) == new(FlattenSeq([i \in DOMAIN files |-> KeysOf(files[i])]))

algorithms(keys) == [i \in DOMAIN keys |-> keys[i].algorithm]

\* The first key of an algorithm; the error is UnknownAlgorithm.
HasKey(keys, algorithm) == \E i \in DOMAIN keys : keys[i].algorithm = algorithm
key(keys, algorithm) ==
  keys[Min({i \in DOMAIN keys : keys[i].algorithm = algorithm})]
=============================================================================
