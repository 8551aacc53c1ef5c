----------------------------- MODULE Admission ------------------------------
(***************************************************************************)
(* What the server promises about connections that have not authenticated: *)
(* no more than Limit of them are being worked on, one is turned away only *)
(* when there are that many, and none comes back.  Server implements it.   *)
(*                                                                         *)
(*   inside   connections that are in their handshake                      *)
(*   seen     connections that were admitted or turned away                *)
(***************************************************************************)
EXTENDS Integers, FiniteSets

CONSTANTS Visitors, Limit

VARIABLES inside, seen

admissionVars == <<inside, seen>>

InitAdmission == inside = {} /\ seen = {}

Admit(c) ==
  /\ c \notin seen /\ Cardinality(inside) < Limit
  /\ inside' = inside \union {c}
  /\ seen' = seen \union {c}

TurnAway(c) ==
  /\ c \notin seen /\ Cardinality(inside) = Limit
  /\ seen' = seen \union {c}
  /\ UNCHANGED inside

Leave(c) ==
  /\ c \in inside
  /\ inside' = inside \ {c}
  /\ UNCHANGED seen

NextAdmission == \E c \in Visitors : Admit(c) \/ TurnAway(c) \/ Leave(c)

SpecAdmission == InitAdmission /\ [][NextAdmission]_admissionVars
=============================================================================
