---------------------------- MODULE MCTransport -----------------------------
(* Transport with small packets. *)
EXTENDS Transport

\* Two lengths, so that a packet that is cut in the wrong place is noticed.
MCSize ==
  [t \in MessageTypes |->
     IF t \in {"Auth", "NewKeys"} THEN 3 ELSE 2]
=============================================================================
