-------------------------------- MODULE Fifo --------------------------------
(***************************************************************************)
(* What one direction of a connection promises: what is received is what   *)
(* was sent, in that order, each packet once.                              *)
(***************************************************************************)
EXTENDS Integers, Sequences

VARIABLES out, in

InitFifo == out = <<>> /\ in = <<>>

Send ==
  /\ Len(out) < Len(out') /\ SubSeq(out', 1, Len(out)) = out
  /\ UNCHANGED in

Receive ==
  /\ Len(in) < Len(out)
  /\ in' = Append(in, out[Len(in) + 1])
  /\ UNCHANGED out

SpecFifo == InitFifo /\ [][Send \/ Receive]_<<out, in>>
=============================================================================
