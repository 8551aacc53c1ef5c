----------------------------- MODULE MCSession ------------------------------
(* Session for TLC: any peer, one channel and one shell, key exchanges at  *)
(* any time.  The properties of Channels are checked here, inside the loop *)
(* that uses them.                                                         *)
EXTENDS Session
=============================================================================
