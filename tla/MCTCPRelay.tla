----------------------------- MODULE MCTCPRelay -----------------------------
(* Instances of TCPRelay small enough for TLC; the configuration gives them. *)
EXTENDS TCPRelay
=============================================================================
