---------------------------- MODULE MCEventLoop ----------------------------
(* The instance of EventLoop that is small enough for TLC; MCEventLoop.cfg  *)
(* gives the sets.                                                          *)
EXTENDS EventLoop
=============================================================================
