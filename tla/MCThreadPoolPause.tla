--------------------------- MODULE MCThreadPoolPause ---------------------------
(* Instances of ThreadPoolPause for TLC.                                   *)
EXTENDS ThreadPoolPause
=============================================================================
