---------------------------- MODULE MCLogStreams ----------------------------
(* LogStreams for TLC: two workers, two jobs, one subscriber whose buffer  *)
(* holds one line, one crash or shutdown.                                  *)
EXTENDS LogStreams
=============================================================================
