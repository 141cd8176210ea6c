----------------------------- MODULE MCShutdown -----------------------------
(* Shutdown for TLC; the constants are numbers and stand in the .cfg.       *)
EXTENDS Shutdown, TLC
==============================================================================
