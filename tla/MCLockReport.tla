---------------------------- MODULE MCLockReport ----------------------------
(* LockReport for TLC; the constants are numbers and stand in the .cfg.     *)
EXTENDS LockReport, TLC
==============================================================================
