--------------------------- MODULE MCStateMachine ---------------------------
(* StateMachine for TLC: three transport streams, of which
   s3 has no clear service                         *)
EXTENDS StateMachine, TLC

CONSTANTS s1, s2, s3

MCStreams == {s1, s2, s3}
MCClear == {s1, s2}
==============================================================================
