-------------------------- MODULE MCCommandChannel --------------------------
(* CommandChannel for TLC.  Three calls are enough for one in flight, one  *)
(* queued behind it and one sent after the dispatcher has closed.          *)
EXTENDS CommandChannel

CONSTANTS r1, r2, r3

MCReq == {r1, r2, r3}
=============================================================================
