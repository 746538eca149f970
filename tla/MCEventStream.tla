--------------------------- MODULE MCEventStream ---------------------------
(* EventStream for TLC.  Two windows, so that one closes while the other   *)
(* is opening; two clients that replace one another; a queue that a burst  *)
(* of events overruns.                                                     *)
EXTENDS EventStream

CONSTANTS w1, w2, c1, c2

MCWindow == {w1, w2}
MCClient == {c1, c2}
=============================================================================
