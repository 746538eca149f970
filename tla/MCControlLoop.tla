--------------------------- MODULE MCControlLoop ---------------------------
(* ControlLoop for TLC.  Three JVMs cover a first lap, a relaunch that     *)
(* fails and the one past a restart cap of one; two stop signals cover a   *)
(* second one while the first is being acted on.                           *)
EXTENDS ControlLoop
=============================================================================
