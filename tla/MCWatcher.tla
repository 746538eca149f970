------------------------------ MODULE MCWatcher ------------------------------
(* Watcher for TLC.  Three windows cover a conflict that returns, with     *)
(* another dialog between or before them.                                  *)
EXTENDS Watcher
=============================================================================
