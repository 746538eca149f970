----------------------------- MODULE MCSettings ------------------------------
(* Settings for TLC.  The user's files: none, one that overrides the entry *)
(* whose place matters, and one that adds an entry and two bad ones.       *)
EXTENDS Settings

MCUserFiles ==
  {<<>>,
   <<[key |-> "logoff", action |-> "logoff"]>>,
   <<[key |-> "unknown", action |-> "toggle"], [key |-> "literal", action |-> "bad"],
     [key |-> "literal", action |-> "toggle"]>>}
=============================================================================
