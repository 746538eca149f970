------------------------------- MODULE MCLogin -------------------------------
(* Login for TLC.  Gateway asks for the second factor three times, TWS     *)
(* twice, which covers a resubmission and the stale close of the round     *)
(* before.  TWS with read_only_login has two cooldown dialogs, one that    *)
(* replaces the pending retry of the other.                                *)
EXTENDS Login

Most(mfa, spurious, cooldown, byHand, misc) ==
  [mfa |-> mfa, spurious |-> spurious, cooldown |-> cooldown, byHand |-> byHand,
   misc |-> misc]

MCConfigs ==
  {[program |-> "GATEWAY", live |-> TRUE, readOnly |-> FALSE, relogin |-> TRUE,
    most |-> Most(3, 0, 1, 1, 0)],
   [program |-> "GATEWAY", live |-> TRUE, readOnly |-> FALSE, relogin |-> FALSE,
    most |-> Most(2, 0, 0, 0, 0)],
   [program |-> "TWS", live |-> TRUE, readOnly |-> FALSE, relogin |-> TRUE,
    most |-> Most(2, 1, 0, 1, 1)],
   [program |-> "TWS", live |-> TRUE, readOnly |-> TRUE, relogin |-> TRUE,
    most |-> Most(1, 0, 2, 1, 1)]}

(* A cooldown dialog, and nothing else on the way to the main window. *)
RetryOnly ==
  {[program |-> "TWS", live |-> FALSE, readOnly |-> FALSE, relogin |-> TRUE,
    most |-> Most(0, 0, 1, 1, 1)]}
=============================================================================
