------------------------------- MODULE Watcher -------------------------------
(***************************************************************************)
(* L5: watch_for_unprompted_windows and the recognisers of                 *)
(* build_default_registry.  One task takes the window_opened events in     *)
(* order; each window is dumped, matched, and acted on before the next.    *)
(*                                                                         *)
(* A window is the built-in recogniser its title and text match ("other"   *)
(* if none does), whether a declarative rule of the labels matches it too, *)
(* and whether it shows a credential field.  The application, its user and *)
(* the other session of a conflict are external.                           *)
(***************************************************************************)
EXTENDS Naturals, Sequences

CONSTANTS
  ReloginEnabled,  (* Config.relogin_after_mfa_timeout                     *)
  Faults,          (* how a click may fail on a window that is still open  *)
  Accept,          (* Config.accept_incoming_connections                   *)
  Kinds,           (* bound: the kinds of window that open                 *)
  MaxWindows       (* bound: windows opened                                *)

VARIABLES
  action,          (* Config.existing_session_action                       *)
  buffer,          (* the watch's subscription: windows not looked at yet  *)
  pc,              (* where the watch is                                   *)
  current,         (* the window it is handling                            *)
  gone,            (* external: that window has closed                     *)
  button,          (* what the recogniser is clicking                      *)
  after,           (* what follows: back to the watch, or an exception     *)
  attempted,       (* ExistingSessionRecognizer._attempted                 *)
  loggedIn,        (* SessionState.is_logged_in                            *)
  opened,          (* external: windows opened so far                      *)
  taken,           (* ghost: <<button, loggedIn>> of every click that landed *)
  takeovers        (* ghost: continue clicks while not logged in           *)

ghosts == <<taken, takeovers>>
click  == <<button, after>>
vars   == <<action, buffer, pc, current, gone, click, attempted, loggedIn, opened, ghosts>>

Transient == {"loginFailed", "loginError", "notAvailable", "connectionFailed"}
Rejected  == {"unrecognized", "knownReason"}
Signal    == Transient \cup Rejected \cup {"tooMany", "exiting"}
Conflict  == {"existingSession", "relogin", "handoff"}
Kind      == Signal \cup Conflict \cup {"incoming", "other"}
Window    == [kind : Kind, ruled : BOOLEAN, credentials : BOOLEAN]

(* What the watch ends with; "watch" when it goes on. *)
Ending == {"watch", "transient", "rejected", "ceded", "invalid"}
Button == {"none", "dismiss", "rule", "continue", "cancel", "relogin", "disconnect",
           "accept", "reject"}

ASSUME WatcherAssumption ==
  /\ ReloginEnabled \in BOOLEAN
  /\ Faults \subseteq {"notFound", "agentError"}
  /\ Accept \in {"MANUAL", "ACCEPT", "REJECT"}
  /\ Kinds \subseteq Kind
  /\ MaxWindows \in Nat

NoWindow == [kind |-> "other", ruled |-> FALSE, credentials |-> FALSE]

TypeOK ==
  /\ action \in {"MANUAL", "SECONDARY", "PRIMARY", "PRIMARYOVERRIDE"}
  /\ buffer \in Seq(Window)
  /\ pc \in {"waiting", "dumping", "clicking", "ended"}
  /\ current \in Window
  /\ (pc = "clicking") => button # "none"
  /\ button \in Button
  /\ after \in Ending
  /\ (pc = "ended") => after # "watch"
  /\ {gone, attempted, loggedIn} \subseteq BOOLEAN
  /\ opened \in 0 .. MaxWindows
  /\ taken \subseteq (Button \X BOOLEAN)
  /\ takeovers \in Nat

-----------------------------------------------------------------------------
(* What a recogniser's handle() does up to its click, or to its end when   *)
(* it clicks nothing.                                                      *)

Clicks(b, then) ==
  /\ pc' = "clicking"
  /\ button' = b
  /\ after' = then
  /\ UNCHANGED <<current, gone>>

(* handle() returned, or nothing matched. *)
Watches ==
  /\ pc' = "waiting"
  /\ button' = "none"
  /\ after' = "watch"
  /\ current' = NoWindow
  /\ gone' = FALSE

Raises(e) ==
  /\ pc' = "ended"
  /\ after' = e
  /\ UNCHANGED <<button, current, gone>>

(* An outcome dialog is dismissed, then raised. *)
LoginSignal(kind) ==
  /\ \/ kind \in Transient /\ Clicks("dismiss", "transient")
     \/ kind \in Rejected /\ Clicks("dismiss", "rejected")
     \/ kind = "tooMany" /\ ReloginEnabled /\ Clicks("dismiss", "watch")
     \/ kind = "tooMany" /\ ~ReloginEnabled /\ Raises("rejected")
     \/ kind = "exiting" /\ Watches
  /\ UNCHANGED attempted

(* Mutant: a first attempt is not remembered. *)
NewRoleForgets ==
  /\ UNCHANGED attempted
  /\ IF attempted THEN Clicks("cancel", "ceded") ELSE Clicks("continue", "watch")

(* Scenarios 3 and 4: still logging in. *)
NewRole ==
  /\ attempted' = TRUE
  /\ IF attempted THEN Clicks("cancel", "ceded") ELSE Clicks("continue", "watch")

(* Mutant: is_logged_in is not asked. *)
RoleUnread ==
  \/ action = "MANUAL" /\ Watches /\ UNCHANGED attempted
  \/ action = "SECONDARY" /\ Clicks("cancel", "ceded") /\ UNCHANGED attempted
  \/ action \in {"PRIMARY", "PRIMARYOVERRIDE"} /\ NewRole

ExistingSession ==
  \/ action = "MANUAL" /\ Watches /\ UNCHANGED attempted
  \/ action = "SECONDARY" /\ Clicks("cancel", "ceded") /\ UNCHANGED attempted
  \/ action \in {"PRIMARY", "PRIMARYOVERRIDE"} /\ ~loggedIn /\ NewRole
  \/ action = "PRIMARY" /\ loggedIn /\ Clicks("continue", "watch") /\ UNCHANGED attempted
  \/ /\ action = "PRIMARYOVERRIDE" /\ loggedIn
     /\ Clicks("cancel", "ceded") /\ UNCHANGED attempted

(* Mutant: every session that is not manual reconnects. *)
ReloginAlways ==
  /\ IF action = "MANUAL" THEN Watches ELSE Clicks("relogin", "watch")
  /\ UNCHANGED attempted

Relogin ==
  /\ \/ action = "MANUAL" /\ Watches
     \/ action = "SECONDARY" /\ Clicks("cancel", "ceded")
     \/ action \in {"PRIMARY", "PRIMARYOVERRIDE"} /\ Clicks("relogin", "watch")
  /\ UNCHANGED attempted

TradingLoginHandoff ==
  /\ \/ action = "MANUAL" /\ Watches
     \/ action = "PRIMARY" /\ Clicks("disconnect", "watch")
     \/ action \in {"SECONDARY", "PRIMARYOVERRIDE"} /\ Raises("invalid")
  /\ UNCHANGED attempted

AcceptIncomingConnections ==
  /\ \/ Accept = "MANUAL" /\ Watches
     \/ Accept = "ACCEPT" /\ Clicks("accept", "watch")
     \/ Accept = "REJECT" /\ Clicks("reject", "watch")
  /\ UNCHANGED attempted

-----------------------------------------------------------------------------
(* The registry and the watch *)

(* Mutant: the declarative rules come first. *)
RulesFirst(w) == IF w.ruled THEN "rule" ELSE w.kind

(* Signals first, then the declarative rules, then the others. *)
Matching(w) == IF w.ruled /\ w.kind \notin Signal THEN "rule" ELSE w.kind

Dispatch ==
  LET match == Matching(current) IN
  \/ match \in Signal /\ LoginSignal(match)
  \/ match = "rule" /\ Clicks("rule", "watch") /\ UNCHANGED attempted
  \/ match = "existingSession" /\ ExistingSession
  \/ match = "relogin" /\ Relogin
  \/ match = "handoff" /\ TradingLoginHandoff
  \/ match = "incoming" /\ AcceptIncomingConnections
  \/ match = "other" /\ Watches /\ UNCHANGED attempted

Takes ==
  /\ pc = "waiting"
  /\ buffer # <<>>
  /\ current' = Head(buffer)
  /\ buffer' = Tail(buffer)
  /\ pc' = "dumping"
  /\ UNCHANGED <<action, gone, click, attempted, loggedIn, opened, ghosts>>

(* WindowGoneError, or a credential field: not handled. *)
Dumped ==
  /\ pc = "dumping"
  /\ IF gone \/ current.credentials THEN Watches /\ UNCHANGED attempted ELSE Dispatch
  /\ UNCHANGED <<action, buffer, loggedIn, opened, ghosts>>

Continues == IF after = "watch" THEN Watches ELSE Raises(after)

ClickLands ==
  /\ pc = "clicking"
  /\ ~gone
  /\ Continues
  /\ taken' = taken \cup {<<button, loggedIn>>}
  /\ takeovers' = takeovers + (IF button = "continue" /\ ~loggedIn THEN 1 ELSE 0)
  /\ UNCHANGED <<action, buffer, attempted, loggedIn, opened>>

(* Mutant: a failed dismiss is like any other failed click. *)
DismissIsStrict ==
  /\ pc = "clicking"
  /\ gone \/ Faults # {}
  /\ Watches
  /\ UNCHANGED <<action, buffer, attempted, loggedIn, opened, ghosts>>

(* _dismiss forgives a missing button and a closed window; any other       *)
(* AgentClientError ends the handling of this window, not the watch.       *)
ClickFails ==
  /\ pc = "clicking"
  /\ \E e \in (IF gone THEN {"windowGone"} ELSE Faults) :
       IF button = "dismiss" /\ e # "agentError" THEN Continues ELSE Watches
  /\ UNCHANGED <<action, buffer, attempted, loggedIn, opened, ghosts>>

-----------------------------------------------------------------------------
(* The application, its user and the other session (external) *)

(* The handoff only appears after this session chose to continue; a user   *)
(* may choose for a manual session.                                        *)
WindowOpens ==
  /\ opened < MaxWindows
  /\ opened' = opened + 1
  /\ \E w \in [kind : Kinds, ruled : BOOLEAN, credentials : BOOLEAN] :
       /\ w.kind = "handoff" => action = "MANUAL" \/ takeovers > 0
       /\ w.credentials => w.kind = "other"
       /\ buffer' = Append(buffer, w)
  /\ UNCHANGED <<action, pc, current, gone, click, attempted, loggedIn, ghosts>>

WindowCloses ==
  /\ pc \in {"dumping", "clicking"}
  /\ ~gone
  /\ gone' = TRUE
  /\ UNCHANGED <<action, buffer, pc, current, click, attempted, loggedIn, opened, ghosts>>

(* A conflict dialog still open keeps the login from completing. *)
LoginCompletes ==
  /\ ~loggedIn
  /\ \A i \in DOMAIN buffer : buffer[i].kind \notin Conflict
  /\ current.kind \notin Conflict
  /\ loggedIn' = TRUE
  /\ UNCHANGED <<action, buffer, pc, current, gone, click, attempted, opened, ghosts>>

Init ==
  /\ action \in {"MANUAL", "SECONDARY", "PRIMARY", "PRIMARYOVERRIDE"}
  /\ buffer = <<>> /\ pc = "waiting" /\ current = NoWindow /\ gone = FALSE
  /\ button = "none" /\ after = "watch"
  /\ attempted = FALSE /\ loggedIn = FALSE
  /\ opened = 0 /\ taken = {} /\ takeovers = 0

Watch       == Takes \/ Dumped \/ ClickLands \/ ClickFails
Application == WindowOpens \/ WindowCloses \/ LoginCompletes
Next == Watch \/ Application

(* The event loop runs the watch and the agent answers every command. *)
Spec == Init /\ [][Next]_vars /\ WF_vars(Watch)

-----------------------------------------------------------------------------
(* A dialog that says how the login ended raises that outcome, whatever a  *)
(* declarative rule matches and whether or not the dialog can be dismissed *)
(* (build_default_registry's order, _dismiss).                             *)
OutcomeIsRaised ==
  \A kind \in Transient \cup Rejected :
    (pc = "clicking" /\ current.kind = kind)
      ~> (pc = "ended" /\ after = IF kind \in Transient THEN "transient" ELSE "rejected")

(* A window that shows a credential field is left to the login, also when  *)
(* a rule matches its title (handle_window_opened).                        *)
CredentialsUntouched == pc \in {"clicking", "ended"} => ~current.credentials

(* A session that is logging in takes the account over at most once: if    *)
(* the conflict returns, the other side is primary and this one ends       *)
(* (_attempted).                                                           *)
OneTakeover == takeovers <= 1

(* docs/Configuration.md: a secondary session never displaces another, a   *)
(* primary session that is logged in never gives way, and the dialogs of a *)
(* manual session are the user's.                                          *)
Precedence ==
  /\ action = "SECONDARY" =>
       \A b \in {"continue", "relogin", "disconnect"}, role \in BOOLEAN :
         <<b, role>> \notin taken
  /\ action = "PRIMARY" => <<"cancel", TRUE>> \notin taken /\ after # "invalid"
  /\ action = "MANUAL" =>
       /\ \A b \in {"continue", "cancel", "relogin", "disconnect"}, role \in BOOLEAN :
            <<b, role>> \notin taken
       /\ after \notin {"ceded", "invalid"}

=============================================================================
