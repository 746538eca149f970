------------------------------- MODULE Settings -------------------------------
(***************************************************************************)
(* L5 settings, with the actions it uses and what the agent does for them  *)
(* in WriteOps: apply_declarative_settings opens the Global Configuration  *)
(* dialog through the menu, applies the merged entries one by one, and     *)
(* clicks OK.                                                              *)
(*                                                                         *)
(* A click is accepted first and lands later, on the EDT; every other      *)
(* command has its effect by the time it is answered, and may have had it  *)
(* when it fails or is cancelled.  Widgets remember the entry that set     *)
(* them last (0: none).  Time is counted in menu retries.                  *)
(***************************************************************************)
EXTENDS Naturals, Sequences, SequencesExt, FiniteSets

CONSTANTS
  UserFiles,       (* bound: what Config.settings_file may hold            *)
  Hooked,          (* after_apply is given (diagnostic_settings_sweep)     *)
  Timeout,         (* mfa_timeout, in menu retries                         *)
  NotFoundTimeout, (* _MENU_NOT_FOUND_TIMEOUT, in menu retries             *)
  MaxFailures,     (* bound: commands that fail                            *)
  MaxCancels       (* bound: cancellations of the phase                    *)

(* An entry: the Config field its value comes from ("literal" if it has a  *)
(* value of its own, "unknown" if there is no such field), and what it     *)
(* does.  A "bad" action is not supported.                                 *)
Keys    == {"logoff", "restart", "readOnly"}
TimeOf  == {"logoff", "restart"}
Entry   == [key : Keys \cup {"literal", "unknown"}, action : TimeOf \cup {"toggle", "bad"}]
Builtin == <<[key |-> "logoff", action |-> "logoff"],
             [key |-> "restart", action |-> "restart"],
             [key |-> "readOnly", action |-> "toggle"]>>

ASSUME SettingsAssumption ==
  /\ UserFiles \subseteq Seq(Entry)
  /\ Hooked \subseteq BOOLEAN
  /\ {Timeout, NotFoundTimeout, MaxFailures, MaxCancels} \subseteq Nat

VARIABLES
  user,            (* the user's settings file                             *)
  config,          (* Config's fields: unset, valid or malformed           *)
  hook,            (* after_apply is given                                 *)
  pc,              (* the await apply_declarative_settings is at           *)
  entry,           (* the entry being applied                              *)
  step,            (* the command of that entry which is next              *)
  clock,           (* navigate_menu: retries so far                        *)
  missingSince,    (* not_found_since                                      *)
  result,          (* how it ended                                         *)
  splash,          (* external: the splash frame is open                   *)
  menu,            (* external: the menu item                              *)
  clicks,          (* external: clicks accepted and not landed             *)
  dialog,          (* external: the Configuration dialog                   *)
  widgets,         (* external: who set each of its widgets last           *)
  committed,       (* external: the widgets as OK saved them               *)
  alive,           (* external: the agent                                  *)
  failures,        (* commands that failed                                 *)
  cancels,         (* cancellations of the phase                           *)
  spoiled          (* ghost: entries that failed                           *)

input   == <<user, config, hook>>
task    == <<pc, entry, step, clock, missingSince, result>>
program == <<splash, menu, clicks, dialog, widgets, committed, alive>>
faults  == <<failures, cancels, spoiled>>
vars    == <<input, task, program, faults>>

-----------------------------------------------------------------------------
(* merge_settings_files *)

Overriding(key) == {i \in DOMAIN user : user[i].key = key}
IsAdded(e)      == e.key \notin Keys
LastOf(key)     == user[CHOOSE i \in Overriding(key) : \A j \in Overriding(key) : j <= i]

(* Mutant: overrides go to the end. *)
MergedAtEnd ==
  SelectSeq(Builtin, LAMBDA e : Overriding(e.key) = {}) \o user

Merged ==
  [i \in DOMAIN Builtin |->
     IF Overriding(Builtin[i].key) = {} THEN Builtin[i] ELSE LastOf(Builtin[i].key)]
  \o SelectSeq(user, IsAdded)

(* _resolve_value *)
ValueOf(e)   == CASE e.key = "literal" -> "valid"
                  [] e.key = "unknown" -> "unresolved"
                  [] OTHER             -> config[e.key]
AnyToApply   == \E i \in DOMAIN Merged : ValueOf(Merged[i]) # "unset"
Entries      == 1 .. Len(Merged)

Fresh == [time |-> 0, ampm |-> 0, radio |-> 0, toggles |-> {}]
Unsaved == [Fresh EXCEPT !.toggles = {0}]

TypeOK ==
  /\ user \in UserFiles /\ config \in [Keys -> {"unset", "valid", "malformed"}]
  /\ {hook, splash, alive} \subseteq BOOLEAN
  /\ pc \in {"start", "splash", "navigate", "waitOpened", "apply", "hook", "closing", "done"}
  /\ entry \in Nat
  /\ step \in {"expand", "type", "typeOther", "ampm", "enable", "toggle"}
  /\ {clock, missingSince} \subseteq 0 .. (Timeout + 1)
  /\ result \in {"none", "ok", "nothing", "timeout", "notFound", "failed", "gone",
                 "cancelled", "abandoned", "unconfirmed"}
  /\ menu \in {"missing", "disabled", "enabled"}
  /\ clicks \in Seq({"menu", "ok"}) /\ Len(clicks) <= 2
  /\ dialog \in {"none", "open", "closed"}
  /\ {widgets, committed} \subseteq
       [time : Nat, ampm : Nat, radio : Nat, toggles : SUBSET Nat]
  /\ failures \in 0 .. MaxFailures /\ cancels \in 0 .. MaxCancels
  /\ spoiled \subseteq Nat

-----------------------------------------------------------------------------
(* apply_declarative_settings up to the dialog *)

Ends(r) ==
  /\ pc' = "done"
  /\ result' = r
  /\ UNCHANGED <<entry, step, clock, missingSince>>

Start ==
  /\ pc = "start"
  /\ IF hook \/ AnyToApply
       THEN pc' = "splash" /\ UNCHANGED <<entry, step, clock, missingSince, result>>
       ELSE Ends("nothing")
  /\ UNCHANGED <<input, program, faults>>

SplashClosed ==
  /\ pc = "splash"
  /\ ~splash
  /\ pc' = "navigate"
  /\ UNCHANGED <<input, entry, step, clock, missingSince, result, program, faults>>

(* The wait for the splash or for the dialog is over without its event. *)
WaitTimesOut ==
  /\ \/ pc = "splash" /\ splash
     \/ pc = "waitOpened" /\ dialog = "none"
  /\ Ends("timeout")
  /\ UNCHANGED <<input, program, faults>>

(* One NavigateMenu command, and the wait before the next: a path that     *)
(* does not resolve, an item that is disabled, an item clicked, an error.  *)
MenuMissing ==
  LET since == IF missingSince = 0 THEN clock + 1 ELSE missingSince IN
  /\ pc = "navigate" /\ alive
  /\ menu = "missing"
  /\ IF clock >= Timeout \/ clock + 1 - since >= NotFoundTimeout
       THEN Ends("notFound")
       ELSE /\ clock' = clock + 1
            /\ missingSince' = since
            /\ UNCHANGED <<pc, entry, step, result>>
  /\ UNCHANGED <<input, program, faults>>

(* Mutant: a disabled item is clicked without end. *)
MenuDisabledForever ==
  /\ pc = "navigate" /\ alive
  /\ menu = "disabled"
  /\ missingSince' = 0
  /\ clock' = IF clock >= Timeout THEN 0 ELSE clock + 1
  /\ UNCHANGED <<input, pc, entry, step, result, program, faults>>

MenuDisabled ==
  /\ pc = "navigate" /\ alive
  /\ menu = "disabled"
  /\ IF clock >= Timeout
       THEN Ends("timeout")
       ELSE /\ clock' = clock + 1
            /\ missingSince' = 0
            /\ UNCHANGED <<pc, entry, step, result>>
  /\ UNCHANGED <<input, program, faults>>

MenuClicked ==
  /\ pc = "navigate" /\ alive
  /\ menu = "enabled"
  /\ clicks' = Append(clicks, "menu")
  /\ pc' = "waitOpened"
  /\ UNCHANGED <<input, entry, step, clock, missingSince, result, splash, menu, dialog,
                 widgets, committed, alive, faults>>

MenuFails ==
  /\ pc = "navigate" /\ alive
  /\ failures < MaxFailures
  /\ failures' = failures + 1
  /\ Ends("notFound")
  /\ UNCHANGED <<input, program, cancels, spoiled>>

DialogOpened ==
  /\ pc = "waitOpened"
  /\ dialog # "none"
  /\ pc' = "apply"
  /\ UNCHANGED <<input, entry, step, clock, missingSince, result, program, faults>>

-----------------------------------------------------------------------------
(* apply_settings_from_file *)

Current == Merged[entry]

NextEntry ==
  /\ entry' = entry + 1
  /\ step' = "expand"
  /\ UNCHANGED <<pc, clock, missingSince, result>>

Goes(s) ==
  /\ step' = s
  /\ UNCHANGED <<pc, entry, clock, missingSince, result>>

Applying == pc = "apply" /\ entry \in Entries

(* A value that resolves to None. *)
Skipped ==
  /\ Applying
  /\ ValueOf(Current) = "unset"
  /\ NextEntry
  /\ UNCHANGED <<input, program, faults>>

(* The actions there are, and an entry that commands are sent for.         *)
Supported == TimeOf \cup {"toggle"}
Commands  == Applying /\ ValueOf(Current) \in {"valid", "malformed"}

(* SettingsError: no such field, or, once the section is shown, a malformed *)
(* value or an action there is none of.                                     *)
Refused ==
  /\ Applying
  /\ step = "expand"
  /\ \/ ValueOf(Current) = "unresolved"
     \/ /\ Commands /\ alive /\ dialog = "open"
        /\ ValueOf(Current) = "malformed" \/ Current.action \notin Supported
  /\ spoiled' = spoiled \cup {entry}
  /\ NextEntry
  /\ UNCHANGED <<input, program, failures, cancels>>

Expanded ==
  /\ Applying
  /\ step = "expand"
  /\ ValueOf(Current) = "valid" /\ Current.action \in Supported
  /\ alive /\ dialog = "open"
  /\ Goes(IF Current.action = "toggle" THEN "toggle" ELSE "type")
  /\ UNCHANGED <<input, program, faults>>

(* The time field is labelled by the radio that is selected; the other     *)
(* label is tried if the entry's own is not there.                         *)
SelectedBy == {Current.action} \cup {Merged[i].action : i \in {widgets.radio} \ {0}}

LabelMissing ==
  /\ Applying
  /\ step = "type"
  /\ alive /\ dialog = "open"
  /\ widgets.radio = 0 \/ SelectedBy # {Current.action}
  /\ Goes("typeOther")
  /\ UNCHANGED <<input, program, faults>>

LabelFound == step = "typeOther" \/ (step = "type" /\ SelectedBy = {Current.action})

(* What the next command makes of the widgets. *)
Set ==
  CASE LabelFound      -> [widgets EXCEPT !.time = entry]
    [] step = "ampm"   -> [widgets EXCEPT !.ampm = entry]
    [] step = "enable" -> [widgets EXCEPT !.radio = entry]
    [] step = "toggle" -> [widgets EXCEPT !.toggles = @ \cup {entry}]
    [] OTHER           -> widgets

Applied ==
  /\ Applying
  /\ alive /\ dialog = "open"
  /\ widgets' = Set
  /\ \/ LabelFound /\ Goes("ampm")
     \/ step = "ampm" /\ Goes("enable")
     \/ step \in {"enable", "toggle"} /\ NextEntry
  /\ UNCHANGED <<input, splash, menu, clicks, dialog, committed, alive, faults>>

(* Mutant: an entry that fails ends the loop. *)
FailedEntryEndsLoop ==
  /\ Commands
  /\ alive /\ dialog = "open"
  /\ failures < MaxFailures
  /\ failures' = failures + 1
  /\ spoiled' = spoiled \cup {entry}
  /\ entry' = Len(Merged) + 1
  /\ step' = "expand"
  /\ UNCHANGED <<pc, clock, missingSince, result>>
  /\ UNCHANGED <<input, program, cancels>>

(* ElementNotFoundError or AgentError: on to the next entry, whatever of   *)
(* this one has been applied.  An exception on the EDT, from a listener of *)
(* the widget, is an AgentError after the effect.                          *)
EntryFails ==
  /\ Commands
  /\ alive /\ dialog = "open"
  /\ failures < MaxFailures
  /\ failures' = failures + 1
  /\ spoiled' = spoiled \cup {entry}
  /\ widgets' \in {widgets, Set}
  /\ NextEntry
  /\ UNCHANGED <<input, splash, menu, clicks, dialog, committed, alive, cancels>>

Closes(r) ==
  /\ pc' = "closing"
  /\ result' = r
  /\ UNCHANGED <<entry, step, clock, missingSince>>

AllApplied ==
  /\ pc = "apply"
  /\ entry \notin Entries
  /\ IF hook THEN pc' = "hook" /\ UNCHANGED <<entry, step, clock, missingSince, result>>
             ELSE Closes("ok")
  /\ UNCHANGED <<input, program, faults>>

(* Mutant: OK is clicked only if nothing was raised. *)
HookRaisesPastOk ==
  /\ pc = "hook"
  /\ alive /\ dialog = "open"
  /\ \/ Closes("ok") /\ UNCHANGED failures
     \/ /\ failures < MaxFailures
        /\ failures' = failures + 1
        /\ Ends("failed")
  /\ UNCHANGED <<input, program, cancels, spoiled>>

(* after_apply returns, or raises an AgentClientError that is not about a  *)
(* dialog that has gone.                                                   *)
HookEnds ==
  /\ pc = "hook"
  /\ alive /\ dialog = "open"
  /\ \/ Closes("ok") /\ UNCHANGED failures
     \/ /\ failures < MaxFailures
        /\ failures' = failures + 1
        /\ Closes("failed")
  /\ UNCHANGED <<input, program, cancels, spoiled>>

(* WindowGoneError or ProtocolError, at any command. *)
Gone ==
  /\ \/ pc = "navigate" /\ ~alive
     \/ Commands /\ (~alive \/ dialog = "closed")
     \/ pc \in {"hook", "closing"} /\ (~alive \/ dialog = "closed")
  /\ Ends("gone")
  /\ UNCHANGED <<input, program, faults>>

-----------------------------------------------------------------------------
(* close_settings_dialog *)

OkClicked ==
  /\ pc = "closing"
  /\ alive /\ dialog = "open"
  /\ clicks' = Append(clicks, "ok")
  /\ Ends(result)
  /\ UNCHANGED <<input, splash, menu, dialog, widgets, committed, alive, faults>>

OkFails ==
  /\ pc = "closing"
  /\ alive /\ dialog = "open"
  /\ failures < MaxFailures
  /\ failures' = failures + 1
  /\ Ends("unconfirmed")
  /\ UNCHANGED <<input, program, cancels, spoiled>>

(* The phase is cancelled.  A command in flight is carried out or not;     *)
(* work on the dialog goes through the finally clause.                     *)
Cancelled ==
  /\ pc \notin {"start", "done"}
  /\ cancels < MaxCancels
  /\ cancels' = cancels + 1
  /\ CASE pc \in {"apply", "hook"} -> Closes("cancelled")
       [] pc = "closing" -> Ends("unconfirmed")
       [] OTHER -> Ends("abandoned")
  /\ \/ UNCHANGED clicks
     \/ pc = "navigate" /\ menu = "enabled" /\ alive /\ clicks' = Append(clicks, "menu")
     \/ pc = "closing" /\ dialog = "open" /\ alive /\ clicks' = Append(clicks, "ok")
  /\ \/ UNCHANGED widgets
     \/ Commands /\ dialog = "open" /\ alive /\ widgets' = Set
  /\ UNCHANGED <<input, splash, menu, dialog, committed, alive, failures, spoiled>>

-----------------------------------------------------------------------------
(* The application and its user (external) *)

SplashCloses ==
  /\ splash
  /\ splash' = FALSE
  /\ UNCHANGED <<input, task, menu, clicks, dialog, widgets, committed, alive, faults>>

MenuChanges ==
  /\ pc = "navigate" \/ "menu" \in ToSet(clicks)
  /\ menu' \in {"missing", "disabled", "enabled"} \ {menu}
  /\ UNCHANGED <<input, task, splash, clicks, dialog, widgets, committed, alive, faults>>

(* A deferred click.  One on a disabled item does nothing. *)
ClickLands ==
  /\ clicks # <<>>
  /\ alive
  /\ clicks' = Tail(clicks)
  /\ LET opens == Head(clicks) = "menu" /\ menu = "enabled" /\ dialog = "none"
         saves == Head(clicks) = "ok" /\ dialog = "open"
     IN /\ dialog' = IF opens THEN "open" ELSE IF saves THEN "closed" ELSE dialog
        /\ committed' = IF saves THEN widgets ELSE committed
  /\ UNCHANGED <<input, task, splash, menu, widgets, alive, faults>>

UserCloses ==
  /\ dialog = "open"
  /\ dialog' = "closed"
  /\ UNCHANGED <<input, task, splash, menu, clicks, widgets, committed, alive, faults>>

AgentDies ==
  /\ alive
  /\ alive' = FALSE
  /\ UNCHANGED <<input, task, splash, menu, clicks, dialog, widgets, committed, faults>>

Init ==
  /\ user \in UserFiles
  /\ config \in [Keys -> {"unset", "valid", "malformed"}] /\ config["readOnly"] # "malformed"
  /\ hook \in Hooked
  /\ pc = "start" /\ entry = 1 /\ step = "expand"
  /\ clock = 0 /\ missingSince = 0 /\ result = "none"
  /\ splash \in BOOLEAN /\ menu \in {"missing", "disabled", "enabled"}
  /\ clicks = <<>> /\ dialog = "none" /\ alive = TRUE
  /\ widgets = Fresh /\ committed = Unsaved
  /\ failures = 0 /\ cancels = 0 /\ spoiled = {}

Opening  == Start \/ SplashClosed \/ WaitTimesOut \/ MenuMissing \/ MenuDisabled
            \/ MenuClicked \/ MenuFails \/ DialogOpened
ApplyAll == Skipped \/ Refused \/ Expanded \/ LabelMissing \/ Applied \/ EntryFails
            \/ AllApplied \/ HookEnds \/ Gone
Closing  == OkClicked \/ OkFails
Phase    == Opening \/ ApplyAll \/ Closing
Next     == Phase \/ Cancelled \/ SplashCloses \/ MenuChanges \/ ClickLands
            \/ UserCloses \/ AgentDies

(* Every wait is bounded and the agent answers; the EDT runs what was put  *)
(* on it.                                                                  *)
Spec == Init /\ [][Next]_vars /\ WF_vars(Phase) /\ WF_vars(ClickLands)

-----------------------------------------------------------------------------
Saved == committed # Unsaved

(* The phase ends: the splash, the menu and the dialog are waited for only *)
(* so long, and the clock of a missing menu item starts again whenever the *)
(* item was there (navigate_menu).                                         *)
PhaseEnds == (pc = "splash") ~> (pc = "done")

(* The entries that failed after the entry i and may have typed a time:    *)
(* one that is malformed or has no such action sends no command for it.    *)
FailedTimes(i) ==
  {j \in spoiled : j > i /\ Merged[j].action \in TimeOf /\ ValueOf(Merged[j]) = "valid"}

(* apply_settings_from_file goes on after a bad entry, and what a completed *)
(* phase saves has every other entry with a value: a toggle as it is, and   *)
(* for a time its own radio or a later one's, with the time and the half of *)
(* the day of that same entry, or of a later time entry that failed.  So a  *)
(* bad entry costs only itself unless it sets a time: such a one, when it   *)
(* fails under way, may cost the time before it (SavedTimeIsOneEntrys).     *)
OthersApplied ==
  (Saved /\ result \in {"ok", "failed"}) =>
    \A i \in Entries \ spoiled :
      ValueOf(Merged[i]) = "valid" =>
        \/ Merged[i].action = "toggle" /\ i \in committed.toggles
        \/ /\ Merged[i].action # "toggle" /\ committed.radio >= i
           /\ {committed.time, committed.ampm}
                \subseteq {committed.radio} \cup FailedTimes(committed.radio)

(* builtin_settings.toml: auto_restart_time wins when both are set, also   *)
(* if the user's file overrides the built-in entries.                      *)
AutoRestartWins ==
  (Saved /\ result = "ok" /\ config["logoff"] = "valid" /\ config["restart"] = "valid"
         /\ spoiled = {})
    => /\ Merged[committed.radio].key = "restart"
       /\ committed.time = committed.radio /\ committed.ampm = committed.radio

(* However the work on the dialog ends, a cancellation included, OK is     *)
(* clicked, unless the dialog or the agent has gone (the finally clause of *)
(* apply_declarative_settings); a click that fails or is itself cancelled  *)
(* is not tried again.                                                     *)
DialogConfirmed ==
  pc = "done" =>
    \/ result \in {"ok", "failed", "cancelled"} /\ (dialog = "closed" \/ "ok" \in ToSet(clicks))
    \/ result = "gone" /\ (dialog # "open" \/ ~alive)
    \/ result \in {"nothing", "timeout", "notFound", "abandoned", "unconfirmed"}

(* apply_settings_from_file: "one bad entry costs exactly that entry, not  *)
(* the ones after it".  The time saved for the radio that an entry         *)
(* selected is that entry's, not one that a failed entry typed over it.    *)
(* This does not hold: the two time entries share one field.               *)
SavedTimeIsOneEntrys ==
  (Saved /\ committed.radio # 0) =>
    committed.time = committed.radio /\ committed.ampm = committed.radio

=============================================================================
