-------------------------------- MODULE Login --------------------------------
(***************************************************************************)
(* L5: LoginManager.  run() waits for the login frame, fills and submits   *)
(* it, and waits for the outcome task; the retry task resubmits after a    *)
(* cooldown; on live TWS the poll task reads the login frame.  All share   *)
(* one event loop: an action is what a task does from one await to the     *)
(* next, or the agent executing the command that task awaits.              *)
(*                                                                         *)
(* The application (external) shows the frame, asks for the second factor, *)
(* completes or rejects the login.  Its window events reach the dispatcher *)
(* some time later, in order (EventStream), and from there the outcome     *)
(* task's subscription: what is on its way has not been heard.             *)
(***************************************************************************)
EXTENDS Naturals, Sequences, SequencesExt

CONSTANTS
  Configs,         (* bound: the configurations that are run               *)
  AgentErrors      (* commands may also fail with AgentError               *)

(* What is bounded: times the second factor is asked for, 2FA closes       *)
(* reported while 2FA is still shown, "too many failed login attempts"     *)
(* dialogs, logins submitted by the user, other windows.                   *)
Counted == {"mfa", "spurious", "cooldown", "byHand", "misc"}

(* Config.program, trading_mode is LIVE, read_only_login,                  *)
(* relogin_after_mfa_timeout; and the bounds.                              *)
Config == [program : {"GATEWAY", "TWS"}, live : BOOLEAN, readOnly : BOOLEAN,
           relogin : BOOLEAN, most : [Counted -> Nat]]

ASSUME LoginAssumption == Configs \subseteq Config /\ AgentErrors \in BOOLEAN

VARIABLES
  config,          (* the Config of the program: never changes             *)
  state,           (* LoginManager.state                                   *)
  run,             (* run(): where it is                                   *)
  result,          (* how run() ended                                      *)
  restartExpected, (* the constructor's argument                           *)
  late,            (* mfa_timeout has elapsed since _login_start_time      *)
  readOnlyClicked, (* _read_only_clicked                                   *)
  mainId,          (* main_window_id                                       *)
  filling,         (* _fill_credentials_and_submit, for each of its callers*)
  retryFailed,     (* _retry_failed holds an exception                     *)
  outcome,         (* the task _wait_for_outcome                           *)
  watchdog,        (* it waits with the mfa_exit_interval timeout          *)
  heard,           (* its subscription: events not consumed yet            *)
  windows,         (* dispatcher.windows, the login frame aside            *)
  poll,            (* the task _poll_tws_2fa_frame                         *)
  pollSaw,         (* what its dump showed: the 2FA heading                *)
  screen,          (* external: what the login frame shows                 *)
  approved,        (* external: this submission's second factor was given  *)
  transit,         (* external: window events the dispatcher has not read  *)
  in,              (* external: the session is logged in                   *)
  tooMany,         (* external: a cooldown dialog the watcher has not seen *)
  count            (* external: how often each bounded thing happened      *)

manager == <<late, readOnlyClicked, mainId, retryFailed, watchdog>>
ending  == <<run, result, restartExpected>>
polling == <<poll, pollSaw>>
program == <<screen, approved, transit, in, tooMany, count>>
events  == <<heard, windows>>
vars    == <<config, state, manager, ending, filling, outcome, events, polling, program>>

Filler   == {"run", "retry", "outcome"}
Failure  == {"mfaTimeout", "agentError", "fillFailed", "retryFailed", "frameTimeout"}
Finished == {"ok", "mfaTimeout", "agentError"}
Subscribed == outcome \notin Finished \cup {"none", "created", "cancelled"}

Opened(w) == [kind |-> "opened", window |-> w]
Closed(w) == [kind |-> "closed", window |-> w]

Program  == config.program
Live     == config.live
ReadOnly == config.readOnly
Relogin  == config.relogin

TypeOK ==
  /\ config \in Configs
  /\ state \in {"LOGGED_OUT", "AWAITING_CREDENTIALS", "LOGGING_IN",
                "MFA_IN_PROGRESS", "LOGGED_IN"}
  /\ run \in {"frame", "fill", "wait", "ended"}
  /\ result \in Failure \cup {"none", "ok"}
  /\ {restartExpected, late, readOnlyClicked, retryFailed, watchdog,
      pollSaw, approved, in, tooMany} \subseteq BOOLEAN
  /\ mainId \in {"none", "main"}
  /\ filling \in [Filler -> {"idle", "cooldown", "typing", "clicking", "clicked"}]
  /\ outcome \in Finished \cup {"none", "created", "waiting", "probing", "mfaWait",
                                "reloginDelay", "filling", "capture", "cancelled"}
  /\ {heard, transit} \subseteq Seq({Opened(w) : w \in {"mfa", "misc", "main"}}
                                      \cup {Closed(w) : w \in {"mfa", "splash"}})
  /\ poll \in {"off", "sleeping", "dumping", "clicking", "clicked", "stopped", "died"}
  /\ screen \in {"absent", "form", "auth", "2fa", "gone"}
  /\ windows \subseteq {"mfa", "misc", "main"}
  /\ \A what \in Counted : count[what] \in 0 .. config.most[what]

-----------------------------------------------------------------------------
(* What the login frame answers.  While it authenticates, its fields may   *)
(* still resolve; the 2FA heading replaces them.                           *)

FormShown == screen = "form" \/ (screen = "auth" /\ ~approved)

FrameErrors ==
  (IF screen = "gone" THEN {"windowGone"} ELSE IF screen # "form" THEN {"notFound"} ELSE {})
    \cup (IF AgentErrors THEN {"agentError"} ELSE {})

(* The frame's content after a submitted login. *)
Submit == screen' = "auth" /\ approved' = FALSE

Sends(e) == transit' = Append(transit, e)

-----------------------------------------------------------------------------
(* _fill_credentials_and_submit, for the caller c. *)

FillBegins(c) ==
  /\ state' = "AWAITING_CREDENTIALS"
  /\ filling' = [filling EXCEPT ![c] = "typing"]

Typed(c) ==
  /\ filling[c] = "typing"
  /\ FormShown
  /\ state' = "LOGGING_IN"
  /\ late' = FALSE
  /\ filling' = [filling EXCEPT ![c] = "clicking"]
  /\ UNCHANGED <<config, readOnlyClicked, mainId, retryFailed, watchdog, ending,
                 outcome,
                 events, polling, program>>

ClickLands(c) ==
  /\ filling[c] = "clicking"
  /\ FormShown
  /\ Submit
  /\ filling' = [filling EXCEPT ![c] = "clicked"]
  /\ UNCHANGED <<config, state, manager, ending, outcome, events, polling, transit, in,
                 tooMany, count>>

(* The click is answered: run() starts the outcome task, the outcome task  *)
(* returns to its wait, the retry task is done.                            *)
Submitted(c) ==
  /\ filling[c] = "clicked"
  /\ filling' = [filling EXCEPT ![c] = "idle"]
  /\ outcome' = CASE c = "run" -> "created" [] c = "outcome" -> "waiting" [] OTHER -> outcome
  /\ run' = IF c = "run" THEN "wait" ELSE run
  /\ UNCHANGED <<config, state, manager, result, restartExpected, events, polling,
                 program>>

-----------------------------------------------------------------------------
(* run() *)

(* wait_for_window: the frame is open, or its event was heard. *)
FrameFound ==
  /\ run = "frame"
  /\ screen # "absent"
  /\ mainId' = "none"
  /\ IF restartExpected
       THEN /\ state' = "LOGGING_IN"
            /\ late' = FALSE
            /\ run' = "wait"
            /\ outcome' = "created"
            /\ UNCHANGED filling
       ELSE /\ FillBegins("run")
            /\ run' = "fill"
            /\ UNCHANGED <<late, outcome>>
  /\ UNCHANGED <<config, readOnlyClicked, retryFailed, watchdog, result,
                 restartExpected,
                 events, polling, program>>

FrameTimesOut ==
  /\ run = "frame"
  /\ run' = "ended"
  /\ result' = "frameTimeout"
  /\ UNCHANGED <<config, state, manager, restartExpected, filling, outcome, events,
                 polling, program>>

(* The finally clause: the outcome task is cancelled, with its poll, and a *)
(* pending retry too.  A poll that died re-raises where it is awaited, and *)
(* then the rest of the clause is not reached: a pending retry lives on.   *)
RunEnds(how) ==
  LET reraised == outcome \notin Finished /\ poll = "died" IN
  /\ run' = "ended"
  /\ result' = IF reraised THEN "agentError" ELSE how
  /\ outcome' = IF outcome \in Finished THEN outcome ELSE "cancelled"
  /\ heard' = <<>>
  /\ poll' = "off"
  /\ filling' = [c \in Filler |-> IF c = "retry" /\ reraised THEN filling[c] ELSE "idle"]
  /\ retryFailed' = (retryFailed /\ reraised)
  /\ UNCHANGED <<config, state, restartExpected, late, readOnlyClicked, mainId,
                 watchdog, windows, pollSaw, program>>

(* Mutant: only the outcome task is waited for. *)
RunWaitsForOutcome ==
  /\ run = "wait"
  /\ outcome \in Finished
  /\ RunEnds(outcome)

(* Mutant: a failed retry is looked at before the outcome. *)
RunPrefersRetry ==
  /\ run = "wait"
  /\ outcome \in Finished \/ retryFailed
  /\ RunEnds(IF retryFailed THEN "retryFailed" ELSE outcome)

RunWakes ==
  /\ run = "wait"
  /\ outcome \in Finished \/ retryFailed
  /\ RunEnds(IF outcome \in Finished THEN outcome ELSE "retryFailed")

-----------------------------------------------------------------------------
(* The retry task *)

(* schedule_retry, called by the window watcher; a newer cooldown replaces *)
(* a pending one, whether or not run() is still there to cancel it.        *)
ScheduleRetry ==
  /\ tooMany
  /\ tooMany' = FALSE
  /\ filling' = [filling EXCEPT !["retry"] = "cooldown"]
  /\ UNCHANGED <<config, state, manager, ending, outcome, events, polling,
                 screen, approved, transit, in, count>>

RetryWakes ==
  /\ filling["retry"] = "cooldown"
  /\ FillBegins("retry")
  /\ UNCHANGED <<config, manager, ending, outcome, events, polling, program>>

-----------------------------------------------------------------------------
(* The outcome task *)

OutcomeEnds(how) ==
  /\ outcome' = IF poll = "died" THEN "agentError" ELSE how
  /\ poll' = "off"
  /\ heard' = <<>>
  /\ UNCHANGED windows

(* Mutant: the TWS wait starts from nothing. *)
SubscribeOnly ==
  /\ outcome = "created"
  /\ outcome' = "waiting"
  /\ heard' = <<>>
  /\ poll' = IF Program = "TWS" /\ Live THEN "sleeping" ELSE "off"
  /\ UNCHANGED <<config, state, manager, ending, filling, windows, pollSaw, program>>

(* Subscribes; TWS starts with the windows already open, Gateway does not. *)
Subscribe ==
  /\ outcome = "created"
  /\ outcome' = "waiting"
  /\ heard' \in {[i \in DOMAIN s |-> Opened(s[i])] :
                   s \in SetToSeqs(IF Program = "TWS" THEN windows ELSE {})}
  /\ poll' = IF Program = "TWS" /\ Live THEN "sleeping" ELSE "off"
  /\ UNCHANGED <<config, state, manager, ending, filling, windows, pollSaw, program>>

Hearing(e) == outcome = "waiting" /\ heard # <<>> /\ Head(heard) = e

(* _after_mfa_closed, up to its sleep; TWS sets the state before it. *)
AfterMfaClosed ==
  /\ state' = IF Program = "TWS" THEN "MFA_IN_PROGRESS" ELSE state
  /\ heard' = Tail(heard)
  /\ watchdog' = (~readOnlyClicked /\ ~late /\ Relogin)
  /\ outcome' = IF ~readOnlyClicked /\ late /\ Relogin THEN "reloginDelay" ELSE "waiting"
  /\ UNCHANGED <<config, late, readOnlyClicked, mainId, retryFailed, ending,
                 filling, windows, polling, program>>

(* Mutant: a new subscription after the close; what was buffered is gone.  *)
MfaClosedDropsRest ==
  /\ IF Program = "TWS" THEN Hearing(Closed("mfa"))
     ELSE outcome = "mfaWait" /\ heard # <<>> /\ Head(heard) = Closed("mfa")
  /\ state' = IF Program = "TWS" THEN "MFA_IN_PROGRESS" ELSE state
  /\ heard' = <<>>
  /\ watchdog' = (~readOnlyClicked /\ ~late /\ Relogin)
  /\ outcome' = IF ~readOnlyClicked /\ late /\ Relogin THEN "reloginDelay" ELSE "waiting"
  /\ UNCHANGED <<config, late, readOnlyClicked, mainId, retryFailed, ending,
                 filling, windows, polling, program>>

(* TWS handles the close in its loop, Gateway only after the open. *)
HearsMfaClosed ==
  /\ IF Program = "TWS" THEN Hearing(Closed("mfa"))
     ELSE outcome = "mfaWait" /\ heard # <<>> /\ Head(heard) = Closed("mfa")
  /\ AfterMfaClosed

HearsMfaOpened ==
  /\ Hearing(Opened("mfa"))
  /\ state' = "MFA_IN_PROGRESS"
  /\ watchdog' = FALSE
  /\ heard' = Tail(heard)
  /\ outcome' = IF Program = "TWS" THEN "waiting" ELSE "mfaWait"
  /\ UNCHANGED <<config, late, readOnlyClicked, mainId, retryFailed, ending,
                 filling, windows, polling, program>>

(* Gateway: any other event, and anything else sub.wait() passes over. *)
Skips ==
  /\ Program = "GATEWAY"
  /\ heard # <<>>
  /\ \/ outcome = "mfaWait" /\ Head(heard) # Closed("mfa")
     \/ outcome = "waiting" /\ Head(heard) \notin {Opened("mfa"), Closed("splash")}
  /\ heard' = Tail(heard)
  /\ UNCHANGED <<config, state, manager, ending, filling, outcome, windows, polling,
                 program>>

(* TWS: a candidate for the main window; its event stays at the head of    *)
(* heard while menu_item_exists is on its way.                             *)
Probes ==
  /\ Program = "TWS"
  /\ outcome = "waiting"
  /\ heard # <<>>
  /\ Head(heard) \in {Opened("misc"), Opened("main")}
  /\ outcome' = "probing"
  /\ UNCHANGED <<config, state, manager, ending, filling, events, polling, program>>

LogsIn(id) ==
  /\ state' = "LOGGED_IN"
  /\ mainId' = id
  /\ OutcomeEnds("ok")
  /\ UNCHANGED <<late, readOnlyClicked, retryFailed, watchdog, ending, filling, pollSaw,
                 program, config>>

(* Mutant: any window that still exists is the main window. *)
ProbedOpenOnly ==
  /\ outcome = "probing"
  /\ IF Head(heard).window \in windows
       THEN LogsIn(Head(heard).window)
       ELSE /\ outcome' = "waiting"
            /\ heard' = Tail(heard)
            /\ UNCHANGED <<config, state, manager, ending, filling, windows, polling,
                           program>>

Probed ==
  /\ outcome = "probing"
  /\ IF Head(heard).window = "main"
       THEN LogsIn("main")
       ELSE /\ outcome' = "waiting"
            /\ heard' = Tail(heard)
            /\ UNCHANGED <<config, state, manager, ending, filling, windows, polling,
                           program>>

HearsSplashClosed ==
  /\ Program = "GATEWAY"
  /\ Hearing(Closed("splash"))
  /\ outcome' = "capture"
  /\ heard' = Tail(heard)
  /\ UNCHANGED <<config, state, manager, ending, filling, windows, polling, program>>

(* _capture_gateway_main_window is best effort. *)
Captured ==
  /\ outcome = "capture"
  /\ \E id \in {"main", "none"} : LogsIn(id)

(* A probe's AgentError is not caught, on either program. *)
ProbeFails ==
  /\ AgentErrors
  /\ outcome \in {"probing", "capture"}
  /\ OutcomeEnds("agentError")
  /\ UNCHANGED <<config, state, manager, ending, filling, pollSaw, program>>

(* A buffered event is taken before an expired timeout is, one still on    *)
(* its way is not.  An event put in the loop iteration in which the timer  *)
(* fires is lost to it too: that is the timer firing just before it.       *)
WatchdogFires ==
  /\ watchdog
  /\ outcome = "waiting"
  /\ heard = <<>>
  /\ OutcomeEnds("mfaTimeout")
  /\ UNCHANGED <<config, state, manager, ending, filling, pollSaw, program>>

(* Mutant: the login form is not looked for. *)
ReloginUnchecked ==
  /\ outcome = "reloginDelay"
  /\ FillBegins("outcome")
  /\ outcome' = "filling"
  /\ UNCHANGED <<config, manager, ending, events, polling, program>>

(* After the delay: _login_form_shown, then the resubmission. *)
ReloginChecked ==
  /\ outcome = "reloginDelay"
  /\ \/ /\ FormShown
        /\ FillBegins("outcome")
        /\ outcome' = "filling"
     \/ /\ FrameErrors \cap {"notFound", "windowGone"} # {}
        /\ outcome' = "waiting"
        /\ UNCHANGED <<state, filling>>
  /\ UNCHANGED <<config, manager, ending, events, polling, program>>

(* AgentError, from the check. *)
ReloginCheckFails ==
  /\ outcome = "reloginDelay"
  /\ AgentErrors
  /\ OutcomeEnds("agentError")
  /\ UNCHANGED <<config, state, manager, ending, filling, pollSaw, program>>

(* A fill fails: run() raises, the retry's exception is passed to run() if *)
(* it still waits, and the outcome task only forgives a missing element.   *)
FillFails(c) ==
  /\ filling[c] \in {"typing", "clicking"}
  /\ \E e \in FrameErrors :
       \/ /\ c = "run"
          /\ RunEnds("fillFailed")
       \/ /\ c = "retry"
          /\ retryFailed' = (retryFailed \/ run \in {"fill", "wait"})
          /\ filling' = [filling EXCEPT ![c] = "idle"]
          /\ UNCHANGED <<config, state, ending, late, readOnlyClicked, mainId, watchdog,
                         outcome, events, polling, program>>
       \/ /\ c = "outcome"
          /\ IF e = "agentError" THEN OutcomeEnds(e)
             ELSE outcome' = "waiting" /\ UNCHANGED <<events, poll>>
          /\ filling' = [filling EXCEPT ![c] = "idle"]
          /\ UNCHANGED <<config, state, manager, ending, pollSaw, program>>

-----------------------------------------------------------------------------
(* The poll task of live TWS *)

PollWakes ==
  /\ poll = "sleeping"
  /\ state = "LOGGING_IN"
  /\ poll' = "dumping"
  /\ pollSaw' = (screen = "2fa")
  /\ UNCHANGED <<config, state, manager, ending, filling, outcome, events, program>>

(* The dump is answered.  A dump that fails ends the poll. *)
PollReads ==
  /\ poll = "dumping"
  /\ \/ /\ pollSaw /\ state = "LOGGING_IN"
        /\ state' = "MFA_IN_PROGRESS"
        /\ poll' = IF ReadOnly THEN "clicking" ELSE "sleeping"
     \/ /\ ~(pollSaw /\ state = "LOGGING_IN")
        /\ poll' = "sleeping"
        /\ UNCHANGED state
     \/ /\ AgentErrors
        /\ poll' = "stopped"
        /\ UNCHANGED state
  /\ pollSaw' = FALSE
  /\ UNCHANGED <<config, manager, ending, filling, outcome, events, program>>


(* _enter_read_only: the agent clicks, the application closes its 2FA, and *)
(* the answer is on its way on the other socket.                           *)
ReadOnlyClickLands ==
  /\ poll = "clicking"
  /\ screen = "2fa"
  /\ screen' = "auth"
  /\ approved' = TRUE
  /\ Sends(Closed("mfa"))
  /\ poll' = "clicked"
  /\ UNCHANGED <<config, state, manager, ending, filling, outcome, events, pollSaw,
                 in, tooMany, count>>

ReadOnlyClickAnswered ==
  /\ poll = "clicked"
  /\ poll' = "sleeping"
  /\ readOnlyClicked' = TRUE
  /\ UNCHANGED <<config, state, late, mainId, retryFailed, watchdog, ending, filling,
                 outcome, events, pollSaw, program>>

(* A missing button is logged; any other error ends the task. *)
ReadOnlyClickFails ==
  /\ poll = "clicking"
  /\ \E e \in (IF screen = "2fa" THEN {} ELSE {"notFound"})
                \cup (IF AgentErrors THEN {"agentError"} ELSE {}) :
       poll' = IF e = "agentError" THEN "died" ELSE "sleeping"
  /\ UNCHANGED <<config, state, manager, ending, filling, outcome, events, pollSaw,
                 program>>

-----------------------------------------------------------------------------
(* The dispatcher's event reader: the next event changes the registry and  *)
(* goes to the subscription, if there is one.                              *)
EventArrives ==
  /\ transit # <<>>
  /\ LET e == Head(transit) IN
       /\ windows' = IF e.kind = "opened" THEN windows \cup {e.window}
                     ELSE windows \ {e.window}
       /\ heard' = IF Subscribed THEN Append(heard, e) ELSE heard
  /\ transit' = Tail(transit)
  /\ UNCHANGED <<config, state, manager, ending, filling, outcome, polling, screen,
                 approved, in, tooMany, count>>

-----------------------------------------------------------------------------
(* The application and its user (external) *)

Happens(what) ==
  /\ count[what] < config.most[what]
  /\ count' = [count EXCEPT ![what] = @ + 1]

(* A restart logs in again by itself. *)
FrameShows ==
  /\ screen = "absent"
  /\ screen' = IF restartExpected THEN "auth" ELSE "form"
  /\ UNCHANGED <<config, state, manager, ending, filling, outcome, events, polling,
                 approved, transit, in, tooMany, count>>

SubmittedByHand ==
  /\ screen = "form"
  /\ Happens("byHand")
  /\ Submit
  /\ UNCHANGED <<config, state, manager, ending, filling, outcome, events, polling,
                 transit, in, tooMany>>

TooManyAttempts ==
  /\ screen = "auth"
  /\ ~approved
  /\ Happens("cooldown")
  /\ tooMany' = TRUE
  /\ screen' = "form"
  /\ UNCHANGED <<config, state, manager, ending, filling, outcome, events, polling,
                 approved, transit, in>>

(* Gateway always opens a dialog; TWS turns the frame into the 2FA frame,  *)
(* and may report a window for it.                                         *)
Asks2fa ==
  /\ Program = "TWS" => Live
  /\ screen = "auth"
  /\ ~approved
  /\ Happens("mfa")
  /\ screen' = "2fa"
  /\ \/ Sends(Opened("mfa"))
     \/ Program = "TWS" /\ UNCHANGED transit
  /\ UNCHANGED <<config, state, manager, ending, filling, outcome, events, polling,
                 approved, in, tooMany>>

(* Given, refused, or, after a longer time, not answered. *)
Ends2fa ==
  /\ screen = "2fa"
  /\ \/ screen' = "auth" /\ approved' = TRUE
     \/ screen' = "form" /\ UNCHANGED approved
  /\ Sends(Closed("mfa"))
  /\ UNCHANGED <<config, state, manager, ending, filling, outcome, events, polling,
                 in, tooMany, count>>

(* TWS can report a 2FA close while the frame still shows 2FA. *)
SpuriousClose ==
  /\ Program = "TWS"
  /\ screen = "2fa"
  /\ Happens("spurious")
  /\ Sends(Closed("mfa"))
  /\ UNCHANGED <<config, state, manager, ending, filling, outcome, events, polling,
                 screen, approved, in, tooMany>>

(* A window on the way to the main one.  When it closes changes nothing: a *)
(* menu check of a window that has gone finds it is not the main one.      *)
MiscWindow ==
  /\ Program = "TWS"
  /\ screen = "auth"
  /\ Happens("misc")
  /\ Sends(Opened("misc"))
  /\ UNCHANGED <<config, state, manager, ending, filling, outcome, events, polling,
                 screen, approved, in, tooMany>>

(* TWS opens its main window, Gateway closes its splash. *)
Completes ==
  /\ screen = "auth"
  /\ screen' = "gone"
  /\ in' = TRUE
  /\ Sends(IF Program = "TWS" THEN Opened("main") ELSE Closed("splash"))
  /\ UNCHANGED <<config, state, manager, ending, filling, outcome, events, polling,
                 approved, tooMany, count>>

(* mfa_timeout is minutes: no event stays on its way or unread that long.  *)
(* That it has passed shows when a close is heard, so passing while that   *)
(* close is on its way is passing just before the second factor ended.     *)
TimePasses ==
  /\ ~late
  /\ run = "wait"
  /\ heard = <<>>
  /\ transit = <<>>
  /\ late' = TRUE
  /\ UNCHANGED <<config, state, readOnlyClicked, mainId, retryFailed, watchdog, ending,
                 filling, outcome, events, polling, program>>

-----------------------------------------------------------------------------
Init ==
  /\ config \in Configs
  /\ state = "LOGGED_OUT"
  /\ run = "frame" /\ result = "none" /\ restartExpected \in BOOLEAN
  /\ late = FALSE /\ readOnlyClicked = FALSE /\ mainId = "none"
  /\ filling = [c \in Filler |-> "idle"]
  /\ retryFailed = FALSE
  /\ outcome = "none" /\ watchdog = FALSE
  /\ heard = <<>> /\ windows = {} /\ transit = <<>>
  /\ poll = "off" /\ pollSaw = FALSE
  /\ screen = "absent" /\ approved = FALSE /\ in = FALSE
  /\ tooMany = FALSE
  /\ count = [what \in Counted |-> 0]

Run     == FrameFound \/ FrameTimesOut \/ RunWakes
Fill(c) == Typed(c) \/ ClickLands(c) \/ Submitted(c) \/ FillFails(c)
Retry   == ScheduleRetry \/ RetryWakes
Outcome == \/ Subscribe \/ HearsMfaClosed \/ HearsMfaOpened \/ Skips
           \/ Probes \/ Probed \/ HearsSplashClosed \/ Captured \/ ProbeFails
           \/ WatchdogFires \/ ReloginChecked \/ ReloginCheckFails
Poll    == \/ PollWakes \/ PollReads
           \/ ReadOnlyClickLands \/ ReadOnlyClickAnswered \/ ReadOnlyClickFails
Application == \/ FrameShows \/ SubmittedByHand \/ TooManyAttempts \/ Asks2fa
               \/ Ends2fa \/ SpuriousClose \/ MiscWindow \/ Completes \/ TimePasses

Next == \/ Run \/ (\E c \in Filler : Fill(c)) \/ Retry \/ Outcome \/ Poll
        \/ EventArrives \/ Application

(* The event loop runs every task that can run, the agent answers every    *)
(* command and sends every event; the application and its user owe nothing. *)
Fairness ==
  /\ WF_vars(EventArrives)
  /\ WF_vars(Run) /\ WF_vars(Retry) /\ WF_vars(Outcome) /\ WF_vars(Poll)
  /\ \A c \in Filler : WF_vars(Fill(c))

Spec == Init /\ [][Next]_vars /\ Fairness

-----------------------------------------------------------------------------
(* LOGGED_IN says the application is logged in, whatever windows came and  *)
(* went on the way there, and on TWS the main window is the one recorded   *)
(* (the checks on menu_item_exists and on the splash's own close).         *)
LoggedInMeansIn ==
  state = "LOGGED_IN" => in /\ (Program = "TWS" => mainId = "main")

(* LOGGED_IN is terminal for the cycle (login.py's docstring): a retry     *)
(* scheduled earlier, or for a dialog seen late, does not take it back.    *)
LoggedInIsTerminal == [][state = "LOGGED_IN" => state' = "LOGGED_IN"]_vars

(* A resubmission after an unanswered 2FA never types over a frame that    *)
(* shows 2FA, although closes are reported while it does                   *)
(* (_login_form_shown).                                                    *)
RefillOnlyOnForm ==
  filling["outcome"] = "typing" /\ count["byHand"] = 0 => screen # "2fa"

(* On Gateway, whose 2FA is a dialog of its own, the exit-interval         *)
(* watchdog of one round ends a login whose second factor is being asked   *)
(* for again only while the outcome task has not heard of that dialog: the *)
(* opening is always heard, and stops the timer.                           *)
HeardDialogStopsTimer ==
  [][Program = "GATEWAY" /\ outcome' = "mfaTimeout" /\ outcome # "mfaTimeout"
       => screen # "2fa" \/ Opened("mfa") \in Range(heard \o transit)]_vars

(* A login that completed is returned, not raised: a retry that failed     *)
(* does not override the outcome, only a poll of the 2FA frame that died   *)
(* of an AgentError does.                                                  *)
CompletedLoginReturns ==
  state = "LOGGED_IN" /\ run = "ended" =>
    result = "ok" \/ (AgentErrors /\ ReadOnly /\ result = "agentError")

(* The main window of TWS ends run(), even one that opened before the      *)
(* outcome task subscribed or during another window's menu check.          *)
MainWindowEndsRun ==
  (Program = "TWS" /\ run = "wait" /\ in) ~> (run = "ended")

(* A splash close that the subscription holds ends run(): no event before  *)
(* it makes the wait pass over it.                                         *)
SplashEndsRun ==
  (Closed("splash") \in Range(heard)) ~> (run = "ended")

(* A scheduled retry that fails ends run(), which otherwise waits for ever.*)
FailedRetryEndsRun == retryFailed ~> (run = "ended")
=============================================================================
