---------------------------- MODULE Watcher_proofs ----------------------------
(* Proofs about Watcher, for every number of windows, every kind of fault  *)
(* and every value of the configuration: a click decided earlier still     *)
(* respects the precedence of sessions when it lands.                      *)
EXTENDS Watcher, TLAPS

(* What is known of a click on its way: it was decided for this action, a  *)
(* cancel of a primary session was decided while a conflict dialog keeps   *)
(* it from logging in, and a new session's continue is its first.          *)
PendingSecondary ==
  (action = "SECONDARY" /\ pc = "clicking") =>
    button \notin {"continue", "relogin", "disconnect"}

PendingPrimary ==
  action = "PRIMARY" =>
    /\ (pc = "clicking" /\ button = "cancel") => ~loggedIn /\ current.kind \in Conflict
    /\ after # "invalid"

PendingManual ==
  action = "MANUAL" =>
    /\ pc = "clicking" => button \notin {"continue", "cancel", "relogin", "disconnect"}
    /\ after \notin {"ceded", "invalid"}

PendingTakeover ==
  /\ takeovers \in {0, 1}
  /\ ~attempted => takeovers = 0
  /\ (pc = "clicking" /\ button = "continue" /\ ~loggedIn) => attempted /\ takeovers = 0

IInv ==
  /\ Precedence
  /\ PendingSecondary
  /\ PendingPrimary
  /\ PendingManual
  /\ PendingTakeover

-----------------------------------------------------------------------------
LEMMA InitInv == Init => IInv
BY DEF Init, IInv, Precedence, PendingSecondary, PendingPrimary, PendingManual,
       PendingTakeover, NoWindow, Conflict

(* What one handle() decides keeps the invariant: it clicks nothing, or    *)
(* starts a click that the action allows in this role.                     *)
LEMMA HandleInv ==
  ASSUME IInv, UNCHANGED <<action, loggedIn, ghosts>>, pc = "dumping", Dispatch
  PROVE  IInv'
<1> USE DEF IInv, Precedence, PendingSecondary, PendingPrimary, PendingManual,
            PendingTakeover, ghosts
<1> DEFINE match == Matching(current)
<1>1. CASE LoginSignal(match)
  BY <1>1 DEF LoginSignal, Clicks, Watches, Raises
<1>2. CASE Clicks("rule", "watch") /\ UNCHANGED attempted
  BY <1>2 DEF Clicks
<1>3. CASE match = "existingSession" /\ ExistingSession
  <2>1. current.kind \in Conflict
    BY <1>3 DEF Matching, Conflict
  <2>2. CASE NewRole /\ ~loggedIn /\ action \in {"PRIMARY", "PRIMARYOVERRIDE"}
    BY <2>1, <2>2 DEF NewRole, Clicks
  <2> QED
    BY <1>3, <2>1, <2>2 DEF ExistingSession, Clicks, Watches
<1>4. CASE Relogin
  BY <1>4 DEF Relogin, Clicks, Watches
<1>5. CASE TradingLoginHandoff
  BY <1>5 DEF TradingLoginHandoff, Clicks, Watches, Raises
<1>6. CASE AcceptIncomingConnections
  BY <1>6 DEF AcceptIncomingConnections, Clicks, Watches
<1>7. CASE Watches /\ UNCHANGED attempted
  BY <1>7 DEF Watches
<1> QED
  BY <1>1, <1>2, <1>3, <1>4, <1>5, <1>6, <1>7 DEF Dispatch

(* The click has landed: it joins taken, and what follows it happens.      *)
LEMMA LandInv == IInv /\ ClickLands => IInv'
<1> SUFFICES ASSUME IInv, ClickLands PROVE IInv'
  OBVIOUS
<1> USE DEF IInv, PendingSecondary, PendingPrimary, PendingManual, PendingTakeover
<1>1. /\ pc' # "clicking"
      /\ after' \in {after, "watch"}
  BY DEF ClickLands, Continues, Watches, Raises
<1>2. Precedence'
  <2>1. \A b \in Button, role \in BOOLEAN :
          <<b, role>> \in taken' => <<b, role>> \in taken \/ (b = button /\ role = loggedIn)
    BY DEF ClickLands
  <2>2. {"continue", "relogin", "disconnect", "cancel"} \subseteq Button
    BY DEF Button
  <2> QED
    BY <1>1, <2>1, <2>2 DEF ClickLands, Precedence
<1>3. PendingTakeover'
  <2>1. CASE button = "continue" /\ ~loggedIn
    BY <1>1, <2>1 DEF ClickLands
  <2>2. CASE ~(button = "continue" /\ ~loggedIn)
    BY <1>1, <2>2 DEF ClickLands
  <2> QED
    BY <2>1, <2>2
<1> QED
  BY <1>1, <1>2, <1>3 DEF ClickLands

LEMMA NextInv == IInv /\ [Next]_vars => IInv'
<1> SUFFICES ASSUME IInv, [Next]_vars PROVE IInv'
  OBVIOUS
<1> USE DEF IInv, Precedence, PendingSecondary, PendingPrimary, PendingManual,
            PendingTakeover
<1>1. CASE Takes
  BY <1>1 DEF Takes, click, ghosts
<1>2. CASE Dumped
  <2>1. CASE Watches /\ UNCHANGED attempted
    BY <1>2, <2>1 DEF Dumped, Watches, ghosts
  <2>2. CASE Dispatch
    BY <1>2, <2>2, HandleInv DEF Dumped
  <2> QED
    BY <1>2, <2>1, <2>2 DEF Dumped
<1>3. CASE ClickLands
  BY <1>3, LandInv
<1>4. CASE ClickFails
  BY <1>4 DEF ClickFails, Continues, Watches, Raises, ghosts
<1>5. CASE WindowOpens
  BY <1>5 DEF WindowOpens, click, ghosts
<1>6. CASE WindowCloses
  BY <1>6 DEF WindowCloses, click, ghosts
<1>7. CASE LoginCompletes
  BY <1>7 DEF LoginCompletes, click, ghosts
<1>8. CASE UNCHANGED vars
  BY <1>8 DEF vars, click, ghosts
<1> QED
  BY <1>1, <1>2, <1>3, <1>4, <1>5, <1>6, <1>7, <1>8 DEF Next, Watch, Application

LEMMA AlwaysInv == Spec => []IInv
<1>1. Init => IInv
  BY InitInv
<1>2. IInv /\ [Next]_vars => IInv'
  BY NextInv
<1> QED
  BY <1>1, <1>2, PTL DEF Spec

(* Whatever dialogs come, close or refuse a click: a secondary session     *)
(* never displaces another, a logged-in primary session never gives way    *)
(* and a manual one decides nothing (existing_session_action).             *)
THEOREM PrecedenceHolds == Spec => []Precedence
<1>1. IInv => Precedence
  BY DEF IInv
<1> QED
  BY <1>1, AlwaysInv, PTL

(* A session that logs in takes the account over at most once, so two of   *)
(* them cannot displace each other for ever (_attempted).                  *)
THEOREM TakesOverOnce == Spec => []OneTakeover
<1>1. IInv => OneTakeover
  BY DEF IInv, PendingTakeover, OneTakeover
<1> QED
  BY <1>1, AlwaysInv, PTL

(* No recogniser ever acts on a window that shows a credential field       *)
(* (handle_window_opened).                                                 *)
THEOREM CredentialsLeftAlone == Spec => []CredentialsUntouched
<1> USE DEF CredentialsUntouched
<1>1. Init => CredentialsUntouched
  BY DEF Init
<1>2. CredentialsUntouched /\ [Next]_vars => CredentialsUntouched'
  <2> SUFFICES ASSUME CredentialsUntouched, [Next]_vars PROVE CredentialsUntouched'
    OBVIOUS
  <2>1. CASE Takes
    BY <2>1 DEF Takes
  <2>2. CASE Dumped
    BY <2>2 DEF Dumped, Dispatch, LoginSignal, ExistingSession, NewRole, Relogin,
                TradingLoginHandoff, AcceptIncomingConnections, Clicks, Watches, Raises
  <2>3. CASE ClickLands \/ ClickFails
    BY <2>3 DEF ClickLands, ClickFails, Continues, Watches, Raises
  <2>4. CASE Application \/ UNCHANGED vars
    BY <2>4 DEF Application, WindowOpens, WindowCloses, LoginCompletes, vars
  <2> QED
    BY <2>1, <2>2, <2>3, <2>4 DEF Next, Watch
<1> QED
  BY <1>1, <1>2, PTL DEF Spec

-----------------------------------------------------------------------------
(* What handle() decides is a button and an ending there are.              *)
LEMMA HandleType ==
  ASSUME TypeOK, pc = "dumping", Dispatch,
         UNCHANGED <<action, buffer, loggedIn, opened, ghosts>>
  PROVE  TypeOK'
<1> USE DEF TypeOK, Button, Ending, ghosts
<1>1. NoWindow \in Window
  BY DEF NoWindow, Window, Kind
<1>2. CASE \E b \in Button \ {"none"}, e \in Ending :
              Clicks(b, e) /\ attempted' \in BOOLEAN
  BY <1>2 DEF Clicks
<1>3. CASE Watches /\ UNCHANGED attempted
  BY <1>1, <1>3 DEF Watches
<1>4. CASE \E e \in Ending \ {"watch"} : Raises(e) /\ UNCHANGED attempted
  BY <1>4 DEF Raises
<1> QED
  BY <1>2, <1>3, <1>4 DEF Dispatch, LoginSignal, ExistingSession, NewRole, Relogin,
                          TradingLoginHandoff, AcceptIncomingConnections

LEMMA TypeStep == TypeOK /\ [Next]_vars => TypeOK'
<1> SUFFICES ASSUME TypeOK, [Next]_vars PROVE TypeOK'
  OBVIOUS
<1> USE DEF TypeOK
<1>0. NoWindow \in Window
  BY DEF NoWindow, Window, Kind
<1>1. CASE Takes
  <2>1. Head(buffer) \in Window /\ Tail(buffer) \in Seq(Window)
    BY <1>1 DEF Takes
  <2> QED
    BY <1>1, <2>1 DEF Takes, click, ghosts
<1>2. CASE Dumped
  <2>1. CASE Watches /\ UNCHANGED attempted
    BY <1>0, <1>2, <2>1 DEF Dumped, Watches, Button, Ending, ghosts
  <2>2. CASE Dispatch
    BY <1>2, <2>2, HandleType DEF Dumped
  <2> QED
    BY <1>2, <2>1, <2>2 DEF Dumped
<1>3. CASE ClickLands
  <2>1. takeovers' \in Nat
    BY <1>3 DEF ClickLands
  <2>2. taken' \subseteq Button \X BOOLEAN
    BY <1>3 DEF ClickLands
  <2> QED
    BY <1>0, <1>3, <2>1, <2>2 DEF ClickLands, Continues, Watches, Raises, Button, Ending
<1>4. CASE ClickFails
  BY <1>0, <1>4 DEF ClickFails, Continues, Watches, Raises, Button, Ending, ghosts
<1>5. CASE WindowOpens
  <2>1. PICK w \in [kind : Kinds, ruled : BOOLEAN, credentials : BOOLEAN] :
          buffer' = Append(buffer, w)
    BY <1>5 DEF WindowOpens
  <2>2. w \in Window
    BY <2>1, WatcherAssumption DEF Window
  <2>3. buffer' \in Seq(Window)
    BY <2>1, <2>2
  <2>4. opened' \in 0..MaxWindows
    BY <1>5, WatcherAssumption DEF WindowOpens
  <2> QED
    BY <1>5, <2>3, <2>4 DEF WindowOpens, click, ghosts
<1>6. CASE WindowCloses
  BY <1>6 DEF WindowCloses, click, ghosts
<1>7. CASE LoginCompletes
  BY <1>7 DEF LoginCompletes, click, ghosts
<1>8. CASE UNCHANGED vars
  BY <1>8 DEF vars, click, ghosts
<1> QED
  BY <1>1, <1>2, <1>3, <1>4, <1>5, <1>6, <1>7, <1>8 DEF Next, Watch, Application

(* Every variable keeps its type: a click has a button, and the watch ends *)
(* only with an exception.                                                 *)
THEOREM TypeCorrect == Spec => []TypeOK
<1>1. Init => TypeOK
  <2>1. NoWindow \in Window /\ 0 \in 0..MaxWindows
    BY WatcherAssumption DEF NoWindow, Window, Kind
  <2>2. ASSUME Init PROVE {gone, attempted, loggedIn} \subseteq BOOLEAN
    BY <2>2 DEF Init
  <2>3. ASSUME Init PROVE buffer \in Seq(Window) /\ takeovers \in Nat
    BY <2>3 DEF Init
  <2> QED
    BY <2>1, <2>2, <2>3 DEF Init, TypeOK, Button, Ending
<1> QED
  BY <1>1, TypeStep, PTL DEF Spec
=============================================================================
