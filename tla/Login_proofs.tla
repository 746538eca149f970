----------------------------- MODULE Login_proofs -----------------------------
(* Proofs about Login, for every set of configurations and every bound.    *)
EXTENDS Login, FiniteSetTheorems, SequenceTheorems, TLAPS

-----------------------------------------------------------------------------
Windows == {"mfa", "misc", "main"}
Events  == {Opened(w) : w \in Windows} \cup {Closed(w) : w \in {"mfa", "splash"}}

ManagerType ==
  /\ config \in Configs
  /\ state \in {"LOGGED_OUT", "AWAITING_CREDENTIALS", "LOGGING_IN",
                "MFA_IN_PROGRESS", "LOGGED_IN"}
  /\ run \in {"frame", "fill", "wait", "ended"}
  /\ result \in Failure \cup {"none", "ok"}
  /\ restartExpected \in BOOLEAN /\ late \in BOOLEAN /\ readOnlyClicked \in BOOLEAN
  /\ retryFailed \in BOOLEAN /\ watchdog \in BOOLEAN
  /\ mainId \in {"none", "main"}

TaskType ==
  /\ filling \in [Filler -> {"idle", "cooldown", "typing", "clicking", "clicked"}]
  /\ outcome \in Finished \cup {"none", "created", "waiting", "probing", "mfaWait",
                                "reloginDelay", "filling", "capture", "cancelled"}
  /\ pollSaw \in BOOLEAN
  /\ poll \in {"off", "sleeping", "dumping", "clicking", "clicked", "stopped", "died"}

(* The event a menu check is about stays at the head of the subscription.  *)
HeardType ==
  /\ heard \in Seq(Events) /\ transit \in Seq(Events) /\ windows \subseteq Windows
  /\ outcome = "probing" => heard # <<>>

ProgramType ==
  /\ approved \in BOOLEAN /\ in \in BOOLEAN /\ tooMany \in BOOLEAN
  /\ screen \in {"absent", "form", "auth", "2fa", "gone"}
  /\ count \in [Counted -> Nat]
  /\ \A what \in Counted : count[what] <= config.most[what]

LoginInv == ManagerType /\ TaskType /\ HeardType /\ ProgramType

(* A configuration bounds everything that is counted. *)
LEMMA Bounds ==
  ASSUME ManagerType
  PROVE  /\ config \in Config
         /\ \A what \in Counted : config.most[what] \in Nat
BY LoginAssumption DEF ManagerType, Config

LEMMA InvImpliesType == LoginInv => TypeOK
<1> SUFFICES ASSUME LoginInv PROVE TypeOK
  OBVIOUS
<1>1. \A what \in Counted : count[what] \in 0 .. config.most[what]
  BY Bounds DEF LoginInv, ProgramType
<1>2. {restartExpected, late, readOnlyClicked, retryFailed, watchdog, pollSaw, approved,
       in, tooMany} \subseteq BOOLEAN
  BY DEF LoginInv, ManagerType, TaskType, ProgramType
<1>3. {heard, transit} \subseteq Seq({Opened(w) : w \in {"mfa", "misc", "main"}}
                                     \cup {Closed(w) : w \in {"mfa", "splash"}})
  BY DEF LoginInv, HeardType, Events, Windows
<1>4. windows \subseteq {"mfa", "misc", "main"}
  BY DEF LoginInv, HeardType, Windows
<1> QED
  BY <1>1, <1>2, <1>3, <1>4, Zenon DEF LoginInv, ManagerType, TaskType, ProgramType, TypeOK

LEMMA SendsType ==
  ASSUME HeardType, NEW e \in Events, Sends(e), UNCHANGED <<outcome, events>>
  PROVE  HeardType'
<1>1. Append(transit, e) \in Seq(Events)
  BY DEF HeardType
<1> QED
  BY <1>1 DEF HeardType, Sends, events

LEMMA TailHeard ==
  ASSUME HeardType, heard # <<>>
  PROVE  Tail(heard) \in Seq(Events)
BY DEF HeardType

LEMMA EmptyHeard == <<>> \in Seq(Events)
OBVIOUS

(* One more of what is bounded. *)
LEMMA HappensType ==
  ASSUME ManagerType, ProgramType, NEW what \in Counted, Happens(what)
  PROVE  /\ count' \in [Counted -> Nat]
         /\ \A w \in Counted : count'[w] <= config.most[w]
<1>1. count[what] \in Nat /\ count[what] + 1 \in Nat /\ config.most[what] \in Nat
  BY Bounds DEF ProgramType
<1>2. count[what] + 1 <= config.most[what]
  BY <1>1 DEF Happens
<1> QED
  BY <1>1, <1>2 DEF ProgramType, Happens

-----------------------------------------------------------------------------
LEMMA InitInv == Init => LoginInv
<1> SUFFICES ASSUME Init PROVE LoginInv
  OBVIOUS
<1>1. ManagerType
  BY DEF Init, ManagerType
<1>2. TaskType
  BY DEF Init, TaskType
<1>3. HeardType
  BY EmptyHeard DEF Init, HeardType
<1>4. ProgramType
  <2>1. \A what \in Counted : 0 <= config.most[what]
    BY <1>1, Bounds
  <2> QED
    BY <2>1 DEF Init, ProgramType
<1> QED
  BY <1>1, <1>2, <1>3, <1>4 DEF LoginInv

LEMMA FillInv ==
  ASSUME LoginInv, NEW c \in Filler, Fill(c)
  PROVE  LoginInv'
<1> USE DEF LoginInv, manager, ending, events, polling, program, vars
<1>1. CASE Typed(c)
  <2>1. ManagerType'
    BY <1>1 DEF Typed, ManagerType
  <2>2. TaskType'
    BY <1>1 DEF Typed, TaskType
  <2>3. HeardType'
    BY <1>1 DEF Typed, HeardType
  <2>4. ProgramType'
    BY <1>1 DEF Typed, ProgramType
  <2> QED
    BY <2>1, <2>2, <2>3, <2>4
<1>2. CASE ClickLands(c)
  <2>1. ManagerType'
    BY <1>2 DEF ClickLands, Submit, ManagerType
  <2>2. TaskType'
    BY <1>2 DEF ClickLands, Submit, TaskType
  <2>3. HeardType'
    BY <1>2 DEF ClickLands, Submit, HeardType
  <2>4. ProgramType'
    BY <1>2 DEF ClickLands, Submit, ProgramType
  <2> QED
    BY <2>1, <2>2, <2>3, <2>4
<1>3. CASE Submitted(c)
  <2>1. ManagerType' /\ ProgramType'
    BY <1>3 DEF Submitted, ManagerType, ProgramType
  <2>2. TaskType' /\ HeardType'
    BY <1>3 DEF Submitted, TaskType, HeardType
  <2> QED
    BY <2>1, <2>2
<1>4. CASE FillFails(c)
  <2>1. PICK e \in FrameErrors :
       \/ /\ c = "run"
          /\ RunEnds("fillFailed")
       \/ /\ c = "retry"
          /\ retryFailed' = (retryFailed \/ run \in {"fill", "wait"})
          /\ filling' = [filling EXCEPT ![c] = "idle"]
          /\ UNCHANGED <<config, state, ending, late, readOnlyClicked, mainId, watchdog,
                         outcome, events, polling, program>>
       \/ /\ c = "outcome"
          /\ IF e = "agentError" THEN OutcomeEnds(e)
             ELSE outcome' = "waiting" /\ UNCHANGED <<events, poll>>
          /\ filling' = [filling EXCEPT ![c] = "idle"]
          /\ UNCHANGED <<config, state, manager, ending, pollSaw, program>>
    BY <1>4 DEF FillFails
  <2>2. CASE c = "run"
    <3>1. RunEnds("fillFailed")
      BY <2>1, <2>2
    <3>2. ManagerType' /\ ProgramType'
      <4>1. ManagerType'
        BY <3>1 DEF RunEnds, Failure, ManagerType
      <4>2. ProgramType'
        BY <3>1 DEF RunEnds, Failure, ProgramType
      <4> QED
        BY <4>1, <4>2
    <3>3. TaskType' /\ HeardType'
      <4>1. TaskType'
        BY <3>1 DEF RunEnds, TaskType
      <4>2. HeardType'
        BY <3>1, EmptyHeard DEF RunEnds, HeardType, Finished
      <4> QED
        BY <4>1, <4>2
    <3> QED
      BY <3>2, <3>3
  <2>3. CASE c = "retry"
    <3>1. ManagerType' /\ ProgramType'
      BY <2>1, <2>3 DEF ManagerType, ProgramType
    <3>2. TaskType' /\ HeardType'
      BY <2>1, <2>3 DEF TaskType, HeardType
    <3> QED
      BY <3>1, <3>2
  <2>4. CASE c = "outcome"
    <3>1. ManagerType' /\ ProgramType'
      BY <2>1, <2>4 DEF ManagerType, ProgramType
    <3>2. TaskType' /\ HeardType'
      BY <2>1, <2>4, EmptyHeard DEF TaskType, HeardType, OutcomeEnds, Finished
    <3> QED
      BY <3>1, <3>2
  <2> QED
    BY <2>2, <2>3, <2>4 DEF Filler
<1> QED
  BY <1>1, <1>2, <1>3, <1>4 DEF Fill

LEMMA RunInv ==
  ASSUME LoginInv, Run \/ Retry
  PROVE  LoginInv'
<1> USE DEF LoginInv, manager, ending, events, polling, program, vars
<1>1. CASE FrameFound
  <2>1. ManagerType' /\ ProgramType'
    <3>1. ManagerType'
      BY <1>1 DEF FrameFound, FillBegins, ManagerType
    <3>2. ProgramType'
      BY <1>1 DEF FrameFound, FillBegins, ProgramType
    <3> QED
      BY <3>1, <3>2
  <2>2. TaskType' /\ HeardType'
    BY <1>1 DEF FrameFound, FillBegins, TaskType, HeardType
  <2> QED
    BY <2>1, <2>2
<1>2. CASE FrameTimesOut
  BY <1>2 DEF FrameTimesOut, Failure, ManagerType, TaskType, HeardType, ProgramType
<1>3. CASE RunWakes
  <2>1. PICK how \in Finished \cup {"retryFailed"} : RunEnds(how)
    BY <1>3 DEF RunWakes
  <2>2. ManagerType' /\ ProgramType'
    <3>1. ManagerType'
      BY <2>1 DEF RunEnds, Failure, Finished, ManagerType
    <3>2. ProgramType'
      BY <2>1 DEF RunEnds, Failure, Finished, ProgramType
    <3> QED
      BY <3>1, <3>2
  <2>3. TaskType' /\ HeardType'
    BY <2>1, EmptyHeard DEF RunEnds, TaskType, HeardType, Finished
  <2> QED
    BY <2>2, <2>3
<1>4. CASE ScheduleRetry
  <2>1. ManagerType'
    BY <1>4 DEF ScheduleRetry, ManagerType
  <2>2. TaskType'
    BY <1>4 DEF ScheduleRetry, TaskType
  <2>3. HeardType'
    BY <1>4 DEF ScheduleRetry, HeardType
  <2>4. ProgramType'
    BY <1>4 DEF ScheduleRetry, ProgramType
  <2> QED
    BY <2>1, <2>2, <2>3, <2>4
<1>5. CASE RetryWakes
  <2>1. ManagerType'
    BY <1>5 DEF RetryWakes, FillBegins, ManagerType
  <2>2. TaskType'
    BY <1>5 DEF RetryWakes, FillBegins, TaskType
  <2>3. HeardType'
    BY <1>5 DEF RetryWakes, FillBegins, HeardType
  <2>4. ProgramType'
    BY <1>5 DEF RetryWakes, FillBegins, ProgramType
  <2> QED
    BY <2>1, <2>2, <2>3, <2>4
<1> QED
  BY <1>1, <1>2, <1>3, <1>4, <1>5 DEF Run, Retry

(* The windows already open, in some order. *)
LEMMA Seeded ==
  ASSUME LoginInv, Subscribe
  PROVE  heard' \in Seq(Events)
<1> DEFINE S == IF Program = "TWS" THEN windows ELSE {}
<1>1. S \subseteq Windows
  BY DEF LoginInv, HeardType
<1>2. IsFiniteSet(Windows)
  <2>1. IsFiniteSet({}) /\ Windows = (({} \cup {"mfa"}) \cup {"misc"}) \cup {"main"}
    BY FS_EmptySet DEF Windows
  <2> QED
    BY <2>1, FS_AddElement
<1>3. Cardinality(S) \in Nat
  BY <1>1, <1>2, FS_Subset, FS_CardinalityType
<1>4. PICK s \in SetToSeqs(S) : heard' = [i \in DOMAIN s |-> Opened(s[i])]
  BY DEF Subscribe
<1>5. s \in [1..Cardinality(S) -> S]
  BY <1>4 DEF SetToSeqs
<1>6. heard' \in [1..Cardinality(S) -> Events]
  BY <1>1, <1>4, <1>5 DEF Events
<1> QED
  BY <1>3, <1>6

LEMMA LogsInType ==
  ASSUME LoginInv, NEW id \in {"none", "main"}, LogsIn(id)
  PROVE  LoginInv'
<1> USE DEF LoginInv, manager, ending, events, polling, program, vars, LogsIn, OutcomeEnds
<1>1. ManagerType' /\ ProgramType'
  BY DEF ManagerType, ProgramType
<1>2. TaskType' /\ HeardType'
  BY EmptyHeard DEF TaskType, HeardType, Finished
<1> QED
  BY <1>1, <1>2

LEMMA OutcomeEndsType ==
  ASSUME LoginInv, NEW how \in Finished, OutcomeEnds(how),
         UNCHANGED <<config, state, manager, ending, filling, pollSaw, program>>
  PROVE  LoginInv'
<1> USE DEF LoginInv, manager, ending, events, polling, program, OutcomeEnds
<1>1. ManagerType' /\ ProgramType'
  BY DEF ManagerType, ProgramType
<1>2. TaskType' /\ HeardType'
  BY EmptyHeard DEF TaskType, HeardType, Finished
<1> QED
  BY <1>1, <1>2

LEMMA OutcomeInv ==
  ASSUME LoginInv, Outcome
  PROVE  LoginInv'
<1> USE DEF LoginInv, manager, ending, events, polling, program, vars
<1>1. CASE Subscribe
  <2>1. ManagerType' /\ ProgramType'
    BY <1>1 DEF Subscribe, ManagerType, ProgramType
  <2>2. /\ outcome' = "waiting" /\ poll' \in {"sleeping", "off"}
        /\ UNCHANGED <<filling, pollSaw, transit, windows>>
    BY <1>1 DEF Subscribe
  <2>3. TaskType' /\ HeardType'
    BY <1>1, <2>2, Seeded DEF TaskType, HeardType
  <2> QED
    BY <2>1, <2>3
<1>2. CASE HearsMfaClosed
  <2>1. heard # <<>> /\ AfterMfaClosed
    BY <1>2 DEF HearsMfaClosed, Hearing
  <2>2. ManagerType' /\ ProgramType'
    BY <2>1 DEF AfterMfaClosed, ManagerType, ProgramType
  <2>3. TaskType' /\ HeardType'
    BY <2>1, TailHeard DEF AfterMfaClosed, TaskType, HeardType
  <2> QED
    BY <2>2, <2>3
<1>3. CASE HearsMfaOpened
  <2>1. ManagerType' /\ ProgramType'
    <3>1. ManagerType'
      BY <1>3 DEF HearsMfaOpened, ManagerType
    <3>2. ProgramType'
      BY <1>3 DEF HearsMfaOpened, ProgramType
    <3> QED
      BY <3>1, <3>2
  <2>2. TaskType' /\ HeardType'
    BY <1>3, TailHeard DEF HearsMfaOpened, Hearing, TaskType, HeardType
  <2> QED
    BY <2>1, <2>2
<1>4. CASE Skips
  <2>1. ManagerType' /\ ProgramType' /\ TaskType'
    BY <1>4 DEF Skips, ManagerType, ProgramType, TaskType
  <2>2. HeardType'
    BY <1>4, TailHeard DEF Skips, HeardType
  <2> QED
    BY <2>1, <2>2
<1>5. CASE Probes
  BY <1>5 DEF Probes, ManagerType, TaskType, HeardType, ProgramType
<1>6. CASE Probed
  <2>1. CASE Head(heard).window = "main"
    BY <1>6, <2>1, LogsInType DEF Probed
  <2>2. CASE Head(heard).window # "main"
    <3>1. /\ outcome = "probing" /\ outcome' = "waiting" /\ heard' = Tail(heard)
          /\ UNCHANGED <<config, state, manager, ending, filling, windows, polling, program>>
      BY <1>6, <2>2 DEF Probed
    <3>2. ManagerType' /\ ProgramType' /\ TaskType'
      BY <3>1 DEF ManagerType, ProgramType, TaskType
    <3>3. HeardType'
      BY <3>1, TailHeard DEF HeardType
    <3> QED
      BY <3>2, <3>3
  <2> QED
    BY <2>1, <2>2
<1>7. CASE HearsSplashClosed
  <2>1. ManagerType' /\ ProgramType' /\ TaskType'
    BY <1>7 DEF HearsSplashClosed, ManagerType, ProgramType, TaskType
  <2>2. HeardType'
    BY <1>7, TailHeard DEF HearsSplashClosed, Hearing, HeardType
  <2> QED
    BY <2>1, <2>2
<1>8. CASE Captured
  BY <1>8, LogsInType DEF Captured
<1>9. CASE ProbeFails \/ WatchdogFires \/ ReloginCheckFails
  BY <1>9, OutcomeEndsType DEF ProbeFails, WatchdogFires, ReloginCheckFails, Finished
<1>10. CASE ReloginChecked
  <2>1. ManagerType' /\ ProgramType'
    BY <1>10 DEF ReloginChecked, FillBegins, ManagerType, ProgramType
  <2>2. TaskType' /\ HeardType'
    BY <1>10 DEF ReloginChecked, FillBegins, TaskType, HeardType, Filler
  <2> QED
    BY <2>1, <2>2
<1> QED
  BY <1>1, <1>2, <1>3, <1>4, <1>5, <1>6, <1>7, <1>8, <1>9, <1>10 DEF Outcome

LEMMA PollInv ==
  ASSUME LoginInv, Poll
  PROVE  LoginInv'
<1> USE DEF LoginInv, manager, ending, events, polling, program, vars
<1>1. CASE PollWakes
  BY <1>1 DEF PollWakes, ManagerType, TaskType, HeardType, ProgramType
<1>2. CASE PollReads
  <2>1. ManagerType' /\ ProgramType'
    BY <1>2 DEF PollReads, ManagerType, ProgramType
  <2>2. TaskType' /\ HeardType'
    BY <1>2 DEF PollReads, TaskType, HeardType
  <2> QED
    BY <2>1, <2>2
<1>3. CASE ReadOnlyClickLands
  <2>1. Closed("mfa") \in Events
    BY DEF Events
  <2>2. HeardType'
    BY <1>3, <2>1, SendsType DEF ReadOnlyClickLands
  <2>3. ManagerType' /\ TaskType' /\ ProgramType'
    BY <1>3 DEF ReadOnlyClickLands, ManagerType, TaskType, ProgramType
  <2> QED
    BY <2>2, <2>3
<1>4. CASE ReadOnlyClickAnswered
  BY <1>4 DEF ReadOnlyClickAnswered, ManagerType, TaskType, HeardType, ProgramType
<1>5. CASE ReadOnlyClickFails
  BY <1>5 DEF ReadOnlyClickFails, ManagerType, TaskType, HeardType, ProgramType
<1> QED
  BY <1>1, <1>2, <1>3, <1>4, <1>5 DEF Poll

LEMMA ApplicationInv ==
  ASSUME LoginInv, Application
  PROVE  LoginInv'
<1> USE DEF LoginInv, manager, ending, events, polling, program, vars
<1>1. /\ Opened("mfa") \in Events /\ Opened("misc") \in Events /\ Opened("main") \in Events
      /\ Closed("mfa") \in Events /\ Closed("splash") \in Events
  BY DEF Events, Windows
<1>2. CASE FrameShows
  BY <1>2 DEF FrameShows, ManagerType, TaskType, HeardType, ProgramType
<1>3. CASE SubmittedByHand
  <2>1. "byHand" \in Counted
    BY DEF Counted
  <2>2. ManagerType' /\ TaskType' /\ HeardType'
    BY <1>3 DEF SubmittedByHand, ManagerType, TaskType, HeardType
  <2>3. ProgramType'
    BY <1>3, <2>1, HappensType DEF SubmittedByHand, Submit, ProgramType
  <2> QED
    BY <2>2, <2>3
<1>4. CASE TooManyAttempts
  <2>1. "cooldown" \in Counted
    BY DEF Counted
  <2>2. ManagerType' /\ TaskType' /\ HeardType'
    BY <1>4 DEF TooManyAttempts, ManagerType, TaskType, HeardType
  <2>3. ProgramType'
    BY <1>4, <2>1, HappensType DEF TooManyAttempts, ProgramType
  <2> QED
    BY <2>2, <2>3
<1>5. CASE Asks2fa
  <2>1. "mfa" \in Counted
    BY DEF Counted
  <2>2. ManagerType' /\ TaskType'
    BY <1>5 DEF Asks2fa, ManagerType, TaskType
  <2>3. HeardType'
    <3>1. CASE Sends(Opened("mfa"))
      BY <1>1, <1>5, <3>1, SendsType DEF Asks2fa
    <3>2. CASE UNCHANGED transit
      BY <1>5, <3>2 DEF Asks2fa, HeardType
    <3> QED
      BY <1>5, <3>1, <3>2 DEF Asks2fa
  <2>4. ProgramType'
    BY <1>5, <2>1, HappensType DEF Asks2fa, ProgramType
  <2> QED
    BY <2>2, <2>3, <2>4
<1>6. CASE Ends2fa
  <2>1. HeardType'
    BY <1>1, <1>6, SendsType DEF Ends2fa
  <2>2. ManagerType' /\ TaskType'
    BY <1>6 DEF Ends2fa, ManagerType, TaskType
  <2>3. ProgramType'
    BY <1>6 DEF Ends2fa, ProgramType
  <2> QED
    BY <2>1, <2>2, <2>3
<1>7. CASE SpuriousClose
  <2>1. "spurious" \in Counted
    BY DEF Counted
  <2>2. HeardType'
    BY <1>1, <1>7, SendsType DEF SpuriousClose
  <2>3. ManagerType' /\ TaskType'
    BY <1>7 DEF SpuriousClose, ManagerType, TaskType
  <2>4. ProgramType'
    BY <1>7, <2>1, HappensType DEF SpuriousClose, ProgramType
  <2> QED
    BY <2>2, <2>3, <2>4
<1>8. CASE MiscWindow
  <2>1. "misc" \in Counted
    BY DEF Counted
  <2>2. HeardType'
    BY <1>1, <1>8, SendsType DEF MiscWindow
  <2>3. ManagerType' /\ TaskType'
    BY <1>8 DEF MiscWindow, ManagerType, TaskType
  <2>4. ProgramType'
    BY <1>8, <2>1, HappensType DEF MiscWindow, ProgramType
  <2> QED
    BY <2>2, <2>3, <2>4
<1>9. CASE Completes
  <2>1. HeardType'
    BY <1>1, <1>9, SendsType DEF Completes
  <2>2. ManagerType' /\ TaskType'
    BY <1>9 DEF Completes, ManagerType, TaskType
  <2>3. ProgramType'
    BY <1>9 DEF Completes, ProgramType
  <2> QED
    BY <2>1, <2>2, <2>3
<1>10. CASE TimePasses
  BY <1>10 DEF TimePasses, ManagerType, TaskType, HeardType, ProgramType
<1> QED
  BY <1>2, <1>3, <1>4, <1>5, <1>6, <1>7, <1>8, <1>9, <1>10 DEF Application

LEMMA ArrivesInv ==
  ASSUME LoginInv, EventArrives
  PROVE  LoginInv'
<1> USE DEF LoginInv, manager, ending, events, polling, program
<1>1. transit \in Seq(Events) /\ transit # <<>> /\ heard \in Seq(Events)
  BY DEF EventArrives, HeardType
<1>2. Head(transit) \in Events /\ Tail(transit) \in Seq(Events)
  BY <1>1
<1>3. Append(heard, Head(transit)) \in Seq(Events) /\ Append(heard, Head(transit)) # <<>>
  <2> DEFINE e == Head(transit)
  <2>1. e \in Events
    BY <1>2
  <2> HIDE DEF e
  <2>2. Append(heard, e) \in Seq(Events) /\ Append(heard, e) # <<>>
    BY <1>1, <2>1
  <2> QED
    BY <2>2 DEF e
<1>4. Head(transit).kind = "opened" => Head(transit).window \in Windows
  BY <1>2 DEF Events, Opened, Closed
<1>5. windows' \subseteq Windows
  BY <1>4 DEF EventArrives, HeardType
<1>6. HeardType'
  BY <1>2, <1>3, <1>5 DEF EventArrives, HeardType
<1>7. ManagerType' /\ TaskType' /\ ProgramType'
  BY DEF EventArrives, ManagerType, TaskType, ProgramType
<1> QED
  BY <1>6, <1>7

LEMMA NextInv == LoginInv /\ [Next]_vars => LoginInv'
<1> SUFFICES ASSUME LoginInv, [Next]_vars PROVE LoginInv'
  OBVIOUS
<1>1. CASE UNCHANGED vars
  BY <1>1 DEF LoginInv, ManagerType, TaskType, HeardType, ProgramType, vars, manager,
     ending, events, polling, program
<1>2. CASE Next
  BY <1>2, RunInv, FillInv, OutcomeInv, PollInv, ArrivesInv, ApplicationInv DEF Next
<1> QED
  BY <1>1, <1>2

(* The login's variables keep to their types, the subscription holds only  *)
(* events of the windows the login knows, and one that a menu check is     *)
(* about is never consumed by anything else.                               *)
THEOREM TypeCorrect == Spec => []TypeOK
<1> QED
  BY InitInv, NextInv, InvImpliesType, PTL DEF Spec

-----------------------------------------------------------------------------
(* Where run() is, and whose fill is under way, tell how far the outcome   *)
(* task can be.                                                            *)
PlaceInv ==
  /\ run = "frame" => outcome = "none" /\ ~late
  /\ run = "fill" => outcome = "none"
  /\ run = "ended" => outcome \in Finished \cup {"none", "cancelled"}
  /\ filling["run"] # "idle" => run = "fill"
  /\ filling["outcome"] # "idle" => outcome = "filling"
  /\ ~Subscribed => heard = <<>>

(* Tasks that neither run() nor the outcome task waits for.                *)
LEMMA PlaceStep ==
  ASSUME LoginInv, PlaceInv, [Next]_vars
  PROVE  PlaceInv'
<1> USE DEF manager, ending, events, polling, program
<1>1. ASSUME NEW c \in Filler, Fill(c)
      PROVE  PlaceInv'
  <2>1. CASE Typed(c) \/ ClickLands(c)
    BY <2>1 DEF Typed, ClickLands, PlaceInv, Subscribed, Finished, LoginInv, TaskType, Filler
  <2>2. CASE Submitted(c)
    BY <2>2 DEF Submitted, PlaceInv, Subscribed, Finished, LoginInv, TaskType, Filler
  <2>3. CASE FillFails(c)
    <3>1. CASE RunEnds("fillFailed")
      BY <3>1 DEF RunEnds, PlaceInv, Subscribed, Finished, Filler
    <3>2. CASE c = "retry" /\ ~RunEnds("fillFailed")
      BY <2>3, <3>2 DEF FillFails, PlaceInv, Subscribed, Finished, LoginInv, TaskType, Filler
    <3>3. CASE c = "outcome" /\ ~RunEnds("fillFailed")
      BY <2>3, <3>3 DEF FillFails, OutcomeEnds, PlaceInv, Subscribed, Finished, LoginInv,
         TaskType, Filler
    <3> QED
      BY <2>3, <3>1, <3>2, <3>3 DEF FillFails, Filler
  <2> QED
    BY <1>1, <2>1, <2>2, <2>3 DEF Fill
<1>2. CASE Run
  <2>1. CASE FrameFound
    BY <2>1 DEF FrameFound, FillBegins, PlaceInv, Subscribed, Finished, LoginInv, TaskType,
       Filler
  <2>2. CASE FrameTimesOut
    BY <2>2 DEF FrameTimesOut, PlaceInv, Subscribed, Finished, Filler
  <2>3. CASE RunWakes
    BY <2>3 DEF RunWakes, RunEnds, PlaceInv, Subscribed, Finished, Filler
  <2> QED
    BY <1>2, <2>1, <2>2, <2>3 DEF Run
<1>3. CASE Retry
  BY <1>3 DEF Retry, ScheduleRetry, RetryWakes, FillBegins, PlaceInv, Subscribed, LoginInv,
     TaskType, Filler
<1>4. CASE Outcome
  <2>1. outcome \in {"created", "waiting", "probing", "mfaWait", "reloginDelay", "capture"}
        /\ UNCHANGED <<run, late>>
    BY <1>4 DEF Outcome, Subscribe, HearsMfaClosed, AfterMfaClosed, HearsMfaOpened, Skips,
       Probes, Probed, HearsSplashClosed, Captured, ProbeFails, WatchdogFires, ReloginChecked,
       ReloginCheckFails, Hearing, LogsIn
  <2>2. run = "wait" /\ filling["run"] = "idle" /\ filling["outcome"] = "idle"
    BY <2>1 DEF PlaceInv, LoginInv, ManagerType, Finished
  <2>3. filling'["run"] = "idle" /\ (filling'["outcome"] # "idle" => outcome' = "filling")
    BY <1>4, <2>2 DEF Outcome, Subscribe, HearsMfaClosed, AfterMfaClosed, HearsMfaOpened,
       Skips,
       Probes, Probed, HearsSplashClosed, Captured, ProbeFails, WatchdogFires, ReloginChecked,
       ReloginCheckFails, Hearing, LogsIn, FillBegins, LoginInv, TaskType, Filler
  <2>4. Subscribed' \/ heard' = <<>>
    BY <1>4 DEF Outcome, Subscribe, HearsMfaClosed, AfterMfaClosed, HearsMfaOpened, Skips,
       Probes, Probed, HearsSplashClosed, Captured, ProbeFails, WatchdogFires, ReloginChecked,
       ReloginCheckFails, Hearing, LogsIn, OutcomeEnds, Subscribed, Finished
  <2> QED
    BY <2>1, <2>2, <2>3, <2>4 DEF PlaceInv
<1>5. CASE Poll \/ Application \/ UNCHANGED vars
  <2>1. UNCHANGED <<run, outcome, filling, heard>> /\ (late' = late \/ run = "wait")
    BY <1>5 DEF Poll, PollWakes, PollReads, ReadOnlyClickLands, ReadOnlyClickAnswered,
       ReadOnlyClickFails, Application, FrameShows, SubmittedByHand, TooManyAttempts, Asks2fa,
       Ends2fa, SpuriousClose, MiscWindow, Completes, TimePasses, vars
  <2> QED
    BY <2>1 DEF PlaceInv, Subscribed
<1>6. CASE EventArrives
  <2>1. UNCHANGED <<run, outcome, filling, late>> /\ (~Subscribed => UNCHANGED heard)
    BY <1>6 DEF EventArrives
  <2> QED
    BY <2>1 DEF PlaceInv, Subscribed
<1> QED
  BY <1>1, <1>2, <1>3, <1>4, <1>5, <1>6 DEF Next

(* The configuration never changes.                                        *)
LEMMA ConfigStep == [Next]_vars => config' = config
<1> USE DEF manager, ending, events, polling, program, vars
<1>1. ASSUME NEW c \in Filler, Fill(c) PROVE config' = config
  BY <1>1 DEF Fill, Typed, ClickLands, Submitted, FillFails, RunEnds
<1>2. ASSUME Run \/ Retry PROVE config' = config
  BY <1>2 DEF Run, FrameFound, FrameTimesOut, RunWakes, RunEnds, Retry, ScheduleRetry,
     RetryWakes
<1>3. ASSUME Outcome PROVE config' = config
  BY <1>3 DEF Outcome, Subscribe, HearsMfaClosed, AfterMfaClosed, HearsMfaOpened, Skips,
     Probes,
     Probed, HearsSplashClosed, Captured, ProbeFails, WatchdogFires, ReloginChecked,
     ReloginCheckFails, LogsIn
<1>4. ASSUME Poll \/ EventArrives \/ Application PROVE config' = config
  BY <1>4 DEF Poll, PollWakes, PollReads, ReadOnlyClickLands, ReadOnlyClickAnswered,
     ReadOnlyClickFails, EventArrives, Application, FrameShows, SubmittedByHand,
     TooManyAttempts, Asks2fa,
     Ends2fa, SpuriousClose, MiscWindow, Completes, TimePasses
<1> QED
  BY <1>1, <1>2, <1>3, <1>4 DEF Next

(* Only the poll of a read-only login clicks, and only its click can end   *)
(* the poll with an error.                                                 *)
PollSound ==
  /\ poll = "clicking" => ReadOnly
  /\ poll = "died" => AgentErrors /\ ReadOnly

LEMMA PollStep ==
  ASSUME PollSound, [Next]_vars
  PROVE  PollSound'
<1> USE DEF manager, ending, events, polling, program, vars
<1>1. ReadOnly' <=> ReadOnly
  BY ConfigStep DEF ReadOnly
<1>2. poll' = poll \/ poll' \in {"off", "sleeping"} \/ Poll
  <2>1. ASSUME NEW c \in Filler, Fill(c) PROVE poll' \in {poll, "off"}
    BY <2>1 DEF Fill, Typed, ClickLands, Submitted, FillFails, RunEnds, OutcomeEnds
  <2>2. ASSUME Run \/ Retry PROVE poll' \in {poll, "off"}
    BY <2>2 DEF Run, FrameFound, FrameTimesOut, RunWakes, RunEnds, Retry, ScheduleRetry,
       RetryWakes
  <2>3. ASSUME Outcome PROVE poll' \in {poll, "off", "sleeping"}
    BY <2>3 DEF Outcome, Subscribe, HearsMfaClosed, AfterMfaClosed, HearsMfaOpened, Skips,
       Probes, Probed, HearsSplashClosed, Captured, ProbeFails, WatchdogFires, ReloginChecked,
       ReloginCheckFails, LogsIn, OutcomeEnds
  <2>4. ASSUME EventArrives \/ Application PROVE poll' = poll
    BY <2>4 DEF EventArrives, Application, FrameShows, SubmittedByHand, TooManyAttempts,
       Asks2fa, Ends2fa,
       SpuriousClose, MiscWindow, Completes, TimePasses
  <2> QED
    BY <2>1, <2>2, <2>3, <2>4 DEF Next
<1>3. CASE Poll
  <2>1. poll' = "clicking" => ReadOnly
    BY <1>3 DEF Poll, PollWakes, PollReads, ReadOnlyClickLands, ReadOnlyClickAnswered,
       ReadOnlyClickFails
  <2>2. poll' = "died" => poll = "clicking" /\ AgentErrors
    BY <1>3 DEF Poll, PollWakes, PollReads, ReadOnlyClickLands, ReadOnlyClickAnswered,
       ReadOnlyClickFails
  <2> QED
    BY <1>1, <2>1, <2>2 DEF PollSound
<1> QED
  BY <1>1, <1>2, <1>3 DEF PollSound

(* A login ends LOGGED_IN only as the outcome task does, and the outcome   *)
(* is then what run() returns.                                             *)
ResultSound ==
  state = "LOGGED_IN" =>
    /\ outcome = "ok" \/ (AgentErrors /\ ReadOnly /\ outcome = "agentError")
    /\ run = "ended" => result = outcome

LEMMA ResultStep ==
  ASSUME LoginInv, PlaceInv, PollSound, ResultSound, [Next]_vars
  PROVE  ResultSound'
<1> USE DEF manager, ending, events, polling, program, vars
<1>1. ReadOnly' <=> ReadOnly
  BY ConfigStep DEF ReadOnly
<1>2. CASE state' # "LOGGED_IN"
  BY <1>2 DEF ResultSound
<1>3. CASE state' = "LOGGED_IN" /\ state # "LOGGED_IN"
  <2>1. ASSUME NEW c \in Filler, Fill(c) PROVE FALSE
    BY <1>3, <2>1 DEF Fill, Typed, ClickLands, Submitted, FillFails, RunEnds
  <2>2. ~ (Run \/ Retry \/ Poll \/ EventArrives \/ Application \/ UNCHANGED vars)
    BY <1>3 DEF Run, FrameFound, FillBegins, FrameTimesOut, RunWakes, RunEnds, Retry,
       ScheduleRetry, RetryWakes, Poll, PollWakes, PollReads, ReadOnlyClickLands,
       ReadOnlyClickAnswered, ReadOnlyClickFails, EventArrives, Application, FrameShows,
       SubmittedByHand,
       TooManyAttempts, Asks2fa, Ends2fa, SpuriousClose, MiscWindow, Completes, TimePasses
  <2>3. Outcome
    BY <2>1, <2>2 DEF Next
  <2>4. /\ outcome \in {"probing", "capture"} /\ UNCHANGED run
        /\ OutcomeEnds("ok")
    BY <1>3, <2>3 DEF Outcome, Subscribe, HearsMfaClosed, AfterMfaClosed, HearsMfaOpened,
       Skips,
       Probes, Probed, HearsSplashClosed, Captured, ProbeFails, WatchdogFires, ReloginChecked,
       ReloginCheckFails, LogsIn, FillBegins
  <2>5. run' # "ended"
    BY <2>4 DEF PlaceInv, Finished
  <2> QED
    BY <1>1, <2>4, <2>5 DEF ResultSound, OutcomeEnds, PollSound
<1>4. CASE state' = "LOGGED_IN" /\ state = "LOGGED_IN"
  <2> DEFINE Was == outcome = "ok" \/ (AgentErrors /\ ReadOnly /\ outcome = "agentError")
  <2>1. Was /\ outcome \in Finished /\ (run = "ended" => result = outcome)
    BY <1>4 DEF ResultSound, Finished
  <2>2. filling["run"] = "idle" /\ filling["outcome"] = "idle" /\ run \in {"wait", "ended"}
    BY <2>1 DEF PlaceInv, Finished, LoginInv, ManagerType
  <2>3. UNCHANGED outcome /\ (run' = "ended" => result' = outcome)
    <3>1. ASSUME NEW c \in Filler, Fill(c) PROVE UNCHANGED <<outcome, run, result>>
      BY <1>4, <2>2, <3>1 DEF Fill, Typed, ClickLands, Submitted, FillFails, Filler
    <3>2. ASSUME Run PROVE UNCHANGED outcome /\ (run' = "ended" => result' = outcome)
      BY <2>1, <2>2, <3>2 DEF Run, FrameFound, FrameTimesOut, RunWakes, RunEnds, Finished
    <3>3. ASSUME Retry \/ Poll \/ EventArrives \/ Application \/ UNCHANGED vars
          PROVE  UNCHANGED <<outcome, run, result>>
      BY <3>3 DEF Retry, ScheduleRetry, RetryWakes, Poll, PollWakes, PollReads,
         ReadOnlyClickLands, ReadOnlyClickAnswered, ReadOnlyClickFails, EventArrives,
         Application, FrameShows,
         SubmittedByHand, TooManyAttempts, Asks2fa, Ends2fa, SpuriousClose, MiscWindow,
         Completes, TimePasses
    <3>4. ~Outcome
      BY <2>1 DEF Outcome, Subscribe, HearsMfaClosed, AfterMfaClosed, HearsMfaOpened, Skips,
         Probes, Probed, HearsSplashClosed, Captured, ProbeFails, WatchdogFires,
         ReloginChecked,
         ReloginCheckFails, Hearing, Finished
    <3> QED
      BY <2>1, <3>1, <3>2, <3>3, <3>4 DEF Next
  <2> QED
    BY <1>1, <2>1, <2>3 DEF ResultSound
<1> QED
  BY <1>2, <1>3, <1>4

(* Reading and adding to what a subscription holds. *)
LEMMA HeardTail ==
  ASSUME NEW h \in Seq(Events), h # <<>>
  PROVE  /\ Tail(h) \in Seq(Events) /\ Len(h) \in Nat \ {0} /\ Len(Tail(h)) = Len(h) - 1
         /\ \A i \in 1..Len(Tail(h)) : i + 1 \in 1..Len(h) /\ Tail(h)[i] = h[i + 1]
         /\ Head(h) = h[1] /\ h[1] \in Events
OBVIOUS

LEMMA HeardAppend ==
  ASSUME NEW h \in Seq(Events), NEW e \in Events
  PROVE  /\ Append(h, e) \in Seq(Events) /\ Len(h) \in Nat /\ Len(Append(h, e)) = Len(h) + 1
         /\ Append(h, e)[Len(h) + 1] = e
         /\ \A i \in 1..Len(h) : Append(h, e)[i] = h[i]
OBVIOUS

(* What the outcome task has not consumed: its subscription, and then what *)
(* is still on its way to it.                                              *)
Unread == heard \o transit

(* v without its first elements, and v with one more.                      *)
Rest(u, v) ==
  \E k \in 0..Len(v) : Len(u) = Len(v) - k /\ \A i \in 1..Len(u) : u[i] = v[i + k]

Longer(u, v, e) ==
  Len(u) = Len(v) + 1 /\ u[Len(v) + 1] = e /\ \A i \in 1..Len(v) : u[i] = v[i]

LEMMA UnreadLayout ==
  ASSUME NEW h \in Seq(Events), NEW t \in Seq(Events)
  PROVE  /\ Len(h) \in Nat /\ Len(t) \in Nat
         /\ h \o t \in Seq(Events) /\ Len(h \o t) = Len(h) + Len(t)
         /\ \A i \in 1..Len(h) : (h \o t)[i] = h[i]
         /\ \A i \in 1..Len(t) : (h \o t)[Len(h) + i] = t[i]
<1>1. /\ h \o t \in Seq(Events) /\ Len(h \o t) = Len(h) + Len(t)
      /\ \A i \in 1..Len(h) + Len(t) : (h \o t)[i] = IF i <= Len(h) THEN h[i] ELSE t[i - Len(h)]
  BY ConcatProperties
<1>2. Len(h) \in Nat /\ Len(t) \in Nat
  OBVIOUS
<1> DEFINE u == h \o t
<1> HIDE DEF u
<1>3. \A i \in 1..Len(h) : i \in 1..Len(h) + Len(t) /\ i <= Len(h)
  BY <1>2
<1>4. \A i \in 1..Len(t) : Len(h) + i \in 1..Len(h) + Len(t) /\ ~(Len(h) + i <= Len(h))
                           /\ (Len(h) + i) - Len(h) = i
  BY <1>2
<1>5. \A i \in 1..Len(h) + Len(t) : u[i] = IF i <= Len(h) THEN h[i] ELSE t[i - Len(h)]
  BY <1>1 DEF u
<1>6. (\A i \in 1..Len(h) : u[i] = h[i]) /\ (\A i \in 1..Len(t) : u[Len(h) + i] = t[i])
  BY <1>3, <1>4, <1>5
<1> QED
  BY <1>1, <1>2, <1>6 DEF u

(* What one event does to a subscription and to what is on its way. *)
LEMMA UnreadConsume ==
  ASSUME NEW h \in Seq(Events), NEW t \in Seq(Events), h # <<>>
  PROVE  /\ Len(Tail(h) \o t) = Len(h \o t) - 1 /\ Len(h \o t) \in Nat \ {0}
         /\ \A i \in 1..Len(Tail(h) \o t) : (Tail(h) \o t)[i] = (h \o t)[i + 1]
         /\ (h \o t)[1] = Head(h)
<1> DEFINE r == Tail(h)
<1>1. /\ r \in Seq(Events) /\ Len(h) \in Nat \ {0} /\ Len(r) = Len(h) - 1 /\ Head(h) = h[1]
      /\ \A i \in 1..Len(r) : i + 1 \in 1..Len(h) /\ r[i] = h[i + 1]
  BY HeardTail
<1> HIDE DEF r
<1> DEFINE u == h \o t
           v == r \o t
<1>2. /\ Len(t) \in Nat /\ Len(u) = Len(h) + Len(t) /\ Len(v) = Len(r) + Len(t)
      /\ \A i \in 1..Len(h) : u[i] = h[i]
      /\ \A i \in 1..Len(t) : u[Len(h) + i] = t[i]
      /\ \A i \in 1..Len(r) : v[i] = r[i]
      /\ \A i \in 1..Len(t) : v[Len(r) + i] = t[i]
  BY <1>1, UnreadLayout
<1> HIDE DEF u, v
<1>3. ASSUME NEW i \in 1..Len(v) PROVE v[i] = u[i + 1]
  <2>1. CASE i <= Len(r)
    <3>1. i \in 1..Len(r)
      BY <1>1, <1>2, <2>1
    <3> QED
      BY <1>1, <1>2, <3>1
  <2>2. CASE Len(r) < i
    <3> DEFINE j == i - Len(r)
    <3>1. j \in 1..Len(t) /\ Len(r) + j = i /\ Len(h) + j = i + 1
      BY <1>1, <1>2, <2>2
    <3> HIDE DEF j
    <3>2. v[Len(r) + j] = t[j] /\ u[Len(h) + j] = t[j]
      BY <1>2, <3>1
    <3> QED
      BY <3>1, <3>2
  <2> QED
    BY <1>1, <1>2, <2>1, <2>2
<1>4. Len(v) = Len(u) - 1 /\ Len(u) \in Nat \ {0} /\ u[1] = Head(h)
  BY <1>1, <1>2
<1> QED
  BY <1>3, <1>4 DEF u, v, r

LEMMA UnreadArrives ==
  ASSUME NEW h \in Seq(Events), NEW t \in Seq(Events), t # <<>>
  PROVE  Append(h, Head(t)) \o Tail(t) = h \o t
<1> DEFINE e == Head(t)
           r == Tail(t)
<1>1. /\ r \in Seq(Events) /\ Len(t) \in Nat \ {0} /\ Len(r) = Len(t) - 1 /\ e = t[1]
      /\ \A i \in 1..Len(r) : i + 1 \in 1..Len(t) /\ r[i] = t[i + 1]
      /\ e \in Events
  BY HeardTail
<1> HIDE DEF r, e
<1> DEFINE a == Append(h, e)
<1>2. /\ a \in Seq(Events) /\ Len(h) \in Nat /\ Len(a) = Len(h) + 1 /\ a[Len(h) + 1] = e
      /\ \A i \in 1..Len(h) : a[i] = h[i]
  BY <1>1, HeardAppend
<1> HIDE DEF a
<1> DEFINE u == a \o r
           v == h \o t
<1>3. /\ Len(u) = Len(a) + Len(r) /\ Len(v) = Len(h) + Len(t)
      /\ \A i \in 1..Len(a) : u[i] = a[i]
      /\ \A i \in 1..Len(r) : u[Len(a) + i] = r[i]
      /\ \A i \in 1..Len(h) : v[i] = h[i]
      /\ \A i \in 1..Len(t) : v[Len(h) + i] = t[i]
  <2>0. a \in Seq(Events) /\ r \in Seq(Events)
    BY <1>1, <1>2
  <2>1. /\ Len(u) = Len(a) + Len(r)
        /\ \A i \in 1..Len(a) : u[i] = a[i]
        /\ \A i \in 1..Len(r) : u[Len(a) + i] = r[i]
    BY <2>0, UnreadLayout
  <2>2. /\ Len(v) = Len(h) + Len(t)
        /\ \A i \in 1..Len(h) : v[i] = h[i]
        /\ \A i \in 1..Len(t) : v[Len(h) + i] = t[i]
    BY UnreadLayout
  <2> QED
    BY <2>1, <2>2
<1> HIDE DEF u, v
<1>4. ASSUME NEW i \in 1..Len(u) PROVE u[i] = v[i]
  <2>1. CASE i \in 1..Len(h)
    <3>1. i \in 1..Len(a) 
      BY <1>2, <2>1
    <3> QED
      BY <1>2, <1>3, <2>1, <3>1
  <2>2. CASE i = Len(h) + 1
    <3>1. i \in 1..Len(a) /\ 1 \in 1..Len(t)
      BY <1>1, <1>2, <2>2
    <3> QED
      BY <1>1, <1>2, <1>3, <2>2, <3>1
  <2>3. CASE i > Len(h) + 1
    <3> DEFINE j == i - Len(a)
    <3>1. j \in 1..Len(r) /\ Len(a) + j = i /\ Len(h) + (j + 1) = i
      BY <1>1, <1>2, <1>3, <2>3
    <3> HIDE DEF j
    <3>2. u[i] = r[j] /\ r[j] = t[j + 1] /\ j + 1 \in 1..Len(t)
      BY <1>1, <1>3, <3>1
    <3> QED
      BY <1>3, <3>1, <3>2
  <2> QED
    BY <1>1, <1>2, <1>3, <2>1, <2>2, <2>3
<1>5. Len(u) = Len(v)
  BY <1>1, <1>2, <1>3
<1>6. u \in Seq(Events) /\ v \in Seq(Events)
  <2>1. u \in Seq(Events)
    BY <1>1, <1>2, UnreadLayout DEF u
  <2>2. v \in Seq(Events)
    BY UnreadLayout DEF v
  <2> QED
    BY <2>1, <2>2
<1>7. u = v
  BY <1>4, <1>5, <1>6, SeqEqual
<1> QED
  BY <1>7 DEF u, v, a, r, e

LEMMA UnreadSends ==
  ASSUME NEW h \in Seq(Events), NEW t \in Seq(Events), NEW e \in Events
  PROVE  Longer(h \o Append(t, e), h \o t, e)
<1> DEFINE a == Append(t, e)
<1>1. /\ a \in Seq(Events) /\ Len(t) \in Nat /\ Len(a) = Len(t) + 1 /\ a[Len(t) + 1] = e
      /\ \A i \in 1..Len(t) : a[i] = t[i]
  BY HeardAppend
<1> HIDE DEF a
<1> DEFINE u == h \o a
           v == h \o t
<1>2. /\ Len(h) \in Nat /\ Len(u) = Len(h) + Len(a) /\ Len(v) = Len(h) + Len(t)
      /\ \A i \in 1..Len(h) : u[i] = h[i]
      /\ \A i \in 1..Len(a) : u[Len(h) + i] = a[i]
      /\ \A i \in 1..Len(h) : v[i] = h[i]
      /\ \A i \in 1..Len(t) : v[Len(h) + i] = t[i]
  BY <1>1, UnreadLayout
<1> HIDE DEF u, v
<1>3. ASSUME NEW i \in 1..Len(v) PROVE u[i] = v[i]
  <2>1. CASE i \in 1..Len(h)
    BY <1>2, <2>1
  <2>2. CASE i \notin 1..Len(h)
    <3> DEFINE j == i - Len(h)
    <3>1. j \in 1..Len(t) /\ j \in 1..Len(a) /\ Len(h) + j = i
      BY <1>1, <1>2, <2>2
    <3> HIDE DEF j
    <3>2. u[Len(h) + j] = a[j] /\ v[Len(h) + j] = t[j] /\ a[j] = t[j]
      BY <1>1, <1>2, <3>1
    <3> QED
      BY <3>1, <3>2
  <2> QED
    BY <2>1, <2>2
<1>4. Len(u) = Len(v) + 1 /\ u[Len(v) + 1] = e
  <2>1. Len(a) \in 1..Len(a) /\ Len(h) + Len(a) = Len(v) + 1 /\ Len(a) = Len(t) + 1
    BY <1>1, <1>2
  <2> QED
    BY <1>1, <1>2, <2>1
<1>5. Longer(u, v, e)
  BY <1>3, <1>4 DEF Longer
<1> QED
  BY <1>5 DEF u, v, a

(* Giving up a subscription leaves what is on its way. *)
LEMMA UnreadEmpty ==
  ASSUME NEW h \in Seq(Events), NEW t \in Seq(Events)
  PROVE  Rest(<<>> \o t, h \o t)
<1>1. <<>> \o t = t
  BY ConcatEmptySeq
<1> DEFINE v == h \o t
<1>2. /\ Len(h) \in Nat /\ Len(t) \in Nat /\ Len(v) = Len(h) + Len(t)
      /\ \A i \in 1..Len(t) : v[Len(h) + i] = t[i]
  BY UnreadLayout
<1> HIDE DEF v
<1>3. Len(h) \in 0..Len(v) /\ Len(t) = Len(v) - Len(h)
      /\ \A i \in 1..Len(t) : i + Len(h) = Len(h) + i
  BY <1>2
<1>4. Rest(t, v)
  BY <1>2, <1>3 DEF Rest
<1> QED
  BY <1>1, <1>4 DEF v

LEMMA RestSame == ASSUME NEW v \in Seq(Events) PROVE Rest(v, v)
<1>1. Len(v) \in Nat
  OBVIOUS
<1>2. 0 \in 0..Len(v) /\ Len(v) = Len(v) - 0 /\ \A i \in 1..Len(v) : i + 0 = i
  BY <1>1
<1> QED
  BY <1>2 DEF Rest

LEMMA RestTail ==
  ASSUME NEW h \in Seq(Events), NEW t \in Seq(Events), h # <<>>
  PROVE  Rest(Tail(h) \o t, h \o t)
<1> DEFINE u == Tail(h) \o t
           v == h \o t
<1>1. /\ Len(u) = Len(v) - 1 /\ Len(v) \in Nat \ {0}
      /\ \A i \in 1..Len(u) : u[i] = v[i + 1]
  BY UnreadConsume
<1> HIDE DEF u, v
<1>2. 1 \in 0..Len(v)
  BY <1>1
<1>3. Rest(u, v)
  BY <1>1, <1>2 DEF Rest
<1> QED
  BY <1>3 DEF u, v

(* What the subscription starts with are windows that are open. *)
LEMMA SeededElements ==
  ASSUME Subscribe
  PROVE  \A i \in DOMAIN heard' : Program = "TWS" /\ \E w \in windows : heard'[i] = Opened(w)
<1>1. PICK s \in SetToSeqs(IF Program = "TWS" THEN windows ELSE {}) :
        heard' = [i \in DOMAIN s |-> Opened(s[i])]
  BY DEF Subscribe
<1> DEFINE S == IF Program = "TWS" THEN windows ELSE {}
<1>2. s \in [1..Cardinality(S) -> S]
  BY <1>1 DEF SetToSeqs
<1>3. DOMAIN heard' = DOMAIN s /\ \A i \in DOMAIN s : heard'[i] = Opened(s[i]) /\ s[i] \in S
  BY <1>1, <1>2
<1>4. \A w \in S : Program = "TWS" /\ w \in windows
  OBVIOUS
<1> HIDE DEF S
<1> QED
  BY <1>3, <1>4

(* What is told of the login, in the order it is heard. *)
Told == {Opened("main"), Closed("splash")}

(* What becomes of the unread in one step: it grows by an event the        *)
(* application sends, or it loses its first elements.                      *)
Sending(e) ==
  /\ Poll \/ Application
  /\ Sends(e) /\ UNCHANGED <<heard, outcome>>
  /\ e \in Told => Completes
  /\ e = Closed("mfa") => screen = "2fa" /\ (Program = "TWS" \/ screen' # "2fa")

LEMMA ProgramUnread ==
  ASSUME Poll \/ Application
  PROVE  UNCHANGED <<heard, transit, outcome, watchdog>> \/ \E e \in Events : Sending(e)
<1> USE DEF manager, ending, events, polling, program
<1>1. /\ Opened("mfa") \in Events \ Told /\ Opened("misc") \in Events \ Told
      /\ Closed("mfa") \in Events \ Told
      /\ Opened("main") \in Events /\ Closed("splash") \in Events
      /\ \A e \in {Opened("mfa"), Opened("misc"), Opened("main"), Closed("splash")} :
           e # Closed("mfa")
  BY DEF Events, Windows, Told, Opened, Closed
<1> DEFINE Kept == UNCHANGED <<heard, outcome, watchdog>>
           Still == Kept /\ UNCHANGED transit
           Closes == /\ Sends(Closed("mfa")) /\ screen = "2fa"
                     /\ Program = "TWS" \/ screen' # "2fa"
<1>2. ASSUME Poll PROVE Still \/ (Kept /\ Closes)
  BY <1>2 DEF Poll, PollWakes, PollReads, ReadOnlyClickLands, ReadOnlyClickAnswered,
     ReadOnlyClickFails
<1>3. ASSUME Application, ~Completes
      PROVE  \/ Still
             \/ Kept /\ Closes
             \/ Kept /\ \E e \in {Opened("mfa"), Opened("misc")} : Sends(e)
  BY <1>3 DEF Application, FrameShows, SubmittedByHand, TooManyAttempts, Asks2fa, Ends2fa,
     SpuriousClose, MiscWindow, TimePasses
<1>4. ASSUME Completes PROVE Kept /\ \E e \in {Opened("main"), Closed("splash")} : Sends(e)
  BY <1>4 DEF Completes
<1>5. CASE Kept /\ Closes
  <2>1. Sending(Closed("mfa"))
    BY <1>1, <1>5 DEF Sending
  <2> QED
    BY <1>1, <2>1
<1>6. ASSUME Kept, NEW e \in {Opened("mfa"), Opened("misc")}, Sends(e)
      PROVE  \E d \in Events : Sending(d)
  <2>1. e \in Events \ Told /\ e # Closed("mfa")
    BY <1>1
  <2>2. Sending(e)
    BY <1>6, <2>1 DEF Sending
  <2> QED
    BY <2>1, <2>2
<1>7. ASSUME Completes, Kept, NEW e \in {Opened("main"), Closed("splash")}, Sends(e)
      PROVE  \E d \in Events : Sending(d)
  <2>1. e \in Events /\ e # Closed("mfa")
    BY <1>1
  <2>2. Sending(e)
    BY <1>7, <2>1 DEF Sending
  <2> QED
    BY <2>1, <2>2
<1>8. Still => UNCHANGED <<heard, transit, outcome, watchdog>>
  OBVIOUS
<1> HIDE DEF Still, Kept, Closes
<1> QED
  BY <1>2, <1>3, <1>4, <1>5, <1>6, <1>7, <1>8

HeardStays   == heard' = heard
HeardEmpty   == heard' = <<>>
HeardConsume == heard # <<>> /\ heard' = Tail(heard)

LEMMA HeardStep ==
  ASSUME LoginInv, [Next]_vars
  PROVE  \/ UNCHANGED transit /\ (HeardStays \/ HeardEmpty \/ HeardConsume \/ Subscribe)
         \/ EventArrives
         \/ \E e \in Events : Sending(e)
<1> USE DEF manager, ending, events, polling, program, vars, HeardStays, HeardEmpty, HeardConsume
<1>1. ASSUME NEW c \in Filler, Fill(c) PROVE UNCHANGED transit /\ (HeardStays \/ HeardEmpty)
  BY <1>1 DEF Fill, Typed, ClickLands, Submitted, FillFails, RunEnds, OutcomeEnds
<1>2. ASSUME Run \/ Retry \/ UNCHANGED vars PROVE UNCHANGED transit /\ (HeardStays \/ HeardEmpty)
  BY <1>2 DEF Run, FrameFound, FrameTimesOut, RunWakes, RunEnds, Retry, ScheduleRetry,
     RetryWakes
<1>3. ASSUME Outcome
      PROVE  UNCHANGED transit /\ (HeardStays \/ HeardEmpty \/ HeardConsume \/ Subscribe)
  <2>1. CASE Probed
    <3>1. CASE LogsIn("main")
      BY <3>1 DEF LogsIn, OutcomeEnds
    <3>2. CASE heard' = Tail(heard) /\ UNCHANGED transit
      BY <2>1, <3>2 DEF Probed, LoginInv, HeardType
    <3> QED
      BY <2>1, <3>1, <3>2 DEF Probed
  <2> QED
    BY <1>3, <2>1 DEF Outcome, Subscribe, HearsMfaClosed, AfterMfaClosed, HearsMfaOpened,
       Skips,
       Probes, HearsSplashClosed, Captured, ProbeFails, WatchdogFires, ReloginChecked,
       ReloginCheckFails, LogsIn, OutcomeEnds, Hearing
<1>4. ASSUME Poll \/ Application
      PROVE  UNCHANGED <<heard, transit>> \/ \E e \in Events : Sending(e)
  BY <1>4, ProgramUnread
<1> QED
  BY <1>1, <1>2, <1>3, <1>4 DEF Next

LEMMA UnreadStep ==
  ASSUME LoginInv, PlaceInv, [Next]_vars
  PROVE  /\ Unread \in Seq(Events)
         /\ \/ Rest(Unread', Unread)
            \/ Subscribe
            \/ \E e \in Events : Sending(e) /\ Longer(Unread', Unread, e)
<1>1. heard \in Seq(Events) /\ transit \in Seq(Events)
  BY DEF LoginInv, HeardType
<1>2. Unread \in Seq(Events)
  BY <1>1, UnreadLayout DEF Unread
<1>3. CASE UNCHANGED transit /\ HeardStays
  BY <1>2, <1>3, RestSame DEF HeardStays, Unread
<1>4. CASE UNCHANGED transit /\ HeardEmpty
  BY <1>1, <1>4, UnreadEmpty DEF HeardEmpty, Unread
<1>5. CASE UNCHANGED transit /\ HeardConsume
  BY <1>1, <1>5, RestTail DEF HeardConsume, Unread
<1>6. CASE EventArrives
  <2>1. transit # <<>> /\ transit' = Tail(transit)
        /\ heard' = IF Subscribed THEN Append(heard, Head(transit)) ELSE heard
    BY <1>6 DEF EventArrives
  <2>2. CASE Subscribed
    <3>1. Unread' = Unread
      BY <1>1, <2>1, <2>2, UnreadArrives DEF Unread
    <3> QED
      BY <1>2, <3>1, RestSame
  <2>3. CASE ~Subscribed
    <3>1. heard = <<>> /\ heard' = <<>>
      BY <2>1, <2>3 DEF PlaceInv
    <3>2. <<>> \o transit = transit /\ <<>> \o Tail(transit) = Tail(transit)
      BY <1>1, <2>1, ConcatEmptySeq, HeardTail
    <3>3. <<>> \in Seq(Events) /\ Tail(transit) \o <<>> = Tail(transit) /\ transit \o <<>> = transit
      BY <1>1, <2>1, ConcatEmptySeq, HeardTail
    <3>4. Rest(Tail(transit) \o <<>>, transit \o <<>>)
      BY <1>1, <2>1, <3>3, RestTail
    <3>5. Rest(Tail(transit), transit)
      BY <3>3, <3>4
    <3>6. Unread = transit /\ Unread' = Tail(transit)
      BY <2>1, <3>1, <3>2 DEF Unread
    <3> QED
      BY <1>2, <3>5, <3>6
  <2> QED
    BY <2>2, <2>3
<1>7. ASSUME NEW e \in Events, Sending(e) PROVE Longer(Unread', Unread, e)
  BY <1>1, <1>7, UnreadSends DEF Sending, Sends, Unread
<1> QED
  BY <1>2, <1>3, <1>4, <1>5, <1>6, <1>7, HeardStep

LEMMA FirstIsUnread ==
  ASSUME LoginInv, heard # <<>>
  PROVE  1 \in 1..Len(Unread) /\ Unread[1] = Head(heard)
<1>1. heard \in Seq(Events) /\ transit \in Seq(Events)
  BY DEF LoginInv, HeardType
<1>2. Len(Unread) \in Nat \ {0} /\ Unread[1] = Head(heard)
  BY <1>1, UnreadConsume DEF Unread
<1> QED
  BY <1>2

(* A subscription starts with windows that are open, and what is on its    *)
(* way follows.                                                            *)
LEMMA SubscribedUnread ==
  ASSUME LoginInv, PlaceInv, Subscribe
  PROVE  \A i \in 1..Len(Unread') :
           \/ Program = "TWS" /\ \E w \in windows : Unread'[i] = Opened(w)
           \/ \E k \in 1..Len(Unread) : Unread'[i] = Unread[k]
<1>1. heard' \in Seq(Events) /\ transit \in Seq(Events) /\ transit' = transit
  BY Seeded DEF LoginInv, HeardType, Subscribe, program
<1>2. \A i \in 1..Len(heard') : Program = "TWS" /\ \E w \in windows : heard'[i] = Opened(w)
  BY <1>1, SeededElements
<1>3. heard = <<>> /\ Unread = transit
  <2>1. heard = <<>>
    BY DEF Subscribe, PlaceInv, Subscribed
  <2> QED
    BY <1>1, <2>1, ConcatEmptySeq DEF Unread
<1> DEFINE h == heard'
           u == h \o transit
<1>4. /\ Len(h) \in Nat /\ Len(transit) \in Nat /\ Len(u) = Len(h) + Len(transit)
      /\ \A i \in 1..Len(h) : u[i] = h[i]
      /\ \A i \in 1..Len(transit) : u[Len(h) + i] = transit[i]
  BY <1>1, UnreadLayout
<1>5. Unread' = u
  BY <1>1 DEF Unread
<1> HIDE DEF h, u
<1>6. ASSUME NEW i \in 1..Len(u), i \notin 1..Len(h)
      PROVE  \E k \in 1..Len(transit) : u[i] = transit[k]
  <2> DEFINE k == i - Len(h)
  <2>1. k \in 1..Len(transit) /\ i = Len(h) + k
    BY <1>4, <1>6
  <2> HIDE DEF k
  <2> QED
    BY <1>4, <2>1
<1>7. \A i \in 1..Len(h) : Program = "TWS" /\ \E w \in windows : u[i] = Opened(w)
  BY <1>2, <1>4 DEF h
<1> QED
  BY <1>3, <1>5, <1>6, <1>7

(* What arrives was unread. *)
LEMMA ArrivingIsUnread ==
  ASSUME LoginInv, EventArrives
  PROVE  /\ Head(transit) \in Events
         /\ \E k \in 1..Len(Unread) : Unread[k] = Head(transit)
<1>1. heard \in Seq(Events) /\ transit \in Seq(Events) /\ transit # <<>>
  BY DEF LoginInv, HeardType, EventArrives
<1>2. Len(transit) \in Nat \ {0} /\ Head(transit) = transit[1] /\ transit[1] \in Events
  BY <1>1, HeardTail
<1>3. /\ Len(heard) \in Nat /\ Len(Unread) = Len(heard) + Len(transit)
      /\ \A i \in 1..Len(transit) : Unread[Len(heard) + i] = transit[i]
  BY <1>1, UnreadLayout DEF Unread
<1>4. 1 \in 1..Len(transit) /\ Len(heard) + 1 \in 1..Len(Unread)
  BY <1>2, <1>3
<1> QED
  BY <1>2, <1>3, <1>4

LEMMA InStays ==
  ASSUME LoginInv, [Next]_vars
  PROVE  /\ in => in'
         /\ "main" \in windows' =>
              "main" \in windows \/ (EventArrives /\ Head(transit) = Opened("main"))
<1> USE DEF manager, ending, events, polling, program, vars
<1>0. in \in BOOLEAN
  BY DEF LoginInv, ProgramType
<1>1. ASSUME NEW c \in Filler, Fill(c) PROVE UNCHANGED <<in, windows>>
  BY <1>1 DEF Fill, Typed, ClickLands, Submitted, FillFails, RunEnds, OutcomeEnds
<1>2. ASSUME Run \/ Retry PROVE UNCHANGED <<in, windows>>
  BY <1>2 DEF Run, FrameFound, FrameTimesOut, RunWakes, RunEnds, Retry, ScheduleRetry,
     RetryWakes
<1>3. ASSUME Outcome PROVE UNCHANGED <<in, windows>>
  BY <1>3 DEF Outcome, Subscribe, HearsMfaClosed, AfterMfaClosed, HearsMfaOpened, Skips,
     Probes,
     Probed, HearsSplashClosed, Captured, ProbeFails, WatchdogFires, ReloginChecked,
     ReloginCheckFails, LogsIn, OutcomeEnds
<1>4. ASSUME Poll PROVE UNCHANGED <<in, windows>>
  BY <1>4 DEF Poll, PollWakes, PollReads, ReadOnlyClickLands, ReadOnlyClickAnswered,
     ReadOnlyClickFails
<1>5. ASSUME Application PROVE UNCHANGED windows /\ (UNCHANGED in \/ in' = TRUE)
  BY <1>5 DEF Application, FrameShows, SubmittedByHand, TooManyAttempts, Asks2fa, Ends2fa,
     SpuriousClose, MiscWindow, Completes, TimePasses
<1>6. ASSUME EventArrives, "main" \in windows', "main" \notin windows
      PROVE  UNCHANGED in /\ Head(transit) = Opened("main")
  <2>1. /\ Head(transit).kind = "opened" /\ Head(transit).window = "main"
        /\ Head(transit) \in Events
    BY <1>6, ArrivingIsUnread DEF EventArrives
  <2>2. Head(transit) = Opened("main")
    BY <2>1 DEF Events, Windows, Opened, Closed
  <2> QED
    BY <1>6, <2>2 DEF EventArrives
<1>7. ASSUME EventArrives PROVE UNCHANGED in
  BY <1>7 DEF EventArrives
<1>8. CASE UNCHANGED <<in, windows>>
  BY <1>0, <1>8
<1>9. CASE Application
  <2>1. in => in'
    BY <1>5, <1>9
  <2>2. windows' = windows
    BY <1>5, <1>9
  <2> QED
    BY <2>1, <2>2
<1>10. CASE EventArrives
  BY <1>6, <1>7, <1>10
<1>11. CASE UNCHANGED vars
  BY <1>8, <1>11
<1> QED
  BY <1>1, <1>2, <1>3, <1>4, <1>8, <1>9, <1>10, <1>11 DEF Next

(* Only a program that is logged in has its main window in the registry,   *)
(* closes its splash, and has either reported.                             *)
ReportedIn ==
  /\ "main" \in windows => in
  /\ \A i \in 1..Len(Unread) : Unread[i] \in Told => in

LEMMA ReportedStep ==
  ASSUME LoginInv, PlaceInv, ReportedIn, [Next]_vars
  PROVE  ReportedIn'
<1>1. Len(Unread) \in Nat
  BY UnreadStep
<1>2. in => in'
  BY InStays
<1>3. "main" \in windows' => in'
  <2>1. CASE EventArrives /\ Head(transit) = Opened("main")
    BY <1>2, <2>1, ArrivingIsUnread DEF ReportedIn, Told
  <2> QED
    BY <1>2, <2>1, InStays DEF ReportedIn
<1>4. \A i \in 1..Len(Unread') : Unread'[i] \in Told => in'
  <2> SUFFICES ASSUME NEW i \in 1..Len(Unread'), Unread'[i] \in Told PROVE in'
    OBVIOUS
  <2>1. CASE Rest(Unread', Unread)
    <3>1. PICK k \in 0..Len(Unread) :
            Len(Unread') = Len(Unread) - k /\ \A j \in 1..Len(Unread') : Unread'[j] = Unread[j + k]
      BY <2>1 DEF Rest
    <3>2. i + k \in 1..Len(Unread) /\ Unread[i + k] \in Told
      BY <1>1, <3>1
    <3> QED
      BY <1>2, <3>2 DEF ReportedIn
  <2>2. CASE Subscribe
    <3>1. \A w \in windows : Opened(w) \in Told => w = "main"
      BY DEF Told, Opened, Closed
    <3> QED
      BY <1>2, <2>2, <3>1, SubscribedUnread DEF ReportedIn
  <2>3. ASSUME NEW e \in Events, Sending(e), Longer(Unread', Unread, e)
        PROVE  in'
    <3>1. CASE i \in 1..Len(Unread)
      BY <1>2, <2>3, <3>1 DEF Longer, ReportedIn
    <3>2. CASE i = Len(Unread) + 1
      BY <2>3, <3>2 DEF Longer, Sending, Completes
    <3> QED
      BY <1>1, <2>3, <3>1, <3>2 DEF Longer
  <2> QED
    BY <2>1, <2>2, <2>3, UnreadStep
<1> QED
  BY <1>3, <1>4 DEF ReportedIn

(* What the outcome task is about to conclude is so. *)
ConcludesIn ==
  /\ outcome = "probing" => Program = "TWS"
  /\ outcome = "capture" => in /\ Program = "GATEWAY"

LEMMA ConcludesStep ==
  ASSUME LoginInv, PlaceInv, ReportedIn, ConcludesIn, [Next]_vars
  PROVE  ConcludesIn'
<1> USE DEF manager, ending, events, polling, program, vars
<1>1. heard \in Seq(Events) /\ in \in BOOLEAN
  BY DEF LoginInv, HeardType, ProgramType
<1>2. (in => in') /\ Program' = Program
  BY InStays, ConfigStep DEF Program
<1>3. CASE outcome' \notin {"probing", "capture"}
  BY <1>3 DEF ConcludesIn
<1>4. CASE outcome' = outcome
  BY <1>2, <1>4 DEF ConcludesIn
<1>5. CASE outcome' \in {"probing", "capture"} /\ outcome' # outcome
  <2>1. ASSUME NEW c \in Filler, Fill(c) PROVE FALSE
    BY <1>5, <2>1 DEF Fill, Typed, ClickLands, Submitted, FillFails, RunEnds, OutcomeEnds,
       Finished
  <2>2. ~ (Run \/ Retry \/ Poll \/ EventArrives \/ Application \/ UNCHANGED vars)
    BY <1>5 DEF Run, FrameFound, FrameTimesOut, RunWakes, RunEnds, Finished, Retry,
       ScheduleRetry, RetryWakes, Poll, PollWakes, PollReads, ReadOnlyClickLands,
       ReadOnlyClickAnswered, ReadOnlyClickFails, EventArrives, Application, FrameShows,
       SubmittedByHand,
       TooManyAttempts, Asks2fa, Ends2fa, SpuriousClose, MiscWindow, Completes, TimePasses
  <2>3. Outcome
    BY <2>1, <2>2 DEF Next
  <2>4. Probes \/ HearsSplashClosed
    BY <1>5, <2>3 DEF Outcome, Subscribe, HearsMfaClosed, AfterMfaClosed, HearsMfaOpened,
       Skips,
       Probed, Captured, ProbeFails, WatchdogFires, ReloginChecked, ReloginCheckFails, LogsIn,
       OutcomeEnds
  <2>5. CASE Probes
    BY <1>2, <2>5 DEF Probes, ConcludesIn
  <2>6. CASE HearsSplashClosed
    <3>1. heard # <<>> /\ Head(heard) = Closed("splash") /\ Program = "GATEWAY" /\ outcome' = "capture"
      BY <2>6 DEF HearsSplashClosed, Hearing
    <3>2. in
      BY <3>1, FirstIsUnread DEF ReportedIn, Told
    <3> QED
      BY <1>2, <3>1, <3>2 DEF ConcludesIn
  <2> QED
    BY <2>4, <2>5, <2>6
<1> QED
  BY <1>3, <1>4, <1>5

LEMMA LoggedInStep ==
  ASSUME LoginInv, ReportedIn, ConcludesIn, LoggedInMeansIn, [Next]_vars
  PROVE  LoggedInMeansIn'
<1> USE DEF manager, ending, events, polling, program, vars
<1>1. heard \in Seq(Events) /\ in \in BOOLEAN
  BY DEF LoginInv, HeardType, ProgramType
<1>2. (in => in') /\ Program' = Program
  BY InStays, ConfigStep DEF Program
<1>3. ASSUME NEW c \in Filler, Fill(c) PROVE state' # "LOGGED_IN" \/ UNCHANGED <<state, mainId>>
  BY <1>3 DEF Fill, Typed, ClickLands, Submitted, FillFails, RunEnds
<1>4. ASSUME Run \/ Retry \/ Poll \/ EventArrives \/ Application \/ UNCHANGED vars
      PROVE  state' # "LOGGED_IN" \/ UNCHANGED <<state, mainId>>
  BY <1>4 DEF Run, FrameFound, FillBegins, FrameTimesOut, RunWakes, RunEnds, Retry,
     ScheduleRetry, RetryWakes, Poll, PollWakes, PollReads, ReadOnlyClickLands,
     ReadOnlyClickAnswered, ReadOnlyClickFails, EventArrives, Application, FrameShows,
     SubmittedByHand,
     TooManyAttempts, Asks2fa, Ends2fa, SpuriousClose, MiscWindow, Completes, TimePasses
<1>5. ASSUME Outcome, ~Probed, ~Captured PROVE state' # "LOGGED_IN" \/ UNCHANGED <<state, mainId>>
  BY <1>5 DEF Outcome, Subscribe, HearsMfaClosed, AfterMfaClosed, HearsMfaOpened, Skips,
     Probes,
     HearsSplashClosed, ProbeFails, WatchdogFires, ReloginChecked, ReloginCheckFails,
     FillBegins
<1>6. CASE state' # "LOGGED_IN" \/ UNCHANGED <<state, mainId>>
  BY <1>2, <1>6 DEF LoggedInMeansIn
<1>7. CASE Probed /\ LogsIn("main")
  <2>1. heard # <<>> /\ Head(heard).window = "main"
    <3>1. heard # <<>>
      BY <1>7 DEF Probed, LoginInv, HeardType
    <3>2. CASE Head(heard).window = "main"
      BY <3>1, <3>2
    <3>3. CASE ~(Head(heard).window = "main")
      BY <1>7, <3>3 DEF Probed, LogsIn, OutcomeEnds
    <3> QED
      BY <3>2, <3>3, <3>1
  <2>2. Head(heard) \in Events
    BY <1>1, <2>1, HeardTail
  <2>3. Head(heard) = Opened("main")
    BY <2>1, <2>2 DEF Events, Windows, Opened, Closed
  <2>4. in
    BY <2>1, <2>3, FirstIsUnread DEF ReportedIn, Told
  <2>5. mainId' = "main" /\ in' = in
    BY <1>7 DEF LogsIn
  <2> QED
    BY <2>4, <2>5 DEF LoggedInMeansIn
<1>8. CASE Probed /\ ~LogsIn("main")
  <2>1. UNCHANGED <<state, mainId>>
    BY <1>8 DEF Probed
  <2> QED
    BY <1>6, <2>1
<1>9. CASE Captured
  BY <1>2, <1>9 DEF Captured, LogsIn, ConcludesIn, LoggedInMeansIn
<1> QED
  BY <1>3, <1>4, <1>5, <1>6, <1>7, <1>8, <1>9 DEF Next

(* The exit-interval watchdog is on only while the outcome task waits, or  *)
(* has just left its wait for good.                                        *)
WatchdogOnlyWaiting ==
  outcome \in {"none", "created", "mfaWait", "reloginDelay", "filling"} => ~watchdog

LEMMA WatchdogStep ==
  ASSUME LoginInv, PlaceInv, WatchdogOnlyWaiting, [Next]_vars
  PROVE  WatchdogOnlyWaiting'
<1> USE DEF manager, ending, events, polling, program, vars
<1>1. ASSUME NEW c \in Filler, Fill(c) PROVE WatchdogOnlyWaiting'
  <2>1. UNCHANGED watchdog
    BY <1>1 DEF Fill, Typed, ClickLands, Submitted, FillFails, RunEnds
  <2>2. CASE outcome' = outcome
    BY <2>1, <2>2 DEF WatchdogOnlyWaiting
  <2>3. CASE outcome' # outcome /\ Submitted(c)
    <3>1. outcome \in {"none", "filling"}
      BY <2>3 DEF Submitted, PlaceInv, Filler
    <3> QED
      BY <2>1, <3>1 DEF WatchdogOnlyWaiting
  <2>4. CASE outcome' # outcome /\ FillFails(c)
    BY <2>4 DEF FillFails, RunEnds, OutcomeEnds, WatchdogOnlyWaiting, Finished
  <2> QED
    BY <1>1, <2>2, <2>3, <2>4 DEF Fill, Typed, ClickLands
<1>2. ASSUME Run PROVE WatchdogOnlyWaiting'
  BY <1>2 DEF Run, FrameFound, FrameTimesOut, RunWakes, RunEnds, PlaceInv, WatchdogOnlyWaiting,
     Finished
<1>3. ASSUME Retry \/ Poll \/ EventArrives \/ Application \/ UNCHANGED vars
      PROVE  UNCHANGED <<watchdog, outcome>>
  BY <1>3 DEF Retry, ScheduleRetry, RetryWakes, Poll, PollWakes, PollReads, ReadOnlyClickLands,
     ReadOnlyClickAnswered, ReadOnlyClickFails, EventArrives, Application, FrameShows,
     SubmittedByHand,
     TooManyAttempts, Asks2fa, Ends2fa, SpuriousClose, MiscWindow, Completes, TimePasses
<1>4. ASSUME Outcome PROVE WatchdogOnlyWaiting'
  <2>1. CASE HearsMfaClosed
    BY <2>1 DEF HearsMfaClosed, AfterMfaClosed, WatchdogOnlyWaiting, LoginInv, ManagerType
  <2>2. CASE HearsMfaOpened
    BY <2>2 DEF HearsMfaOpened, WatchdogOnlyWaiting
  <2>3. CASE ReloginChecked
    BY <2>3 DEF ReloginChecked, WatchdogOnlyWaiting
  <2>4. CASE Skips
    BY <2>4 DEF Skips, WatchdogOnlyWaiting
  <2>5. CASE ~(HearsMfaClosed \/ HearsMfaOpened \/ ReloginChecked \/ Skips)
    <3>1. outcome' \notin {"none", "created", "mfaWait", "reloginDelay", "filling"}
      BY <1>4, <2>5 DEF Outcome, Subscribe, Probes, Probed, HearsSplashClosed, Captured,
         ProbeFails, WatchdogFires, ReloginCheckFails, LogsIn, OutcomeEnds
    <3> QED
      BY <3>1 DEF WatchdogOnlyWaiting
  <2> QED
    BY <2>1, <2>2, <2>3, <2>4, <2>5
<1>5. ASSUME UNCHANGED <<watchdog, outcome>> PROVE WatchdogOnlyWaiting'
  BY <1>5 DEF WatchdogOnlyWaiting
<1> QED
  BY <1>1, <1>2, <1>3, <1>4, <1>5 DEF Next

(* The last that is heard of a dialog is not its close. *)
Reopened(h) ==
  \A i \in 1..Len(h) : h[i] = Closed("mfa") =>
    \E j \in 1..Len(h) : i < j /\ h[j] = Opened("mfa")

Reopens(h) == \E j \in 1..Len(h) : h[j] = Opened("mfa")

(* Gateway: while its 2FA is shown, no close is the last thing that will   *)
(* be heard of it, and a watchdog that is on has its opening still to hear.*)
AskedIsHeard ==
  Program = "GATEWAY" /\ screen = "2fa" =>
    /\ Reopened(Unread)
    /\ watchdog /\ outcome = "waiting" => Reopens(Unread)

LEMMA RestReopened ==
  ASSUME NEW u, NEW v \in Seq(Events), Rest(u, v), Reopened(v)
  PROVE  Reopened(u)
<1>1. PICK k \in 0..Len(v) : Len(u) = Len(v) - k /\ \A i \in 1..Len(u) : u[i] = v[i + k]
  BY DEF Rest
<1>2. Len(v) \in Nat
  OBVIOUS
<1> SUFFICES ASSUME NEW i \in 1..Len(u), u[i] = Closed("mfa")
             PROVE  \E j \in 1..Len(u) : i < j /\ u[j] = Opened("mfa")
  BY DEF Reopened
<1>3. i + k \in 1..Len(v) /\ v[i + k] = Closed("mfa")
  BY <1>1, <1>2
<1>4. PICK j \in 1..Len(v) : i + k < j /\ v[j] = Opened("mfa")
  BY <1>3 DEF Reopened
<1> DEFINE m == j - k
<1>5. m \in 1..Len(u) /\ i < m /\ m + k = j
  BY <1>1, <1>2, <1>4
<1> HIDE DEF m
<1> QED
  BY <1>1, <1>4, <1>5

LEMMA LongerReopened ==
  ASSUME NEW u, NEW v \in Seq(Events), NEW e, Longer(u, v, e)
  PROVE  /\ e = Opened("mfa") => Reopened(u) /\ Reopens(u)
         /\ e # Closed("mfa") /\ Reopened(v) => Reopened(u)
         /\ Reopens(v) => Reopens(u)
<1>1. /\ Len(v) \in Nat /\ Len(u) = Len(v) + 1 /\ u[Len(u)] = e /\ Len(u) \in 1..Len(u)
      /\ \A i \in 1..Len(v) : u[i] = v[i] /\ i \in 1..Len(u) /\ i < Len(u)
      /\ \A i \in 1..Len(u) : i = Len(u) \/ i \in 1..Len(v)
  BY DEF Longer
<1>2. Opened("mfa") # Closed("mfa")
  BY DEF Opened, Closed
<1>3. ASSUME e = Opened("mfa") PROVE Reopened(u) /\ Reopens(u)
  BY <1>1, <1>2, <1>3 DEF Reopened, Reopens
<1>4. ASSUME e # Closed("mfa"), Reopened(v) PROVE Reopened(u)
  <2> SUFFICES ASSUME NEW i \in 1..Len(u), u[i] = Closed("mfa")
               PROVE  \E j \in 1..Len(u) : i < j /\ u[j] = Opened("mfa")
    BY DEF Reopened
  <2>1. i \in 1..Len(v) /\ v[i] = Closed("mfa")
    BY <1>1, <1>4
  <2>2. PICK j \in 1..Len(v) : i < j /\ v[j] = Opened("mfa")
    BY <1>4, <2>1 DEF Reopened
  <2> QED
    BY <1>1, <2>2
<1>5. ASSUME Reopens(v) PROVE Reopens(u)
  BY <1>1, <1>5 DEF Reopens
<1> QED
  BY <1>3, <1>4, <1>5

(* What is left once the outcome task has consumed an event. *)
LEMMA ConsumedReopens ==
  ASSUME LoginInv, HeardConsume, UNCHANGED transit
  PROVE  /\ Head(heard) = Closed("mfa") /\ Reopened(Unread) => Reopens(Unread')
         /\ Head(heard) # Opened("mfa") /\ Reopens(Unread) => Reopens(Unread')
<1> DEFINE u == Unread'
           v == Unread
<1>1. heard \in Seq(Events) /\ transit \in Seq(Events)
  BY DEF LoginInv, HeardType
<1>2. /\ Len(u) = Len(v) - 1 /\ Len(v) \in Nat \ {0} /\ v[1] = Head(heard)
      /\ \A i \in 1..Len(u) : u[i] = v[i + 1]
  BY <1>1, UnreadConsume DEF HeardConsume, Unread
<1> HIDE DEF u, v
<1>3. ASSUME NEW j \in 1..Len(v), j # 1, v[j] = Opened("mfa") PROVE Reopens(u)
  <2> DEFINE m == j - 1
  <2>1. m \in 1..Len(u) /\ m + 1 = j
    BY <1>2, <1>3
  <2> HIDE DEF m
  <2>2. u[m] = Opened("mfa")
    BY <1>2, <1>3, <2>1
  <2> QED
    BY <2>1, <2>2 DEF Reopens
<1>4. ASSUME v[1] = Closed("mfa"), Reopened(v) PROVE Reopens(u)
  <2>1. 1 \in 1..Len(v)
    BY <1>2
  <2>2. PICK j \in 1..Len(v) : 1 < j /\ v[j] = Opened("mfa")
    BY <1>4, <2>1 DEF Reopened
  <2> QED
    BY <1>3, <2>2
<1>5. ASSUME v[1] # Opened("mfa"), Reopens(v) PROVE Reopens(u)
  BY <1>3, <1>5 DEF Reopens
<1> QED
  BY <1>2, <1>4, <1>5 DEF u, v

(* Gateway starts its subscription with nothing. *)
LEMMA GatewaySubscribes ==
  ASSUME LoginInv, PlaceInv, Subscribe, Program = "GATEWAY"
  PROVE  Unread' = Unread
<1>1. heard' \in Seq(Events) /\ \A i \in DOMAIN heard' : FALSE
  BY Seeded, SeededElements
<1>2. Len(heard') = 0
  BY <1>1
<1>3. heard' = <<>>
  BY <1>1, <1>2, EmptySeq
<1>4. heard = <<>> /\ UNCHANGED transit
  BY DEF Subscribe, PlaceInv, Subscribed, program
<1> QED
  BY <1>3, <1>4 DEF Unread

LEMMA AskedStep ==
  ASSUME LoginInv, PlaceInv, ConcludesIn, WatchdogOnlyWaiting, AskedIsHeard, [Next]_vars
  PROVE  AskedIsHeard'
<1> USE DEF manager, ending, events, polling, program, vars
<1> SUFFICES ASSUME Program = "GATEWAY", screen' = "2fa"
             PROVE  Reopened(Unread') /\ (watchdog' /\ outcome' = "waiting" => Reopens(Unread'))
  <2>1. Program' = Program
    BY ConfigStep DEF Program
  <2> QED
    BY <2>1 DEF AskedIsHeard, Reopened, Reopens
<1>1. /\ heard \in Seq(Events) /\ transit \in Seq(Events) /\ Unread \in Seq(Events)
      /\ Program # "TWS"
  BY UnreadStep DEF LoginInv, HeardType
<1>2. CASE screen # "2fa"
  <2>1. Asks2fa
    <3>1. ASSUME NEW c \in Filler, Fill(c) PROVE screen' \in {screen, "auth"}
      BY <3>1 DEF Fill, Typed, ClickLands, Submitted, FillFails, RunEnds, Submit
    <3>2. ASSUME Run \/ Retry \/ EventArrives \/ UNCHANGED vars PROVE UNCHANGED screen
      BY <3>2 DEF Run, FrameFound, FrameTimesOut, RunWakes, RunEnds, Retry, ScheduleRetry,
         RetryWakes, EventArrives
    <3>3. ASSUME Outcome PROVE UNCHANGED screen
      BY <3>3 DEF Outcome, Subscribe, HearsMfaClosed, AfterMfaClosed, HearsMfaOpened, Skips,
         Probes, Probed, HearsSplashClosed, Captured, ProbeFails, WatchdogFires,
         ReloginChecked,
         ReloginCheckFails, LogsIn
    <3>4. ASSUME Poll \/ Application, ~Asks2fa PROVE screen' \in {screen, "auth", "form", "gone"}
      BY <3>4 DEF Poll, PollWakes, PollReads, ReadOnlyClickLands, ReadOnlyClickAnswered,
         ReadOnlyClickFails, Application, FrameShows, SubmittedByHand, TooManyAttempts,
         Ends2fa,
         SpuriousClose, MiscWindow, Completes, TimePasses, Submit
    <3> QED
      BY <1>2, <3>1, <3>2, <3>3, <3>4 DEF Next
  <2>2. Opened("mfa") \in Events /\ heard' = heard /\ transit' = Append(transit, Opened("mfa"))
    BY <1>1, <2>1 DEF Asks2fa, Sends, Events, Windows
  <2>3. Longer(Unread', Unread, Opened("mfa"))
    BY <1>1, <2>2, UnreadSends DEF Unread
  <2> QED
    BY <1>1, <2>3, LongerReopened
<1>3. CASE screen = "2fa"
  <2> USE <1>3
  <2>1. Reopened(Unread) /\ (watchdog /\ outcome = "waiting" => Reopens(Unread))
    BY DEF AskedIsHeard
  <2>2. Reopened(Unread')
    <3>1. ASSUME NEW e \in Events, Sending(e), Longer(Unread', Unread, e) PROVE Reopened(Unread')
      <4>1. e # Closed("mfa")
        BY <1>1, <3>1 DEF Sending
      <4> QED
        BY <1>1, <2>1, <3>1, <4>1, LongerReopened
    <3> QED
      BY <1>1, <2>1, <3>1, UnreadStep, RestReopened, GatewaySubscribes
  <2>3. ASSUME watchdog', outcome' = "waiting" PROVE Reopens(Unread')
    <3> USE <2>3
    <3>1. CASE watchdog /\ outcome = "waiting" /\ UNCHANGED <<heard, transit>>
      BY <2>1, <3>1 DEF Unread
    <3>2. ASSUME NEW c \in Filler, Fill(c)
          PROVE  watchdog /\ outcome = "waiting" /\ UNCHANGED <<heard, transit>>
      <4>1. UNCHANGED <<watchdog, transit>>
        BY <3>2 DEF Fill, Typed, ClickLands, Submitted, FillFails, RunEnds, OutcomeEnds
      <4>2. outcome \notin {"none", "filling"}
        BY <4>1 DEF WatchdogOnlyWaiting
      <4>3. filling["outcome"] = "idle" /\ (c = "run" => filling["run"] = "idle" \/ run # "fill")
        BY <4>2 DEF PlaceInv
      <4>4. c = "retry"
        BY <3>2, <4>2, <4>3 DEF Fill, Typed, ClickLands, Submitted, FillFails, PlaceInv, Filler
      <4> QED
        BY <3>2, <4>1, <4>4 DEF Fill, Typed, ClickLands, Submitted, FillFails
    <3>3. ASSUME Run \/ Retry \/ UNCHANGED vars
          PROVE  watchdog /\ outcome = "waiting" /\ UNCHANGED <<heard, transit>>
      BY <3>3 DEF Run, FrameFound, FrameTimesOut, RunWakes, RunEnds, Retry, ScheduleRetry,
         RetryWakes, Finished
    <3>4. ASSUME Poll \/ Application PROVE Reopens(Unread')
      <4>1. UNCHANGED <<watchdog, outcome>>
        BY <3>4 DEF Poll, PollWakes, PollReads, ReadOnlyClickLands, ReadOnlyClickAnswered,
           ReadOnlyClickFails, Application, FrameShows, SubmittedByHand, TooManyAttempts,
           Asks2fa,
           Ends2fa, SpuriousClose, MiscWindow, Completes, TimePasses
      <4>2. ASSUME NEW e \in Events, Sending(e) PROVE Reopens(Unread')
        <5>1. Longer(Unread', Unread, e)
          BY <1>1, <4>2, UnreadSends DEF Sending, Sends, Unread
        <5> QED
          BY <1>1, <2>1, <4>1, <5>1, LongerReopened
      <4> QED
        BY <3>1, <3>4, <4>1, <4>2, ProgramUnread
    <3>5. ASSUME EventArrives PROVE Reopens(Unread')
      <4>1. watchdog /\ outcome = "waiting" /\ Subscribed
        BY <3>5 DEF EventArrives, Subscribed, Finished
      <4>2. /\ transit # <<>> /\ transit' = Tail(transit)
            /\ heard' = Append(heard, Head(transit))
        BY <3>5, <4>1 DEF EventArrives
      <4>3. Unread' = Unread
        BY <1>1, <4>2, UnreadArrives DEF Unread
      <4> QED
        BY <2>1, <4>1, <4>3
    <3>6. ASSUME Outcome PROVE Reopens(Unread')
      <4>1. CASE HearsMfaClosed
        <5>1. Head(heard) = Closed("mfa") /\ HeardConsume /\ UNCHANGED transit
          BY <4>1 DEF HearsMfaClosed, Hearing, AfterMfaClosed, HeardConsume
        <5> QED
          BY <2>1, <5>1, ConsumedReopens
      <4>2. CASE Skips
        <5>1. /\ HeardConsume /\ UNCHANGED <<transit, watchdog, outcome>>
              /\ Head(heard) # Opened("mfa")
          BY <4>2 DEF Skips, HeardConsume
        <5> QED
          BY <2>1, <5>1, ConsumedReopens
      <4>3. ~ (Probes \/ Probed)
        BY <1>1 DEF Probes, Probed, ConcludesIn
      <4>4. ~ (HearsMfaOpened \/ Subscribe \/ ReloginChecked)
        BY DEF HearsMfaOpened, Subscribe, ReloginChecked, WatchdogOnlyWaiting
      <4>5. ~ (HearsSplashClosed \/ Captured \/ ProbeFails \/ WatchdogFires \/ ReloginCheckFails)
        BY DEF HearsSplashClosed, Captured, LogsIn, ProbeFails, WatchdogFires,
           ReloginCheckFails,
           OutcomeEnds
      <4> QED
        BY <3>6, <4>1, <4>2, <4>3, <4>4, <4>5 DEF Outcome
    <3> QED
      BY <3>1, <3>2, <3>3, <3>4, <3>5, <3>6 DEF Next
  <2> QED
    BY <2>2, <2>3
<1> QED
  BY <1>2, <1>3

(* Who is yet to submit the form: the callers that fill it, a dialog that  *)
(* will schedule the retry, run() before it has found the frame.           *)
Pending ==
  {c \in Filler : filling[c] \in {"cooldown", "typing", "clicking"}}
    \cup {d \in {"dialog"} : tooMany}
    \cup {d \in {"frame"} : run = "frame" /\ ~restartExpected}

(* A close of the 2FA that may still bring a resubmission about.           *)
CloseUnread ==
  outcome = "reloginDelay" \/ \E i \in 1..Len(Unread) : Unread[i] = Closed("mfa")

(* One at a time has the form to himself, and nobody while the login is    *)
(* authenticated.  Once mfa_timeout has passed, a close that was not acted *)
(* upon is of the 2FA of this submission, and only the resubmission it     *)
(* brings about is to come.                                                *)
OneSubmitter ==
  /\ \A c, d \in Pending : c = d
  /\ screen \in {"auth", "2fa"} => Pending = {}
  /\ screen = "absent" => Pending \subseteq {"frame"} /\ ~late /\ run \notin {"fill", "wait"}
  /\ late /\ CloseUnread => Pending \subseteq {"outcome"} /\ (screen = "auth" => approved)

ResubmitsForm ==
  /\ outcome = "reloginDelay" => late
  /\ filling["outcome"] = "typing" => late /\ screen = "form"
  /\ filling["outcome"] = "clicking" => ~(late /\ CloseUnread)

(* The user submits nothing. *)
SubmitterInv == count["byHand"] = 0 => OneSubmitter /\ ResubmitsForm

(* A close is sent while 2FA is shown, and acted upon when it is heard.    *)
LEMMA CloseStep ==
  ASSUME LoginInv, PlaceInv, [Next]_vars
  PROVE  CloseUnread' => CloseUnread \/ screen = "2fa"
<1> USE DEF manager, ending, events, polling, program, vars
<1>0. Len(Unread) \in Nat
  BY UnreadStep
<1>1. ASSUME NEW i \in 1..Len(Unread'), Unread'[i] = Closed("mfa")
      PROVE  CloseUnread \/ screen = "2fa"
  <2>1. CASE Rest(Unread', Unread)
    <3>1. PICK k \in 0..Len(Unread) :
            Len(Unread') = Len(Unread) - k /\ \A j \in 1..Len(Unread') : Unread'[j] = Unread[j + k]
      BY <2>1 DEF Rest
    <3>2. i + k \in 1..Len(Unread) /\ Unread[i + k] = Closed("mfa")
      BY <1>0, <1>1, <3>1
    <3> QED
      BY <3>2 DEF CloseUnread
  <2>2. CASE Subscribe
    <3>1. \A w : Opened(w) # Closed("mfa")
      BY DEF Opened, Closed
    <3> QED
      BY <1>1, <2>2, <3>1, SubscribedUnread DEF CloseUnread
  <2>3. ASSUME NEW e \in Events, Sending(e), Longer(Unread', Unread, e)
        PROVE  CloseUnread \/ screen = "2fa"
    <3>1. CASE i \in 1..Len(Unread)
      BY <1>1, <2>3, <3>1 DEF Longer, CloseUnread
    <3>2. CASE i = Len(Unread) + 1
      BY <1>1, <2>3, <3>2 DEF Longer, Sending
    <3> QED
      BY <1>0, <1>1, <2>3, <3>1, <3>2 DEF Longer
  <2> QED
    BY <2>1, <2>2, <2>3, UnreadStep
<1>2. ASSUME outcome' = "reloginDelay", outcome # "reloginDelay" PROVE CloseUnread
  <2>1. ASSUME NEW c \in Filler, Fill(c) PROVE FALSE
    BY <1>2, <2>1 DEF Fill, Typed, ClickLands, Submitted, FillFails, RunEnds, OutcomeEnds,
       FrameErrors
  <2>2. ~ (Run \/ Retry \/ Poll \/ EventArrives \/ Application \/ UNCHANGED vars)
    BY <1>2 DEF Run, FrameFound, FrameTimesOut, RunWakes, RunEnds, Finished, Retry,
       ScheduleRetry, RetryWakes, Poll, PollWakes, PollReads, ReadOnlyClickLands,
       ReadOnlyClickAnswered, ReadOnlyClickFails, EventArrives, Application, FrameShows,
       SubmittedByHand, TooManyAttempts, Asks2fa, Ends2fa, SpuriousClose, MiscWindow,
       Completes, TimePasses
  <2>3. HearsMfaClosed
    BY <1>2, <2>1, <2>2 DEF Next, Outcome, Subscribe, HearsMfaOpened, Skips, Probes, Probed,
       HearsSplashClosed, Captured, ProbeFails, WatchdogFires, ReloginChecked,
       ReloginCheckFails, LogsIn, OutcomeEnds
  <2>4. heard # <<>> /\ Head(heard) = Closed("mfa")
    BY <2>3 DEF HearsMfaClosed, Hearing
  <2> QED
    BY <2>4, FirstIsUnread DEF CloseUnread
<1> QED
  BY <1>1, <1>2 DEF CloseUnread

LEMMA ByHandCounts ==
  ASSUME LoginInv, [Next]_vars, count'["byHand"] = 0
  PROVE  count["byHand"] = 0 /\ ~SubmittedByHand
<1> USE DEF manager, ending, events, polling, program, vars
<1>1. count \in [Counted -> Nat] /\ "byHand" \in Counted
  BY DEF LoginInv, ProgramType, Counted
<1>2. ASSUME NEW c \in Filler, Fill(c) PROVE UNCHANGED count
  BY <1>2 DEF Fill, Typed, ClickLands, Submitted, FillFails, RunEnds
<1>3. ASSUME Run \/ Retry \/ UNCHANGED vars PROVE UNCHANGED count
  BY <1>3 DEF Run, FrameFound, FrameTimesOut, RunWakes, RunEnds, Retry, ScheduleRetry,
     RetryWakes
<1>4. ASSUME Outcome PROVE UNCHANGED count
  BY <1>4 DEF Outcome, Subscribe, HearsMfaClosed, AfterMfaClosed, HearsMfaOpened, Skips,
     Probes,
     Probed, HearsSplashClosed, Captured, ProbeFails, WatchdogFires, ReloginChecked,
     ReloginCheckFails, LogsIn
<1>5. ASSUME Poll \/ EventArrives PROVE UNCHANGED count
  BY <1>5 DEF EventArrives, Poll, PollWakes, PollReads, ReadOnlyClickLands,
     ReadOnlyClickAnswered,
     ReadOnlyClickFails
<1>6. ASSUME Application, ~SubmittedByHand
      PROVE  UNCHANGED count \/ \E what \in {"cooldown", "mfa", "spurious", "misc"} : Happens(what)
  BY <1>6 DEF Application, FrameShows, TooManyAttempts, Asks2fa, Ends2fa, SpuriousClose,
     MiscWindow, Completes, TimePasses
<1>7. ASSUME NEW what \in {"cooldown", "mfa", "spurious", "misc"}, Happens(what)
      PROVE  count'["byHand"] = count["byHand"]
  BY <1>1, <1>7 DEF Happens
<1>8. ASSUME SubmittedByHand PROVE FALSE
  <2>1. count'["byHand"] = count["byHand"] + 1
    BY <1>1, <1>8 DEF SubmittedByHand, Happens
  <2> QED
    BY <1>1, <2>1
<1> QED
  BY <1>2, <1>3, <1>4, <1>5, <1>6, <1>7, <1>8 DEF Next

(* A step that lets nobody in. *)
LEMMA NobodyNew ==
  ASSUME LoginInv, PlaceInv, [Next]_vars, OneSubmitter, ResubmitsForm,
         Pending' \subseteq Pending, UNCHANGED <<screen, approved, late>>,
         screen # "absent" \/ run' \in {run, "ended"},
         outcome' # "reloginDelay" \/ outcome' = outcome \/ late,
         filling'["outcome"] \in {"idle", filling["outcome"]}
  PROVE  OneSubmitter' /\ ResubmitsForm'
<1>1. OneSubmitter'
  BY CloseStep DEF OneSubmitter
<1>2. filling["outcome"] = "clicking" => screen # "2fa"
  BY DEF OneSubmitter, Pending, Filler
<1>3. ResubmitsForm'
  BY <1>2, CloseStep DEF ResubmitsForm
<1> QED
  BY <1>1, <1>3

LEMMA FillSubmitter ==
  ASSUME LoginInv, PlaceInv, OneSubmitter, ResubmitsForm, NEW c \in Filler, Fill(c)
  PROVE  OneSubmitter' /\ ResubmitsForm'
<1>0. [Next]_vars
  BY DEF Next
<1> USE DEF manager, ending, events, polling, program, vars
<1>1. filling \in [Filler -> {"idle", "cooldown", "typing", "clicking", "clicked"}]
  BY DEF LoginInv, TaskType
<1>2. CASE Typed(c)
  <2>1. c \in Pending /\ Pending' = Pending /\ late' = FALSE
    BY <1>1, <1>2 DEF Typed, Pending
  <2>2. outcome # "reloginDelay"
    <3>1. SUFFICES ASSUME outcome = "reloginDelay" PROVE FALSE
      OBVIOUS
    <3>2. late /\ c = "outcome"
      BY <2>1, <3>1 DEF ResubmitsForm, OneSubmitter, CloseUnread
    <3> QED
      BY <1>2, <3>1, <3>2 DEF Typed, PlaceInv
  <2>3. filling'["outcome"] # "typing"
    <3>1. SUFFICES ASSUME filling'["outcome"] = "typing" PROVE FALSE
      OBVIOUS
    <3>2. "outcome" \in Filler /\ c # "outcome" /\ filling["outcome"] = "typing"
      BY <1>1, <1>2, <3>1 DEF Typed, Filler
    <3>3. "outcome" \in Pending
      BY <3>2 DEF Pending
    <3> QED
      BY <2>1, <3>2, <3>3 DEF OneSubmitter
  <2>4. UNCHANGED <<screen, approved, outcome, run>>
    BY <1>2 DEF Typed
  <2>5. OneSubmitter'
    BY <2>1, <2>4 DEF OneSubmitter
  <2>6. ResubmitsForm'
    BY <2>1, <2>2, <2>3, <2>4 DEF ResubmitsForm
  <2> QED
    BY <2>5, <2>6
<1>3. CASE ClickLands(c)
  <2>1. c \in Pending
    BY <1>1, <1>3 DEF ClickLands, Pending
  <2>2. Pending' = {}
    <3>1. \A d \in Filler : filling'[d] \in {"cooldown", "typing", "clicking"} => d \in Pending /\ d # c
      BY <1>1, <1>3 DEF ClickLands, Pending
    <3>2. ~tooMany /\ ~(run = "frame" /\ ~restartExpected)
      BY <2>1 DEF OneSubmitter, Pending, Filler
    <3>3. UNCHANGED <<tooMany, run, restartExpected>>
      BY <1>3 DEF ClickLands
    <3> QED
      BY <2>1, <3>1, <3>2, <3>3 DEF OneSubmitter, Pending
  <2>3. ~(late /\ CloseUnread) /\ (outcome = "reloginDelay" => late)
    BY <1>3, <2>1 DEF ClickLands, OneSubmitter, ResubmitsForm
  <2>4. screen' = "auth" /\ UNCHANGED <<late, outcome>>
    BY <1>3 DEF ClickLands, Submit
  <2>6. ~(late' /\ CloseUnread')
    BY <1>0, <2>1, <2>3, <2>4, CloseStep DEF OneSubmitter
  <2>5. filling'["outcome"] \notin {"typing", "clicking"}
    BY <2>2 DEF Pending, Filler
  <2> QED
    BY <2>2, <2>3, <2>4, <2>5, <2>6 DEF OneSubmitter, ResubmitsForm
<1>4. CASE Submitted(c)
  <2>1. Pending' \subseteq Pending
    BY <1>1, <1>4 DEF Submitted, Pending
  <2>2. /\ UNCHANGED <<screen, approved, late>>
        /\ outcome' # "reloginDelay" \/ outcome' = outcome
        /\ filling'["outcome"] \in {"idle", filling["outcome"]}
    BY <1>1, <1>4 DEF Submitted, Filler
  <2>3. screen # "absent" \/ run' \in {run, "ended"}
    BY <1>4 DEF Submitted, PlaceInv, OneSubmitter
  <2> QED
    BY <1>0, <2>1, <2>2, <2>3, NobodyNew
<1>5. CASE FillFails(c)
  <2>1. UNCHANGED <<screen, approved, late, tooMany, restartExpected>> /\ run' \in {"ended", run}
    BY <1>5 DEF FillFails, RunEnds
  <2>2. outcome' # "reloginDelay" \/ outcome' = outcome
    BY <1>5 DEF FillFails, RunEnds, OutcomeEnds
  <2>3. \A d \in Filler : filling'[d] \in {"idle", filling[d]}
    BY <1>1, <1>5 DEF FillFails, RunEnds
  <2>4. Pending' \subseteq Pending
    BY <2>1, <2>3 DEF Pending
  <2> QED
    BY <1>0, <2>1, <2>2, <2>3, <2>4, NobodyNew DEF Filler
<1> QED
  BY <1>2, <1>3, <1>4, <1>5 DEF Fill

LEMMA RunSubmitter ==
  ASSUME LoginInv, PlaceInv, OneSubmitter, ResubmitsForm, Run \/ Retry
  PROVE  OneSubmitter' /\ ResubmitsForm'
<1>0. [Next]_vars
  BY DEF Next
<1> USE DEF manager, ending, events, polling, program, vars
<1>1. filling \in [Filler -> {"idle", "cooldown", "typing", "clicking", "clicked"}]
      /\ restartExpected \in BOOLEAN /\ tooMany \in BOOLEAN /\ late \in BOOLEAN
  BY DEF LoginInv, TaskType, ManagerType, ProgramType
<1>2. CASE FrameFound /\ restartExpected
  <2>1. Pending' \subseteq Pending
    BY <1>2 DEF FrameFound, Pending
  <2>2. ~late /\ late' = FALSE /\ outcome' = "created" /\ UNCHANGED <<screen, approved, filling>>
        /\ screen # "absent"
    BY <1>2 DEF FrameFound, PlaceInv
  <2>3. UNCHANGED late
    BY <1>1, <2>2
  <2> QED
    BY <1>0, <2>1, <2>2, <2>3, NobodyNew
<1>3. CASE FrameFound /\ ~restartExpected
  <2>1. "frame" \in Pending
    BY <1>3 DEF FrameFound, Pending
  <2>2. /\ ~late /\ outcome = "none" /\ UNCHANGED <<screen, approved, late, outcome>>
        /\ screen # "absent"
        /\ filling' = [filling EXCEPT !["run"] = "typing"] /\ run' = "fill"
        /\ UNCHANGED <<tooMany, restartExpected>>
    BY <1>3 DEF FrameFound, FillBegins, PlaceInv
  <2>3. \A d \in Filler : filling'[d] \in {"cooldown", "typing", "clicking"} => d = "run"
    <3> SUFFICES ASSUME NEW d \in Filler, filling'[d] \in {"cooldown", "typing", "clicking"}, d # "run"
                 PROVE  FALSE
      OBVIOUS
    <3>1. d \in Pending
      BY <1>1, <2>2 DEF Pending
    <3> QED
      BY <2>1, <3>1 DEF OneSubmitter, Filler
  <2>4. ~tooMany
    BY <2>1 DEF OneSubmitter, Pending
  <2>5. Pending' \subseteq {"run"}
    BY <2>2, <2>3, <2>4 DEF Pending
  <2>6. screen \notin {"auth", "2fa"}
    BY <2>1 DEF OneSubmitter
  <2>7. OneSubmitter'
    BY <2>2, <2>5, <2>6 DEF OneSubmitter
  <2>8. ResubmitsForm'
    BY <2>2, <2>3 DEF ResubmitsForm, Filler
  <2> QED
    BY <2>7, <2>8
<1>4. CASE FrameTimesOut \/ RunWakes
  <2>1. UNCHANGED <<screen, approved, late, tooMany, restartExpected>> /\ run' = "ended"
    BY <1>4 DEF FrameTimesOut, RunWakes, RunEnds
  <2>2. outcome' # "reloginDelay" \/ outcome' = outcome
    BY <1>4 DEF FrameTimesOut, RunWakes, RunEnds
  <2>3. \A d \in Filler : filling'[d] \in {"idle", filling[d]}
    BY <1>1, <1>4 DEF FrameTimesOut, RunWakes, RunEnds
  <2>4. Pending' \subseteq Pending
    BY <2>1, <2>3 DEF Pending
  <2> QED
    BY <1>0, <2>1, <2>2, <2>3, <2>4, NobodyNew DEF Filler
<1>5. CASE ScheduleRetry
  <2>1. "dialog" \in Pending
    BY <1>5 DEF ScheduleRetry, Pending
  <2>2. ~(late /\ CloseUnread) /\ screen \notin {"auth", "2fa", "absent"}
    BY <2>1 DEF OneSubmitter
  <2>3. /\ UNCHANGED <<screen, approved, late, outcome, run, restartExpected>> /\ tooMany' = FALSE
        /\ filling' = [filling EXCEPT !["retry"] = "cooldown"]
    BY <1>5 DEF ScheduleRetry
  <2>4. \A d \in Filler : filling'[d] \in {"cooldown", "typing", "clicking"} => d = "retry"
    <3> SUFFICES ASSUME NEW d \in Filler, filling'[d] \in {"cooldown", "typing", "clicking"}, d # "retry"
                 PROVE  FALSE
      OBVIOUS
    <3>1. d \in Pending
      BY <1>1, <2>3 DEF Pending
    <3> QED
      BY <2>1, <3>1 DEF OneSubmitter, Filler
  <2>5. ~(run = "frame" /\ ~restartExpected)
    BY <2>1 DEF OneSubmitter, Pending
  <2>6. Pending' \subseteq {"retry"}
    BY <2>3, <2>4, <2>5 DEF Pending
  <2>7. ~(late' /\ CloseUnread')
    BY <1>0, <2>2, <2>3, CloseStep
  <2>8. OneSubmitter'
    BY <2>2, <2>3, <2>6, <2>7 DEF OneSubmitter
  <2>9. ResubmitsForm'
    BY <2>3, <2>4 DEF ResubmitsForm, Filler
  <2> QED
    BY <2>8, <2>9
<1>6. CASE RetryWakes
  <2>1. filling["retry"] = "cooldown" /\ filling' = [filling EXCEPT !["retry"] = "typing"]
        /\ UNCHANGED <<screen, approved, late, outcome, run, restartExpected, tooMany>>
    BY <1>6 DEF RetryWakes, FillBegins
  <2>2. Pending' \subseteq Pending /\ filling'["outcome"] = filling["outcome"]
    BY <1>1, <2>1 DEF Pending, Filler
  <2> QED
    BY <1>0, <2>1, <2>2, NobodyNew
<1> QED
  BY <1>2, <1>3, <1>4, <1>5, <1>6 DEF Run, Retry

LEMMA OutcomeSubmitter ==
  ASSUME LoginInv, PlaceInv, OneSubmitter, ResubmitsForm, Outcome
  PROVE  OneSubmitter' /\ ResubmitsForm'
<1>0. [Next]_vars
  BY DEF Next
<1> USE DEF manager, ending, events, polling, program, vars
<1>1. filling \in [Filler -> {"idle", "cooldown", "typing", "clicking", "clicked"}]
  BY DEF LoginInv, TaskType
<1>2. CASE ReloginChecked /\ FormShown /\ FillBegins("outcome") /\ outcome' = "filling"
  <2>1. late /\ outcome = "reloginDelay" /\ CloseUnread
    BY <1>2 DEF ReloginChecked, ResubmitsForm, CloseUnread
  <2>2. "outcome" \notin Pending
    BY <2>1 DEF PlaceInv, Pending
  <2>3. Pending = {} /\ screen = "form"
    BY <1>2, <2>1, <2>2 DEF OneSubmitter, FormShown
  <2>4. /\ UNCHANGED <<screen, approved, late, run, restartExpected, tooMany>>
        /\ filling' = [filling EXCEPT !["outcome"] = "typing"]
    BY <1>2 DEF ReloginChecked, FillBegins
  <2>5. \A d \in Filler : filling'[d] \in {"cooldown", "typing", "clicking"} => d = "outcome"
    BY <1>1, <2>3, <2>4 DEF Pending
  <2>6. Pending' \subseteq {"outcome"}
    BY <2>3, <2>4, <2>5 DEF Pending
  <2>7. OneSubmitter'
    BY <2>1, <2>3, <2>4, <2>6 DEF OneSubmitter
  <2>8. filling'["outcome"] = "typing"
    BY <1>1, <2>4 DEF Filler
  <2>9. ResubmitsForm'
    BY <1>2, <2>1, <2>3, <2>4, <2>8 DEF ResubmitsForm
  <2> QED
    BY <2>7, <2>9
<1>3. CASE ~(ReloginChecked /\ FormShown /\ FillBegins("outcome") /\ outcome' = "filling")
  <2>1. UNCHANGED <<screen, approved, late, run, restartExpected, tooMany, filling>>
    BY <1>3 DEF Outcome, Subscribe, HearsMfaClosed, AfterMfaClosed, HearsMfaOpened, Skips,
       Probes, Probed, HearsSplashClosed, Captured, ProbeFails, WatchdogFires, ReloginChecked,
       ReloginCheckFails, LogsIn
  <2>2. outcome' # "reloginDelay" \/ outcome' = outcome \/ late
    BY DEF Outcome, Subscribe, HearsMfaClosed, AfterMfaClosed, HearsMfaOpened, Skips, Probes,
       Probed, HearsSplashClosed, Captured, ProbeFails, WatchdogFires, ReloginChecked,
       ReloginCheckFails, LogsIn, OutcomeEnds
  <2>3. Pending' = Pending
    BY <2>1 DEF Pending
  <2> QED
    BY <1>0, <2>1, <2>2, <2>3, NobodyNew
<1> QED
  BY <1>2, <1>3

LEMMA ProgramSubmitter ==
  ASSUME LoginInv, PlaceInv, OneSubmitter, ResubmitsForm,
         Poll \/ EventArrives \/ Application, ~SubmittedByHand
  PROVE  OneSubmitter' /\ ResubmitsForm'
<1>0. [Next]_vars
  BY DEF Next
<1> USE DEF manager, ending, events, polling, program, vars
<1>1. UNCHANGED <<filling, run, restartExpected, outcome>>
  BY DEF Poll, PollWakes, PollReads, ReadOnlyClickLands, ReadOnlyClickAnswered,
     ReadOnlyClickFails, EventArrives, Application, FrameShows, TooManyAttempts, Asks2fa,
     Ends2fa,
     SpuriousClose, MiscWindow, Completes, TimePasses
<1>2. \A x : filling["outcome"] = x /\ x \in {"typing", "clicking"} => "outcome" \in Pending
  BY DEF Pending, Filler
<1>3. CASE UNCHANGED <<screen, approved, late, tooMany>>
  <2>1. Pending' = Pending
    BY <1>1, <1>3 DEF Pending
  <2> QED
    BY <1>0, <1>1, <1>3, <2>1, NobodyNew
<1>4. CASE ReadOnlyClickLands \/ Ends2fa
  <2>1. /\ screen = "2fa" /\ UNCHANGED <<late, tooMany>>
        /\ screen' = "form" \/ (screen' = "auth" /\ approved')
    BY <1>4 DEF ReadOnlyClickLands, Ends2fa
  <2>2. Pending = {} /\ Pending' = Pending
    BY <1>1, <2>1 DEF OneSubmitter, Pending
  <2> QED
    BY <1>1, <1>2, <2>1, <2>2 DEF OneSubmitter, ResubmitsForm
<1>5. CASE FrameShows
  <2>1. /\ screen = "absent" /\ UNCHANGED <<late, tooMany, approved>>
        /\ screen' = IF restartExpected THEN "auth" ELSE "form"
    BY <1>5 DEF FrameShows
  <2>2. Pending \subseteq {"frame"} /\ ~late /\ Pending' = Pending
        /\ (restartExpected => Pending = {})
    BY <1>1, <2>1 DEF OneSubmitter, Pending, Filler
  <2> QED
    BY <1>1, <1>2, <2>1, <2>2 DEF OneSubmitter, ResubmitsForm
<1>6. CASE TooManyAttempts
  <2>1. /\ screen = "auth" /\ ~approved /\ screen' = "form" /\ UNCHANGED <<late, approved>>
    BY <1>6 DEF TooManyAttempts
  <2>2. Pending = {} /\ ~(late' /\ CloseUnread')
    BY <1>0, <2>1, CloseStep DEF OneSubmitter
  <2>3. Pending' \subseteq {"dialog"}
    BY <1>1, <2>2 DEF Pending
  <2> QED
    BY <1>1, <1>2, <2>1, <2>2, <2>3 DEF OneSubmitter, ResubmitsForm
<1>7. CASE Asks2fa \/ Completes
  <2>1. /\ screen = "auth" /\ screen' \in {"2fa", "gone"} /\ UNCHANGED <<late, approved, tooMany>>
    BY <1>7 DEF Asks2fa, Completes
  <2>2. Pending = {} /\ Pending' = Pending
    BY <1>1, <2>1 DEF OneSubmitter, Pending
  <2> QED
    BY <1>1, <1>2, <2>1, <2>2 DEF OneSubmitter, ResubmitsForm
<1>8. CASE TimePasses
  <2>1. /\ ~late /\ run = "wait" /\ heard' = <<>> /\ transit' = <<>>
        /\ UNCHANGED <<screen, approved, tooMany>> /\ late' = TRUE
    BY <1>8 DEF TimePasses
  <2>2. Pending' = Pending
    BY <1>1, <2>1 DEF Pending
  <2>3. \A i \in 1..Len(Unread') : FALSE
    BY <2>1 DEF Unread
  <2>4. ~CloseUnread'
    BY <1>1, <2>1, <2>3 DEF CloseUnread, ResubmitsForm
  <2> QED
    BY <1>1, <1>2, <2>1, <2>2, <2>4 DEF OneSubmitter, ResubmitsForm
<1>9. ASSUME PollWakes \/ PollReads \/ ReadOnlyClickAnswered \/ ReadOnlyClickFails \/ SpuriousClose
             \/ MiscWindow \/ EventArrives
      PROVE  UNCHANGED <<screen, approved, late, tooMany>>
  BY <1>9 DEF PollWakes, PollReads, ReadOnlyClickAnswered, ReadOnlyClickFails, SpuriousClose,
     MiscWindow, EventArrives
<1> QED
  BY <1>3, <1>4, <1>5, <1>6, <1>7, <1>8, <1>9 DEF Poll, Application

LEMMA SubmitterStep ==
  ASSUME LoginInv, PlaceInv, SubmitterInv, [Next]_vars
  PROVE  SubmitterInv'
<1> SUFFICES ASSUME count'["byHand"] = 0 PROVE OneSubmitter' /\ ResubmitsForm'
  BY DEF SubmitterInv
<1>1. OneSubmitter /\ ResubmitsForm /\ ~SubmittedByHand
  BY ByHandCounts DEF SubmitterInv
<1>2. CASE UNCHANGED vars
  BY <1>1, <1>2 DEF OneSubmitter, ResubmitsForm, Pending, CloseUnread, Unread, vars, manager,
     ending, events, program
<1>3. CASE Next
  BY <1>1, <1>3, FillSubmitter, RunSubmitter, OutcomeSubmitter, ProgramSubmitter DEF Next
<1> QED
  BY <1>2, <1>3

-----------------------------------------------------------------------------
LoginParts ==
  /\ LoginInv
  /\ PlaceInv
  /\ PollSound /\ ResultSound
  /\ ReportedIn /\ ConcludesIn /\ LoggedInMeansIn
  /\ WatchdogOnlyWaiting /\ AskedIsHeard
  /\ SubmitterInv

LEMMA InitParts == Init => LoginParts
<1> SUFFICES ASSUME Init PROVE LoginParts
  OBVIOUS
<1>1. PlaceInv /\ PollSound /\ ResultSound
  BY DEF Init, PlaceInv, PollSound, ResultSound, Filler
<1>2. ReportedIn /\ ConcludesIn /\ LoggedInMeansIn
  <2>1. \A i \in 1..Len(Unread) : FALSE
    BY DEF Init, Unread
  <2> QED
    BY <2>1 DEF Init, ReportedIn, ConcludesIn, LoggedInMeansIn
<1>3. WatchdogOnlyWaiting /\ AskedIsHeard
  BY DEF Init, WatchdogOnlyWaiting, AskedIsHeard
<1>4. SubmitterInv
  <2>1. Pending \subseteq {"frame"}
    BY DEF Init, Pending
  <2>2. OneSubmitter /\ ResubmitsForm
    BY <2>1 DEF Init, OneSubmitter, ResubmitsForm, Filler
  <2> QED
    BY <2>2 DEF SubmitterInv
<1> QED
  BY <1>1, <1>2, <1>3, <1>4, InitInv DEF LoginParts

LEMMA NextParts == LoginParts /\ [Next]_vars => LoginParts'
<1> SUFFICES ASSUME LoginParts, [Next]_vars PROVE LoginParts'
  OBVIOUS
<1> USE DEF LoginParts
<1>1. LoginInv' /\ PlaceInv'
  BY NextInv, PlaceStep
<1>2. PollSound' /\ ResultSound'
  BY PollStep, ResultStep
<1>3. ReportedIn' /\ ConcludesIn' /\ LoggedInMeansIn'
  BY ReportedStep, ConcludesStep, LoggedInStep
<1>4. WatchdogOnlyWaiting' /\ AskedIsHeard'
  BY WatchdogStep, AskedStep
<1>5. SubmitterInv'
  BY SubmitterStep
<1> QED
  BY <1>1, <1>2, <1>3, <1>4, <1>5

(* LOGGED_IN says the application is logged in, and on TWS that the main   *)
(* window is the one recorded: the menu check and the splash's own close   *)
(* keep every other window from being taken for the end of the login.      *)
THEOREM LoggedInCorrect == Spec => []LoggedInMeansIn
<1>1. LoginParts => LoggedInMeansIn
  BY DEF LoginParts
<1> QED
  BY <1>1, InitParts, NextParts, PTL DEF Spec

(* A login that completed is what run() returns: a retry that failed does  *)
(* not override it, only a read-only poll that died of an AgentError does. *)
THEOREM CompletedCorrect == Spec => []CompletedLoginReturns
<1>1. LoginParts => CompletedLoginReturns
  BY DEF LoginParts, ResultSound, CompletedLoginReturns
<1> QED
  BY <1>1, InitParts, NextParts, PTL DEF Spec

(* A resubmission after an unanswered 2FA types over the form and never    *)
(* over a frame that shows 2FA, unless the user submits the form too.      *)
THEOREM RefillCorrect == Spec => []RefillOnlyOnForm
<1>1. LoginParts => RefillOnlyOnForm
  BY DEF LoginParts, SubmitterInv, ResubmitsForm, RefillOnlyOnForm
<1> QED
  BY <1>1, InitParts, NextParts, PTL DEF Spec

(* The watchdog is what times a login out, and it fires only when nothing  *)
(* is left to hear.                                                        *)
LEMMA TimesOutFiring ==
  ASSUME [Next]_vars, outcome' = "mfaTimeout", outcome # "mfaTimeout"
  PROVE  WatchdogFires
<1> USE DEF manager, ending, events, polling, program, vars
<1>1. ASSUME NEW c \in Filler, Fill(c) PROVE FALSE
  BY <1>1 DEF Fill, Typed, ClickLands, Submitted, FillFails, RunEnds, OutcomeEnds, FrameErrors
<1>2. ASSUME Run \/ Retry \/ Poll \/ EventArrives \/ Application \/ UNCHANGED vars PROVE FALSE
  BY <1>2 DEF Run, FrameFound, FrameTimesOut, RunWakes, RunEnds, Retry, ScheduleRetry,
     RetryWakes,
     Poll, PollWakes, PollReads, ReadOnlyClickLands, ReadOnlyClickAnswered, ReadOnlyClickFails,
     EventArrives, Application, FrameShows, SubmittedByHand, TooManyAttempts, Asks2fa,
     Ends2fa, SpuriousClose,
     MiscWindow, Completes, TimePasses
<1>3. ASSUME Outcome, ~WatchdogFires PROVE FALSE
  BY <1>3 DEF Outcome, Subscribe, HearsMfaClosed, AfterMfaClosed, HearsMfaOpened, Skips,
     Probes,
     Probed, HearsSplashClosed, Captured, ProbeFails, ReloginChecked, ReloginCheckFails,
     LogsIn,
     OutcomeEnds
<1> QED
  BY <1>1, <1>2, <1>3 DEF Next

(* On Gateway the exit-interval watchdog of one round ends a login whose   *)
(* second factor is being asked for only while the opening of that dialog  *)
(* is still on its way to the outcome task: once heard, it stops the timer.*)
THEOREM TimeoutCorrect == Spec => HeardDialogStopsTimer
<1>1. ASSUME LoginParts, [Next]_vars
      PROVE  Program = "GATEWAY" /\ outcome' = "mfaTimeout" /\ outcome # "mfaTimeout" =>
               screen # "2fa" \/ Opened("mfa") \in Range(heard \o transit)
  <2> SUFFICES ASSUME Program = "GATEWAY", outcome' = "mfaTimeout", outcome # "mfaTimeout",
                      screen = "2fa"
               PROVE  Opened("mfa") \in Range(heard \o transit)
    OBVIOUS
  <2>1. watchdog /\ outcome = "waiting"
    BY <1>1, TimesOutFiring DEF WatchdogFires
  <2>2. Reopens(Unread) /\ Unread \in Seq(Events)
    BY <1>1, <2>1, UnreadStep DEF LoginParts, AskedIsHeard
  <2> QED
    BY <2>2, RangeEquality DEF Reopens, Unread
<1> QED
  BY <1>1, InitParts, NextParts, PTL DEF Spec, HeardDialogStopsTimer
=============================================================================
