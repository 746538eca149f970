--------------------------- MODULE Settings_proofs ---------------------------
(* Proofs about Settings, for all settings files and bounds.               *)
EXTENDS Settings, Integers, SequenceTheorems, WellFoundedInduction, TLAPS

-----------------------------------------------------------------------------
Widgets == [time : Nat, ampm : Nat, radio : Nat, toggles : SUBSET Nat]

InputType ==
  /\ user \in UserFiles
  /\ config \in [Keys -> {"unset", "valid", "malformed"}]
  /\ hook \in BOOLEAN

TaskType ==
  /\ pc \in {"start", "splash", "navigate", "waitOpened", "apply", "hook", "closing", "done"}
  /\ entry \in Nat
  /\ step \in {"expand", "type", "typeOther", "ampm", "enable", "toggle"}
  /\ result \in {"none", "ok", "nothing", "timeout", "notFound", "failed", "gone",
                 "cancelled", "abandoned", "unconfirmed"}

(* The retries of the menu end at the deadline.                            *)
ClockType ==
  /\ clock \in Nat /\ clock <= Timeout
  /\ missingSince \in Nat /\ missingSince <= Timeout

(* The menu item is clicked once and OK is clicked once.                   *)
ClicksType ==
  /\ clicks \in Seq({"menu", "ok"})
  /\ Len(clicks) <= 2
  /\ pc \in {"start", "splash", "navigate"} => Len(clicks) = 0
  /\ pc \in {"waitOpened", "apply", "hook", "closing"} => Len(clicks) <= 1

ProgramType ==
  /\ splash \in BOOLEAN /\ alive \in BOOLEAN
  /\ menu \in {"missing", "disabled", "enabled"}
  /\ dialog \in {"none", "open", "closed"}
  /\ widgets \in Widgets
  /\ committed \in Widgets

FaultType ==
  /\ failures \in Nat /\ failures <= MaxFailures
  /\ cancels \in Nat /\ cancels <= MaxCancels
  /\ spoiled \subseteq Nat

SettingsInv ==
  InputType /\ TaskType /\ ClockType /\ ClicksType /\ ProgramType /\ FaultType

LEMMA Bounds ==
  Timeout \in Nat /\ NotFoundTimeout \in Nat /\ MaxFailures \in Nat /\ MaxCancels \in Nat
BY SettingsAssumption

LEMMA InvImpliesType == SettingsInv => TypeOK
<1> SUFFICES ASSUME SettingsInv PROVE TypeOK
  OBVIOUS
<1>1. {hook, splash, alive} \subseteq BOOLEAN
  BY DEF SettingsInv, InputType, ProgramType
<1>2. {clock, missingSince} \subseteq 0 .. (Timeout + 1)
  BY Bounds DEF SettingsInv, ClockType
<1>3. {widgets, committed} \subseteq [time : Nat, ampm : Nat, radio : Nat, toggles : SUBSET Nat]
  BY DEF SettingsInv, ProgramType, Widgets
<1>4. failures \in 0 .. MaxFailures /\ cancels \in 0 .. MaxCancels
  BY Bounds DEF SettingsInv, FaultType
<1> QED
  BY <1>1, <1>2, <1>3, <1>4, Zenon
  DEF SettingsInv, InputType, TaskType, ClicksType, ProgramType, FaultType, TypeOK

(* What a command makes of the widgets.                                    *)
LEMMA SetWidgets ==
  ASSUME widgets \in Widgets, entry \in Nat
  PROVE  /\ Set \in Widgets
         /\ Set.radio = IF step = "enable" THEN entry ELSE widgets.radio
         /\ Set.toggles = IF step = "toggle" THEN widgets.toggles \cup {entry} ELSE widgets.toggles
         /\ Set.time = IF LabelFound THEN entry ELSE widgets.time
         /\ Set.ampm = IF step = "ampm" THEN entry ELSE widgets.ampm
<1>1. LabelFound => step \in {"type", "typeOther"}
  BY DEF LabelFound
<1>2. CASE LabelFound
  <2>1. Set = [widgets EXCEPT !.time = entry]
    BY <1>1, <1>2 DEF Set
  <2> QED
    BY <1>1, <1>2, <2>1 DEF Widgets
<1>3. CASE step = "ampm"
  <2>1. Set = [widgets EXCEPT !.ampm = entry]
    BY <1>1, <1>3 DEF Set
  <2> QED
    BY <1>1, <1>3, <2>1 DEF Widgets
<1>4. CASE step = "enable"
  <2>1. Set = [widgets EXCEPT !.radio = entry]
    BY <1>1, <1>4 DEF Set
  <2> QED
    BY <1>1, <1>4, <2>1 DEF Widgets
<1>5. CASE step = "toggle"
  <2>1. Set = [widgets EXCEPT !.toggles = @ \cup {entry}]
    BY <1>1, <1>5 DEF Set
  <2> QED
    BY <1>1, <1>5, <2>1 DEF Widgets
<1>6. CASE ~LabelFound /\ step \notin {"ampm", "enable", "toggle"}
  <2>1. Set = widgets
    BY <1>6 DEF Set
  <2> QED
    BY <1>6, <2>1 DEF Widgets
<1> QED
  BY <1>2, <1>3, <1>4, <1>5, <1>6

LEMMA AppendClick ==
  ASSUME clicks \in Seq({"menu", "ok"}), NEW c \in {"menu", "ok"}
  PROVE  Append(clicks, c) \in Seq({"menu", "ok"}) /\ Len(Append(clicks, c)) = Len(clicks) + 1
OBVIOUS

LEMMA TailClick ==
  ASSUME clicks \in Seq({"menu", "ok"}), clicks # <<>>
  PROVE  Tail(clicks) \in Seq({"menu", "ok"}) /\ Len(Tail(clicks)) = Len(clicks) - 1
         /\ Len(clicks) \in Nat
OBVIOUS

(* A step of the task that clicks nothing and goes no further back. *)
Later ==
  /\ \/ pc' = "done"
     \/ pc' = pc
     \/ pc = "start" /\ pc' = "splash"
     \/ pc = "splash" /\ pc' = "navigate"
     \/ pc = "waitOpened" /\ pc' = "apply"
     \/ pc = "apply" /\ pc' \in {"hook", "closing"}
     \/ pc = "hook" /\ pc' = "closing"
  /\ UNCHANGED clicks

LEMMA LaterClicks == ASSUME ClicksType, Later PROVE ClicksType'
<1>1. Len(clicks) \in Nat
  BY DEF ClicksType
<1> QED
  BY <1>1 DEF ClicksType, Later

-----------------------------------------------------------------------------
LEMMA InitInv == Init => SettingsInv
<1> SUFFICES ASSUME Init PROVE SettingsInv
  OBVIOUS
<1>1. InputType
  BY SettingsAssumption DEF Init, InputType
<1>2. TaskType
  BY DEF Init, TaskType
<1>3. ClockType
  BY Bounds DEF Init, ClockType
<1>4. ClicksType
  BY DEF Init, ClicksType
<1>5. ProgramType
  BY DEF Init, ProgramType, Widgets, Fresh, Unsaved
<1>6. FaultType
  BY Bounds DEF Init, FaultType
<1> QED
  BY <1>1, <1>2, <1>3, <1>4, <1>5, <1>6 DEF SettingsInv

(* Up to the dialog. *)
LEMMA OpeningInv ==
  ASSUME SettingsInv, Opening
  PROVE  SettingsInv'
<1> USE DEF SettingsInv, input, task, program, faults
<1>1. CASE Start
  <2>1. InputType'
    BY <1>1 DEF Start, Ends, InputType
  <2>2. TaskType'
    BY <1>1 DEF Start, Ends, TaskType
  <2>3. ClockType'
    BY <1>1, Bounds DEF Start, Ends, ClockType
  <2>4. ClicksType'
    <3>1. Later
      BY <1>1 DEF Start, Ends, Later
    <3> QED
      BY <3>1, LaterClicks
  <2>5. ProgramType'
    BY <1>1 DEF Start, Ends, ProgramType, Widgets
  <2>6. FaultType'
    BY <1>1, Bounds DEF Start, Ends, FaultType
  <2> QED
    BY <2>1, <2>2, <2>3, <2>4, <2>5, <2>6
<1>2. CASE SplashClosed
  <2>1. InputType'
    BY <1>2 DEF SplashClosed, InputType
  <2>2. TaskType'
    BY <1>2 DEF SplashClosed, TaskType
  <2>3. ClockType'
    BY <1>2, Bounds DEF SplashClosed, ClockType
  <2>4. ClicksType'
    <3>1. Later
      BY <1>2 DEF SplashClosed, Later
    <3> QED
      BY <3>1, LaterClicks
  <2>5. ProgramType'
    BY <1>2 DEF SplashClosed, ProgramType, Widgets
  <2>6. FaultType'
    BY <1>2, Bounds DEF SplashClosed, FaultType
  <2> QED
    BY <2>1, <2>2, <2>3, <2>4, <2>5, <2>6
<1>3. CASE WaitTimesOut
  <2>1. InputType'
    BY <1>3 DEF WaitTimesOut, Ends, InputType
  <2>2. TaskType'
    BY <1>3 DEF WaitTimesOut, Ends, TaskType
  <2>3. ClockType'
    BY <1>3, Bounds DEF WaitTimesOut, Ends, ClockType
  <2>4. ClicksType'
    <3>1. Later
      BY <1>3 DEF WaitTimesOut, Ends, Later
    <3> QED
      BY <3>1, LaterClicks
  <2>5. ProgramType'
    BY <1>3 DEF WaitTimesOut, Ends, ProgramType, Widgets
  <2>6. FaultType'
    BY <1>3, Bounds DEF WaitTimesOut, Ends, FaultType
  <2> QED
    BY <2>1, <2>2, <2>3, <2>4, <2>5, <2>6
<1>4. CASE MenuMissing
  <2>1. InputType'
    BY <1>4 DEF MenuMissing, Ends, InputType
  <2>2. TaskType'
    BY <1>4 DEF MenuMissing, Ends, TaskType
  <2>3. ClockType'
    BY <1>4, Bounds DEF MenuMissing, Ends, ClockType
  <2>4. ClicksType'
    <3>1. Later
      BY <1>4 DEF MenuMissing, Ends, Later
    <3> QED
      BY <3>1, LaterClicks
  <2>5. ProgramType'
    BY <1>4 DEF MenuMissing, Ends, ProgramType, Widgets
  <2>6. FaultType'
    BY <1>4, Bounds DEF MenuMissing, Ends, FaultType
  <2> QED
    BY <2>1, <2>2, <2>3, <2>4, <2>5, <2>6
<1>5. CASE MenuDisabled
  <2>1. InputType'
    BY <1>5 DEF MenuDisabled, Ends, InputType
  <2>2. TaskType'
    BY <1>5 DEF MenuDisabled, Ends, TaskType
  <2>3. ClockType'
    BY <1>5, Bounds DEF MenuDisabled, Ends, ClockType
  <2>4. ClicksType'
    <3>1. Later
      BY <1>5 DEF MenuDisabled, Ends, Later
    <3> QED
      BY <3>1, LaterClicks
  <2>5. ProgramType'
    BY <1>5 DEF MenuDisabled, Ends, ProgramType, Widgets
  <2>6. FaultType'
    BY <1>5, Bounds DEF MenuDisabled, Ends, FaultType
  <2> QED
    BY <2>1, <2>2, <2>3, <2>4, <2>5, <2>6
<1>6. CASE MenuClicked
  <2>1. InputType'
    BY <1>6 DEF MenuClicked, InputType
  <2>2. TaskType'
    BY <1>6 DEF MenuClicked, TaskType
  <2>3. ClockType'
    BY <1>6, Bounds DEF MenuClicked, ClockType
  <2>4. ClicksType'
    BY <1>6, AppendClick DEF MenuClicked, ClicksType
  <2>5. ProgramType'
    BY <1>6 DEF MenuClicked, ProgramType, Widgets
  <2>6. FaultType'
    BY <1>6, Bounds DEF MenuClicked, FaultType
  <2> QED
    BY <2>1, <2>2, <2>3, <2>4, <2>5, <2>6
<1>7. CASE MenuFails
  <2>1. InputType'
    BY <1>7 DEF MenuFails, Ends, InputType
  <2>2. TaskType'
    BY <1>7 DEF MenuFails, Ends, TaskType
  <2>3. ClockType'
    BY <1>7, Bounds DEF MenuFails, Ends, ClockType
  <2>4. ClicksType'
    <3>1. Later
      BY <1>7 DEF MenuFails, Ends, Later
    <3> QED
      BY <3>1, LaterClicks
  <2>5. ProgramType'
    BY <1>7 DEF MenuFails, Ends, ProgramType, Widgets
  <2>6. FaultType'
    BY <1>7, Bounds DEF MenuFails, Ends, FaultType
  <2> QED
    BY <2>1, <2>2, <2>3, <2>4, <2>5, <2>6
<1>8. CASE DialogOpened
  <2>1. InputType'
    BY <1>8 DEF DialogOpened, InputType
  <2>2. TaskType'
    BY <1>8 DEF DialogOpened, TaskType
  <2>3. ClockType'
    BY <1>8, Bounds DEF DialogOpened, ClockType
  <2>4. ClicksType'
    <3>1. Later
      BY <1>8 DEF DialogOpened, Later
    <3> QED
      BY <3>1, LaterClicks
  <2>5. ProgramType'
    BY <1>8 DEF DialogOpened, ProgramType, Widgets
  <2>6. FaultType'
    BY <1>8, Bounds DEF DialogOpened, FaultType
  <2> QED
    BY <2>1, <2>2, <2>3, <2>4, <2>5, <2>6
<1> QED
  BY <1>1, <1>2, <1>3, <1>4, <1>5, <1>6, <1>7, <1>8 DEF Opening

(* The entries, one command at a time. *)
LEMMA ApplyInv ==
  ASSUME SettingsInv, ApplyAll
  PROVE  SettingsInv'
<1> USE DEF SettingsInv, input, task, program, faults
<1>1. CASE Skipped
  <2>1. InputType'
    BY <1>1 DEF Skipped, NextEntry, Applying, InputType
  <2>2. TaskType'
    BY <1>1 DEF Skipped, NextEntry, Applying, TaskType
  <2>3. ClockType'
    BY <1>1, Bounds DEF Skipped, NextEntry, Applying, ClockType
  <2>4. ClicksType'
    <3>1. Later
      BY <1>1 DEF Skipped, NextEntry, Applying, Later
    <3> QED
      BY <3>1, LaterClicks
  <2>5. ProgramType'
    BY <1>1 DEF Skipped, NextEntry, Applying, ProgramType, Widgets
  <2>6. FaultType'
    BY <1>1, Bounds DEF Skipped, NextEntry, Applying, FaultType
  <2> QED
    BY <2>1, <2>2, <2>3, <2>4, <2>5, <2>6
<1>2. CASE Refused
  <2>1. InputType'
    BY <1>2 DEF Refused, NextEntry, Applying, InputType
  <2>2. TaskType'
    BY <1>2 DEF Refused, NextEntry, Applying, TaskType
  <2>3. ClockType'
    BY <1>2, Bounds DEF Refused, NextEntry, Applying, ClockType
  <2>4. ClicksType'
    <3>1. Later
      BY <1>2 DEF Refused, NextEntry, Applying, Later
    <3> QED
      BY <3>1, LaterClicks
  <2>5. ProgramType'
    BY <1>2 DEF Refused, NextEntry, Applying, ProgramType, Widgets
  <2>6. FaultType'
    BY <1>2, Bounds DEF Refused, NextEntry, Applying, FaultType, TaskType
  <2> QED
    BY <2>1, <2>2, <2>3, <2>4, <2>5, <2>6
<1>3. CASE Expanded
  <2>1. InputType'
    BY <1>3 DEF Expanded, Goes, Applying, InputType
  <2>2. TaskType'
    BY <1>3 DEF Expanded, Goes, Applying, TaskType
  <2>3. ClockType'
    BY <1>3, Bounds DEF Expanded, Goes, Applying, ClockType
  <2>4. ClicksType'
    <3>1. Later
      BY <1>3 DEF Expanded, Goes, Applying, Later
    <3> QED
      BY <3>1, LaterClicks
  <2>5. ProgramType'
    BY <1>3 DEF Expanded, Goes, Applying, ProgramType, Widgets
  <2>6. FaultType'
    BY <1>3, Bounds DEF Expanded, Goes, Applying, FaultType
  <2> QED
    BY <2>1, <2>2, <2>3, <2>4, <2>5, <2>6
<1>4. CASE LabelMissing
  <2>1. InputType'
    BY <1>4 DEF LabelMissing, Goes, Applying, InputType
  <2>2. TaskType'
    BY <1>4 DEF LabelMissing, Goes, Applying, TaskType
  <2>3. ClockType'
    BY <1>4, Bounds DEF LabelMissing, Goes, Applying, ClockType
  <2>4. ClicksType'
    <3>1. Later
      BY <1>4 DEF LabelMissing, Goes, Applying, Later
    <3> QED
      BY <3>1, LaterClicks
  <2>5. ProgramType'
    BY <1>4 DEF LabelMissing, Goes, Applying, ProgramType, Widgets
  <2>6. FaultType'
    BY <1>4, Bounds DEF LabelMissing, Goes, Applying, FaultType
  <2> QED
    BY <2>1, <2>2, <2>3, <2>4, <2>5, <2>6
<1>5. CASE Applied
  <2>1. InputType'
    BY <1>5 DEF Applied, Goes, NextEntry, Applying, InputType
  <2>2. TaskType'
    <3>1. pc' = pc /\ result' = result /\ entry' \in {entry, entry + 1} /\ step' \in {"ampm", "enable", "expand"}
      BY <1>5 DEF Applied, Goes, NextEntry, Applying
    <3> QED
      BY <3>1 DEF TaskType
  <2>3. ClockType'
    BY <1>5, Bounds DEF Applied, Goes, NextEntry, Applying, ClockType
  <2>4. ClicksType'
    <3>1. Later
      BY <1>5 DEF Applied, Goes, NextEntry, Applying, Later
    <3> QED
      BY <3>1, LaterClicks
  <2>5. ProgramType'
    <3>1. UNCHANGED <<splash, menu, dialog, committed, alive>> /\ widgets' = Set
      BY <1>5 DEF Applied
    <3> QED
      BY <3>1, SetWidgets DEF TaskType, ProgramType
  <2>6. FaultType'
    BY <1>5, Bounds DEF Applied, Goes, NextEntry, Applying, FaultType
  <2> QED
    BY <2>1, <2>2, <2>3, <2>4, <2>5, <2>6
<1>6. CASE EntryFails
  <2>1. InputType'
    BY <1>6 DEF EntryFails, NextEntry, Commands, Applying, InputType
  <2>2. TaskType'
    BY <1>6 DEF EntryFails, NextEntry, Commands, Applying, TaskType
  <2>3. ClockType'
    BY <1>6, Bounds DEF EntryFails, NextEntry, Commands, Applying, ClockType
  <2>4. ClicksType'
    <3>1. Later
      BY <1>6 DEF EntryFails, NextEntry, Commands, Applying, Later
    <3> QED
      BY <3>1, LaterClicks
  <2>5. ProgramType'
    BY <1>6, SetWidgets DEF EntryFails, TaskType, ProgramType
  <2>6. FaultType'
    BY <1>6, Bounds DEF EntryFails, NextEntry, Commands, Applying, FaultType, TaskType
  <2> QED
    BY <2>1, <2>2, <2>3, <2>4, <2>5, <2>6
<1>7. CASE AllApplied
  <2>1. InputType'
    BY <1>7 DEF AllApplied, Closes, InputType
  <2>2. TaskType'
    BY <1>7 DEF AllApplied, Closes, TaskType
  <2>3. ClockType'
    BY <1>7, Bounds DEF AllApplied, Closes, ClockType
  <2>4. ClicksType'
    <3>1. Later
      BY <1>7 DEF AllApplied, Closes, Later
    <3> QED
      BY <3>1, LaterClicks
  <2>5. ProgramType'
    BY <1>7 DEF AllApplied, Closes, ProgramType, Widgets
  <2>6. FaultType'
    BY <1>7, Bounds DEF AllApplied, Closes, FaultType
  <2> QED
    BY <2>1, <2>2, <2>3, <2>4, <2>5, <2>6
<1>8. CASE HookEnds
  <2>1. InputType'
    BY <1>8 DEF HookEnds, Closes, InputType
  <2>2. TaskType'
    BY <1>8 DEF HookEnds, Closes, TaskType
  <2>3. ClockType'
    BY <1>8, Bounds DEF HookEnds, Closes, ClockType
  <2>4. ClicksType'
    <3>1. Later
      BY <1>8 DEF HookEnds, Closes, Later
    <3> QED
      BY <3>1, LaterClicks
  <2>5. ProgramType'
    BY <1>8 DEF HookEnds, Closes, ProgramType, Widgets
  <2>6. FaultType'
    BY <1>8, Bounds DEF HookEnds, Closes, FaultType
  <2> QED
    BY <2>1, <2>2, <2>3, <2>4, <2>5, <2>6
<1>9. CASE Gone
  <2>1. InputType'
    BY <1>9 DEF Gone, Ends, InputType
  <2>2. TaskType'
    BY <1>9 DEF Gone, Ends, TaskType
  <2>3. ClockType'
    BY <1>9, Bounds DEF Gone, Ends, ClockType
  <2>4. ClicksType'
    <3>1. Later
      BY <1>9 DEF Gone, Commands, Applying, Ends, Later
    <3> QED
      BY <3>1, LaterClicks
  <2>5. ProgramType'
    BY <1>9 DEF Gone, Ends, ProgramType, Widgets
  <2>6. FaultType'
    BY <1>9, Bounds DEF Gone, Ends, FaultType
  <2> QED
    BY <2>1, <2>2, <2>3, <2>4, <2>5, <2>6
<1> QED
  BY <1>1, <1>2, <1>3, <1>4, <1>5, <1>6, <1>7, <1>8, <1>9 DEF ApplyAll

(* OK. *)
LEMMA ClosingInv ==
  ASSUME SettingsInv, Closing
  PROVE  SettingsInv'
<1> USE DEF SettingsInv, input, task, program, faults
<1>1. CASE OkClicked
  <2>1. InputType'
    BY <1>1 DEF OkClicked, Ends, InputType
  <2>2. TaskType'
    BY <1>1 DEF OkClicked, Ends, TaskType
  <2>3. ClockType'
    BY <1>1, Bounds DEF OkClicked, Ends, ClockType
  <2>4. ClicksType'
    BY <1>1, AppendClick DEF OkClicked, Ends, ClicksType
  <2>5. ProgramType'
    BY <1>1 DEF OkClicked, Ends, ProgramType, Widgets
  <2>6. FaultType'
    BY <1>1, Bounds DEF OkClicked, Ends, FaultType
  <2> QED
    BY <2>1, <2>2, <2>3, <2>4, <2>5, <2>6
<1>2. CASE OkFails
  <2>1. InputType'
    BY <1>2 DEF OkFails, Ends, InputType
  <2>2. TaskType'
    BY <1>2 DEF OkFails, Ends, TaskType
  <2>3. ClockType'
    BY <1>2, Bounds DEF OkFails, Ends, ClockType
  <2>4. ClicksType'
    <3>1. Later
      BY <1>2 DEF OkFails, Ends, Later
    <3> QED
      BY <3>1, LaterClicks
  <2>5. ProgramType'
    BY <1>2 DEF OkFails, Ends, ProgramType, Widgets
  <2>6. FaultType'
    BY <1>2, Bounds DEF OkFails, Ends, FaultType
  <2> QED
    BY <2>1, <2>2, <2>3, <2>4, <2>5, <2>6
<1> QED
  BY <1>1, <1>2 DEF Closing

(* A cancellation, with a click in flight or without. *)
LEMMA CancelledInv ==
  ASSUME SettingsInv, Cancelled
  PROVE  SettingsInv'
<1> USE DEF SettingsInv, input, task, program, faults
<1>1. CASE Cancelled
  <2>1. InputType'
    BY <1>1 DEF Cancelled, Closes, Ends, InputType
  <2>2. TaskType'
    BY <1>1 DEF Cancelled, Closes, Ends, TaskType
  <2>3. ClockType'
    BY <1>1, Bounds DEF Cancelled, Closes, Ends, ClockType
  <2>4. ClicksType'
    <3>1. Len(clicks) \in Nat /\ (pc # "done" => Len(clicks) <= 1)
      BY DEF ClicksType, TaskType
    <3>2. pc' \in {"closing", "done"} /\ (pc' = "closing" => pc \in {"apply", "hook"})
      BY <1>1 DEF Cancelled, Closes, Ends
    <3>3. CASE UNCHANGED clicks
      BY <1>1, <3>1, <3>2, <3>3 DEF ClicksType, TaskType
    <3>4. CASE \E c \in {"menu", "ok"} : clicks' = Append(clicks, c) /\ pc \in {"navigate", "closing"}
      <4>1. pc' = "done"
        BY <1>1, <3>2, <3>4
      <4> QED
        BY <1>1, <3>1, <3>4, <4>1, AppendClick DEF Cancelled, ClicksType
    <3> QED
      BY <1>1, <3>3, <3>4 DEF Cancelled
  <2>5. ProgramType'
    BY <1>1, SetWidgets DEF Cancelled, TaskType, ProgramType
  <2>6. FaultType'
    BY <1>1, Bounds DEF Cancelled, Closes, Ends, FaultType
  <2> QED
    BY <2>1, <2>2, <2>3, <2>4, <2>5, <2>6
<1> QED
  BY <1>1

(* The application and its user. *)
LEMMA ApplicationInv ==
  ASSUME SettingsInv, SplashCloses \/ MenuChanges \/ ClickLands \/ UserCloses \/ AgentDies
  PROVE  SettingsInv'
<1> USE DEF SettingsInv, input, task, program, faults
<1>1. CASE SplashCloses
  <2>1. InputType'
    BY <1>1 DEF SplashCloses, InputType
  <2>2. TaskType'
    BY <1>1 DEF SplashCloses, TaskType
  <2>3. ClockType'
    BY <1>1, Bounds DEF SplashCloses, ClockType
  <2>4. ClicksType'
    <3>1. Later
      BY <1>1 DEF SplashCloses, Later
    <3> QED
      BY <3>1, LaterClicks
  <2>5. ProgramType'
    BY <1>1 DEF SplashCloses, ProgramType, Widgets
  <2>6. FaultType'
    BY <1>1, Bounds DEF SplashCloses, FaultType
  <2> QED
    BY <2>1, <2>2, <2>3, <2>4, <2>5, <2>6
<1>2. CASE MenuChanges
  <2>1. InputType'
    BY <1>2 DEF MenuChanges, InputType
  <2>2. TaskType'
    BY <1>2 DEF MenuChanges, TaskType
  <2>3. ClockType'
    BY <1>2, Bounds DEF MenuChanges, ClockType
  <2>4. ClicksType'
    <3>1. Later
      BY <1>2 DEF MenuChanges, Later
    <3> QED
      BY <3>1, LaterClicks
  <2>5. ProgramType'
    BY <1>2 DEF MenuChanges, ProgramType, Widgets
  <2>6. FaultType'
    BY <1>2, Bounds DEF MenuChanges, FaultType
  <2> QED
    BY <2>1, <2>2, <2>3, <2>4, <2>5, <2>6
<1>3. CASE ClickLands
  <2>1. InputType'
    BY <1>3 DEF ClickLands, InputType
  <2>2. TaskType'
    BY <1>3 DEF ClickLands, TaskType
  <2>3. ClockType'
    BY <1>3, Bounds DEF ClickLands, ClockType
  <2>4. ClicksType'
    <3>1. clicks \in Seq({"menu", "ok"}) /\ clicks # <<>> /\ clicks' = Tail(clicks) /\ pc' = pc
      BY <1>3 DEF ClickLands, ClicksType
    <3>2. Tail(clicks) \in Seq({"menu", "ok"}) /\ Len(Tail(clicks)) = Len(clicks) - 1
          /\ Len(clicks) \in Nat /\ Len(clicks) # 0
      BY <3>1, TailClick
    <3> QED
      BY <3>1, <3>2 DEF ClicksType
  <2>5. ProgramType'
    BY <1>3 DEF ClickLands, ProgramType, Widgets
  <2>6. FaultType'
    BY <1>3, Bounds DEF ClickLands, FaultType
  <2> QED
    BY <2>1, <2>2, <2>3, <2>4, <2>5, <2>6
<1>4. CASE UserCloses
  <2>1. InputType'
    BY <1>4 DEF UserCloses, InputType
  <2>2. TaskType'
    BY <1>4 DEF UserCloses, TaskType
  <2>3. ClockType'
    BY <1>4, Bounds DEF UserCloses, ClockType
  <2>4. ClicksType'
    <3>1. Later
      BY <1>4 DEF UserCloses, Later
    <3> QED
      BY <3>1, LaterClicks
  <2>5. ProgramType'
    BY <1>4 DEF UserCloses, ProgramType, Widgets
  <2>6. FaultType'
    BY <1>4, Bounds DEF UserCloses, FaultType
  <2> QED
    BY <2>1, <2>2, <2>3, <2>4, <2>5, <2>6
<1>5. CASE AgentDies
  <2>1. InputType'
    BY <1>5 DEF AgentDies, InputType
  <2>2. TaskType'
    BY <1>5 DEF AgentDies, TaskType
  <2>3. ClockType'
    BY <1>5, Bounds DEF AgentDies, ClockType
  <2>4. ClicksType'
    <3>1. Later
      BY <1>5 DEF AgentDies, Later
    <3> QED
      BY <3>1, LaterClicks
  <2>5. ProgramType'
    BY <1>5 DEF AgentDies, ProgramType, Widgets
  <2>6. FaultType'
    BY <1>5, Bounds DEF AgentDies, FaultType
  <2> QED
    BY <2>1, <2>2, <2>3, <2>4, <2>5, <2>6
<1> QED
  BY <1>1, <1>2, <1>3, <1>4, <1>5

LEMMA NextInv == SettingsInv /\ [Next]_vars => SettingsInv'
<1> SUFFICES ASSUME SettingsInv, [Next]_vars PROVE SettingsInv'
  OBVIOUS
<1>1. CASE UNCHANGED vars
  BY <1>1 DEF SettingsInv, InputType, TaskType, ClockType, ClicksType, ProgramType,
     FaultType, vars, input, task, program, faults
<1>2. CASE Next
  BY <1>2, OpeningInv, ApplyInv, ClosingInv, CancelledInv, ApplicationInv DEF Next, Phase
<1> QED
  BY <1>1, <1>2

(* The settings phase retries the menu no longer than its deadline, clicks *)
(* the menu item and OK at most once each, and its variables keep to their *)
(* types, whatever fails and is cancelled on the way.                      *)
THEOREM TypeCorrect == Spec => []TypeOK
<1> QED
  BY InitInv, NextInv, InvImpliesType, PTL DEF Spec

-----------------------------------------------------------------------------
(* The settings file and the configuration never change, and with them the *)
(* entries.                                                                *)
LEMMA InputStays == [Next]_vars => UNCHANGED input
<1> USE DEF vars, input, task, program, faults
<1>1. Opening => UNCHANGED input
  BY DEF Opening, Start, SplashClosed, WaitTimesOut, MenuMissing, MenuDisabled, MenuClicked,
     MenuFails, DialogOpened
<1>2. ApplyAll => UNCHANGED input
  BY DEF ApplyAll, Skipped, Refused, Expanded, LabelMissing, Applied, EntryFails,
     AllApplied, HookEnds, Gone
<1>3. Closing \/ Cancelled => UNCHANGED input
  BY DEF Closing, OkClicked, OkFails, Cancelled
<1>4. SplashCloses \/ MenuChanges \/ ClickLands \/ UserCloses \/ AgentDies => UNCHANGED input
  BY DEF SplashCloses, MenuChanges, ClickLands, UserCloses, AgentDies
<1> QED
  BY <1>1, <1>2, <1>3, <1>4 DEF Next, Phase

LEMMA EntriesStay ==
  ASSUME UNCHANGED input
  PROVE  Merged' = Merged /\ Entries' = Entries /\ \A e : ValueOf(e)' = ValueOf(e)
<1>1. user' = user /\ config' = config
  BY DEF input
<1>2. Merged' = Merged
  <2>1. \A key : Overriding(key)' = Overriding(key)
    BY <1>1 DEF Overriding
  <2>2. \A key : LastOf(key)' = LastOf(key)
    BY <1>1, <2>1 DEF LastOf
  <2>3. SelectSeq(user, IsAdded)' = SelectSeq(user, IsAdded)
    BY <1>1, Zenon
  <2> QED
    BY <2>1, <2>2, <2>3, Zenon DEF Merged
<1>3. \A e : ValueOf(e)' = ValueOf(e)
  BY <1>1 DEF ValueOf
<1> QED
  BY <1>2, <1>3 DEF Entries

LEMMA EntriesNumbered == Len(Merged) \in Nat /\ \A i \in Entries : i \in Nat /\ i >= 1
<1>1. Len(Merged) \in Nat
  OBVIOUS
<1> QED
  BY <1>1 DEF Entries

(* The clicks that are on their way. *)
LEMMA ClickAppended ==
  ASSUME clicks \in Seq({"menu", "ok"}), NEW c \in {"menu", "ok"}
  PROVE  ToSet(Append(clicks, c)) = ToSet(clicks) \cup {c}
<1>1. /\ Len(clicks) \in Nat /\ DOMAIN clicks = 1..Len(clicks)
      /\ DOMAIN Append(clicks, c) = 1..(Len(clicks) + 1)
      /\ Append(clicks, c)[Len(clicks) + 1] = c
      /\ \A i \in 1..Len(clicks) : Append(clicks, c)[i] = clicks[i]
  OBVIOUS
<1>2. \A i \in 1..(Len(clicks) + 1) : i \in 1..Len(clicks) \/ i = Len(clicks) + 1
  BY <1>1
<1>3. Len(clicks) + 1 \in 1..(Len(clicks) + 1) /\ 1..Len(clicks) \subseteq 1..(Len(clicks) + 1)
  BY <1>1
<1> QED
  BY <1>1, <1>2, <1>3 DEF ToSet

LEMMA ClickTaken ==
  ASSUME clicks \in Seq({"menu", "ok"}), clicks # <<>>
  PROVE  /\ ToSet(Tail(clicks)) \subseteq ToSet(clicks)
         /\ ToSet(clicks) \subseteq ToSet(Tail(clicks)) \cup {Head(clicks)}
<1>1. /\ Len(clicks) \in Nat \ {0} /\ DOMAIN clicks = 1..Len(clicks) /\ Head(clicks) = clicks[1]
      /\ DOMAIN Tail(clicks) = 1..(Len(clicks) - 1)
      /\ \A i \in 1..(Len(clicks) - 1) : Tail(clicks)[i] = clicks[i + 1]
  OBVIOUS
<1>2. \A i \in 1..(Len(clicks) - 1) : i + 1 \in 1..Len(clicks)
  BY <1>1
<1>3. \A i \in 1..Len(clicks) : i # 1 => i - 1 \in 1..(Len(clicks) - 1) /\ (i - 1) + 1 = i
  BY <1>1
<1>4. ToSet(Tail(clicks)) \subseteq ToSet(clicks)
  BY <1>1, <1>2 DEF ToSet
<1>5. \A i \in 1..Len(clicks) : i # 1 => clicks[i] = Tail(clicks)[i - 1]
  BY <1>1, <1>3
<1>6. ToSet(clicks) \subseteq ToSet(Tail(clicks)) \cup {Head(clicks)}
  <2> SUFFICES ASSUME NEW i \in 1..Len(clicks)
               PROVE  clicks[i] \in ToSet(Tail(clicks)) \/ clicks[i] = Head(clicks)
    BY <1>1 DEF ToSet
  <2>1. CASE i = 1
    BY <1>1, <2>1
  <2>2. CASE i # 1
    BY <1>1, <1>3, <1>5, <2>2 DEF ToSet
  <2> QED
    BY <2>1, <2>2
<1> QED
  BY <1>4, <1>6

-----------------------------------------------------------------------------
(* Where the phase is, what it has seen of the dialog, and whether its OK  *)
(* is on the way.                                                          *)
PhaseInv ==
  /\ pc \in {"start", "splash", "navigate", "waitOpened", "apply", "hook"} => result = "none"
  /\ pc = "closing" => result \in {"ok", "failed", "cancelled"}
  /\ pc \in {"apply", "hook", "closing"} => dialog # "none"
  /\ pc # "done" => "ok" \notin ToSet(clicks)
  /\ "ok" \in ToSet(clicks) => dialog # "none"

(* How it ends.                                                            *)
EndInv ==
  pc = "done" =>
    \/ result \in {"ok", "failed", "cancelled"} /\ (dialog = "closed" \/ "ok" \in ToSet(clicks))
    \/ result = "gone" /\ (dialog = "closed" \/ ~alive)
    \/ result \in {"nothing", "timeout", "notFound", "abandoned", "unconfirmed"}

(* The entry i is what the widgets w show.                                 *)
ShownBy(i, w) ==
  \/ Merged[i].action = "toggle" /\ i \in w.toggles
  \/ Merged[i].action # "toggle" /\ w.radio >= i

(* The entries are applied in their order.                                 *)
OrderInv ==
  /\ entry >= 1
  /\ pc \in {"start", "splash", "navigate", "waitOpened"} => step = "expand"
  /\ widgets.radio <= entry
  /\ pc = "apply" /\ step \in {"type", "typeOther", "ampm", "enable"}
       => entry \in Entries /\ Current.action # "toggle"
  /\ pc = "apply" /\ step = "toggle" => entry \in Entries /\ Current.action = "toggle"
  /\ \A i \in Entries \ spoiled :
       i < entry /\ ValueOf(Merged[i]) = "valid" => ShownBy(i, widgets)

(* A phase is complete when it has been through all entries, and what it   *)
(* saves is what the widgets show.                                         *)
SavedInv ==
  /\ pc = "hook" \/ result \in {"ok", "failed"} => entry \notin Entries
  /\ Saved => pc = "done" /\ committed = widgets

(* OK is clicked last, and the dialog does not close by itself.            *)
LEMMA PhaseStep ==
  ASSUME SettingsInv, PhaseInv, EndInv, [Next]_vars
  PROVE  PhaseInv' /\ EndInv'
<1> USE DEF vars, input, task, program, faults
<1>1. /\ clicks \in Seq({"menu", "ok"})
      /\ pc \in {"start", "splash", "navigate", "waitOpened", "apply", "hook", "closing", "done"}
      /\ dialog \in {"none", "open", "closed"} /\ alive \in BOOLEAN
  BY DEF SettingsInv, ClicksType, TaskType, ProgramType
<1>2. CASE Opening
  <2>1. CASE MenuClicked
    <3>1. ToSet(clicks') = ToSet(clicks) \cup {"menu"}
      BY <1>1, <2>1, ClickAppended DEF MenuClicked
    <3> QED
      BY <2>1, <3>1 DEF MenuClicked, PhaseInv, EndInv
  <2>2. CASE ~MenuClicked
    <3>1. /\ pc \in {"start", "splash", "navigate", "waitOpened"}
          /\ UNCHANGED <<dialog, clicks, alive>>
          /\ \/ pc' = "done" /\ result' \in {"nothing", "timeout", "notFound"}
             \/ pc' \in {"splash", "navigate", "waitOpened"} /\ UNCHANGED result
             \/ pc' = "apply" /\ dialog # "none" /\ UNCHANGED result
      BY <1>2, <2>2 DEF Opening, Start, SplashClosed, WaitTimesOut, MenuMissing, MenuDisabled,
         MenuFails, DialogOpened, Ends
    <3> QED
      BY <3>1 DEF PhaseInv, EndInv
  <2> QED
    BY <2>1, <2>2
<1>3. CASE ApplyAll
  <2>1. /\ UNCHANGED <<dialog, clicks, alive>> /\ pc \in {"navigate", "apply", "hook", "closing"}
        /\ \/ pc = "apply" /\ pc' = "apply" /\ UNCHANGED result
           \/ pc = "apply" /\ pc' = "hook" /\ UNCHANGED result
           \/ pc \in {"apply", "hook"} /\ pc' = "closing" /\ result' \in {"ok", "failed"}
           \/ /\ pc' = "done" /\ result' = "gone"
              /\ pc = "navigate" => ~alive
              /\ ~alive \/ dialog = "closed"
    BY <1>3 DEF ApplyAll, Skipped, Refused, Expanded, LabelMissing, Applied, EntryFails,
       AllApplied, HookEnds, Gone, Commands, Applying, NextEntry, Goes, Closes, Ends
  <2> QED
    BY <2>1 DEF PhaseInv, EndInv
<1>4. CASE OkClicked
  <2>1. ToSet(clicks') = ToSet(clicks) \cup {"ok"}
    BY <1>1, <1>4, ClickAppended DEF OkClicked
  <2> QED
    BY <1>4, <2>1 DEF OkClicked, Ends, PhaseInv, EndInv
<1>5. CASE OkFails
  BY <1>5 DEF OkFails, Ends, PhaseInv, EndInv
<1>6. CASE Cancelled
  <2>1. /\ pc \notin {"start", "done"} /\ UNCHANGED <<dialog, alive>>
        /\ \/ pc \in {"apply", "hook"} /\ pc' = "closing" /\ result' = "cancelled"
           \/ pc \notin {"apply", "hook"} /\ pc' = "done" /\ result' \in {"unconfirmed", "abandoned"}
    BY <1>6 DEF Cancelled, Closes, Ends
  <2>2. CASE UNCHANGED clicks
    BY <2>1, <2>2 DEF PhaseInv, EndInv
  <2>3. CASE pc = "navigate" /\ clicks' = Append(clicks, "menu")
    <3>1. ToSet(clicks') = ToSet(clicks) \cup {"menu"}
      BY <1>1, <2>3, ClickAppended
    <3> QED
      BY <2>1, <2>3, <3>1 DEF PhaseInv, EndInv
  <2>4. CASE pc = "closing" /\ dialog = "open" /\ clicks' = Append(clicks, "ok")
    <3>1. ToSet(clicks') = ToSet(clicks) \cup {"ok"}
      BY <1>1, <2>4, ClickAppended
    <3> QED
      BY <2>1, <2>4, <3>1 DEF PhaseInv, EndInv
  <2> QED
    BY <1>6, <2>2, <2>3, <2>4 DEF Cancelled
<1>7. CASE ClickLands
  <2>1. /\ clicks # <<>> /\ alive /\ clicks' = Tail(clicks) /\ UNCHANGED <<pc, result, alive>>
        /\ dialog' = IF Head(clicks) = "menu" /\ menu = "enabled" /\ dialog = "none" THEN "open"
                     ELSE IF Head(clicks) = "ok" /\ dialog = "open" THEN "closed" ELSE dialog
    BY <1>7 DEF ClickLands
  <2>2. /\ ToSet(clicks') \subseteq ToSet(clicks)
        /\ ToSet(clicks) \subseteq ToSet(clicks') \cup {Head(clicks)}
    BY <1>1, <2>1, ClickTaken
  <2>3. dialog # "none" => dialog' # "none"
    BY <2>1
  <2>4. dialog = "closed" => dialog' = "closed"
    BY <2>1
  <2>5. "ok" \in ToSet(clicks) /\ "ok" \notin ToSet(clicks') => dialog' = "closed"
    BY <1>1, <2>1, <2>2 DEF PhaseInv
  <2> QED
    BY <2>1, <2>2, <2>3, <2>4, <2>5 DEF PhaseInv, EndInv
<1>8. CASE SplashCloses \/ MenuChanges \/ UserCloses \/ AgentDies \/ UNCHANGED vars
  <2>1. /\ UNCHANGED <<pc, result, clicks>> /\ (~alive => ~alive')
        /\ dialog' = dialog \/ (dialog = "open" /\ dialog' = "closed")
    BY <1>8 DEF SplashCloses, MenuChanges, UserCloses, AgentDies
  <2> QED
    BY <2>1 DEF PhaseInv, EndInv
<1> QED
  BY <1>2, <1>3, <1>4, <1>5, <1>6, <1>7, <1>8 DEF Next, Phase, Closing

(* A step that applies nothing. *)
LEMMA NothingApplied ==
  ASSUME OrderInv, UNCHANGED <<input, entry, step, widgets, spoiled>>,
         pc' = "apply" => pc = "apply" \/ step = "expand",
         pc' \in {"start", "splash", "navigate", "waitOpened"} =>
           pc \in {"start", "splash", "navigate", "waitOpened"}
  PROVE  OrderInv'
<1>1. Merged' = Merged /\ Entries' = Entries /\ Current' = Current
      /\ \A e : ValueOf(e)' = ValueOf(e)
  BY EntriesStay DEF Current
<1>2. \A i : ShownBy(i, widgets)' <=> ShownBy(i, widgets)
  BY <1>1 DEF ShownBy
<1> QED
  BY <1>1, <1>2 DEF OrderInv

(* On to the next entry: this one is applied, has no value, or is spoiled. *)
LEMMA EntryDone ==
  ASSUME SettingsInv, OrderInv, Applying, NextEntry, UNCHANGED input, spoiled \subseteq spoiled',
         widgets'.radio \in {widgets.radio, entry}, widgets.toggles \subseteq widgets'.toggles,
         \/ ValueOf(Current) # "valid"
         \/ entry \in spoiled'
         \/ ShownBy(entry, widgets')
  PROVE  OrderInv'
<1>1. Merged' = Merged /\ Entries' = Entries /\ (\A e : ValueOf(e)' = ValueOf(e))
  BY EntriesStay
<1>2. /\ entry \in Nat /\ entry' = entry + 1 /\ step' = "expand" /\ pc' = "apply"
      /\ widgets.radio \in Nat /\ widgets.radio <= entry /\ entry >= 1
  BY DEF SettingsInv, TaskType, ProgramType, Widgets, OrderInv, NextEntry, Applying
<1>3. ASSUME NEW i \in Entries, i \notin spoiled', i < entry', ValueOf(Merged[i]) = "valid"
      PROVE  ShownBy(i, widgets')
  <2>1. i \in Nat
    BY EntriesNumbered
  <2>2. CASE i = entry
    BY <1>3, <2>2 DEF Current
  <2>3. CASE i # entry
    <3>1. i < entry /\ i \in Entries \ spoiled
      BY <1>2, <1>3, <2>1, <2>3
    <3>2. ShownBy(i, widgets)
      BY <1>3, <3>1 DEF OrderInv
    <3>3. widgets.radio >= i => widgets'.radio >= i
      BY <1>2, <2>1, <3>1
    <3> QED
      BY <3>2, <3>3 DEF ShownBy
  <2> QED
    BY <2>2, <2>3
<1>4. \A i : ShownBy(i, widgets)' <=> ShownBy(i, widgets')
  BY <1>1 DEF ShownBy
<1>5. \A i \in Entries' \ spoiled' :
        i < entry' /\ ValueOf(Merged[i])' = "valid" => ShownBy(i, widgets)'
  <2> SUFFICES ASSUME NEW i \in Entries', i \notin spoiled', i < entry', ValueOf(Merged[i])' = "valid"
               PROVE  ShownBy(i, widgets)'
    OBVIOUS
  <2>1. ValueOf(Merged[i])' = ValueOf(Merged[i])
    BY <1>1 DEF ValueOf, input
  <2> QED
    BY <1>1, <1>3, <1>4, <2>1
<1>6. entry' >= 1 /\ widgets'.radio <= entry'
  BY <1>2
<1> QED
  BY <1>2, <1>5, <1>6 DEF OrderInv

(* The phase is over, with what a last command has made of the widgets. *)
LEMMA OrderAtEnd ==
  ASSUME OrderInv, UNCHANGED <<input, entry, step, spoiled>>, pc' \in {"closing", "done"},
         widgets.radio \in Nat, entry \in Nat, widgets.radio <= entry,
         widgets'.radio \in {widgets.radio, entry}, widgets.toggles \subseteq widgets'.toggles
  PROVE  OrderInv'
<1>1. Merged' = Merged /\ Entries' = Entries /\ \A e : ValueOf(e)' = ValueOf(e)
  BY EntriesStay
<1>2. \A i \in Entries : ShownBy(i, widgets) => ShownBy(i, widgets)'
  <2> SUFFICES ASSUME NEW i \in Entries, ShownBy(i, widgets) PROVE ShownBy(i, widgets)'
    OBVIOUS
  <2>1. i \in Nat
    BY EntriesNumbered
  <2>2. widgets.radio >= i => widgets'.radio >= i
    BY <2>1
  <2> QED
    BY <1>1, <2>2 DEF ShownBy
<1>3. entry' >= 1 /\ widgets'.radio <= entry'
  BY DEF OrderInv
<1>4. \A i \in Entries' \ spoiled' :
        i < entry' /\ ValueOf(Merged[i])' = "valid" => ShownBy(i, widgets)'
  <2> SUFFICES ASSUME NEW i \in Entries', i \notin spoiled', i < entry', ValueOf(Merged[i])' = "valid"
               PROVE  ShownBy(i, widgets)'
    OBVIOUS
  <2>1. ValueOf(Merged[i])' = ValueOf(Merged[i])
    BY <1>1 DEF ValueOf, input
  <2> QED
    BY <1>1, <1>2, <2>1 DEF OrderInv
<1> QED
  BY <1>3, <1>4 DEF OrderInv

(* On to the next command of the same entry. *)
LEMMA EntryGoesOn ==
  ASSUME SettingsInv, OrderInv, Applying, NEW s, Goes(s), UNCHANGED <<input, spoiled>>,
         widgets'.radio = widgets.radio, widgets'.toggles = widgets.toggles,
         s \in {"type", "typeOther", "ampm", "enable"} => Current.action # "toggle",
         s = "toggle" => Current.action = "toggle"
  PROVE  OrderInv'
<1>1. Merged' = Merged /\ Entries' = Entries /\ (\A e : ValueOf(e)' = ValueOf(e))
  BY EntriesStay
<1>2. pc' = "apply" /\ entry' = entry /\ step' = s /\ entry \in Entries
  BY DEF Goes, Applying
<1>3. Current' = Current
  BY <1>1, <1>2 DEF Current
<1>4. \A i : ShownBy(i, widgets)' <=> ShownBy(i, widgets)
  BY <1>1 DEF ShownBy
<1> QED
  BY <1>1, <1>2, <1>3, <1>4 DEF OrderInv

LEMMA OrderStep ==
  ASSUME SettingsInv, OrderInv, [Next]_vars
  PROVE  OrderInv'
<1> USE DEF vars, input, task, program, faults
<1>0. UNCHANGED input
  BY InputStays
<1>1. CASE Skipped
  BY <1>0, <1>1, EntryDone DEF Skipped
<1>2. CASE Refused
  <2>1. spoiled' = spoiled \cup {entry} /\ Applying /\ NextEntry /\ UNCHANGED widgets
    BY <1>2 DEF Refused
  <2> QED
    BY <1>0, <2>1, EntryDone
<1>3. CASE Expanded
  <2>1. /\ Applying /\ UNCHANGED <<widgets, spoiled>>
        /\ Goes(IF Current.action = "toggle" THEN "toggle" ELSE "type")
    BY <1>3 DEF Expanded
  <2>2. CASE Current.action = "toggle"
    <3>1. Goes("toggle")
      BY <2>1, <2>2
    <3> QED
      BY <1>0, <2>1, <2>2, <3>1, EntryGoesOn
  <2>3. CASE Current.action # "toggle"
    <3>1. Goes("type")
      BY <2>1, <2>3
    <3> QED
      BY <1>0, <2>1, <2>3, <3>1, EntryGoesOn
  <2> QED
    BY <2>2, <2>3
<1>4. CASE LabelMissing
  <2>1. /\ Applying /\ UNCHANGED <<widgets, spoiled>> /\ Goes("typeOther") /\ step = "type"
    BY <1>4 DEF LabelMissing
  <2>2. Current.action # "toggle"
    BY <2>1 DEF OrderInv, Applying
  <2> QED
    BY <1>0, <2>1, <2>2, EntryGoesOn
<1>5. CASE Applied
  <2>1. Applying /\ UNCHANGED spoiled /\ widgets' = Set
    BY <1>5 DEF Applied
  <2>2. /\ widgets'.radio = IF step = "enable" THEN entry ELSE widgets.radio
        /\ widgets'.toggles = IF step = "toggle" THEN widgets.toggles \cup {entry} ELSE widgets.toggles
        /\ entry \in Nat
    BY <2>1, SetWidgets DEF SettingsInv, ProgramType, TaskType
  <2>3. CASE LabelFound /\ Goes("ampm")
    <3>1. step \in {"type", "typeOther"}
      BY <2>3 DEF LabelFound
    <3>2. Current.action # "toggle"
      BY <2>1, <3>1 DEF OrderInv, Applying
    <3> QED
      BY <1>0, <2>1, <2>2, <2>3, <3>1, <3>2, EntryGoesOn
  <2>4. CASE step = "ampm" /\ Goes("enable")
    <3>1. Current.action # "toggle"
      BY <2>1, <2>4 DEF OrderInv, Applying
    <3> QED
      BY <1>0, <2>1, <2>2, <2>4, <3>1, EntryGoesOn
  <2>5. CASE step = "enable" /\ NextEntry
    <3>1. Current.action # "toggle" /\ widgets'.radio >= entry
      BY <2>1, <2>2, <2>5 DEF OrderInv, Applying
    <3>2. ShownBy(entry, widgets')
      BY <3>1 DEF ShownBy, Current
    <3> QED
      BY <1>0, <2>1, <2>2, <2>5, <3>2, EntryDone
  <2>6. CASE step = "toggle" /\ NextEntry
    <3>1. Current.action = "toggle" /\ entry \in widgets'.toggles
      BY <2>1, <2>2, <2>6 DEF OrderInv, Applying
    <3>2. ShownBy(entry, widgets')
      BY <3>1 DEF ShownBy, Current
    <3> QED
      BY <1>0, <2>1, <2>2, <2>6, <3>2, EntryDone
  <2> QED
    BY <1>5, <2>3, <2>4, <2>5, <2>6 DEF Applied
<1>6. CASE EntryFails
  <2>1. /\ spoiled' = spoiled \cup {entry} /\ Applying /\ NextEntry
        /\ widgets' \in {widgets, Set}
    BY <1>6 DEF EntryFails, Commands
  <2>2. /\ widgets'.radio \in {widgets.radio, entry}
        /\ widgets.toggles \subseteq widgets'.toggles
    BY <2>1, SetWidgets DEF SettingsInv, ProgramType, TaskType
  <2> QED
    BY <1>0, <2>1, <2>2, EntryDone
<1>8. CASE Cancelled
  <2>1. /\ pc' \in {"closing", "done"} /\ UNCHANGED <<entry, step, spoiled>>
        /\ widgets' \in {widgets, Set}
    BY <1>8 DEF Cancelled, Closes, Ends
  <2>2. /\ widgets'.radio \in {widgets.radio, entry}
        /\ widgets.toggles \subseteq widgets'.toggles
        /\ widgets.radio \in Nat /\ widgets.radio <= entry /\ entry \in Nat
    BY <2>1, SetWidgets DEF SettingsInv, ProgramType, TaskType, OrderInv, Widgets
  <2> QED
    BY <1>0, <2>1, <2>2, OrderAtEnd
<1>7. CASE Opening \/ AllApplied \/ HookEnds \/ Gone \/ Closing \/ SplashCloses
           \/ MenuChanges \/ ClickLands \/ UserCloses \/ AgentDies \/ UNCHANGED vars
  <2>1. UNCHANGED <<entry, step, widgets, spoiled>>
    BY <1>7 DEF Opening, Start, SplashClosed, WaitTimesOut, MenuMissing, MenuDisabled,
       MenuClicked, MenuFails, DialogOpened, AllApplied, HookEnds, Gone, Closing, OkClicked,
       OkFails, SplashCloses, MenuChanges, ClickLands, UserCloses, AgentDies,
       Ends, Closes
  <2>2. \/ UNCHANGED pc
        \/ pc' \in {"hook", "closing", "done"}
        \/ pc \in {"start", "splash", "navigate", "waitOpened"}
    BY <1>7 DEF Opening, Start, SplashClosed, WaitTimesOut, MenuMissing, MenuDisabled,
       MenuClicked, MenuFails, DialogOpened, AllApplied, HookEnds, Gone, Closing, OkClicked,
       OkFails, SplashCloses, MenuChanges, ClickLands, UserCloses, AgentDies,
       Ends, Closes
  <2>3. pc \in {"start", "splash", "navigate", "waitOpened"} => step = "expand"
    BY DEF OrderInv
  <2> QED
    BY <1>0, <2>1, <2>2, <2>3, NothingApplied
<1> QED
  BY <1>1, <1>2, <1>3, <1>4, <1>5, <1>6, <1>7, <1>8 DEF Next, Phase, ApplyAll

LEMMA SavedStep ==
  ASSUME SettingsInv, PhaseInv, SavedInv, [Next]_vars
  PROVE  SavedInv'
<1> USE DEF vars, input, task, program, faults
<1>1. Entries' = Entries
  BY InputStays, EntriesStay
<1>2. (Saved' => pc' = "done" /\ committed' = widgets')
  <2>1. CASE ClickLands
    <3>1. UNCHANGED <<pc, widgets>> /\ clicks # <<>> /\ clicks \in Seq({"menu", "ok"})
      BY <2>1 DEF ClickLands, SettingsInv, ClicksType
    <3>2. committed' = committed \/ (committed' = widgets /\ Head(clicks) = "ok")
      BY <2>1 DEF ClickLands
    <3>3. Head(clicks) \in ToSet(clicks)
      BY <3>1 DEF ToSet
    <3> QED
      BY <3>1, <3>2, <3>3 DEF SavedInv, PhaseInv, Saved, Unsaved, Fresh
  <2>2. CASE ~ClickLands
    <3>1. UNCHANGED committed
      BY <2>2 DEF Next, Phase, Opening, Start, SplashClosed, WaitTimesOut, MenuMissing,
         MenuDisabled, MenuClicked, MenuFails, DialogOpened, ApplyAll, Skipped, Refused,
         Expanded, LabelMissing, Applied, EntryFails, AllApplied, HookEnds, Gone, Closing,
         OkClicked, OkFails, Cancelled, SplashCloses, MenuChanges, UserCloses, AgentDies
    <3>2. pc = "done" => UNCHANGED <<pc, widgets>>
      BY <2>2 DEF Next, Phase, Opening, Start, SplashClosed, WaitTimesOut, MenuMissing,
         MenuDisabled, MenuClicked, MenuFails, DialogOpened, ApplyAll, Skipped, Refused,
         Expanded, LabelMissing, Applied, EntryFails, AllApplied, HookEnds, Gone, Closing,
         OkClicked, OkFails, Cancelled, SplashCloses, MenuChanges, UserCloses, AgentDies,
         Commands, Applying
    <3> QED
      BY <3>1, <3>2 DEF SavedInv, Saved, Unsaved, Fresh
  <2> QED
    BY <2>1, <2>2
<1>3. (pc' = "hook" \/ result' \in {"ok", "failed"}) => entry' \notin Entries
  <2>1. CASE AllApplied
    BY <2>1 DEF AllApplied, Closes
  <2>2. CASE HookEnds
    BY <2>2 DEF HookEnds, Closes, SavedInv
  <2>3. CASE ApplyAll /\ ~AllApplied /\ ~HookEnds
    <3>1. /\ pc \in {"apply", "navigate", "hook", "closing"}
          /\ \/ pc = "apply" /\ pc' = "apply" /\ UNCHANGED result
             \/ result' = "gone" /\ pc' = "done"
      BY <2>3 DEF ApplyAll, Skipped, Refused, Expanded, LabelMissing, Applied, EntryFails,
         Gone, Commands, Applying, NextEntry, Goes, Ends
    <3> QED
      BY <3>1 DEF PhaseInv
  <2>4. CASE Opening
    <3>1. /\ pc \in {"start", "splash", "navigate", "waitOpened"} /\ pc' # "hook"
          /\ result' = result \/ result' \in {"nothing", "timeout", "notFound"}
      BY <2>4 DEF Opening, Start, SplashClosed, WaitTimesOut, MenuMissing, MenuDisabled,
         MenuClicked, MenuFails, DialogOpened, Ends
    <3> QED
      BY <3>1 DEF PhaseInv
  <2>5. CASE Closing \/ Cancelled
    <3>1. /\ UNCHANGED entry /\ pc' # "hook"
          /\ result' = result \/ result' \in {"cancelled", "unconfirmed", "abandoned"}
      BY <2>5 DEF Closing, OkClicked, OkFails, Cancelled, Ends, Closes
    <3> QED
      BY <3>1 DEF SavedInv
  <2>6. CASE SplashCloses \/ MenuChanges \/ ClickLands \/ UserCloses \/ AgentDies \/ UNCHANGED vars
    <3>1. UNCHANGED <<pc, result, entry>>
      BY <2>6 DEF SplashCloses, MenuChanges, ClickLands, UserCloses, AgentDies
    <3> QED
      BY <3>1 DEF SavedInv
  <2> QED
    BY <2>1, <2>2, <2>3, <2>4, <2>5, <2>6 DEF Next, Phase
<1> QED
  BY <1>1, <1>2, <1>3 DEF SavedInv

-----------------------------------------------------------------------------
(* Whose time may go with the radio of the widgets w.                      *)
Times(w) == {w.radio} \cup FailedTimes(w.radio)

(* The time entry being applied has set its time before it selects its     *)
(* half of the day, and both before it selects its radio; until then they  *)
(* are its own, and otherwise the radio's or a failed entry's.             *)
TimeInv ==
  result \in {"none", "ok", "failed"} =>
    /\ pc = "apply" /\ step \in {"type", "typeOther", "ampm", "enable"}
         => Current.action \in TimeOf /\ ValueOf(Current) = "valid"
    /\ pc = "apply" /\ step \in {"ampm", "enable"} => widgets.time = entry
    /\ pc = "apply" /\ step = "enable" => widgets.ampm = entry
    /\ widgets.radio # 0 =>
         /\ \/ widgets.time \in Times(widgets)
            \/ pc = "apply" /\ step \in {"ampm", "enable"}
         /\ \/ widgets.ampm \in Times(widgets)
            \/ pc = "apply" /\ step = "enable"

LEMMA TimesGrow ==
  ASSUME UNCHANGED input, spoiled \subseteq spoiled', widgets'.radio = widgets.radio
  PROVE  Times(widgets) \subseteq Times(widgets)'
<1>1. Merged' = Merged /\ \A e : ValueOf(e)' = ValueOf(e)
  BY EntriesStay
<1>2. \A r : FailedTimes(r) \subseteq FailedTimes(r)'
  <2> SUFFICES ASSUME NEW r, NEW j \in FailedTimes(r) PROVE j \in FailedTimes(r)'
    OBVIOUS
  <2>1. ValueOf(Merged[j])' = ValueOf(Merged[j])
    BY <1>1 DEF ValueOf, input
  <2> QED
    BY <1>1, <2>1 DEF FailedTimes
<1>3. FailedTimes(widgets.radio)' = {j \in spoiled' : j > widgets.radio
        /\ Merged'[j].action \in TimeOf /\ ValueOf(Merged[j])' = "valid"}
  BY DEF FailedTimes
<1> QED
  BY <1>2, <1>3 DEF Times, FailedTimes

(* A time entry that fails is one whose time may go with the radio.        *)
LEMMA FailedIsTime ==
  ASSUME SettingsInv, OrderInv, UNCHANGED input, NEW e, e = entry, e \in spoiled',
         Current.action \in TimeOf, ValueOf(Current) = "valid",
         widgets'.radio \in {widgets.radio, e}
  PROVE  e \in Times(widgets)'
<1>1. e \in Nat /\ widgets.radio \in Nat /\ widgets.radio <= e
  BY DEF SettingsInv, TaskType, ProgramType, Widgets, OrderInv
<1>2. Merged' = Merged
  BY EntriesStay
<1>3. ValueOf(Merged[e])' = "valid" /\ Merged'[e].action \in TimeOf
  BY <1>2 DEF ValueOf, input, Current
<1>4. CASE widgets'.radio = e
  BY <1>4 DEF Times
<1>5. CASE widgets'.radio # e
  <2>1. e > widgets'.radio
    BY <1>1, <1>5
  <2> QED
    BY <1>3, <2>1 DEF Times, FailedTimes
<1> QED
  BY <1>4, <1>5

LEMMA TimeStep ==
  ASSUME SettingsInv, PhaseInv, OrderInv, TimeInv, [Next]_vars
  PROVE  TimeInv'
<1> USE DEF vars, input, task, program, faults
<1>0. /\ UNCHANGED input /\ Entries' = Entries /\ Merged' = Merged
      /\ entry \in Nat /\ entry >= 1 /\ widgets \in Widgets
      /\ entry' = entry => Current' = Current /\ ValueOf(Current)' = ValueOf(Current)
  <2>1. UNCHANGED input
    BY InputStays
  <2>2. Entries' = Entries /\ Merged' = Merged
    BY <2>1, EntriesStay
  <2>3. entry' = entry => Current' = Current /\ ValueOf(Current)' = ValueOf(Current)
    BY <2>1, <2>2 DEF Current, ValueOf
  <2> QED
    BY <2>1, <2>2, <2>3 DEF SettingsInv, TaskType, ProgramType, OrderInv
<1>1. CASE Skipped \/ Refused
  <2>1. /\ Applying /\ UNCHANGED <<widgets, pc, result>> /\ step' = "expand"
        /\ spoiled \subseteq spoiled'
        /\ step = "expand" \/ ValueOf(Current) = "unset"
    BY <1>1 DEF Skipped, Refused, NextEntry
  <2>2. Times(widgets) \subseteq Times(widgets)'
    BY <1>0, <2>1, TimesGrow
  <2>3. result = "none" /\ pc = "apply"
    BY <2>1 DEF PhaseInv, Applying
  <2>4. step \notin {"type", "typeOther", "ampm", "enable"}
    BY <2>1, <2>3 DEF TimeInv
  <2> QED
    BY <2>1, <2>2, <2>3, <2>4 DEF TimeInv
<1>2. CASE Expanded \/ LabelMissing
  <2>1. /\ pc = "apply" /\ UNCHANGED <<widgets, spoiled, pc, result, entry>>
        /\ step \in {"expand", "type"}
    BY <1>2 DEF Expanded, LabelMissing, Applying, Goes
  <2>2. Times(widgets) \subseteq Times(widgets)'
    BY <1>0, <2>1, TimesGrow
  <2>3. CASE step = "expand"
    <3>1. /\ step' = IF Current.action = "toggle" THEN "toggle" ELSE "type"
          /\ ValueOf(Current) = "valid" /\ Current.action \in Supported
      BY <1>2, <2>3 DEF Expanded, LabelMissing, Goes
    <3> QED
      BY <1>0, <2>1, <2>2, <2>3, <3>1 DEF TimeInv, Supported
  <2>4. CASE step = "type"
    <3>1. step' = "typeOther"
      BY <1>2, <2>4 DEF Expanded, LabelMissing, Goes
    <3> QED
      BY <1>0, <2>1, <2>2, <2>4, <3>1 DEF TimeInv
  <2> QED
    BY <2>1, <2>3, <2>4
<1>3. CASE Applied
  <2>1. /\ pc = "apply" /\ result = "none" /\ UNCHANGED <<spoiled, pc, result>>
        /\ widgets' = Set
    BY <1>3 DEF Applied, Applying, NextEntry, Goes, PhaseInv
  <2>2. /\ widgets'.radio = IF step = "enable" THEN entry ELSE widgets.radio
        /\ widgets'.time = IF LabelFound THEN entry ELSE widgets.time
        /\ widgets'.ampm = IF step = "ampm" THEN entry ELSE widgets.ampm
        /\ LabelFound => step \in {"type", "typeOther"}
    BY <1>0, <2>1, SetWidgets DEF LabelFound
  <2>3. step # "enable" => Times(widgets) \subseteq Times(widgets)'
    BY <1>0, <2>1, <2>2, TimesGrow
  <2>4. CASE LabelFound /\ Goes("ampm")
    <3>1. entry' = entry /\ step' = "ampm"
      BY <2>4 DEF Goes
    <3> QED
      BY <1>0, <2>1, <2>2, <2>3, <2>4, <3>1 DEF TimeInv
  <2>5. CASE step = "ampm" /\ Goes("enable")
    <3>1. entry' = entry /\ step' = "enable"
      BY <2>5 DEF Goes
    <3> QED
      BY <1>0, <2>1, <2>2, <2>3, <2>5, <3>1 DEF TimeInv
  <2>6. CASE step = "enable" /\ NextEntry
    <3>1. step' = "expand"
      BY <2>6 DEF NextEntry
    <3>2. widgets'.time = widgets'.radio /\ widgets'.ampm = widgets'.radio
      BY <2>1, <2>2, <2>6 DEF TimeInv
    <3> QED
      BY <2>1, <3>1, <3>2 DEF TimeInv, Times
  <2>7. CASE step = "toggle" /\ NextEntry
    <3>1. step' = "expand"
      BY <2>7 DEF NextEntry
    <3> QED
      BY <2>1, <2>2, <2>3, <2>7, <3>1 DEF TimeInv
  <2> QED
    BY <1>3, <2>4, <2>5, <2>6, <2>7 DEF Applied
<1>4. CASE EntryFails
  <2>1. /\ pc = "apply" /\ result = "none" /\ UNCHANGED <<pc, result>> /\ step' = "expand"
        /\ spoiled' = spoiled \cup {entry} /\ widgets' \in {widgets, Set}
    BY <1>4 DEF EntryFails, Commands, Applying, NextEntry, PhaseInv
  <2>2. /\ widgets'.radio \in {widgets.radio, IF step = "enable" THEN entry ELSE widgets.radio}
        /\ widgets'.time \in {widgets.time, IF LabelFound THEN entry ELSE widgets.time}
        /\ widgets'.ampm \in {widgets.ampm, IF step = "ampm" THEN entry ELSE widgets.ampm}
        /\ LabelFound => step \in {"type", "typeOther"}
    BY <1>0, <2>1, SetWidgets DEF LabelFound
  <2>3. CASE step \in {"type", "typeOther", "ampm", "enable"}
    <3>1. Current.action \in TimeOf /\ ValueOf(Current) = "valid"
      BY <2>1, <2>3 DEF TimeInv
    <3>2. widgets'.radio \in {widgets.radio, entry}
      BY <2>2
    <3>3. \A e : e = entry => e \in Times(widgets)'
      BY <1>0, <2>1, <3>1, <3>2, FailedIsTime
    <3>4. step # "enable" => Times(widgets) \subseteq Times(widgets)'
      BY <1>0, <2>1, <2>2, TimesGrow
    <3>5. CASE step = "enable"
      <4>1. widgets'.time = entry /\ widgets'.ampm = entry
        BY <2>1, <2>2, <3>5 DEF TimeInv
      <4> QED
        BY <2>1, <3>3, <4>1 DEF TimeInv
    <3>6. CASE step # "enable"
      <4>1. widgets'.radio = widgets.radio
        BY <2>2, <3>6
      <4>2. widgets'.radio # 0 => widgets'.time \in Times(widgets)'
        BY <2>1, <2>2, <3>3, <3>4, <3>6, <4>1 DEF TimeInv
      <4>3. widgets'.radio # 0 => widgets'.ampm \in Times(widgets)'
        BY <2>1, <2>2, <3>3, <3>4, <3>6, <4>1 DEF TimeInv
      <4> QED
        BY <2>1, <4>2, <4>3 DEF TimeInv
    <3> QED
      BY <3>5, <3>6
  <2>4. CASE step \notin {"type", "typeOther", "ampm", "enable"}
    <3>1. /\ widgets'.radio = widgets.radio /\ widgets'.time = widgets.time
          /\ widgets'.ampm = widgets.ampm
      BY <2>2, <2>4
    <3>2. Times(widgets) \subseteq Times(widgets)'
      BY <1>0, <2>1, <3>1, TimesGrow
    <3> QED
      BY <2>1, <2>4, <3>1, <3>2 DEF TimeInv
  <2> QED
    BY <2>3, <2>4
<1>5. CASE Cancelled \/ Gone
  <2>1. result' \in {"cancelled", "unconfirmed", "abandoned", "gone"}
    BY <1>5 DEF Cancelled, Gone, Closes, Ends
  <2> QED
    BY <2>1 DEF TimeInv
<1>6. CASE Opening \/ AllApplied \/ HookEnds \/ Closing \/ SplashCloses
           \/ MenuChanges \/ ClickLands \/ UserCloses \/ AgentDies \/ UNCHANGED vars
  <2>1. UNCHANGED <<entry, step, widgets, spoiled>>
    BY <1>6 DEF Opening, Start, SplashClosed, WaitTimesOut, MenuMissing, MenuDisabled,
       MenuClicked, MenuFails, DialogOpened, AllApplied, HookEnds, Closing, OkClicked,
       OkFails, SplashCloses, MenuChanges, ClickLands, UserCloses, AgentDies,
       Ends, Closes
  <2>2. \/ UNCHANGED <<pc, result>>
        \/ /\ pc \in {"start", "splash", "navigate", "waitOpened"}
           /\ UNCHANGED result \/ result' \in {"nothing", "timeout", "notFound"}
        \/ /\ pc = "apply" /\ entry \notin Entries /\ pc' \in {"hook", "closing"}
           /\ UNCHANGED result \/ result' = "ok"
        \/ pc = "hook" /\ pc' = "closing" /\ result' \in {"ok", "failed"}
        \/ pc = "closing" /\ pc' = "done" /\ result' \in {result, "unconfirmed"}
    BY <1>6 DEF Opening, Start, SplashClosed, WaitTimesOut, MenuMissing, MenuDisabled,
       MenuClicked, MenuFails, DialogOpened, AllApplied, HookEnds, Closing, OkClicked,
       OkFails, SplashCloses, MenuChanges, ClickLands, UserCloses, AgentDies,
       Ends, Closes
  <2>3. /\ pc \in {"start", "splash", "navigate", "waitOpened"} => step = "expand"
        /\ pc = "apply" /\ entry \notin Entries =>
             step \notin {"type", "typeOther", "ampm", "enable"}
        /\ pc \in {"start", "splash", "navigate", "waitOpened", "apply", "hook"} => result = "none"
    BY DEF OrderInv, PhaseInv
  <2>4. Times(widgets) \subseteq Times(widgets)'
    BY <1>0, <2>1, TimesGrow
  <2>5. Current' = Current /\ ValueOf(Current)' = ValueOf(Current)
    BY <1>0, <2>1
  <2> QED
    BY <2>1, <2>2, <2>3, <2>4, <2>5 DEF TimeInv
<1> QED
  BY <1>1, <1>2, <1>3, <1>4, <1>5, <1>6 DEF Next, Phase, ApplyAll

-----------------------------------------------------------------------------
PhaseParts == SettingsInv /\ PhaseInv /\ EndInv /\ OrderInv /\ SavedInv /\ TimeInv

LEMMA InitParts == Init => PhaseParts
<1> SUFFICES ASSUME Init PROVE PhaseParts
  OBVIOUS
<1>1. PhaseInv /\ EndInv
  BY DEF Init, PhaseInv, EndInv, ToSet
<1>2. OrderInv
  <2>1. \A i \in Entries : ~(i < 1)
    BY EntriesNumbered
  <2>2. entry = 1 /\ widgets.radio = 0 /\ pc = "start" /\ step = "expand"
    BY DEF Init, Fresh
  <2> QED
    BY <2>1, <2>2 DEF OrderInv
<1>3. SavedInv
  BY DEF Init, SavedInv, Saved
<1>4. TimeInv
  BY DEF Init, TimeInv, Fresh
<1> QED
  BY <1>1, <1>2, <1>3, <1>4, InitInv DEF PhaseParts

LEMMA NextParts == PhaseParts /\ [Next]_vars => PhaseParts'
BY NextInv, PhaseStep, OrderStep, SavedStep, TimeStep DEF PhaseParts

(* However the work on the dialog ends, OK is clicked, unless the dialog   *)
(* or the agent has gone, or a click fails or is itself cancelled.         *)
THEOREM ConfirmedCorrect == Spec => []DialogConfirmed
<1>1. PhaseParts => DialogConfirmed
  BY DEF PhaseParts, EndInv, DialogConfirmed
<1> QED
  BY <1>1, InitParts, NextParts, PTL DEF Spec

(* For every settings file and number of failures, a bad entry does not    *)
(* keep the others from being applied: what a completed phase saves has    *)
(* every toggle that did not fail, and for a time its own radio or a later *)
(* one's, with that entry's time and half of the day, or a later time      *)
(* entry's that failed under way; no other bad entry costs more than       *)
(* itself.                                                                 *)
THEOREM AppliedCorrect == Spec => []OthersApplied
<1>1. PhaseParts => OthersApplied
  <2> SUFFICES ASSUME PhaseParts, Saved, result \in {"ok", "failed"}, NEW i \in Entries,
                      i \notin spoiled, ValueOf(Merged[i]) = "valid"
               PROVE  /\ ShownBy(i, committed)
                      /\ Merged[i].action # "toggle" =>
                           {committed.time, committed.ampm} \subseteq Times(committed)
    BY DEF OthersApplied, ShownBy, Times
  <2>1. entry \notin Entries /\ committed = widgets /\ pc = "done"
    BY DEF PhaseParts, SavedInv
  <2>2. entry \in Nat /\ entry >= 1 /\ i \in Nat /\ i >= 1
    BY EntriesNumbered DEF PhaseParts, OrderInv, SettingsInv, TaskType
  <2>3. i < entry
    BY <2>1, <2>2, EntriesNumbered DEF Entries
  <2>4. ShownBy(i, committed)
    BY <2>1, <2>3 DEF PhaseParts, OrderInv
  <2>5. Merged[i].action # "toggle" =>
          {committed.time, committed.ampm} \subseteq Times(committed)
    <3>1. Merged[i].action # "toggle" => widgets.radio # 0
      BY <2>1, <2>2, <2>4 DEF ShownBy
    <3>2. widgets.radio # 0 => widgets.time \in Times(widgets) /\ widgets.ampm \in Times(widgets)
      BY <2>1 DEF PhaseParts, TimeInv
    <3> QED
      BY <2>1, <3>1, <3>2
  <2> QED
    BY <2>4, <2>5
<1> QED
  BY <1>1, InitParts, NextParts, PTL DEF Spec

-----------------------------------------------------------------------------
(* The auto restart time wins.  That is so when a user's file leaves the   *)
(* times to the built-in entries: it may override them, by entries that    *)
(* set a time as they do, and what it adds sets none (a time of its own    *)
(* would be applied last, and win).                                        *)
Added(f) == SelectSeq(f, IsAdded)

TimesKept ==
  \A f \in UserFiles :
    /\ \A i \in DOMAIN f : f[i].key \in Keys => (f[i].action \in TimeOf <=> f[i].key \in TimeOf)
    /\ Added(f) \in Seq({e \in Entry : e.action \notin TimeOf})

(* A set of places in a sequence has a last one: the distance to the end   *)
(* is a natural number, and the naturals are well founded.                 *)
LEMMA LeastNumber ==
  ASSUME NEW T \in SUBSET Nat, T # {}
  PROVE  \E x \in T : \A y \in T : x <= y
<1>1. \E x \in T : \A y \in T : ~ (<<y, x>> \in OpToRel(<, Nat))
  BY NatLessThanWellFounded, WFMin, Zenon
<1>2. \A x, y \in Nat : y < x => <<y, x>> \in OpToRel(<, Nat)
  BY DEF OpToRel
<1>3. \A x, y \in Nat : ~(y < x) => x <= y
  OBVIOUS
<1> QED
  BY <1>1, <1>2, <1>3

LEMMA LastPlace ==
  ASSUME NEW n \in Nat, NEW T \in SUBSET (1 .. n), T # {}
  PROVE  \E i \in T : \A j \in T : j <= i
<1> DEFINE D == {d \in Nat : n - d \in T}
<1>1. D # {}
  <2>1. PICK t \in T : TRUE
    OBVIOUS
  <2>2. n - t \in Nat /\ n - (n - t) = t
    OBVIOUS
  <2> QED
    BY <2>1, <2>2
<1>2. PICK d \in D : \A e \in D : d <= e
  BY <1>1, LeastNumber
<1>3. n - d \in T
  BY <1>2
<1>4. ASSUME NEW j \in T PROVE j <= n - d
  <2>1. n - j \in Nat /\ n - (n - j) = j
    OBVIOUS
  <2>2. d <= n - j
    BY <1>2, <2>1
  <2> QED
    BY <1>2, <2>2
<1> QED
  BY <1>3, <1>4

(* An override has the key of what it replaces, and sets a time if that    *)
(* does.                                                                   *)
LEMMA LastOverride ==
  ASSUME TimesKept, user \in UserFiles, NEW key \in Keys, Overriding(key) # {}
  PROVE  /\ LastOf(key).key = key /\ (LastOf(key).action \in TimeOf <=> key \in TimeOf)
         /\ LastOf(key) \in Entry
<1>1. user \in Seq(Entry)
  BY SettingsAssumption
<1>2. Len(user) \in Nat /\ Overriding(key) \in SUBSET (1 .. Len(user)) /\ DOMAIN user = 1 .. Len(user)
  BY <1>1 DEF Overriding
<1>3. \E i \in Overriding(key) : \A j \in Overriding(key) : j <= i
  BY <1>2, LastPlace
<1>4. PICK i \in Overriding(key) : LastOf(key) = user[i]
  BY <1>3 DEF LastOf
<1>5. i \in DOMAIN user /\ user[i].key = key /\ user[i] \in Entry
  BY <1>1, <1>4 DEF Overriding
<1> QED
  BY <1>4, <1>5 DEF TimesKept

LEMMA SeqOver ==
  ASSUME NEW S, NEW T, NEW t \in Seq(T)
  PROVE  t \in Seq(S \cup T)
<1>1. Len(t) \in Nat /\ t \in [1 .. Len(t) -> T]
  BY LenProperties
<1>2. t \in [1 .. Len(t) -> S \cup T]
  BY <1>1
<1> QED
  BY <1>1, <1>2

(* What follows a sequence of three.                                       *)
LEMMA AfterThree ==
  ASSUME NEW S, NEW s \in [1 .. 3 -> S], NEW T, NEW t \in Seq(T)
  PROVE  /\ Len(s \o t) = 3 + Len(t)
         /\ \A i \in 1 .. 3 : (s \o t)[i] = s[i]
         /\ \A i \in 4 .. (3 + Len(t)) : (s \o t)[i] = t[i - 3]
<1> DEFINE u == <<s[1], s[2], s[3]>>
<1>1. u \in Seq(S) /\ Len(u) = 3 /\ \A i \in 1 .. 3 : u[i] = s[i]
  OBVIOUS
<1>2. s = u
  BY <1>1
<1> HIDE DEF u
<1>4. u \in Seq(T \cup S) /\ t \in Seq(T \cup S) /\ Len(t) \in Nat
  <2>1. t \in Seq(S \cup T) /\ u \in Seq(T \cup S) /\ T \cup S = S \cup T
    BY <1>1, SeqOver
  <2> QED
    BY <2>1
<1>5. /\ Len(u \o t) = 3 + Len(t)
      /\ \A i \in 1 .. (3 + Len(t)) : (u \o t)[i] = IF i <= 3 THEN u[i] ELSE t[i - 3]
  <2>1. /\ Len(u \o t) = Len(u) + Len(t)
        /\ \A i \in 1 .. Len(u) + Len(t) : (u \o t)[i] = IF i <= Len(u) THEN u[i] ELSE t[i - Len(u)]
    BY <1>4, ConcatProperties
  <2> QED
    BY <1>1, <2>1
<1> QED
  BY <1>1, <1>2, <1>4, <1>5

(* The second entry is the restart time, and no later one sets a time.     *)
LEMMA RestartIsLastTime ==
  ASSUME TimesKept, user \in UserFiles
  PROVE  /\ 2 \in Entries /\ 3 \in Entries
         /\ Merged[2].key = "restart" /\ Merged[2].action \in TimeOf
         /\ \A i \in Entries : i > 2 => Merged[i].action \in {"toggle", "bad"}
<1> DEFINE First == [i \in DOMAIN Builtin |->
                       IF Overriding(Builtin[i].key) = {} THEN Builtin[i]
                                                          ELSE LastOf(Builtin[i].key)]
           Plain == {e \in Entry : e.action \notin TimeOf}
<1>0. \A e \in Entry : e.action \notin TimeOf => e.action \in {"toggle", "bad"}
  BY DEF Entry
<1>1. /\ DOMAIN Builtin = 1 .. 3 /\ Builtin[2] = [key |-> "restart", action |-> "restart"]
      /\ Builtin[3] = [key |-> "readOnly", action |-> "toggle"]
  BY DEF Builtin
<1>2. First[2].key = "restart" /\ First[2].action \in TimeOf
  <2>1. "restart" \in Keys /\ "restart" \in TimeOf
    BY DEF Keys, TimeOf
  <2>2. First[2] = IF Overriding("restart") = {} THEN [key |-> "restart", action |-> "restart"]
                                                 ELSE LastOf("restart")
    BY <1>1
  <2> QED
    BY <2>1, <2>2, LastOverride
<1>3. First[3].action \in {"toggle", "bad"}
  <2>1. "readOnly" \in Keys /\ "readOnly" \notin TimeOf /\ "toggle" \notin TimeOf
    BY DEF Keys, TimeOf
  <2>2. First[3] = IF Overriding("readOnly") = {} THEN [key |-> "readOnly", action |-> "toggle"]
                                                  ELSE LastOf("readOnly")
    BY <1>1
  <2> QED
    BY <1>0, <2>1, <2>2, LastOverride
<1>4. Added(user) \in Seq(Plain)
  BY DEF TimesKept
<1>5. Merged = First \o Added(user)
  BY Zenon DEF Merged, Added
<1> DEFINE Heads == {First[i] : i \in 1 .. 3}
<1>6. First \in [1 .. 3 -> Heads]
  BY <1>1
<1> HIDE DEF First, Plain, Heads
<1>7. /\ Len(Added(user)) \in Nat /\ Len(Merged) = 3 + Len(Added(user))
      /\ \A i \in 1 .. 3 : Merged[i] = First[i]
      /\ \A i \in 4 .. (3 + Len(Added(user))) : Merged[i] = Added(user)[i - 3]
  <2>1. Len(Added(user)) \in Nat
    BY <1>4
  <2> DEFINE a == Added(user)
  <2>2. a \in Seq(Plain) /\ Merged = First \o a
    BY <1>4, <1>5
  <2> HIDE DEF a
  <2>3. /\ Len(First \o a) = 3 + Len(a)
        /\ \A i \in 1 .. 3 : (First \o a)[i] = First[i]
        /\ \A i \in 4 .. (3 + Len(a)) : (First \o a)[i] = a[i - 3]
    BY <1>6, <2>2, AfterThree
  <2>4. /\ Len(Merged) = 3 + Len(a)
        /\ \A i \in 1 .. 3 : Merged[i] = First[i]
        /\ \A i \in 4 .. (3 + Len(a)) : Merged[i] = a[i - 3]
    BY <2>2, <2>3
  <2> QED
    BY <2>1, <2>4 DEF a
<1>8. \A i \in 1 .. Len(Added(user)) : Added(user)[i].action \in {"toggle", "bad"}
  BY <1>0, <1>4 DEF Plain
<1>9. 2 \in Entries /\ 3 \in Entries
  BY <1>7 DEF Entries
<1>10. ASSUME NEW i \in Entries, i > 2 PROVE Merged[i].action \in {"toggle", "bad"}
  <2>1. i \in Nat /\ i <= 3 + Len(Added(user))
    BY <1>7 DEF Entries
  <2>2. CASE i = 3
    BY <1>3, <1>7, <2>2
  <2>3. CASE i > 3
    <3>1. i - 3 \in 1 .. Len(Added(user)) /\ Merged[i] = Added(user)[i - 3]
      BY <1>7, <2>1, <2>3
    <3> QED
      BY <1>8, <3>1
  <2> QED
    BY <1>10, <2>1, <2>2, <2>3
<1> QED
  BY <1>2, <1>7, <1>9, <1>10

(* Once the restart time has been applied, the time widgets are its own    *)
(* and no later entry touches them.                                        *)
RestartInv ==
  spoiled = {} /\ config["restart"] = "valid" =>
    /\ entry > 2 => widgets.time = 2 /\ widgets.ampm = 2 /\ widgets.radio = 2
    /\ pc = "apply" /\ entry = 2 /\ step \in {"ampm", "enable"} => widgets.time = 2
    /\ pc = "apply" /\ entry = 2 /\ step = "enable" => widgets.ampm = 2
    /\ pc = "apply" /\ entry > 2 /\ entry \in Entries => step \in {"expand", "toggle"}

(* A step that applies nothing keeps this. *)
LEMMA RestartKept ==
  ASSUME RestartInv, UNCHANGED <<input, entry, step, widgets, spoiled>>,
         pc' = "apply" => pc = "apply" \/ step = "expand"
  PROVE  RestartInv'
<1>1. Entries' = Entries /\ config' = config
  BY EntriesStay DEF input
<1> QED
  BY <1>1 DEF RestartInv

LEMMA RestartStep ==
  ASSUME TimesKept, SettingsInv, OrderInv, RestartInv, [Next]_vars
  PROVE  RestartInv'
<1> USE DEF vars, input, task, program, faults
<1>0. /\ UNCHANGED input /\ config' = config /\ Entries' = Entries
      /\ entry \in Nat /\ entry >= 1 /\ widgets \in Widgets
  BY InputStays, EntriesStay DEF SettingsInv, TaskType, ProgramType, OrderInv
<1>1. /\ 2 \in Entries /\ Merged[2].key = "restart" /\ Merged[2].action \in TimeOf
      /\ \A i \in Entries : i > 2 => Merged[i].action \in {"toggle", "bad"}
  BY RestartIsLastTime DEF SettingsInv, InputType
<1>2. config["restart"] = "valid" => ValueOf(Merged[2]) = "valid"
  BY <1>1 DEF ValueOf
<1>3. Merged[2].action # "toggle" /\ Merged[2].action # "bad"
  BY <1>1 DEF TimeOf
<1> SUFFICES ASSUME spoiled' = {}, config["restart"] = "valid" PROVE RestartInv'
  BY <1>0 DEF RestartInv
<1>4. CASE Skipped
  <2>1. /\ Applying /\ ValueOf(Merged[entry]) = "unset" /\ UNCHANGED <<widgets, spoiled, pc>>
        /\ entry' = entry + 1 /\ step' = "expand"
    BY <1>4 DEF Skipped, Current, NextEntry
  <2>2. entry # 2
    BY <1>2, <2>1
  <2> QED
    BY <1>0, <2>1, <2>2 DEF RestartInv
<1>5. ~Refused /\ ~EntryFails
  BY DEF Refused, EntryFails
<1>6. CASE Expanded
  <2>1. /\ entry \in Entries /\ Merged[entry].action \in Supported /\ UNCHANGED <<widgets, spoiled, pc, entry>>
        /\ step' = IF Merged[entry].action = "toggle" THEN "toggle" ELSE "type"
    BY <1>6 DEF Expanded, Applying, Current, Goes
  <2>2. entry > 2 => Merged[entry].action = "toggle"
    BY <1>1, <2>1 DEF Supported, TimeOf
  <2> QED
    BY <1>0, <2>1, <2>2 DEF RestartInv
<1>7. CASE LabelMissing
  <2>1. /\ entry \in Entries /\ pc = "apply" /\ UNCHANGED <<widgets, spoiled, pc, entry>>
        /\ step = "type" /\ step' = "typeOther"
    BY <1>7 DEF LabelMissing, Applying, Goes
  <2> QED
    BY <1>0, <2>1 DEF RestartInv
<1>8. CASE Applied
  <2>1. pc = "apply" /\ entry \in Entries /\ UNCHANGED <<spoiled, pc>>
    BY <1>8 DEF Applied, Applying, NextEntry, Goes
  <2>2. /\ widgets'.radio = IF step = "enable" THEN entry ELSE widgets.radio
        /\ widgets'.time = IF LabelFound THEN entry ELSE widgets.time
        /\ widgets'.ampm = IF step = "ampm" THEN entry ELSE widgets.ampm
        /\ LabelFound => step \in {"type", "typeOther"}
    BY <1>0, <1>8, SetWidgets DEF Applied, LabelFound
  <2>3. CASE LabelFound /\ Goes("ampm")
    <3>1. entry' = entry /\ step' = "ampm"
      BY <2>3 DEF Goes
    <3> QED
      BY <1>0, <2>1, <2>2, <2>3, <3>1 DEF RestartInv
  <2>4. CASE step = "ampm" /\ Goes("enable")
    <3>1. entry' = entry /\ step' = "enable"
      BY <2>4 DEF Goes
    <3> QED
      BY <1>0, <2>1, <2>2, <2>4, <3>1 DEF RestartInv
  <2>5. CASE step = "enable" /\ NextEntry
    <3>1. entry' = entry + 1 /\ step' = "expand"
      BY <2>5 DEF NextEntry
    <3> QED
      BY <1>0, <2>1, <2>2, <2>5, <3>1 DEF RestartInv
  <2>6. CASE step = "toggle" /\ NextEntry
    <3>1. entry' = entry + 1 /\ step' = "expand"
      BY <2>6 DEF NextEntry
    <3>2. entry # 2
      BY <1>3, <2>1, <2>6 DEF OrderInv, Current
    <3> QED
      BY <1>0, <2>1, <2>2, <2>6, <3>1, <3>2 DEF RestartInv
  <2> QED
    BY <1>8, <2>3, <2>4, <2>5, <2>6 DEF Applied
<1>10. CASE Cancelled
  <2>1. /\ UNCHANGED <<entry, step, spoiled>> /\ pc' \in {"closing", "done"}
        /\ widgets' = widgets \/ (widgets' = Set /\ pc = "apply" /\ entry \in Entries)
    BY <1>10 DEF Cancelled, Closes, Ends, Commands, Applying
  <2>2. CASE widgets' = widgets
    BY <1>0, <2>1, <2>2 DEF RestartInv
  <2>3. CASE widgets' = Set /\ pc = "apply" /\ entry \in Entries
    <3>1. /\ widgets'.radio = IF step = "enable" THEN entry ELSE widgets.radio
          /\ widgets'.time = IF LabelFound THEN entry ELSE widgets.time
          /\ widgets'.ampm = IF step = "ampm" THEN entry ELSE widgets.ampm
          /\ LabelFound => step \in {"type", "typeOther"}
      BY <1>0, <2>3, SetWidgets DEF LabelFound
    <3> QED
      BY <1>0, <2>1, <2>3, <3>1 DEF RestartInv
  <2> QED
    BY <2>1, <2>2, <2>3
<1>9. CASE Opening \/ AllApplied \/ HookEnds \/ Gone \/ Closing \/ SplashCloses
           \/ MenuChanges \/ ClickLands \/ UserCloses \/ AgentDies \/ UNCHANGED vars
  <2>1. UNCHANGED <<entry, step, widgets, spoiled>>
    BY <1>9 DEF Opening, Start, SplashClosed, WaitTimesOut, MenuMissing, MenuDisabled,
       MenuClicked, MenuFails, DialogOpened, AllApplied, HookEnds, Gone, Closing, OkClicked,
       OkFails, SplashCloses, MenuChanges, ClickLands, UserCloses, AgentDies,
       Ends, Closes
  <2>2. \/ UNCHANGED pc
        \/ pc' \in {"hook", "closing", "done"}
        \/ pc \in {"start", "splash", "navigate", "waitOpened"}
    BY <1>9 DEF Opening, Start, SplashClosed, WaitTimesOut, MenuMissing, MenuDisabled,
       MenuClicked, MenuFails, DialogOpened, AllApplied, HookEnds, Gone, Closing, OkClicked,
       OkFails, SplashCloses, MenuChanges, ClickLands, UserCloses, AgentDies,
       Ends, Closes
  <2>3. pc \in {"start", "splash", "navigate", "waitOpened"} => step = "expand"
    BY DEF OrderInv
  <2> QED
    BY <1>0, <2>1, <2>2, <2>3, RestartKept
<1> QED
  BY <1>4, <1>5, <1>6, <1>7, <1>8, <1>9, <1>10 DEF Next, Phase, ApplyAll

(* auto_restart_time wins when both are set, also if the user's file       *)
(* overrides the built-in entries: what a completed phase saves is its     *)
(* radio, its time and its half of the day, for every user's file that     *)
(* leaves the times to the built-in entries.                               *)
THEOREM RestartWins ==
  ASSUME TimesKept
  PROVE  Spec => []AutoRestartWins
<1>1. Init => RestartInv
  <2> SUFFICES ASSUME Init PROVE RestartInv
    OBVIOUS
  <2>1. entry = 1 /\ pc = "start"
    BY DEF Init
  <2> QED
    BY <2>1 DEF RestartInv
<1>2. PhaseParts /\ RestartInv /\ [Next]_vars => RestartInv'
  BY RestartStep DEF PhaseParts
<1>3. PhaseParts /\ RestartInv => AutoRestartWins
  <2> SUFFICES ASSUME PhaseParts, RestartInv, Saved, result = "ok",
                      config["restart"] = "valid", spoiled = {}
               PROVE  /\ Merged[committed.radio].key = "restart"
                      /\ committed.time = committed.radio /\ committed.ampm = committed.radio
    BY DEF AutoRestartWins
  <2>1. entry \notin Entries /\ committed = widgets
    BY DEF PhaseParts, SavedInv
  <2>2. entry \in Nat /\ entry >= 1
    BY DEF PhaseParts, OrderInv, SettingsInv, TaskType
  <2>3. 2 \in Entries /\ Merged[2].key = "restart"
    BY RestartIsLastTime DEF PhaseParts, SettingsInv, InputType
  <2>4. entry > 2
    BY <2>1, <2>2, <2>3, EntriesNumbered DEF Entries
  <2> QED
    BY <2>1, <2>3, <2>4 DEF RestartInv
<1> QED
  BY <1>1, <1>2, <1>3, InitParts, NextParts, PTL DEF Spec
=============================================================================
