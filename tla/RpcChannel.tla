----------------------------- MODULE RpcChannel -----------------------------
(***************************************************************************)
(* What Dispatcher.send promises its callers (docs/development.md, L4): a  *)
(* call is refused at once when the channel is closed; an accepted call    *)
(* runs in the agent at most once, gets an answer only if it ran, and      *)
(* otherwise fails or is cancelled by its caller; closing the channel      *)
(* leaves no call open.  CommandChannel implements this specification.     *)
(***************************************************************************)
EXTENDS FiniteSets

CONSTANT Req   (* the calls of send() over one dispatcher's life *)

VARIABLES
  call,        (* where each call stands                             *)
  ran,         (* the calls the agent has carried out                *)
  closed       (* no further call is accepted                        *)

vars == <<call, ran, closed>>

CallState == {"new", "open", "refused", "answered", "failed", "cancelled"}

Init ==
  /\ call = [r \in Req |-> "new"]
  /\ ran = {}
  /\ closed = FALSE

Open == {r \in Req : call[r] = "open"}

Call(r) ==
  /\ call[r] = "new"
  /\ call' = [call EXCEPT ![r] = IF closed THEN "refused" ELSE "open"]
  /\ UNCHANGED <<ran, closed>>

(* The agent may carry out a call its caller has already given up on, but  *)
(* never one that was refused, and never one twice.                        *)
Run(r) ==
  /\ call[r] \notin {"new", "refused"}
  /\ r \notin ran
  /\ ran' = ran \cup {r}
  /\ UNCHANGED <<call, closed>>

Answer(r) ==
  /\ call[r] = "open"
  /\ r \in ran
  /\ call' = [call EXCEPT ![r] = "answered"]
  /\ UNCHANGED <<ran, closed>>

Cancel(r) ==
  /\ call[r] = "open"
  /\ call' = [call EXCEPT ![r] = "cancelled"]
  /\ UNCHANGED <<ran, closed>>

(* Some open calls fail; when the channel closes in the same step, all do. *)
Fail(S) ==
  /\ S \subseteq Open
  /\ call' = [r \in Req |-> IF r \in S THEN "failed" ELSE call[r]]
  /\ closed' \in BOOLEAN
  /\ closed => closed'
  /\ closed' => S = Open
  /\ UNCHANGED ran

Next ==
  \/ \E r \in Req : Call(r) \/ Run(r) \/ Answer(r) \/ Cancel(r)
  \/ \E S \in SUBSET Req : Fail(S)

Spec == Init /\ [][Next]_vars
=============================================================================
