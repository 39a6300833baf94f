----------------------------- MODULE RequestChannel -----------------------------
(***************************************************************************)
(* What a connection promises to the code that makes requests on it        *)
(* (crates/wyck-ctrader/src/connection.rs, Client::call): each call        *)
(* returns once, with one answer to its last attempt, or because the       *)
(* connection ended, or because it gave up; a refusal for the rate comes   *)
(* through only when every retry was used.                                 *)
(***************************************************************************)
EXTENDS Naturals

CONSTANTS Requests, Retries

VARIABLES
  phase,     \* per request: "idle", "asked" or "over"
  attempt,   \* per request: how often it was asked again (0 when nothing is asked)
  told,      \* per request: what the server said to the attempt being made
  outcome,   \* per request: what its call returned
  ended      \* whether the connection is over

vars == <<phase, attempt, told, outcome, ended>>

Init ==
  /\ phase = [r \in Requests |-> "idle"] /\ attempt = [r \in Requests |-> 0]
  /\ told = [r \in Requests |-> "nothing"] /\ outcome = [r \in Requests |-> "none"]
  /\ ended = FALSE

Ask(r) ==
  /\ phase[r] = "idle" /\ phase' = [phase EXCEPT ![r] = "asked"]
  /\ UNCHANGED <<attempt, told, outcome, ended>>

Tell(r) ==
  /\ phase[r] = "asked" /\ told[r] = "nothing"
  /\ \E what \in {"answer", "refused"} : told' = [told EXCEPT ![r] = what]
  /\ UNCHANGED <<phase, attempt, outcome, ended>>

AskAgain(r) ==
  /\ phase[r] = "asked" /\ told[r] = "refused" /\ attempt[r] < Retries
  /\ attempt' = [attempt EXCEPT ![r] = @ + 1] /\ told' = [told EXCEPT ![r] = "nothing"]
  /\ UNCHANGED <<phase, outcome, ended>>

Return(r, how) ==
  /\ phase' = [phase EXCEPT ![r] = "over"] /\ outcome' = [outcome EXCEPT ![r] = how]
  /\ told' = [told EXCEPT ![r] = "nothing"] /\ attempt' = [attempt EXCEPT ![r] = 0]
  /\ UNCHANGED ended

Answered(r) ==
  /\ phase[r] = "asked" /\ told[r] # "nothing"
  /\ told[r] = "refused" => attempt[r] = Retries
  /\ Return(r, told[r])

Closed(r) == phase[r] # "over" /\ told[r] = "nothing" /\ ended /\ Return(r, "closed")

GaveUp(r) ==
  /\ phase[r] = "asked"
  /\ \E how \in {"timeout", "cancelled"} :
       (how = "timeout" => told[r] = "nothing") /\ Return(r, how)

End == ended' = TRUE /\ UNCHANGED <<phase, attempt, told, outcome>>

Next ==
  \/ End
  \/ \E r \in Requests :
       Ask(r) \/ Tell(r) \/ AskAgain(r) \/ Answered(r) \/ Closed(r) \/ GaveUp(r)

Spec == Init /\ [][Next]_vars
=============================================================================
