-------------------------- MODULE ReviewLifecycle --------------------------
(***************************************************************************)
(* What a review promises to those who read it: a debate in which no round *)
(* is spoken before somebody spoke in the round before it, and one report, *)
(* which ends the debate for good and comes either from a debate of two    *)
(* rounds at least or from the scripted replacement, never from both.      *)
(* The owner may delete it all at any time.                                *)
(*                                                                         *)
(* ReviewWorkflow implements this, as long as every publication to the     *)
(* broker is confirmed and the web process reaches the database.           *)
(***************************************************************************)
EXTENDS Naturals

CONSTANT Persona

VARIABLES
  status,  \* reviews.status
  round,   \* reviews.current_round
  report,  \* who wrote reviews.final_report: "none", "chain" or "mock"
  said     \* the turns <<persona, round>> in the review room

vars == <<status, round, report, said>>

Init ==
  /\ status = "pending"
  /\ round = 0
  /\ report = "none"
  /\ said = {}

Open == status \in {"pending", "in_progress"}
SpokenIn(r) == \E p \in Persona : <<p, r>> \in said

Begin ==
  /\ status = "pending"
  /\ status' = "in_progress"
  /\ UNCHANGED <<round, report, said>>

Speak(p, r) ==
  /\ Open
  /\ r > 1 => SpokenIn(r - 1)
  /\ said' = said \cup {<<p, r>>}
  /\ UNCHANGED <<status, round, report>>

\* The status and the round may be late, but never turn back.
Advance(r) ==
  /\ Open
  /\ r > round
  /\ round' = r
  /\ status' \in {status, "in_progress"}
  /\ UNCHANGED <<report, said>>

Conclude ==
  /\ Open
  /\ SpokenIn(1) /\ SpokenIn(2)
  /\ status' = "completed"
  /\ report' = "chain"
  /\ UNCHANGED <<round, said>>

Script ==
  /\ Open
  /\ said = {} /\ round = 0
  /\ status' = "completed"
  /\ report' = "mock"
  /\ UNCHANGED <<round, said>>

Delete ==
  /\ status # "gone"
  /\ status' = "gone"
  /\ round' = 0
  /\ report' = "none"
  /\ said' = {}

Next ==
  \/ Begin \/ Conclude \/ Script \/ Delete
  \/ \E r \in 1..4 : Advance(r) \/ \E p \in Persona : Speak(p, r)

Spec == Init /\ [][Next]_vars
=============================================================================
