-------------------------- MODULE MCReviewWorkflow --------------------------
(* Panels a request can ask for, out of the personas of providers.yml: the *)
(* first one is OpenAI's.                                                  *)
EXTENDS ReviewWorkflow

Seat(p) == IF p = 1 THEN "openai" ELSE "other"
PanelOf(members) == [p \in Persona |-> IF p \in members THEN Seat(p) ELSE "out"]

FullPanel == {PanelOf(Persona)}
AnyPanel == {PanelOf(members) : members \in SUBSET Persona}
=============================================================================
