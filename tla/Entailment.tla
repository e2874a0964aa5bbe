------------------------------ MODULE Entailment ------------------------------
(***************************************************************************)
(* What a reasoner promises: asked about a theory, it answers a query with *)
(* the status and the conflicts of the theory's least model, or gives up   *)
(* at a resource limit.  It never answers anything else.                   *)
(***************************************************************************)
EXTENDS HornTheory

VARIABLES theory, outcome

AnswerTo(q) ==
  LET model == LeastModel(theory) IN
  [kind      |-> "answer",
   query     |-> q,
   status    |-> Classify(q, model),
   conflicts |-> Conflicts(model)]

Init ==
  /\ theory \in Theories
  /\ outcome = [kind |-> "running"]

Decide ==
  /\ outcome.kind = "running"
  /\ \/ outcome' = [kind |-> "limit"]
     \/ \E q \in Literal : outcome' = AnswerTo(q)
  /\ UNCHANGED theory

Safety == Init /\ [][Decide]_<<theory, outcome>>

Spec == Safety /\ WF_<<theory, outcome>>(Decide)
=============================================================================
