--------------------------- MODULE VerifiedReasoning ---------------------------
(***************************************************************************)
(* The engine and the independent verifier, ProofVerifier.verify_result,   *)
(* with the same limits.  The verifier is handed a result for the theory,  *)
(* the engine's own or another, closes the facts by naive rounds that      *)
(* match every instance again, and then checks the conflicts, the roots,   *)
(* every step of the proof, that no step is idle, and the status.          *)
(*                                                                         *)
(* A claim is about this theory and its query: hashes and identifiers,     *)
(* which tie a proof to its theory and a node to its content, are not      *)
(* modelled.  A step names its premises by their literals, so the steps of *)
(* a claim have distinct literals.                                         *)
(***************************************************************************)
EXTENDS ForwardChaining

VARIABLES
  vpc,      \* where the verifier is in verify_result()
  claim,    \* the result it was handed
  naive,    \* the literals of its own closure so far
  recount,  \* instances matched, counted again in every round
  passes,   \* rounds that added a literal
  verdict   \* "verified", "refused", the limit that stopped it, or "none"

verifierVars == <<vpc, claim, naive, recount, passes, verdict>>

-----------------------------------------------------------------------------
(***************************************************************************)
(* Claims.                                                                 *)
(***************************************************************************)
Root(l) == {RootStep(m, closure[m]) : m \in {l} \cap Known}

OwnResult ==
  [query      |-> result.query,
   status     |-> result.status,
   conflicts  |-> Cardinality(result.conflicts),
   support    |-> Root(result.query),
   opposition |-> Root(Opposite(result.query)),
   steps      |-> result.steps]

(* An UNKNOWN that needs no proof. *)
Fabricated(q) ==
  [query |-> q, status |-> "UNKNOWN", conflicts |-> 0,
   support |-> {}, opposition |-> {}, steps |-> {}]

(* The proof with r in the place of s, wherever s is referred to. *)
Swap(S, s, r) == IF s \in S THEN (S \ {s}) \cup {r} ELSE S

Replaced(c, s, r) ==
  [c EXCEPT !.steps      = Swap(c.steps, s, r),
            !.support    = Swap(c.support, s, r),
            !.opposition = Swap(c.opposition, s, r)]

(* One side of an inconsistent query, told as the whole answer. *)
OneSided(c) ==
  {[c EXCEPT !.status = "ENTAILED", !.opposition = {},
             !.steps = closure[l].steps] : l \in {c.query} \cap Known}

Origins(t) ==
  {FromFact(f.source) : f \in t.facts} \cup {FromRule(i) : i \in Instances(t)}

IdleSteps(t, c) ==
  {[literal |-> f.literal, by |-> FromFact(f.source), depth |-> 0] :
     f \in {g \in t.facts : \A s \in c.steps : s.literal # g.literal}}

(* What the tests tamper with, and what a faulty engine might return. *)
Tampered(t, c) ==
  {Fabricated(c.query)}
  \cup OneSided(c)
  \cup {[c EXCEPT !.status = s] : s \in Statuses}
  \cup {[c EXCEPT !.conflicts = c.conflicts + 1],
        [c EXCEPT !.support = {}], [c EXCEPT !.opposition = {}]}
  \cup {[c EXCEPT !.steps = c.steps \ {s}] : s \in c.steps}
  \cup {[c EXCEPT !.steps = c.steps \cup {s}] : s \in IdleSteps(t, c)}
  \cup {Replaced(c, s, [s EXCEPT !.depth = s.depth + 1]) : s \in c.steps}
  \cup {Replaced(c, s, [s EXCEPT !.by = o]) : s \in c.steps, o \in Origins(t)}

NoClaim == [status |-> "none"]

-----------------------------------------------------------------------------

VInit ==
  /\ Init
  /\ vpc = "idle"
  /\ claim = NoClaim
  /\ naive = {}
  /\ recount = 0
  /\ passes = 0
  /\ verdict = "none"

Finish(v) ==
  /\ vpc' = "done"
  /\ verdict' = v

(* The verifier is handed a result and starts its closure from the facts.  *)
Present(c) ==
  /\ vpc = "idle"
  /\ claim' = c
  /\ naive' = FactLiterals(theory)
  /\ \/ /\ Cardinality(FactLiterals(theory)) > MaxDerivedLiterals
        /\ Finish("max_derived_literals")
     \/ /\ Cardinality(FactLiterals(theory)) <= MaxDerivedLiterals
        /\ vpc' = "closing"
        /\ UNCHANGED verdict
  /\ UNCHANGED <<recount, passes>>

(* One round of _naive_closure: every instance that matches counts, however *)
(* often it matched before; a round that adds nothing ends the closure.    *)
NaiveRound ==
  LET matched == {i \in Instances(theory) : Body(theory, i) \subseteq naive}
      counted == recount + Cardinality(matched)
      new     == {Head(theory, i) : i \in matched} \ naive
  IN  /\ vpc = "closing"
      /\ recount' = counted
      /\ \/ /\ counted > MaxRuleFirings
            /\ Finish("max_rule_firings")
            /\ UNCHANGED <<naive, passes>>
         \/ /\ counted <= MaxRuleFirings
            /\ new = {}
            /\ vpc' = "checking"
            /\ UNCHANGED <<naive, passes, verdict>>
         \/ /\ counted <= MaxRuleFirings
            /\ new # {}
            /\ passes' = passes + 1
            /\ passes' > MaxRounds
            /\ Finish("max_rounds")
            /\ UNCHANGED naive
         \/ /\ counted <= MaxRuleFirings
            /\ new # {}
            /\ passes' = passes + 1
            /\ passes' <= MaxRounds
            /\ naive' = naive \cup new
            /\ \/ /\ Cardinality(naive') > MaxDerivedLiterals
                  /\ Finish("max_derived_literals")
               \/ /\ Cardinality(naive') <= MaxDerivedLiterals
                  /\ UNCHANGED <<vpc, verdict>>
      /\ UNCHANGED claim

(* Each side the status tells of has a root for its literal, and no other  *)
(* side has; UNKNOWN has no proof.                                         *)
RootsStand(c) ==
  /\ c.support # {} <=> c.status \in {"ENTAILED", "INCONSISTENT"}
  /\ c.opposition # {} <=> c.status \in {"CONTRADICTED", "INCONSISTENT"}
  /\ c.status = "UNKNOWN" => c.steps = {}
  /\ c.support \cup c.opposition \subseteq c.steps
  /\ \A r \in c.support : r.literal = c.query
  /\ \A r \in c.opposition : r.literal = Opposite(c.query)

Premises(t, s, steps) ==
  IF s.by[1] = "rule" THEN {r \in steps : r.literal \in Body(t, s.by[2])} ELSE {}

(* A slip: as deep as its shallowest premise asks for. *)
IsShallowDepth(d, premises) ==
  \E r \in premises : d = r.depth + 1 /\ \A q \in premises : r.depth <= q.depth

IsExpectedDepth(d, premises) ==
  \E r \in premises : d = r.depth + 1 /\ \A q \in premises : q.depth <= r.depth

FactStands(t, s) ==
  /\ [literal |-> s.literal, source |-> s.by[2]] \in t.facts
  /\ s.depth = 0

RuleStands(t, s, steps) ==
  /\ s.by[2] \in Instances(t)
  /\ \A m \in Body(t, s.by[2]) : \E r \in steps : r.literal = m
  /\ s.literal = Head(t, s.by[2])
  /\ IsExpectedDepth(s.depth, Premises(t, s, steps))

StepStands(t, s, steps) ==
  IF s.by[1] = "fact" THEN FactStands(t, s) ELSE RuleStands(t, s, steps)

(* A slip: what is not reached is not looked for. *)
EveryStep(t, roots, steps) == steps

(* What the roots rest on, however indirectly. *)
Reachable(t, roots, steps) ==
  {s \in steps : \A S \in SUBSET steps :
     roots \subseteq S /\ (\A r \in S : Premises(t, r, steps) \subseteq S)
       => s \in S}

ProofStands(t, c) ==
  /\ RootsStand(c)
  /\ \A s \in c.steps : StepStands(t, s, c.steps)
  /\ Reachable(t, c.support \cup c.opposition, c.steps) = c.steps

(* The conflicts come first, then the size of the proof, then the proof    *)
(* itself and last its status.                                             *)
Check ==
  LET countsAgree == claim.conflicts = Cardinality(Conflicts(naive))
      tooLarge    == ProofSize(claim.steps) > MaxProofNodes
      stands      == /\ ProofStands(theory, claim)
                     /\ claim.status = Classify(claim.query, naive)
  IN  /\ vpc = "checking"
      /\ \/ ~countsAgree /\ Finish("refused")
         \/ countsAgree /\ tooLarge /\ Finish("max_proof_nodes")
         \/ countsAgree /\ ~tooLarge /\ ~stands /\ Finish("refused")
         \/ countsAgree /\ ~tooLarge /\ stands /\ Finish("verified")
      /\ UNCHANGED <<claim, naive, recount, passes>>

(* A result is verified when the engine has answered; a claim may also be  *)
(* made for a theory the engine gave up on.                                *)
Verify ==
  \/ /\ pc = "answered"
     /\ \E c \in {OwnResult} \cup Tampered(theory, OwnResult) : Present(c)
  \/ /\ pc = "failed"
     /\ \E q \in Literal : Present(Fabricated(q))
  \/ NaiveRound
  \/ Check

VNext ==
  \/ Next /\ UNCHANGED verifierVars
  \/ Verify /\ UNCHANGED vars

VSpec == VInit /\ [][VNext]_<<vars, verifierVars>>
-----------------------------------------------------------------------------
(***************************************************************************)
(* Properties.                                                             *)
(***************************************************************************)

(* The verifier and the engine agree: with the same limits, a result of    *)
(* the engine is never refused, and of the limits only max_rule_firings,   *)
(* which the naive rounds reach sooner, can stop its verification.         *)
OwnResultsVerify ==
  pc = "answered" /\ vpc = "done" /\ claim = OwnResult =>
    verdict \in {"verified", "max_rule_firings"}

(* S proves the claim: it holds the roots, and each of its steps rests on  *)
(* steps of S.                                                             *)
Proves(t, c, S) ==
  /\ c.support \cup c.opposition \subseteq S
  /\ \A s \in S : Justified(t, s, S)

(* What is verified is right, whoever made the claim: status and conflicts *)
(* are those of the least model, each side of the query that holds has a   *)
(* proof from the facts, and the steps are no more than these proofs need. *)
VerifiedIsRight ==
  verdict = "verified" =>
    LET model == LeastModel(theory)
    IN  /\ claim.status = Classify(claim.query, model)
        /\ claim.conflicts = Cardinality(Conflicts(model))
        /\ \A l \in {claim.query, Opposite(claim.query)} \cap model :
             \E r \in claim.support \cup claim.opposition : r.literal = l
        /\ Proves(theory, claim, claim.steps)
        /\ \A S \in SUBSET claim.steps :
             Proves(theory, claim, S) => S = claim.steps
=============================================================================
