---------------------------- MODULE ForwardChaining ----------------------------
(***************************************************************************)
(* The semi-naive forward-chaining engine, ForwardChainingEngine.reason:   *)
(* saturate the facts round by round, considering only the rule instances  *)
(* with a premise among the literals the preceding round added, keep one   *)
(* derivation per literal, then classify the query and assemble its proof. *)
(*                                                                         *)
(* The engine walks the instances of a round in one canonical order; here  *)
(* a round may take them in any order, so what is shown holds whatever the *)
(* order of the theory's arrays.                                           *)
(***************************************************************************)
EXTENDS Integers, HornTheory

CONSTANTS
  MaxDerivedLiterals,  \* ReasoningLimits.max_derived_literals
  MaxRuleFirings,      \* ReasoningLimits.max_rule_firings
  MaxRounds,           \* ReasoningLimits.max_rounds
  MaxProofNodes,       \* ReasoningLimits.max_proof_nodes
  HasTimeout           \* whether ReasoningLimits.timeout_seconds is set

ASSUME LimitsAssumption ==
  /\ MaxDerivedLiterals \in Nat \ {0}
  /\ MaxRuleFirings \in Nat \ {0}
  /\ MaxRounds \in Nat \ {0}
  /\ MaxProofNodes \in Nat \ {0}
  /\ HasTimeout \in BOOLEAN

VARIABLES
  theory,      \* the theory being reasoned about; never changes
  pc,          \* where the engine is in reason()
  closure,     \* known literal |-> its chosen derivation
  delta,       \* the literals the last merged round added
  pending,     \* instances of the open round not considered yet
  candidates,  \* literal |-> best derivation the open round found for it
  rounds,      \* rounds merged so far
  firings,     \* rule instances considered so far
  error,       \* the limit that stopped the engine, or "none"
  result       \* the answer, once there is one

vars == <<theory, pc, closure, delta, pending, candidates,
          rounds, firings, error, result>>

-----------------------------------------------------------------------------
(***************************************************************************)
(* Derivations.  A step of a proof is a literal, what it comes from and    *)
(* its depth: a source fact, or a rule application together with the       *)
(* literal it derives.  The engine stores the latter as two nodes, which   *)
(* ProofSize counts.                                                       *)
(***************************************************************************)
FromFact(s) == <<"fact", s>>

FromRule(i) == <<"rule", i>>

ProofSize(steps) ==
  Cardinality(steps) + Cardinality({s \in steps : s.by[1] = "rule"})

Known == DOMAIN closure

(* Of several facts for the same literal the smallest source id is kept. *)
SourceOf(t, l) ==
  LET sources == {f.source : f \in {g \in t.facts : g.literal = l}}
  IN  CHOOSE s \in sources : \A r \in sources : s <= r

SourceDerivation(t, l) ==
  LET by == FromFact(SourceOf(t, l))
  IN  [depth |-> 0, by |-> by,
       steps |-> {[literal |-> l, by |-> by, depth |-> 0]}]

PremiseDepths(t, i) == {closure[l].depth : l \in Body(t, i)}

(* A slip: the depth of the shallowest premise. *)
ShallowDepthOf(t, i) ==
  1 + (CHOOSE d \in PremiseDepths(t, i) : \A e \in PremiseDepths(t, i) : d <= e)

DepthOf(t, i) ==
  1 + (CHOOSE d \in PremiseDepths(t, i) : \A e \in PremiseDepths(t, i) : e <= d)

(* A slip: the premises' proofs are left out. *)
BareRuleDerivation(t, i) ==
  [depth |-> DepthOf(t, i),
   by    |-> FromRule(i),
   steps |-> {[literal |-> Head(t, i), by |-> FromRule(i),
               depth |-> DepthOf(t, i)]}]

RuleDerivation(t, i) ==
  [depth |-> DepthOf(t, i),
   by    |-> FromRule(i),
   steps |-> {[literal |-> Head(t, i), by |-> FromRule(i),
               depth |-> DepthOf(t, i)]}
             \cup UNION {closure[l].steps : l \in Body(t, i)}]

(* The choice key: lower depth, then fewer proof nodes, then the canonical *)
(* order of the instances.  Both derivations are rule derivations.         *)
Preferred(d, e) ==
  \/ d.depth < e.depth
  \/ /\ d.depth = e.depth
     /\ \/ ProofSize(d.steps) < ProofSize(e.steps)
        \/ /\ ProofSize(d.steps) = ProofSize(e.steps)
           /\ d.by[2] < e.by[2]

-----------------------------------------------------------------------------

NoResult == [status |-> "none"]

NoDerivations == [l \in {} |-> {}]

Init ==
  /\ theory \in Theories
  /\ pc = "load"
  /\ closure = NoDerivations
  /\ delta = {}
  /\ pending = {}
  /\ candidates = NoDerivations
  /\ rounds = 0
  /\ firings = 0
  /\ error = "none"
  /\ result = NoResult

(* A slip: a limit is taken for the fixpoint. *)
FailAsFixpoint(limit) ==
  /\ pc' = "saturated"
  /\ error' = limit

(* A ResourceLimitError ends the run; nothing it computed is returned. *)
Fail(limit) ==
  /\ pc' = "failed"
  /\ error' = limit

(* Facts become derivations of depth zero and form the first delta. *)
LoadFacts ==
  /\ pc = "load"
  /\ closure' = [l \in FactLiterals(theory) |-> SourceDerivation(theory, l)]
  /\ \/ /\ Cardinality(FactLiterals(theory)) > MaxDerivedLiterals
        /\ Fail("max_derived_literals")
        /\ UNCHANGED delta
     \/ /\ Cardinality(FactLiterals(theory)) <= MaxDerivedLiterals
        /\ delta' = FactLiterals(theory)
        /\ pc' = "round"
        /\ UNCHANGED error
  /\ UNCHANGED <<theory, pending, candidates, rounds, firings, result>>

(* Slips: every premise must be new; or none must be. *)
AllNewMatches ==
  {i \in Instances(theory) : /\ Body(theory, i) \subseteq delta
                             /\ Body(theory, i) # {}}

NaiveMatches ==
  {i \in Instances(theory) : Body(theory, i) \subseteq Known}

(* The instances whose whole body is known and which use a new literal. *)
NewMatches ==
  {i \in Instances(theory) : /\ Body(theory, i) \subseteq Known
                             /\ Body(theory, i) \cap delta # {}}

OpenRound ==
  /\ pc = "round"
  /\ \/ /\ delta = {}
        /\ pc' = "saturated"
        /\ UNCHANGED <<pending, candidates>>
     \/ /\ delta # {}
        /\ pending' = NewMatches
        /\ candidates' = NoDerivations
        /\ pc' = "scan"
  /\ UNCHANGED <<theory, closure, delta, rounds, firings, error, result>>

(* Slips: the first derivation is kept; a known literal is derived again.  *)
OfferFirst(h, d) ==
  candidates' = [l \in DOMAIN candidates \cup ({h} \ Known) |->
                   IF l \notin DOMAIN candidates THEN d ELSE candidates[l]]

OfferAgain(h, d) ==
  candidates' = [l \in DOMAIN candidates \cup {h} |->
                   IF l \notin DOMAIN candidates THEN d ELSE candidates[l]]

(* A derivation of h competes for h, unless h is known already: the        *)
(* candidate the choice key prefers is kept.                               *)
Offer(h, d) ==
  candidates' = [l \in DOMAIN candidates \cup ({h} \ Known) |->
                   IF l = h /\ (h \notin DOMAIN candidates
                                \/ Preferred(d, candidates[h]))
                   THEN d ELSE candidates[l]]

(* A slip: only a derivation of something new has to be small enough. *)
IsLargeNews(h, d) == h \notin Known /\ ProofSize(d.steps) > MaxProofNodes

(* The limit is for every derivation that is built, needed or not. *)
IsTooLarge(h, d) == ProofSize(d.steps) > MaxProofNodes

(* One rule instance: count it, build its derivation, and offer that.      *)
Consider(i) ==
  /\ pc = "scan"
  /\ i \in pending
  /\ pending' = pending \ {i}
  /\ firings' = firings + 1
  /\ LET h == Head(theory, i)
         d == RuleDerivation(theory, i)
     IN  \/ /\ firings' > MaxRuleFirings
            /\ Fail("max_rule_firings")
            /\ UNCHANGED candidates
         \/ /\ firings' <= MaxRuleFirings
            /\ IsTooLarge(h, d)
            /\ Fail("max_proof_nodes")
            /\ UNCHANGED candidates
         \/ /\ firings' <= MaxRuleFirings
            /\ ~IsTooLarge(h, d)
            /\ Offer(h, d)
            /\ UNCHANGED <<pc, error>>
  /\ UNCHANGED <<theory, closure, delta, rounds, result>>

(* End of a round: stop at the fixpoint, or merge the round's candidates. *)
CloseRound ==
  LET size == Cardinality(Known) + Cardinality(DOMAIN candidates)
  IN  /\ pc = "scan"
      /\ pending = {}
      /\ \/ /\ DOMAIN candidates = {}
            /\ pc' = "saturated"
            /\ UNCHANGED <<closure, delta, rounds, error>>
         \/ /\ DOMAIN candidates # {}
            /\ rounds + 1 > MaxRounds
            /\ Fail("max_rounds")
            /\ UNCHANGED <<closure, delta, rounds>>
         \/ /\ DOMAIN candidates # {}
            /\ rounds + 1 <= MaxRounds
            /\ size > MaxDerivedLiterals
            /\ Fail("max_derived_literals")
            /\ UNCHANGED <<closure, delta, rounds>>
         \/ /\ DOMAIN candidates # {}
            /\ rounds + 1 <= MaxRounds
            /\ size <= MaxDerivedLiterals
            /\ closure' = [l \in Known \cup DOMAIN candidates |->
                             IF l \in DOMAIN candidates THEN candidates[l]
                                                        ELSE closure[l]]
            /\ delta' = DOMAIN candidates
            /\ rounds' = rounds + 1
            /\ pc' = "round"
            /\ UNCHANGED error
      /\ UNCHANGED <<theory, pending, candidates, firings, result>>

(* The elapsed-time check at the top of a round and after each rule. *)
TimeOut ==
  /\ HasTimeout
  /\ pc \in {"round", "scan"}
  /\ pc = "round" => delta # {}
  /\ Fail("timeout_seconds")
  /\ UNCHANGED <<theory, closure, delta, pending, candidates,
                 rounds, firings, result>>

(* The query is read only once the closure is complete: its status, and    *)
(* the proof of each side of it that is known.                             *)
QuerySides(q) == {q, Opposite(q)} \cap Known

ProofSteps(q) == UNION {closure[l].steps : l \in QuerySides(q)}

Answer(q) ==
  /\ pc = "saturated"
  /\ \/ /\ ProofSize(ProofSteps(q)) > MaxProofNodes
        /\ Fail("max_proof_nodes")
        /\ UNCHANGED result
     \/ /\ ProofSize(ProofSteps(q)) <= MaxProofNodes
        /\ result' = [query     |-> q,
                      status    |-> Classify(q, Known),
                      conflicts |-> Conflicts(Known),
                      steps     |-> ProofSteps(q)]
        /\ pc' = "answered"
        /\ UNCHANGED error
  /\ UNCHANGED <<theory, closure, delta, pending, candidates, rounds, firings>>

Terminated ==
  /\ pc \in {"answered", "failed"}
  /\ UNCHANGED vars

Next ==
  \/ LoadFacts
  \/ OpenRound
  \/ \E i \in pending : Consider(i)
  \/ CloseRound
  \/ TimeOut
  \/ \E q \in Literal : Answer(q)
  \/ Terminated

(* reason() is one sequential call: it keeps taking steps until it ends. *)
Fairness == WF_vars(Next)

Spec == Init /\ [][Next]_vars /\ Fairness
-----------------------------------------------------------------------------
(***************************************************************************)
(* Properties.                                                             *)
(***************************************************************************)

Origin == {"fact", "rule"} \X Nat

Step == [literal : Literal, by : Origin, depth : Nat]

Derivation == [depth : Nat, by : Origin, steps : SUBSET Step]

LimitNames == {"max_derived_literals", "max_rule_firings", "max_rounds",
               "max_proof_nodes", "timeout_seconds"}

Answers == [query : Literal, status : Statuses,
            conflicts : SUBSET Atoms, steps : SUBSET Step]

(* The type of the engine's state.                                         *)
TypeOK ==
  /\ theory \in Theories
  /\ pc \in {"load", "round", "scan", "saturated", "answered", "failed"}
  /\ Known \subseteq Literal
  /\ closure \in [Known -> Derivation]
  /\ DOMAIN candidates \subseteq Literal
  /\ candidates \in [DOMAIN candidates -> Derivation]
  /\ delta \subseteq Known
  /\ pending \subseteq Instances(theory)
  /\ rounds \in Nat
  /\ firings \in Nat
  /\ error \in LimitNames \cup {"none"}
  /\ result \in Answers \cup {NoResult}

(* Soundness.  Whatever the engine knows, or is about to know, holds in    *)
(* every model of the theory: no round derives a literal from a premise    *)
(* that is not there.                                                      *)
OnlyConsequences ==
  \A S \in SUBSET Literal :
    IsModel(theory, S) => Known \cup DOMAIN candidates \subseteq S

(* The semi-naive bookkeeping loses nothing: while the engine runs, an     *)
(* instance whose body is known has a known or candidate head, or is still *)
(* to be considered in this round, or has a premise in the new delta.      *)
NoMatchIsLost ==
  pc \in {"round", "scan", "saturated", "answered"} =>
    \A i \in Instances(theory) :
      Body(theory, i) \subseteq Known =>
        \/ Head(theory, i) \in Known
        \/ pc = "scan" /\ Head(theory, i) \in DOMAIN candidates
        \/ pc = "scan" /\ i \in pending
        \/ pc = "round" /\ Body(theory, i) \cap delta # {}

(* How the round in progress relates to what is known: nothing is known    *)
(* before the facts are loaded, everything else of depth at most rounds,   *)
(* the delta is what has exactly that depth, and a round only offers       *)
(* literals that are not known, one level deeper.                          *)
RoundDiscipline ==
  /\ pc = "load" => /\ Known = {} /\ delta = {}
                    /\ DOMAIN candidates = {} /\ rounds = 0
  /\ pc \in {"round", "scan", "saturated", "answered"} =>
       FactLiterals(theory) \subseteq Known
  /\ \A l \in Known : closure[l].depth <= rounds
  /\ \A l \in delta : closure[l].depth = rounds
  /\ pc = "scan" =>
       /\ \A i \in pending : /\ Body(theory, i) \subseteq Known
                             /\ Body(theory, i) \cap delta # {}
       /\ \A l \in DOMAIN candidates : /\ l \notin Known
                                       /\ candidates[l].depth = rounds + 1

(* A saturated closure is the least model, whatever limits are set and in  *)
(* whatever order the instances were considered.                           *)
SaturatedIsLeastModel ==
  pc \in {"saturated", "answered"} => Known = LeastModel(theory)

(* An answer is never computed from part of the closure: its status and    *)
(* its conflicts are those of the least model.  In particular a resource   *)
(* limit is never reported as UNKNOWN.                                     *)
AnswerIsCorrect ==
  pc = "answered" =>
    /\ result.status = Classify(result.query, LeastModel(theory))
    /\ result.conflicts = Conflicts(LeastModel(theory))

(* A step is a source fact of the theory, or an instance with that head    *)
(* all of whose premises are steps of the same derivation, one of them     *)
(* exactly one level below it and none higher.                             *)
Justified(t, s, steps) ==
  \/ /\ s.by[1] = "fact"
     /\ s.depth = 0
     /\ [literal |-> s.literal, source |-> s.by[2]] \in t.facts
  \/ /\ s.by[1] = "rule"
     /\ s.by[2] \in Instances(t)
     /\ Head(t, s.by[2]) = s.literal
     /\ \A m \in Body(t, s.by[2]) :
          \E r \in steps : r.literal = m /\ r.depth < s.depth
     /\ \E r \in steps : /\ r.literal \in Body(t, s.by[2])
                         /\ r.depth + 1 = s.depth

(* The step the closure chose for a literal. *)
RootStep(l, d) == [literal |-> l, by |-> d.by, depth |-> d.depth]

(* A derivation is all its literal needs, and merging rounds never mixes   *)
(* proofs: it ends in the literal, every step is justified by its own      *)
(* steps, and every step is the one the closure chose for that literal.    *)
ProofsAreSelfContained ==
  \A l \in Known :
    /\ RootStep(l, closure[l]) \in closure[l].steps
    /\ \A s \in closure[l].steps :
         /\ Justified(theory, s, closure[l].steps)
         /\ s.literal \in Known
         /\ s = RootStep(s.literal, closure[s.literal])

(* Whatever order a round takes its instances in, no instance that was     *)
(* available one round earlier gives a derivation the choice key prefers.  *)
ChosenProofIsPreferred ==
  \A l \in Known : closure[l].by[1] = "rule" =>
    \A i \in Instances(theory) :
      /\ Head(theory, i) = l
      /\ Body(theory, i) \subseteq Known
      /\ \A m \in Body(theory, i) : closure[m].depth < closure[l].depth
      => ~ Preferred(RuleDerivation(theory, i), closure[l])

Matched == {i \in Instances(theory) : Body(theory, i) \subseteq Known}

(* The delta discipline considers each instance whose body becomes known   *)
(* exactly once over the whole saturation, so max_rule_firings bounds the  *)
(* number of matching instances and not the number of rounds.              *)
EachInstanceOnce ==
  /\ firings <= Cardinality(Matched)
  /\ pc \in {"saturated", "answered"} => firings = Cardinality(Matched)

(* What S holds together with what the theory adds to it in one step, and  *)
(* the stages of the naive iteration: nothing of the rounds, the delta or  *)
(* the choice of derivations is in them.                                   *)
Consequences(t, S) ==
  S \cup {Head(t, i) : i \in {j \in Instances(t) : Body(t, j) \subseteq S}}

Stage(t) ==
  LET stage[n \in Nat] ==
        IF n = 0 THEN FactLiterals(t) ELSE Consequences(t, stage[n - 1])
  IN  stage

(* A chosen derivation is as shallow as any: its depth is the first stage  *)
(* of the naive iteration that holds the literal.                          *)
DepthIsMinimal ==
  \A l \in Known :
    /\ l \in Stage(theory)[closure[l].depth]
    /\ closure[l].depth > 0 => l \notin Stage(theory)[closure[l].depth - 1]

(* The proof that is kept is the best there was when its literal was       *)
(* merged: the shallowest, and of these the one the choice key prefers, in *)
(* whatever order the rules are scanned.                                   *)
BestProofIsKept == ChosenProofIsPreferred /\ DepthIsMinimal

(* More rounds than max_rounds are needed, the least model is larger than  *)
(* max_derived_literals, or more instances match it than max_rule_firings. *)
WorkLimitsAreExact ==
  LET model   == LeastModel(theory)
      matched == {i \in Instances(theory) : Body(theory, i) \subseteq model}
  IN  /\ error = "max_rounds" => Stage(theory)[MaxRounds] # model
      /\ error = "max_derived_literals" =>
           Cardinality(model) > MaxDerivedLiterals
      /\ error = "max_rule_firings" => Cardinality(matched) > MaxRuleFirings
      /\ pc \in {"saturated", "answered"} =>
           /\ Stage(theory)[MaxRounds] = model
           /\ Cardinality(model) <= MaxDerivedLiterals
           /\ Cardinality(matched) <= MaxRuleFirings

(* The proofs that the theory asks for: of every instance that matches     *)
(* what is known, also when the proof is of no use, and of the query.      *)
ProofSizes ==
  {ProofSize(RuleDerivation(theory, i).steps) : i \in Matched}

AnswerSizes == {ProofSize(ProofSteps(q)) : q \in Literal}

(* One of these proofs is larger than max_proof_nodes.                     *)
ProofLimitIsExact ==
  /\ error = "max_proof_nodes" =>
       \E n \in ProofSizes \cup AnswerSizes : n > MaxProofNodes
  /\ pc \in {"saturated", "answered"} =>
       \A n \in ProofSizes : n <= MaxProofNodes
  /\ pc = "answered" => ProofSize(result.steps) <= MaxProofNodes

(* A limit stops a theory only when the theory exceeds it, and an answer   *)
(* means that it exceeds none: whether one does is decided by the theory   *)
(* and the instances that match, not by the rounds or by their order.      *)
LimitsAreExact == WorkLimitsAreExact /\ ProofLimitIsExact

(* What the saturation can still do: two steps for each literal that an    *)
(* instance may add, one for each instance, and what is left of the round. *)
Addable == {Head(theory, i) : i \in Instances(theory)} \ Known

StagesLeft ==
  CASE pc = "load" -> 4 [] pc = "round" -> 3 [] pc = "scan" -> 2
    [] pc = "saturated" -> 1 [] pc \in {"answered", "failed"} -> 0

StepsLeft ==
  2 * Cardinality(Addable) + (Cardinality(Instances(theory)) - firings) + StagesLeft

(* The saturation ends by itself, without any limit: every step leaves     *)
(* fewer, of a number that the theory alone decides.                       *)
SaturationEnds == [][StepsLeft' < StepsLeft /\ StepsLeft' >= 0]_vars

(* A literal keeps the derivation it was given when it was merged: a later *)
(* round never replaces it, so premise identifiers in proofs stay valid.   *)
DerivationsAreFinal ==
  [][\A l \in Known : l \in DOMAIN closure' /\ closure'[l] = closure[l]]_vars

(* The closure only grows, and to an end: what a proof refers to stays as  *)
(* it is, and saturation needs no limit to stop.                           *)
ClosureGrowsToAnEnd == DerivationsAreFinal /\ SaturationEnds

Outcome ==
  CASE pc = "answered" -> [kind      |-> "answer",
                           query     |-> result.query,
                           status    |-> result.status,
                           conflicts |-> result.conflicts]
    [] pc = "failed"   -> [kind |-> "limit"]
    [] OTHER           -> [kind |-> "running"]

(* The engine implements the one-step definition of entailment: it runs,   *)
(* and then either gives the answer of the least model or stops at a       *)
(* limit, and it does one of the two.                                      *)
Entailed == INSTANCE Entailment WITH outcome <- Outcome

ImplementsEntailment == Entailed!Spec
=============================================================================
