------------------------ MODULE VerifiedReasoning_proofs ------------------------
(***************************************************************************)
(* Proofs about the forward-chaining engine and the independent verifier,  *)
(* for every set of theories and all limits.                               *)
(***************************************************************************)
EXTENDS VerifiedReasoning, FiniteSetTheorems, WellFoundedInduction, TLAPS

(* A non-empty set of naturals has a least element.  The initial segments  *)
(* below its elements are finite sets, which strict inclusion orders well. *)
LEMMA LeastNat ==
  ASSUME NEW S \in SUBSET Nat, S # {}
  PROVE  \E x \in S : \A y \in S : x <= y
<1> DEFINE Below(x) == {k \in Nat : k < x}
           T == {Below(x) : x \in S}
           R == StrictSubsetOrdering(Nat)
<1>1. T \subseteq FiniteSubsetsOf(Nat) /\ T # {}
  <2>1. ASSUME NEW x \in S  PROVE Below(x) \in FiniteSubsetsOf(Nat)
    <3>1. \A k \in Below(x) : k <= x /\ Below(x) \subseteq Nat /\ x \in Nat
      OBVIOUS
    <3>2. IsFiniteSet(Below(x))
      BY FS_BoundedSetOfNaturals
    <3> QED  BY <3>2 DEF FiniteSubsetsOf
  <2> QED  BY <2>1
<1>2. IsWellFoundedOn(R, FiniteSubsetsOf(Nat))
  BY FS_StrictSubsetOrderingWellFounded
<1>3. \E X \in T : \A Y \in T : ~ (<<Y, X>> \in R)
  <2> HIDE DEF T, R
  <2> QED  BY <1>1, <1>2, WFMin
<1>4. PICK x \in S : \A y \in S : ~ (<<Below(y), Below(x)>> \in R)
  BY <1>3
<1>5. ASSUME NEW y \in S, y < x  PROVE FALSE
  <2>1. Below(y) \subseteq Below(x) /\ y \in Below(x) /\ y \notin Below(y)
    BY <1>5
  <2>2. <<Below(y), Below(x)>> \in R
    BY <2>1 DEF StrictSubsetOrdering
  <2> QED  BY <2>2, <1>4
<1> QED  BY <1>5

-----------------------------------------------------------------------------
(***************************************************************************)
(* Derivations have the type the closure needs.                            *)
(***************************************************************************)

LEMMA TheoryType ==
  ASSUME NEW t \in Theories
  PROVE  /\ FactLiterals(t) \subseteq Literal
         /\ \A i \in Instances(t) : /\ i \in Nat
                                    /\ Body(t, i) \subseteq Literal
                                    /\ Body(t, i) # {}
                                    /\ Head(t, i) \in Literal
<1> IsTheory(t)
  BY TheoriesAssumption
<1>1. FactLiterals(t) \subseteq Literal
  BY DEF IsTheory, FactLiterals
<1>2. ASSUME NEW i \in Instances(t)
      PROVE  /\ i \in Nat /\ Body(t, i) \subseteq Literal
             /\ Body(t, i) # {} /\ Head(t, i) \in Literal
  <2>1. i \in DOMAIN t.instance /\ i \in Nat
    BY DEF IsTheory, Instances
  <2>2. t.instance[i] \in Instance
    BY <2>1 DEF IsTheory
  <2> QED  BY <2>1, <2>2 DEF IsTheory, Instance, Body, Head
<1> QED  BY <1>1, <1>2

LEMMA SourceDerivationType ==
  ASSUME NEW t \in Theories, NEW l \in FactLiterals(t)
  PROVE  /\ SourceDerivation(t, l) \in Derivation
         /\ SourceDerivation(t, l).depth = 0
<1> DEFINE sources == {f.source : f \in {g \in t.facts : g.literal = l}}
<1>1. IsTheory(t)
  BY TheoriesAssumption
<1>2. sources \subseteq Nat /\ sources # {} /\ l \in Literal
  BY <1>1 DEF IsTheory, FactLiterals
<1>3. \E x \in sources : \A y \in sources : x <= y
  <2> HIDE DEF sources
  <2> QED  BY <1>2, LeastNat
<1>4. SourceOf(t, l) \in Nat
  BY <1>2, <1>3 DEF SourceOf
<1>5. FromFact(SourceOf(t, l)) \in Origin
  BY <1>4 DEF FromFact, Origin
<1>6. [literal |-> l, by |-> FromFact(SourceOf(t, l)), depth |-> 0] \in Step
  BY <1>2, <1>5 DEF Step
<1> QED  BY <1>5, <1>6 DEF SourceDerivation, Derivation

(* In a round, a derivation is one level deeper than the delta: one        *)
(* premise has depth rounds and none is deeper.                            *)
LEMMA RuleDerivationType ==
  ASSUME TypeOK, RoundDiscipline, NEW i \in Instances(theory),
         Body(theory, i) \subseteq Known, Body(theory, i) \cap delta # {}
  PROVE  /\ RuleDerivation(theory, i) \in Derivation
         /\ RuleDerivation(theory, i).depth = rounds + 1
<1> USE DEF TypeOK
<1>1. /\ i \in Nat /\ Body(theory, i) \subseteq Literal
      /\ Head(theory, i) \in Literal
  BY TheoryType
<1>2. \A l \in Known : closure[l] \in Derivation
  OBVIOUS
<1>3. \A l \in Known : closure[l].depth \in Nat /\ closure[l].steps \subseteq Step
  BY <1>2 DEF Derivation
<1>4. \A d \in PremiseDepths(theory, i) : d \in Nat /\ d <= rounds
  BY <1>3 DEF PremiseDepths, RoundDiscipline
<1>5. rounds \in PremiseDepths(theory, i)
  BY DEF PremiseDepths, RoundDiscipline
<1>6. DepthOf(theory, i) = rounds + 1
  <2> DEFINE P == PremiseDepths(theory, i)
             D == CHOOSE d \in P : \A e \in P : e <= d
  <2>1. \E d \in P : \A e \in P : e <= d
    BY <1>4, <1>5
  <2>2. D \in P /\ \A e \in P : e <= D
    <3> HIDE DEF P
    <3> QED  BY <2>1
  <2>3. D = rounds
    <3> HIDE DEF D
    <3> QED  BY <2>2, <1>4, <1>5
  <2>4. DepthOf(theory, i) = 1 + D
    BY DEF DepthOf
  <2> HIDE DEF D
  <2> QED  BY <2>3, <2>4
<1>7. FromRule(i) \in Origin
  BY <1>1 DEF FromRule, Origin
<1>8. UNION {closure[l].steps : l \in Body(theory, i)} \subseteq Step
  BY <1>3
<1>9. [literal |-> Head(theory, i), by |-> FromRule(i),
       depth |-> DepthOf(theory, i)] \in Step
  BY <1>1, <1>6, <1>7 DEF Step
<1>10. RuleDerivation(theory, i).steps \subseteq Step
  BY <1>8, <1>9 DEF RuleDerivation
<1> QED  BY <1>6, <1>7, <1>10 DEF RuleDerivation, Derivation

-----------------------------------------------------------------------------
(***************************************************************************)
(* Types and the shape of a round.                                         *)
(***************************************************************************)

Shape == TypeOK /\ RoundDiscipline

LEMMA InitShape == Init => Shape
<1> SUFFICES ASSUME Init PROVE Shape
  OBVIOUS
<1>1. Known = {} /\ DOMAIN candidates = {}
  BY DEF Init, Known, NoDerivations
<1>2. closure \in [Known -> Derivation] /\ candidates \in [DOMAIN candidates -> Derivation]
  BY <1>1 DEF Init, NoDerivations
<1> QED  BY <1>1, <1>2 DEF Init, Shape, TypeOK, RoundDiscipline

LEMMA LoadFactsShape == Shape /\ LoadFacts => Shape'
<1> SUFFICES ASSUME Shape, LoadFacts PROVE Shape'
  OBVIOUS
<1> USE DEF Shape, TypeOK
<1>1. Known' = FactLiterals(theory) /\ FactLiterals(theory) \subseteq Literal
  BY TheoryType DEF LoadFacts, Known
<1>2. \A l \in Known' : /\ closure'[l] = SourceDerivation(theory, l)
                        /\ closure'[l] \in Derivation
                        /\ closure'[l].depth = 0
  BY <1>1, SourceDerivationType DEF LoadFacts
<1>3. closure' \in [Known' -> Derivation]
  BY <1>1, <1>2 DEF LoadFacts
<1>4. delta' \subseteq Known' /\ delta' \subseteq Literal
  BY <1>1 DEF LoadFacts, RoundDiscipline
<1>5. TypeOK'
  BY <1>1, <1>3, <1>4 DEF LoadFacts, Fail, LimitNames, Known
<1>6. RoundDiscipline'
  BY <1>1, <1>2, <1>4 DEF LoadFacts, Fail, RoundDiscipline, Known
<1> QED  BY <1>5, <1>6

LEMMA OpenRoundShape == Shape /\ OpenRound => Shape'
<1> SUFFICES ASSUME Shape, OpenRound PROVE Shape'
  OBVIOUS
<1> USE DEF Shape, TypeOK, OpenRound, NoDerivations
<1>1. Known' = Known
  BY DEF Known
<1>2. DOMAIN candidates' \subseteq Literal /\ candidates' \in [DOMAIN candidates' -> Derivation]
  OBVIOUS
<1>3. TypeOK'
  BY <1>1, <1>2 DEF NewMatches
<1>4. pc' = "scan" => DOMAIN candidates' = {} /\ pending' = NewMatches
  OBVIOUS
<1>5. RoundDiscipline'
  BY <1>1, <1>4 DEF NewMatches, RoundDiscipline
<1> QED  BY <1>3, <1>5

LEMMA ConsiderShape ==
  ASSUME Shape, NEW i \in pending, Consider(i)
  PROVE  Shape'
<1> USE DEF Shape, TypeOK
<1>1. pc = "scan" /\ Known' = Known /\ i \in Instances(theory)
  BY DEF Consider, Known
<1>2. /\ Body(theory, i) \subseteq Known
      /\ Body(theory, i) \cap delta # {}
  BY <1>1 DEF RoundDiscipline
<1> DEFINE h == Head(theory, i)
           d == RuleDerivation(theory, i)
<1>3. d \in Derivation /\ d.depth = rounds + 1 /\ h \in Literal
  BY <1>1, <1>2, RuleDerivationType, TheoryType
<1> HIDE DEF h, d
<1>4. /\ DOMAIN candidates' \subseteq Literal
      /\ candidates' \in [DOMAIN candidates' -> Derivation]
      /\ pc' = "scan" => \A l \in DOMAIN candidates' :
            l \notin Known /\ candidates'[l].depth = rounds + 1
  <2>1. CASE UNCHANGED candidates
    BY <2>1, <1>1 DEF RoundDiscipline
  <2>2. CASE Offer(h, d)
    <3>1. DOMAIN candidates' = DOMAIN candidates \cup ({h} \ Known)
      BY <2>2 DEF Offer
    <3>2. \A l \in DOMAIN candidates' :
            \/ l = h /\ candidates'[l] = d
            \/ l \in DOMAIN candidates /\ candidates'[l] = candidates[l]
      BY <2>2 DEF Offer
    <3>3. candidates' = [l \in DOMAIN candidates' |-> candidates'[l]]
      BY <2>2, <3>1 DEF Offer
    <3>4. \A l \in DOMAIN candidates' : l \notin Known
      BY <1>1, <3>1 DEF RoundDiscipline
    <3> QED  BY <1>1, <1>3, <3>1, <3>2, <3>3, <3>4 DEF RoundDiscipline
  <2> QED  BY <2>1, <2>2 DEF Consider, h, d
<1>5. TypeOK'
  BY <1>1, <1>4 DEF Consider, Fail, LimitNames, Known
<1>6. RoundDiscipline'
  BY <1>1, <1>4 DEF Consider, Fail, RoundDiscipline, Known
<1> QED  BY <1>5, <1>6

LEMMA CloseRoundShape == Shape /\ CloseRound => Shape'
<1> SUFFICES ASSUME Shape, CloseRound PROVE Shape'
  OBVIOUS
<1> USE DEF Shape, TypeOK
<1>1. CASE UNCHANGED <<closure, delta, rounds>>
  <2>1. Known' = Known /\ pc' \in {"saturated", "failed"} /\ pc = "scan"
    BY <1>1 DEF Known, CloseRound, Fail
  <2> QED  BY <1>1, <2>1 DEF CloseRound, Fail, LimitNames, RoundDiscipline
<1>2. CASE /\ delta' = DOMAIN candidates
           /\ closure' = [l \in Known \cup DOMAIN candidates |->
                  IF l \in DOMAIN candidates THEN candidates[l] ELSE closure[l]]
           /\ rounds' = rounds + 1 /\ pc' = "round" /\ UNCHANGED error
  <2>1. Known' = Known \cup DOMAIN candidates
    BY <1>2 DEF Known
  <2>2. \A l \in Known' :
          \/ l \in DOMAIN candidates /\ closure'[l] = candidates[l]
          \/ /\ l \in Known /\ l \notin DOMAIN candidates
             /\ closure'[l] = closure[l]
    BY <1>2, <2>1
  <2>3. closure' \in [Known' -> Derivation]
    BY <1>2, <2>1
  <2>4. \A l \in Known : closure[l].depth \in Nat
    BY DEF Derivation
  <2>5. TypeOK'
    BY <1>2, <2>1, <2>3 DEF CloseRound
  <2>6. RoundDiscipline'
    BY <1>2, <2>1, <2>2, <2>4 DEF CloseRound, RoundDiscipline
  <2> QED  BY <2>5, <2>6
<1> QED  BY <1>1, <1>2 DEF CloseRound

LEMMA TimeOutShape == Shape /\ TimeOut => Shape'
BY DEF Shape, TypeOK, RoundDiscipline, TimeOut, Fail, LimitNames, Known

LEMMA AnswerShape ==
  ASSUME Shape, NEW q \in Literal, Answer(q)
  PROVE  Shape'
<1> USE DEF Shape, TypeOK
<1>1. Known' = Known /\ pc = "saturated"
  BY DEF Answer, Known
<1>2. result' \in Answers \cup {NoResult}
  <2>1. CASE UNCHANGED result
    BY <2>1
  <2>2. CASE result' = [query     |-> q,
                        status    |-> Classify(q, Known),
                        conflicts |-> Conflicts(Known),
                        steps     |-> ProofSteps(q)]
    <3>1. Classify(q, Known) \in Statuses
      BY DEF Classify, Statuses
    <3>2. Conflicts(Known) \subseteq Atoms
      BY DEF Conflicts, Literal
    <3>3. ProofSteps(q) \subseteq Step
      BY DEF ProofSteps, QuerySides, Derivation
    <3> QED  BY <2>2, <3>1, <3>2, <3>3 DEF Answers
  <2> QED  BY <2>1, <2>2 DEF Answer
<1>3. TypeOK'
  BY <1>1, <1>2 DEF Answer, Fail, LimitNames, Known
<1>4. RoundDiscipline'
  BY <1>1 DEF Answer, Fail, RoundDiscipline, Known
<1> QED  BY <1>3, <1>4

LEMMA NextShape == Shape /\ [Next]_vars => Shape'
<1> SUFFICES ASSUME Shape, [Next]_vars PROVE Shape'
  OBVIOUS
<1>1. CASE UNCHANGED vars
  BY <1>1 DEF Shape, TypeOK, RoundDiscipline, vars, Known
<1> QED
  BY <1>1, LoadFactsShape, OpenRoundShape, ConsiderShape, CloseRoundShape,
     TimeOutShape, AnswerShape DEF Next, Terminated

(* The engine's state keeps its type.                                      *)
THEOREM TypeCorrect == Spec => []TypeOK
<1>1. Shape => TypeOK
  BY DEF Shape
<1> QED  BY <1>1, InitShape, NextShape, PTL DEF Spec

(* A round offers only unknown literals, one level deeper than the delta.  *)
THEOREM RoundsAreDisciplined == Spec => []RoundDiscipline
<1>1. Shape => RoundDiscipline
  BY DEF Shape
<1> QED  BY <1>1, InitShape, NextShape, PTL DEF Spec

-----------------------------------------------------------------------------
(***************************************************************************)
(* Soundness and completeness of saturation.                               *)
(***************************************************************************)

LEMMA TheoryIsFixed == [Next]_vars => theory' = theory
<1>1. LoadFacts => theory' = theory
  BY DEF LoadFacts
<1>2. OpenRound => theory' = theory
  BY DEF OpenRound
<1>3. \A i \in pending : Consider(i) => theory' = theory
  BY DEF Consider
<1>4. CloseRound => theory' = theory
  BY DEF CloseRound
<1>5. TimeOut => theory' = theory
  BY DEF TimeOut
<1>6. \A q \in Literal : Answer(q) => theory' = theory
  BY DEF Answer
<1>7. UNCHANGED vars => theory' = theory
  BY DEF vars
<1> QED
  BY <1>1, <1>2, <1>3, <1>4, <1>5, <1>6, <1>7 DEF Next, Terminated

LEMMA InitSound == Init => OnlyConsequences
BY DEF Init, OnlyConsequences, Known, NoDerivations

LEMMA NextSound == Shape /\ OnlyConsequences /\ [Next]_vars => OnlyConsequences'
<1> SUFFICES ASSUME Shape, OnlyConsequences, [Next]_vars,
                    NEW S \in SUBSET Literal, IsModel(theory, S)
             PROVE  Known' \cup DOMAIN candidates' \subseteq S
  BY TheoryIsFixed DEF OnlyConsequences
<1>1. Known \cup DOMAIN candidates \subseteq S
  BY DEF OnlyConsequences
<1>2. CASE LoadFacts
  BY <1>1, <1>2 DEF LoadFacts, Known, IsModel
<1>3. CASE OpenRound
  BY <1>1, <1>3 DEF OpenRound, Known, NoDerivations
<1>4. ASSUME NEW i \in pending, Consider(i)
      PROVE  Known' \cup DOMAIN candidates' \subseteq S
  <2>1. Body(theory, i) \subseteq Known /\ i \in Instances(theory)
    BY <1>4 DEF Consider, Shape, RoundDiscipline, TypeOK
  <2>2. Head(theory, i) \in S
    BY <1>1, <2>1 DEF IsModel
  <2>3. DOMAIN candidates' \subseteq DOMAIN candidates \cup {Head(theory, i)}
    BY <1>4 DEF Consider, Offer
  <2> QED  BY <1>1, <1>4, <2>2, <2>3 DEF Consider, Known
<1>5. CASE CloseRound
  <2>1. Known' \subseteq Known \cup DOMAIN candidates /\ candidates' = candidates
    BY <1>5 DEF CloseRound, Known
  <2> QED  BY <1>1, <2>1
<1>6. CASE TimeOut
  BY <1>1, <1>6 DEF TimeOut, Known
<1>7. ASSUME NEW q \in Literal, Answer(q)
      PROVE  Known' \cup DOMAIN candidates' \subseteq S
  BY <1>1, <1>7 DEF Answer, Known
<1>8. CASE UNCHANGED vars
  BY <1>1, <1>8 DEF vars, Known
<1> QED
  BY <1>2, <1>3, <1>4, <1>5, <1>6, <1>7, <1>8 DEF Next, Terminated

LEMMA InitComplete == Init => NoMatchIsLost
BY DEF Init, NoMatchIsLost

LEMMA NextComplete == Shape /\ NoMatchIsLost /\ [Next]_vars => NoMatchIsLost'
<1> SUFFICES ASSUME Shape, NoMatchIsLost, [Next]_vars PROVE NoMatchIsLost'
  OBVIOUS
<1>1. CASE LoadFacts
  <2>1. /\ theory' = theory
        /\ pc' = "failed" \/ (delta' = Known' /\ pc' = "round")
    BY <1>1 DEF LoadFacts, Fail, Known
  <2>2. \A i \in Instances(theory) : Body(theory, i) # {}
    BY TheoryType DEF Shape, TypeOK
  <2> QED  BY <2>1, <2>2 DEF NoMatchIsLost
<1>2. CASE OpenRound
  BY <1>2 DEF OpenRound, NewMatches, NoMatchIsLost, Known
<1>3. ASSUME NEW i \in pending, Consider(i)
      PROVE  NoMatchIsLost'
  <2>1. CASE pc' = "failed"
    BY <2>1 DEF NoMatchIsLost
  <2>2. CASE pc' = "scan"
    <3>1. /\ Known' = Known /\ theory' = theory /\ pc = "scan"
          /\ pending' = pending \ {i}
      BY <1>3 DEF Consider, Known
    <3>2. DOMAIN candidates \subseteq DOMAIN candidates'
      BY <1>3 DEF Consider, Offer
    <3>3. Head(theory, i) \in Known \cup DOMAIN candidates'
      BY <1>3, <2>2 DEF Consider, Offer, Fail
    <3> QED  BY <2>2, <3>1, <3>2, <3>3 DEF NoMatchIsLost
  <2> QED  BY <1>3, <2>1, <2>2 DEF Consider, Fail
<1>4. CASE CloseRound
  <2>1. CASE pc' = "failed"
    BY <2>1 DEF NoMatchIsLost
  <2>2. CASE pc' = "saturated"
    BY <1>4, <2>2 DEF NoMatchIsLost, CloseRound, Known, Fail
  <2>3. CASE pc' = "round"
    <3>1. /\ Known' = Known \cup DOMAIN candidates /\ theory' = theory
          /\ delta' = DOMAIN candidates /\ pc = "scan" /\ pending = {}
      BY <1>4, <2>3 DEF CloseRound, Known, Fail
    <3>2. ASSUME NEW i \in Instances(theory), Body(theory, i) \subseteq Known'
          PROVE  Head(theory, i) \in Known' \/ Body(theory, i) \cap delta' # {}
      <4>1. CASE Body(theory, i) \subseteq Known
        BY <3>1, <4>1 DEF NoMatchIsLost
      <4>2. CASE ~ (Body(theory, i) \subseteq Known)
        BY <3>1, <3>2, <4>2
      <4> QED  BY <4>1, <4>2
    <3> QED  BY <2>3, <3>1, <3>2 DEF NoMatchIsLost
  <2> QED  BY <1>4, <2>1, <2>2, <2>3 DEF CloseRound, Fail
<1>5. CASE TimeOut
  BY <1>5 DEF TimeOut, Fail, NoMatchIsLost
<1>6. ASSUME NEW q \in Literal, Answer(q)
      PROVE  NoMatchIsLost'
  BY <1>6 DEF Answer, Fail, NoMatchIsLost, Known
<1>7. CASE UNCHANGED vars
  BY <1>7 DEF vars, NoMatchIsLost, Known
<1> QED
  BY <1>1, <1>2, <1>3, <1>4, <1>5, <1>6, <1>7 DEF Next, Terminated

(* Every literal the engine knows or offers holds in every model.          *)
THEOREM Soundness == Spec => []OnlyConsequences
<1> QED  BY InitShape, NextShape, InitSound, NextSound, PTL DEF Spec

(* No round forgets an instance whose body is known.                       *)
THEOREM Bookkeeping == Spec => []NoMatchIsLost
<1> QED  BY InitShape, NextShape, InitComplete, NextComplete, PTL DEF Spec

LEMMA FixpointIsLeastModel ==
  Shape /\ OnlyConsequences /\ NoMatchIsLost => SaturatedIsLeastModel
<1> SUFFICES ASSUME Shape, OnlyConsequences, NoMatchIsLost,
                    pc \in {"saturated", "answered"}
             PROVE  Known = LeastModel(theory)
  BY DEF SaturatedIsLeastModel
<1>1. Known \in SUBSET Literal
  BY DEF Shape, TypeOK
<1>2. IsModel(theory, Known)
  BY DEF Shape, RoundDiscipline, NoMatchIsLost, IsModel
<1>3. LeastModel(theory) \subseteq Known
  BY <1>1, <1>2 DEF LeastModel
<1>4. Known \subseteq LeastModel(theory)
  BY <1>1 DEF OnlyConsequences, LeastModel
<1> QED  BY <1>3, <1>4

(* When saturation stops without an error the closure is the least model.  *)
THEOREM Completeness == Spec => []SaturatedIsLeastModel
<1> QED
  BY TypeCorrect, RoundsAreDisciplined, Soundness, Bookkeeping,
     FixpointIsLeastModel, PTL DEF Shape

-----------------------------------------------------------------------------
(***************************************************************************)
(* Answers.                                                                *)
(***************************************************************************)

(* An answer was computed from the closure it is returned with.            *)
AnswerFromClosure ==
  pc = "answered" =>
    /\ result.query \in Literal
    /\ result.status = Classify(result.query, Known)
    /\ result.conflicts = Conflicts(Known)

LEMMA NextAnswer == AnswerFromClosure /\ [Next]_vars => AnswerFromClosure'
<1> SUFFICES ASSUME AnswerFromClosure, [Next]_vars, pc' = "answered"
             PROVE  AnswerFromClosure'
  BY DEF AnswerFromClosure
<1>1. CASE \E q \in Literal : Answer(q)
  BY <1>1 DEF Answer, AnswerFromClosure, Fail, Known
<1>2. CASE UNCHANGED vars
  BY <1>2 DEF vars, AnswerFromClosure, Known
<1> QED
  BY <1>1, <1>2 DEF Next, LoadFacts, OpenRound, Consider, CloseRound, TimeOut,
                    Fail, Terminated

(* No answer is computed from part of the closure.                         *)
THEOREM AnswersAreCorrect == Spec => []AnswerIsCorrect
<1>1. Init => AnswerFromClosure
  BY DEF Init, AnswerFromClosure
<1>2. AnswerFromClosure /\ SaturatedIsLeastModel => AnswerIsCorrect
  BY DEF AnswerFromClosure, SaturatedIsLeastModel, AnswerIsCorrect
<1> QED  BY <1>1, <1>2, NextAnswer, Completeness, PTL DEF Spec

(* A literal keeps the derivation it was merged with.                      *)
LEMMA KeptDerivations ==
  ASSUME Shape, [Next]_vars, NEW l \in Known
  PROVE  l \in DOMAIN closure' /\ closure'[l] = closure[l]
<1>1. CASE closure' = closure
  BY <1>1 DEF Known
<1>2. CASE LoadFacts
  BY <1>2 DEF LoadFacts, Shape, RoundDiscipline
<1>3. CASE CloseRound
  <2>1. pc = "scan" /\ l \notin DOMAIN candidates
    BY <1>3 DEF CloseRound, Shape, RoundDiscipline
  <2> QED  BY <1>1, <1>3, <2>1 DEF CloseRound
<1> QED
  BY <1>1, <1>2, <1>3 DEF Next, OpenRound, Consider, TimeOut, Answer,
                          Terminated, vars

(* A literal keeps the derivation it was given: no later round replaces it *)
(* (closure.update in _saturate).                                          *)
THEOREM FinalDerivations == Spec => DerivationsAreFinal
<1>1. Shape /\ [Next]_vars =>
        [\A l \in Known : l \in DOMAIN closure' /\ closure'[l] = closure[l]]_vars
  BY KeptDerivations
<1> QED
  BY <1>1, InitShape, NextShape, PTL DEF Spec, DerivationsAreFinal

-----------------------------------------------------------------------------
(***************************************************************************)
(* The engine implements entailment, as far as safety goes.                *)
(***************************************************************************)

(* The instance of Entailment speaks of the same theories and literals.    *)
LEMMA SameAnswer ==
  ASSUME NEW q \in Literal
  PROVE  Entailed!AnswerTo(q) =
           [kind      |-> "answer",
            query     |-> q,
            status    |-> Classify(q, LeastModel(theory)),
            conflicts |-> Conflicts(LeastModel(theory))]
<1>1. Entailed!Literal = Literal /\ \A l : Entailed!Opposite(l) = Opposite(l)
  BY DEF Entailed!Literal, Literal, Entailed!Opposite, Opposite
<1>2. \A S : Entailed!IsModel(theory, S) = IsModel(theory, S)
  BY DEF Entailed!IsModel, IsModel, Entailed!FactLiterals, FactLiterals,
         Entailed!Instances, Instances, Entailed!Body, Body, Entailed!Head, Head
<1>3. Entailed!LeastModel(theory) = LeastModel(theory)
  BY <1>1, <1>2 DEF Entailed!LeastModel, LeastModel
<1>4. \A S : Entailed!Classify(q, S) = Classify(q, S)
  BY <1>1 DEF Entailed!Classify, Classify
<1>5. \A S : Entailed!Conflicts(S) = Conflicts(S)
  BY <1>1 DEF Entailed!Conflicts, Conflicts
<1> QED  BY <1>3, <1>4, <1>5 DEF Entailed!AnswerTo

LEMMA StepRefines ==
  AnswerFromClosure' /\ SaturatedIsLeastModel' /\ [Next]_vars
    => [Entailed!Decide]_<<theory, Outcome>>
<1> SUFFICES ASSUME AnswerFromClosure', SaturatedIsLeastModel', [Next]_vars
             PROVE  Entailed!Decide \/ UNCHANGED <<theory, Outcome>>
  OBVIOUS
<1>1. theory' = theory
  BY TheoryIsFixed
<1>2. CASE UNCHANGED vars
  BY <1>2 DEF vars, Outcome
<1>3. CASE pc' = "answered" /\ pc \notin {"answered", "failed"}
  <2>1. Outcome = [kind |-> "running"]
    BY <1>3 DEF Outcome
  <2> DEFINE q == result'.query
  <2>2. q \in Literal /\ Known' = LeastModel(theory)
    BY <1>1, <1>3 DEF AnswerFromClosure, SaturatedIsLeastModel
  <2>3. Outcome' = [kind      |-> "answer",
                    query     |-> q,
                    status    |-> Classify(q, LeastModel(theory)),
                    conflicts |-> Conflicts(LeastModel(theory))]
    BY <1>3, <2>2 DEF Outcome, AnswerFromClosure
  <2>4. Outcome' = Entailed!AnswerTo(q)
    BY <2>2, <2>3, SameAnswer
  <2>5. q \in Entailed!Literal
    BY <2>2 DEF Literal, Entailed!Literal
  <2> QED  BY <1>1, <2>1, <2>4, <2>5 DEF Entailed!Decide
<1>4. CASE pc' = "failed" /\ pc \notin {"answered", "failed"}
  BY <1>1, <1>4 DEF Outcome, Entailed!Decide
<1>5. CASE pc' \notin {"answered", "failed"} /\ pc \notin {"answered", "failed"}
  BY <1>1, <1>5 DEF Outcome
<1>6. ~ UNCHANGED vars => pc \notin {"answered", "failed"}
  BY DEF Next, LoadFacts, OpenRound, Consider, CloseRound, TimeOut, Answer, Terminated
<1> QED  BY <1>2, <1>3, <1>4, <1>5, <1>6

(* Seen from outside the engine runs and then, at most once, gives the     *)
(* answer of the least model or stops at a limit.                          *)
THEOREM RefinesEntailment == Spec => Entailed!Safety
<1>1. Init => Entailed!Init
  BY DEF Init, Entailed!Init, Outcome
<1>2. Init => AnswerFromClosure
  BY DEF Init, AnswerFromClosure
<1> QED
  BY <1>1, <1>2, NextAnswer, Completeness, StepRefines, PTL
  DEF Spec, Entailed!Safety

-----------------------------------------------------------------------------
(***************************************************************************)
(* The semi-naive rounds consider each instance once.                      *)
(***************************************************************************)

(* The instances counted so far.                                           *)
Considered ==
  {i \in Matched : /\ pc = "round" => Body(theory, i) \cap delta = {}
                   /\ pc = "scan" => i \notin pending}

Counting ==
  /\ pc = "load" => firings = 0
  /\ pc \in {"round", "scan", "saturated", "answered"} =>
       firings = Cardinality(Considered)
  /\ firings <= Cardinality(Matched)

LEMMA FiniteInstances ==
  ASSUME TypeOK, NEW T \in SUBSET Instances(theory)
  PROVE  IsFiniteSet(T) /\ Cardinality(T) \in Nat
<1> IsFiniteSet(Instances(theory))
  BY TheoriesAssumption DEF TypeOK, IsTheory, Instances
<1> QED  BY FS_Subset, FS_CardinalityType

LEMMA MoreMatches ==
  ASSUME TypeOK, NEW T \in SUBSET Instances(theory), NEW U \in SUBSET T
  PROVE  Cardinality(U) <= Cardinality(T)
BY FiniteInstances, FS_Subset

LEMMA NextCounting == Shape /\ Counting /\ [Next]_vars => Counting'
<1> SUFFICES ASSUME Shape, Counting, [Next]_vars PROVE Counting'
  OBVIOUS
<1> USE DEF Shape
<1>0. theory' = theory /\ Matched \in SUBSET Instances(theory)
      /\ Matched' \in SUBSET Instances(theory) /\ TypeOK' /\ Considered \subseteq Matched
      /\ Considered' \subseteq Matched'
  BY TheoryIsFixed, NextShape DEF Matched, Considered
<1>1. CASE LoadFacts
  <2>1. Considered' = {} \/ pc' = "failed"
    <3>1. \A i \in Instances(theory) : Body(theory, i) # {}
      BY TheoryType DEF TypeOK
    <3>2. pc' = "failed" \/ (delta' = Known' /\ pc' = "round")
      BY <1>1 DEF LoadFacts, Fail, Known
    <3> QED  BY <1>0, <3>1, <3>2 DEF Considered, Matched
  <2>2. firings' = 0 /\ pc' \in {"round", "failed"}
    BY <1>1 DEF LoadFacts, Counting, Fail
  <2>3. Cardinality({}) = 0
    BY FS_EmptySet
  <2>4. Cardinality(Matched') \in Nat
    BY <1>0, FiniteInstances
  <2> QED  BY <2>1, <2>2, <2>3, <2>4 DEF Counting
<1>2. CASE OpenRound
  <2>1. Matched' = Matched /\ firings' = firings /\ pc = "round"
    BY <1>2 DEF OpenRound, Matched, Known
  <2>2. Considered' = Considered /\ pc' \in {"scan", "saturated"}
    BY <1>2, <1>0 DEF OpenRound, Considered, Matched, NewMatches, Known
  <2> QED  BY <2>1, <2>2 DEF Counting
<1>3. ASSUME NEW i \in pending, Consider(i)
      PROVE  Counting'
  <2>1. /\ Matched' = Matched /\ firings' = firings + 1 /\ pc = "scan"
        /\ pending' = pending \ {i} /\ pc' \in {"scan", "failed"}
    BY <1>3 DEF Consider, Matched, Known, Fail
  <2>2. i \in Matched /\ i \notin Considered
    BY <2>1 DEF RoundDiscipline, TypeOK, Matched, Considered
  <2>3. IsFiniteSet(Considered) /\ Considered \cup {i} \subseteq Matched
    BY <1>0, <2>2, FiniteInstances
  <2>4. Cardinality(Considered \cup {i}) = Cardinality(Considered) + 1
    BY <2>2, <2>3, FS_AddElement
  <2>5. Cardinality(Considered \cup {i}) <= Cardinality(Matched)
    BY <1>0, <2>3, MoreMatches
  <2>6. pc' = "scan" => Considered' = Considered \cup {i}
    BY <1>0, <2>1, <2>2 DEF Considered
  <2> QED  BY <2>1, <2>4, <2>5, <2>6 DEF Counting
<1>4. CASE CloseRound
  <2>1. firings' = firings /\ pc = "scan" /\ pending = {} /\ Considered = Matched
        /\ pc' \in {"failed", "saturated", "round"}
    BY <1>4 DEF CloseRound, Considered, Fail
  <2>2. Matched \subseteq Matched'
    BY <1>0, <1>4 DEF CloseRound, Matched, Known
  <2>3. Cardinality(Matched) <= Cardinality(Matched')
    BY <1>0, <2>2, MoreMatches
  <2>4. pc' = "saturated" => Matched' = Matched /\ Considered' = Matched'
    BY <1>0, <1>4 DEF CloseRound, Matched, Known, Considered, Fail
  <2>5. pc' = "round" => Considered' = Matched
    <3> SUFFICES ASSUME pc' = "round" PROVE Considered' = Matched
      OBVIOUS
    <3>1. /\ Known' = Known \cup DOMAIN candidates /\ delta' = DOMAIN candidates
          /\ \A l \in DOMAIN candidates : l \notin Known
      BY <1>4, <2>1 DEF CloseRound, Known, Fail, RoundDiscipline
    <3>2. ASSUME NEW i \in Instances(theory)
          PROVE  Body(theory, i) \subseteq Known' /\ Body(theory, i) \cap delta' = {}
                   <=> Body(theory, i) \subseteq Known
      BY <3>1
    <3> QED  BY <1>0, <3>2 DEF Considered, Matched
  <2>6. Cardinality(Matched) \in Nat /\ Cardinality(Matched') \in Nat /\ firings \in Nat
    BY <1>0, FiniteInstances DEF TypeOK
  <2> QED  BY <2>1, <2>3, <2>4, <2>5, <2>6 DEF Counting
<1>5. CASE TimeOut
  BY <1>5, <1>0 DEF TimeOut, Fail, Counting, Matched, Known
<1>6. ASSUME NEW q \in Literal, Answer(q)
      PROVE  Counting'
  <2>1. /\ Matched' = Matched /\ firings' = firings /\ pc = "saturated"
        /\ pc' \in {"answered", "failed"}
    BY <1>6, <1>0 DEF Answer, Fail, Matched, Known
  <2>2. pc' = "answered" => Considered' = Considered
    BY <1>0, <2>1 DEF Considered
  <2> QED  BY <2>1, <2>2 DEF Counting
<1>7. CASE UNCHANGED vars
  BY <1>7 DEF vars, Counting, Considered, Matched, Known
<1> QED
  BY <1>1, <1>2, <1>3, <1>4, <1>5, <1>6, <1>7 DEF Next, Terminated

(* Every instance whose body becomes known is considered exactly once.     *)
THEOREM ConsideredOnce == Spec => []EachInstanceOnce
<1>1. Init /\ Shape => Counting
  <2> SUFFICES ASSUME Init, Shape PROVE Counting
    OBVIOUS
  <2>1. Cardinality(Matched) \in Nat
    BY FiniteInstances DEF Matched, Shape
  <2> QED  BY <2>1 DEF Init, Counting
<1>2. Counting => EachInstanceOnce
  BY DEF Counting, EachInstanceOnce, Considered
<1> QED  BY <1>1, <1>2, InitShape, NextShape, NextCounting, PTL DEF Spec

-----------------------------------------------------------------------------
(***************************************************************************)
(* Proofs.  A candidate's proof is its own step on top of steps the        *)
(* closure already chose, so merging candidates keeps every proof whole.   *)
(***************************************************************************)

ChosenStep(s) == s.literal \in Known /\ s = RootStep(s.literal, closure[s.literal])

OnTopOfClosure(l, d) ==
  /\ RootStep(l, d) \in d.steps
  /\ \A s \in d.steps : /\ Justified(theory, s, d.steps)
                        /\ s = RootStep(l, d) \/ ChosenStep(s)

CandidatesAreSelfContained ==
  pc = "scan" =>
    \A l \in DOMAIN candidates : OnTopOfClosure(l, candidates[l])

Provenance == ProofsAreSelfContained /\ CandidatesAreSelfContained

LEMMA JustifiedMonotone ==
  ASSUME NEW t, NEW s, NEW S, NEW T, S \subseteq T, Justified(t, s, S)
  PROVE  Justified(t, s, T)
BY DEF Justified

LEMMA SourceDerivationJustified ==
  ASSUME NEW l \in FactLiterals(theory), theory \in Theories
  PROVE  LET d == SourceDerivation(theory, l)
         IN  /\ d.steps = {RootStep(l, d)}
             /\ Justified(theory, RootStep(l, d), d.steps)
<1> DEFINE sources == {f.source : f \in {g \in theory.facts : g.literal = l}}
           src == SourceOf(theory, l)
<1>1. theory.facts \subseteq [literal : Literal, source : Nat]
  BY TheoriesAssumption DEF IsTheory
<1>2. sources \subseteq Nat /\ sources # {}
  BY <1>1 DEF FactLiterals
<1>3. \E x \in sources : \A y \in sources : x <= y
  <2> HIDE DEF sources
  <2> QED  BY <1>2, LeastNat
<1>4. src \in sources
  BY <1>3 DEF SourceOf
<1>5. [literal |-> l, source |-> src] \in theory.facts
  <2>1. PICK f \in theory.facts : f.literal = l /\ f.source = src
    BY <1>4
  <2> QED  BY <1>1, <2>1
<1> HIDE DEF src
<1>6. SourceDerivation(theory, l) =
        [depth |-> 0, by |-> <<"fact", src>>,
         steps |-> {[literal |-> l, by |-> <<"fact", src>>, depth |-> 0]}]
  BY DEF SourceDerivation, FromFact, src
<1> QED  BY <1>5, <1>6 DEF RootStep, Justified

LEMMA RuleDerivationJustified ==
  ASSUME Shape, ProofsAreSelfContained, NEW i \in Instances(theory),
         Body(theory, i) \subseteq Known, Body(theory, i) \cap delta # {}
  PROVE  OnTopOfClosure(Head(theory, i), RuleDerivation(theory, i))
<1> DEFINE d == RuleDerivation(theory, i)
           l == Head(theory, i)
           B == Body(theory, i)
           root == [literal |-> l, by |-> <<"rule", i>>, depth |-> rounds + 1]
<1>1. d.depth = rounds + 1 /\ rounds \in Nat
  BY RuleDerivationType DEF Shape, TypeOK
<1>2. d.by = <<"rule", i>>
  BY DEF RuleDerivation, FromRule
<1>3. d.steps = {root} \cup UNION {closure[m].steps : m \in B}
  <2>1. d.depth = DepthOf(theory, i)
    BY DEF RuleDerivation
  <2> QED  BY <1>1, <2>1 DEF RuleDerivation, FromRule
<1>4. RootStep(l, d) = root
  BY <1>1, <1>2 DEF RootStep
<1>5. \A m \in B : /\ closure[m].steps \subseteq d.steps
                   /\ RootStep(m, closure[m]) \in d.steps
                   /\ closure[m].depth <= rounds /\ closure[m].depth \in Nat
  <2> SUFFICES ASSUME NEW m \in B
               PROVE  /\ closure[m].steps \subseteq d.steps
                      /\ RootStep(m, closure[m]) \in d.steps
                      /\ closure[m].depth <= rounds /\ closure[m].depth \in Nat
    OBVIOUS
  <2>1. m \in Known /\ closure[m] \in Derivation
    BY DEF Shape, TypeOK
  <2>2. closure[m].steps \subseteq d.steps
    BY <1>3
  <2>3. RootStep(m, closure[m]) \in closure[m].steps
    BY <2>1 DEF ProofsAreSelfContained
  <2>4. closure[m].depth <= rounds /\ closure[m].depth \in Nat
    BY <2>1 DEF Shape, RoundDiscipline, Derivation
  <2> QED  BY <2>2, <2>3, <2>4
<1>6. Justified(theory, root, d.steps)
  <2> HIDE DEF d, l
  <2>1. \A m \in B : \E r \in d.steps : r.literal = m /\ r.depth < rounds + 1
    <3> SUFFICES ASSUME NEW m \in B
                 PROVE  \E r \in d.steps : r.literal = m /\ r.depth < rounds + 1
      OBVIOUS
    <3>1. RootStep(m, closure[m]) \in d.steps
      BY <1>5
    <3>2. closure[m].depth \in Nat /\ closure[m].depth <= rounds
      BY <1>5
    <3>3. closure[m].depth < rounds + 1
      BY <1>1, <3>2
    <3>4. /\ RootStep(m, closure[m]).literal = m
          /\ RootStep(m, closure[m]).depth < rounds + 1
      BY <3>3 DEF RootStep
    <3> QED  BY <3>1, <3>4
  <2>2. \E r \in d.steps : r.literal \in B /\ r.depth + 1 = rounds + 1
    <3>1. PICK m \in B : m \in delta
      OBVIOUS
    <3>2. closure[m].depth = rounds
      BY <3>1 DEF Shape, RoundDiscipline
    <3>3. RootStep(m, closure[m]) \in d.steps
      BY <1>5
    <3>4. /\ RootStep(m, closure[m]).literal = m
          /\ RootStep(m, closure[m]).depth + 1 = rounds + 1
      BY <1>1, <3>2 DEF RootStep
    <3> QED  BY <3>1, <3>3, <3>4
  <2> QED  BY <2>1, <2>2 DEF Justified, l
<1>7. ASSUME NEW m \in B, NEW s \in closure[m].steps
      PROVE  Justified(theory, s, d.steps) /\ ChosenStep(s)
  <2>1. Justified(theory, s, closure[m].steps) /\ ChosenStep(s)
    BY DEF ProofsAreSelfContained, ChosenStep
  <2> QED  BY <1>5, <2>1, JustifiedMonotone
<1> HIDE DEF d, root
<1>8. \A s \in d.steps : Justified(theory, s, d.steps) /\ (s = root \/ ChosenStep(s))
  BY <1>3, <1>6, <1>7
<1>9. root \in d.steps
  BY <1>3
<1> QED  BY <1>4, <1>8, <1>9 DEF OnTopOfClosure, d

LEMMA NextProvenance == Shape /\ Provenance /\ [Next]_vars => Provenance'
<1> SUFFICES ASSUME Shape, Provenance, [Next]_vars PROVE Provenance'
  OBVIOUS
<1>0. theory' = theory /\ theory \in Theories
  BY TheoryIsFixed DEF Shape, TypeOK
<1>b. ASSUME UNCHANGED closure
      PROVE  /\ ProofsAreSelfContained'
             /\ Known' = Known
             /\ \A s : ChosenStep(s)' = ChosenStep(s)
  BY <1>0, <1>b DEF Provenance, ProofsAreSelfContained, Known, ChosenStep, RootStep
<1>1. CASE LoadFacts
  <2>1. Known' = FactLiterals(theory)
    BY <1>1 DEF LoadFacts, Known
  <2>2. ASSUME NEW l \in Known'
        PROVE  /\ closure'[l].steps = {RootStep(l, closure'[l])}
               /\ Justified(theory, RootStep(l, closure'[l]), closure'[l].steps)
    BY <1>0, <1>1, <2>1, SourceDerivationJustified DEF LoadFacts
  <2>3. ProofsAreSelfContained'
    <3> SUFFICES ASSUME NEW l \in Known', NEW s \in closure'[l].steps
                 PROVE  /\ Justified(theory', s, closure'[l].steps)
                        /\ s.literal \in Known'
                        /\ s = RootStep(s.literal, closure'[s.literal])
                        /\ RootStep(l, closure'[l]) \in closure'[l].steps
      BY <2>2 DEF ProofsAreSelfContained, RootStep
    <3>1. s = RootStep(l, closure'[l])
      BY <2>2
    <3>2. RootStep(l, closure'[l]).literal = l
      BY DEF RootStep
    <3>3. Justified(theory', s, closure'[l].steps)
      BY <1>0, <2>2, <3>1
    <3> QED  BY <2>2, <3>1, <3>2, <3>3
  <2> QED  BY <1>1, <2>3 DEF Provenance, CandidatesAreSelfContained, LoadFacts, Fail
<1>2. CASE OpenRound
  <2>1. UNCHANGED closure /\ (pc' = "scan" => DOMAIN candidates' = {})
    BY <1>2 DEF OpenRound, NoDerivations
  <2> QED  BY <1>b, <2>1 DEF Provenance, CandidatesAreSelfContained
<1>3. ASSUME NEW i \in pending, Consider(i)
      PROVE  Provenance'
  <2> DEFINE h == Head(theory, i)
             d == RuleDerivation(theory, i)
  <2>1. UNCHANGED closure /\ pc = "scan" /\ i \in Instances(theory)
    BY <1>3 DEF Consider, Shape, TypeOK
  <2>2. Body(theory, i) \subseteq Known /\ Body(theory, i) \cap delta # {}
    BY <2>1 DEF Shape, RoundDiscipline
  <2>3. OnTopOfClosure(h, d)
    <3>1. ProofsAreSelfContained
      BY DEF Provenance
    <3> QED  BY <2>1, <2>2, <3>1, RuleDerivationJustified
  <2>4. \A l \in DOMAIN candidates' :
          \/ l = h /\ candidates'[l] = d
          \/ l \in DOMAIN candidates /\ candidates'[l] = candidates[l]
    BY <1>3 DEF Consider, Offer
  <2> HIDE DEF h, d
  <2>5. \A l \in DOMAIN candidates' : OnTopOfClosure(l, candidates'[l])
    BY <2>1, <2>3, <2>4 DEF Provenance, CandidatesAreSelfContained
  <2>6. CandidatesAreSelfContained'
    BY <1>0, <2>1, <2>5
    DEF CandidatesAreSelfContained, OnTopOfClosure, ChosenStep, RootStep, Known
  <2> QED  BY <1>b, <2>1, <2>6 DEF Provenance
<1>4. CASE CloseRound
  <2>0. pc' # "scan" /\ pc = "scan"
    BY <1>4 DEF CloseRound, Fail
  <2>1. CASE UNCHANGED closure
    BY <1>b, <2>0, <2>1 DEF Provenance, CandidatesAreSelfContained
  <2>2. CASE closure' = [l \in Known \cup DOMAIN candidates |->
                  IF l \in DOMAIN candidates THEN candidates[l] ELSE closure[l]]
    <3>1. Known' = Known \cup DOMAIN candidates
      BY <2>2 DEF Known
    <3>2. \A l \in Known : l \in Known' /\ closure'[l] = closure[l]
      BY <2>0, <2>2, <3>1 DEF Shape, RoundDiscipline
    <3>3. \A l \in DOMAIN candidates : l \in Known' /\ closure'[l] = candidates[l]
      BY <2>2, <3>1
    <3>4. \A s : ChosenStep(s) =>
             s.literal \in Known' /\ s = RootStep(s.literal, closure'[s.literal])
      BY <3>2 DEF ChosenStep
    <3>5. ASSUME NEW l \in Known'
          PROVE  /\ RootStep(l, closure'[l]) \in closure'[l].steps
                 /\ \A s \in closure'[l].steps :
                      /\ Justified(theory, s, closure'[l].steps)
                      /\ s.literal \in Known'
                      /\ s = RootStep(s.literal, closure'[s.literal])
      <4>1. CASE l \in Known
        BY <3>2, <3>4, <4>1 DEF Provenance, ProofsAreSelfContained, ChosenStep
      <4>2. CASE l \in DOMAIN candidates
        <5>1. OnTopOfClosure(l, candidates[l]) /\ closure'[l] = candidates[l]
          BY <2>0, <3>3, <4>2 DEF Provenance, CandidatesAreSelfContained
        <5>2. /\ RootStep(l, closure'[l]) \in closure'[l].steps
              /\ \A s \in closure'[l].steps :
                   /\ Justified(theory, s, closure'[l].steps)
                   /\ s = RootStep(l, closure'[l]) \/ ChosenStep(s)
          BY <5>1 DEF OnTopOfClosure
        <5>3. l \in Known' /\ RootStep(l, closure'[l]).literal = l
          BY <3>3, <4>2 DEF RootStep
        <5> QED  BY <3>4, <5>2, <5>3
      <4> QED  BY <3>1, <4>1, <4>2
    <3>6. ProofsAreSelfContained'
      <4> SUFFICES ASSUME NEW l \in Known', NEW s \in closure'[l].steps
                   PROVE  /\ RootStep(l, closure'[l]) \in closure'[l].steps
                          /\ Justified(theory', s, closure'[l].steps)
                          /\ s.literal \in Known'
                          /\ s = RootStep(s.literal, closure'[s.literal])
        BY <3>5 DEF ProofsAreSelfContained, RootStep
      <4>1. Justified(theory, s, closure'[l].steps)
        BY <3>5
      <4>2. Justified(theory', s, closure'[l].steps)
        BY <1>0, <4>1
      <4> QED  BY <3>5, <4>2
    <3> QED  BY <2>0, <3>6 DEF Provenance, CandidatesAreSelfContained
  <2> QED  BY <1>4, <2>1, <2>2 DEF CloseRound
<1>5. CASE TimeOut
  <2>1. UNCHANGED closure /\ pc' # "scan"
    BY <1>5 DEF TimeOut, Fail
  <2> QED  BY <1>b, <2>1 DEF Provenance, CandidatesAreSelfContained
<1>6. ASSUME NEW q \in Literal, Answer(q)
      PROVE  Provenance'
  <2>1. UNCHANGED closure /\ pc' # "scan"
    BY <1>6 DEF Answer, Fail
  <2> QED  BY <1>b, <2>1 DEF Provenance, CandidatesAreSelfContained
<1>7. CASE UNCHANGED vars
  BY <1>0, <1>7 DEF vars, Provenance, ProofsAreSelfContained,
     CandidatesAreSelfContained, OnTopOfClosure, Known, ChosenStep, RootStep
<1> QED
  BY <1>1, <1>2, <1>3, <1>4, <1>5, <1>6, <1>7 DEF Next, Terminated

(* Every derivation of the closure is whole and justified.                 *)
THEOREM WholeProofs == Spec => []ProofsAreSelfContained
<1>1. Init => Provenance
  BY DEF Init, Provenance, ProofsAreSelfContained, CandidatesAreSelfContained,
         Known, NoDerivations
<1>2. Provenance => ProofsAreSelfContained
  BY DEF Provenance
<1> QED  BY <1>1, <1>2, InitShape, NextShape, NextProvenance, PTL DEF Spec

-----------------------------------------------------------------------------
(***************************************************************************)
(* The engine keeps to its limits while it runs.                           *)
(***************************************************************************)

Sized ==
  /\ rounds <= MaxRounds
  /\ pc \in {"round", "scan", "saturated", "answered"} =>
       IsFiniteSet(Known) /\ Cardinality(Known) <= MaxDerivedLiterals
  /\ pc = "scan" => IsFiniteSet(DOMAIN candidates)
  /\ pc = "answered" => ProofSize(result.steps) <= MaxProofNodes

LEMMA FactsAreFinite ==
  ASSUME NEW t \in Theories
  PROVE  IsFiniteSet(FactLiterals(t))
<1> DEFINE f == [x \in t.facts |-> x.literal]
<1>1. IsFiniteSet(t.facts)
  BY TheoriesAssumption DEF IsTheory
<1>2. f \in Surjection(t.facts, FactLiterals(t))
  BY DEF Surjection, FactLiterals
<1> HIDE DEF f
<1> QED  BY <1>1, <1>2, FS_Surjection

LEMMA DisjointSizes ==
  ASSUME NEW S, NEW T, IsFiniteSet(S), IsFiniteSet(T), S \cap T = {}
  PROVE  /\ IsFiniteSet(S \cup T)
         /\ Cardinality(S \cup T) = Cardinality(S) + Cardinality(T)
<1> DEFINE k == Cardinality(S)
           n == Cardinality(T)
           all == Cardinality(S \cup T)
           both == Cardinality(S \cap T)
<1>1. k \in Nat /\ n \in Nat
  BY FS_CardinalityType
<1>2. IsFiniteSet(S \cup T) /\ all = k + n - both
  BY FS_Union
<1>3. both = 0
  BY FS_EmptySet
<1>4. all = k + n
  <2> HIDE DEF k, n, all, both
  <2> QED  BY <1>1, <1>2, <1>3
<1> QED  BY <1>2, <1>4

LEMMA NextSized == Shape /\ Sized /\ [Next]_vars => Sized'
<1> SUFFICES ASSUME Shape, Sized, [Next]_vars
             PROVE  Sized'
  OBVIOUS
<1>1. CASE LoadFacts
  <2>1. /\ theory \in Theories /\ Known' = FactLiterals(theory) /\ rounds' = rounds
        /\ pc' \in {"round", "failed"}
        /\ pc' = "round" => Cardinality(FactLiterals(theory)) <= MaxDerivedLiterals
    BY <1>1 DEF LoadFacts, Known, Shape, TypeOK, Fail
  <2> QED  BY <2>1, FactsAreFinite DEF Sized
<1>2. CASE OpenRound
  <2>1. /\ Known' = Known /\ rounds' = rounds /\ pc = "round" /\ pc' \in {"saturated", "scan"}
        /\ pc' = "scan" => DOMAIN candidates' = {}
    BY <1>2 DEF OpenRound, Known, NoDerivations
  <2> QED  BY <2>1, FS_EmptySet DEF Sized
<1>3. ASSUME NEW i \in pending, Consider(i)
      PROVE  Sized'
  <2>1. /\ Known' = Known /\ rounds' = rounds /\ pc = "scan" /\ pc' \in {"scan", "failed"}
        /\ \/ candidates' = candidates
           \/ DOMAIN candidates' = DOMAIN candidates \cup ({Head(theory, i)} \ Known)
    BY <1>3 DEF Consider, Known, Fail, Offer
  <2>2. IsFiniteSet(DOMAIN candidates')
    <3>1. IsFiniteSet(DOMAIN candidates)
      BY <2>1 DEF Sized
    <3>2. IsFiniteSet({Head(theory, i)})
      BY FS_Singleton
    <3>3. IsFiniteSet({Head(theory, i)} \ Known)
      BY <3>2, FS_Subset
    <3> DEFINE D == DOMAIN candidates
               N == {Head(theory, i)} \ Known
    <3>4. DOMAIN candidates' = D \/ DOMAIN candidates' = D \cup N
      BY <2>1
    <3>5. IsFiniteSet(D) /\ IsFiniteSet(N)
      BY <3>1, <3>3
    <3> HIDE DEF D, N
    <3>6. IsFiniteSet(D \cup N)
      BY <3>5, FS_Union
    <3> QED  BY <3>4, <3>5, <3>6
  <2> QED  BY <2>1, <2>2 DEF Sized
<1>4. CASE CloseRound
  <2>1. /\ pc = "scan" /\ rounds \in Nat
        /\ \/ Known' = Known /\ rounds' = rounds /\ pc' \in {"saturated", "failed"}
           \/ /\ Known' = Known \cup DOMAIN candidates /\ pc' = "round"
              /\ rounds' = rounds + 1 /\ rounds + 1 <= MaxRounds
              /\ Cardinality(Known) + Cardinality(DOMAIN candidates) <= MaxDerivedLiterals
    BY <1>4 DEF CloseRound, Known, Fail, Shape, TypeOK
  <2>2. IsFiniteSet(Known) /\ IsFiniteSet(DOMAIN candidates)
    BY <2>1 DEF Sized
  <2>3. Known \cap DOMAIN candidates = {}
    BY <2>1 DEF Shape, RoundDiscipline
  <2>4. /\ IsFiniteSet(Known \cup DOMAIN candidates)
        /\ Cardinality(Known \cup DOMAIN candidates)
             = Cardinality(Known) + Cardinality(DOMAIN candidates)
    BY <2>2, <2>3, DisjointSizes
  <2> QED  BY <2>1, <2>2, <2>4 DEF Sized
<1>5. CASE TimeOut
  BY <1>5 DEF TimeOut, Fail, Sized
<1>6. ASSUME NEW q \in Literal, Answer(q)
      PROVE  Sized'
  <2>1. /\ Known' = Known /\ rounds' = rounds /\ pc = "saturated"
        /\ pc' \in {"answered", "failed"}
        /\ pc' = "answered" => ProofSize(result'.steps) <= MaxProofNodes
    BY <1>6 DEF Answer, Known, Fail
  <2> QED  BY <2>1 DEF Sized
<1>7. CASE UNCHANGED vars
  BY <1>7 DEF vars, Sized, Known
<1> QED  BY <1>1, <1>2, <1>3, <1>4, <1>5, <1>6, <1>7 DEF Next, Terminated

-----------------------------------------------------------------------------
(***************************************************************************)
(* The choice of a derivation.  The choice key is a strict order wherever  *)
(* proofs have a size, which they have because each known literal has one  *)
(* step in a proof at most and only finitely many literals are known.      *)
(***************************************************************************)

(* A derivation the choice key can compare. *)
IsComparable(d) ==
  /\ d.depth \in Nat
  /\ ProofSize(d.steps) \in Nat
  /\ d.by[2] \in Nat

LEMMA PreferenceIsAnOrder ==
  ASSUME NEW d, NEW e, NEW f, IsComparable(d), IsComparable(e), IsComparable(f)
  PROVE  /\ ~Preferred(d, d)
         /\ Preferred(d, e) /\ Preferred(e, f) => Preferred(d, f)
BY DEF Preferred, IsComparable

LEMMA FiniteProofSize ==
  ASSUME NEW S, IsFiniteSet(S)
  PROVE  ProofSize(S) \in Nat
<1> DEFINE R == {s \in S : s.by[1] = "rule"}
           a == Cardinality(S)
           b == Cardinality(R)
<1>1. IsFiniteSet(R)
  BY FS_Subset
<1>2. a \in Nat /\ b \in Nat
  BY <1>1, FS_CardinalityType
<1>3. ProofSize(S) = a + b
  BY DEF ProofSize
<1> HIDE DEF a, b
<1> QED  BY <1>2, <1>3

(* Whatever is made of known literals can be compared.                     *)
LEMMA RuleDerivationIsComparable ==
  ASSUME Shape, ProofsAreSelfContained, IsFiniteSet(Known),
         NEW i \in Instances(theory), Body(theory, i) \subseteq Known
  PROVE  IsComparable(RuleDerivation(theory, i))
<1> DEFINE d == RuleDerivation(theory, i)
           P == PremiseDepths(theory, i)
           chosen == {RootStep(l, closure[l]) : l \in Known}
           root == [literal |-> Head(theory, i), by |-> FromRule(i),
                    depth |-> DepthOf(theory, i)]
<1>1. /\ \A l \in Known : closure[l].depth \in Nat /\ closure[l].depth <= rounds
      /\ rounds \in Nat /\ i \in Nat /\ Body(theory, i) # {}
  <2>1. theory \in Theories /\ rounds \in Nat /\ \A l \in Known : closure[l] \in Derivation
    BY DEF Shape, TypeOK
  <2> QED  BY <2>1, TheoryType DEF Derivation, Shape, RoundDiscipline
<1>2. P \in SUBSET Nat /\ P # {} /\ \A k \in P : k <= rounds
  BY <1>1 DEF PremiseDepths
<1>3. DepthOf(theory, i) \in Nat
  <2> DEFINE U == {n \in Nat : \A k \in P : k <= n}
             D == CHOOSE k \in P : \A e \in P : e <= k
  <2>1. PICK n \in U : \A m \in U : n <= m
    <3>1. U \in SUBSET Nat /\ rounds \in U
      BY <1>1, <1>2
    <3> HIDE DEF U
    <3> QED  BY <3>1, LeastNat
  <2>2. n \in P
    <3> SUFFICES ASSUME n \notin P PROVE FALSE
      OBVIOUS
    <3>1. \A k \in P : k < n
      BY <1>2, <2>1
    <3>2. n # 0
      BY <1>2, <3>1
    <3>3. n - 1 \in U
      BY <1>2, <2>1, <3>1, <3>2
    <3> QED  BY <2>1, <3>3
  <2>3. D \in P
    <3> HIDE DEF P
    <3> QED  BY <2>1, <2>2
  <2>4. DepthOf(theory, i) = 1 + D
    BY DEF DepthOf
  <2> HIDE DEF D
  <2> QED  BY <1>2, <2>3, <2>4
<1>4. IsFiniteSet(d.steps)
  <2>1. IsFiniteSet(chosen)
    <3> DEFINE f == [l \in Known |-> RootStep(l, closure[l])]
    <3>1. f \in Surjection(Known, chosen)
      BY DEF Surjection
    <3> HIDE DEF f, chosen
    <3> QED  BY <3>1, FS_Surjection
  <2>2. \A l \in Known : closure[l].steps \subseteq chosen
    BY DEF ProofsAreSelfContained
  <2>3. d.steps \subseteq chosen \cup {root}
    BY <2>2 DEF RuleDerivation
  <2>4. IsFiniteSet(chosen \cup {root})
    BY <2>1, FS_AddElement
  <2> HIDE DEF d, chosen, root
  <2> QED  BY <2>3, <2>4, FS_Subset
<1>5. d.depth = DepthOf(theory, i) /\ d.by[2] = i
  BY DEF RuleDerivation, FromRule
<1> QED  BY <1>1, <1>3, <1>4, <1>5, FiniteProofSize DEF IsComparable

(* A derivation is made of its premises' and of nothing else.              *)
LEMMA SamePremises ==
  ASSUME NEW i \in Instances(theory), theory' = theory,
         \A l \in Body(theory, i) : closure'[l] = closure[l]
  PROVE  RuleDerivation(theory, i)' = RuleDerivation(theory, i)
<1> DEFINE B == Body(theory, i)
<1>1. PremiseDepths(theory, i)' = PremiseDepths(theory, i)
  BY DEF PremiseDepths
<1>2. UNION {closure'[l].steps : l \in B} = UNION {closure[l].steps : l \in B}
  OBVIOUS
<1> QED  BY <1>1, <1>2 DEF RuleDerivation, DepthOf

(* The candidate of a literal is the best of the instances that offered it *)
(* so far, and it is one of them.                                          *)
BestOffers ==
  pc = "scan" =>
    /\ \A l \in DOMAIN candidates :
         \E i \in Instances(theory) :
           /\ Head(theory, i) = l /\ Body(theory, i) \subseteq Known
           /\ candidates[l] = RuleDerivation(theory, i)
    /\ \A i \in Instances(theory) \ pending :
         Body(theory, i) \subseteq Known /\ Head(theory, i) \in DOMAIN candidates
           => ~Preferred(RuleDerivation(theory, i), candidates[Head(theory, i)])

Choice == BestOffers /\ ChosenProofIsPreferred

LEMMA ConsiderKeepsBest ==
  ASSUME Shape, NoMatchIsLost, ProofsAreSelfContained, Sized, BestOffers,
         NEW i \in pending, Consider(i)
  PROVE  BestOffers'
<1> DEFINE h == Head(theory, i)
           d == RuleDerivation(theory, i)
<1>1. /\ pc = "scan" /\ theory' = theory /\ closure' = closure /\ Known' = Known
      /\ pending' = pending \ {i} /\ i \in Instances(theory)
      /\ Body(theory, i) \subseteq Known /\ IsFiniteSet(Known)
  BY DEF Consider, Known, Shape, TypeOK, RoundDiscipline, Sized
<1>2. \A j \in Instances(theory) : RuleDerivation(theory, j)' = RuleDerivation(theory, j)
  BY <1>1, SamePremises
<1>3. CASE pc' = "failed"
  BY <1>3 DEF BestOffers
<1>4. CASE pc' = "scan" /\ Offer(h, d)
  <2>1. DOMAIN candidates' = DOMAIN candidates \cup ({h} \ Known)
    BY <1>4 DEF Offer
  <2>2. \A l \in DOMAIN candidates' : l # h =>
          l \in DOMAIN candidates /\ candidates'[l] = candidates[l]
    BY <1>4 DEF Offer
  <2>3. h \in DOMAIN candidates' =>
          candidates'[h] = IF h \notin DOMAIN candidates \/ Preferred(d, candidates[h])
                           THEN d ELSE candidates[h]
    BY <1>4 DEF Offer
  <2>4. ASSUME NEW l \in DOMAIN candidates'
        PROVE  \E j \in Instances(theory) :
                 /\ Head(theory, j) = l /\ Body(theory, j) \subseteq Known
                 /\ candidates'[l] = RuleDerivation(theory, j)
    <3>1. CASE l \in DOMAIN candidates /\ candidates'[l] = candidates[l]
      BY <1>1, <3>1 DEF BestOffers
    <3>2. CASE l = h /\ candidates'[l] = d
      BY <1>1, <3>2
    <3> HIDE DEF h, d
    <3> QED  BY <2>2, <2>3, <2>4, <3>1, <3>2
  <2>5. ASSUME NEW j \in Instances(theory) \ pending', Body(theory, j) \subseteq Known,
               Head(theory, j) \in DOMAIN candidates'
        PROVE  ~Preferred(RuleDerivation(theory, j), candidates'[Head(theory, j)])
    <3> DEFINE e == RuleDerivation(theory, j)
    <3>1. j = i \/ j \notin pending
      BY <1>1, <2>5
    <3>2. IsComparable(d) /\ IsComparable(e)
      BY <1>1, <2>5, RuleDerivationIsComparable
    <3>3. j # i /\ Head(theory, j) \in DOMAIN candidates =>
            ~Preferred(e, candidates[Head(theory, j)])
      BY <1>1, <2>5, <3>1 DEF BestOffers
    <3>4. CASE Head(theory, j) # h
      BY <2>2, <2>5, <3>3, <3>4
    <3>5. CASE Head(theory, j) = h /\ h \notin DOMAIN candidates
      <4>1. candidates'[h] = d /\ h \notin Known
        BY <2>1, <2>3, <2>5, <3>5
      <4>2. j = i
        <5> SUFFICES ASSUME j \notin pending PROVE FALSE
          BY <3>1
        <5> QED  BY <1>1, <2>5, <3>5, <4>1 DEF NoMatchIsLost
      <4>3. ~Preferred(d, d)
        <5> HIDE DEF d
        <5> QED  BY <3>2, PreferenceIsAnOrder
      <4> QED  BY <3>5, <4>1, <4>2, <4>3
    <3>6. CASE Head(theory, j) = h /\ h \in DOMAIN candidates
      <4> DEFINE c == candidates[h]
      <4>1. IsComparable(c)
        <5>1. PICK k \in Instances(theory) :
                Body(theory, k) \subseteq Known /\ c = RuleDerivation(theory, k)
          BY <1>1, <3>6 DEF BestOffers
        <5> QED  BY <1>1, <5>1, RuleDerivationIsComparable
      <4>2. candidates'[h] = IF Preferred(d, c) THEN d ELSE c
        BY <2>3, <2>5, <3>6
      <4>3. j # i => ~Preferred(e, c)
        BY <3>3, <3>6
      <4>4. j = i => e = d
        OBVIOUS
      <4> HIDE DEF c, d, e
      <4>5. ~Preferred(d, d) /\ (Preferred(e, d) /\ Preferred(d, c) => Preferred(e, c))
        BY <3>2, <4>1, PreferenceIsAnOrder
      <4>6. ~Preferred(e, candidates'[h])
        BY <4>2, <4>3, <4>4, <4>5
      <4> QED  BY <3>6, <4>6 DEF e
    <3> QED  BY <3>4, <3>5, <3>6
  <2> HIDE DEF h, d
  <2> QED  BY <1>1, <1>2, <2>4, <2>5 DEF BestOffers
<1> QED  BY <1>1, <1>3, <1>4 DEF Consider, Fail

LEMMA NextChoice ==
  ASSUME Shape, NoMatchIsLost, ProofsAreSelfContained, Sized, Choice, [Next]_vars
  PROVE  Choice'
<1>0. theory' = theory /\ theory \in Theories
  BY TheoryIsFixed DEF Shape, TypeOK
<1>1. ASSUME UNCHANGED closure
      PROVE  /\ ChosenProofIsPreferred' /\ Known' = Known
             /\ \A i \in Instances(theory) :
                  RuleDerivation(theory, i)' = RuleDerivation(theory, i)
  <2>1. Known' = Known
    BY <1>1 DEF Known
  <2>2. \A i \in Instances(theory) : RuleDerivation(theory, i)' = RuleDerivation(theory, i)
    BY <1>0, <1>1, SamePremises
  <2> QED  BY <1>0, <1>1, <2>1, <2>2 DEF Choice, ChosenProofIsPreferred
<1>2. CASE LoadFacts
  <2>1. \A l \in Known' : closure'[l].by[1] = "fact" /\ pc' # "scan"
    BY <1>2 DEF LoadFacts, Known, SourceDerivation, FromFact, Fail
  <2>2. pc' # "scan"
    BY <1>2 DEF LoadFacts, Fail
  <2> QED  BY <2>1, <2>2 DEF Choice, ChosenProofIsPreferred, BestOffers
<1>3. CASE OpenRound
  <2>1. UNCHANGED closure /\ (pc' = "scan" => DOMAIN candidates' = {})
    BY <1>3 DEF OpenRound, NoDerivations
  <2> QED  BY <1>1, <2>1 DEF Choice, BestOffers
<1>4. ASSUME NEW i \in pending, Consider(i)
      PROVE  Choice'
  <2>1. UNCHANGED closure
    BY <1>4 DEF Consider
  <2> QED  BY <1>1, <1>4, <2>1, ConsiderKeepsBest DEF Choice
<1>5. CASE CloseRound
  <2>0. pc' # "scan" /\ pc = "scan" /\ pending = {}
    BY <1>5 DEF CloseRound, Fail
  <2>1. CASE UNCHANGED closure
    BY <1>1, <2>0, <2>1 DEF Choice, BestOffers
  <2>2. CASE closure' = [l \in Known \cup DOMAIN candidates |->
                  IF l \in DOMAIN candidates THEN candidates[l] ELSE closure[l]]
    <3>1. Known' = Known \cup DOMAIN candidates
      BY <2>2 DEF Known
    <3>2. /\ \A l \in Known : closure'[l] = closure[l] /\ closure[l].depth <= rounds
          /\ \A l \in DOMAIN candidates :
               /\ closure'[l] = candidates[l] /\ closure'[l].depth = rounds + 1
          /\ rounds \in Nat /\ \A l \in Known : closure[l].depth \in Nat
      BY <2>0, <2>2, <3>1 DEF Shape, RoundDiscipline, TypeOK, Derivation
    <3>3. ASSUME NEW l \in Known', closure'[l].by[1] = "rule", NEW i \in Instances(theory),
                 Head(theory, i) = l, Body(theory, i) \subseteq Known',
                 \A m \in Body(theory, i) : closure'[m].depth < closure'[l].depth
          PROVE  ~Preferred(RuleDerivation(theory, i)', closure'[l])
      <4>1. Body(theory, i) \subseteq Known
        <5> SUFFICES ASSUME NEW m \in Body(theory, i), m \in DOMAIN candidates
                     PROVE  FALSE
          BY <3>1, <3>3
        <5>1. rounds + 1 < closure'[l].depth
          BY <3>2, <3>3
        <5>2. closure'[l].depth \in Nat /\ closure'[l].depth <= rounds + 1
          BY <3>1, <3>2
        <5> QED  BY <3>2, <5>1, <5>2
      <4>2. RuleDerivation(theory, i)' = RuleDerivation(theory, i)
        BY <1>0, <3>2, <4>1, SamePremises
      <4>3. CASE l \in DOMAIN candidates
        BY <2>0, <3>2, <3>3, <4>1, <4>2, <4>3 DEF Choice, BestOffers
      <4>4. CASE l \in Known
        <5>1. \A m \in Body(theory, i) : closure[m].depth < closure[l].depth
          BY <3>2, <3>3, <4>1, <4>4
        <5>2. ~Preferred(RuleDerivation(theory, i), closure[l])
          BY <3>2, <3>3, <4>1, <4>4, <5>1 DEF Choice, ChosenProofIsPreferred
        <5> QED  BY <3>2, <4>2, <4>4, <5>2
      <4> QED  BY <3>1, <4>3, <4>4
    <3>4. ChosenProofIsPreferred'
      BY <1>0, <3>3 DEF ChosenProofIsPreferred
    <3> QED  BY <2>0, <3>4 DEF Choice, BestOffers
  <2> QED  BY <1>5, <2>1, <2>2 DEF CloseRound
<1>6. CASE TimeOut
  <2>1. UNCHANGED closure /\ pc' # "scan"
    BY <1>6 DEF TimeOut, Fail
  <2> QED  BY <1>1, <2>1 DEF Choice, BestOffers
<1>7. ASSUME NEW q \in Literal, Answer(q)
      PROVE  Choice'
  <2>1. UNCHANGED closure /\ pc' # "scan"
    BY <1>7 DEF Answer, Fail
  <2> QED  BY <1>1, <2>1 DEF Choice, BestOffers
<1>8. CASE UNCHANGED vars
  <2>1. UNCHANGED <<closure, candidates, pending, pc>>
    BY <1>8 DEF vars
  <2> QED  BY <1>0, <1>1, <2>1 DEF Choice, BestOffers
<1> QED
  BY <1>2, <1>3, <1>4, <1>5, <1>6, <1>7, <1>8 DEF Next, Terminated

-----------------------------------------------------------------------------
(***************************************************************************)
(* The rounds and the naive iteration.  Round by round the engine knows    *)
(* what the stage of the same number holds.  The stages are a function     *)
(* defined by recursion, so that they satisfy its equations has to be      *)
(* shown first; what is said of every stage goes by a least number at      *)
(* which it fails.                                                         *)
(***************************************************************************)

(* g lists the first n + 1 stages. *)
Stages(t, n, g) ==
  /\ g \in [0..n -> SUBSET Literal]
  /\ g[0] = FactLiterals(t)
  /\ \A k \in Nat : k < n => g[k + 1] = Consequences(t, g[k])

LEMMA ConsequencesType ==
  ASSUME NEW t \in Theories, NEW S \in SUBSET Literal
  PROVE  /\ FactLiterals(t) \in SUBSET Literal
         /\ Consequences(t, S) \in SUBSET Literal
BY TheoryType DEF Consequences

LEMMA StagesExist ==
  ASSUME NEW t \in Theories
  PROVE  \A n \in Nat : \E g : Stages(t, n, g)
<1> DEFINE bad == {n \in Nat : \A g : ~Stages(t, n, g)}
<1> SUFFICES ASSUME bad # {} PROVE FALSE
  OBVIOUS
<1>1. PICK n \in bad : \A m \in bad : n <= m
  <2>1. bad \in SUBSET Nat
    OBVIOUS
  <2> HIDE DEF bad
  <2> QED  BY <2>1, LeastNat
<1>2. CASE n = 0
  <2> DEFINE g == [k \in 0..0 |-> FactLiterals(t)]
  <2>1. FactLiterals(t) \in SUBSET Literal
    BY TheoryType
  <2>2. g \in [0..0 -> SUBSET Literal] /\ g[0] = FactLiterals(t)
    BY <2>1
  <2>3. Stages(t, 0, g)
    <3> HIDE DEF g
    <3> QED  BY <2>2 DEF Stages
  <2> HIDE DEF g
  <2> QED  BY <1>1, <1>2, <2>3
<1>3. CASE n # 0
  <2>1. n \in Nat /\ n - 1 \in Nat /\ n - 1 \notin bad
    BY <1>1, <1>3
  <2>2. PICK h : Stages(t, n - 1, h)
    BY <2>1
  <2> DEFINE g == [k \in 0..n |-> IF k = n THEN Consequences(t, h[n - 1]) ELSE h[k]]
  <2>3. \A k \in Nat : k < n => k \in 0..(n - 1) /\ h[k] \in SUBSET Literal /\ g[k] = h[k]
    BY <2>1, <2>2 DEF Stages
  <2>4. g \in [0..n -> SUBSET Literal]
    <3>1. \A k \in 0..n : k = n \/ (k \in Nat /\ k < n)
      BY <2>1
    <3>2. Consequences(t, h[n - 1]) \in SUBSET Literal
      <4>1. n - 1 \in Nat /\ n - 1 < n
        BY <2>1
      <4>2. h[n - 1] \in SUBSET Literal
        BY <2>3, <4>1
      <4> QED  BY <4>2, ConsequencesType
    <3> QED  BY <2>3, <3>1, <3>2
  <2>5. g[0] = FactLiterals(t)
    BY <1>3, <2>1, <2>2, <2>3 DEF Stages
  <2>6. ASSUME NEW k \in Nat, k < n
        PROVE  g[k + 1] = Consequences(t, g[k])
    <3>1. CASE k = n - 1
      <4>1. k + 1 = n /\ n \in 0..n
        BY <2>1, <3>1
      <4> QED  BY <2>3, <2>6, <3>1, <4>1
    <3>2. CASE k # n - 1
      <4>1. k + 1 < n /\ k < n - 1 /\ k + 1 \in Nat
        BY <2>1, <2>6, <3>2
      <4>2. h[k + 1] = Consequences(t, h[k])
        BY <2>2, <4>1 DEF Stages
      <4> QED  BY <2>3, <2>6, <4>1, <4>2
    <3> QED  BY <3>1, <3>2
  <2>7. Stages(t, n, g)
    <3> HIDE DEF g
    <3> QED  BY <2>4, <2>5, <2>6 DEF Stages
  <2> QED  BY <1>1, <2>7
<1> QED  BY <1>2, <1>3

LEMMA StagesAgree ==
  ASSUME NEW t \in Theories, NEW n \in Nat, NEW m \in Nat, NEW g, NEW h,
         Stages(t, n, g), Stages(t, m, h), NEW k \in Nat, k <= n, k <= m
  PROVE  g[k] = h[k]
<1> DEFINE bad == {j \in Nat : j <= n /\ j <= m /\ g[j] # h[j]}
<1> SUFFICES ASSUME bad # {} PROVE FALSE
  OBVIOUS
<1>1. PICK j \in bad : \A i \in bad : j <= i
  <2>1. bad \in SUBSET Nat
    OBVIOUS
  <2> HIDE DEF bad
  <2> QED  BY <2>1, LeastNat
<1>2. j # 0
  BY <1>1 DEF Stages
<1>3. /\ j - 1 \in Nat /\ j - 1 < n /\ j - 1 < m /\ (j - 1) + 1 = j
      /\ j - 1 \notin bad
  BY <1>1, <1>2
<1>4. g[j - 1] = h[j - 1]
  BY <1>3
<1>5. g[j] = Consequences(t, g[j - 1]) /\ h[j] = Consequences(t, h[j - 1])
  BY <1>3 DEF Stages
<1> QED  BY <1>1, <1>4, <1>5

LEMMA StageRecurrence ==
  ASSUME NEW t \in Theories
  PROVE  /\ Stage(t)[0] = FactLiterals(t)
         /\ \A n \in Nat : Stage(t)[n + 1] = Consequences(t, Stage(t)[n])
<1> DEFINE upTo(n) == CHOOSE g : Stages(t, n, g)
           F == [n \in Nat |-> upTo(n)[n]]
           G(f) == [n \in Nat |-> IF n = 0 THEN FactLiterals(t)
                                            ELSE Consequences(t, f[n - 1])]
<1>1. \A n \in Nat : Stages(t, n, upTo(n))
  BY StagesExist
<1>2. F[0] = FactLiterals(t)
  BY <1>1 DEF Stages
<1>3. ASSUME NEW n \in Nat, n # 0
      PROVE  F[n] = Consequences(t, F[n - 1])
  <2>1. n - 1 \in Nat /\ n - 1 < n /\ (n - 1) + 1 = n
    BY <1>3
  <2>2. upTo(n)[n] = Consequences(t, upTo(n)[n - 1])
    BY <1>1, <2>1 DEF Stages
  <2>3. upTo(n)[n - 1] = upTo(n - 1)[n - 1]
    <3>1. Stages(t, n, upTo(n)) /\ Stages(t, n - 1, upTo(n - 1))
      BY <1>1, <2>1
    <3> HIDE DEF upTo
    <3> QED  BY <2>1, <3>1, StagesAgree
  <2> HIDE DEF upTo
  <2> QED  BY <2>1, <2>2, <2>3
<1>4. F = G(F)
  <2> HIDE DEF upTo
  <2> QED  BY <1>2, <1>3
<1>5. Stage(t) = CHOOSE f : f = G(f)
  BY DEF Stage
<1>6. Stage(t) = G(Stage(t))
  <2> HIDE DEF F, G
  <2> QED  BY <1>4, <1>5
<1>7. ASSUME NEW n \in Nat
      PROVE  Stage(t)[n + 1] = Consequences(t, Stage(t)[n])
  <2>1. n + 1 \in Nat /\ n + 1 # 0 /\ (n + 1) - 1 = n
    OBVIOUS
  <2> QED  BY <1>6, <2>1
<1> QED  BY <1>6, <1>7

(* Once nothing follows from a stage, it is also every later one.          *)
LEMMA StagesSettle ==
  ASSUME NEW t \in Theories, NEW n \in Nat, NEW m \in Nat, n <= m,
         Consequences(t, Stage(t)[n]) = Stage(t)[n]
  PROVE  Stage(t)[m] = Stage(t)[n]
<1> DEFINE bad == {k \in Nat : n <= k /\ Stage(t)[k] # Stage(t)[n]}
<1> SUFFICES ASSUME bad # {} PROVE FALSE
  OBVIOUS
<1>1. PICK k \in bad : \A j \in bad : k <= j
  <2>1. bad \in SUBSET Nat
    OBVIOUS
  <2> HIDE DEF bad
  <2> QED  BY <2>1, LeastNat
<1>2. /\ k - 1 \in Nat /\ n <= k - 1 /\ (k - 1) + 1 = k /\ k - 1 \notin bad
  BY <1>1
<1>3. Stage(t)[k - 1] = Stage(t)[n]
  BY <1>2
<1>4. Stage(t)[k] = Consequences(t, Stage(t)[k - 1])
  BY <1>2, StageRecurrence
<1> QED  BY <1>1, <1>3, <1>4

(* What is known is a stage, and each depth is the first stage that holds  *)
(* the literal.                                                            *)
Staged ==
  /\ pc # "load" => Known = Stage(theory)[rounds]
  /\ DepthIsMinimal

LEMMA RoundIsAStage ==
  ASSUME Shape, NoMatchIsLost, BestOffers, pc = "scan", pending = {}
  PROVE  Consequences(theory, Known) = Known \cup DOMAIN candidates
<1>1. ASSUME NEW i \in Instances(theory), Body(theory, i) \subseteq Known
      PROVE  Head(theory, i) \in Known \cup DOMAIN candidates
  BY <1>1 DEF NoMatchIsLost
<1>2. \A l \in DOMAIN candidates : \E i \in Instances(theory) :
        Head(theory, i) = l /\ Body(theory, i) \subseteq Known
  BY DEF BestOffers
<1> QED  BY <1>1, <1>2 DEF Consequences

LEMMA NextStaged ==
  ASSUME Shape, NoMatchIsLost, Choice, Staged, [Next]_vars
  PROVE  Staged'
<1>0. theory' = theory /\ theory \in Theories
  BY TheoryIsFixed DEF Shape, TypeOK
<1>1. ASSUME UNCHANGED <<closure, rounds>>, pc # "load"
      PROVE  Staged'
  <2>1. Known' = Known
    BY <1>1 DEF Known
  <2> QED  BY <1>0, <1>1, <2>1 DEF Staged, DepthIsMinimal
<1>2. CASE LoadFacts
  <2>1. /\ Known' = FactLiterals(theory) /\ rounds' = 0
        /\ \A l \in Known' : closure'[l].depth = 0
    BY <1>2 DEF LoadFacts, Known, SourceDerivation, Shape, RoundDiscipline
  <2> QED  BY <1>0, <2>1, StageRecurrence DEF Staged, DepthIsMinimal
<1>3. CASE OpenRound
  BY <1>1, <1>3 DEF OpenRound
<1>4. ASSUME NEW i \in pending, Consider(i)
      PROVE  Staged'
  BY <1>1, <1>4 DEF Consider
<1>5. CASE CloseRound
  <2>1. CASE UNCHANGED <<closure, rounds>>
    BY <1>1, <1>5, <2>1 DEF CloseRound
  <2>2. CASE /\ rounds' = rounds + 1
             /\ closure' = [l \in Known \cup DOMAIN candidates |->
                  IF l \in DOMAIN candidates THEN candidates[l] ELSE closure[l]]
    <3>0. pc = "scan" /\ pending = {} /\ rounds \in Nat
      BY <1>5 DEF CloseRound, Shape, TypeOK
    <3>1. Known' = Known \cup DOMAIN candidates
      BY <2>2 DEF Known
    <3>2. Known' = Stage(theory)[rounds']
      <4>1. Known = Stage(theory)[rounds]
        BY <3>0 DEF Staged
      <4>2. Stage(theory)[rounds + 1] = Consequences(theory, Known)
        BY <1>0, <3>0, <4>1, StageRecurrence
      <4>3. Consequences(theory, Known) = Known \cup DOMAIN candidates
        BY <3>0, RoundIsAStage DEF Choice
      <4> QED  BY <2>2, <3>1, <4>2, <4>3
    <3>3. ASSUME NEW l \in Known'
          PROVE  /\ l \in Stage(theory)[closure'[l].depth]
                 /\ closure'[l].depth > 0 =>
                      l \notin Stage(theory)[closure'[l].depth - 1]
      <4>1. CASE l \in DOMAIN candidates
        <5>1. closure'[l].depth = rounds + 1 /\ l \notin Known
          BY <2>2, <3>0, <3>1, <4>1 DEF Shape, RoundDiscipline
        <5>2. (rounds + 1) - 1 = rounds /\ Known = Stage(theory)[rounds]
          BY <3>0 DEF Staged
        <5> QED  BY <2>2, <3>2, <5>1, <5>2
      <4>2. CASE l \notin DOMAIN candidates
        BY <2>2, <3>1, <4>2 DEF Staged, DepthIsMinimal
      <4> QED  BY <4>1, <4>2
    <3> QED  BY <1>0, <3>2, <3>3 DEF Staged, DepthIsMinimal
  <2> QED  BY <1>5, <2>1, <2>2 DEF CloseRound
<1>6. CASE TimeOut
  BY <1>1, <1>6 DEF TimeOut
<1>7. ASSUME NEW q \in Literal, Answer(q)
      PROVE  Staged'
  BY <1>1, <1>7 DEF Answer
<1>8. CASE UNCHANGED vars
  BY <1>0, <1>8 DEF vars, Staged, DepthIsMinimal, Known
<1> QED
  BY <1>2, <1>3, <1>4, <1>5, <1>6, <1>7, <1>8 DEF Next, Terminated

(* All that is needed of the rounds at once. *)
RoundInv ==
  /\ Shape /\ OnlyConsequences /\ NoMatchIsLost
  /\ Provenance /\ Sized /\ Counting /\ Choice /\ Staged

LEMMA InitRoundInv == Init => RoundInv
<1> SUFFICES ASSUME Init PROVE RoundInv
  OBVIOUS
<1>1. Shape /\ OnlyConsequences /\ NoMatchIsLost
  BY InitShape, InitSound, InitComplete
<1>2. Provenance
  BY DEF Init, Provenance, ProofsAreSelfContained, CandidatesAreSelfContained,
         Known, NoDerivations
<1>3. Known = {} /\ pc = "load" /\ rounds = 0 /\ firings = 0
  BY DEF Init, Known, NoDerivations
<1>4. Sized /\ Choice /\ Staged
  BY <1>3, LimitsAssumption
     DEF Sized, Choice, BestOffers, ChosenProofIsPreferred, Staged, DepthIsMinimal
<1>5. Counting
  <2>1. Cardinality(Matched) \in Nat
    BY <1>1, FiniteInstances DEF Matched, Shape
  <2> QED  BY <1>3, <2>1 DEF Counting
<1> QED  BY <1>1, <1>2, <1>4, <1>5 DEF RoundInv

LEMMA NextRoundInv == RoundInv /\ [Next]_vars => RoundInv'
BY NextShape, NextSound, NextComplete, NextProvenance, NextSized, NextCounting,
   NextChoice, NextStaged DEF RoundInv, Provenance

(* Whatever order a round takes its instances in, no derivation that was   *)
(* available one round earlier is better than the one that was kept.       *)
THEOREM BestProofs == Spec => []ChosenProofIsPreferred
<1>1. RoundInv => ChosenProofIsPreferred
  BY DEF RoundInv, Choice
<1> QED  BY <1>1, InitRoundInv, NextRoundInv, PTL DEF Spec

(* A chosen derivation is as shallow as any derivation of its literal.     *)
THEOREM ShallowestProofs == Spec => []DepthIsMinimal
<1>1. RoundInv => DepthIsMinimal
  BY DEF RoundInv, Staged
<1> QED  BY <1>1, InitRoundInv, NextRoundInv, PTL DEF Spec

(* The derivation that is kept is the best of those there were.            *)
THEOREM BestIsKept == Spec => []BestProofIsKept
BY BestProofs, ShallowestProofs, PTL DEF BestProofIsKept

-----------------------------------------------------------------------------
(***************************************************************************)
(* The limits.  What a limit counts only grows towards what the least      *)
(* model has of it, so a limit that is passed is one the model passes.     *)
(***************************************************************************)

LEMMA FiniteHeads ==
  ASSUME NEW t \in Theories
  PROVE  IsFiniteSet({Head(t, i) : i \in Instances(t)})
<1> DEFINE heads == {Head(t, i) : i \in Instances(t)}
           f == [i \in Instances(t) |-> Head(t, i)]
<1>1. IsFiniteSet(Instances(t))
  BY TheoriesAssumption DEF IsTheory, Instances
<1>2. f \in Surjection(Instances(t), heads)
  BY DEF Surjection
<1> HIDE DEF f, heads
<1>3. IsFiniteSet(heads)
  BY <1>1, <1>2, FS_Surjection
<1> QED  BY <1>3 DEF heads

LEMMA FiniteModel ==
  ASSUME NEW t \in Theories
  PROVE  /\ IsFiniteSet(LeastModel(t)) /\ Cardinality(LeastModel(t)) \in Nat
         /\ FactLiterals(t) \subseteq LeastModel(t)
<1> DEFINE heads == {Head(t, i) : i \in Instances(t)}
           F == FactLiterals(t)
<1>1. IsFiniteSet(heads)
  BY FiniteHeads
<1>2. IsFiniteSet(F \cup heads)
  <2>1. IsFiniteSet(F)
    BY FactsAreFinite
  <2> HIDE DEF F, heads
  <2> QED  BY <1>1, <2>1, FS_Union
<1>3. F \cup heads \in SUBSET Literal /\ IsModel(t, F \cup heads)
  BY TheoryType DEF IsModel
<1>4. LeastModel(t) \subseteq F \cup heads
  BY <1>3 DEF LeastModel
<1>5. F \subseteq LeastModel(t)
  BY TheoryType DEF LeastModel, IsModel
<1> HIDE DEF F, heads
<1> QED  BY <1>2, <1>4, <1>5, FS_Subset, FS_CardinalityType DEF F

LEMMA KnownIsInModel ==
  ASSUME Shape, OnlyConsequences
  PROVE  /\ Known \cup DOMAIN candidates \subseteq LeastModel(theory)
         /\ Cardinality(Known \cup DOMAIN candidates)
              <= Cardinality(LeastModel(theory))
<1>1. Known \cup DOMAIN candidates \subseteq LeastModel(theory)
  BY DEF Shape, TypeOK, OnlyConsequences, LeastModel
<1>2. IsFiniteSet(LeastModel(theory))
  BY FiniteModel DEF Shape, TypeOK
<1> QED  BY <1>1, <1>2, FS_Subset

(* The instances that match the least model. *)
ModelMatched ==
  {i \in Instances(theory) : Body(theory, i) \subseteq LeastModel(theory)}

(* An engine that has not failed has not passed a limit.                   *)
WithinLimits ==
  pc # "failed" => error = "none" /\ firings <= MaxRuleFirings

LEMMA NextLimits ==
  ASSUME RoundInv, WithinLimits, WorkLimitsAreExact, [Next]_vars
  PROVE  WithinLimits' /\ WorkLimitsAreExact'
<1> DEFINE model == LeastModel(theory)
<1>0. /\ theory' = theory /\ theory \in Theories /\ RoundInv' /\ rounds \in Nat
      /\ firings \in Nat /\ rounds <= MaxRounds
      /\ MaxRounds \in Nat /\ MaxRuleFirings \in Nat /\ MaxDerivedLiterals \in Nat
  BY TheoryIsFixed, NextRoundInv, LimitsAssumption DEF RoundInv, Shape, TypeOK, Sized
<1>1. ModelMatched' = ModelMatched
  BY <1>0 DEF ModelMatched
<1>2. WorkLimitsAreExact' <=>
        /\ error' = "max_rounds" => Stage(theory)[MaxRounds] # model
        /\ error' = "max_derived_literals" => Cardinality(model) > MaxDerivedLiterals
        /\ error' = "max_rule_firings" => Cardinality(ModelMatched) > MaxRuleFirings
        /\ pc' \in {"saturated", "answered"} =>
             /\ Stage(theory)[MaxRounds] = model
             /\ Cardinality(model) <= MaxDerivedLiterals
             /\ Cardinality(ModelMatched) <= MaxRuleFirings
  BY <1>0 DEF WorkLimitsAreExact, ModelMatched
<1>3. ASSUME pc # "failed", firings' = firings, pc' \in {"saturated", "answered"},
             error' = error
      PROVE  WithinLimits' /\ WorkLimitsAreExact'
  <2>1. Known' = model
    <3>1. Known' \in SUBSET Literal /\ \A S \in SUBSET Literal :
                                       IsModel(theory, S) => Known' \subseteq S
      BY <1>0 DEF RoundInv, Shape, TypeOK, OnlyConsequences
    <3>2. IsModel(theory, Known')
      BY <1>0, <1>3 DEF RoundInv, Shape, RoundDiscipline, NoMatchIsLost, IsModel
    <3> QED  BY <3>1, <3>2 DEF LeastModel
  <2>2. Stage(theory)[MaxRounds] = Known'
    <3>1. rounds' \in Nat /\ rounds' <= MaxRounds /\ Known' = Stage(theory)[rounds']
      BY <1>0, <1>3 DEF RoundInv, Shape, TypeOK, Sized, Staged
    <3>2. Consequences(theory, Known') = Known'
      BY <1>0, <1>3 DEF RoundInv, NoMatchIsLost, Consequences
    <3> QED  BY <1>0, <3>1, <3>2, StagesSettle
  <2>3. Cardinality(Known') <= MaxDerivedLiterals
    BY <1>0, <1>3 DEF RoundInv, Sized
  <2>4. Cardinality(ModelMatched) = firings'
    BY <1>0, <1>3, <2>1 DEF RoundInv, Counting, Considered, Matched, ModelMatched
  <2>5. error' = "none" /\ firings' <= MaxRuleFirings
    BY <1>3 DEF WithinLimits
  <2> QED  BY <1>2, <2>1, <2>2, <2>3, <2>4, <2>5 DEF WithinLimits
<1>4. ASSUME pc # "failed", firings' = firings, pc' \in {"round", "scan"},
             error' = error
      PROVE  WithinLimits' /\ WorkLimitsAreExact'
  BY <1>2, <1>4 DEF WithinLimits
<1>5. ASSUME pc' = "failed",
             error' \in {"timeout_seconds", "max_proof_nodes"}
      PROVE  WithinLimits' /\ WorkLimitsAreExact'
  BY <1>2, <1>5 DEF WithinLimits
<1>6. ASSUME pc' = "failed", error' = "max_derived_literals",
             Cardinality(model) > MaxDerivedLiterals
      PROVE  WithinLimits' /\ WorkLimitsAreExact'
  BY <1>2, <1>6 DEF WithinLimits
<1>7. CASE LoadFacts
  <2>1. Cardinality(FactLiterals(theory)) \in Nat /\ Cardinality(model) \in Nat
        /\ Cardinality(FactLiterals(theory)) <= Cardinality(model)
    <3>1. /\ IsFiniteSet(model) /\ Cardinality(model) \in Nat
          /\ FactLiterals(theory) \subseteq model
      BY <1>0, FiniteModel
    <3> HIDE DEF model
    <3> QED  BY <3>1, FS_Subset, FS_CardinalityType
  <2>2. /\ pc = "load" /\ firings' = firings
        /\ \/ pc' = "round" /\ error' = error
           \/ /\ pc' = "failed" /\ error' = "max_derived_literals"
              /\ Cardinality(FactLiterals(theory)) > MaxDerivedLiterals
    BY <1>7 DEF LoadFacts, Fail
  <2> QED  BY <1>0, <1>4, <1>6, <2>1, <2>2
<1>8. CASE OpenRound
  BY <1>3, <1>4, <1>8 DEF OpenRound
<1>9. ASSUME NEW i \in pending, Consider(i)
      PROVE  WithinLimits' /\ WorkLimitsAreExact'
  <2>1. CASE pc' = "failed" /\ error' = "max_rule_firings" /\ firings' > MaxRuleFirings
    <3>1. Matched' \subseteq ModelMatched
      <4>1. Known' = Known /\ Known \subseteq model
        BY <1>9, KnownIsInModel DEF RoundInv, Consider, Known
      <4> QED  BY <1>0, <4>1 DEF Matched, ModelMatched
    <3>2. ModelMatched \subseteq Instances(theory)
      BY DEF ModelMatched
    <3>3. /\ Cardinality(Matched') <= Cardinality(ModelMatched)
          /\ Cardinality(Matched') \in Nat /\ Cardinality(ModelMatched) \in Nat
      BY <3>1, <3>2, FiniteInstances, MoreMatches DEF RoundInv, Shape
    <3>4. firings' <= Cardinality(Matched') /\ firings' \in Nat
      BY <1>0 DEF RoundInv, Counting, Shape, TypeOK
    <3> QED  BY <1>0, <1>2, <2>1, <3>3, <3>4 DEF WithinLimits
  <2>2. CASE pc' = "failed" /\ error' = "max_proof_nodes"
    BY <1>5, <2>2
  <2>3. CASE UNCHANGED <<pc, error>> /\ firings' <= MaxRuleFirings
    BY <1>2, <1>9, <2>3 DEF WithinLimits, Consider
  <2> QED  BY <1>9, <2>1, <2>2, <2>3 DEF Consider, Fail
<1>10. CASE CloseRound
  <2>1. pc = "scan" /\ firings' = firings
    BY <1>10 DEF CloseRound
  <2>2. CASE pc' \in {"saturated", "round"} /\ error' = error
    BY <1>3, <1>4, <2>1, <2>2
  <2>3. CASE /\ pc' = "failed" /\ error' = "max_rounds"
             /\ DOMAIN candidates # {} /\ rounds + 1 > MaxRounds
    <3>1. rounds = MaxRounds /\ Known = Stage(theory)[MaxRounds]
      BY <1>0, <2>1, <2>3 DEF RoundInv, Staged
    <3>2. DOMAIN candidates \subseteq model /\ DOMAIN candidates \cap Known = {}
      BY <2>1, KnownIsInModel DEF RoundInv, Shape, RoundDiscipline
    <3> QED  BY <1>2, <2>3, <3>1, <3>2 DEF WithinLimits
  <2>4. CASE /\ pc' = "failed" /\ error' = "max_derived_literals"
             /\ Cardinality(Known) + Cardinality(DOMAIN candidates)
                  > MaxDerivedLiterals
    <3>1. IsFiniteSet(Known) /\ IsFiniteSet(DOMAIN candidates)
          /\ Known \cap DOMAIN candidates = {}
      BY <2>1 DEF RoundInv, Sized, Shape, RoundDiscipline
    <3>2. /\ IsFiniteSet(Known \cup DOMAIN candidates)
          /\ Cardinality(Known \cup DOMAIN candidates)
               = Cardinality(Known) + Cardinality(DOMAIN candidates)
      BY <3>1, DisjointSizes
    <3>3. /\ Cardinality(Known \cup DOMAIN candidates) <= Cardinality(model)
          /\ Cardinality(model) \in Nat
      BY <1>0, KnownIsInModel, FiniteModel DEF RoundInv
    <3>4. Cardinality(Known \cup DOMAIN candidates) \in Nat
      BY <3>2, FS_CardinalityType
    <3>5. Cardinality(model) > MaxDerivedLiterals
      BY <1>0, <2>4, <3>2, <3>3, <3>4
    <3> QED  BY <1>6, <2>4, <3>5
  <2> QED  BY <1>10, <2>2, <2>3, <2>4 DEF CloseRound, Fail
<1>11. CASE TimeOut
  BY <1>5, <1>11 DEF TimeOut, Fail
<1>12. ASSUME NEW q \in Literal, Answer(q)
       PROVE  WithinLimits' /\ WorkLimitsAreExact'
  BY <1>3, <1>5, <1>12 DEF Answer, Fail
<1>13. CASE UNCHANGED vars
  BY <1>0, <1>1, <1>2, <1>13 DEF vars, WithinLimits, WorkLimitsAreExact, ModelMatched
<1> QED
  BY <1>7, <1>8, <1>9, <1>10, <1>11, <1>12, <1>13 DEF Next, Terminated

(* A limit stops only a theory that really needs more than it allows, and  *)
(* an engine that saturates needed no more than every limit allows.        *)
THEOREM ExactWorkLimits == Spec => []WorkLimitsAreExact
<1>1. Init => WithinLimits /\ WorkLimitsAreExact
  BY LimitsAssumption DEF Init, WithinLimits, WorkLimitsAreExact
<1>2. RoundInv /\ WithinLimits /\ WorkLimitsAreExact /\ [Next]_vars
        => WithinLimits' /\ WorkLimitsAreExact'
  BY NextLimits
<1> QED  BY <1>1, <1>2, InitRoundInv, NextRoundInv, PTL DEF Spec

-----------------------------------------------------------------------------
(***************************************************************************)
(* The limit on proofs.  What was considered was small enough, and its     *)
(* proof stays what it was.                                                *)
(***************************************************************************)

LEMMA StillConsidered ==
  ASSUME Shape, [Next]_vars, pc' # "failed", NEW i \in Considered'
  PROVE  i \in Considered \/ (i \in pending /\ Consider(i))
<1>1. theory' = theory /\ i \in Instances(theory) /\ Body(theory, i) # {}
  BY TheoryIsFixed, TheoryType DEF Considered, Matched, Shape, TypeOK
<1>2. CASE LoadFacts
  <2>1. delta' = Known' /\ pc' = "round"
    BY <1>2 DEF LoadFacts, Fail, Known
  <2> QED  BY <1>1, <2>1 DEF Considered, Matched
<1>3. CASE OpenRound
  BY <1>1, <1>3 DEF OpenRound, Considered, Matched, NewMatches, Known
<1>4. ASSUME NEW j \in pending, Consider(j)
      PROVE  i \in Considered \/ (i \in pending /\ Consider(i))
  <2>1. pc = "scan" /\ pc' = "scan" /\ Matched' = Matched /\ pending' = pending \ {j}
    BY <1>1, <1>4 DEF Consider, Fail, Matched, Known
  <2> QED  BY <1>4, <2>1 DEF Considered
<1>5. CASE CloseRound
  <2>1. pc = "scan" /\ pending = {} /\ Considered = Matched
    BY <1>5 DEF CloseRound, Considered
  <2>2. CASE Known' = Known
    BY <1>1, <2>1, <2>2 DEF Considered, Matched
  <2>3. CASE /\ Known' = Known \cup DOMAIN candidates
             /\ delta' = DOMAIN candidates /\ pc' = "round"
    <3>1. Body(theory, i) \subseteq Known' /\ Body(theory, i) \cap delta' = {}
      BY <1>1, <2>3 DEF Considered, Matched
    <3>2. Body(theory, i) \subseteq Known
      BY <2>3, <3>1
    <3> QED  BY <1>1, <2>1, <3>2 DEF Matched
  <2> QED  BY <1>5, <2>2, <2>3 DEF CloseRound, Known, Fail
<1>6. CASE TimeOut \/ \E q \in Literal : Answer(q)
  BY <1>1, <1>6 DEF TimeOut, Answer, Fail, Considered, Matched, Known
<1>7. CASE UNCHANGED vars
  BY <1>7 DEF vars, Considered, Matched, Known
<1> QED  BY <1>2, <1>3, <1>4, <1>5, <1>6, <1>7 DEF Next, Terminated

SmallProofs ==
  /\ pc # "failed" =>
       /\ error = "none"
       /\ \A i \in Considered : ProofSize(RuleDerivation(theory, i).steps) <= MaxProofNodes
  /\ error = "max_proof_nodes" =>
       \E n \in ProofSizes \cup AnswerSizes : n > MaxProofNodes

LEMMA NextSmall ==
  ASSUME RoundInv, SmallProofs, [Next]_vars
  PROVE  SmallProofs'
<1>1. /\ Shape /\ ProofsAreSelfContained /\ Sized /\ theory' = theory
      /\ MaxProofNodes \in Nat
  BY TheoryIsFixed, LimitsAssumption DEF RoundInv, Provenance
<1>2. ASSUME NEW i \in Matched
      PROVE  RuleDerivation(theory, i)' = RuleDerivation(theory, i)
  <2>1. i \in Instances(theory) /\ Body(theory, i) \subseteq Known
    BY DEF Matched
  <2>2. \A l \in Body(theory, i) : closure'[l] = closure[l]
    BY <1>1, <2>1, KeptDerivations
  <2> QED  BY <1>1, <2>1, <2>2, SamePremises
<1>3. ASSUME NEW i \in pending, Consider(i)
      PROVE  /\ i \in Matched /\ ProofSize(RuleDerivation(theory, i).steps) \in Nat
             /\ closure' = closure
  <2>1. /\ i \in Instances(theory) /\ Body(theory, i) \subseteq Known
        /\ IsFiniteSet(Known) /\ closure' = closure
    BY <1>1, <1>3 DEF Consider, Shape, TypeOK, RoundDiscipline, Sized
  <2>2. IsComparable(RuleDerivation(theory, i))
    BY <1>1, <2>1, RuleDerivationIsComparable
  <2> QED  BY <2>1, <2>2 DEF Matched, IsComparable
<1>4. ASSUME pc' # "failed"
      PROVE  /\ pc # "failed" /\ error' = error
             /\ \A i \in Considered' :
                  ProofSize(RuleDerivation(theory, i)'.steps) <= MaxProofNodes
  <2>1. pc # "failed" /\ error' = error
    BY <1>4 DEF Next, LoadFacts, OpenRound, Consider, CloseRound, TimeOut, Answer,
                Fail, Terminated, vars
  <2>2. ASSUME NEW i \in Considered'
        PROVE  ProofSize(RuleDerivation(theory, i)'.steps) <= MaxProofNodes
    <3>1. CASE i \in Considered
      <4>1. ProofSize(RuleDerivation(theory, i).steps) <= MaxProofNodes /\ i \in Matched
        BY <2>1, <3>1 DEF SmallProofs, Considered
      <4> QED  BY <1>2, <4>1
    <3>2. CASE i \in pending /\ Consider(i)
      <4> DEFINE n == ProofSize(RuleDerivation(theory, i).steps)
      <4>1. n \in Nat /\ ~(n > MaxProofNodes) /\ i \in Matched
        BY <1>3, <1>4, <3>2 DEF Consider, Fail, IsTooLarge
      <4>2. n <= MaxProofNodes
        <5> HIDE DEF n
        <5> QED  BY <1>1, <4>1
      <4> QED  BY <1>2, <4>1, <4>2
    <3> QED  BY <1>1, <1>4, <3>1, <3>2, StillConsidered
  <2> QED  BY <2>1, <2>2
<1>5. ASSUME error' = "max_proof_nodes"
      PROVE  \E n \in ProofSizes' \cup AnswerSizes' : n > MaxProofNodes
  <2>1. CASE error = "max_proof_nodes"
    <3>1. UNCHANGED vars
      BY <2>1 DEF SmallProofs, Next, LoadFacts, OpenRound, Consider, CloseRound, TimeOut,
                  Answer, Terminated, RoundInv, Shape, TypeOK, RoundDiscipline
    <3>2. closure' = closure /\ Matched' = Matched
      BY <3>1 DEF vars, Matched, Known
    <3>3. ProofSizes' = ProofSizes
      BY <1>1, <1>2, <3>2 DEF ProofSizes
    <3>4. \A q \in Literal : ProofSteps(q)' = ProofSteps(q)
      BY <3>2 DEF ProofSteps, QuerySides, Known
    <3>5. AnswerSizes' = AnswerSizes
      BY <3>4 DEF AnswerSizes
    <3> QED  BY <2>1, <3>3, <3>5 DEF SmallProofs
  <2>2. ASSUME NEW i \in pending, Consider(i), error # "max_proof_nodes"
        PROVE  \E n \in ProofSizes' : n > MaxProofNodes
    <3>1. /\ i \in Matched /\ Matched' = Matched
          /\ ProofSize(RuleDerivation(theory, i).steps) > MaxProofNodes
      BY <1>1, <1>3, <1>5, <2>2 DEF Consider, Fail, IsTooLarge, Matched, Known
    <3>2. ProofSize(RuleDerivation(theory, i)'.steps) > MaxProofNodes
      BY <1>2, <3>1
    <3> QED  BY <1>1, <3>1, <3>2 DEF ProofSizes
  <2>3. ASSUME NEW q \in Literal, Answer(q), error # "max_proof_nodes"
        PROVE  \E n \in AnswerSizes' : n > MaxProofNodes
    <3>1. closure' = closure /\ ProofSize(ProofSteps(q)) > MaxProofNodes
      BY <1>5, <2>3 DEF Answer, Fail
    <3>2. ProofSteps(q)' = ProofSteps(q)
      BY <3>1 DEF ProofSteps, QuerySides, Known
    <3> QED  BY <3>1, <3>2 DEF AnswerSizes
  <2> QED
    BY <1>5, <2>1, <2>2, <2>3 DEF Next, LoadFacts, OpenRound, CloseRound, TimeOut, Fail,
                                  Terminated, vars
<1> QED  BY <1>1, <1>4, <1>5 DEF SmallProofs

(* max_proof_nodes stops a theory just when an instance that matches it,   *)
(* or the query, has a proof that is larger, whether the proof would have  *)
(* been kept or not (_check_limit in _saturate and in reason).             *)
THEOREM ExactProofLimit == Spec => []ProofLimitIsExact
<1>1. Init => SmallProofs
  <2> SUFFICES ASSUME Init  PROVE SmallProofs
    OBVIOUS
  <2>1. \A i \in Instances(theory) : Body(theory, i) # {}
    BY TheoryType DEF Init
  <2> QED  BY <2>1 DEF Init, SmallProofs, Considered, Matched, Known, NoDerivations
<1>2. RoundInv /\ SmallProofs => ProofLimitIsExact
  <2> SUFFICES ASSUME RoundInv, SmallProofs  PROVE ProofLimitIsExact
    OBVIOUS
  <2>1. pc \in {"saturated", "answered"} => Considered = Matched
    BY DEF Considered
  <2> QED  BY <2>1 DEF SmallProofs, ProofLimitIsExact, ProofSizes, RoundInv, Sized
<1> QED  BY <1>1, <1>2, InitRoundInv, NextRoundInv, NextSmall, PTL DEF Spec

(* A limit stops only what exceeds it, and what is answered exceeds none.  *)
THEOREM ExactLimits == Spec => []LimitsAreExact
BY ExactWorkLimits, ExactProofLimit, PTL DEF LimitsAreExact

-----------------------------------------------------------------------------
(***************************************************************************)
(* The saturation ends.                                                    *)
(***************************************************************************)

(* What is left is a number, of which the parts are too. *)
LeftIsANumber ==
  /\ IsFiniteSet(Addable) /\ Cardinality(Addable) \in Nat
  /\ Cardinality(Instances(theory)) \in Nat
  /\ firings \in Nat /\ firings <= Cardinality(Instances(theory))
  /\ StagesLeft \in Nat

LEMMA LeftType == Shape /\ Counting => LeftIsANumber
<1> SUFFICES ASSUME Shape, Counting  PROVE LeftIsANumber
  OBVIOUS
<1>1. theory \in Theories /\ firings \in Nat
  BY DEF Shape, TypeOK
<1>2. IsFiniteSet(Addable) /\ Cardinality(Addable) \in Nat
  BY <1>1, FiniteHeads, FS_Subset, FS_CardinalityType DEF Addable
<1>3. /\ Cardinality(Instances(theory)) \in Nat /\ Cardinality(Matched) \in Nat
      /\ Cardinality(Matched) <= Cardinality(Instances(theory))
  BY FiniteInstances, MoreMatches DEF Matched, Shape
<1>4. firings <= Cardinality(Instances(theory))
  BY <1>1, <1>3 DEF Counting
<1>5. StagesLeft \in Nat
  BY DEF Shape, TypeOK, StagesLeft
<1> QED  BY <1>1, <1>2, <1>3, <1>4, <1>5 DEF LeftIsANumber

LEMMA FewerInAll ==
  ASSUME NEW a \in Nat, NEW b \in Nat, NEW m \in Nat, NEW f \in Nat, NEW g \in Nat,
         NEW j \in Nat, NEW k \in Nat, g <= m,
         \/ b <= a /\ g = f /\ k < j
         \/ b <= a /\ g = f + 1 /\ k <= j
         \/ b < a /\ g = f /\ k <= j + 1
  PROVE  /\ 2 * b + (m - g) + k < 2 * a + (m - f) + j
         /\ 2 * b + (m - g) + k >= 0
OBVIOUS

LEMMA FewerSteps ==
  ASSUME RoundInv, [Next]_vars, ~UNCHANGED vars
  PROVE  StepsLeft' < StepsLeft /\ StepsLeft' >= 0
<1> DEFINE a == Cardinality(Addable)
           b == Cardinality(Addable')
           m == Cardinality(Instances(theory))
<1>1. /\ Shape /\ Counting /\ Shape' /\ Counting' /\ theory' = theory
  BY NextRoundInv, TheoryIsFixed DEF RoundInv
<1>2. /\ a \in Nat /\ b \in Nat /\ m \in Nat
      /\ firings \in Nat /\ firings' \in Nat /\ firings' <= m
      /\ StagesLeft \in Nat /\ StagesLeft' \in Nat
      /\ IsFiniteSet(Addable) /\ IsFiniteSet(Addable')
  <2>1. LeftIsANumber /\ LeftIsANumber'
    BY <1>1, LeftType, PTL
  <2> QED  BY <1>1, <2>1 DEF LeftIsANumber
<1>3. /\ StepsLeft = 2 * a + (m - firings) + StagesLeft
      /\ StepsLeft' = 2 * b + (m - firings') + StagesLeft'
  BY <1>1 DEF StepsLeft
<1>4. Addable' \subseteq Addable => b <= a /\ (b = a => Addable' = Addable)
  BY <1>2, FS_Subset
<1> HIDE DEF a, b, m
<1>5. ASSUME \/ b <= a /\ firings' = firings /\ StagesLeft' < StagesLeft
             \/ b <= a /\ firings' = firings + 1 /\ StagesLeft' <= StagesLeft
             \/ b < a /\ firings' = firings /\ StagesLeft' <= StagesLeft + 1
      PROVE  StepsLeft' < StepsLeft /\ StepsLeft' >= 0
  BY <1>2, <1>3, <1>5, FewerInAll
<1>6. CASE LoadFacts
  <2>1. /\ firings' = firings /\ pc = "load" /\ pc' \in {"failed", "round"} /\ Known = {}
    BY <1>1, <1>6 DEF LoadFacts, Fail, Shape, RoundDiscipline
  <2>2. Addable' \subseteq Addable /\ StagesLeft' < StagesLeft
    BY <1>1, <2>1 DEF Addable, StagesLeft
  <2> QED  BY <1>2, <1>4, <1>5, <2>1, <2>2
<1>7. CASE OpenRound \/ TimeOut \/ \E q \in Literal : Answer(q)
  <2>1. firings' = firings /\ Addable' = Addable /\ StagesLeft' < StagesLeft
    BY <1>1, <1>7 DEF OpenRound, TimeOut, Answer, Fail, Addable, Known, StagesLeft
  <2> QED  BY <1>2, <1>4, <1>5, <2>1
<1>8. ASSUME NEW i \in pending, Consider(i)
       PROVE  StepsLeft' < StepsLeft /\ StepsLeft' >= 0
  <2>1. firings' = firings + 1 /\ Addable' = Addable /\ StagesLeft' <= StagesLeft
    BY <1>1, <1>8 DEF Consider, Fail, Addable, Known, StagesLeft
  <2> QED  BY <1>2, <1>4, <1>5, <2>1
<1>9. CASE CloseRound
  <2>1. pc = "scan" /\ firings' = firings
    BY <1>9 DEF CloseRound
  <2>2. CASE Known' = Known /\ pc' \in {"saturated", "failed"}
    <3>1. Addable' = Addable /\ StagesLeft' < StagesLeft
      BY <1>1, <2>1, <2>2 DEF Addable, StagesLeft
    <3> QED  BY <1>2, <1>4, <1>5, <2>1, <3>1
  <2>3. CASE /\ Known' = Known \cup DOMAIN candidates
             /\ DOMAIN candidates # {} /\ pc' = "round"
    <3>1. PICK l \in DOMAIN candidates : TRUE
      BY <2>3
    <3>2. l \in Addable /\ l \notin Addable'
      BY <1>1, <2>1, <2>3, <3>1
         DEF RoundInv, Choice, BestOffers, Shape, RoundDiscipline, Addable
    <3>3. Addable' \subseteq Addable
      BY <1>1, <2>3 DEF Addable
    <3>4. StagesLeft' <= StagesLeft + 1
      BY <2>1, <2>3 DEF StagesLeft
    <3> QED  BY <1>2, <1>4, <1>5, <2>1, <3>2, <3>3, <3>4
  <2> QED  BY <1>9, <2>2, <2>3 DEF CloseRound, Known, Fail
<1> QED  BY <1>6, <1>7, <1>8, <1>9 DEF Next, Terminated

(* Saturation ends by itself: a round that goes on adds a literal, and an  *)
(* instance is taken once, so the theory alone bounds the steps, with      *)
(* whatever limits and without a deadline (the loop in _saturate).         *)
THEOREM Ends == Spec => SaturationEnds
<1>1. RoundInv /\ [Next]_vars => [StepsLeft' < StepsLeft /\ StepsLeft' >= 0]_vars
  BY FewerSteps
<1> QED  BY <1>1, InitRoundInv, NextRoundInv, PTL DEF Spec, SaturationEnds

(* The closure never changes what it holds, and stops growing.             *)
THEOREM GrowsToAnEnd == Spec => ClosureGrowsToAnEnd
BY FinalDerivations, Ends, PTL DEF ClosureGrowsToAnEnd

-----------------------------------------------------------------------------
(***************************************************************************)
(* The engine under the verifier.                                          *)
(***************************************************************************)

AnswerHasItsProof ==
  pc = "answered" =>
    /\ result.query \in Literal
    /\ result.status = Classify(result.query, Known)
    /\ result.conflicts = Conflicts(Known)
    /\ result.steps = ProofSteps(result.query)

EngineInv ==
  Shape /\ OnlyConsequences /\ NoMatchIsLost /\ Provenance /\ AnswerHasItsProof

LEMMA InitEngine == Init => EngineInv
<1>1. Init => Provenance
  BY DEF Init, Provenance, ProofsAreSelfContained, CandidatesAreSelfContained,
         Known, NoDerivations
<1>2. Init => AnswerHasItsProof
  BY DEF Init, AnswerHasItsProof
<1> QED  BY <1>1, <1>2, InitShape, InitSound, InitComplete DEF EngineInv

LEMMA NextEngine == EngineInv /\ [Next]_vars => EngineInv'
<1> SUFFICES ASSUME EngineInv, [Next]_vars
             PROVE  EngineInv'
  OBVIOUS
<1>1. AnswerHasItsProof'
  <2> SUFFICES ASSUME pc' = "answered"
               PROVE  AnswerHasItsProof'
    BY DEF AnswerHasItsProof
  <2>1. CASE \E q \in Literal : Answer(q)
    BY <2>1 DEF Answer, AnswerHasItsProof, Fail, Known, ProofSteps, QuerySides
  <2>2. CASE UNCHANGED vars
    BY <2>2 DEF vars, EngineInv, AnswerHasItsProof, Known, ProofSteps, QuerySides
  <2> QED
    BY <2>1, <2>2 DEF Next, LoadFacts, OpenRound, Consider, CloseRound, TimeOut,
                      Fail, Terminated
<1> QED  BY <1>1, NextShape, NextSound, NextComplete, NextProvenance DEF EngineInv

-----------------------------------------------------------------------------
(***************************************************************************)
(* Claims.                                                                 *)
(***************************************************************************)

(* Steps of the right type that are told apart by their literals.          *)
GoodSteps(S) ==
  /\ S \subseteq Step
  /\ \A r, s \in S : r.literal = s.literal => r = s

ClaimOK(c) == c.query \in Literal /\ GoodSteps(c.steps)

LEMMA ChosenStepsAreGood ==
  ASSUME Shape, ProofsAreSelfContained, NEW Q \in SUBSET Known
  PROVE  GoodSteps(UNION {closure[l].steps : l \in Q})
<1>1. ASSUME NEW l \in Q, NEW s \in closure[l].steps
      PROVE  s \in Step /\ s.literal \in Known /\ s = RootStep(s.literal, closure[s.literal])
  <2>1. closure[l] \in Derivation
    BY DEF Shape, TypeOK
  <2> QED  BY <2>1 DEF Derivation, ProofsAreSelfContained
<1> DEFINE U == UNION {closure[l].steps : l \in Q}
<1>2. \A s \in U : s \in Step /\ s = RootStep(s.literal, closure[s.literal])
  BY <1>1
<1> HIDE DEF U
<1>3. ASSUME NEW r \in U, NEW s \in U, r.literal = s.literal
      PROVE  r = s
  <2>1. /\ r = RootStep(r.literal, closure[r.literal])
        /\ s = RootStep(s.literal, closure[s.literal])
    BY <1>2
  <2> QED  BY <1>3, <2>1
<1>4. GoodSteps(U)
  BY <1>2, <1>3 DEF GoodSteps
<1> QED  BY <1>4 DEF U

LEMMA StepIsRecord ==
  ASSUME NEW s \in Step
  PROVE  /\ s = [literal |-> s.literal, by |-> s.by, depth |-> s.depth]
         /\ s.literal \in Literal /\ s.depth \in Nat /\ s.by \in Origin
         /\ s.by[1] \in {"fact", "rule"}
BY DEF Step, Origin

LEMMA SwappedIsGood ==
  ASSUME NEW S, GoodSteps(S), NEW s \in S, NEW r \in Step, r.literal = s.literal
  PROVE  GoodSteps(Swap(S, s, r))
<1>1. Swap(S, s, r) = (S \ {s}) \cup {r}
  BY DEF Swap
<1> QED  BY <1>1 DEF GoodSteps

(* What the engine answers, and what is made of it, tells steps apart.     *)
LEMMA OwnResultOK ==
  ASSUME EngineInv, pc = "answered"
  PROVE  ClaimOK(OwnResult)
<1>1. OwnResult.query = result.query /\ OwnResult.steps = ProofSteps(result.query)
  BY DEF OwnResult, EngineInv, AnswerHasItsProof
<1>2. GoodSteps(ProofSteps(result.query))
  BY ChosenStepsAreGood DEF EngineInv, Provenance, ProofSteps, QuerySides
<1> QED  BY <1>1, <1>2 DEF ClaimOK, EngineInv, AnswerHasItsProof

LEMMA OwnResultShape ==
  OwnResult = [query |-> OwnResult.query, status |-> OwnResult.status,
               conflicts |-> OwnResult.conflicts, support |-> OwnResult.support,
               opposition |-> OwnResult.opposition, steps |-> OwnResult.steps]
BY DEF OwnResult

LEMMA TamperedOK ==
  ASSUME EngineInv, pc = "answered", NEW c \in Tampered(theory, OwnResult)
  PROVE  ClaimOK(c)
<1> DEFINE o == OwnResult
           S == o.steps
<1>1. /\ o = [query |-> o.query, status |-> o.status, conflicts |-> o.conflicts,
              support |-> o.support, opposition |-> o.opposition, steps |-> o.steps]
      /\ ClaimOK(o)
  BY OwnResultOK, OwnResultShape
<1> DEFINE U == UNION {closure[l].steps : l \in {o.query} \cap Known}
<1>2. GoodSteps(U)
  BY ChosenStepsAreGood DEF EngineInv, Provenance
<1>3. \A l \in {o.query} \cap Known : closure[l].steps = U
  OBVIOUS
<1>4. /\ \A i \in Instances(theory) : i \in Nat
      /\ \A f \in theory.facts : f.literal \in Literal /\ f.source \in Nat
  <2>1. theory \in Theories
    BY DEF EngineInv, Shape, TypeOK
  <2> QED  BY <2>1, TheoryType, TheoriesAssumption DEF IsTheory
<1>5. Origins(theory) \subseteq Origin
  BY <1>4 DEF Origins, Origin, FromFact, FromRule
<1>6. ASSUME NEW s \in IdleSteps(theory, o)
      PROVE  s \in Step /\ \A r \in S : r.literal # s.literal
  <2>1. PICK f \in theory.facts :
          /\ s = [literal |-> f.literal, by |-> FromFact(f.source), depth |-> 0]
          /\ \A r \in o.steps : r.literal # f.literal
    BY <1>6 DEF IdleSteps
  <2>2. FromFact(f.source) \in Origin
    BY <1>4 DEF FromFact, Origin
  <2> QED  BY <1>4, <2>1, <2>2 DEF Step
<1> HIDE DEF o, U
<1>7. \A s \in S : s \in Step
  BY <1>1 DEF ClaimOK, GoodSteps
<1>8. CASE c = Fabricated(o.query)
  BY <1>1, <1>8 DEF Fabricated, ClaimOK, GoodSteps
<1>9. CASE c \in OneSided(o)
  <2>1. c.query = o.query /\ c.steps = U
    BY <1>1, <1>3, <1>9 DEF OneSided
  <2> QED  BY <1>1, <1>2, <2>1 DEF ClaimOK
<1>10. CASE \/ \E s \in Statuses : c = [o EXCEPT !.status = s]
            \/ c = [o EXCEPT !.conflicts = o.conflicts + 1]
            \/ c = [o EXCEPT !.support = {}] \/ c = [o EXCEPT !.opposition = {}]
  <2>1. c.query = o.query /\ c.steps = o.steps
    BY <1>1, <1>10
  <2> QED  BY <1>1, <2>1 DEF ClaimOK
<1>11. ASSUME NEW s \in S, c = [o EXCEPT !.steps = S \ {s}]
       PROVE  ClaimOK(c)
  <2>1. c.query = o.query /\ c.steps = S \ {s}
    BY <1>1, <1>11
  <2> QED  BY <1>1, <2>1 DEF ClaimOK, GoodSteps
<1>12. ASSUME NEW s \in IdleSteps(theory, o), c = [o EXCEPT !.steps = S \cup {s}]
       PROVE  ClaimOK(c)
  <2>1. c.query = o.query /\ c.steps = S \cup {s}
    BY <1>1, <1>12
  <2>2. s \in Step /\ \A r \in S : r.literal # s.literal
    BY <1>6 DEF o
  <2> QED  BY <1>1, <2>1, <2>2 DEF ClaimOK, GoodSteps
<1>13. ASSUME NEW s \in S, NEW r \in Step, r.literal = s.literal, c = Replaced(o, s, r)
       PROVE  ClaimOK(c)
  <2>1. c.query = o.query /\ c.steps = Swap(S, s, r)
    BY <1>1, <1>13 DEF Replaced
  <2> QED  BY <1>1, <1>13, <2>1, SwappedIsGood DEF ClaimOK
<1>14. ASSUME NEW s \in S, c = Replaced(o, s, [s EXCEPT !.depth = s.depth + 1])
       PROVE  ClaimOK(c)
  <2> DEFINE r == [s EXCEPT !.depth = s.depth + 1]
  <2>1. r \in Step /\ r.literal = s.literal
    BY <1>7, StepIsRecord DEF Step
  <2> HIDE DEF r
  <2> QED  BY <1>13, <1>14, <2>1 DEF r
<1>15. ASSUME NEW s \in S, NEW b \in Origins(theory), c = Replaced(o, s, [s EXCEPT !.by = b])
       PROVE  ClaimOK(c)
  <2> DEFINE r == [s EXCEPT !.by = b]
  <2>1. r \in Step /\ r.literal = s.literal
    BY <1>5, <1>7, StepIsRecord DEF Step
  <2> HIDE DEF r
  <2> QED  BY <1>13, <1>15, <2>1 DEF r
<1>16. \/ c = Fabricated(o.query)
       \/ c \in OneSided(o)
       \/ \E s \in Statuses : c = [o EXCEPT !.status = s]
       \/ c = [o EXCEPT !.conflicts = o.conflicts + 1]
       \/ c = [o EXCEPT !.support = {}] \/ c = [o EXCEPT !.opposition = {}]
       \/ \E s \in S : c = [o EXCEPT !.steps = S \ {s}]
       \/ \E s \in IdleSteps(theory, o) : c = [o EXCEPT !.steps = S \cup {s}]
       \/ \E s \in S : c = Replaced(o, s, [s EXCEPT !.depth = s.depth + 1])
       \/ \E s \in S, b \in Origins(theory) : c = Replaced(o, s, [s EXCEPT !.by = b])
  BY DEF Tampered, o
<1> QED  BY <1>8, <1>9, <1>10, <1>11, <1>12, <1>14, <1>15, <1>16

-----------------------------------------------------------------------------
(***************************************************************************)
(* What is verified is right.                                              *)
(***************************************************************************)

LEMMA LeastModelIsModel ==
  ASSUME NEW t \in Theories
  PROVE  LeastModel(t) \subseteq Literal /\ IsModel(t, LeastModel(t))
<1>1. FactLiterals(t) \subseteq LeastModel(t)
  BY TheoryType DEF LeastModel, IsModel
<1>2. ASSUME NEW i \in Instances(t), Body(t, i) \subseteq LeastModel(t)
      PROVE  Head(t, i) \in LeastModel(t)
  <2>1. ASSUME NEW S \in SUBSET Literal, IsModel(t, S)
        PROVE  Head(t, i) \in S
    <3>1. Body(t, i) \subseteq S
      BY <1>2, <2>1 DEF LeastModel
    <3> QED  BY <2>1, <3>1 DEF IsModel
  <2> QED  BY <2>1, TheoryType DEF LeastModel
<1> QED  BY <1>1, <1>2 DEF IsModel, LeastModel

LEMMA NoSmallerModel ==
  ASSUME NEW t \in Theories, NEW S, S \subseteq LeastModel(t), IsModel(t, S)
  PROVE  S = LeastModel(t)
<1>1. S \in SUBSET Literal
  BY LeastModelIsModel
<1> QED  BY <1>1 DEF LeastModel

(* What VerifiedIsRight says of a claim that is verified.                  *)
ClaimIsRight ==
  LET model == LeastModel(theory)
  IN  /\ claim.status = Classify(claim.query, model)
      /\ claim.conflicts = Cardinality(Conflicts(model))
      /\ \A l \in {claim.query, Opposite(claim.query)} \cap model :
           \E r \in claim.support \cup claim.opposition : r.literal = l
      /\ Proves(theory, claim, claim.steps)
      /\ \A S \in SUBSET claim.steps :
           Proves(theory, claim, S) => S = claim.steps

VerifierInv ==
  /\ vpc \in {"idle", "closing", "checking", "done"}
  /\ naive \subseteq LeastModel(theory)
  /\ vpc # "idle" => ClaimOK(claim) /\ FactLiterals(theory) \subseteq naive
  /\ vpc = "checking" => IsModel(theory, naive)
  /\ verdict = "verified" => vpc = "done" /\ ClaimIsRight

(* A step that stands is justified by the steps of the claim.              *)
LEMMA StandingIsJustified ==
  ASSUME NEW t \in Theories, NEW steps, GoodSteps(steps), NEW s \in steps,
         StepStands(t, s, steps)
  PROVE  Justified(t, s, steps)
<1>1. s.by[1] \in {"fact", "rule"} /\ s.depth \in Nat
      /\ \A r \in steps : r.depth \in Nat
  BY StepIsRecord DEF GoodSteps
<1>2. CASE s.by[1] = "fact"
  BY <1>2 DEF StepStands, FactStands, Justified
<1>3. CASE s.by[1] = "rule"
  <2> DEFINE P == Premises(t, s, steps)
  <2>1. P = {r \in steps : r.literal \in Body(t, s.by[2])}
    BY <1>3 DEF Premises
  <2>2. RuleStands(t, s, steps)
    BY <1>3 DEF StepStands
  <2>3. /\ s.by[2] \in Instances(t) /\ s.literal = Head(t, s.by[2])
        /\ \A m \in Body(t, s.by[2]) : \E r \in steps : r.literal = m
        /\ \E r \in P : s.depth = r.depth + 1 /\ \A q \in P : q.depth <= r.depth
    BY <2>2 DEF RuleStands, IsExpectedDepth
  <2> HIDE DEF P
  <2>4. PICK top \in P : s.depth = top.depth + 1 /\ \A q \in P : q.depth <= top.depth
    BY <2>3
  <2>5. ASSUME NEW m \in Body(t, s.by[2])
        PROVE  \E r \in steps : r.literal = m /\ r.depth < s.depth
    <3>1. PICK r \in steps : r.literal = m
      BY <2>3
    <3>2. r \in P
      BY <2>1, <3>1
    <3>3. r.depth <= top.depth /\ r.depth \in Nat /\ top.depth \in Nat
      BY <1>1, <2>1, <2>4, <3>2
    <3> QED  BY <2>4, <3>1, <3>3
  <2>6. top \in steps /\ top.literal \in Body(t, s.by[2]) /\ top.depth + 1 = s.depth
    BY <2>1, <2>4
  <2> QED  BY <1>3, <2>3, <2>5, <2>6 DEF Justified
<1> QED  BY <1>1, <1>2, <1>3

(* Nothing can be left out of a proof that stands.                         *)
LEMMA StandingIsMinimal ==
  ASSUME NEW t, NEW c, GoodSteps(c.steps), NEW S \in SUBSET c.steps, Proves(t, c, S),
         Reachable(t, c.support \cup c.opposition, c.steps) = c.steps
  PROVE  S = c.steps
<1>1. ASSUME NEW r \in S, NEW q \in Premises(t, r, c.steps)
      PROVE  q \in S
  <2>1. r.by[1] = "rule" /\ q \in c.steps /\ q.literal \in Body(t, r.by[2])
    BY <1>1 DEF Premises
  <2>2. Justified(t, r, S)
    BY DEF Proves
  <2>3. PICK p \in S : p.literal = q.literal
    BY <2>1, <2>2 DEF Justified
  <2> QED  BY <2>1, <2>3 DEF GoodSteps
<1>2. c.support \cup c.opposition \subseteq S
  BY DEF Proves
<1>3. ASSUME NEW s \in c.steps
      PROVE  s \in S
  <2>1. s \in Reachable(t, c.support \cup c.opposition, c.steps)
    OBVIOUS
  <2>2. \A r \in S : Premises(t, r, c.steps) \subseteq S
    BY <1>1
  <2> QED  BY <1>2, <2>1, <2>2 DEF Reachable
<1> QED  BY <1>3

LEMMA VerifiedClaim ==
  ASSUME theory \in Theories, ClaimOK(claim), ProofStands(theory, claim),
         claim.conflicts = Cardinality(Conflicts(LeastModel(theory))),
         claim.status = Classify(claim.query, LeastModel(theory))
  PROVE  ClaimIsRight
<1> DEFINE model == LeastModel(theory)
<1>1. /\ RootsStand(claim)
      /\ \A s \in claim.steps : StepStands(theory, s, claim.steps)
      /\ Reachable(theory, claim.support \cup claim.opposition, claim.steps) = claim.steps
  BY DEF ProofStands
<1>2. GoodSteps(claim.steps)
  BY DEF ClaimOK
<1>3. ASSUME NEW l \in {claim.query, Opposite(claim.query)} \cap model
      PROVE  \E r \in claim.support \cup claim.opposition : r.literal = l
  <2>1. CASE l = claim.query
    <3>1. claim.status \in {"ENTAILED", "INCONSISTENT"}
      BY <1>3, <2>1 DEF Classify
    <3> QED  BY <1>1, <2>1, <3>1 DEF RootsStand
  <2>2. CASE l = Opposite(claim.query)
    <3>1. claim.status \in {"CONTRADICTED", "INCONSISTENT"}
      BY <1>3, <2>2 DEF Classify
    <3> QED  BY <1>1, <2>2, <3>1 DEF RootsStand
  <2> QED  BY <2>1, <2>2
<1>4. Proves(theory, claim, claim.steps)
  BY <1>1, <1>2, StandingIsJustified DEF Proves, RootsStand
<1>5. \A S \in SUBSET claim.steps : Proves(theory, claim, S) => S = claim.steps
  BY <1>1, <1>2, StandingIsMinimal
<1> QED  BY <1>3, <1>4, <1>5 DEF ClaimIsRight

LEMMA NextVerifier ==
  EngineInv /\ VerifierInv /\ [VNext]_<<vars, verifierVars>> => VerifierInv'
<1> SUFFICES ASSUME EngineInv, VerifierInv, [VNext]_<<vars, verifierVars>>
             PROVE  VerifierInv'
  OBVIOUS
<1>1. theory \in Theories
  BY DEF EngineInv, Shape, TypeOK
<1>2. CASE [Next]_vars /\ UNCHANGED verifierVars
  <2>1. theory' = theory
    BY <1>2, TheoryIsFixed
  <2> QED  BY <1>2, <2>1 DEF verifierVars, VerifierInv, ClaimIsRight
<1>3. ASSUME UNCHANGED vars, NEW c, ClaimOK(c), Present(c)
      PROVE  VerifierInv'
  <2>1. /\ theory' = theory /\ claim' = c /\ naive' = FactLiterals(theory)
        /\ vpc = "idle" /\ vpc' \in {"closing", "done"} /\ verdict' # "verified"
    BY <1>3 DEF Present, Finish, vars, VerifierInv
  <2>2. FactLiterals(theory) \subseteq LeastModel(theory)
    BY <1>1, LeastModelIsModel DEF IsModel
  <2> QED  BY <1>3, <2>1, <2>2 DEF VerifierInv
<1>4. CASE UNCHANGED vars /\ NaiveRound
  <2> DEFINE matched == {i \in Instances(theory) : Body(theory, i) \subseteq naive}
             new == {Head(theory, i) : i \in matched} \ naive
  <2>1. /\ theory' = theory /\ claim' = claim /\ vpc = "closing"
        /\ \/ naive' = naive /\ vpc' = "done" /\ verdict' # "verified"
           \/ naive' = naive /\ new = {} /\ vpc' = "checking" /\ verdict' = verdict
           \/ /\ naive' = naive \cup new
              /\ \/ vpc' = "done" /\ verdict' # "verified"
                 \/ vpc' = "closing" /\ verdict' = verdict
    BY <1>4 DEF NaiveRound, Finish, vars
  <2>2. new \subseteq LeastModel(theory)
    BY <1>1, LeastModelIsModel DEF VerifierInv, IsModel
  <2>3. new = {} => IsModel(theory, naive)
    BY <2>1 DEF VerifierInv, IsModel
  <2> HIDE DEF new
  <2>4. naive' \subseteq LeastModel(theory) /\ naive \subseteq naive'
    BY <2>1, <2>2 DEF VerifierInv
  <2>5. verdict' # "verified"
    BY <2>1 DEF VerifierInv
  <2> QED  BY <2>1, <2>3, <2>4, <2>5 DEF VerifierInv
<1>5. CASE UNCHANGED vars /\ Check
  <2>1. /\ theory' = theory /\ claim' = claim /\ naive' = naive
        /\ vpc = "checking" /\ vpc' = "done"
    BY <1>5 DEF Check, Finish, vars
  <2>2. naive = LeastModel(theory)
    BY <1>1, <2>1, NoSmallerModel DEF VerifierInv
  <2>3. verdict' = "verified" =>
          /\ claim.conflicts = Cardinality(Conflicts(naive))
          /\ ProofStands(theory, claim) /\ claim.status = Classify(claim.query, naive)
    BY <1>5 DEF Check, Finish
  <2>4. verdict' = "verified" => ClaimIsRight
    BY <1>1, <2>1, <2>2, <2>3, VerifiedClaim DEF VerifierInv
  <2>5. verdict' = "verified" => ClaimIsRight'
    BY <2>1, <2>4 DEF ClaimIsRight
  <2> QED  BY <2>1, <2>5 DEF VerifierInv
<1>6. CASE UNCHANGED <<vars, verifierVars>>
  BY <1>2, <1>6
<1>7. CASE Verify /\ UNCHANGED vars
  <2>1. CASE pc = "answered" /\ \E c \in {OwnResult} \cup Tampered(theory, OwnResult) : Present(c)
    BY <1>3, <1>7, <2>1, OwnResultOK, TamperedOK
  <2>2. CASE \E q \in Literal : Present(Fabricated(q))
    <3>1. \A q \in Literal : ClaimOK(Fabricated(q))
      BY DEF Fabricated, ClaimOK, GoodSteps
    <3> QED  BY <1>3, <1>7, <2>2, <3>1
  <2> QED  BY <1>4, <1>5, <1>7, <2>1, <2>2 DEF Verify
<1> QED  BY <1>2, <1>6, <1>7 DEF VNext

LEMMA NextBoth ==
  EngineInv /\ [VNext]_<<vars, verifierVars>> => EngineInv'
<1>1. [VNext]_<<vars, verifierVars>> => [Next]_vars
  BY DEF VNext
<1> QED  BY <1>1, NextEngine

(* For every theory, whatever claim is made about it and by whom: a claim  *)
(* that is verified has the status and the conflicts of the least model,   *)
(* whole proofs of the sides of the query that hold, and no idle step.     *)
THEOREM VerificationIsSound == VSpec => []VerifiedIsRight
<1>1. VInit => EngineInv /\ VerifierInv
  BY InitEngine DEF VInit, VerifierInv
<1>2. EngineInv /\ VerifierInv => VerifiedIsRight
  BY DEF VerifierInv, VerifiedIsRight, ClaimIsRight
<1> QED  BY <1>1, <1>2, NextBoth, NextVerifier, PTL DEF VSpec

-----------------------------------------------------------------------------
(***************************************************************************)
(* What the closure keeps about its derivations.                           *)
(***************************************************************************)

(* A derivation is a fact, or a rule on top of the derivations of its      *)
(* premises, and nothing else.                                             *)
LeanAt(l) ==
  LET d == closure[l]
  IN  \/ /\ l \in FactLiterals(theory)
         /\ d.by[1] = "fact"
         /\ d.steps = {RootStep(l, d)}
      \/ \E i \in Instances(theory) :
           /\ Head(theory, i) = l /\ Body(theory, i) \subseteq Known
           /\ d.by = FromRule(i)
           /\ \A m \in Body(theory, i) : closure[m].depth < d.depth
           /\ d.steps = {RootStep(l, d)} \cup UNION {closure[m].steps : m \in Body(theory, i)}

Lean ==
  /\ \A l \in Known : LeanAt(l)
  /\ pc = "scan" =>
       \A l \in DOMAIN candidates :
         \E i \in Instances(theory) :
           /\ Head(theory, i) = l /\ Body(theory, i) \subseteq Known
           /\ candidates[l] = RuleDerivation(theory, i)

LEMMA NextLean == Shape /\ Provenance /\ Lean /\ [Next]_vars => Lean'
<1> SUFFICES ASSUME Shape, Provenance, Lean, [Next]_vars
             PROVE  Lean'
  OBVIOUS
<1>0. theory' = theory /\ theory \in Theories
  BY TheoryIsFixed DEF Shape, TypeOK
<1>1. CASE LoadFacts
  <2>1. /\ Known' = FactLiterals(theory) /\ pc' # "scan"
        /\ \A l \in FactLiterals(theory) : closure'[l] = SourceDerivation(theory, l)
    BY <1>1 DEF LoadFacts, Known, Fail
  <2>2. ASSUME NEW l \in FactLiterals(theory)
        PROVE  LeanAt(l)'
    <3> DEFINE d == SourceDerivation(theory, l)
    <3>1. d.steps = {RootStep(l, d)}
      BY <1>0, SourceDerivationJustified
    <3>2. d.by[1] = "fact"
      BY DEF SourceDerivation, FromFact
    <3>3. closure'[l] = d
      BY <2>1
    <3> HIDE DEF d
    <3> QED  BY <1>0, <3>1, <3>2, <3>3 DEF LeanAt, RootStep
  <2> QED  BY <2>1, <2>2 DEF Lean
<1>b. ASSUME UNCHANGED closure
      PROVE  Known' = Known /\ \A l \in Known' : LeanAt(l)'
  BY <1>0, <1>b DEF Lean, LeanAt, RootStep, Known
<1>2. CASE OpenRound
  <2>1. UNCHANGED closure /\ (pc' = "scan" => DOMAIN candidates' = {})
    BY <1>2 DEF OpenRound, NoDerivations
  <2> QED  BY <1>b, <2>1 DEF Lean
<1>3. ASSUME NEW i \in pending, Consider(i)
      PROVE  Lean'
  <2>1. UNCHANGED closure /\ pc = "scan"
    BY <1>3 DEF Consider
  <2>2. i \in Instances(theory) /\ Body(theory, i) \subseteq Known
    BY <2>1 DEF Shape, TypeOK, RoundDiscipline
  <2>3. \A l \in DOMAIN candidates' :
          \/ l \in DOMAIN candidates /\ candidates'[l] = candidates[l]
          \/ l = Head(theory, i) /\ candidates'[l] = RuleDerivation(theory, i)
    BY <1>3 DEF Consider, Offer, Fail
  <2>4. \A k : RuleDerivation(theory, k)' = RuleDerivation(theory, k)
    BY <1>0, <2>1 DEF RuleDerivation, DepthOf, PremiseDepths
  <2>5. \A l \in DOMAIN candidates' :
          \E k \in Instances(theory) :
            /\ Head(theory, k) = l /\ Body(theory, k) \subseteq Known
            /\ candidates'[l] = RuleDerivation(theory, k)
    BY <2>1, <2>2, <2>3 DEF Lean
  <2> QED  BY <1>0, <1>b, <2>1, <2>4, <2>5 DEF Lean
<1>4. CASE CloseRound
  <2>1. pc = "scan" /\ pc' # "scan"
    BY <1>4 DEF CloseRound, Fail
  <2>2. CASE UNCHANGED closure
    BY <1>b, <2>1, <2>2 DEF Lean
  <2>3. CASE closure' = [l \in Known \cup DOMAIN candidates |->
                           IF l \in DOMAIN candidates THEN candidates[l] ELSE closure[l]]
    <3>1. /\ Known' = Known \cup DOMAIN candidates
          /\ \A l \in DOMAIN candidates : closure'[l] = candidates[l]
          /\ \A l \in Known : closure'[l] = closure[l]
      BY <2>1, <2>3 DEF Known, Shape, RoundDiscipline
    <3>2. ASSUME NEW l \in Known
          PROVE  LeanAt(l)'
      <4>1. LeanAt(l)
        BY DEF Lean
      <4>2. CASE l \in FactLiterals(theory) /\ closure[l].by[1] = "fact"
                   /\ closure[l].steps = {RootStep(l, closure[l])}
        BY <1>0, <3>1, <4>2 DEF LeanAt, RootStep
      <4>3. ASSUME NEW i \in Instances(theory),
                   Head(theory, i) = l, Body(theory, i) \subseteq Known,
                   closure[l].by = FromRule(i),
                   \A m \in Body(theory, i) : closure[m].depth < closure[l].depth,
                   closure[l].steps = {RootStep(l, closure[l])}
                                        \cup UNION {closure[m].steps : m \in Body(theory, i)}
            PROVE  LeanAt(l)'
        <5>1. \A m \in Body(theory, i) : closure'[m] = closure[m]
          BY <3>1, <4>3
        <5>2. {closure'[m].steps : m \in Body(theory, i)} = {closure[m].steps : m \in Body(theory, i)}
          BY <5>1
        <5>3. closure'[l] = closure[l]
          BY <3>1
        <5>4. closure'[l].steps = {RootStep(l, closure'[l])}
                                    \cup UNION {closure'[m].steps : m \in Body(theory, i)}
          BY <4>3, <5>2, <5>3
        <5>5. /\ Body(theory, i) \subseteq Known' /\ closure'[l].by = FromRule(i)
              /\ \A m \in Body(theory, i) : closure'[m].depth < closure'[l].depth
          BY <3>1, <4>3, <5>1, <5>3
        <5> QED  BY <1>0, <4>3, <5>4, <5>5 DEF LeanAt, RootStep
      <4> QED  BY <4>1, <4>2, <4>3 DEF LeanAt
    <3>3. ASSUME NEW l \in DOMAIN candidates
          PROVE  LeanAt(l)'
      <4>1. PICK i \in Instances(theory) :
              /\ Head(theory, i) = l /\ Body(theory, i) \subseteq Known
              /\ candidates[l] = RuleDerivation(theory, i)
        BY <2>1 DEF Lean
      <4>2. closure'[l] = RuleDerivation(theory, i) /\ closure'[l].depth = rounds + 1
        BY <2>1, <3>1, <4>1 DEF Shape, RoundDiscipline
      <4>3. \A m \in Body(theory, i) : closure'[m] = closure[m]
        BY <3>1, <4>1
      <4>4. \A m \in Body(theory, i) : closure'[m].depth < closure'[l].depth
        <5>1. \A m \in Body(theory, i) : closure[m].depth <= rounds /\ closure[m] \in Derivation
          BY <4>1 DEF Shape, RoundDiscipline, TypeOK
        <5>2. \A m \in Body(theory, i) : closure[m].depth \in Nat
          BY <5>1 DEF Derivation
        <5>3. rounds \in Nat
          BY DEF Shape, TypeOK
        <5> QED  BY <4>2, <4>3, <5>1, <5>2, <5>3
      <4>5. closure'[l].by = FromRule(i)
        BY <4>2 DEF RuleDerivation
      <4>6. closure'[l].steps = {RootStep(l, closure'[l])}
                                  \cup UNION {closure[m].steps : m \in Body(theory, i)}
        BY <4>1, <4>2 DEF RuleDerivation, RootStep
      <4>7. {closure'[m].steps : m \in Body(theory, i)} = {closure[m].steps : m \in Body(theory, i)}
        BY <4>3
      <4>8. closure'[l].steps = {RootStep(l, closure'[l])}
                                  \cup UNION {closure'[m].steps : m \in Body(theory, i)}
        BY <4>6, <4>7
      <4> QED  BY <1>0, <3>1, <4>1, <4>4, <4>5, <4>8 DEF LeanAt, RootStep
    <3> QED  BY <2>1, <3>1, <3>2, <3>3 DEF Lean
  <2> QED  BY <1>4, <2>2, <2>3 DEF CloseRound
<1>5. CASE TimeOut
  <2>1. UNCHANGED closure /\ pc' # "scan"
    BY <1>5 DEF TimeOut, Fail
  <2> QED  BY <1>b, <2>1 DEF Lean
<1>6. ASSUME NEW q \in Literal, Answer(q)
      PROVE  Lean'
  <2>1. UNCHANGED closure /\ pc' # "scan"
    BY <1>6 DEF Answer, Fail
  <2> QED  BY <1>b, <2>1 DEF Lean
<1>7. CASE UNCHANGED vars
  <2>1. UNCHANGED <<closure, candidates, pc>>
    BY <1>7 DEF vars
  <2>2. \A k : RuleDerivation(theory, k)' = RuleDerivation(theory, k)
    BY <1>0, <2>1 DEF RuleDerivation, DepthOf, PremiseDepths
  <2> QED  BY <1>0, <1>b, <2>1, <2>2 DEF Lean
<1> QED  BY <1>1, <1>2, <1>3, <1>4, <1>5, <1>6, <1>7 DEF Next, Terminated

-----------------------------------------------------------------------------
(***************************************************************************)
(* The engine's own results.                                               *)
(***************************************************************************)

LEMMA DepthsAreNat ==
  ASSUME Shape, NEW l \in Known
  PROVE  closure[l].depth \in Nat /\ closure[l].depth <= rounds
BY DEF Shape, TypeOK, RoundDiscipline, Derivation

LEMMA RootIsAStep ==
  ASSUME Lean, NEW l \in Known
  PROVE  RootStep(l, closure[l]) \in closure[l].steps
BY DEF Lean, LeanAt

(* From its roots one comes to every step of an answer: were there a       *)
(* derivation one does not come to, take the least deep one.               *)
LEMMA AllIsReached ==
  ASSUME Shape, Lean, NEW Q \in SUBSET Known, NEW S,
         \A l \in Q : RootStep(l, closure[l]) \in S,
         \A r \in S : Premises(theory, r, UNION {closure[l].steps : l \in Q}) \subseteq S
  PROVE  UNION {closure[l].steps : l \in Q} \subseteq S
<1> DEFINE T == UNION {closure[l].steps : l \in Q}
           Bad == {l \in Known : /\ closure[l].steps \subseteq T
                                 /\ RootStep(l, closure[l]) \in S
                                 /\ ~(closure[l].steps \subseteq S)}
           D == {closure[l].depth : l \in Bad}
<1>1. Bad = {}
  <2> SUFFICES ASSUME Bad # {}
               PROVE  FALSE
    OBVIOUS
  <2>1. D \in SUBSET Nat /\ D # {}
    BY DepthsAreNat
  <2>2. PICK d \in D : \A e \in D : d <= e
    <3> HIDE DEF D
    <3> QED  BY <2>1, LeastNat
  <2>3. PICK l \in Bad : closure[l].depth = d
    BY <2>2
  <2>4. /\ l \in Known /\ closure[l].steps \subseteq T
        /\ RootStep(l, closure[l]) \in S /\ ~(closure[l].steps \subseteq S)
    BY <2>3
  <2>5. \A m \in Bad : closure[l].depth <= closure[m].depth
    BY <2>2, <2>3
  <2>6. LeanAt(l)
    BY <2>4 DEF Lean
  <2>7. PICK i \in Instances(theory) :
          /\ Body(theory, i) \subseteq Known /\ closure[l].by = FromRule(i)
          /\ \A m \in Body(theory, i) : closure[m].depth < closure[l].depth
          /\ closure[l].steps = {RootStep(l, closure[l])}
                                  \cup UNION {closure[m].steps : m \in Body(theory, i)}
    <3>1. closure[l].steps # {RootStep(l, closure[l])}
      BY <2>4
    <3> QED  BY <2>6, <3>1 DEF LeanAt
  <2>8. ASSUME NEW m \in Body(theory, i)
        PROVE  closure[m].steps \subseteq S
    <3>1. m \in Known /\ closure[m].steps \subseteq closure[l].steps
      BY <2>7
    <3>2. RootStep(m, closure[m]) \in T
      BY <2>4, <3>1, RootIsAStep
    <3>3. RootStep(m, closure[m]) \in Premises(theory, RootStep(l, closure[l]), T)
      <4>1. RootStep(l, closure[l]).by = <<"rule", i>> /\ RootStep(m, closure[m]).literal = m
        BY <2>7 DEF RootStep, FromRule
      <4> HIDE DEF T
      <4> QED  BY <3>2, <4>1 DEF Premises
    <3>4. RootStep(m, closure[m]) \in S
      BY <2>4, <3>3
    <3>5. m \notin Bad
      <4>1. closure[m].depth < closure[l].depth
        BY <2>7
      <4>2. closure[m].depth \in Nat /\ closure[l].depth \in Nat
        BY <2>4, <3>1, DepthsAreNat
      <4>3. m \in Bad => closure[l].depth <= closure[m].depth
        BY <2>5
      <4> HIDE DEF Bad
      <4> QED  BY <4>1, <4>2, <4>3
    <3> QED  BY <2>4, <3>1, <3>4, <3>5
  <2>9. closure[l].steps \subseteq S
    BY <2>4, <2>7, <2>8
  <2> QED  BY <2>4, <2>9
<1>2. ASSUME NEW l \in Q
      PROVE  closure[l].steps \subseteq S
  <2>1. closure[l].steps \subseteq T
    OBVIOUS
  <2>2. l \notin Bad
    BY <1>1
  <2> QED  BY <2>1, <2>2
<1> QED  BY <1>2

LEMMA OwnStepsStand ==
  ASSUME EngineInv, Lean, NEW Q \in SUBSET Known,
         NEW steps, steps = UNION {closure[l].steps : l \in Q}, NEW s \in steps
  PROVE  StepStands(theory, s, steps)
<1>1. GoodSteps(steps)
  BY ChosenStepsAreGood DEF EngineInv, Provenance
<1>2. PICK l \in Q : s \in closure[l].steps
  OBVIOUS
<1>3. Justified(theory, s, closure[l].steps) /\ closure[l].steps \subseteq steps
  BY <1>2 DEF EngineInv, Provenance, ProofsAreSelfContained
<1>4. Justified(theory, s, steps)
  BY <1>3, JustifiedMonotone
<1>5. s.depth \in Nat /\ \A r \in steps : r.depth \in Nat
  BY <1>1, StepIsRecord DEF GoodSteps
<1>6. CASE s.by[1] = "fact"
  BY <1>4, <1>6 DEF Justified, StepStands, FactStands
<1>7. CASE s.by[1] = "rule"
  <2> DEFINE B == Body(theory, s.by[2])
  <2>1. /\ s.by[2] \in Instances(theory) /\ Head(theory, s.by[2]) = s.literal
        /\ \A m \in B : \E r \in steps : r.literal = m /\ r.depth < s.depth
        /\ \E r \in steps : r.literal \in B /\ r.depth + 1 = s.depth
    BY <1>4, <1>7 DEF Justified
  <2>2. PICK top \in steps : top.literal \in B /\ top.depth + 1 = s.depth
    BY <2>1
  <2>3. Premises(theory, s, steps) = {r \in steps : r.literal \in B}
    BY <1>7 DEF Premises
  <2> HIDE DEF B
  <2>4. ASSUME NEW q \in steps, q.literal \in B
        PROVE  q.depth <= top.depth
    <3>1. PICK r \in steps : r.literal = q.literal /\ r.depth < s.depth
      BY <2>1, <2>4
    <3>2. r = q
      BY <1>1, <3>1 DEF GoodSteps
    <3>3. q.depth < top.depth + 1 /\ q.depth \in Nat /\ top.depth \in Nat
      BY <1>5, <2>2, <3>1, <3>2
    <3> QED  BY <3>3
  <2>5. IsExpectedDepth(s.depth, Premises(theory, s, steps))
    <3>1. s.depth = top.depth + 1
      BY <2>2
    <3> QED  BY <2>2, <2>3, <2>4, <3>1 DEF IsExpectedDepth
  <2>6. RuleStands(theory, s, steps)
    BY <2>1, <2>5 DEF RuleStands, B
  <2> QED  BY <1>7, <2>6 DEF StepStands
<1> QED  BY <1>4, <1>6, <1>7 DEF Justified

LEMMA OwnProofStands ==
  ASSUME EngineInv, Lean, pc = "answered"
  PROVE  ProofStands(theory, OwnResult)
<1> DEFINE c == OwnResult
           q == result.query
           Q == QuerySides(q)
<1>1. /\ c.query = q /\ c.status = Classify(q, Known) /\ q \in Literal
      /\ c.support = Root(q) /\ c.opposition = Root(Opposite(q))
      /\ c.steps = UNION {closure[l].steps : l \in Q}
  BY DEF OwnResult, EngineInv, AnswerHasItsProof, ProofSteps
<1>2. Q \in SUBSET Known /\ \A l \in Q : l = q \/ l = Opposite(q)
  BY DEF QuerySides
<1>3. \A l : Root(l) = {RootStep(m, closure[m]) : m \in {l} \cap Known}
  BY DEF Root
<1>4. \A l : l \in Known => Root(l) = {RootStep(l, closure[l])}
  BY <1>3
<1>5. \A l : l \notin Known => Root(l) = {}
  BY <1>3
<1>6. \A l \in Q : RootStep(l, closure[l]) \in c.support \cup c.opposition
  BY <1>1, <1>2, <1>4
<1>7. \A l \in Known : RootStep(l, closure[l]).literal = l
  BY DEF RootStep
<1>8. RootsStand(c)
  <2>1. c.support # {} <=> q \in Known
    BY <1>1, <1>4, <1>5
  <2>2. c.opposition # {} <=> Opposite(q) \in Known
    BY <1>1, <1>4, <1>5
  <2>3. q \in Known <=> c.status \in {"ENTAILED", "INCONSISTENT"}
    BY <1>1 DEF Classify
  <2>4. Opposite(q) \in Known <=> c.status \in {"CONTRADICTED", "INCONSISTENT"}
    BY <1>1 DEF Classify
  <2>5. c.status = "UNKNOWN" => c.steps = {}
    <3>1. c.status = "UNKNOWN" => Q = {}
      BY <2>3, <2>4 DEF QuerySides
    <3> QED  BY <1>1, <3>1
  <2>6. c.support \subseteq c.steps /\ \A r \in c.support : r.literal = c.query
    <3>1. CASE q \in Known
      <4>1. q \in Q /\ c.support = {RootStep(q, closure[q])}
        BY <1>1, <1>4, <3>1 DEF QuerySides
      <4> QED  BY <1>1, <1>7, <3>1, <4>1, RootIsAStep
    <3>2. CASE q \notin Known
      BY <1>1, <1>5, <3>2
    <3> QED  BY <3>1, <3>2
  <2>7. c.opposition \subseteq c.steps /\ \A r \in c.opposition : r.literal = Opposite(c.query)
    <3>1. CASE Opposite(q) \in Known
      <4>1. Opposite(q) \in Q /\ c.opposition = {RootStep(Opposite(q), closure[Opposite(q)])}
        BY <1>1, <1>4, <3>1 DEF QuerySides
      <4> QED  BY <1>1, <1>7, <3>1, <4>1, RootIsAStep
    <3>2. CASE Opposite(q) \notin Known
      BY <1>1, <1>5, <3>2
    <3> QED  BY <3>1, <3>2
  <2> HIDE DEF c
  <2> QED  BY <2>1, <2>2, <2>3, <2>4, <2>5, <2>6, <2>7 DEF RootsStand
<1>9. \A s \in c.steps : StepStands(theory, s, c.steps)
  BY <1>1, <1>2, OwnStepsStand
<1>10. Reachable(theory, c.support \cup c.opposition, c.steps) = c.steps
  <2>1. ASSUME NEW S \in SUBSET c.steps, c.support \cup c.opposition \subseteq S,
               \A r \in S : Premises(theory, r, c.steps) \subseteq S
        PROVE  c.steps \subseteq S
    <3>1. \A l \in Q : RootStep(l, closure[l]) \in S
      BY <1>6, <2>1
    <3> HIDE DEF Q, c
    <3> QED  BY <1>1, <1>2, <2>1, <3>1, AllIsReached DEF EngineInv
  <2> HIDE DEF c
  <2> QED  BY <2>1 DEF Reachable
<1> HIDE DEF c
<1> QED  BY <1>8, <1>9, <1>10 DEF ProofStands, c

(* The verifier reaches the derivations of the engine level by level, so   *)
(* that none of the limits the engine kept to stops it but the count of    *)
(* its rounds' repeated matches.                                           *)
ClosesLikeTheEngine ==
  /\ vpc \in {"closing", "checking"} =>
       /\ verdict = "none"
       /\ \A l \in Known : closure[l].depth <= passes => l \in naive
  /\ vpc = "done" => verdict \in {"verified", "max_rule_firings"}

OwnInv ==
  /\ passes \in Nat
  /\ vpc = "idle" => passes = 0 /\ verdict = "none"
  /\ vpc # "idle" => pc \in {"answered", "failed"}
  /\ pc = "answered" /\ vpc # "idle" /\ claim = OwnResult => ClosesLikeTheEngine

LEMMA EngineIsDone ==
  pc \in {"answered", "failed"} /\ [Next]_vars => UNCHANGED vars
BY DEF Next, LoadFacts, OpenRound, Consider, CloseRound, TimeOut, Answer,
       Terminated, vars

LEMMA SameOwnResult == UNCHANGED vars => OwnResult' = OwnResult
BY DEF vars, OwnResult, Root, RootStep, Known

LEMMA InitSizedLean == Init => Sized /\ Lean
<1>1. Init => Known = {} /\ pc = "load" /\ rounds = 0
  BY DEF Init, Known, NoDerivations
<1>2. Init => Sized
  BY <1>1, LimitsAssumption DEF Sized
<1>3. Init => Lean
  BY <1>1 DEF Lean
<1> QED  BY <1>2, <1>3

(* What the engine has at its answer. *)
LEMMA AtTheAnswer ==
  ASSUME EngineInv, Sized, pc = "answered"
  PROVE  /\ Known = LeastModel(theory)
         /\ IsFiniteSet(Known) /\ Cardinality(Known) <= MaxDerivedLiterals
         /\ ProofSize(OwnResult.steps) <= MaxProofNodes
         /\ OwnResult.conflicts = Cardinality(Conflicts(Known))
         /\ OwnResult.status = Classify(OwnResult.query, Known)
<1>1. Known = LeastModel(theory)
  BY FixpointIsLeastModel DEF EngineInv, SaturatedIsLeastModel
<1> QED  BY <1>1 DEF EngineInv, AnswerHasItsProof, Sized, OwnResult

LEMMA OwnProofIsFinite ==
  ASSUME EngineInv, pc = "answered", IsFiniteSet(Known)
  PROVE  ProofSize(OwnResult.steps) \in Nat
<1> DEFINE S == OwnResult.steps
           R == {s \in S : s.by[1] = "rule"}
           f == [s \in S |-> s.literal]
<1>1. GoodSteps(S)
  BY OwnResultOK DEF ClaimOK
<1>2. S = UNION {closure[l].steps : l \in QuerySides(result.query)}
  BY DEF OwnResult, EngineInv, AnswerHasItsProof, ProofSteps
<1>3. \A s \in S : s.literal \in Known
  BY <1>2 DEF QuerySides, EngineInv, Provenance, ProofsAreSelfContained
<1>4. f \in Injection(S, Known)
  BY <1>1, <1>3 DEF GoodSteps, Injection, IsInjective
<1> HIDE DEF S, f
<1>5. IsFiniteSet(S)
  BY <1>4, FS_Injection
<1>6. IsFiniteSet(R)
  BY <1>5, FS_Subset
<1> DEFINE a == Cardinality(S)
           b == Cardinality(R)
<1>7. a \in Nat /\ b \in Nat
  BY <1>5, <1>6, FS_CardinalityType
<1>8. ProofSize(S) = a + b
  BY DEF ProofSize
<1> HIDE DEF a, b
<1> QED  BY <1>7, <1>8 DEF S

LEMMA PartOfKnown ==
  ASSUME IsFiniteSet(Known), Cardinality(Known) <= MaxDerivedLiterals,
         NEW S \in SUBSET Known
  PROVE  ~(Cardinality(S) > MaxDerivedLiterals)
<1> DEFINE k == Cardinality(Known)
           n == Cardinality(S)
<1>1. IsFiniteSet(S) /\ n <= k
  BY FS_Subset
<1>2. n \in Nat /\ k \in Nat
  BY <1>1, FS_CardinalityType
<1>3. k <= MaxDerivedLiterals /\ MaxDerivedLiterals \in Nat
  BY LimitsAssumption
<1> HIDE DEF k, n
<1>4. ~(n > MaxDerivedLiterals)
  BY <1>1, <1>2, <1>3
<1> QED  BY <1>4 DEF n

LEMMA OwnPresent ==
  ASSUME EngineInv, Sized, Lean, VerifierInv, OwnInv, UNCHANGED vars,
         pc \in {"answered", "failed"}, NEW c, Present(c)
  PROVE  OwnInv'
<1>1. /\ vpc = "idle" /\ vpc' # "idle" /\ passes = 0 /\ passes' = 0 /\ verdict = "none"
      /\ naive' = FactLiterals(theory) /\ pc' = pc /\ closure' = closure /\ Known' = Known
      /\ \/ /\ Cardinality(FactLiterals(theory)) > MaxDerivedLiterals
            /\ vpc' = "done"
         \/ vpc' = "closing" /\ verdict' = "none"
  BY DEF Present, Finish, OwnInv, vars, Known
<1>2. theory \in Theories
  BY DEF EngineInv, Shape, TypeOK
<1>3. ASSUME pc = "answered"
      PROVE  ClosesLikeTheEngine'
  <2>1. FactLiterals(theory) \subseteq Known
    BY <1>3 DEF EngineInv, Shape, RoundDiscipline
  <2>2. vpc' = "closing" /\ verdict' = "none"
    BY <1>1, <1>3, <2>1, AtTheAnswer, PartOfKnown
  <2>3. ASSUME NEW l \in Known, closure[l].depth <= 0
        PROVE  l \in FactLiterals(theory)
    <3>1. CASE l \in FactLiterals(theory)
      BY <3>1
    <3>2. ASSUME NEW i \in Instances(theory), Body(theory, i) \subseteq Known,
                 \A m \in Body(theory, i) : closure[m].depth < closure[l].depth
          PROVE  FALSE
      <4>1. PICK m \in Body(theory, i) : TRUE
        BY <1>2, TheoryType
      <4>2. closure[m].depth \in Nat /\ closure[l].depth \in Nat
        BY <3>2, <4>1, DepthsAreNat DEF EngineInv
      <4>3. closure[m].depth < closure[l].depth
        BY <3>2, <4>1
      <4> QED  BY <2>3, <4>2, <4>3
    <3> QED  BY <3>1, <3>2 DEF Lean, LeanAt
  <2>4. \A l \in Known' : closure'[l].depth <= passes' => l \in naive'
    BY <1>1, <2>3
  <2> QED  BY <2>2, <2>4 DEF ClosesLikeTheEngine
<1> QED  BY <1>1, <1>3 DEF OwnInv

LEMMA OwnRound ==
  ASSUME EngineInv, Sized, Lean, VerifierInv, OwnInv, UNCHANGED vars, NaiveRound
  PROVE  OwnInv'
<1> DEFINE matched == {i \in Instances(theory) : Body(theory, i) \subseteq naive}
           new == {Head(theory, i) : i \in matched} \ naive
<1>1. /\ pc' = pc /\ closure' = closure /\ Known' = Known
      /\ claim' = claim /\ vpc = "closing" /\ vpc' # "idle" /\ passes \in Nat
      /\ \/ vpc' = "done" /\ verdict' = "max_rule_firings" /\ passes' = passes
         \/ /\ new = {} /\ vpc' = "checking"
            /\ naive' = naive /\ passes' = passes /\ verdict' = verdict
         \/ /\ new # {} /\ passes' = passes + 1 /\ passes' > MaxRounds /\ vpc' = "done"
         \/ /\ new # {} /\ passes' = passes + 1 /\ naive' = naive \cup new
            /\ \/ vpc' = "done" /\ Cardinality(naive') > MaxDerivedLiterals
               \/ vpc' = vpc /\ verdict' = verdict
  BY DEF NaiveRound, Finish, vars, OwnInv, Known
<1>2. passes' \in Nat
  <2> HIDE DEF new
  <2> QED  BY <1>1
<1>3. ASSUME pc = "answered", claim = OwnResult
      PROVE  ClosesLikeTheEngine'
  <2>1. /\ verdict = "none"
        /\ \A l \in Known : closure[l].depth <= passes => l \in naive
    BY <1>1, <1>3 DEF OwnInv, ClosesLikeTheEngine
  <2>2. /\ Known = LeastModel(theory) /\ theory \in Theories
        /\ IsFiniteSet(Known) /\ Cardinality(Known) <= MaxDerivedLiterals
    BY <1>3, AtTheAnswer DEF EngineInv, Shape, TypeOK
  <2>3. naive \subseteq Known /\ FactLiterals(theory) \subseteq naive
    BY <1>1, <2>2 DEF VerifierInv
  <2>4. new \subseteq Known
    BY <2>2, <2>3, LeastModelIsModel DEF IsModel
  <2>5. ASSUME new # {}
        PROVE  passes + 1 <= MaxRounds
    <3>1. PICK x \in new : TRUE
      BY <2>5
    <3>2. x \in Known /\ x \notin naive
      BY <2>4, <3>1
    <3>3. ~(closure[x].depth <= passes)
      BY <2>1, <3>2
    <3>4. closure[x].depth \in Nat /\ closure[x].depth <= rounds
      BY <3>2, DepthsAreNat DEF EngineInv
    <3>5. rounds <= MaxRounds /\ rounds \in Nat /\ MaxRounds \in Nat
      BY LimitsAssumption DEF Sized, EngineInv, Shape, TypeOK
    <3> QED  BY <1>1, <3>3, <3>4, <3>5
  <2>6. ASSUME NEW l \in Known, closure[l].depth <= passes + 1
        PROVE  l \in naive \cup new
    <3>1. CASE l \in FactLiterals(theory)
      BY <2>3, <3>1
    <3>2. ASSUME NEW i \in Instances(theory), Head(theory, i) = l,
                 Body(theory, i) \subseteq Known,
                 \A m \in Body(theory, i) : closure[m].depth < closure[l].depth
          PROVE  l \in naive \cup new
      <4>1. ASSUME NEW m \in Body(theory, i)
            PROVE  m \in naive
        <5>1. closure[m].depth \in Nat /\ closure[l].depth \in Nat
          BY <3>2, DepthsAreNat DEF EngineInv
        <5>2. closure[m].depth < closure[l].depth
          BY <3>2
        <5>3. closure[m].depth <= passes
          BY <1>1, <2>6, <5>1, <5>2
        <5> QED  BY <2>1, <3>2, <5>3
      <4>2. i \in matched
        BY <4>1
      <4> QED  BY <3>2, <4>2
    <3> QED  BY <3>1, <3>2 DEF Lean, LeanAt
  <2>7. ~(Cardinality(naive \cup new) > MaxDerivedLiterals)
    <3>1. naive \cup new \in SUBSET Known
      BY <2>3, <2>4
    <3> HIDE DEF new
    <3> QED  BY <2>2, <3>1, PartOfKnown
  <2>8. MaxRounds \in Nat
    BY LimitsAssumption
  <2> HIDE DEF new
  <2>9. CASE vpc' = "done" /\ verdict' = "max_rule_firings"
    BY <2>9 DEF ClosesLikeTheEngine
  <2>10. CASE /\ vpc' = "checking"
              /\ naive' = naive /\ passes' = passes /\ verdict' = verdict
    BY <1>1, <2>1, <2>10 DEF ClosesLikeTheEngine
  <2>11. CASE /\ new # {} /\ passes' = passes + 1 /\ passes' > MaxRounds
    BY <1>1, <2>5, <2>8, <2>11
  <2>12. CASE /\ passes' = passes + 1 /\ naive' = naive \cup new
              /\ \/ vpc' = "done" /\ Cardinality(naive') > MaxDerivedLiterals
                 \/ vpc' = vpc /\ verdict' = verdict
    <3>1. vpc' = "closing" /\ verdict' = "none"
      BY <1>1, <2>1, <2>7, <2>12
    <3> QED  BY <1>1, <2>6, <2>12, <3>1 DEF ClosesLikeTheEngine
  <2> QED  BY <1>1, <2>9, <2>10, <2>11, <2>12
<1> HIDE DEF new
<1> QED  BY <1>1, <1>2, <1>3, SameOwnResult DEF OwnInv

LEMMA OwnCheck ==
  ASSUME EngineInv, Sized, Lean, VerifierInv, OwnInv, UNCHANGED vars, Check
  PROVE  OwnInv'
<1>1. /\ pc' = pc /\ claim' = claim /\ passes' = passes /\ vpc' = "done"
      /\ vpc = "checking" /\ theory \in Theories
  BY DEF Check, Finish, vars, EngineInv, Shape, TypeOK
<1>2. ASSUME pc = "answered", claim = OwnResult
      PROVE  verdict' = "verified"
  <2>1. /\ Known = LeastModel(theory)
        /\ ProofSize(OwnResult.steps) <= MaxProofNodes
        /\ OwnResult.conflicts = Cardinality(Conflicts(Known))
        /\ OwnResult.status = Classify(OwnResult.query, Known)
    BY <1>2, AtTheAnswer
  <2>2. naive = Known
    BY <1>1, <2>1, NoSmallerModel DEF VerifierInv
  <2>3. ProofStands(theory, claim)
    BY <1>2, OwnProofStands
  <2>4. ~(ProofSize(claim.steps) > MaxProofNodes)
    <3> DEFINE n == ProofSize(OwnResult.steps)
    <3>1. n \in Nat
      BY <1>2, AtTheAnswer, OwnProofIsFinite
    <3>2. n <= MaxProofNodes /\ MaxProofNodes \in Nat
      BY <2>1, LimitsAssumption
    <3> HIDE DEF n
    <3>3. ~(n > MaxProofNodes)
      BY <3>1, <3>2
    <3> QED  BY <1>2, <3>3 DEF n
  <2> QED  BY <1>2, <2>1, <2>2, <2>3, <2>4 DEF Check, Finish
<1> QED  BY <1>1, <1>2, SameOwnResult DEF OwnInv, ClosesLikeTheEngine

LEMMA NextOwn ==
  ASSUME EngineInv, Sized, Lean, VerifierInv, OwnInv, [VNext]_<<vars, verifierVars>>
  PROVE  OwnInv'
<1>1. CASE [Next]_vars /\ UNCHANGED verifierVars
  <2>1. UNCHANGED <<vpc, claim, naive, passes, verdict>>
    BY <1>1 DEF verifierVars
  <2>2. CASE pc \in {"answered", "failed"}
    <3>1. UNCHANGED vars
      BY <1>1, <2>2, EngineIsDone
    <3>2. pc' = pc /\ closure' = closure /\ Known' = Known /\ OwnResult' = OwnResult
      BY <3>1, SameOwnResult DEF vars, Known
    <3> QED  BY <2>1, <3>2 DEF OwnInv, ClosesLikeTheEngine
  <2>3. CASE pc \notin {"answered", "failed"}
    BY <2>1, <2>3 DEF OwnInv
  <2> QED  BY <2>2, <2>3
<1>2. CASE Verify /\ UNCHANGED vars
  BY <1>2, OwnPresent, OwnRound, OwnCheck DEF Verify
<1> QED  BY <1>1, <1>2 DEF VNext

(* For every theory and whatever the limits are: a result of the engine is *)
(* never refused, and of the limits only max_rule_firings can stop its     *)
(* verification, never one of the others the engine itself kept to.        *)
THEOREM OwnResultsAreVerified == VSpec => []OwnResultsVerify
<1> DEFINE Inv == EngineInv /\ VerifierInv /\ Sized /\ Lean /\ OwnInv
<1>1. VInit => Inv
  <2>1. VInit => EngineInv /\ VerifierInv /\ Sized /\ Lean
    BY InitEngine, InitSizedLean DEF VInit, VerifierInv
  <2>2. VInit => OwnInv
    BY DEF VInit, OwnInv
  <2> QED  BY <2>1, <2>2
<1>2. Inv /\ [VNext]_<<vars, verifierVars>> => Inv'
  <2> SUFFICES ASSUME Inv, [VNext]_<<vars, verifierVars>>
               PROVE  Inv'
    OBVIOUS
  <2>1. [Next]_vars
    BY DEF VNext
  <2>2. EngineInv' /\ VerifierInv'
    BY NextBoth, NextVerifier
  <2>3. Sized' /\ Lean'
    BY <2>1, NextSized, NextLean DEF EngineInv
  <2>4. OwnInv'
    BY NextOwn
  <2> QED  BY <2>2, <2>3, <2>4
<1>3. Inv => OwnResultsVerify
  BY DEF OwnInv, OwnResultsVerify, ClosesLikeTheEngine
<1> QED  BY <1>1, <1>2, <1>3, PTL DEF VSpec
=============================================================================
