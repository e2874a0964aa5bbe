------------------------------ MODULE HornTheory ------------------------------
(***************************************************************************)
(* A validated theory as the symbolic engine sees it once its rules have   *)
(* been grounded: explicitly signed literals, source facts, and ground     *)
(* rule instances, each a non-empty conjunction of literals that yields    *)
(* one literal.                                                            *)
(*                                                                         *)
(* A rule instance is a pair of a rule and a substitution.  Its key is a   *)
(* natural number, its place in the engine's canonical order (rule         *)
(* identifier, then sorted substitution).  The meaning of a theory does    *)
(* not depend on how it is computed: it is the least set of literals       *)
(* that holds the facts and is closed under the instances.                 *)
(***************************************************************************)
EXTENDS Naturals, FiniteSets

CONSTANTS
  Atoms,      \* ground atoms: a predicate applied to entities
  Theories    \* the theories a run may be asked to reason about

(* A ground atom with an explicit polarity. *)
Literal == [atom : Atoms, negated : BOOLEAN]

Opposite(l) == [l EXCEPT !.negated = ~l.negated]

Instance == [body : SUBSET Literal, head : Literal]

(* What validation lets through: ground facts with their source, and rule  *)
(* instances over the declared atoms whose bodies are not empty.           *)
IsTheory(t) ==
  /\ t.facts \subseteq [literal : Literal, source : Nat]
  /\ IsFiniteSet(t.facts)
  /\ DOMAIN t.instance \subseteq Nat
  /\ IsFiniteSet(DOMAIN t.instance)
  /\ t.instance \in [DOMAIN t.instance -> Instance]
  /\ \A i \in DOMAIN t.instance : t.instance[i].body # {}

ASSUME TheoriesAssumption == \A t \in Theories : IsTheory(t)

-----------------------------------------------------------------------------

FactLiterals(t) == {f.literal : f \in t.facts}

Instances(t) == DOMAIN t.instance

Body(t, i) == t.instance[i].body

Head(t, i) == t.instance[i].head

(* S holds every fact and the head of every instance whose body it holds. *)
IsModel(t, S) ==
  /\ FactLiterals(t) \subseteq S
  /\ \A i \in Instances(t) : Body(t, i) \subseteq S => Head(t, i) \in S

(* What follows from the theory: the literals common to all its models. *)
LeastModel(t) ==
  {l \in Literal : \A S \in SUBSET Literal : IsModel(t, S) => l \in S}

(* The four-valued, query-specific answer for the set S of known literals. *)
Classify(q, S) ==
  CASE q \in S    /\ Opposite(q) \in S    -> "INCONSISTENT"
    [] q \in S    /\ Opposite(q) \notin S -> "ENTAILED"
    [] q \notin S /\ Opposite(q) \in S    -> "CONTRADICTED"
    [] OTHER                              -> "UNKNOWN"

(* Atoms known with both polarities, wherever in the theory they are. *)
Conflicts(S) ==
  {l.atom : l \in {m \in S : m.negated /\ Opposite(m) \in S}}

Statuses == {"INCONSISTENT", "ENTAILED", "CONTRADICTED", "UNKNOWN"}
=============================================================================
