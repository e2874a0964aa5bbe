------------------------------ MODULE TypedTheory ------------------------------
(***************************************************************************)
(* The typed theory that every producer (the parser of natural language,   *)
(* the adapter of formal records, a caller who sends the structure) has to *)
(* build before the symbolic engine sees it.                               *)
(*                                                                         *)
(* A literal is a predicate applied to one or two terms.  A statement is   *)
(* a fact or a rule together with the source sentence it stands for; a     *)
(* fact is kept in the head of a statement that has neither variables nor  *)
(* a body.  The optional types of entities and arguments are left out: no  *)
(* producer in the repository declares any.  What a theory declares is a   *)
(* family: the producer may declare one name twice.                        *)
(***************************************************************************)
EXTENDS Naturals, Sequences, FiniteSets, SequencesExt

Entity(n)   == [kind |-> "entity", name |-> n]
Variable(n) == [kind |-> "variable", name |-> n]

Arity(l) == Len(l.terms)

Terms(l) == {l.terms[i] : i \in DOMAIN l.terms}

NamesOf(l, kind) == {t.name : t \in {u \in Terms(l) : u.kind = kind}}

(* The literals of what a statement says. *)
LiteralsOf(s) == ToSet(s.body) \cup {s.head}

Signature(l) == <<l.predicate, Arity(l)>>

IsRule(statement) == statement.says.kind = "rule"

-----------------------------------------------------------------------------

(* Every name a literal uses is declared, with the arity it is used with.  *)
LiteralIsDeclared(t, l, variables) ==
  /\ Signature(l) \in Range(t.predicates)
  /\ NamesOf(l, "entity") \subseteq Range(t.entities)
  /\ NamesOf(l, "variable") \subseteq variables

RuleIsSafe(says) ==
  NamesOf(says.head, "variable")
    \subseteq UNION {NamesOf(l, "variable") : l \in ToSet(says.body)}

StatementIsValid(t, statement) ==
  LET says == statement.says
      variables == Range(says.variables)
  IN  /\ statement.source \in ToSet(t.sources)
      /\ IsInjective(says.variables)
      /\ \A l \in LiteralsOf(says) : LiteralIsDeclared(t, l, variables)
      /\ IsRule(statement) => RuleIsSafe(says)

(* Rules are named after the sentence they come from. *)
RuleNames(t) ==
  [i \in {k \in DOMAIN t.statements : IsRule(t.statements[k])} |->
     t.statements[i].source]

PredicateNames(t) == [k \in DOMAIN t.predicates |-> t.predicates[k][1]]

(* What the model of a theory checks when one is built: names are unique   *)
(* and whatever is used is declared.  The slip forgets that two sentences  *)
(* may have one name.                                                      *)
IsValidWhateverTheSources(t) ==
  /\ IsInjective(t.entities)
  /\ IsInjective(PredicateNames(t))
  /\ IsInjective(RuleNames(t))
  /\ \A i \in DOMAIN t.statements : StatementIsValid(t, t.statements[i])
  /\ LiteralIsDeclared(t, t.query.literal, {})

IsValid(t) ==
  /\ IsInjective(t.sources)
  /\ IsInjective(t.entities)
  /\ IsInjective(PredicateNames(t))
  /\ IsInjective(RuleNames(t))
  /\ \A i \in DOMAIN t.statements : StatementIsValid(t, t.statements[i])
  /\ LiteralIsDeclared(t, t.query.literal, {})
  /\ t.query.source \in ToSet(t.sources)
=============================================================================
