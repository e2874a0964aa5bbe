----------------------------- MODULE FormalAdapter -----------------------------
(***************************************************************************)
(* The adapter that turns a record of the benchmark, with its formal       *)
(* triples, rules and questions, into a typed theory.                      *)
(*                                                                         *)
(* The record's names are free text; the theory's are identifiers.  Names  *)
(* are naturals here, in the order in which the adapter sorts them, and    *)
(* EntityBase and PredicateBase say what a name becomes once the forbidden *)
(* characters are replaced (and, for a predicate, once it is in lower      *)
(* case): two names may become one.  The second of them is then given a    *)
(* digest of its raw form, which is taken to be different from every other *)
(* name.  A predicate whose name still has a hyphen then is no identifier  *)
(* of a theory, and the record is refused.                                 *)
(***************************************************************************)
EXTENDS TypedTheory

CONSTANTS
  Records,        \* the records [triples, rules, question, whole], whose
                  \* statements have their identifiers as normalized
  Pronouns,       \* the names that stand for any entity within a rule
  Is,             \* the relation that makes its object an attribute
  EntityBase,     \* the identifier an entity's name is normalized to
  PredicateBase,  \* the identifier a predicate's name is normalized to
  Hyphenated,     \* the predicates' names that cannot be normalized
  NoTheory        \* the record was refused, or none was converted yet

(* A literal has a subject, a relation, an object and a polarity.  A record *)
(* is whole if every field is there with a text of an allowed length, every *)
(* representation can be parsed, and the question's depth and answer can be *)
(* used.                                                                    *)
RawLiteral ==
  [subject : Nat, relation : Nat, object : Nat, polarity : {"+", "-", "~"}]

ASSUME RecordsAssumption ==
  /\ Records \subseteq
       [triples  : Seq([id : Nat, literal : RawLiteral]),
        rules    : Seq([id : Nat, body : Seq(RawLiteral), head : RawLiteral]),
        question : [id : Nat, literal : RawLiteral],
        whole    : BOOLEAN]
  /\ Pronouns \subseteq Nat
  /\ Hyphenated \subseteq Nat

VARIABLES
  record,         \* the record that was converted last
  adapted         \* the theory it became, or NoTheory

adapterVars == <<record, adapted>>

-----------------------------------------------------------------------------
(* The formal notation.  Of the three polarities the last two both negate. *)

RawArity(raw) == IF raw.relation = Is THEN 1 ELSE 2

RawPredicate(raw) == IF raw.relation = Is THEN raw.object ELSE raw.relation

RawArguments(raw) ==
  IF raw.relation = Is THEN <<raw.subject>> ELSE <<raw.subject, raw.object>>

Negated(raw) == raw.polarity # "+"

RuleLiterals(r) == UNION {ToSet(x.body) \cup {x.head} : x \in ToSet(r.rules)}

GroundLiterals(r) == {x.literal : x \in ToSet(r.triples)} \cup {r.question.literal}

RawLiterals(r) == RuleLiterals(r) \cup GroundLiterals(r)

-----------------------------------------------------------------------------
(* The signature: which entities and predicates there are *)

RawSignatures(r) == {<<RawPredicate(l), RawArity(l)>> : l \in RawLiterals(r)}

RawArityClash(r) ==
  \E p, q \in RawSignatures(r) : p[1] = q[1] /\ p[2] # q[2]

(* A pronoun outside a rule is the name of an entity. *)
RawEntities(r) ==
  (UNION {ToSet(RawArguments(l)) : l \in GroundLiterals(r)})
    \cup ((UNION {ToSet(RawArguments(l)) : l \in RuleLiterals(r)}) \ Pronouns)

RawPredicates(r) == {RawPredicate(l) : l \in RawLiterals(r)}

(* The first name with a base keeps it, the others carry their digest. The *)
(* slip trusts that normalization keeps names apart.                       *)
Normalized(names, base) == [n \in names |-> <<base[n], 0>>]

Distinguished(names, base) ==
  [n \in names |->
     IF \E m \in names : m < n /\ base[m] = base[n]
     THEN <<base[n], n>> ELSE <<base[n], 0>>]

EntityIds(r) == Distinguished(RawEntities(r), EntityBase)

PredicateIds(r) == Distinguished(RawPredicates(r), PredicateBase)

-----------------------------------------------------------------------------
(* Literals and statements *)

Literal(raw, predicates, term) ==
  [predicate |-> predicates[RawPredicate(raw)],
   terms     |-> [i \in DOMAIN RawArguments(raw) |-> term[RawArguments(raw)[i]]],
   negated   |-> Negated(raw)]

EntityTerm(r) == [n \in RawEntities(r) |-> Entity(EntityIds(r)[n])]

VariableName(pronoun) == <<"variable", pronoun>>

VariableTerm == [n \in Pronouns |-> Variable(VariableName(n))]

GroundLiteral(r, raw) == Literal(raw, PredicateIds(r), EntityTerm(r))

RuleTerm(r) ==
  [n \in Pronouns \cup RawEntities(r) |->
     IF n \in Pronouns THEN VariableTerm[n] ELSE EntityTerm(r)[n]]

RuleLiteral(r, raw) == Literal(raw, PredicateIds(r), RuleTerm(r))

PronounsOf(rule) ==
  (UNION {ToSet(RawArguments(l)) : l \in ToSet(rule.body) \cup {rule.head}})
    \cap Pronouns

FactStatement(r, triple) ==
  [source |-> triple.id,
   says   |-> [kind |-> "fact", variables |-> <<>>, body |-> <<>>,
               head |-> GroundLiteral(r, triple.literal)]]

RuleStatement(r, rule) ==
  [source |-> rule.id,
   says   |-> [kind |-> "rule",
               variables |-> [n \in PronounsOf(rule) |-> VariableName(n)],
               body |-> [i \in DOMAIN rule.body |-> RuleLiteral(r, rule.body[i])],
               head |-> RuleLiteral(r, rule.head)]]

Statements(r) ==
  [i \in DOMAIN r.triples |-> FactStatement(r, r.triples[i])]
    \o [i \in DOMAIN r.rules |-> RuleStatement(r, r.rules[i])]

Adapted(r) ==
  LET statements == Statements(r)
      entities == EntityIds(r)
      predicates == PredicateIds(r)
  IN  [sources    |-> Append([i \in DOMAIN statements |-> statements[i].source],
                             r.question.id),
       entities   |-> entities,
       predicates |-> [s \in RawSignatures(r) |-> <<predicates[s[1]], s[2]>>],
       statements |-> statements,
       query      |-> [literal |-> GroundLiteral(r, r.question.literal),
                       source  |-> r.question.id]]

(* The checks of the adapter itself, before the theory's own.  The parser  *)
(* knows rules without a body, and refuses them.                           *)
HasEmptyBody(r) == \E x \in ToSet(r.rules) : x.body = <<>>

IsConvertible(r) ==
  /\ r.whole
  /\ ~HasEmptyBody(r)
  /\ ~RawArityClash(r)
  /\ RawPredicates(r) \cap Hyphenated = {}

(* No theory that is built is taken for none. *)
ASSUME NoTheoryAssumption == \A r \in Records : Adapted(r) # NoTheory

-----------------------------------------------------------------------------
(* Actions *)

AdapterInit ==
  /\ record = NoTheory
  /\ adapted = NoTheory

(* A record and one of its questions are converted, or refused by one of   *)
(* the adapter's checks or by those of a theory.                           *)
ConvertRecordQuestion ==
  /\ record = NoTheory
  /\ record' \in Records
  /\ adapted' = IF IsConvertible(record') /\ IsValid(Adapted(record'))
                THEN Adapted(record') ELSE NoTheory

-----------------------------------------------------------------------------
(* Properties *)

(* The raw literals of the record and what became of each, in order. *)
Pairs ==
  LET facts == DOMAIN record.triples
      rules == DOMAIN record.rules
      Rule(i) == adapted.statements[Len(record.triples) + i].says
  IN  {<<record.question.literal, adapted.query.literal, "ground">>}
        \cup {<<record.triples[i].literal, adapted.statements[i].says.head, "ground">> :
                i \in facts}
        \cup UNION {{<<record.rules[i].head, Rule(i).head, "rule">>}
                      \cup {<<record.rules[i].body[k], Rule(i).body[k], "rule">> :
                              k \in DOMAIN record.rules[i].body} : i \in rules}

(* What two raw literals have in common, their polarity apart from it. *)
Meaning(raw, context) ==
  [predicate |-> RawPredicate(raw),
   terms |-> [i \in DOMAIN RawArguments(raw) |->
                <<RawArguments(raw)[i],
                  context = "rule" /\ RawArguments(raw)[i] \in Pronouns>>]]

SameAtom(l, m) == l.predicate = m.predicate /\ l.terms = m.terms

(* What the benchmark itself does wrong: a damaged record, a rule without  *)
(* conditions, a predicate that is no identifier, a name with two arities, *)
(* a head with a pronoun that its body lacks, and a repeated name.         *)
IsDefective(r) ==
  \/ ~r.whole
  \/ \E x \in ToSet(r.rules) : Len(x.body) = 0
  \/ \E l \in RawLiterals(r) : RawPredicate(l) \in Hyphenated
  \/ \E l, m \in RawLiterals(r) :
       RawPredicate(l) = RawPredicate(m) /\ RawArity(l) # RawArity(m)
  \/ \E x \in ToSet(r.rules), n \in Pronouns :
       /\ n \in ToSet(RawArguments(x.head))
       /\ \A l \in ToSet(x.body) : n \notin ToSet(RawArguments(l))
  \/ LET names == [i \in DOMAIN r.triples |-> r.triples[i].id]
                    \o [i \in DOMAIN r.rules |-> r.rules[i].id]
                    \o <<r.question.id>>
     IN  \E i, j \in DOMAIN names : i # j /\ names[i] = names[j]

(* Two literals of the record are about the same atom exactly when their   *)
(* conversions are, and they have the same sign exactly when these have:   *)
(* no two names become one and none becomes two, although they are cleaned *)
(* for facts, rules and the question apart, and a pronoun is a variable in *)
(* a rule only.  And a record is refused exactly for a defect of its own:  *)
(* the adapter never builds, out of a sound record, what the checks of a   *)
(* theory reject (reasoning/proofwriter.py, convert_record_question).      *)
NamesStayApart ==
  /\ adapted # NoTheory =>
       \A p, q \in Pairs :
         /\ Meaning(p[1], p[3]) = Meaning(q[1], q[3]) <=> SameAtom(p[2], q[2])
         /\ (p[1].polarity = "+" <=> q[1].polarity = "+")
              <=> (p[2].negated = q[2].negated)
  /\ record # NoTheory => (adapted = NoTheory <=> IsDefective(record))
=============================================================================
