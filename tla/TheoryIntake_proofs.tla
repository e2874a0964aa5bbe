------------------------- MODULE TheoryIntake_proofs -------------------------
(***************************************************************************)
(* Proofs about the two producers of typed theories, for any requests,     *)
(* answers of the model and formal records.                                *)
(***************************************************************************)
EXTENDS TheoryIntake, SequenceTheorems, FiniteSetTheorems, TLAPS

-----------------------------------------------------------------------------
(***************************************************************************)
(* The formal adapter: names.                                              *)
(***************************************************************************)

(* The first name with a base keeps it and the others carry a digest, so   *)
(* no two names get one identifier.                                        *)
LEMMA DistinguishedApart ==
  ASSUME NEW names \in SUBSET Nat, NEW base, NEW m \in names, NEW n \in names,
         Distinguished(names, base)[m] = Distinguished(names, base)[n]
  PROVE  m = n
<1> DEFINE First(x) == ~(\E y \in names : y < x /\ base[y] = base[x])
           id(x) == IF First(x) THEN <<base[x], 0>> ELSE <<base[x], x>>
<1>1. \A x \in names : Distinguished(names, base)[x] = id(x)
  BY DEF Distinguished
<1>2. id(m) = id(n) /\ m \in Nat /\ n \in Nat
  BY <1>1
<1>3. base[m] = base[n]
  BY <1>2
<1>4. SUFFICES ASSUME m # n  PROVE FALSE
  OBVIOUS
<1>5. CASE m < n
  <2>1. ~First(n) /\ n > 0
    BY <1>2, <1>3, <1>5
  <2> QED  BY <1>2, <1>5, <2>1
<1>6. CASE n < m
  <2>1. ~First(m) /\ m > 0
    BY <1>2, <1>3, <1>6
  <2> QED  BY <1>2, <1>6, <2>1
<1> QED  BY <1>2, <1>4, <1>5, <1>6

(* The names of a record are naturals. *)
LEMMA RecordNames ==
  ASSUME NEW r \in Records
  PROVE  /\ RuleLiterals(r) \subseteq RawLiteral /\ GroundLiterals(r) \subseteq RawLiteral
         /\ RawEntities(r) \subseteq Nat /\ RawPredicates(r) \subseteq Nat
         /\ DOMAIN r.triples = 1..Len(r.triples) /\ Len(r.triples) \in Nat
         /\ DOMAIN r.rules = 1..Len(r.rules) /\ Len(r.rules) \in Nat
<1>1. /\ r.triples \in Seq([id : Nat, literal : RawLiteral])
      /\ r.rules \in Seq([id : Nat, body : Seq(RawLiteral), head : RawLiteral])
      /\ r.question \in [id : Nat, literal : RawLiteral]
  BY RecordsAssumption
<1>2. /\ DOMAIN r.triples = 1..Len(r.triples) /\ Len(r.triples) \in Nat
      /\ DOMAIN r.rules = 1..Len(r.rules) /\ Len(r.rules) \in Nat
      /\ \A i \in DOMAIN r.triples : r.triples[i] \in [id : Nat, literal : RawLiteral]
      /\ \A i \in DOMAIN r.rules :
           r.rules[i] \in [id : Nat, body : Seq(RawLiteral), head : RawLiteral]
  BY <1>1, LenProperties, ElementOfSeq
<1>3. GroundLiterals(r) \subseteq RawLiteral
  BY <1>1, <1>2 DEF GroundLiterals, ToSet
<1>4. RuleLiterals(r) \subseteq RawLiteral
  <2> SUFFICES ASSUME NEW i \in DOMAIN r.rules,
                      NEW l \in ToSet(r.rules[i].body) \cup {r.rules[i].head}
               PROVE  l \in RawLiteral
    BY DEF RuleLiterals, ToSet
  <2>1. r.rules[i].body \in Seq(RawLiteral) /\ r.rules[i].head \in RawLiteral
    BY <1>2
  <2>2. \A k \in DOMAIN r.rules[i].body : r.rules[i].body[k] \in RawLiteral
    BY <2>1, ElementOfSeq, LenProperties
  <2> QED  BY <2>1, <2>2 DEF ToSet
<1>5. ASSUME NEW l \in RawLiteral
      PROVE  /\ RawPredicate(l) \in Nat
             /\ ToSet(RawArguments(l)) \subseteq Nat
  <2>1. l.subject \in Nat /\ l.object \in Nat /\ l.relation \in Nat
    BY DEF RawLiteral
  <2>2. CASE l.relation = Is
    BY <2>1, <2>2 DEF RawPredicate, RawArguments, ToSet
  <2>3. CASE l.relation # Is
    BY <2>1, <2>3 DEF RawPredicate, RawArguments, ToSet
  <2> QED  BY <2>2, <2>3
<1>6. RawEntities(r) \subseteq Nat /\ RawPredicates(r) \subseteq Nat
  BY <1>3, <1>4, <1>5 DEF RawEntities, RawPredicates, RawLiterals
<1> QED  BY <1>2, <1>3, <1>4, <1>6

(* What a name becomes in a literal of a rule, or of anything else. *)
TermOf(r, n, context) ==
  IF context = "rule" /\ n \in Pronouns THEN Variable(VariableName(n))
  ELSE Entity(EntityIds(r)[n])

ConversionOf(r, raw, context) ==
  IF context = "rule" THEN RuleLiteral(r, raw) ELSE GroundLiteral(r, raw)

LiteralsIn(r, context) ==
  IF context = "rule" THEN RuleLiterals(r) ELSE GroundLiterals(r)

LEMMA ArgumentsAreNamed ==
  ASSUME NEW r \in Records, NEW context \in {"ground", "rule"},
         NEW raw \in LiteralsIn(r, context), NEW i \in DOMAIN RawArguments(raw)
  PROVE  \/ RawArguments(raw)[i] \in RawEntities(r)
         \/ context = "rule" /\ RawArguments(raw)[i] \in Pronouns
<1>1. RawArguments(raw)[i] \in ToSet(RawArguments(raw))
  BY DEF ToSet
<1> QED  BY <1>1 DEF RawEntities, LiteralsIn

LEMMA LiteralConverted ==
  ASSUME NEW r \in Records, NEW context \in {"ground", "rule"},
         NEW raw \in LiteralsIn(r, context)
  PROVE  ConversionOf(r, raw, context)
           = [predicate |-> PredicateIds(r)[RawPredicate(raw)],
              terms     |-> [i \in DOMAIN RawArguments(raw) |->
                               TermOf(r, RawArguments(raw)[i], context)],
              negated   |-> raw.polarity # "+"]
<1>1. CASE context = "ground"
  <2>1. \A i \in DOMAIN RawArguments(raw) :
          EntityTerm(r)[RawArguments(raw)[i]] = TermOf(r, RawArguments(raw)[i], context)
    BY <1>1, ArgumentsAreNamed DEF EntityTerm, TermOf
  <2> QED  BY <1>1, <2>1 DEF ConversionOf, GroundLiteral, Literal, Negated
<1>2. CASE context = "rule"
  <2>1. \A i \in DOMAIN RawArguments(raw) :
          RuleTerm(r)[RawArguments(raw)[i]] = TermOf(r, RawArguments(raw)[i], context)
    BY <1>2, ArgumentsAreNamed DEF RuleTerm, EntityTerm, VariableTerm, TermOf
  <2> QED  BY <1>2, <2>1 DEF ConversionOf, RuleLiteral, Literal, Negated
<1> QED  BY <1>1, <1>2

LEMMA TermsApart ==
  ASSUME NEW r \in Records,
         NEW c \in {"ground", "rule"}, NEW d \in {"ground", "rule"}, NEW m, NEW n,
         m \in RawEntities(r) \/ (c = "rule" /\ m \in Pronouns),
         n \in RawEntities(r) \/ (d = "rule" /\ n \in Pronouns)
  PROVE  TermOf(r, m, c) = TermOf(r, n, d)
           <=> m = n /\ ((c = "rule" /\ m \in Pronouns) <=> (d = "rule" /\ n \in Pronouns))
<1> DEFINE lifted(x, k) == k = "rule" /\ x \in Pronouns
<1>1. ~lifted(m, c) /\ ~lifted(n, d) /\ EntityIds(r)[m] = EntityIds(r)[n] => m = n
  BY RecordNames, DistinguishedApart DEF EntityIds
<1>2. VariableName(m) = VariableName(n) => m = n
  BY DEF VariableName
<1>3. \A x, k : TermOf(r, x, k) = IF lifted(x, k)
                               THEN [kind |-> "variable", name |-> VariableName(x)]
                               ELSE [kind |-> "entity", name |-> EntityIds(r)[x]]
  BY DEF TermOf, Entity, Variable
<1>4. CASE lifted(m, c) <=> lifted(n, d)
  <2>1. CASE lifted(m, c)
    <3>1. /\ TermOf(r, m, c) = [kind |-> "variable", name |-> VariableName(m)]
          /\ TermOf(r, n, d) = [kind |-> "variable", name |-> VariableName(n)]
      BY <1>3, <1>4, <2>1
    <3> QED  BY <1>2, <1>4, <3>1
  <2>2. CASE ~lifted(m, c)
    <3>1. /\ TermOf(r, m, c) = [kind |-> "entity", name |-> EntityIds(r)[m]]
          /\ TermOf(r, n, d) = [kind |-> "entity", name |-> EntityIds(r)[n]]
      BY <1>3, <1>4, <2>2
    <3> QED  BY <1>1, <1>4, <2>2, <3>1
  <2> QED  BY <2>1, <2>2
<1>5. CASE ~(lifted(m, c) <=> lifted(n, d))
  <2>1. TermOf(r, m, c).kind # TermOf(r, n, d).kind
    BY <1>3, <1>5
  <2> QED  BY <1>5, <2>1
<1> QED  BY <1>4, <1>5

(* Two literals mean the same exactly when they become the same atom. *)
LEMMA AtomsApart ==
  ASSUME NEW r \in Records,
         NEW c \in {"ground", "rule"}, NEW d \in {"ground", "rule"},
         NEW l \in LiteralsIn(r, c), NEW m \in LiteralsIn(r, d)
  PROVE  /\ Meaning(l, c) = Meaning(m, d)
               <=> SameAtom(ConversionOf(r, l, c), ConversionOf(r, m, d))
         /\ (l.polarity = "+" <=> m.polarity = "+")
               <=> (ConversionOf(r, l, c).negated = ConversionOf(r, m, d).negated)
<1> DEFINE P(x) == RawPredicate(x)
           A(x) == RawArguments(x)
           M(x, k) == [i \in DOMAIN A(x) |-> <<A(x)[i], k = "rule" /\ A(x)[i] \in Pronouns>>]
           T(x, k) == [i \in DOMAIN A(x) |-> TermOf(r, A(x)[i], k)]
<1>1. P(l) = P(m) <=> PredicateIds(r)[P(l)] = PredicateIds(r)[P(m)]
  <2>1. P(l) \in RawPredicates(r) /\ P(m) \in RawPredicates(r)
    BY DEF RawPredicates, RawLiterals, LiteralsIn
  <2> QED  BY <2>1, RecordNames, DistinguishedApart DEF PredicateIds
<1>2. ASSUME NEW i \in DOMAIN A(l), i \in DOMAIN A(m)
      PROVE  TermOf(r, A(l)[i], c) = TermOf(r, A(m)[i], d)
               <=> /\ A(l)[i] = A(m)[i]
                   /\ (c = "rule" /\ A(l)[i] \in Pronouns)
                        <=> (d = "rule" /\ A(m)[i] \in Pronouns)
  <2>1. /\ A(l)[i] \in RawEntities(r) \/ (c = "rule" /\ A(l)[i] \in Pronouns)
        /\ A(m)[i] \in RawEntities(r) \/ (d = "rule" /\ A(m)[i] \in Pronouns)
    BY <1>2, ArgumentsAreNamed
  <2> HIDE DEF A
  <2> QED  BY <2>1, TermsApart
<1>3. M(l, c) = M(m, d) <=> T(l, c) = T(m, d)
  <2>1. DOMAIN M(l, c) = DOMAIN A(l) /\ DOMAIN M(m, d) = DOMAIN A(m)
        /\ DOMAIN T(l, c) = DOMAIN A(l) /\ DOMAIN T(m, d) = DOMAIN A(m)
    OBVIOUS
  <2>2. CASE DOMAIN A(l) # DOMAIN A(m)
    BY <2>1, <2>2
  <2>3. CASE DOMAIN A(l) = DOMAIN A(m)
    <3> HIDE DEF A
    <3>1. M(l, c) = M(m, d)
            <=> \A i \in DOMAIN A(l) :
                  <<A(l)[i], c = "rule" /\ A(l)[i] \in Pronouns>>
                    = <<A(m)[i], d = "rule" /\ A(m)[i] \in Pronouns>>
      BY <2>3
    <3>2. T(l, c) = T(m, d)
            <=> \A i \in DOMAIN A(l) : TermOf(r, A(l)[i], c) = TermOf(r, A(m)[i], d)
      BY <2>3
    <3>3. ASSUME NEW i \in DOMAIN A(l)
          PROVE  (<<A(l)[i], c = "rule" /\ A(l)[i] \in Pronouns>>
                    = <<A(m)[i], d = "rule" /\ A(m)[i] \in Pronouns>>)
                 <=> TermOf(r, A(l)[i], c) = TermOf(r, A(m)[i], d)
      BY <1>2, <2>3
    <3> QED  BY <3>1, <3>2, <3>3
  <2> QED  BY <2>2, <2>3
<1>4. /\ Meaning(l, c) = [predicate |-> P(l), terms |-> M(l, c)]
      /\ Meaning(m, d) = [predicate |-> P(m), terms |-> M(m, d)]
  BY DEF Meaning
<1>5. /\ ConversionOf(r, l, c) = [predicate |-> PredicateIds(r)[P(l)], terms |-> T(l, c),
                                 negated |-> l.polarity # "+"]
      /\ ConversionOf(r, m, d) = [predicate |-> PredicateIds(r)[P(m)], terms |-> T(m, d),
                                 negated |-> m.polarity # "+"]
  BY LiteralConverted
<1> HIDE DEF P, M, T
<1> QED  BY <1>1, <1>3, <1>4, <1>5 DEF SameAtom

LEMMA IndexedIsASeq ==
  ASSUME NEW n \in Nat, NEW f, DOMAIN f = 1..n, f = [i \in 1..n |-> f[i]],
         NEW S, \A i \in 1..n : f[i] \in S
  PROVE  f \in Seq(S) /\ Len(f) = n
<1>1. f \in [1..n -> S]
  OBVIOUS
<1>2. f \in Seq(S)
  BY <1>1, SeqDef
<1>3. DOMAIN f = 1..Len(f) /\ Len(f) \in Nat
  BY <1>2, LenProperties
<1> QED  BY <1>2, <1>3

LEMMA StatementsOf ==
  ASSUME NEW r \in Records
  PROVE  LET n == Len(r.triples)
             m == Len(r.rules)
             all == Statements(r) IN
         /\ n \in Nat /\ m \in Nat /\ DOMAIN all = 1..(n + m)
         /\ all \in Seq(ToSet(all))
         /\ \A i \in 1..n : all[i] = FactStatement(r, r.triples[i])
         /\ \A i \in 1..m : all[n + i] = RuleStatement(r, r.rules[i])
<1> DEFINE n == Len(r.triples)
           m == Len(r.rules)
           facts == [i \in 1..n |-> FactStatement(r, r.triples[i])]
           rules == [i \in 1..m |-> RuleStatement(r, r.rules[i])]
           S == ToSet(facts) \cup ToSet(rules)
<1>1. n \in Nat /\ m \in Nat /\ DOMAIN r.triples = 1..n /\ DOMAIN r.rules = 1..m
  BY RecordNames
<1>2. Statements(r) = facts \o rules
  BY <1>1 DEF Statements
<1>3. /\ DOMAIN facts = 1..n /\ facts = [i \in 1..n |-> facts[i]]
      /\ DOMAIN rules = 1..m /\ rules = [i \in 1..m |-> rules[i]]
      /\ \A i \in 1..n : facts[i] = FactStatement(r, r.triples[i])
      /\ \A i \in 1..m : rules[i] = RuleStatement(r, r.rules[i])
  OBVIOUS
<1>4. (\A i \in 1..n : facts[i] \in S) /\ (\A i \in 1..m : rules[i] \in S)
  BY <1>3 DEF ToSet
<1> HIDE DEF n, m, facts, rules, S
<1>5. facts \in Seq(S) /\ Len(facts) = n /\ rules \in Seq(S) /\ Len(rules) = m
  BY <1>1, <1>3, <1>4, IndexedIsASeq
<1>6. /\ Statements(r) \in Seq(S) /\ Len(Statements(r)) = n + m
      /\ \A i \in 1..(n + m) : Statements(r)[i] = IF i <= n THEN facts[i] ELSE rules[i - n]
  <2>1. PICK both : both = facts \o rules
    OBVIOUS
  <2>2. /\ both \in Seq(S) /\ Len(both) = Len(facts) + Len(rules)
        /\ \A i \in 1..(Len(facts) + Len(rules)) :
             both[i] = IF i <= Len(facts) THEN facts[i] ELSE rules[i - Len(facts)]
    BY <1>5, <2>1, ConcatProperties
  <2> QED  BY <1>2, <1>5, <2>1, <2>2
<1>7. /\ \A i \in 1..n : i \in 1..(n + m) /\ i <= n
      /\ \A i \in 1..m : n + i \in 1..(n + m) /\ ~(n + i <= n) /\ (n + i) - n = i
  BY <1>1
<1>8. /\ \A i \in 1..n : Statements(r)[i] = facts[i]
      /\ \A i \in 1..m : Statements(r)[n + i] = rules[i]
  BY <1>6, <1>7
<1>9. DOMAIN Statements(r) = 1..(n + m) /\ Statements(r) \in Seq(ToSet(Statements(r)))
  <2>1. DOMAIN Statements(r) = 1..(n + m)
    BY <1>6, LenProperties
  <2>2. \A i \in 1..(n + m) : Statements(r)[i] \in ToSet(Statements(r))
    BY <2>1 DEF ToSet
  <2>3. Statements(r) = [i \in 1..(n + m) |-> Statements(r)[i]]
    BY <1>6, <2>1, LenProperties
  <2> QED  BY <1>1, <2>1, <2>2, <2>3, IndexedIsASeq
<1> QED  BY <1>1, <1>3, <1>8, <1>9 DEF n, m

(* Every pair is a literal of the record with what it became. *)
LEMMA PairsAreConversions ==
  ASSUME record \in Records, adapted = Adapted(record), NEW p \in Pairs
  PROVE  \E context \in {"ground", "rule"} : \E l \in LiteralsIn(record, context) :
           p = <<l, ConversionOf(record, l, context), context>>
<1> DEFINE n == Len(record.triples)
           said(i) == adapted.statements[i].says
<1>1. /\ DOMAIN record.triples = 1..n /\ DOMAIN record.rules = 1..Len(record.rules)
      /\ adapted.statements = Statements(record)
      /\ adapted.query.literal = GroundLiteral(record, record.question.literal)
  BY RecordNames DEF Adapted
<1>2. /\ \A i \in DOMAIN record.triples :
           said(i).head = GroundLiteral(record, record.triples[i].literal)
      /\ \A i \in DOMAIN record.rules :
           /\ said(n + i).head = RuleLiteral(record, record.rules[i].head)
           /\ \A k \in DOMAIN record.rules[i].body :
                said(n + i).body[k] = RuleLiteral(record, record.rules[i].body[k])
  <2>1. /\ \A i \in 1..n : Statements(record)[i] = FactStatement(record, record.triples[i])
        /\ \A i \in 1..Len(record.rules) :
             Statements(record)[n + i] = RuleStatement(record, record.rules[i])
    BY StatementsOf
  <2>2. ASSUME NEW triple
        PROVE  FactStatement(record, triple).says.head = GroundLiteral(record, triple.literal)
    BY DEF FactStatement
  <2>3. ASSUME NEW rule
        PROVE  /\ RuleStatement(record, rule).says.head = RuleLiteral(record, rule.head)
               /\ \A k \in DOMAIN rule.body :
                    RuleStatement(record, rule).says.body[k] = RuleLiteral(record, rule.body[k])
    BY DEF RuleStatement
  <2>4. ASSUME NEW i \in 1..n
        PROVE  said(i).head = GroundLiteral(record, record.triples[i].literal)
    BY <1>1, <2>1, <2>2
  <2>5. ASSUME NEW i \in 1..Len(record.rules)
        PROVE  /\ said(n + i).head = RuleLiteral(record, record.rules[i].head)
               /\ \A k \in DOMAIN record.rules[i].body :
                    said(n + i).body[k] = RuleLiteral(record, record.rules[i].body[k])
    <3>1. said(n + i) = RuleStatement(record, record.rules[i]).says
      BY <1>1, <2>1
    <3> HIDE DEF said
    <3> QED  BY <2>3, <3>1
  <2> HIDE DEF n, said
  <2> QED  BY <1>1, <2>4, <2>5
<1>3. /\ record.question.literal \in GroundLiterals(record)
      /\ \A i \in DOMAIN record.triples : record.triples[i].literal \in GroundLiterals(record)
      /\ \A i \in DOMAIN record.rules :
           /\ record.rules[i].head \in RuleLiterals(record)
           /\ \A k \in DOMAIN record.rules[i].body :
                record.rules[i].body[k] \in RuleLiterals(record)
  BY DEF GroundLiterals, RuleLiterals, ToSet
<1>4. \/ p = <<record.question.literal, adapted.query.literal, "ground">>
      \/ \E i \in DOMAIN record.triples :
           p = <<record.triples[i].literal, said(i).head, "ground">>
      \/ \E i \in DOMAIN record.rules :
           \/ p = <<record.rules[i].head, said(n + i).head, "rule">>
           \/ \E k \in DOMAIN record.rules[i].body :
                p = <<record.rules[i].body[k], said(n + i).body[k], "rule">>
  BY DEF Pairs
<1> HIDE DEF n, said
<1>5. \/ \E l \in GroundLiterals(record) : p = <<l, GroundLiteral(record, l), "ground">>
      \/ \E l \in RuleLiterals(record) : p = <<l, RuleLiteral(record, l), "rule">>
  <2>1. CASE p = <<record.question.literal, adapted.query.literal, "ground">>
    BY <1>1, <1>3, <2>1
  <2>2. CASE \E i \in DOMAIN record.triples :
               p = <<record.triples[i].literal, said(i).head, "ground">>
    BY <1>2, <1>3, <2>2
  <2>3. ASSUME NEW i \in DOMAIN record.rules,
               \/ p = <<record.rules[i].head, said(n + i).head, "rule">>
               \/ \E k \in DOMAIN record.rules[i].body :
                    p = <<record.rules[i].body[k], said(n + i).body[k], "rule">>
        PROVE  \E l \in RuleLiterals(record) : p = <<l, RuleLiteral(record, l), "rule">>
    BY <1>2, <1>3, <2>3
  <2> QED  BY <1>4, <2>1, <2>2, <2>3
<1> QED  BY <1>5 DEF LiteralsIn, ConversionOf

-----------------------------------------------------------------------------
(***************************************************************************)
(* The formal adapter: what it refuses.                                    *)
(***************************************************************************)

(* A literal of the record is declared as soon as it is converted. *)
LEMMA ConversionIsDeclared ==
  ASSUME NEW r \in Records, NEW c \in {"ground", "rule"}, NEW raw \in LiteralsIn(r, c),
         NEW l, l = ConversionOf(r, raw, c)
  PROVE  /\ Signature(l) \in Range(Adapted(r).predicates)
         /\ NamesOf(l, "entity") \subseteq Range(Adapted(r).entities)
         /\ NamesOf(l, "variable")
              = {VariableName(n) : n \in {x \in ToSet(RawArguments(raw)) :
                                           c = "rule" /\ x \in Pronouns}}
<1> DEFINE A == RawArguments(raw)
           terms == [i \in DOMAIN A |-> TermOf(r, A[i], c)]
           lifted(n) == c = "rule" /\ n \in Pronouns
<1>1. l = [predicate |-> PredicateIds(r)[RawPredicate(raw)], terms |-> terms,
           negated |-> raw.polarity # "+"]
  BY LiteralConverted
<1>2. DOMAIN A = 1..RawArity(raw) /\ RawArity(raw) \in Nat
  <2>1. CASE raw.relation = Is
    BY <2>1 DEF RawArguments, RawArity
  <2>2. CASE raw.relation # Is
    BY <2>2 DEF RawArguments, RawArity
  <2> QED  BY <2>1, <2>2
<1>3. Len(terms) = RawArity(raw)
  <2>1. /\ DOMAIN terms = 1..RawArity(raw) /\ terms = [i \in 1..RawArity(raw) |-> terms[i]]
        /\ \A i \in 1..RawArity(raw) : terms[i] \in ToSet(terms)
    BY <1>2 DEF ToSet
  <2> HIDE DEF terms
  <2> QED  BY <1>2, <2>1, IndexedIsASeq
<1>4. Signature(l) \in Range(Adapted(r).predicates)
  <2>1. Signature(l) = <<PredicateIds(r)[RawPredicate(raw)], RawArity(raw)>>
    BY <1>1, <1>3 DEF Signature, Arity
  <2>2. <<RawPredicate(raw), RawArity(raw)>> \in RawSignatures(r)
    BY DEF RawSignatures, RawLiterals, LiteralsIn
  <2>3. Adapted(r).predicates
          = [s \in RawSignatures(r) |-> <<PredicateIds(r)[s[1]], s[2]>>]
    BY DEF Adapted
  <2> QED  BY <2>1, <2>2, <2>3 DEF Range
<1>5. Terms(l) = {TermOf(r, A[i], c) : i \in DOMAIN A}
  BY <1>1 DEF Terms
<1>6. \A n : TermOf(r, n, c) = IF lifted(n) THEN [kind |-> "variable", name |-> VariableName(n)]
                             ELSE [kind |-> "entity", name |-> EntityIds(r)[n]]
  BY DEF TermOf, Entity, Variable
<1>7. NamesOf(l, "entity") \subseteq Range(Adapted(r).entities)
  <2> SUFFICES ASSUME NEW i \in DOMAIN A, TermOf(r, A[i], c).kind = "entity"
               PROVE  TermOf(r, A[i], c).name \in Range(Adapted(r).entities)
    BY <1>5 DEF NamesOf
  <2>1. ~lifted(A[i]) /\ TermOf(r, A[i], c).name = EntityIds(r)[A[i]]
    BY <1>6
  <2>2. A[i] \in RawEntities(r)
    BY <2>1, ArgumentsAreNamed
  <2>3. Adapted(r).entities = EntityIds(r) /\ DOMAIN EntityIds(r) = RawEntities(r)
    BY DEF Adapted, EntityIds, Distinguished
  <2> QED  BY <2>1, <2>2, <2>3 DEF Range
<1>8. NamesOf(l, "variable") = {VariableName(n) : n \in {x \in ToSet(A) : lifted(x)}}
  <2>1. ASSUME NEW i \in DOMAIN A
        PROVE  /\ TermOf(r, A[i], c).kind = "variable" <=> lifted(A[i])
               /\ lifted(A[i]) => TermOf(r, A[i], c).name = VariableName(A[i])
    BY <1>6
  <2> HIDE DEF A, lifted
  <2> QED  BY <1>5, <2>1 DEF NamesOf, ToSet
<1> QED  BY <1>4, <1>7, <1>8

LEMMA Halves ==
  ASSUME NEW n \in Nat, NEW m \in Nat, NEW i \in 1..(n + m)
  PROVE  IF i <= n THEN i \in 1..n ELSE i - n \in 1..m /\ n + (i - n) = i
OBVIOUS

LEMMA SourcesOf ==
  ASSUME NEW r \in Records
  PROVE  LET n == Len(r.triples)
             m == Len(r.rules)
             sources == Adapted(r).sources
             names == [i \in DOMAIN r.triples |-> r.triples[i].id]
                        \o [i \in DOMAIN r.rules |-> r.rules[i].id]
                        \o <<r.question.id>> IN
         /\ n + m \in Nat /\ DOMAIN Statements(r) = 1..(n + m)
         /\ \A i \in 1..(n + m) : i \in DOMAIN sources /\ sources[i] = Statements(r)[i].source
         /\ DOMAIN sources = DOMAIN names
         /\ \A i \in DOMAIN sources : sources[i] = names[i]
         /\ r.question.id \in ToSet(sources)
<1> DEFINE n == Len(r.triples)
           m == Len(r.rules)
           q == r.question.id
           all == Statements(r)
           facts == [i \in 1..n |-> r.triples[i].id]
           rules == [i \in 1..m |-> r.rules[i].id]
           said == [i \in 1..(n + m) |-> all[i].source]
<1>1. /\ n \in Nat /\ m \in Nat /\ DOMAIN all = 1..(n + m)
      /\ DOMAIN r.triples = 1..n /\ DOMAIN r.rules = 1..m
      /\ \A i \in 1..n : all[i] = FactStatement(r, r.triples[i])
      /\ \A i \in 1..m : all[n + i] = RuleStatement(r, r.rules[i])
  BY StatementsOf, RecordNames
<1>2. /\ r.triples \in Seq([id : Nat, literal : RawLiteral])
      /\ r.rules \in Seq([id : Nat, body : Seq(RawLiteral), head : RawLiteral])
      /\ q \in Nat
  BY RecordsAssumption
<1>3. (\A i \in 1..n : facts[i] \in Nat) /\ (\A i \in 1..m : rules[i] \in Nat)
  <2>1. \A i \in 1..n : r.triples[i] \in [id : Nat, literal : RawLiteral]
    BY <1>2, ElementOfSeq
  <2>2. \A i \in 1..m : r.rules[i] \in [id : Nat, body : Seq(RawLiteral), head : RawLiteral]
    BY <1>2, ElementOfSeq
  <2> QED  BY <2>1, <2>2
<1>4. \A i \in 1..(n + m) : said[i] = IF i <= n THEN facts[i] ELSE rules[i - n]
  <2> SUFFICES ASSUME NEW i \in 1..(n + m)
               PROVE  all[i].source = IF i <= n THEN facts[i] ELSE rules[i - n]
    OBVIOUS
  <2>1. CASE i <= n
    <3>1. i \in 1..n
      BY <1>1, <2>1, Halves
    <3>2. all[i] = FactStatement(r, r.triples[i])
      BY <1>1, <3>1
    <3> QED  BY <2>1, <3>1, <3>2 DEF FactStatement
  <2>2. CASE ~(i <= n)
    <3>1. i - n \in 1..m /\ n + (i - n) = i
      BY <1>1, <2>2, Halves
    <3>2. all[i] = RuleStatement(r, r.rules[i - n])
      BY <1>1, <3>1
    <3> QED  BY <2>2, <3>1, <3>2 DEF RuleStatement
  <2> QED  BY <2>1, <2>2
<1>5. /\ DOMAIN facts = 1..n /\ facts = [i \in 1..n |-> facts[i]]
      /\ DOMAIN rules = 1..m /\ rules = [i \in 1..m |-> rules[i]]
      /\ DOMAIN said = 1..(n + m) /\ said = [i \in 1..(n + m) |-> said[i]]
      /\ \A i \in 1..(n + m) : said[i] = all[i].source
  OBVIOUS
<1>6. /\ Adapted(r).sources = Append(said, q)
      /\ [i \in DOMAIN r.triples |-> r.triples[i].id] = facts
      /\ [i \in DOMAIN r.rules |-> r.rules[i].id] = rules
  BY <1>1 DEF Adapted
<1> HIDE DEF n, m, q, all, facts, rules, said
<1>7. \A i \in 1..(n + m) : said[i] \in Nat
  <2> TAKE i \in 1..(n + m)
  <2>1. CASE i <= n
    <3>1. i \in 1..n
      BY <1>1, <2>1, Halves
    <3> QED  BY <1>3, <1>4, <2>1, <3>1
  <2>2. CASE ~(i <= n)
    <3>1. i - n \in 1..m
      BY <1>1, <2>2, Halves
    <3> QED  BY <1>3, <1>4, <2>2, <3>1
  <2> QED  BY <2>1, <2>2
<1>8. facts \in Seq(Nat) /\ Len(facts) = n /\ rules \in Seq(Nat) /\ Len(rules) = m
  BY <1>1, <1>3, <1>5, IndexedIsASeq
<1>9. said \in Seq(Nat) /\ Len(said) = n + m
  <2>1. n + m \in Nat
    BY <1>1
  <2> QED  BY <1>5, <1>7, <2>1, IndexedIsASeq
<1>10. /\ facts \o rules \in Seq(Nat) /\ Len(facts \o rules) = n + m
       /\ \A i \in 1..(n + m) : (facts \o rules)[i] = IF i <= n THEN facts[i] ELSE rules[i - n]
  BY <1>8, ConcatProperties
<1>11. facts \o rules = said
  BY <1>4, <1>9, <1>10, SeqEqual
<1>12. Append(said, q) = (facts \o rules) \o <<q>>
  BY <1>2, <1>9, <1>11, AppendIsConcat DEF q
<1>13. /\ Append(said, q) \in Seq(Nat) /\ Len(Append(said, q)) = n + m + 1
       /\ \A i \in 1..(n + m) : Append(said, q)[i] = said[i]
       /\ Append(said, q)[n + m + 1] = q
  BY <1>2, <1>9, AppendProperties DEF q
<1>14. DOMAIN Append(said, q) = 1..(n + m + 1)
  BY <1>13, LenProperties
<1>15. /\ n + m \in Nat /\ n + m + 1 \in 1..(n + m + 1)
       /\ \A i \in 1..(n + m) : i \in 1..(n + m + 1)
  BY <1>1
<1>16. q \in ToSet(Append(said, q))
  BY <1>13, <1>14, <1>15 DEF ToSet
<1> QED  BY <1>1, <1>5, <1>6, <1>12, <1>13, <1>14, <1>15, <1>16 DEF n, m, q, all

(* What is wrong with a record that is refused, apart from its arities. *)
HeadIsBound(rule) ==
  \A n \in Pronouns : n \in ToSet(RawArguments(rule.head)) =>
    \E l \in ToSet(rule.body) : n \in ToSet(RawArguments(l))

LEMMA RuleIsValid ==
  ASSUME NEW r \in Records, NEW rule \in ToSet(r.rules), HeadIsBound(rule),
         NEW s, s = RuleStatement(r, rule), s.source \in ToSet(Adapted(r).sources)
  PROVE  StatementIsValid(Adapted(r), s)
<1> DEFINE says == s.says
           t == Adapted(r)
           V(raw) == {VariableName(n) : n \in {x \in ToSet(RawArguments(raw)) : x \in Pronouns}}
<1>1. /\ says.kind = "rule" /\ says.head = RuleLiteral(r, rule.head)
      /\ says.variables = [n \in PronounsOf(rule) |-> VariableName(n)]
      /\ ToSet(says.body) = {RuleLiteral(r, raw) : raw \in ToSet(rule.body)}
  BY DEF RuleStatement, ToSet
<1>2. LiteralsOf(says) = {RuleLiteral(r, raw) : raw \in ToSet(rule.body) \cup {rule.head}}
  <2> HIDE DEF says
  <2> QED  BY <1>1 DEF LiteralsOf
<1>3. ASSUME NEW raw \in ToSet(rule.body) \cup {rule.head}
      PROVE  /\ Signature(RuleLiteral(r, raw)) \in Range(t.predicates)
             /\ NamesOf(RuleLiteral(r, raw), "entity") \subseteq Range(t.entities)
             /\ NamesOf(RuleLiteral(r, raw), "variable") = V(raw)
  <2>1. raw \in LiteralsIn(r, "rule")
    BY DEF LiteralsIn, RuleLiterals
  <2>2. RuleLiteral(r, raw) = ConversionOf(r, raw, "rule")
    BY DEF ConversionOf
  <2>3. PICK l : l = RuleLiteral(r, raw)
    OBVIOUS
  <2> HIDE DEF t
  <2> QED  BY <2>1, <2>2, <2>3, ConversionIsDeclared DEF t
<1>4. Range(says.variables) = {VariableName(n) : n \in PronounsOf(rule)}
  <2> HIDE DEF says
  <2> QED  BY <1>1 DEF Range
<1>5. IsInjective(says.variables)
  <2>1. \A m, n : VariableName(m) = VariableName(n) => m = n
    BY DEF VariableName
  <2> HIDE DEF says
  <2> QED  BY <1>1, <2>1 DEF IsInjective
<1>6. \A raw \in ToSet(rule.body) \cup {rule.head} : V(raw) \subseteq Range(says.variables)
  <2> HIDE DEF says
  <2> QED  BY <1>4 DEF PronounsOf
<1>7. \A l \in LiteralsOf(says) : LiteralIsDeclared(t, l, Range(says.variables))
  <2> HIDE DEF says, t, V
  <2> QED  BY <1>2, <1>3, <1>6 DEF LiteralIsDeclared
<1>8. RuleIsSafe(says)
  <2>1. V(rule.head) \subseteq UNION {V(raw) : raw \in ToSet(rule.body)}
    BY DEF HeadIsBound
  <2>2. {NamesOf(l, "variable") : l \in ToSet(says.body)} = {V(raw) : raw \in ToSet(rule.body)}
    <3> HIDE DEF says, t, V
    <3> QED  BY <1>1, <1>3
  <2>3. NamesOf(says.head, "variable") = V(rule.head)
    <3> HIDE DEF says, t, V
    <3> QED  BY <1>1, <1>3
  <2> HIDE DEF says, t, V
  <2> QED  BY <2>1, <2>2, <2>3 DEF RuleIsSafe
<1> HIDE DEF t
<1> QED  BY <1>5, <1>7, <1>8 DEF StatementIsValid, t

LEMMA FactIsValid ==
  ASSUME NEW r \in Records, NEW triple \in ToSet(r.triples),
         NEW s, s = FactStatement(r, triple), s.source \in ToSet(Adapted(r).sources)
  PROVE  StatementIsValid(Adapted(r), s)
<1> DEFINE says == s.says
           t == Adapted(r)
<1>1. /\ says.kind = "fact" /\ says.head = GroundLiteral(r, triple.literal)
      /\ says.variables = <<>> /\ says.body = <<>>
  BY DEF FactStatement
<1>2. /\ triple.literal \in LiteralsIn(r, "ground")
      /\ says.head = ConversionOf(r, triple.literal, "ground")
  BY <1>1 DEF LiteralsIn, GroundLiterals, ConversionOf
<1>3. PICK l : l = says.head
  OBVIOUS
<1>4. /\ Signature(l) \in Range(t.predicates) /\ NamesOf(l, "entity") \subseteq Range(t.entities)
      /\ NamesOf(l, "variable") = {}
  <2>1. NamesOf(l, "variable")
         = {VariableName(n) : n \in {x \in ToSet(RawArguments(triple.literal)) :
                                      "ground" = "rule" /\ x \in Pronouns}}
    BY <1>2, <1>3, ConversionIsDeclared
  <2>2. Signature(l) \in Range(t.predicates) /\ NamesOf(l, "entity") \subseteq Range(t.entities)
    BY <1>2, <1>3, ConversionIsDeclared
  <2> QED  BY <2>1, <2>2
<1>5. LiteralsOf(says) = {l}
  BY <1>1, <1>3 DEF LiteralsOf, ToSet
<1>6. IsInjective(says.variables)
  BY <1>1 DEF IsInjective
<1> HIDE DEF t, says
<1>7. \A k \in LiteralsOf(says) : LiteralIsDeclared(t, k, Range(says.variables))
  BY <1>4, <1>5 DEF LiteralIsDeclared
<1>8. says.kind # "rule"
  BY <1>1
<1> QED  BY <1>6, <1>7, <1>8 DEF StatementIsValid, IsRule, t, says

LEMMA AdaptedIsValid ==
  ASSUME NEW r \in Records, ~RawArityClash(r), \A rule \in ToSet(r.rules) : HeadIsBound(rule),
         IsInjective(Adapted(r).sources)
  PROVE  IsValid(Adapted(r))
<1> DEFINE t == Adapted(r)
           n == Len(r.triples)
           m == Len(r.rules)
<1>1. /\ t.entities = EntityIds(r) /\ t.statements = Statements(r)
      /\ t.predicates = [s \in RawSignatures(r) |-> <<PredicateIds(r)[s[1]], s[2]>>]
      /\ t.query = [literal |-> GroundLiteral(r, r.question.literal), source |-> r.question.id]
  BY DEF Adapted
<1>2. IsInjective(t.entities)
  <2>1. DOMAIN EntityIds(r) = RawEntities(r)
    BY DEF EntityIds, Distinguished
  <2> QED  BY <1>1, <2>1, RecordNames, DistinguishedApart DEF IsInjective, EntityIds
<1>3. IsInjective(PredicateNames(t))
  <2>1. PredicateNames(t) = [s \in RawSignatures(r) |-> PredicateIds(r)[s[1]]]
    BY <1>1 DEF PredicateNames
  <2>2. ASSUME NEW s \in RawSignatures(r), NEW u \in RawSignatures(r),
               PredicateIds(r)[s[1]] = PredicateIds(r)[u[1]]
        PROVE  s = u
    <3>1. s = <<s[1], s[2]>> /\ u = <<u[1], u[2]>>
          /\ s[1] \in RawPredicates(r) /\ u[1] \in RawPredicates(r)
      BY DEF RawSignatures, RawPredicates
    <3>2. s[1] = u[1]
      BY <2>2, <3>1, RecordNames, DistinguishedApart DEF PredicateIds
    <3> QED  BY <3>1, <3>2 DEF RawArityClash
  <2> QED  BY <2>1, <2>2 DEF IsInjective
<1>4. /\ n + m \in Nat /\ DOMAIN Statements(r) = 1..(n + m) /\ n \in Nat /\ m \in Nat
      /\ \A i \in 1..(n + m) : i \in DOMAIN t.sources /\ t.sources[i] = Statements(r)[i].source
      /\ r.question.id \in ToSet(t.sources)
  BY SourcesOf, RecordNames
<1>5. IsInjective(RuleNames(t))
  <2>1. /\ DOMAIN RuleNames(t) \subseteq DOMAIN Statements(r)
        /\ \A i \in DOMAIN RuleNames(t) : RuleNames(t)[i] = Statements(r)[i].source
    BY <1>1 DEF RuleNames
  <2>2. ASSUME NEW i \in DOMAIN RuleNames(t), NEW j \in DOMAIN RuleNames(t),
               RuleNames(t)[i] = RuleNames(t)[j]
        PROVE  i = j
    <3>1. /\ i \in DOMAIN t.sources /\ t.sources[i] = RuleNames(t)[i]
          /\ j \in DOMAIN t.sources /\ t.sources[j] = RuleNames(t)[j]
      BY <1>4, <2>1
    <3> QED  BY <2>2, <3>1 DEF IsInjective
  <2> QED  BY <2>2 DEF IsInjective
<1>6. ASSUME NEW i \in 1..(n + m)
      PROVE  StatementIsValid(t, Statements(r)[i])
  <2>1. PICK s : s = Statements(r)[i]
    OBVIOUS
  <2>2. s.source \in ToSet(t.sources)
    BY <1>4, <2>1 DEF ToSet
  <2>3. DOMAIN r.triples = 1..n /\ DOMAIN r.rules = 1..m
    BY RecordNames
  <2>4. CASE i <= n
    <3>1. i \in 1..n
      BY <1>4, <2>4, Halves
    <3>2. s = FactStatement(r, r.triples[i]) /\ r.triples[i] \in ToSet(r.triples)
      BY <2>1, <2>3, <3>1, StatementsOf DEF ToSet
    <3> QED  BY <2>1, <2>2, <3>2, FactIsValid
  <2>5. CASE ~(i <= n)
    <3>1. i - n \in 1..m /\ n + (i - n) = i
      BY <1>4, <2>5, Halves
    <3>2. Statements(r)[n + (i - n)] = RuleStatement(r, r.rules[i - n])
      BY <3>1, StatementsOf
    <3>3. s = RuleStatement(r, r.rules[i - n]) /\ r.rules[i - n] \in ToSet(r.rules)
      BY <2>1, <2>3, <3>1, <3>2 DEF ToSet
    <3> QED  BY <2>1, <2>2, <3>3, RuleIsValid
  <2> QED  BY <2>4, <2>5
<1>7. LiteralIsDeclared(t, t.query.literal, {})
  <2>1. /\ r.question.literal \in LiteralsIn(r, "ground")
        /\ t.query.literal = ConversionOf(r, r.question.literal, "ground")
    BY <1>1 DEF LiteralsIn, GroundLiterals, ConversionOf
  <2>2. PICK l : l = t.query.literal
    OBVIOUS
  <2>3. /\ Signature(l) \in Range(t.predicates) /\ NamesOf(l, "entity") \subseteq Range(t.entities)
        /\ NamesOf(l, "variable")
             = {VariableName(x) : x \in {y \in ToSet(RawArguments(r.question.literal)) :
                                          "ground" = "rule" /\ y \in Pronouns}}
    BY <2>1, <2>2, ConversionIsDeclared
  <2>4. NamesOf(l, "variable") = {}
    BY <2>3
  <2> HIDE DEF t
  <2> QED  BY <2>2, <2>3, <2>4 DEF LiteralIsDeclared
<1>8. t.query.source \in ToSet(t.sources)
  BY <1>1, <1>4
<1>9. \A i \in DOMAIN t.statements : StatementIsValid(t, t.statements[i])
  BY <1>1, <1>4, <1>6
<1> HIDE DEF t
<1> QED  BY <1>2, <1>3, <1>5, <1>7, <1>8, <1>9 DEF IsValid, t

(* And a theory that is accepted has only bound pronouns. *)
LEMMA SafeHeadIsBound ==
  ASSUME NEW r \in Records, NEW rule \in ToSet(r.rules),
         NEW s, s = RuleStatement(r, rule), StatementIsValid(Adapted(r), s)
  PROVE  HeadIsBound(rule)
<1> DEFINE says == s.says
           V(raw) == {VariableName(n) : n \in {x \in ToSet(RawArguments(raw)) : x \in Pronouns}}
<1>1. /\ says.kind = "rule" /\ says.head = RuleLiteral(r, rule.head)
      /\ ToSet(says.body) = {RuleLiteral(r, raw) : raw \in ToSet(rule.body)}
  BY DEF RuleStatement, ToSet
<1>2. ASSUME NEW raw \in ToSet(rule.body) \cup {rule.head}
      PROVE  NamesOf(RuleLiteral(r, raw), "variable") = V(raw)
  <2>1. raw \in LiteralsIn(r, "rule")
    BY DEF LiteralsIn, RuleLiterals
  <2>2. RuleLiteral(r, raw) = ConversionOf(r, raw, "rule")
    BY DEF ConversionOf
  <2>3. PICK l : l = RuleLiteral(r, raw)
    OBVIOUS
  <2> QED  BY <2>1, <2>2, <2>3, ConversionIsDeclared
<1>3. RuleIsSafe(says)
  BY <1>1 DEF StatementIsValid, IsRule
<1> SUFFICES ASSUME NEW n \in Pronouns, n \in ToSet(RawArguments(rule.head))
             PROVE  \E l \in ToSet(rule.body) : n \in ToSet(RawArguments(l))
  BY DEF HeadIsBound
<1>4. VariableName(n) \in NamesOf(says.head, "variable")
  BY <1>1, <1>2
<1>5. PICK l \in ToSet(says.body) : VariableName(n) \in NamesOf(l, "variable")
  <2> HIDE DEF says, V
  <2> QED  BY <1>3, <1>4 DEF RuleIsSafe
<1>6. PICK raw \in ToSet(rule.body) : l = RuleLiteral(r, raw)
  <2> HIDE DEF says, V
  <2> QED  BY <1>1, <1>5
<1>7. PICK x \in ToSet(RawArguments(raw)) : VariableName(n) = VariableName(x)
  BY <1>2, <1>5, <1>6
<1>8. x = n
  BY <1>7 DEF VariableName
<1> QED  BY <1>7, <1>8

(* The names of the sources of a record are those of its theory. *)
LEMMA RepeatedNames ==
  ASSUME NEW r \in Records
  PROVE  LET names == [i \in DOMAIN r.triples |-> r.triples[i].id]
                        \o [i \in DOMAIN r.rules |-> r.rules[i].id]
                        \o <<r.question.id>>
         IN  (\E i, j \in DOMAIN names : i # j /\ names[i] = names[j])
               <=> ~IsInjective(Adapted(r).sources)
<1> DEFINE names == [i \in DOMAIN r.triples |-> r.triples[i].id]
                      \o [i \in DOMAIN r.rules |-> r.rules[i].id]
                      \o <<r.question.id>>
           sources == Adapted(r).sources
<1>1. DOMAIN sources = DOMAIN names /\ \A i \in DOMAIN sources : sources[i] = names[i]
  BY SourcesOf
<1>2. (\E i, j \in DOMAIN names : i # j /\ names[i] = names[j]) <=> ~IsInjective(sources)
  <2> HIDE DEF names, sources
  <2> QED  BY <1>1 DEF IsInjective
<1> QED  BY <1>2

(* The checks of the adapter and of the theory refuse the records with a   *)
(* defect, and no others.                                                  *)
LEMMA RefusedForADefect ==
  ASSUME NEW r \in Records
  PROVE  IsDefective(r) <=> ~(IsConvertible(r) /\ IsValid(Adapted(r)))
<1> DEFINE names == [i \in DOMAIN r.triples |-> r.triples[i].id]
                      \o [i \in DOMAIN r.rules |-> r.rules[i].id]
                      \o <<r.question.id>>
           Repeated == \E i, j \in DOMAIN names : i # j /\ names[i] = names[j]
           Bound == \A rule \in ToSet(r.rules) : HeadIsBound(rule)
<1>1. Repeated <=> ~IsInjective(Adapted(r).sources)
  BY RepeatedNames
<1>2. (\E x \in ToSet(r.rules) : Len(x.body) = 0) <=> HasEmptyBody(r)
  <2>1. ASSUME NEW x \in ToSet(r.rules)
        PROVE  Len(x.body) = 0 <=> x.body = <<>>
    <3>1. r.rules \in Seq([id : Nat, body : Seq(RawLiteral), head : RawLiteral])
      BY RecordsAssumption
    <3>2. x \in [id : Nat, body : Seq(RawLiteral), head : RawLiteral]
      <4>1. PICK i \in DOMAIN r.rules : x = r.rules[i]
        BY DEF ToSet
      <4> QED  BY <3>1, <4>1, ElementOfSeq, LenProperties
    <3>3. x.body \in Seq(RawLiteral)
      BY <3>2
    <3> QED  BY <3>3, EmptySeq
  <2> QED  BY <2>1 DEF HasEmptyBody
<1>3. (\E l \in RawLiterals(r) : RawPredicate(l) \in Hyphenated)
        <=> RawPredicates(r) \cap Hyphenated # {}
  BY DEF RawPredicates
<1>4. (\E l, m \in RawLiterals(r) : RawPredicate(l) = RawPredicate(m) /\ RawArity(l) # RawArity(m))
        <=> RawArityClash(r)
  <2>1. \A l \in RawLiterals(r) : <<RawPredicate(l), RawArity(l)>> \in RawSignatures(r)
    BY DEF RawSignatures
  <2>2. \A s \in RawSignatures(r) :
          \E l \in RawLiterals(r) : s[1] = RawPredicate(l) /\ s[2] = RawArity(l)
    BY DEF RawSignatures
  <2>3. ASSUME NEW l \in RawLiterals(r), NEW m \in RawLiterals(r),
               RawPredicate(l) = RawPredicate(m), RawArity(l) # RawArity(m)
        PROVE  RawArityClash(r)
    <3> DEFINE p == <<RawPredicate(l), RawArity(l)>>
               q == <<RawPredicate(m), RawArity(m)>>
    <3>1. p \in RawSignatures(r) /\ q \in RawSignatures(r) /\ p[1] = q[1] /\ p[2] # q[2]
      BY <2>1, <2>3
    <3> QED  BY <3>1 DEF RawArityClash
  <2>4. ASSUME RawArityClash(r)
        PROVE  \E l, m \in RawLiterals(r) :
                 RawPredicate(l) = RawPredicate(m) /\ RawArity(l) # RawArity(m)
    <3>1. PICK s \in RawSignatures(r), u \in RawSignatures(r) : s[1] = u[1] /\ s[2] # u[2]
      BY <2>4 DEF RawArityClash
    <3> QED  BY <2>2, <3>1
  <2> QED  BY <2>3, <2>4
<1>5. (\E x \in ToSet(r.rules), n \in Pronouns :
         /\ n \in ToSet(RawArguments(x.head))
         /\ \A l \in ToSet(x.body) : n \notin ToSet(RawArguments(l))) <=> ~Bound
  BY DEF HeadIsBound
<1>6. IsDefective(r) <=> \/ ~r.whole \/ HasEmptyBody(r) \/ RawPredicates(r) \cap Hyphenated # {}
                         \/ RawArityClash(r) \/ ~Bound \/ Repeated
  <2> HIDE DEF Bound
  <2> QED  BY <1>2, <1>3, <1>4, <1>5 DEF IsDefective
<1>7. ASSUME ~RawArityClash(r), Bound, ~Repeated  PROVE IsValid(Adapted(r))
  BY <1>1, <1>7, AdaptedIsValid
<1>8. ASSUME IsValid(Adapted(r))  PROVE Bound /\ ~Repeated
  <2> DEFINE t == Adapted(r)
  <2>1. IsInjective(t.sources) /\ \A i \in DOMAIN t.statements : StatementIsValid(t, t.statements[i])
    <3> HIDE DEF t
    <3>1. IsValid(t)
      BY <1>8 DEF t
    <3> QED  BY <3>1 DEF IsValid
  <2>2. ASSUME NEW rule \in ToSet(r.rules)  PROVE HeadIsBound(rule)
    <3>1. t.statements = Statements(r)
      BY DEF Adapted
    <3>2. PICK i \in DOMAIN r.rules : rule = r.rules[i]
      BY DEF ToSet
    <3>3. Len(r.triples) + i \in DOMAIN Statements(r)
          /\ Statements(r)[Len(r.triples) + i] = RuleStatement(r, rule)
      <4>1. i \in 1..Len(r.rules) /\ Len(r.rules) \in Nat /\ Len(r.triples) \in Nat
        BY <3>2, RecordNames
      <4>2. /\ DOMAIN Statements(r) = 1..(Len(r.triples) + Len(r.rules))
            /\ \A k \in 1..Len(r.rules) :
                 Statements(r)[Len(r.triples) + k] = RuleStatement(r, r.rules[k])
        BY StatementsOf
      <4>3. \A a, b \in Nat : \A k \in 1..b : a + k \in 1..(a + b)
        OBVIOUS
      <4>4. Len(r.triples) + i \in 1..(Len(r.triples) + Len(r.rules))
        BY <4>1, <4>3
      <4> QED  BY <3>2, <4>1, <4>2, <4>4
    <3>4. PICK s : s = RuleStatement(r, rule)
      OBVIOUS
    <3>5. StatementIsValid(t, s)
      <4> HIDE DEF t
      <4> QED  BY <2>1, <3>1, <3>3, <3>4
    <3> QED  BY <3>4, <3>5, SafeHeadIsBound
  <2> QED  BY <1>1, <2>1, <2>2
<1> HIDE DEF Bound, Repeated
<1> QED  BY <1>6, <1>7, <1>8 DEF IsConvertible

AdapterInv ==
  /\ record \in Records \cup {NoTheory}
  /\ adapted # NoTheory => record \in Records /\ adapted = Adapted(record)
  /\ record # NoTheory =>
       adapted = IF IsConvertible(record) /\ IsValid(Adapted(record))
                 THEN Adapted(record) ELSE NoTheory

(* Names of the benchmark stay apart when they become identifiers, and a   *)
(* record is refused exactly when it is damaged, has a rule without        *)
(* conditions, a predicate that cannot be normalized, a name with two      *)
(* arities, an unbound pronoun or a repeated name                          *)
(* (reasoning/proofwriter.py).                                             *)
THEOREM Names == IntakeSpec => []NamesStayApart
<1>1. IntakeInit => AdapterInv
  BY DEF IntakeInit, AdapterInit, AdapterInv
<1>2. AdapterInv /\ [IntakeNext]_intakeVars => AdapterInv'
  <2> SUFFICES ASSUME AdapterInv, [IntakeNext]_intakeVars  PROVE AdapterInv'
    OBVIOUS
  <2>1. CASE UNCHANGED <<record, adapted>>
    BY <2>1 DEF AdapterInv
  <2>2. CASE ConvertRecordQuestion
    BY <2>2, NoTheoryAssumption DEF ConvertRecordQuestion, AdapterInv
  <2> QED  BY <2>1, <2>2 DEF IntakeNext, intakeVars, adapterVars
<1>3. ASSUME AdapterInv, adapted # NoTheory, NEW p \in Pairs, NEW q \in Pairs
      PROVE  /\ Meaning(p[1], p[3]) = Meaning(q[1], q[3]) <=> SameAtom(p[2], q[2])
             /\ (p[1].polarity = "+" <=> q[1].polarity = "+")
                  <=> (p[2].negated = q[2].negated)
  <2>1. record \in Records /\ adapted = Adapted(record)
    BY <1>3, Zenon DEF AdapterInv
  <2>2. PICK c \in {"ground", "rule"} : \E l \in LiteralsIn(record, c) :
          p = <<l, ConversionOf(record, l, c), c>>
    BY <2>1, PairsAreConversions
  <2>3. PICK d \in {"ground", "rule"} : \E m \in LiteralsIn(record, d) :
          q = <<m, ConversionOf(record, m, d), d>>
    BY <2>1, PairsAreConversions
  <2>4. PICK l \in LiteralsIn(record, c) : p = <<l, ConversionOf(record, l, c), c>>
    BY <2>2
  <2>5. PICK m \in LiteralsIn(record, d) : q = <<m, ConversionOf(record, m, d), d>>
    BY <2>3
  <2>6. PICK r \in Records : r = record
    BY <2>1
  <2>7. /\ Meaning(l, c) = Meaning(m, d)
              <=> SameAtom(ConversionOf(r, l, c), ConversionOf(r, m, d))
        /\ (l.polarity = "+" <=> m.polarity = "+")
              <=> (ConversionOf(r, l, c).negated = ConversionOf(r, m, d).negated)
    BY <2>6, AtomsApart
  <2> QED  BY <2>4, <2>5, <2>6, <2>7
<1>4. ASSUME AdapterInv, record # NoTheory
      PROVE  adapted = NoTheory <=> IsDefective(record)
  <2>1. PICK r \in Records : r = record
    BY <1>4 DEF AdapterInv
  <2>2. IsDefective(r) <=> ~(IsConvertible(r) /\ IsValid(Adapted(r)))
    BY RefusedForADefect
  <2>3. Adapted(r) # NoTheory
    BY NoTheoryAssumption
  <2> QED  BY <1>4, <2>1, <2>2, <2>3, Zenon DEF AdapterInv
<1>5. AdapterInv => NamesStayApart
  BY <1>3, <1>4 DEF NamesStayApart
<1> QED  BY <1>1, <1>2, <1>5, PTL DEF IntakeSpec

-----------------------------------------------------------------------------
(***************************************************************************)
(* The conversion of a candidate: counting.                                *)
(***************************************************************************)

LEMMA MoreThanOne ==
  ASSUME NEW S, IsFiniteSet(S), NEW x \in S
  PROVE  Cardinality(S) > 1 <=> \E y \in S : y # x
<1>1. /\ IsFiniteSet(S \ {x}) /\ Cardinality(S \ {x}) = Cardinality(S) - 1
      /\ Cardinality(S) \in Nat
  BY FS_RemoveElement, FS_CardinalityType
<1>2. Cardinality(S \ {x}) = 0 <=> S \ {x} = {}
  BY <1>1, FS_EmptySet
<1>3. Cardinality(S \ {x}) \in Nat
  BY <1>1, FS_CardinalityType
<1>4. Cardinality(S) > 1 <=> S \ {x} # {}
  BY <1>1, <1>2, <1>3
<1> QED  BY <1>4

(* A family over 1..n has n values exactly when it has none twice. *)
LEMMA AsManyValues ==
  ASSUME NEW n \in Nat, NEW f, DOMAIN f = 1..n, f = [k \in 1..n |-> f[k]]
  PROVE  /\ IsFiniteSet(Range(f)) /\ Cardinality(Range(f)) <= n
         /\ Cardinality(Range(f)) = n <=> IsInjective(f)
<1>1. IsFiniteSet(1..n) /\ Cardinality(1..n) = n
  BY FS_Interval
<1>2. f \in Surjection(1..n, Range(f))
  BY DEF Surjection, Range
<1>3. f \in Injection(1..n, Range(f)) <=> IsInjective(f)
  BY <1>2 DEF Injection, Surjection, IsInjective
<1> QED  BY <1>1, <1>2, <1>3, FS_Surjection

(* A candidate that covers the request: every sentence is told once, as    *)
(* what it is.                                                             *)
Covers(r, c) ==
  /\ \A k \in DOMAIN c : c[k].source \in DOMAIN r /\ c[k].says.kind = r[c[k].source].kind
  /\ \A i \in DOMAIN r : \E k \in DOMAIN c : c[k].source = i
  /\ \A k, m \in DOMAIN c : c[k].source = c[m].source => k = m

LEMMA RequestShape ==
  ASSUME NEW r \in Requests, NEW c \in Candidates
  PROVE  /\ Len(r) \in Nat /\ DOMAIN r = 1..Len(r) /\ Len(r) # 0
         /\ Len(c) \in Nat /\ DOMAIN c = 1..Len(c) /\ c = [k \in 1..Len(c) |-> c[k]]
         /\ c = <<>> <=> Len(c) = 0
<1>1. r \in Seq(ToSet(r)) /\ r # <<>> /\ c \in Seq(ToSet(c))
  BY CandidatesAssumption
<1> QED  BY <1>1, LenProperties, EmptySeq

LEMMA Coverage ==
  ASSUME NEW r \in Requests, NEW c \in Candidates
  PROVE  CoverageIssues(r, c) = {} <=> Covers(r, c)
<1>1. ASSUME NEW k \in DOMAIN c
      PROVE  Cardinality(Mentions(c, c[k].source)) > 1
               <=> \E m \in DOMAIN c : m # k /\ c[m].source = c[k].source
  <2>1. IsFiniteSet(DOMAIN c)
    <3>1. PICK n : n = Len(c)
      OBVIOUS
    <3>2. n \in Nat /\ DOMAIN c = 1..n
      BY <3>1, RequestShape
    <3>3. IsFiniteSet(1..n)
      BY <3>2, FS_Interval
    <3> QED  BY <3>2, <3>3
  <2>2. IsFiniteSet(Mentions(c, c[k].source)) /\ k \in Mentions(c, c[k].source)
    BY <2>1, FS_Subset DEF Mentions
  <2> QED  BY <2>2, MoreThanOne DEF Mentions
<1>2. ASSUME CoverageIssues(r, c) = {}  PROVE Covers(r, c)
  <2>1. ASSUME NEW k \in DOMAIN c
        PROVE  c[k].source \in DOMAIN r /\ c[k].says.kind = r[c[k].source].kind
    BY <1>2, <2>1 DEF CoverageIssues, Sources
  <2>2. \A i \in DOMAIN r : \E k \in DOMAIN c : c[k].source = i
    <3>1. ASSUME NEW i \in DOMAIN r, i \notin Sources(c)
          PROVE  FALSE
      <4>1. <<"MISSING_SOURCE", i>> \in {<<"MISSING_SOURCE", s>> : s \in DOMAIN r \ Sources(c)}
        BY <3>1
      <4> QED  BY <1>2, <4>1 DEF CoverageIssues
    <3> QED  BY <3>1 DEF Sources
  <2>3. ASSUME NEW k \in DOMAIN c, NEW m \in DOMAIN c, c[k].source = c[m].source
        PROVE  k = m
    <3>1. ~(Cardinality(Mentions(c, c[k].source)) > 1)
      BY <1>2 DEF CoverageIssues, Sources
    <3> QED  BY <1>1, <2>3, <3>1
  <2> QED  BY <2>1, <2>2, <2>3 DEF Covers
<1>3. ASSUME Covers(r, c)  PROVE CoverageIssues(r, c) = {}
  <2>1. DOMAIN r \ Sources(c) = {} /\ Sources(c) \ DOMAIN r = {}
    BY <1>3 DEF Covers, Sources
  <2>2. {x \in Sources(c) : Cardinality(Mentions(c, x)) > 1} = {}
    BY <1>1, <1>3 DEF Covers, Sources
  <2>3. {x \in DOMAIN c : c[x].source \in DOMAIN r /\ c[x].says.kind # r[c[x].source].kind} = {}
    BY <1>3 DEF Covers
  <2> QED  BY <2>1, <2>2, <2>3 DEF CoverageIssues
<1> QED  BY <1>2, <1>3

(* A candidate that covers the request has a statement for each sentence;  *)
(* one as long as the request that has one for each sentence covers it.    *)
LEMMA CoversByCounting ==
  ASSUME NEW r \in Requests, NEW c \in Candidates
  PROVE  /\ Covers(r, c) => Len(c) = Len(r)
         /\ /\ Len(c) = Len(r)
            /\ \A i \in DOMAIN r : \E k \in DOMAIN c :
                 c[k].source = i /\ c[k].says.kind = r[i].kind
            => Covers(r, c)
<1> DEFINE f == [k \in 1..Len(c) |-> c[k].source]
<1>1. /\ DOMAIN f = 1..Len(c) /\ f = [k \in 1..Len(c) |-> f[k]]
      /\ \A k \in 1..Len(c) : f[k] = c[k].source
      /\ Len(r) \in Nat /\ DOMAIN r = 1..Len(r) /\ Len(c) \in Nat /\ DOMAIN c = 1..Len(c)
  BY RequestShape
<1> HIDE DEF f
<1>2. /\ IsFiniteSet(Range(f)) /\ Cardinality(Range(f)) <= Len(c)
      /\ Cardinality(Range(f)) = Len(c) <=> IsInjective(f)
  BY <1>1, AsManyValues
<1>3. IsFiniteSet(DOMAIN r) /\ Cardinality(DOMAIN r) = Len(r)
  <2>1. PICK n : n = Len(r)
    OBVIOUS
  <2>2. n \in Nat /\ DOMAIN r = 1..n
    BY <1>1, <2>1
  <2>3. IsFiniteSet(1..n) /\ Cardinality(1..n) = n
    BY <2>2, FS_Interval
  <2> QED  BY <2>1, <2>2, <2>3
<1>4. ASSUME Covers(r, c)  PROVE Len(c) = Len(r)
  <2>1. Range(f) = DOMAIN r /\ IsInjective(f)
    BY <1>1, <1>4 DEF Covers, Range, IsInjective
  <2> QED  BY <1>2, <1>3, <2>1
<1>5. ASSUME Len(c) = Len(r),
             \A i \in DOMAIN r : \E k \in DOMAIN c :
               c[k].source = i /\ c[k].says.kind = r[i].kind
      PROVE  Covers(r, c)
  <2>1. ASSUME NEW i \in DOMAIN r  PROVE i \in Range(f)
    <3>1. PICK k \in DOMAIN c : c[k].source = i
      BY <1>5
    <3>2. k \in DOMAIN f /\ f[k] = i
      BY <1>1, <3>1
    <3> QED  BY <3>2 DEF Range
  <2>2. Cardinality(DOMAIN r) <= Cardinality(Range(f))
        /\ (Cardinality(DOMAIN r) = Cardinality(Range(f)) => DOMAIN r = Range(f))
    BY <1>2, <2>1, FS_Subset
  <2>3. Cardinality(Range(f)) = Len(r) /\ DOMAIN r = Range(f) /\ IsInjective(f)
    <3>1. Cardinality(Range(f)) \in Nat
      BY <1>2, FS_CardinalityType
    <3> QED  BY <1>1, <1>2, <1>3, <1>5, <2>2, <3>1
  <2>4. ASSUME NEW k \in DOMAIN c
        PROVE  c[k].source \in DOMAIN r /\ c[k].says.kind = r[c[k].source].kind
    <3>1. c[k].source \in DOMAIN r
      BY <1>1, <2>3 DEF Range
    <3>2. PICK m \in DOMAIN c : c[m].source = c[k].source
                                  /\ c[m].says.kind = r[c[k].source].kind
      BY <1>5, <3>1
    <3>3. m = k
      BY <1>1, <2>3, <3>2 DEF IsInjective
    <3> QED  BY <3>1, <3>2, <3>3
  <2>5. \A k, m \in DOMAIN c : c[k].source = c[m].source => k = m
    BY <1>1, <2>3 DEF IsInjective
  <2> QED  BY <1>5, <2>4, <2>5 DEF Covers
<1> QED  BY <1>4, <1>5

-----------------------------------------------------------------------------
(***************************************************************************)
(* The conversion of a candidate: what makes a theory of it.               *)
(***************************************************************************)

SourceNames(r) == [i \in DOMAIN r |-> NameOf(r, i)]

EntitiesOf(c) == UNION {NamesOf(l, "entity") : l \in CandidateLiterals(c)}

(* The sources of a theory: the names of the sentences and one more. *)
LEMMA AppendedNames ==
  ASSUME NEW r \in Requests, NEW x
  PROVE  LET s == Append(SourceNames(r), x) IN
         /\ ToSet(s) = {NameOf(r, i) : i \in DOMAIN r} \cup {x}
         /\ IsInjective(s) <=> /\ IsInjective(SourceNames(r))
                              /\ x \notin {NameOf(r, i) : i \in DOMAIN r}
<1> DEFINE f == SourceNames(r)
           s == Append(f, x)
           S == ToSet(f) \cup {x}
<1>1. PICK n : n = Len(r)
  OBVIOUS
<1>2. n \in Nat /\ DOMAIN r = 1..n
  BY <1>1, CandidatesAssumption, LenProperties
<1>3. /\ DOMAIN f = 1..n /\ f = [i \in 1..n |-> f[i]]
      /\ \A i \in 1..n : f[i] = NameOf(r, i)
  BY <1>2 DEF SourceNames
<1>4. (\A i \in 1..n : f[i] \in S) /\ x \in S
  BY <1>3 DEF ToSet
<1> HIDE DEF f, S
<1>5. f \in Seq(S) /\ Len(f) = n
  BY <1>2, <1>3, <1>4, IndexedIsASeq
<1>6. /\ s \in Seq(S) /\ Len(s) = n + 1 /\ s[n + 1] = x
      /\ \A i \in 1..n : s[i] = f[i]
  BY <1>4, <1>5, AppendProperties
<1>7. DOMAIN s = 1..(n + 1)
  BY <1>6, LenProperties
<1> HIDE DEF s
<1>8. ToSet(s) = {NameOf(r, i) : i \in DOMAIN r} \cup {x}
  <2>1. ASSUME NEW y \in ToSet(s)  PROVE y \in {NameOf(r, i) : i \in DOMAIN r} \cup {x}
    <3>1. PICK i \in 1..(n + 1) : y = s[i]
      BY <1>7 DEF ToSet
    <3>2. i \in 1..n \/ i = n + 1
      BY <1>2
    <3> QED  BY <1>2, <1>3, <1>6, <3>1, <3>2
  <2>2. ASSUME NEW i \in DOMAIN r  PROVE NameOf(r, i) \in ToSet(s)
    <3>1. i \in 1..(n + 1) /\ s[i] = NameOf(r, i)
      BY <1>2, <1>3, <1>6
    <3> QED  BY <1>7, <3>1 DEF ToSet
  <2>3. x \in ToSet(s)
    <3>1. n + 1 \in 1..(n + 1)
      BY <1>2
    <3> QED  BY <1>6, <1>7, <3>1 DEF ToSet
  <2> QED  BY <2>1, <2>2, <2>3
<1>9. ASSUME IsInjective(s)
      PROVE  IsInjective(f) /\ x \notin {NameOf(r, i) : i \in DOMAIN r}
  <2>1. \A i \in 1..n : i \in 1..(n + 1) /\ n + 1 \in 1..(n + 1) /\ i # n + 1
    BY <1>2
  <2>2. IsInjective(f)
    BY <1>3, <1>6, <1>7, <1>9, <2>1 DEF IsInjective
  <2>3. ASSUME NEW i \in DOMAIN r, x = NameOf(r, i)  PROVE FALSE
    <3>1. i \in 1..n /\ s[i] = s[n + 1]
      BY <1>2, <1>3, <1>6, <2>3
    <3> QED  BY <1>7, <1>9, <2>1, <3>1 DEF IsInjective
  <2> QED  BY <2>2, <2>3
<1>10. ASSUME IsInjective(f), x \notin {NameOf(r, i) : i \in DOMAIN r}
       PROVE  IsInjective(s)
  <2> SUFFICES ASSUME NEW i \in 1..(n + 1), NEW j \in 1..(n + 1), s[i] = s[j]
               PROVE  i = j
    BY <1>7 DEF IsInjective
  <2>1. (i \in 1..n \/ i = n + 1) /\ (j \in 1..n \/ j = n + 1)
    BY <1>2
  <2>2. \A k \in 1..n : s[k] # x
    BY <1>2, <1>3, <1>6, <1>10
  <2> QED  BY <1>3, <1>6, <1>10, <2>1, <2>2 DEF IsInjective
<1> QED  BY <1>8, <1>9, <1>10 DEF f, s

LEMMA Families ==
  ASSUME NEW S
  PROVE  /\ Range(Family(S)) = S /\ IsInjective(Family(S))
         /\ \A x : Range(With(Family(S), x)) = S \cup {x}
         /\ \A x : x \notin S => IsInjective(With(Family(S), x))
<1>1. /\ DOMAIN Family(S) = S \X {"declared"}
      /\ \A k \in S \X {"declared"} : Family(S)[k] = k[1]
  BY DEF Family
<1>2. Range(Family(S)) = S
  <2>1. \A y \in S : <<y, "declared">> \in DOMAIN Family(S) /\ Family(S)[<<y, "declared">>] = y
    BY <1>1
  <2>2. \A k \in DOMAIN Family(S) : Family(S)[k] \in S
    BY <1>1
  <2> QED  BY <2>1, <2>2 DEF Range
<1>3. IsInjective(Family(S))
  BY <1>1 DEF IsInjective
<1>4. ASSUME NEW x
      PROVE  /\ Range(With(Family(S), x)) = S \cup {x}
             /\ x \notin S => IsInjective(With(Family(S), x))
  <2> DEFINE w == With(Family(S), x)
             p == <<x, "probe">>
  <2>1. p \notin DOMAIN Family(S)
    BY <1>1
  <2>2. DOMAIN w = DOMAIN Family(S) \cup {p} /\ w[p] = x
        /\ \A k \in DOMAIN Family(S) : w[k] = Family(S)[k]
    BY <2>1 DEF With
  <2> HIDE DEF w, p
  <2>3. Range(w) = S \cup {x}
    BY <1>2, <2>2 DEF Range
  <2>4. x \notin S => IsInjective(w)
    BY <1>2, <1>3, <2>2 DEF IsInjective, Range
  <2> QED  BY <2>3, <2>4 DEF w
<1> QED  BY <1>2, <1>3, <1>4

(* What is asked of the variables of a statement comes to what a valid     *)
(* theory checks.                                                          *)
LEMMA Binding ==
  ASSUME NEW c \in Candidates, NEW k \in DOMAIN c
  PROVE  BindsItsVariables(c[k].says)
           <=> /\ IsInjective(c[k].says.variables)
               /\ \A l \in LiteralsOf(c[k].says) :
                    NamesOf(l, "variable") \subseteq Range(c[k].says.variables)
               /\ c[k].says.kind = "rule" => RuleIsSafe(c[k].says)
<1> DEFINE says == c[k].says
           bound == UNION {NamesOf(l, "variable") : l \in ToSet(says.body)}
<1>1. /\ says.kind \in {"fact", "rule"}
      /\ says.kind = "fact" => says.variables = <<>> /\ says.body = <<>>
  BY CandidatesAssumption
<1>2. BindsItsVariables(says)
        <=> /\ bound \subseteq Range(says.variables)
            /\ NamesOf(says.head, "variable") \subseteq Range(says.variables)
            /\ NamesOf(says.head, "variable") \subseteq bound
            /\ IsInjective(says.variables)
  BY DEF BindsItsVariables
<1>3. RuleIsSafe(says) <=> NamesOf(says.head, "variable") \subseteq bound
  BY DEF RuleIsSafe
<1>4. (\A l \in LiteralsOf(says) : NamesOf(l, "variable") \subseteq Range(says.variables))
        <=> /\ bound \subseteq Range(says.variables)
            /\ NamesOf(says.head, "variable") \subseteq Range(says.variables)
  BY DEF LiteralsOf
<1>5. says.kind = "fact" => Range(says.variables) = {}
  BY <1>1 DEF Range
<1> HIDE DEF says, bound
<1>6. BindsItsVariables(says)
        <=> /\ IsInjective(says.variables)
            /\ \A l \in LiteralsOf(says) : NamesOf(l, "variable") \subseteq Range(says.variables)
            /\ says.kind = "rule" => RuleIsSafe(says)
  BY <1>1, <1>2, <1>3, <1>4, <1>5
<1> QED  BY <1>6 DEF says

LEMMA OneArity ==
  ASSUME NEW L
  PROVE  /\ UsesOneArity(L) <=> ~ArityClash(Signatures(L))
         /\ \A p, q \in Signatures(L) : ~ArityClash(Signatures(L)) /\ p[1] = q[1] => p = q
         /\ \A l \in L : Signature(l) \in Signatures(L) /\ Signature(l)[1] = l.predicate
         /\ \A p \in Signatures(L) : \E l \in L : p[1] = l.predicate
<1>1. \A l \in L : /\ Signature(l) \in Signatures(L)
                   /\ Signature(l)[1] = l.predicate /\ Signature(l)[2] = Arity(l)
  BY DEF Signatures, Signature
<1>2. \A p \in Signatures(L) : \E l \in L : p = <<l.predicate, Arity(l)>>
  BY DEF Signatures, Signature
<1>3. UsesOneArity(L) => ~ArityClash(Signatures(L))
  BY <1>2 DEF UsesOneArity, ArityClash
<1>4. ~ArityClash(Signatures(L)) => UsesOneArity(L)
  BY <1>1 DEF UsesOneArity, ArityClash
<1>5. \A p, q \in Signatures(L) : ~ArityClash(Signatures(L)) /\ p[1] = q[1] => p = q
  BY <1>2 DEF ArityClash
<1> QED  BY <1>1, <1>2, <1>3, <1>4, <1>5

LEMMA PredicatesApart ==
  ASSUME NEW L, ~ArityClash(Signatures(L)), NEW t
  PROVE  /\ t.predicates = Family(Signatures(L)) => IsInjective(PredicateNames(t))
         /\ \A x : /\ t.predicates = With(Family(Signatures(L)), x)
                   /\ \A l \in L : l.predicate # x[1]
                   => IsInjective(PredicateNames(t))
<1> DEFINE S == Signatures(L)
<1>1. \A p, q \in S : p[1] = q[1] => p = q
  BY OneArity
<1>2. /\ DOMAIN PredicateNames(t) = DOMAIN t.predicates
      /\ \A k \in DOMAIN t.predicates : PredicateNames(t)[k] = t.predicates[k][1]
  BY DEF PredicateNames
<1>3. \A k \in DOMAIN t.predicates : t.predicates[k] \in Range(t.predicates)
  BY DEF Range
<1> HIDE DEF S
<1>4. CASE t.predicates = Family(S)
  <2>1. Range(t.predicates) = S /\ IsInjective(t.predicates)
    BY <1>4, Families
  <2> QED  BY <1>1, <1>2, <1>3, <2>1 DEF IsInjective
<1>5. ASSUME NEW x, t.predicates = With(Family(S), x), \A l \in L : l.predicate # x[1]
      PROVE  IsInjective(PredicateNames(t))
  <2>1. \A p \in S : p[1] # x[1]
    BY <1>5, OneArity DEF S
  <2>2. x \notin S
    BY <2>1
  <2>3. Range(t.predicates) = S \cup {x} /\ IsInjective(t.predicates)
    BY <1>5, <2>2, Families
  <2>4. \A p, q \in S \cup {x} : p[1] = q[1] => p = q
    BY <1>1, <2>1
  <2> QED  BY <1>2, <1>3, <2>3, <2>4 DEF IsInjective
<1> QED  BY <1>4, <1>5 DEF S

(* The statements of a converted candidate in a theory that declares what  *)
(* they use.                                                               *)
LEMMA StatementsOfBody ==
  ASSUME NEW r \in Requests, NEW c \in Candidates, Covers(r, c), NEW t,
         t.statements = Body(r, c).statements
  PROVE  /\ IsInjective(SourceNames(r)) => IsInjective(RuleNames(t))
         /\ /\ {NameOf(r, i) : i \in DOMAIN r} \subseteq ToSet(t.sources)
            /\ Signatures(CandidateLiterals(c)) \subseteq Range(t.predicates)
            /\ EntitiesOf(c) \subseteq Range(t.entities)
            => ((\A k \in DOMAIN t.statements : StatementIsValid(t, t.statements[k]))
                  <=> \A k \in DOMAIN c : BindsItsVariables(c[k].says))
<1>1. /\ DOMAIN t.statements = DOMAIN c
      /\ \A k \in DOMAIN c : t.statements[k] = [source |-> NameOf(r, c[k].source),
                                               says |-> c[k].says]
  BY DEF Body
<1>2. /\ DOMAIN t.statements = DOMAIN c
      /\ \A k \in DOMAIN c : /\ t.statements[k].source = NameOf(r, c[k].source)
                            /\ t.statements[k].says = c[k].says
  <2> HIDE DEF Covers
  <2>1. ASSUME NEW k \in DOMAIN c
        PROVE  /\ t.statements[k].source = NameOf(r, c[k].source)
               /\ t.statements[k].says = c[k].says
    <3>1. t.statements[k] = [source |-> NameOf(r, c[k].source), says |-> c[k].says]
      BY <1>1
    <3> QED  BY <3>1
  <2> QED  BY <1>1, <2>1
<1>3. ASSUME IsInjective(SourceNames(r))  PROVE IsInjective(RuleNames(t))
  <2>1. \A k, m \in DOMAIN c : NameOf(r, c[k].source) = NameOf(r, c[m].source) => k = m
    BY <1>3 DEF Covers, IsInjective, SourceNames
  <2>2. /\ DOMAIN RuleNames(t) \subseteq DOMAIN c
        /\ \A k \in DOMAIN RuleNames(t) : RuleNames(t)[k] = NameOf(r, c[k].source)
    <3>1. /\ DOMAIN RuleNames(t) \subseteq DOMAIN t.statements
          /\ \A k \in DOMAIN RuleNames(t) : RuleNames(t)[k] = t.statements[k].source
      BY DEF RuleNames
    <3> HIDE DEF Covers
    <3> QED  BY <1>2, <3>1
  <2> QED  BY <2>1, <2>2 DEF IsInjective
<1>4. ASSUME {NameOf(r, i) : i \in DOMAIN r} \subseteq ToSet(t.sources),
             Signatures(CandidateLiterals(c)) \subseteq Range(t.predicates),
             EntitiesOf(c) \subseteq Range(t.entities),
             NEW k \in DOMAIN c
      PROVE  StatementIsValid(t, t.statements[k]) <=> BindsItsVariables(c[k].says)
  <2> DEFINE says == c[k].says
  <2>1. t.statements[k].source \in ToSet(t.sources) /\ t.statements[k].says = says
        /\ (IsRule(t.statements[k]) <=> says.kind = "rule")
    <3>1. c[k].source \in DOMAIN r
      BY DEF Covers
    <3>2. NameOf(r, c[k].source) \in ToSet(t.sources)
      BY <1>4, <3>1
    <3> QED  BY <1>2, <3>2 DEF IsRule
  <2>2. ASSUME NEW l \in LiteralsOf(says)
        PROVE  /\ Signature(l) \in Range(t.predicates)
               /\ NamesOf(l, "entity") \subseteq Range(t.entities)
    <3>1. l \in CandidateLiterals(c)
      BY DEF CandidateLiterals
    <3> QED  BY <1>4, <3>1 DEF Signatures, EntitiesOf
  <2>3. (\A l \in LiteralsOf(says) : LiteralIsDeclared(t, l, Range(says.variables)))
          <=> \A l \in LiteralsOf(says) : NamesOf(l, "variable") \subseteq Range(says.variables)
    BY <2>2 DEF LiteralIsDeclared
  <2>4. StatementIsValid(t, t.statements[k])
          <=> /\ IsInjective(says.variables)
              /\ \A l \in LiteralsOf(says) : NamesOf(l, "variable") \subseteq Range(says.variables)
              /\ says.kind = "rule" => RuleIsSafe(says)
    BY <2>1, <2>3 DEF StatementIsValid
  <2> QED  BY <2>4, Binding
<1> QED  BY <1>2, <1>3, <1>4

LEMMA BodyParts ==
  ASSUME NEW r, NEW c
  PROVE  LET b == Body(r, c) IN
         /\ b.sources = SourceNames(r)
         /\ b.entities = Family(EntitiesOf(c)) /\ Range(b.entities) = EntitiesOf(c)
         /\ b.predicates = Family(Signatures(CandidateLiterals(c)))
         /\ Range(b.predicates) = Signatures(CandidateLiterals(c))
BY Families DEF Body, SourceNames, EntitiesOf

(* The probe: the theory the converted body is checked as is valid when    *)
(* the names are apart and the statements bind their variables, unless a   *)
(* name of the probe is used.                                              *)
LEMMA ProbedIsValid ==
  ASSUME NEW r \in Requests, NEW c \in Candidates, Covers(r, c),
         ~ArityClash(Signatures(CandidateLiterals(c))),
         IsInjective(SourceNames(r)),
         \A k \in DOMAIN c : BindsItsVariables(c[k].says),
         ProbeSource \notin {NameOf(r, i) : i \in DOMAIN r},
         \A l \in CandidateLiterals(c) : l.predicate # ProbePredicate,
         ProbeEntity \notin EntitiesOf(c)
  PROVE  IsValid(Probed(Body(r, c)))
<1> DEFINE b == Body(r, c)
           t == Probed(b)
           S == Signatures(CandidateLiterals(c))
           probe == <<ProbePredicate, 1>>
           asked == [predicate |-> ProbePredicate, terms |-> <<Entity(ProbeEntity)>>,
                     negated |-> FALSE]
<1>1. /\ t.sources = Append(SourceNames(r), ProbeSource)
      /\ t.entities = With(Family(EntitiesOf(c)), ProbeEntity)
      /\ t.predicates = With(Family(S), probe)
      /\ t.statements = b.statements
      /\ t.query.literal = asked /\ t.query.source = ProbeSource
  BY BodyParts DEF Probed
<1>2. /\ Signature(asked) = probe
      /\ NamesOf(asked, "entity") = {ProbeEntity} /\ NamesOf(asked, "variable") = {}
  BY DEF Signature, Arity, NamesOf, Terms, Entity
<1> HIDE DEF b, t, S, probe, asked
<1>3. /\ ToSet(t.sources) = {NameOf(r, i) : i \in DOMAIN r} \cup {ProbeSource}
      /\ IsInjective(t.sources)
  BY <1>1, AppendedNames
<1>4. Range(t.entities) = EntitiesOf(c) \cup {ProbeEntity} /\ IsInjective(t.entities)
  BY <1>1, Families
<1>5. Range(t.predicates) = S \cup {probe}
  BY <1>1, Families
<1>6. IsInjective(PredicateNames(t))
  <2>1. probe[1] = ProbePredicate
    BY DEF probe
  <2>2. \A l \in CandidateLiterals(c) : l.predicate # probe[1]
    BY <2>1
  <2> QED  BY <1>1, <2>2, PredicatesApart DEF S
<1>7. /\ IsInjective(RuleNames(t))
      /\ \A k \in DOMAIN t.statements : StatementIsValid(t, t.statements[k])
  BY <1>1, <1>3, <1>4, <1>5, StatementsOfBody DEF b, S
<1>8. LiteralIsDeclared(t, t.query.literal, {}) /\ t.query.source \in ToSet(t.sources)
  BY <1>1, <1>2, <1>3, <1>4, <1>5 DEF LiteralIsDeclared
<1>9. IsValid(t)
  BY <1>3, <1>4, <1>6, <1>7, <1>8 DEF IsValid
<1> QED  BY <1>9 DEF t, b

LEMMA ProbedTells ==
  ASSUME NEW r \in Requests, NEW c \in Candidates, Covers(r, c),
         IsValid(Probed(Body(r, c)))
  PROVE  /\ IsInjective(SourceNames(r))
         /\ \A k \in DOMAIN c : BindsItsVariables(c[k].says)
<1> DEFINE b == Body(r, c)
           t == Probed(b)
           S == Signatures(CandidateLiterals(c))
           probe == <<ProbePredicate, 1>>
<1>1. /\ t.sources = Append(SourceNames(r), ProbeSource)
      /\ t.entities = With(Family(EntitiesOf(c)), ProbeEntity)
      /\ t.predicates = With(Family(S), probe)
      /\ t.statements = b.statements
  BY BodyParts DEF Probed
<1>2. /\ IsInjective(t.sources)
      /\ \A k \in DOMAIN t.statements : StatementIsValid(t, t.statements[k])
  BY DEF IsValid
<1> HIDE DEF b, t, S, probe
<1>3. /\ {NameOf(r, i) : i \in DOMAIN r} \subseteq ToSet(t.sources)
      /\ IsInjective(SourceNames(r))
  BY <1>1, <1>2, AppendedNames
<1>4. S \subseteq Range(t.predicates) /\ EntitiesOf(c) \subseteq Range(t.entities)
  BY <1>1, Families
<1>5. \A k \in DOMAIN c : BindsItsVariables(c[k].says)
  BY <1>1, <1>2, <1>3, <1>4, StatementsOfBody DEF b, S
<1> QED  BY <1>3, <1>5

(* The signatures of the theory with its query. *)
LEMMA AskedSignatures ==
  ASSUME NEW r, NEW c, NEW q
  PROVE  Range(Body(r, c).predicates) \cup {Signature(q.literal)}
           = Signatures(CandidateLiterals(c) \cup {q.literal})
<1>1. Signatures(CandidateLiterals(c)) \cup {Signature(q.literal)}
        = Signatures(CandidateLiterals(c) \cup {q.literal})
  BY DEF Signatures
<1> QED  BY <1>1, BodyParts

LEMMA CombinedIsValid ==
  ASSUME NEW r \in Requests, NEW c \in Candidates, Covers(r, c),
         NEW q \in [literal : Questions, source : QueryNames],
         ~ArityClash(Signatures(CandidateLiterals(c) \cup {q.literal})),
         IsInjective(SourceNames(r)),
         \A k \in DOMAIN c : BindsItsVariables(c[k].says),
         q.source \notin {NameOf(r, i) : i \in DOMAIN r}
  PROVE  IsValid(Combined(Body(r, c), q))
<1> DEFINE b == Body(r, c)
           t == Combined(b, q)
           literals == CandidateLiterals(c) \cup {q.literal}
<1>1. /\ t.sources = Append(SourceNames(r), q.source)
      /\ t.entities = Family(EntitiesOf(c) \cup NamesOf(q.literal, "entity"))
      /\ t.predicates = Family(Signatures(literals))
      /\ t.statements = b.statements /\ t.query = q
  <2>1. Range(b.predicates) \cup {Signature(q.literal)} = Signatures(literals)
    BY AskedSignatures
  <2>2. b.sources = SourceNames(r) /\ Range(b.entities) = EntitiesOf(c)
    BY BodyParts
  <2> HIDE DEF b, literals
  <2> QED  BY <2>1, <2>2 DEF Combined
<1>2. NamesOf(q.literal, "variable") = {}
  BY CandidatesAssumption
<1>3. /\ Signatures(CandidateLiterals(c)) \subseteq Signatures(literals)
      /\ Signature(q.literal) \in Signatures(literals)
  BY DEF Signatures
<1> HIDE DEF b, t, literals
<1>4. /\ ToSet(t.sources) = {NameOf(r, i) : i \in DOMAIN r} \cup {q.source}
      /\ IsInjective(t.sources)
  BY <1>1, AppendedNames
<1>5. /\ Range(t.entities) = EntitiesOf(c) \cup NamesOf(q.literal, "entity")
      /\ IsInjective(t.entities)
      /\ Range(t.predicates) = Signatures(literals)
  BY <1>1, Families
<1>6. IsInjective(PredicateNames(t))
  BY <1>1, PredicatesApart DEF literals
<1>7. /\ IsInjective(RuleNames(t))
      /\ \A k \in DOMAIN t.statements : StatementIsValid(t, t.statements[k])
  <2>1. /\ {NameOf(r, i) : i \in DOMAIN r} \subseteq ToSet(t.sources)
        /\ Signatures(CandidateLiterals(c)) \subseteq Range(t.predicates)
        /\ EntitiesOf(c) \subseteq Range(t.entities)
        /\ t.statements = Body(r, c).statements
    BY <1>1, <1>3, <1>4, <1>5 DEF b
  <2> QED  BY <2>1, StatementsOfBody
<1>8. LiteralIsDeclared(t, t.query.literal, {}) /\ t.query.source \in ToSet(t.sources)
  BY <1>1, <1>2, <1>3, <1>4, <1>5 DEF LiteralIsDeclared
<1>9. IsValid(t)
  BY <1>4, <1>5, <1>6, <1>7, <1>8 DEF IsValid
<1> QED  BY <1>9 DEF t, b

(* The feedback on a candidate for the theory, and for the query. *)
LEMMA TheoryAccepted ==
  ASSUME NEW r \in Requests, NEW c \in Candidates, TheoryIssues(r, c) = {}
  PROVE  /\ Covers(r, c)
         /\ ~ArityClash(Signatures(CandidateLiterals(c)))
         /\ IsInjective(SourceNames(r))
         /\ \A k \in DOMAIN c : BindsItsVariables(c[k].says)
<1>1. c # <<>>
  BY DEF TheoryIssues
<1>2. CoverageIssues(r, c) = {}
  BY <1>1 DEF TheoryIssues
<1>3. ~ArityClash(Signatures(CandidateLiterals(c)))
  BY <1>1, <1>2 DEF TheoryIssues
<1>4. IsValid(Probed(Body(r, c)))
  BY <1>1, <1>2, <1>3 DEF TheoryIssues
<1> QED  BY <1>2, <1>3, <1>4, Coverage, ProbedTells

LEMMA TheoryRefused ==
  ASSUME NEW r \in Requests, NEW c \in Candidates, TheoryIssues(r, c) # {},
         Covers(r, c),
         ~ArityClash(Signatures(CandidateLiterals(c))),
         IsInjective(SourceNames(r)),
         \A k \in DOMAIN c : BindsItsVariables(c[k].says)
  PROVE  \/ ProbeSource \in {NameOf(r, i) : i \in DOMAIN r}
         \/ \E l \in CandidateLiterals(c) :
              l.predicate = ProbePredicate \/ ProbeEntity \in NamesOf(l, "entity")
<1>1. c # <<>>
  <2>1. Len(c) = Len(r) /\ Len(r) # 0
    BY CoversByCounting, RequestShape
  <2> QED  BY <2>1, RequestShape
<1>2. CoverageIssues(r, c) = {}
  BY Coverage
<1>3. ~IsValid(Probed(Body(r, c)))
  BY <1>1, <1>2 DEF TheoryIssues
<1>4. SUFFICES ASSUME \A l \in CandidateLiterals(c) :
                        l.predicate # ProbePredicate /\ ProbeEntity \notin NamesOf(l, "entity"),
                      ProbeSource \notin {NameOf(r, i) : i \in DOMAIN r}
               PROVE  FALSE
  OBVIOUS
<1>5. ProbeEntity \notin EntitiesOf(c)
  BY <1>4 DEF EntitiesOf
<1> QED  BY <1>3, <1>4, <1>5, ProbedIsValid

LEMMA QueryAccepted ==
  ASSUME NEW r \in Requests, NEW c \in Candidates, TheoryIssues(r, c) = {},
         NEW q \in [literal : Questions, source : QueryNames]
  PROVE  QueryIssues(Body(r, c), q) = {}
           <=> /\ UsesOneArity(CandidateLiterals(c) \cup {q.literal})
               /\ q.source \notin {NameOf(r, i) : i \in DOMAIN r}
<1> DEFINE b == Body(r, c)
           clash == ArityClash(Signatures(CandidateLiterals(c) \cup {q.literal}))
<1>1. QueryIssues(b, q) = {} <=> ~clash /\ IsValid(Combined(b, q))
  <2>1. Range(b.predicates) \cup {Signature(q.literal)}
          = Signatures(CandidateLiterals(c) \cup {q.literal})
    BY AskedSignatures
  <2> HIDE DEF b
  <2> QED  BY <2>1 DEF QueryIssues
<1>2. ~clash <=> UsesOneArity(CandidateLiterals(c) \cup {q.literal})
  BY OneArity
<1>3. ~clash /\ q.source \notin {NameOf(r, i) : i \in DOMAIN r} => IsValid(Combined(b, q))
  BY TheoryAccepted, CombinedIsValid
<1>4. ASSUME IsValid(Combined(b, q))
      PROVE  q.source \notin {NameOf(r, i) : i \in DOMAIN r}
  <2>1. Combined(b, q).sources = Append(SourceNames(r), q.source)
    BY BodyParts DEF Combined
  <2>2. IsInjective(Append(SourceNames(r), q.source))
    BY <1>4, <2>1 DEF IsValid
  <2> QED  BY <2>2, AppendedNames
<1> QED  BY <1>1, <1>2, <1>3, <1>4

(* A body tells each sentence of the request once. *)
Tells(r, c, s) ==
  /\ Len(s) = Len(r) /\ DOMAIN s = DOMAIN c
  /\ \A k \in DOMAIN c : s[k] = [source |-> NameOf(r, c[k].source), says |-> c[k].says]
  /\ \A i \in DOMAIN r : \E k \in DOMAIN s :
       /\ s[k] = [source |-> NameOf(r, i), says |-> c[k].says]
       /\ s[k].says.kind = r[i].kind
       /\ \A m \in DOMAIN s \ {k} : s[m].source # NameOf(r, i)

LEMMA BodyTells ==
  ASSUME NEW r \in Requests, NEW c \in Candidates, Covers(r, c),
         IsInjective(SourceNames(r)), NEW s, s = Body(r, c).statements
  PROVE  Tells(r, c, s)
<1>1. /\ s = [k \in DOMAIN c |-> [source |-> NameOf(r, c[k].source), says |-> c[k].says]]
      /\ DOMAIN s = DOMAIN c
  BY DEF Body
<1>2. ASSUME NEW k \in DOMAIN c
      PROVE  /\ s[k] = [source |-> NameOf(r, c[k].source), says |-> c[k].says]
             /\ s[k].source = NameOf(r, c[k].source) /\ s[k].says = c[k].says
  BY <1>1
<1>3. Len(s) = Len(r)
  <2>1. PICK n : n = Len(c)
    OBVIOUS
  <2>2. n \in Nat /\ DOMAIN s = 1..n /\ n = Len(r)
    BY <1>1, <2>1, RequestShape, CoversByCounting
  <2>3. s = [k \in 1..n |-> s[k]] /\ \A k \in 1..n : s[k] \in ToSet(s)
    BY <1>1, <2>2 DEF ToSet
  <2> QED  BY <2>2, <2>3, IndexedIsASeq
<1>4. ASSUME NEW i \in DOMAIN r
      PROVE  \E k \in DOMAIN s :
               /\ s[k] = [source |-> NameOf(r, i), says |-> c[k].says]
               /\ s[k].says.kind = r[i].kind
               /\ \A m \in DOMAIN s \ {k} : s[m].source # NameOf(r, i)
  <2>1. PICK k \in DOMAIN c : c[k].source = i
    BY DEF Covers
  <2>2. s[k] = [source |-> NameOf(r, i), says |-> c[k].says] /\ s[k].says.kind = r[i].kind
    BY <1>2, <2>1 DEF Covers
  <2>3. ASSUME NEW m \in DOMAIN c, m # k  PROVE s[m].source # NameOf(r, i)
    <3>1. c[m].source \in DOMAIN r /\ c[m].source # i
      BY <2>1, <2>3 DEF Covers
    <3>2. NameOf(r, c[m].source) # NameOf(r, i)
      BY <3>1 DEF IsInjective, SourceNames
    <3> QED  BY <1>2, <3>2
  <2> QED  BY <1>1, <2>1, <2>2, <2>3
<1> QED  BY <1>1, <1>2, <1>3, <1>4 DEF Tells

LEMMA NamesCounted ==
  ASSUME NEW r \in Requests
  PROVE  Cardinality({NameOf(r, i) : i \in DOMAIN r}) = Len(r) <=> IsInjective(SourceNames(r))
<1>1. PICK n : n = Len(r)
  OBVIOUS
<1>2. n \in Nat /\ DOMAIN r = 1..n
  BY <1>1, CandidatesAssumption, LenProperties
<1>3. PICK f : f = SourceNames(r)
  OBVIOUS
<1>4. DOMAIN f = 1..n /\ f = [i \in 1..n |-> f[i]]
  BY <1>2, <1>3 DEF SourceNames
<1>5. Range(f) = {NameOf(r, i) : i \in DOMAIN r}
  BY <1>3 DEF Range, SourceNames
<1>6. Cardinality(Range(f)) = n <=> IsInjective(f)
  BY <1>2, <1>4, AsManyValues
<1> QED  BY <1>1, <1>3, <1>5, <1>6

-----------------------------------------------------------------------------
(***************************************************************************)
(* The conversion step by step.                                            *)
(***************************************************************************)

ConversionInv ==
  /\ stage \in {"ready", "asked", "parsed", "done"}
  /\ stage # "ready" => request \in Requests
  /\ stage \in {"ready", "asked"} => converted = Nothing
  /\ stage \in {"parsed", "done"} =>
       /\ candidate \in Candidates
       /\ converted = IF TheoryIssues(request, candidate) = {}
                      THEN Body(request, candidate) ELSE Nothing
  /\ stage # "done" => theory = Nothing
  /\ stage = "done" =>
       /\ query \in [literal : Questions, source : QueryNames]
       /\ theory = IF converted # Nothing /\ QueryIssues(converted, query) = {}
                   THEN Combined(converted, query) ELSE Nothing

(* What the feedback decides is what the property asks of it. *)
LEMMA Decided ==
  ASSUME ConversionInv
  PROVE  ValidatedIsATheory
<1>1. PICK r, c : r = request /\ c = candidate
  OBVIOUS
<1>2. SentenceNames = {NameOf(r, i) : i \in DOMAIN r}
  BY <1>1 DEF SentenceNames
<1>3. ASSUME theory # Nothing
      PROVE  /\ TellsEachSentence(theory.statements)
             /\ Len(theory.statements) = Len(request)
             /\ QueryIsSound
             /\ \A k \in DOMAIN theory.statements :
                  BindsItsVariables(theory.statements[k].says)
  <2>1. stage = "done" /\ r \in Requests /\ c \in Candidates
    BY <1>1, <1>3 DEF ConversionInv
  <2>2. /\ converted # Nothing /\ QueryIssues(converted, query) = {}
        /\ theory = Combined(converted, query)
        /\ query \in [literal : Questions, source : QueryNames]
    BY <1>3, <2>1 DEF ConversionInv
  <2>3. TheoryIssues(r, c) = {} /\ converted = Body(r, c)
    BY <1>1, <2>1, <2>2 DEF ConversionInv
  <2>4. PICK q \in [literal : Questions, source : QueryNames] : q = query
    BY <2>2
  <2>5. QueryIsSound
    <3>1. /\ UsesOneArity(CandidateLiterals(c) \cup {q.literal})
          /\ q.source \notin {NameOf(r, i) : i \in DOMAIN r}
      BY <2>1, <2>2, <2>3, <2>4, QueryAccepted
    <3> QED  BY <1>1, <1>2, <2>4, <3>1 DEF QueryIsSound
  <2>6. PICK s : s = Body(r, c).statements
    OBVIOUS
  <2>7. theory.statements = s
    BY <2>2, <2>3, <2>6 DEF Combined
  <2>8. /\ Covers(r, c) /\ IsInjective(SourceNames(r))
        /\ \A k \in DOMAIN c : BindsItsVariables(c[k].says)
    BY <2>1, <2>3, TheoryAccepted
  <2>9. Tells(r, c, s)
    BY <2>1, <2>6, <2>8, BodyTells
  <2>10. TellsEachSentence(s) /\ Len(s) = Len(r)
    BY <1>1, <2>9 DEF TellsEachSentence, Tells
  <2>11. \A k \in DOMAIN s : BindsItsVariables(s[k].says)
    <3> SUFFICES ASSUME NEW k \in DOMAIN c  PROVE BindsItsVariables(s[k].says)
      BY <2>9 DEF Tells
    <3>1. s[k].says = c[k].says
      BY <2>9 DEF Tells
    <3> QED  BY <2>8, <3>1
  <2> QED  BY <1>1, <2>5, <2>7, <2>10, <2>11
<1>4. ASSUME stage = "parsed", converted = Nothing, ~UsesReservedName, CandidateIsSound
      PROVE  FALSE
  <2>1. r \in Requests /\ c \in Candidates
    BY <1>1, <1>4 DEF ConversionInv
  <2>2. TheoryIssues(r, c) # {}
    BY <1>1, <1>4, <2>1, NothingAssumption DEF ConversionInv
  <2>3. Covers(r, c)
    BY <1>1, <1>4, <2>1, CoversByCounting DEF CandidateIsSound
  <2>4. ~ArityClash(Signatures(CandidateLiterals(c)))
    BY <1>1, <1>4, OneArity DEF CandidateIsSound
  <2>5. IsInjective(SourceNames(r))
    BY <1>1, <1>2, <1>4, <2>1, NamesCounted DEF CandidateIsSound
  <2>6. \A k \in DOMAIN c : BindsItsVariables(c[k].says)
    BY <1>1, <1>4 DEF CandidateIsSound
  <2>7. \/ ProbeSource \in {NameOf(r, i) : i \in DOMAIN r}
        \/ \E l \in CandidateLiterals(c) :
             l.predicate = ProbePredicate \/ ProbeEntity \in NamesOf(l, "entity")
    BY <2>1, <2>2, <2>3, <2>4, <2>5, <2>6, TheoryRefused
  <2> QED  BY <1>1, <1>2, <1>4, <2>7 DEF UsesReservedName
<1>5. ASSUME stage = "done", converted # Nothing, theory = Nothing, QueryIsSound
      PROVE  FALSE
  <2>1. r \in Requests /\ c \in Candidates
    BY <1>1, <1>5 DEF ConversionInv
  <2>2. TheoryIssues(r, c) = {} /\ converted = Body(r, c)
    BY <1>1, <1>5, <2>1 DEF ConversionInv
  <2>3. PICK q \in [literal : Questions, source : QueryNames] : q = query
    BY <1>5 DEF ConversionInv
  <2>4. QueryIssues(Body(r, c), q) = {}
    <3>1. /\ UsesOneArity(CandidateLiterals(c) \cup {q.literal})
          /\ q.source \notin {NameOf(r, i) : i \in DOMAIN r}
      BY <1>1, <1>2, <1>5, <2>3 DEF QueryIsSound
    <3> QED  BY <2>1, <2>2, <3>1, QueryAccepted
  <2>5. Combined(Body(r, c), q) # Nothing
    BY <2>1, <2>2, NothingAssumption
  <2> QED  BY <1>5, <2>2, <2>3, <2>4, <2>5 DEF ConversionInv
<1> QED  BY <1>3, <1>4, <1>5 DEF ValidatedIsATheory

(* A request goes through the conversion once and nothing else touches it. *)
LEMMA ConversionStep ==
  ASSUME ConversionInv, [IntakeNext]_intakeVars
  PROVE  ConversionInv'
<1>1. CASE UNCHANGED conversionVars
  BY <1>1 DEF conversionVars, ConversionInv
<1>2. CASE PrepareView
  BY <1>2 DEF PrepareView, ConversionInv
<1>3. CASE ValidateTheory
  <2>1. /\ stage' = "parsed" /\ request' = request /\ request \in Requests
        /\ candidate' \in Candidates /\ theory' = theory /\ theory = Nothing
        /\ converted' = IF TheoryIssues(request, candidate') = {}
                        THEN Body(request, candidate') ELSE Nothing
    BY <1>3 DEF ValidateTheory, ConversionInv
  <2> QED  BY <2>1 DEF ConversionInv
<1>4. CASE ValidateQuery
  <2>1. /\ stage = "parsed" /\ stage' = "done" /\ request' = request
        /\ candidate' = candidate /\ converted' = converted
        /\ query' \in [literal : Questions, source : QueryNames]
        /\ issues' = IF converted = Nothing THEN {} ELSE QueryIssues(converted, query')
        /\ theory' = IF converted # Nothing /\ issues' = {}
                     THEN Combined(converted, query') ELSE Nothing
    BY <1>4 DEF ValidateQuery
  <2>2. theory' = IF converted' # Nothing /\ QueryIssues(converted', query') = {}
                  THEN Combined(converted', query') ELSE Nothing
    BY <2>1
  <2> QED  BY <2>1, <2>2 DEF ConversionInv
<1> QED  BY <1>1, <1>2, <1>3, <1>4 DEF IntakeNext, ConversionNext, intakeVars

(* A theory that reaches the engine tells every sentence of its request    *)
(* exactly once, under the caller's name and as the kind it was sent as,   *)
(* with one arity for each predicate and its variables bound; a candidate  *)
(* is refused only for a fault of its own, of the caller's names, or of a  *)
(* name the probe has taken (converter.py, feedback.py).                   *)
THEOREM Theories == IntakeSpec => []ValidatedIsATheory
<1>1. IntakeInit => ConversionInv
  BY DEF IntakeInit, ConversionInit, ConversionInv
<1>2. ConversionInv /\ [IntakeNext]_intakeVars => ConversionInv'
  BY ConversionStep
<1>3. ConversionInv => ValidatedIsATheory
  BY Decided
<1> QED  BY <1>1, <1>2, <1>3, PTL DEF IntakeSpec
=============================================================================
