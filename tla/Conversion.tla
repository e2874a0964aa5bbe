------------------------------ MODULE Conversion ------------------------------
(***************************************************************************)
(* How the structured answer of a language model becomes a typed theory.   *)
(*                                                                         *)
(* The model sees the sentences of a request under neutral names (their    *)
(* places).  Its candidate is first checked for coverage, then converted   *)
(* to facts and rules under the caller's names, and the result is checked  *)
(* as a theory with a probe query.  A candidate for the query is combined  *)
(* with the converted theory and the whole is checked again.               *)
(***************************************************************************)
EXTENDS TypedTheory

CONSTANTS
  Requests,    \* the requests: sequences of sentences [id, kind]
  Candidates,  \* the answers of the model: sequences of [source, says]
  Questions,   \* the literals a query may be parsed to
  QueryNames,  \* the names the sentence of a query may have
  Numbered,    \* the name a sentence gets by its place when it has none
  Unnamed,     \* the id of a sentence the caller has not named
  Nothing      \* no theory

(* A request has a sentence, a fact neither variables nor a body, and a     *)
(* query only entities (semantic_parsing/models.py).                       *)
ASSUME CandidatesAssumption ==
  /\ \A r \in Requests : r \in Seq(ToSet(r)) /\ r # <<>>
  /\ \A c \in Candidates :
       /\ c \in Seq(ToSet(c))
       /\ \A k \in DOMAIN c :
            /\ c[k].says.kind \in {"fact", "rule"}
            /\ c[k].says.kind = "fact" => c[k].says.variables = <<>> /\ c[k].says.body = <<>>
  /\ \A l \in Questions : NamesOf(l, "variable") = {}

VARIABLES
  request,     \* the sentences
  candidate,   \* the candidate that was judged last
  issues,      \* what the feedback on it says
  converted,   \* the theory without its query, or Nothing
  query,       \* the judged query [literal, source]
  theory,      \* the theory handed to the engine, or Nothing
  stage        \* "ready", "asked", "parsed", "done"

conversionVars ==
  <<request, candidate, issues, converted, query, theory, stage>>

-----------------------------------------------------------------------------
(* Names *)

NameOf(r, i) == IF r[i].id = Unnamed THEN Numbered[i] ELSE r[i].id

(* Names the probe takes for itself. *)
ProbeSource    == "validation_query"
ProbeEntity    == "validation_entity"
ProbePredicate == "validation_probe"

-----------------------------------------------------------------------------
(* The candidate for a theory *)

Sources(c) == {c[k].source : k \in DOMAIN c}

Mentions(c, s) == {k \in DOMAIN c : c[k].source = s}

CoverageIssues(r, c) ==
  {<<"MISSING_SOURCE", s>> : s \in DOMAIN r \ Sources(c)}
    \cup {<<"DUPLICATE_SOURCE", s>> :
            s \in {x \in Sources(c) : Cardinality(Mentions(c, x)) > 1}}
    \cup {<<"UNKNOWN_SOURCE", 0>> : s \in Sources(c) \ DOMAIN r}
    \cup {<<"FACT_RULE_CONFUSION", c[k].source>> :
            k \in {x \in DOMAIN c :
                     /\ c[x].source \in DOMAIN r
                     /\ c[x].says.kind # r[c[x].source].kind}}

CandidateLiterals(c) == UNION {LiteralsOf(c[k].says) : k \in DOMAIN c}

Signatures(literals) == {Signature(l) : l \in literals}

ArityClash(signatures) ==
  \E p, q \in signatures : p[1] = q[1] /\ p[2] # q[2]

(* A family that declares each member of a set once, and one that also     *)
(* declares x.                                                             *)
Family(S) == [k \in S \X {"declared"} |-> k[1]]

With(family, x) ==
  [k \in DOMAIN family \cup {<<x, "probe">>} |->
     IF k = <<x, "probe">> THEN x ELSE family[k]]

Body(r, c) ==
  [sources    |-> [i \in DOMAIN r |-> NameOf(r, i)],
   entities   |-> Family(UNION {NamesOf(l, "entity") : l \in CandidateLiterals(c)}),
   predicates |-> Family(Signatures(CandidateLiterals(c))),
   statements |-> [k \in DOMAIN c |->
                     [source |-> NameOf(r, c[k].source), says |-> c[k].says]]]

(* The theory the converted body is checked as: with a probe for a query.  *)
Probed(b) ==
  [sources    |-> Append(b.sources, ProbeSource),
   entities   |-> With(b.entities, ProbeEntity),
   predicates |-> With(b.predicates, <<ProbePredicate, 1>>),
   statements |-> b.statements,
   query      |-> [literal |-> [predicate |-> ProbePredicate,
                                terms |-> <<Entity(ProbeEntity)>>,
                                negated |-> FALSE],
                   source  |-> ProbeSource]]

(* The feedback on a candidate; an empty one is accepted.  An answer       *)
(* without a statement does not have the structure that was asked for.     *)
TheoryIssues(r, c) ==
  CASE c = <<>> -> {<<"STRUCTURED_OUTPUT_ERROR", 0>>}
    [] c # <<>> /\ CoverageIssues(r, c) # {} -> CoverageIssues(r, c)
    [] OTHER ->
         CASE ArityClash(Signatures(CandidateLiterals(c))) ->
                {<<"PREDICATE_ARITY_CONFLICT", 0>>}
           [] ~ArityClash(Signatures(CandidateLiterals(c)))
              /\ ~IsValid(Probed(Body(r, c))) -> {<<"UNSUPPORTED_STRUCTURE", 0>>}
           [] OTHER -> {}

-----------------------------------------------------------------------------
(* The candidate for the query *)

Combined(b, q) ==
  [sources    |-> Append(b.sources, q.source),
   entities   |-> Family(Range(b.entities) \cup NamesOf(q.literal, "entity")),
   predicates |-> Family(Range(b.predicates) \cup {Signature(q.literal)}),
   statements |-> b.statements,
   query      |-> q]

QueryIssues(b, q) ==
  CASE ArityClash(Range(b.predicates) \cup {Signature(q.literal)}) ->
         {<<"PREDICATE_ARITY_CONFLICT", 0>>}
    [] ~ArityClash(Range(b.predicates) \cup {Signature(q.literal)})
       /\ ~IsValid(Combined(b, q)) -> {<<"UNSUPPORTED_STRUCTURE", 0>>}
    [] OTHER -> {}

(* No theory that is built is taken for none. *)
ASSUME NothingAssumption ==
  \A r \in Requests, c \in Candidates : TheoryIssues(r, c) = {} =>
    /\ Body(r, c) # Nothing
    /\ \A q \in [literal : Questions, source : QueryNames] :
         Combined(Body(r, c), q) # Nothing

-----------------------------------------------------------------------------
(* Actions *)

ConversionInit ==
  /\ request = <<>>
  /\ candidate = <<>>
  /\ issues = {}
  /\ converted = Nothing
  /\ query = Nothing
  /\ theory = Nothing
  /\ stage = "ready"

(* A request comes in and its sentences are put under neutral names. *)
PrepareView ==
  /\ stage = "ready"
  /\ request' \in Requests
  /\ stage' = "asked"
  /\ UNCHANGED <<candidate, issues, converted, query, theory>>

(* A candidate for the theory is judged. *)
ValidateTheory ==
  /\ stage = "asked"
  /\ candidate' \in Candidates
  /\ issues' = TheoryIssues(request, candidate')
  /\ converted' = IF issues' = {} THEN Body(request, candidate') ELSE Nothing
  /\ stage' = "parsed"
  /\ UNCHANGED <<request, query, theory>>

(* A candidate for the query is judged, with the theory if there is one.   *)
ValidateQuery ==
  /\ stage = "parsed"
  /\ query' \in [literal : Questions, source : QueryNames]
  /\ issues' = IF converted = Nothing THEN {} ELSE QueryIssues(converted, query')
  /\ theory' = IF converted # Nothing /\ issues' = {}
               THEN Combined(converted, query') ELSE Nothing
  /\ stage' = "done"
  /\ UNCHANGED <<request, candidate, converted>>

ConversionNext == PrepareView \/ ValidateTheory \/ ValidateQuery

-----------------------------------------------------------------------------
(* Properties *)

(* The names of the sentences, and of all that a candidate talks about. *)
SentenceNames == {NameOf(request, i) : i \in DOMAIN request}

UsesReservedName ==
  \/ ProbeSource \in SentenceNames
  \/ \E l \in CandidateLiterals(candidate) :
       \/ l.predicate = ProbePredicate
       \/ ProbeEntity \in NamesOf(l, "entity")

(* Each sentence is told by exactly one statement, of its own kind. *)
TellsEachSentence(statements) ==
  \A i \in DOMAIN request :
    \E k \in DOMAIN statements :
      /\ statements[k] = [source |-> NameOf(request, i), says |-> candidate[k].says]
      /\ statements[k].says.kind = request[i].kind
      /\ \A m \in DOMAIN statements \ {k} :
           statements[m].source # NameOf(request, i)

UsesOneArity(literals) ==
  \A l, m \in literals : l.predicate = m.predicate => Arity(l) = Arity(m)

BindsItsVariables(says) ==
  LET bound == UNION {NamesOf(l, "variable") : l \in ToSet(says.body)}
  IN  /\ bound \cup NamesOf(says.head, "variable") \subseteq Range(says.variables)
      /\ NamesOf(says.head, "variable") \subseteq bound
      /\ IsInjective(says.variables)

(* What is wrong with the candidate itself, or with the caller's names. *)
CandidateIsSound ==
  /\ Len(candidate) = Len(request)
  /\ \A i \in DOMAIN request :
       \E k \in DOMAIN candidate :
         candidate[k].source = i /\ candidate[k].says.kind = request[i].kind
  /\ Cardinality(SentenceNames) = Len(request)
  /\ UsesOneArity(CandidateLiterals(candidate))
  /\ \A k \in DOMAIN candidate : BindsItsVariables(candidate[k].says)

QueryIsSound ==
  /\ query.source \notin SentenceNames
  /\ UsesOneArity(CandidateLiterals(candidate) \cup {query.literal})

(* The theory the engine reasons over tells every sentence of the request  *)
(* exactly once, under its own name and as the kind it was sent as, with   *)
(* one arity for each predicate and no unbound variable, although the      *)
(* model that wrote it saw other names; and a candidate is refused only    *)
(* for a fault of its own or of the names, never for anything else, unless *)
(* it uses a name the probe has taken (feedback.py, converter.py).         *)
ValidatedIsATheory ==
  /\ theory # Nothing =>
       /\ TellsEachSentence(theory.statements)
       /\ Len(theory.statements) = Len(request)
       /\ QueryIsSound
       /\ \A k \in DOMAIN theory.statements :
            BindsItsVariables(theory.statements[k].says)
  /\ stage = "parsed" /\ converted = Nothing /\ ~UsesReservedName =>
       ~CandidateIsSound
  /\ stage = "done" /\ converted # Nothing /\ theory = Nothing =>
       ~QueryIsSound
=============================================================================
