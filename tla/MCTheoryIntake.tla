---------------------------- MODULE MCTheoryIntake ----------------------------
(* A small instance of TheoryIntake.                                       *)
EXTENDS TheoryIntake

(* Up to two sentences, named by the caller or by their place. *)
MCNumbered == <<"source_1", "source_2">>

Ids == {Unnamed, "source_2", "s", ProbeSource}

Sentences == [id : Ids, kind : {"fact", "rule"}]

MCRequests ==
  {<<x>> : x \in Sentences}
    \cup {r \in {<<x, y>> : x, y \in Sentences} :
            r[1].id = Unnamed \/ r[1].id # r[2].id}

L(p, terms) == [predicate |-> p, terms |-> terms, negated |-> FALSE]

Alice == Entity("alice")
X == Variable("X")

Fact(l) == [kind |-> "fact", variables |-> <<>>, body |-> <<>>, head |-> l]

Rule(variables, body, head) ==
  [kind |-> "rule", variables |-> variables, body |-> body, head |-> head]

(* Facts and rules, sound ones and ones with an undeclared, a repeated or  *)
(* an unbound variable, with another arity, or with a name of the probe.   *)
Sayings ==
  {Fact(L("kind", <<Alice>>)), Fact(L("kind", <<Alice, Alice>>)),
   Fact(L("kind", <<Entity(ProbeEntity)>>)), Fact(L(ProbePredicate, <<Alice, Alice>>)),
   Rule(<<"X">>, <<L("kind", <<X>>)>>, L("good", <<X>>)),
   Rule(<<"X", "X">>, <<L("kind", <<X>>)>>, L("good", <<X>>)),
   Rule(<<>>, <<L("kind", <<X>>)>>, L("good", <<Alice>>)),
   Rule(<<"X">>, <<L("kind", <<Alice>>)>>, L("good", <<X>>))}

Statement == [source : 1..3, says : Sayings]

(* Facts come before rules in a candidate. *)
MCCandidates ==
  {<<>>} \cup {<<x>> : x \in Statement}
    \cup {c \in {<<x, y>> : x, y \in Statement} :
            ~(c[1].says.kind = "rule" /\ c[2].says.kind = "fact")}

MCQuestions == {L("kind", <<Alice>>), L("kind", <<Alice, Alice>>), L("new", <<Entity("bob")>>)}

MCQueryNames == {"query", "s"}

-----------------------------------------------------------------------------

(* Entities 1 and 2 and predicates 4 and 5 are normalized to one name; 3   *)
(* is the pronoun, and 7 is no name for a predicate.                       *)
MCBase == [n \in 1..7 |-> IF n \in {1, 2} THEN 1 ELSE IF n \in {4, 5} THEN 4 ELSE n]

Raw(s, r, o, sign) == [subject |-> s, relation |-> r, object |-> o, polarity |-> sign]

MCGround ==
  {Raw(1, Is, 4, "+"), Raw(2, Is, 4, "-"), Raw(2, Is, 4, "+"), Raw(1, Is, 5, "~"),
   Raw(1, 5, 2, "+"), Raw(3, Is, 4, "+"), Raw(3, 6, 1, "-")}

MCLifted == MCGround \cup {Raw(3, Is, 5, "+"), Raw(3, 6, 3, "+")}

MCBodies == {<<b>> : b \in MCLifted} \cup {<<>>, <<Raw(3, 7, 1, "+")>>, <<Raw(7, Is, 4, "+")>>}

MCRecords ==
  {[triples |-> <<[id |-> 11, literal |-> f]>>,
    rules   |-> <<[id |-> rid, body |-> body, head |-> h]>>,
    question |-> [id |-> 13, literal |-> q],
    whole |-> TRUE] :
      f \in MCGround, rid \in {11, 12}, body \in MCBodies, h \in MCLifted, q \in MCGround}
    \cup
  {[triples |-> <<[id |-> 11, literal |-> f], [id |-> 12, literal |-> g]>>,
    rules   |-> <<>>,
    question |-> [id |-> 13, literal |-> q],
    whole |-> whole] :
      f \in MCGround, g \in MCGround, q \in MCGround, whole \in BOOLEAN}
=============================================================================
