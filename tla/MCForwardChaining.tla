--------------------------- MODULE MCForwardChaining ---------------------------
(***************************************************************************)
(* Small theories for ForwardChaining.                                     *)
(***************************************************************************)
EXTENDS ForwardChaining

CONSTANTS a, b, c

Pos(x) == [atom |-> x, negated |-> FALSE]
Neg(x) == [atom |-> x, negated |-> TRUE]

MCAtoms == {a, b, c}

(* Chains, a join, a cycle, explicit negation in a body and in a head, a   *)
(* second way to the same literal, and a rule that derives its own premise. *)
Pool ==
  <<[body |-> {Pos(a)},         head |-> Pos(b)],
   [body |-> {Pos(b)},         head |-> Pos(c)],
   [body |-> {Pos(a), Pos(b)}, head |-> Pos(c)],
   [body |-> {Pos(c)},         head |-> Pos(a)],
   [body |-> {Pos(b)},         head |-> Neg(a)],
   [body |-> {Neg(a)},         head |-> Pos(c)],
   [body |-> {Pos(a), Pos(c)}, head |-> Neg(b)],
   [body |-> {Pos(a)},         head |-> Pos(a)]>>

(* Two sources state the same fact. *)
FactPool ==
  {[literal |-> Pos(a), source |-> 2], [literal |-> Pos(a), source |-> 1],
   [literal |-> Neg(a), source |-> 1], [literal |-> Pos(b), source |-> 3]}

(* Any three of them; the engine's order of the rules is the order of the  *)
(* pool or the reverse.                                                    *)
PoolTheories ==
  [facts : SUBSET FactPool,
   instance : {<<Pool[i], Pool[j], Pool[k]>> : <<i, j, k>> \in
                 {n \in (1..8) \X (1..8) \X (1..8) :
                    \/ n[1] < n[2] /\ n[2] < n[3]
                    \/ n[1] > n[2] /\ n[2] > n[3]}}]

(* Where limits bind: theories with more facts than may be known,          *)
(* two-sided proofs that are too large together, and joins.                *)
LimitFacts ==
  {[literal |-> Pos(a), source |-> 1], [literal |-> Neg(a), source |-> 2],
   [literal |-> Pos(b), source |-> 3], [literal |-> Pos(c), source |-> 4],
   [literal |-> Neg(c), source |-> 5]}

LimitRules ==
  <<[body |-> {Pos(a)},         head |-> Pos(b)],
    [body |-> {Neg(a)},         head |-> Neg(b)],
    [body |-> {Pos(b)},         head |-> Neg(a)],
    [body |-> {Pos(b), Pos(c)}, head |-> Neg(c)],
    [body |-> {Pos(b), Neg(b)}, head |-> Pos(c)]>>

LimitTheories ==
  [facts : SUBSET LimitFacts,
   instance : {[i \in S |-> LimitRules[i]] :
                 S \in {R \in SUBSET (1..5) : Cardinality(R) \in {3, 4}}}]

MCTheories == PoolTheories \cup LimitTheories
=============================================================================
