------------------------- MODULE MCVerifiedReasoning -------------------------
(***************************************************************************)
(* Small theories over two atoms for the engine with its verifier.         *)
(***************************************************************************)
EXTENDS VerifiedReasoning

CONSTANTS a, b

Pos(x) == [atom |-> x, negated |-> FALSE]
Neg(x) == [atom |-> x, negated |-> TRUE]

MCAtoms == {a, b}

(* Any literal may be a fact, one of them from two sources. *)
FactPool ==
  {[literal |-> Pos(a), source |-> 2], [literal |-> Pos(a), source |-> 1],
   [literal |-> Neg(a), source |-> 1], [literal |-> Pos(b), source |-> 3],
   [literal |-> Neg(b), source |-> 4]}

Pool ==
  {[body |-> {Pos(a)},         head |-> Pos(b)],
   [body |-> {Pos(b)},         head |-> Neg(a)],
   [body |-> {Neg(a)},         head |-> Neg(b)],
   [body |-> {Pos(a), Pos(b)}, head |-> Neg(b)],
   [body |-> {Pos(b)},         head |-> Pos(a)]}

MCTheories ==
  [facts : SUBSET FactPool, instance : [1..3 -> Pool]]
=============================================================================
