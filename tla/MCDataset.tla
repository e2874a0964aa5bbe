------------------------------- MODULE MCDataset -------------------------------
(* A small instance of Dataset.                                            *)
EXTENDS Dataset

CONSTANTS entailed, contradicted, unknown

MCLabelOrders ==
  {<<entailed, contradicted, unknown>>, <<unknown, entailed>>, <<contradicted>>}

True(id)   == [id |-> id, answer |-> "true", proven |-> FALSE, whole |-> TRUE]
Proven(id) == [id |-> id, answer |-> "false", proven |-> TRUE, whole |-> TRUE]
Open(id)   == [id |-> id, answer |-> "unknown", proven |-> FALSE, whole |-> TRUE]
Unproven(id) == [Proven(id) EXCEPT !.proven = FALSE]
Broken(id) == [True(id) EXCEPT !.whole = FALSE]

(* The second archive has a false question without a proof, and a broken   *)
(* one; the third one has a duplicate; and the first split of the fourth   *)
(* one cannot be read to its end.                                          *)
MCSplits ==
  ("v1" :> <<<<True("q1"), Proven("q2"), Open("q3")>>, <<Open("q1")>>>>)
    @@ ("v2" :> <<<<True("q1"), Open("q2"), Unproven("q3")>>,
                  <<True("q4"), Broken("q5")>>>>)
    @@ ("unsafe" :> <<<<True("q1")>>, <<Open("q2"), True("q3"), Open("q2")>>>>)
    @@ ("damaged" :> <<<<True("q1"), Proven("q2"), Broken("q3")>>, <<Open("q4")>>>>)
    @@ ("huge" :> <<>>) @@ ("truncated" :> <<>>)

MCLabelRank == (contradicted :> 1) @@ (entailed :> 2) @@ (unknown :> 3)
=============================================================================
