--------------------------- MODULE MCSealedRecovery ---------------------------
(***************************************************************************)
(* One theory with two examples, a live run, a second one and a replay.    *)
(***************************************************************************)
EXTENDS SealedRecovery, TLC

CONSTANTS t1, e1, e2, live, again, replay

MCTheories == {t1}
MCExamples == {e1, e2}
MCTheoryOf == (e1 :> t1) @@ (e2 :> t1)
MCOrder == <<t1, e1, e2>>
MCRuns == {live, again, replay}
MCReplays == {replay}
MCUnsealed == {live, again}
MCEnds == (t1 :> {"accepted", "corrected", "correction_failed"})
            @@ (e1 :> {"accepted", "rejected", "corrected"})
            @@ (e2 :> {"accepted"})
Symmetry == Permutations({live, again})

Versions(raw, corrected) == ("raw" :> raw) @@ ("corrected" :> corrected)

World(rt, re, first, present) ==
  [raw     |-> (t1 :> rt) @@ (e1 :> re) @@ (e2 :> "valid"),
   source  |-> (t1 :> IF rt = "terminal" THEN "missing" ELSE "success")
                 @@ (e1 :> IF re = "terminal" THEN "invalid" ELSE "success")
                 @@ (e2 :> "success"),
   answer  |-> (e1 :> first) @@ (e2 :> Versions("CONTRADICTED", "UNVERIFIED")),
   gold    |-> (e1 :> "ENTAILED") @@ (e2 :> "CONTRADICTED"),
   present |-> (t1 :> "none") @@ (e1 :> present) @@ (e2 :> "none")]

MCWorlds ==
  {World("valid", "terminal", Versions("INCONSISTENT", "UNKNOWN"), "none"),
   World("valid", "valid", Versions("UNKNOWN", "INCONSISTENT"), "none"),
   World("valid", "valid", Versions("UNVERIFIED", "ENTAILED"), "none"),
   World("coverage", "semantic", Versions("UNKNOWN", "ENTAILED"), "none"),
   World("structural", "valid", Versions("UNKNOWN", "UNKNOWN"), "other"),
   [World("terminal", "valid", Versions("UNKNOWN", "UNKNOWN"), "none")
      EXCEPT !.source[e2] = "missing"]}
=============================================================================
