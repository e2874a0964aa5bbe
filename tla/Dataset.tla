-------------------------------- MODULE Dataset --------------------------------
(***************************************************************************)
(* The two halves of the benchmark's handling side by side: the commands   *)
(* that get its files, and the samples that are drawn from its examples    *)
(* once they are there.                                                    *)
(***************************************************************************)
EXTENDS DatasetFiles, Sampling

Init == FilesInit /\ SamplingInit

(* Either a sample is drawn before any command, or none is begun. *)
Next ==
  \/ phase = "ready" /\ FilesNext /\ UNCHANGED samplingVars
  \/ command = None /\ SamplingNext /\ UNCHANGED filesVars

Spec == Init /\ [][Next]_<<filesVars, samplingVars>>
=============================================================================
