----------------------------- MODULE TheoryIntake -----------------------------
(***************************************************************************)
(* The two producers of typed theories side by side: a request is either   *)
(* parsed by a language model and converted, or taken from the benchmark's *)
(* formal records.                                                         *)
(***************************************************************************)
EXTENDS Conversion, FormalAdapter

intakeVars == <<conversionVars, adapterVars>>

IntakeInit == ConversionInit /\ AdapterInit

IntakeNext ==
  \/ record = NoTheory /\ ConversionNext /\ UNCHANGED adapterVars
  \/ stage = "ready" /\ ConvertRecordQuestion /\ UNCHANGED conversionVars

IntakeSpec == IntakeInit /\ [][IntakeNext]_intakeVars
=============================================================================
