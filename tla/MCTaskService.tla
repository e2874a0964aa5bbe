---------------------------- MODULE MCTaskService ----------------------------
(***************************************************************************)
(* A parser request, two requests of critics and corrections, and an       *)
(* oversized one.                                                          *)
(***************************************************************************)
EXTENDS TaskService

CONSTANTS parse, critic, correct, long

MCParserTasks == {parse}

MCCorrectionTasks == {critic, correct, long}

MCOversized == {long}

MCAnswers == {"first", "second"}
=============================================================================
