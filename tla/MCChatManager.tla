---------------------------- MODULE MCChatManager ----------------------------
(***************************************************************************)
(* ChatManager with two load jobs, two response jobs and the benchmark, and*)
(* memory for two models.                                                  *)
(***************************************************************************)
EXTENDS ChatManager, TLC
=============================================================================
