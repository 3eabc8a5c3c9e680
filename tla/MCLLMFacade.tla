----------------------------- MODULE MCLLMFacade -----------------------------
(***************************************************************************)
(* Small instances of LLMFacade: one or two callers at a time (a queued    *)
(* handler, and a login's command or the benchmark beside it).             *)
(***************************************************************************)
EXTENDS LLMFacade, TLC

CallerSymmetry == Permutations(Callers)
=============================================================================
