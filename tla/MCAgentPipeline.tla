--------------------------- MODULE MCAgentPipeline ---------------------------
(***************************************************************************)
(* AgentPipeline with the commands and messages of MCMessageEngine.        *)
(***************************************************************************)
EXTENDS AgentPipeline, MCMessageEngine

PipelineLlmResults ==
  {r \in MCLlmResults : r.action \in {"unknown", "contact_lookup"}}
=============================================================================
