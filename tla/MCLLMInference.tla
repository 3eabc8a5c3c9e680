--------------------------- MODULE MCLLMInference ---------------------------
(***************************************************************************)
(* LLMInference with the two halves of a two byte character, which the     *)
(* tokenizer has split: "head" alone must wait, "tail" alone is no text.   *)
(***************************************************************************)
EXTENDS LLMInference

MCPieces == {"head", "tail"}
MCBytes  == [head |-> <<"lead2">>, tail |-> <<"cont">>]
=============================================================================
