---------------------------- MODULE MCReplyRouter ----------------------------
(***************************************************************************)
(* ReplyRouter with two conversations whose titles are names and one with  *)
(* a number, and room for one entry.  The texts that come in are a login   *)
(* with a command, which runs beside the others, and a login without one;  *)
(* an echo of a reply of the agent is a message under the mutex.           *)
(***************************************************************************)
EXTENDS ReplyRouter, TLC

CONSTANT Nameless

MCNumber == [k \in Keys |-> IF k \in Nameless THEN NoDigits ELSE "number"]

MCKind == [t \in AllTexts |->
             CASE t = "cmd" -> "login" [] t = "login" -> "ack"
               [] OTHER -> "queued"]

\* Handlers are alike, and so are the conversations with names.
MCSymmetry == Permutations(Handlers) \cup Permutations(Nameless)
=============================================================================
