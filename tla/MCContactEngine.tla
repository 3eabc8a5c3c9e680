--------------------------- MODULE MCContactEngine ---------------------------
(***************************************************************************)
(* ContactEngine with one person of the legacy file, one of the address    *)
(* book and a name that is taken for either.                               *)
(***************************************************************************)
EXTENDS ContactEngine, TLC

MCMatches == [ann |-> {"p", "q"}]
MCBook    == <<"q">>

HandlerSymmetry == Permutations(Handlers)
=============================================================================
