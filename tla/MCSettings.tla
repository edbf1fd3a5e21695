----------------------------- MODULE MCSettings ------------------------------
(***************************************************************************)
(* A small instance of Settings for TLC.  The token of the environment is  *)
(* one of the tokens, so only the handlers are alike.                      *)
(***************************************************************************)
EXTENDS Settings, TLC

Symmetry == Permutations(Handlers)
=============================================================================
