----------------------------- MODULE MCLending ------------------------------
(***************************************************************************)
(* Values of Lending's constants for TLC.                                  *)
(***************************************************************************)
EXTENDS Lending, TLC

CONSTANTS ann, bob, cid, dan, tok, cat

Minted == (Owners \ {dan}) \X TokenIds

Symmetry == Permutations(Owners \ {dan})
=============================================================================
