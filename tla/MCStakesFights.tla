--------------------------- MODULE MCStakesFights ----------------------------
(***************************************************************************)
(* Values of StakesFights' constants for TLC.                              *)
(***************************************************************************)
EXTENDS StakesFights, TLC

CONSTANTS ann, bob, axe, Leader, Skill

Minted == {<<ann, axe>>, <<bob, axe>>}

AnyRates == {-2500, 0, 10000}

Symmetry == Permutations({ann, bob})
=============================================================================
