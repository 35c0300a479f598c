---------------------------- MODULE MCDeckTotals -----------------------------
(***************************************************************************)
(* Values of DeckTotals' constants for TLC.                                *)
(***************************************************************************)
EXTENDS DeckTotals

CONSTANTS ann, bob, axe, oak, sky

Kinds == [t \in TokenIds |-> IF t = axe THEN "Weapon" ELSE "Skill"]
Upgraded == <<bob>>
Minted == (Owners \X TokenIds) \ {<<bob, sky>>}
=============================================================================
