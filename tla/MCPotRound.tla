----------------------------- MODULE MCPotRound -----------------------------
(***************************************************************************)
(* Values of PotRound's constants for TLC.                                 *)
(***************************************************************************)
EXTENDS PotRound, TLC

CONSTANTS p1, p2, xtar, power, gen

Symmetry == Permutations(Players)

(* Two units, and a negative amount, which is refused.                     *)
TwoXtar == {[a \in {xtar} |-> 2], [a \in {xtar} |-> -2]}

OneXtar == {[a \in {xtar} |-> 5]}

XtarAndPower == {[a \in {xtar, power} |-> IF a = xtar THEN 5 ELSE 2]}

XtarOrPower == {[a \in {xtar, power} |-> IF a = xtar THEN 3 ELSE 0],
                [a \in {xtar, power} |-> IF a = power THEN 2 ELSE 0]}

NoLegacyDecks == << >>

TwoLegacyDecks == << [owner |-> p1, cards |-> 1], [owner |-> p2, cards |-> 1] >>
=============================================================================
