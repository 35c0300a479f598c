----------------------------- MODULE PotLedger -----------------------------
(***************************************************************************)
(* What the pot promises about one token the contract really holds (XTAR)  *)
(* and about the order of rounds, without decks, batches, players and      *)
(* resets.  PotRound implements it (LedgerSpec).                           *)
(*                                                                         *)
(* Money enters only by a deposit, split between the pot and the fees; a   *)
(* round promises the whole pot to players; money leaves only by paying    *)
(* out of the promise or by paying out all fees.  Rounds are opened one at *)
(* a time and in increasing order.                                         *)
(***************************************************************************)
EXTENDS Integers

VARIABLES
    open,           \* the round being opened, 0 if there is none
    last,           \* the last round that was closed
    accumulated,    \* in the pot for the next round
    promised,       \* set aside for players
    collected,      \* set aside for the protocol
    custody         \* held by the contract

money == <<accumulated, promised, collected, custody>>
vars == <<open, last, money>>

Init ==
    /\ open = 0 /\ last = 0
    /\ accumulated = 0 /\ promised = 0 /\ collected = 0 /\ custody = 0

Deposit ==
    /\ accumulated' >= accumulated
    /\ collected' >= collected
    /\ custody' - custody = (accumulated' - accumulated) + (collected' - collected)
    /\ UNCHANGED <<open, last, promised>>

Promise ==
    /\ promised' = promised + accumulated
    /\ accumulated' = 0
    /\ UNCHANGED <<collected, custody>>

OpenRound ==
    /\ open = 0
    /\ open' > last
    /\ Promise
    /\ UNCHANGED last

CloseRound ==
    /\ open # 0
    /\ last' = open
    /\ open' = 0
    /\ UNCHANGED money

(* A round opened and closed in one transaction.                           *)
OpenAndClose ==
    /\ open = 0
    /\ last' > last
    /\ Promise
    /\ UNCHANGED open

PayPlayer ==
    /\ custody' \in 0..custody
    /\ promised' = promised - (custody - custody')
    /\ UNCHANGED <<open, last, accumulated, collected>>

PayFees ==
    /\ custody' = custody - collected
    /\ custody' >= 0
    /\ collected' = 0
    /\ UNCHANGED <<open, last, accumulated, promised>>

Next == Deposit \/ OpenRound \/ CloseRound \/ OpenAndClose \/ PayPlayer \/ PayFees

Spec == Init /\ [][Next]_vars

(* Nothing the contract holds is unaccounted for.                          *)
Balanced == custody = accumulated + promised + collected
=============================================================================
