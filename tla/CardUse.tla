------------------------------- MODULE CardUse -------------------------------
(***************************************************************************)
(* What the calls of the contract do to the lock and the power of a card:  *)
(* the agreement between the components that lock cards.                   *)
(*                                                                         *)
(* To the decks all other components are one, with the lock "Stake".       *)
(* DeckTotals is built on the calls of the others as they are stated here, *)
(* and StakesFights and Lending show that they make no others (UseSpec in  *)
(* both).                                                                  *)
(*                                                                         *)
(* burn and transfer ask no component: a card can disappear while one of   *)
(* them has it, and the record of the position stays.  Any later card of   *)
(* that owner and token is in reach of the record, whoever locks it then:  *)
(* close_position and check_liquidation ask for the record and not for the *)
(* lock, and touch_loans looks at neither.                                 *)
(***************************************************************************)
EXTENDS Integers

CONSTANTS
    Owners,
    TokenIds,
    Absent,         \* the lock of a card that is not in storage
    InitialPower,   \* initial_power of the cards' metadata
    Powers          \* powers a card may have

VARIABLES
    lock,           \* Card.locked_by_action, Absent without a card
    power,          \* Card.power, 0 without a card
    lost            \* ghost: <<card, lock>> of cards that a burn, a transfer or
                    \* the record of another card took from who had them locked

Cards == Owners \X TokenIds
cardVars == <<lock, power, lost>>

Init ==
    /\ lock \in [Cards -> {Absent, "None", "Deck"}]
    /\ power = [c \in Cards |-> IF lock[c] = Absent THEN 0 ELSE InitialPower]
    /\ lost = {}

Become(c, l, n) ==
    /\ lock' = [lock EXCEPT ![c] = l]
    /\ power' = [power EXCEPT ![c] = n]

LostWith(c) == IF lock[c] \in {"None", Absent} THEN {} ELSE {<<c, lock[c]>>}

-----------------------------------------------------------------------------
(* The owner's calls.                                                      *)

Mint(c) ==
    /\ lock[c] = Absent
    /\ Become(c, "None", InitialPower)
    /\ UNCHANGED lost

Burn(c) ==
    /\ lock[c] # Absent
    /\ Become(c, Absent, 0)
    /\ lost' = lost \cup LostWith(c)

(* The card takes the place of any card of the token the recipient has.    *)
Transfer(o, to, t) ==
    /\ lock[<<o, t>>] = "None"
    /\ lock' = [lock EXCEPT ![<<o, t>>] = Absent, ![<<to, t>>] = "None"]
    /\ power' = [power EXCEPT ![<<o, t>>] = 0, ![<<to, t>>] = power[<<o, t>>]]
    /\ lost' = IF o = to THEN lost ELSE lost \cup LostWith(<<to, t>>)

AddPower(c, n) ==
    /\ lock[c] \in {"None", "Deck"}
    /\ power' = [power EXCEPT ![c] = n]
    /\ UNCHANGED <<lock, lost>>

(* place, replace, remove_place: any cards leave and enter the owner's     *)
(* deck.                                                                   *)
Relock(o, leaving, entering) ==
    /\ \A t \in leaving : lock[<<o, t>>] = "Deck"
    /\ \A t \in entering : lock[<<o, t>>] = "None"
    /\ lock' = [c \in Cards |->
                    IF c[1] = o /\ c[2] \in leaving THEN "None"
                    ELSE IF c[1] = o /\ c[2] \in entering THEN "Deck"
                    ELSE lock[c]]
    /\ UNCHANGED <<power, lost>>

-----------------------------------------------------------------------------
(* The calls of stakes, fights and loans.                                  *)

(* A position on the card, or one on a predecessor it was taken from.      *)
InReach(c) ==
    /\ lock[c] # Absent
    /\ lock[c] = "Stake" \/ <<c, "Stake">> \in lost

(* What the decks lose when a record releases a card that is in one.       *)
LostByRelease(c) == IF lock[c] = "Deck" THEN {<<c, "Deck">>} ELSE {}

(* stake, open_position, lend, borrow.                                     *)
Take(c, n) ==
    /\ lock[c] = "None"
    /\ n <= power[c]
    /\ Become(c, "Stake", n)
    /\ UNCHANGED lost

(* touch_loans.                                                            *)
Cut(c, n) ==
    /\ InReach(c)
    /\ n <= power[c]
    /\ power' = [power EXCEPT ![c] = n]
    /\ UNCHANGED <<lock, lost>>

(* unstake, repay, withdraw; close_position and check_liquidation.         *)
Release(c, n) ==
    /\ InReach(c)
    /\ Become(c, "None", n)
    /\ lost' = lost \cup LostByRelease(c)

(* close_position and check_liquidation when no power is left.             *)
Remove(c) ==
    /\ InReach(c)
    /\ Become(c, Absent, 0)
    /\ lost' = lost \cup LostByRelease(c)

-----------------------------------------------------------------------------

(* The calls decide themselves which power a card has next.                *)
OwnerStep ==
    \/ \E c \in Cards : \/ Mint(c)
                        \/ Burn(c)
                        \/ power'[c] \in Powers /\ AddPower(c, power'[c])
    \/ \E o, to \in Owners, t \in TokenIds : Transfer(o, to, t)
    \/ \E o \in Owners, leaving, entering \in SUBSET TokenIds :
            Relock(o, leaving, entering)

OtherStep ==
    \E c \in Cards :
        \/ /\ power'[c] \in Powers
           /\ \/ Take(c, power'[c])
              \/ Cut(c, power'[c])
              \/ Release(c, power'[c])
        \/ Remove(c)

Next == OwnerStep \/ OtherStep

Spec == Init /\ [][Next]_cardVars
=============================================================================
