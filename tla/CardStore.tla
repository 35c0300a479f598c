------------------------------ MODULE CardStore ------------------------------
(***************************************************************************)
(* Cards, the lists of owned cards and the users' POWER                    *)
(* (contracts/nft/src/nft_info.rs, user_info.rs, actions/burn.rs and the   *)
(* calls mint, transfer, create_user and add_power_to_card of contract.rs).*)
(*                                                                         *)
(* A card is stored under (owner, token id): two owners may each have a    *)
(* card of the same token.  The list OwnerOwnedCardIds(owner) is reduced   *)
(* to how often it names each token.  Prices, levels and TERRY are left    *)
(* out: they decide who may pay for a call, not what the call does to      *)
(* cards.                                                                  *)
(*                                                                         *)
(* The module has no Next of its own: DeckTotals and StakesFights extend   *)
(* it with the actions that lock cards.                                    *)
(***************************************************************************)
EXTENDS Integers, FiniteSets

CONSTANTS
    Owners,
    TokenIds,
    Absent,         \* the lock of a card that is not in storage
    InitialPower,   \* initial_power of the cards' metadata
    MaxPower,       \* max_power of the cards' metadata
    UserPower,      \* POWER of a new user (100 in the code)
    TopUps,         \* amounts of add_power_to_card
    BurnReceive,    \* burn_receive_percentage
    MintedCards,    \* cards that exist when the model starts
    MaxCardCalls    \* bound of the model on the calls of this module

Cards == Owners \X TokenIds
Locks == {"None", "Stake", "Fight", "Deck"}

ASSUME CardAssumption ==
    /\ Absent \notin Locks
    /\ InitialPower \in Nat
    /\ MaxPower \in Nat
    /\ UserPower \in Nat
    /\ TopUps \subseteq Nat
    /\ BurnReceive \in 0..100
    /\ MintedCards \subseteq Cards
    /\ MaxCardCalls \in Nat

VARIABLES
    lock,       \* Card.locked_by_action, Absent without a card
    power,      \* Card.power, 0 without a card
    listed,     \* listed[<<o, t>>]: how often t is in OwnerOwnedCardIds(o)
    wallet,     \* User.power
    cardCalls,  \* calls of this module so far
    lost,       \* ghost: <<card, lock>> of cards burnt or overwritten while
                \* locked, or freed from a deck by the record of another card
    doubled     \* ghost: cards transferred to an owner who had listed the token

storeVars == <<lock, power, listed, wallet, cardCalls, lost, doubled>>

Exists(c) == lock[c] # Absent

CardTypeOK ==
    /\ lock \in [Cards -> Locks \cup {Absent}]
    /\ power \in [Cards -> Nat]
    /\ listed \in [Cards -> Nat]
    /\ wallet \in [Owners -> Nat]
    /\ cardCalls \in Nat
    /\ lost \subseteq Cards \X Locks
    /\ doubled \subseteq Cards

(* MintedCards exist, those in decked are in a deck.                       *)
CardInit(decked) ==
    /\ lock = [c \in Cards |-> IF c \in decked THEN "Deck"
                               ELSE IF c \in MintedCards THEN "None" ELSE Absent]
    /\ power = [c \in Cards |-> IF c \in MintedCards THEN InitialPower ELSE 0]
    /\ listed = [c \in Cards |-> IF c \in MintedCards THEN 1 ELSE 0]
    /\ wallet = [o \in Owners |-> UserPower]
    /\ cardCalls = 0
    /\ lost = {}
    /\ doubled = {}

-----------------------------------------------------------------------------
(* Helpers.                                                                *)

Least(m, n) == IF m <= n THEN m ELSE n
SaturatingSub(m, n) == IF n <= m THEN m - n ELSE 0
OneLess(n) == SaturatingSub(n, 1)

CardCall ==
    /\ cardCalls < MaxCardCalls
    /\ cardCalls' = cardCalls + 1

(* What a card leaves behind when it disappears while an action has it.    *)
LostWith(c) == IF lock[c] \in {"None", Absent} THEN {} ELSE {<<c, lock[c]>>}

-----------------------------------------------------------------------------
(* Calls.                                                                  *)

(* create_user: the admin may call it for a user who exists already.       *)
CreateUser(o) ==
    /\ CardCall
    /\ wallet' = [wallet EXCEPT ![o] = UserPower]
    /\ UNCHANGED <<lock, power, listed, lost, doubled>>

(* mint: add_card_to_owner looks for the token in the list before adding.  *)
Mint(c) ==
    /\ CardCall
    /\ ~Exists(c)
    /\ lock' = [lock EXCEPT ![c] = "None"]
    /\ power' = [power EXCEPT ![c] = InitialPower]
    /\ listed' = [listed EXCEPT ![c] = IF @ = 0 THEN 1 ELSE @]
    /\ UNCHANGED <<wallet, lost, doubled>>

(* Mutant: the token is appended to the recipient's list only.             *)
Transfer_KeepsEntry(o, to, t) ==
    /\ CardCall
    /\ lock[<<o, t>>] = "None"
    /\ lock' = [lock EXCEPT ![<<o, t>>] = Absent, ![<<to, t>>] = "None"]
    /\ power' = [power EXCEPT ![<<o, t>>] = 0, ![<<to, t>>] = power[<<o, t>>]]
    /\ listed' = [listed EXCEPT ![<<to, t>>] = @ + 1]
    /\ lost' = IF o = to THEN lost ELSE lost \cup LostWith(<<to, t>>)
    /\ doubled' = IF o # to /\ listed[<<to, t>>] > 0
                  THEN doubled \cup {<<to, t>>} ELSE doubled
    /\ UNCHANGED wallet

(* transfer and move_nft.  The sender's card is removed and then written   *)
(* for the recipient, over a card of the same token if there is one; the   *)
(* recipient's list gets the token without a look.                         *)
Transfer(o, to, t) ==
    /\ CardCall
    /\ lock[<<o, t>>] = "None"
    /\ lock' = [lock EXCEPT ![<<o, t>>] = Absent, ![<<to, t>>] = "None"]
    /\ power' = [power EXCEPT ![<<o, t>>] = 0, ![<<to, t>>] = power[<<o, t>>]]
    /\ LET less == [listed EXCEPT ![<<o, t>>] = OneLess(@)]
       IN  listed' = [less EXCEPT ![<<to, t>>] = @ + 1]
    /\ lost' = IF o = to THEN lost ELSE lost \cup LostWith(<<to, t>>)
    /\ doubled' = IF o # to /\ listed[<<to, t>>] > 0
                  THEN doubled \cup {<<to, t>>} ELSE doubled
    /\ UNCHANGED wallet

(* POWER a burn returns to the owner; TERRY is left out.                   *)
BurnGain(c) == ((InitialPower + power[c] \div 2) * BurnReceive) \div 100

(* remove_owner_card and remove_nft: the first entry of the list goes.     *)
RemoveCard(c) ==
    /\ lock' = [lock EXCEPT ![c] = Absent]
    /\ power' = [power EXCEPT ![c] = 0]
    /\ listed' = [listed EXCEPT ![c] = OneLess(@)]

(* burn does not look at the lock.                                         *)
Burn(c) ==
    /\ CardCall
    /\ Exists(c)
    /\ wallet' = [wallet EXCEPT ![c[1]] = @ + BurnGain(c)]
    /\ lost' = lost \cup LostWith(c)
    /\ RemoveCard(c)
    /\ UNCHANGED doubled

(* add_power_to_card: the whole amount is paid, also what max_power cuts   *)
(* off.  The part that concerns the deck is DeckTotals' affair.            *)
AddPowerToCard(c, amount) ==
    /\ CardCall
    /\ amount > 0
    /\ lock[c] \in {"None", "Deck"}
    /\ wallet[c[1]] >= amount
    /\ power' = [power EXCEPT ![c] = Least(@ + amount, MaxPower)]
    /\ wallet' = [wallet EXCEPT ![c[1]] = @ - amount]
    /\ UNCHANGED <<lock, listed, lost, doubled>>

-----------------------------------------------------------------------------
(* The lists of owned cards: whoever has a card finds it in the list, and  *)
(* as long as no token was transferred to an owner who already listed it,  *)
(* the list names exactly the cards the owner has, each once.              *)
CardsListed ==
    \A c \in Cards :
        /\ Exists(c) => listed[c] >= 1
        /\ c \notin doubled => listed[c] = IF Exists(c) THEN 1 ELSE 0
=============================================================================
