---------------------------- MODULE StakesFights -----------------------------
(***************************************************************************)
(* Stakes and leveraged positions of cards                                 *)
(* (contracts/nft/src/actions/stake.rs and fight.rs) over the cards of     *)
(* CardStore.                                                              *)
(*                                                                         *)
(* A stake or a fight is a record under (owner, token, category), where    *)
(* the category is the one the caller names; what ties it to the card is   *)
(* the card's lock and nothing else.  Each kind of record has its paged    *)
(* index, here the list of KeyList that PagedIndex shows the pages to be.  *)
(* The price of the oracle is external: any price of a set, at any time.   *)
(* The admin may change fee, interest and rate between two calls, so each  *)
(* call takes any of them.  Where the fees and profits go (the pot, see    *)
(* PotRound!Accumulate, and Balance.haw_ai_power) is left out, as are      *)
(* TERRY and the end of a staking period, which may come at any time.      *)
(***************************************************************************)
EXTENDS CardStore, Sequences

CONSTANTS
    Categories,
    StakeCategories,\* Skill and Leader in the code
    Interests,      \* stake_interest_percentages
    PowerFees,      \* power_action_fee, in percent
    Amounts,        \* power_staked of open_position
    Leverages,
    Prices,         \* prices the oracle may report
    Rates,          \* power_to_usdc_rate, in 1/10000 USDC; an i128 nobody checks
    ProfitShare,    \* haw_ai_percentage: the pot's part of a profit
    MaxOpenings     \* bound of the model on calls of stake and open_position

Positions == Owners \X TokenIds \X Categories
CardOf(k) == <<k[1], k[2]>>

ASSUME PositionAssumption ==
    /\ StakeCategories \subseteq Categories
    /\ Interests \subseteq Nat
    /\ PowerFees \subseteq Nat
    /\ Amounts \subseteq Nat \ {0}
    /\ Leverages \subseteq 1..100
    /\ Prices \subseteq Nat
    /\ Rates \subseteq Int
    /\ ProfitShare \in 0..100
    /\ MaxOpenings \in Nat

VARIABLES
    stakes,         \* DataKey::Stake, a partial function on Positions
    fights,         \* DataKey::Fight, likewise
    stakeList,      \* the paged index of the stakes
    fightList,      \* the paged index of the fights
    totalStaked,    \* State.total_staked_power
    openings        \* calls of stake and open_position so far

recordVars == <<stakes, fights, stakeList, fightList>>
vars == <<storeVars, recordVars, totalStaked, openings>>

Sides == {"Long", "Short"}
Stakes == [power : Nat, interest : Nat]
Fights == [power : Nat, trigger : Nat \ {0}, side : Sides, leverage : 1..100]

TypeOK ==
    /\ CardTypeOK
    /\ DOMAIN stakes \subseteq Positions
    /\ stakes \in [DOMAIN stakes -> Stakes]
    /\ DOMAIN fights \subseteq Positions
    /\ fights \in [DOMAIN fights -> Fights]
    /\ stakeList \in Seq(Positions)
    /\ fightList \in Seq(Positions)
    /\ totalStaked \in Nat
    /\ openings \in Nat

Init ==
    /\ CardInit({})
    /\ stakes = << >>
    /\ fights = << >>
    /\ stakeList = << >>
    /\ fightList = << >>
    /\ totalStaked = 0
    /\ openings = 0

-----------------------------------------------------------------------------
(* Records and their index.                                                *)

StakeIndex == INSTANCE KeyList WITH Keys <- Positions, keys <- stakeList
FightIndex == INSTANCE KeyList WITH Keys <- Positions, keys <- fightList

Put(f, k, r) == [x \in DOMAIN f \cup {k} |-> IF x = k THEN r ELSE f[x]]
Drop(f, k) == [x \in DOMAIN f \ {k} |-> f[x]]
PositionIn(list, k) == CHOOSE i \in 1..Len(list) : list[i] = k

WriteStake(k, s) ==
    /\ stakes' = Put(stakes, k, s)
    /\ IF k \in StakeIndex!Listed THEN UNCHANGED stakeList ELSE StakeIndex!Add(k)

RemoveStake(k) ==
    /\ stakes' = Drop(stakes, k)
    /\ IF k \in StakeIndex!Listed
       THEN StakeIndex!Remove(PositionIn(stakeList, k))
       ELSE UNCHANGED stakeList

WriteFight(k, f) ==
    /\ fights' = Put(fights, k, f)
    /\ IF k \in FightIndex!Listed THEN UNCHANGED fightList ELSE FightIndex!Add(k)

(* Mutant: the index keeps the key of a removed fight.                     *)
RemoveFight_KeepsKey(k) ==
    /\ fights' = Drop(fights, k)
    /\ UNCHANGED fightList

RemoveFight(k) ==
    /\ fights' = Drop(fights, k)
    /\ IF k \in FightIndex!Listed
       THEN FightIndex!Remove(PositionIn(fightList, k))
       ELSE UNCHANGED fightList

(* update_nft: the card gets a new power and lock.                         *)
UpdateCard(c, n, l) ==
    /\ lock' = [lock EXCEPT ![c] = l]
    /\ power' = [power EXCEPT ![c] = n]
    /\ UNCHANGED listed

Opening ==
    /\ openings < MaxOpenings
    /\ openings' = openings + 1

OthersUnchanged == UNCHANGED <<wallet, cardCalls, lost, doubled>>

PowerFee(rate, n) == (rate * n) \div 100

-----------------------------------------------------------------------------
(* Stakes.                                                                 *)

(* What a card keeps while it is staked.                                   *)
PowerLeft(c) == 0

(* stake: the whole power of the card, less the fee.  The admin's rate has *)
(* no limit; checked_sub refuses a fee above the power.                    *)
Stake(k, interest, rate) ==
    LET c == CardOf(k)
        staked == power[c] - PowerFee(rate, power[c])
    IN  /\ Opening
        /\ k[3] \in StakeCategories
        /\ lock[c] = "None"
        /\ PowerFee(rate, power[c]) <= power[c]
        /\ UpdateCard(c, PowerLeft(c), "Stake")
        /\ WriteStake(k, [power |-> staked, interest |-> interest])
        /\ totalStaked' = totalStaked + staked
        /\ OthersUnchanged
        /\ UNCHANGED <<fights, fightList>>

(* The guard of increase_stake_power.  Its effect is not modelled, because *)
(* the guard never holds: see NothingToIncrease.                           *)
CanIncreaseStakePower(k, amount) ==
    /\ amount > 0
    /\ lock[CardOf(k)] = "Stake"
    /\ power[CardOf(k)] >= amount
    /\ k \in DOMAIN stakes

(* Mutant: no cap.                                                         *)
Capped_Not(n) == n

(* Every return of power to a card is capped at max_power.                 *)
Capped(n) == Least(n, MaxPower)

(* unstake: power and interest go back to the card.  total_staked_power is *)
(* not touched.                                                            *)
Unstake(k) ==
    LET c == CardOf(k)
        earned == (stakes[k].power * stakes[k].interest) \div 100
    IN  /\ lock[c] = "Stake"
        /\ k \in DOMAIN stakes
        /\ UpdateCard(c, Capped(power[c] + stakes[k].power + earned), "None")
        /\ RemoveStake(k)
        /\ OthersUnchanged
        /\ UNCHANGED <<fights, fightList, totalStaked, openings>>

-----------------------------------------------------------------------------
(* Fights.                                                                 *)

Abs(n) == IF n >= 0 THEN n ELSE -n

(* i128 division truncates toward zero.                                    *)
TruncDiv(m, n) ==
    LET q == Abs(m) \div Abs(n)
    IN  IF (m >= 0) = (n > 0) THEN q ELSE -q

(* open_position: the category is not looked at; the staked power and the  *)
(* fee leave the card.                                                     *)
OpenPosition(k, side, leverage, amount, price, rate) ==
    LET c == CardOf(k)
        taken == amount + PowerFee(rate, amount)
    IN  /\ Opening
        /\ lock[c] = "None"
        /\ power[c] >= taken
        /\ price > 0
        /\ UpdateCard(c, power[c] - taken, "Fight")
        /\ WriteFight(k, [power |-> amount, trigger |-> price,
                          side |-> side, leverage |-> leverage])
        /\ OthersUnchanged
        /\ UNCHANGED <<stakes, stakeList, totalStaked>>

(* close_position's profit or loss, in POWER: the size of the position in  *)
(* USDC, its change in value, and back at the rate of that moment.         *)
PnlPower(f, price, rate) ==
    LET size == TruncDiv(f.power * rate, 10000) * f.leverage
        up == TruncDiv(size * (price - f.trigger), f.trigger)
        pnl == IF f.side = "Long" THEN up ELSE -up
    IN  TruncDiv(pnl * 10000, rate)

(* Mutant: a loss beyond the stake is taken from the card.                 *)
StakeAfterPnl_Unlimited(f, price, rate) == f.power + PnlPower(f, price, rate)

(* What is left of the staked power: a profit is shared with the pot, a    *)
(* loss stops at zero.                                                     *)
StakeAfterPnl(f, price, rate) ==
    LET pnl == PnlPower(f, price, rate)
        share == IF pnl > 0 THEN (pnl * ProfitShare) \div 100 ELSE 0
        left == f.power + pnl - share
    IN  IF left > 0 THEN left ELSE 0

(* The card comes back, or disappears when it has no power left.           *)
ReleaseCard(c, n) ==
    /\ IF n = 0 THEN RemoveCard(c) ELSE UpdateCard(c, n, "None")
    /\ lost' = lost \cup (IF lock[c] = "Deck" THEN LostWith(c) ELSE {})
    /\ UNCHANGED <<wallet, cardCalls, doubled>>

(* close_position: it asks for the record, not for the lock; a rate of 0   *)
(* makes the division fail.                                                *)
ClosePosition(k, price, rate) ==
    LET c == CardOf(k)
    IN  /\ k \in DOMAIN fights
        /\ Exists(c)
        /\ price > 0
        /\ rate # 0
        /\ ReleaseCard(c, Capped(power[c] + StakeAfterPnl(fights[k], price, rate)))
        /\ RemoveFight(k)
        /\ UNCHANGED <<stakes, stakeList, totalStaked, openings>>

(* Mutant: the margin of a leveraged position is taken for its size.       *)
LiquidationPrice_NoLeverage(f) ==
    IF f.side = "Long" THEN f.trigger \div 2 ELSE f.trigger + f.trigger \div 4

Million == 1000000

(* get_liquidation_price, in millionths.                                   *)
LiquidationPrice(f) ==
    LET part == Million \div f.leverage
    IN  IF f.side = "Long"
        THEN (f.trigger * (Million - part)) \div Million
        ELSE (f.trigger * (Million + part)) \div Million

Liquidatable(f, price) ==
    /\ price > 0
    /\ IF f.side = "Long" THEN price <= LiquidationPrice(f)
                          ELSE price >= LiquidationPrice(f)

(* Mutant: the record of a liquidated position stays.                      *)
CheckLiquidation_KeepsFight(k, price) ==
    /\ k \in DOMAIN fights
    /\ Liquidatable(fights[k], price)
    /\ Exists(CardOf(k))
    /\ ReleaseCard(CardOf(k), power[CardOf(k)])
    /\ UNCHANGED <<recordVars, totalStaked, openings>>

(* check_liquidation, called by anybody: the staked power is gone.         *)
CheckLiquidation(k, price) ==
    /\ k \in DOMAIN fights
    /\ Liquidatable(fights[k], price)
    /\ Exists(CardOf(k))
    /\ ReleaseCard(CardOf(k), power[CardOf(k)])
    /\ RemoveFight(k)
    /\ UNCHANGED <<stakes, stakeList, totalStaked, openings>>

-----------------------------------------------------------------------------

(* Decks are reduced to their lock.                                        *)
EnterDeck(c) ==
    /\ CardCall
    /\ lock[c] = "None"
    /\ UpdateCard(c, power[c], "Deck")
    /\ UNCHANGED <<wallet, lost, doubled>>

LeaveDeck(c) ==
    /\ lock[c] = "Deck"
    /\ UpdateCard(c, power[c], "None")
    /\ OthersUnchanged

CardStep ==
    /\ \/ \E o \in Owners : CreateUser(o)
       \/ \E c \in Cards : \/ Mint(c)
                           \/ Burn(c)
                           \/ EnterDeck(c)
                           \/ LeaveDeck(c)
                           \/ \E amount \in TopUps : AddPowerToCard(c, amount)
       \/ \E o, to \in Owners, t \in TokenIds : Transfer(o, to, t)
    /\ UNCHANGED <<recordVars, totalStaked, openings>>

StakeStep ==
    \E k \in Positions :
        \/ \E interest \in Interests, rate \in PowerFees : Stake(k, interest, rate)
        \/ Unstake(k)

FightStep ==
    \E k \in Positions, price \in Prices :
        \/ \E side \in Sides, leverage \in Leverages, amount \in Amounts,
              rate \in PowerFees : OpenPosition(k, side, leverage, amount, price, rate)
        \/ \E rate \in Rates : ClosePosition(k, price, rate)
        \/ CheckLiquidation(k, price)

Next == CardStep \/ StakeStep \/ FightStep

Spec == Init /\ [][Next]_vars

-----------------------------------------------------------------------------
(* Properties.                                                             *)

(* No position was open on the card when it was burnt or overwritten.      *)
NeverLost(c) == <<c, "Stake">> \notin lost /\ <<c, "Fight">> \notin lost

StakesOn(c) == {k \in DOMAIN stakes : CardOf(k) = c}
FightsOn(c) == {k \in DOMAIN fights : CardOf(k) = c}

(* A staked or fighting card always has a record through which its owner   *)
(* gets it back, and a staked one has all its power there.  A card that    *)
(* was never lost under a position has just the one record its lock speaks *)
(* of, whatever categories the callers named.                              *)
LocksBacked ==
    \A c \in Cards :
        /\ lock[c] = "Stake" => StakesOn(c) # {} /\ power[c] = 0
        /\ lock[c] = "Fight" => FightsOn(c) # {}
        /\ NeverLost(c) =>
            /\ \A j, k \in StakesOn(c) : lock[c] = "Stake" /\ j = k
            /\ \A j, k \in FightsOn(c) : lock[c] = "Fight" /\ j = k

(* No key is listed twice.                                                 *)
Distinct(list) == \A i, j \in 1..Len(list) : list[i] = list[j] => i = j

(* The paged indexes list exactly the open stakes and fights, each once.   *)
PositionsListed ==
    /\ StakeIndex!Listed = DOMAIN stakes
    /\ Distinct(stakeList)
    /\ FightIndex!Listed = DOMAIN fights
    /\ Distinct(fightList)

(* The most a card may have: the metadata's max_power, or the power it is  *)
(* minted with, which create_metadata does not compare with max_power.     *)
TopPower == IF InitialPower <= MaxPower THEN MaxPower ELSE InitialPower

(* The card and its position together never hold more than a card may      *)
(* have, so neither staking nor fighting is a way past the cap.            *)
PowerCapped ==
    \A c \in Cards :
        /\ power[c] <= TopPower
        /\ \A k \in StakesOn(c) :
            NeverLost(c) => power[c] + stakes[k].power <= TopPower
        /\ \A k \in FightsOn(c) :
            NeverLost(c) => power[c] + fights[k].power <= TopPower

(* increase_stake_power takes power from a staked card, which has none     *)
(* (LocksBacked), and so refuses every call.                               *)
NothingToIncrease ==
    \A k \in Positions, amount \in 1..TopPower : ~CanIncreaseStakePower(k, amount)

(* m / n rounded up.                                                       *)
CeilDiv(m, n) == (m + n - 1) \div n

(* Whoever comes first, the owner who closes or the liquidator, the card   *)
(* gets the same: at a price that allows liquidation closing would return  *)
(* no more of the stake than the roundings make up: twice one USDC, once   *)
(* one unit of the price and once a millionth of it, times the leverage.   *)
LiquidationFair ==
    \A k \in DOMAIN fights, price \in Prices, rate \in Rates \ {0} :
        LET f == fights[k]
            size == f.power * f.leverage
        IN  Liquidatable(f, price) =>
                StakeAfterPnl(f, price, rate)
                    <= CeilDiv(2 * 10000, Abs(rate)) + CeilDiv(size, f.trigger)
                                                + CeilDiv(size, Million)

(* To the decks a fight is a stake: seen so, the calls of this module do   *)
(* to a card what CardUse says the other components do, and no more.       *)
Held(l) == IF l = "Fight" THEN "Stake" ELSE l

Use == INSTANCE CardUse
    WITH Powers <- 0..TopPower,
         lock <- [c \in Cards |-> Held(lock[c])],
         lost <- {<<e[1], Held(e[2])>> : e \in lost}

UseSpec == Use!Spec

(* An owner's list names each of the owner's cards once and nothing else.  *)
(* contract.rs says so of move_nft, which does not keep it: see the run    *)
(* CardOverwritten.                                                        *)
OwnerListsConsistent ==
    \A c \in Cards : listed[c] = IF Exists(c) THEN 1 ELSE 0
=============================================================================
