------------------------------ MODULE Lending -------------------------------
(***************************************************************************)
(* POWER lent to and borrowed from the common pool                         *)
(* (contracts/nft/src/actions/lending.rs), and the calls on cards and      *)
(* wallets that meet it: mint, transfer, burn and add_power_to_card.       *)
(*                                                                         *)
(* A lender gives POWER of a card to the pool, a borrower takes POWER of   *)
(* the pool to the wallet against a card as collateral.  A lending whose   *)
(* interest the account of paid interests does not cover raises the        *)
(* liquidation index; the loans catch up with the index one by one when a  *)
(* keeper touches them, and lose reserve in proportion.                    *)
(*                                                                         *)
(* Time and the curve of the APY are abstracted to their results: the      *)
(* interest of a position and the factor of a reserve are any values of a  *)
(* small set.  Every action is one call.                                   *)
(***************************************************************************)
EXTENDS Integers, FiniteSets, Functions

CONSTANTS
    Owners,
    TokenIds,
    Categories,     \* Resource and Leader; named by the caller, not by the card
    Absent,         \* the lock of a card that is not in storage
    Amounts,        \* gross amounts of lend and borrow
    TopUps,         \* amounts of add_power_to_card
    Interests,      \* interests a position may have earned when it is closed
    Horizons,       \* APY * T_max of a loan, as a fraction of Scale
    Scale,          \* the fixed point of index and horizon (1000000)
    PowerFees,      \* power_action_fee, in percent; the admin may change it
    BurnReceive,    \* burn_receive_percentage
    InitialPower,   \* initial_power of the cards' metadata
    MaxPower,       \* max_power of the cards' metadata
    MintedCards,    \* cards that exist when the model starts
    MaxCardCalls,   \* bound of the model on calls of mint, transfer and burn
    MaxDeficits     \* bound of the model on the interest paid without cover

Cards == Owners \X TokenIds
Positions == Owners \X TokenIds \X Categories
CardOf(k) == <<k[1], k[2]>>
Locks == {"None", "Lend", "Borrow", "Deck"}

ASSUME LendingAssumption ==
    /\ IsFiniteSet(Owners)
    /\ IsFiniteSet(TokenIds)
    /\ Absent \notin Locks \cup {"Stake"}
    /\ Amounts \subseteq Nat
    /\ TopUps \subseteq Nat
    /\ Interests \subseteq Nat
    /\ Scale \in Nat \ {0}
    /\ Horizons \subseteq 0..(Scale - 1)
    /\ PowerFees \subseteq Nat
    /\ BurnReceive \in 0..100
    /\ InitialPower \in Nat
    /\ MaxPower \in Nat
    /\ MintedCards \subseteq Cards
    /\ IsFiniteSet(MintedCards)
    /\ MaxCardCalls \in Nat
    /\ MaxDeficits \in Nat

VARIABLES
    lock,           \* Card.locked_by_action, Absent without a card
    power,          \* Card.power, 0 without a card
    wallet,         \* User.power
    potPower,       \* Balance.haw_ai_power
    offer,          \* State.total_offer
    borrowed,       \* State.total_borrowed_power
    loans,          \* State.active_loans
    interest,       \* State.total_interest
    lIndex,         \* State.l_index
    wTotal,         \* State.w_total
    lending,        \* Lending(k).power, a partial function on Positions
    borrowing,      \* Borrowing(k).power and BorrowMeta(k): written and removed
                    \* together, weight and reserve_remaining always equal
    cardCalls,      \* calls of mint, transfer and burn so far
    outside,        \* POWER that came from outside the lending calls, net
    deficits,       \* interest paid to lenders that no borrower had paid
    haircuts,       \* reserve taken from loans by touch_loans
    cuts,           \* POWER of collateral cards removed by touch_loans
    lost            \* <<card, lock>> of cards burnt or overwritten while locked

cardVars == <<lock, power>>
poolVars == <<offer, borrowed, loans, interest, lIndex, wTotal>>
recordVars == <<lending, borrowing>>
ghostVars == <<cardCalls, outside, deficits, haircuts, cuts, lost>>
vars == <<cardVars, wallet, potPower, poolVars, recordVars, ghostVars>>

Loans == [power : Nat, last : Nat, reserve : Nat]

TypeOK ==
    /\ lock \in [Cards -> Locks \cup {Absent}]
    /\ power \in [Cards -> Nat]
    /\ wallet \in [Owners -> Nat]
    /\ potPower \in Nat
    /\ offer \in Nat
    /\ borrowed \in Nat
    /\ loans \in Nat
    /\ interest \in Nat
    /\ lIndex \in Nat
    /\ wTotal \in Nat
    /\ DOMAIN lending \subseteq Positions
    /\ lending \in [DOMAIN lending -> Nat]
    /\ DOMAIN borrowing \subseteq Positions
    /\ borrowing \in [DOMAIN borrowing -> Loans]
    /\ cardCalls \in Nat
    /\ outside \in Int
    /\ deficits \in Nat
    /\ haircuts \in Nat
    /\ cuts \in Nat
    /\ lost \subseteq Cards \X Locks

LoanPower == [k \in DOMAIN borrowing |-> borrowing[k].power]
LoanReserve == [k \in DOMAIN borrowing |-> borrowing[k].reserve]

SumPower == SumFunctionOnSet(power, Cards)
SumWallet == SumFunctionOnSet(wallet, Owners)
SumLent == SumFunctionOnSet(lending, DOMAIN lending)
SumBorrowed == SumFunctionOnSet(LoanPower, DOMAIN borrowing)
SumReserve == SumFunctionOnSet(LoanReserve, DOMAIN borrowing)

(* No positions yet; the owners of MintedCards have minted them.           *)
Init ==
    /\ lock = [c \in Cards |-> IF c \in MintedCards THEN "None" ELSE Absent]
    /\ power = [c \in Cards |-> IF c \in MintedCards THEN InitialPower ELSE 0]
    /\ wallet = [o \in Owners |-> 0]
    /\ potPower = 0
    /\ offer = 0
    /\ borrowed = 0
    /\ loans = 0
    /\ interest = 0
    /\ lIndex = 0
    /\ wTotal = 0
    /\ lending = << >>
    /\ borrowing = << >>
    /\ cardCalls = 0
    /\ outside = InitialPower * Cardinality(MintedCards)
    /\ deficits = 0
    /\ haircuts = 0
    /\ cuts = 0
    /\ lost = {}

-----------------------------------------------------------------------------
(* Arithmetic and records.                                                 *)

Least(m, n) == IF m <= n THEN m ELSE n
SaturatingSub(m, n) == IF n <= m THEN m - n ELSE 0

(* The fee on an amount, in percent and rounded down.  Nothing bounds the  *)
(* percentage, so it may exceed the amount.                                *)
FeeOf(n, fee) == (n * fee) \div 100

Put(f, k, v) == [x \in DOMAIN f \cup {k} |-> IF x = k THEN v ELSE f[x]]
Drop(f, k) == [x \in DOMAIN f \ {k} |-> f[x]]

(* The interest of a position of n POWER: calculate_apy is 0 when nothing  *)
(* is borrowed, and calculate_interest is then 0, as it is for n = 0.      *)
InterestOn(n) == IF n = 0 \/ borrowed = 0 THEN {0} ELSE Interests

(* Reserve of a loan of n POWER, P * k / (1 - k).                          *)
ReserveFor(n, horizon) == (n * horizon) \div (Scale - horizon)

-----------------------------------------------------------------------------
(* lend: the gross amount leaves the card, the fee goes to the pot and the *)
(* rest to the pool.                                                       *)
Lend(k, gross, fee) ==
    LET c == CardOf(k)
        net == SaturatingSub(gross, FeeOf(gross, fee))
    IN  /\ lock[c] = "None"
        /\ gross <= power[c]
        /\ power' = [power EXCEPT ![c] = @ - gross]
        /\ lock' = [lock EXCEPT ![c] = "Lend"]
        /\ potPower' = potPower + FeeOf(gross, fee)
        /\ offer' = offer + net
        /\ lending' = Put(lending, k, net)
        /\ UNCHANGED <<wallet, borrowed, loans, interest, lIndex, wTotal,
                       borrowing, ghostVars>>

(* Mutant: the capacity check forgets the reserve.                         *)
HasCapacity_NoReserve(held, net, charge, reserve) ==
    net + charge + (SaturatingSub(held, charge) * 5) \div 100 <= held

(* The collateral check of borrow: loan, reserve, fee and a buffer of 5%.  *)
HasCapacity(held, net, charge, reserve) ==
    net + reserve + charge + (SaturatingSub(held, charge) * 5) \div 100 <= held

Borrow(k, gross, fee, horizon) ==
    LET c == CardOf(k)
        charge == FeeOf(gross, fee)
        net == SaturatingSub(gross, charge)
        reserve == ReserveFor(net, horizon)
    IN  /\ net > 0
        /\ lock[c] = "None"
        /\ net <= offer
        /\ HasCapacity(power[c], net, charge, reserve)
        /\ offer' = offer - net
        /\ borrowed' = borrowed + net
        /\ loans' = loans + 1
        /\ wTotal' = wTotal + reserve
        /\ lock' = [lock EXCEPT ![c] = "Borrow"]
        /\ power' = [power EXCEPT ![c] = @ - charge]
        /\ potPower' = potPower + charge
        /\ wallet' = [wallet EXCEPT ![k[1]] = @ + net]
        /\ borrowing' = Put(borrowing, k,
                            [power |-> net, last |-> lIndex, reserve |-> reserve])
        /\ UNCHANGED <<interest, lIndex, lending, ghostVars>>

(* Mutant: the weight of a repaid loan stays in the total.                 *)
WeightAfterRepay_Kept(k) == wTotal

WeightAfterRepay(k) == SaturatingSub(wTotal, borrowing[k].reserve)

(* Mutant: principal and interest both go to the pool.                     *)
PoolAfterRepay_WithInterest(k, i) == offer + borrowing[k].power + i

PoolAfterRepay(k, i) == offer + borrowing[k].power

(* repay: from the wallet first, the rest from the collateral.             *)
Repay(k) ==
    LET c == CardOf(k)
        principal == borrowing[k].power
    IN  /\ lock[c] = "Borrow"
        /\ k \in DOMAIN borrowing
        /\ principal <= borrowed
        /\ \E i \in InterestOn(principal) :
            LET required == principal + i
                fromUser == Least(required, wallet[k[1]])
            IN  /\ required <= wallet[k[1]] + power[c]
                /\ interest' = interest + i
                /\ offer' = PoolAfterRepay(k, i)
                /\ power' = [power EXCEPT ![c] = @ - (required - fromUser)]
                /\ wallet' = [wallet EXCEPT ![k[1]] = @ - fromUser]
        /\ borrowed' = borrowed - principal
        /\ loans' = SaturatingSub(loans, 1)
        /\ lock' = [lock EXCEPT ![c] = "None"]
        /\ wTotal' = WeightAfterRepay(k)
        /\ borrowing' = Drop(borrowing, k)
        /\ UNCHANGED <<potPower, lIndex, lending, ghostVars>>

(* How much a deficit raises the index: deficit / total weight.            *)
IndexRise(deficit) == IF wTotal > 0 THEN (deficit * Scale) \div wTotal ELSE 0

(* Mutant: withdraw leaves the card locked.                                *)
LockAfterWithdraw_Kept(c) == lock

LockAfterWithdraw(c) == [lock EXCEPT ![c] = "None"]

(* Mutant: the account of paid interests is overdrawn.                     *)
InterestLeft_Overdrawn(i) == interest - i

InterestLeft(i) == SaturatingSub(interest, i)

(* withdraw: the principal and the whole interest, less its fee, return to *)
(* the card.  What the account of interests lacks is a deficit.            *)
Withdraw(k) ==
    LET c == CardOf(k)
    IN  /\ lock[c] = "Lend"
        /\ k \in DOMAIN lending
        /\ lending[k] <= offer
        /\ \E i \in InterestOn(lending[k]), fee \in PowerFees :
            LET deficit == SaturatingSub(i, interest)
            IN  /\ deficits + deficit <= MaxDeficits
                /\ deficits' = deficits + deficit
                /\ interest' = InterestLeft(i)
                /\ lIndex' = lIndex + IndexRise(deficit)
                /\ power' = [power EXCEPT
                        ![c] = @ + lending[k] + SaturatingSub(i, FeeOf(i, fee))]
                /\ potPower' = potPower + FeeOf(i, fee)
        /\ offer' = offer - lending[k]
        /\ lock' = LockAfterWithdraw(c)
        /\ lending' = Drop(lending, k)
        /\ UNCHANGED <<wallet, borrowed, loans, wTotal, borrowing,
                       cardCalls, outside, haircuts, cuts, lost>>

-----------------------------------------------------------------------------
(* touch_loans.                                                            *)

(* What the rise of the index since the loan was last touched asks of it.  *)
Pending(k) ==
    (SaturatingSub(lIndex, borrowing[k].last) * borrowing[k].reserve) \div Scale

(* Mutant: a touched loan keeps its old position on the index.             *)
Touched_KeepsIndex(k, haircut) == [borrowing[k] EXCEPT !.reserve = @ - haircut]

Touched(k, haircut) ==
    [borrowing[k] EXCEPT !.reserve = @ - haircut, !.last = lIndex]

(* One loan of the batch.  The loop carries the state from loan to loan    *)
(* and reads nothing else in between, so a batch is a sequence of touches. *)
(* The collateral pays only when the reserve is used up.                   *)
Touch(k) ==
    /\ k \in DOMAIN borrowing
    /\ Pending(k) > 0
    /\ LET haircut == Least(Pending(k), borrowing[k].reserve)
           cut == IF haircut = borrowing[k].reserve
                  THEN Least(haircut, power[CardOf(k)]) ELSE 0
       IN  /\ borrowing' = [borrowing EXCEPT ![k] = Touched(k, haircut)]
           /\ wTotal' = SaturatingSub(wTotal, haircut)
           /\ power' = [power EXCEPT ![CardOf(k)] = @ - cut]
           /\ haircuts' = haircuts + haircut
           /\ cuts' = cuts + cut
    /\ UNCHANGED <<lock, wallet, potPower, offer, borrowed, loans, interest,
                   lIndex, lending, cardCalls, outside, deficits, lost>>

-----------------------------------------------------------------------------
(* Cards and wallets.                                                      *)

CardCall == /\ cardCalls < MaxCardCalls
            /\ cardCalls' = cardCalls + 1

(* What a card leaves behind when it disappears while an action has it.    *)
LostWith(c) == IF lock[c] \in {"None", Absent} THEN {} ELSE {<<c, lock[c]>>}

(* mint: nothing but the absence of the card is asked, so the position of  *)
(* a card that was burnt meets its successor.                              *)
Mint(c) ==
    /\ lock[c] = Absent
    /\ lock' = [lock EXCEPT ![c] = "None"]
    /\ power' = [power EXCEPT ![c] = InitialPower]
    /\ outside' = outside + InitialPower
    /\ CardCall
    /\ UNCHANGED <<wallet, potPower, poolVars, recordVars,
                   deficits, haircuts, cuts, lost>>

(* transfer: the card moves with its power over whatever card of the same  *)
(* token the recipient has; to its owner itself it changes nothing.        *)
Transfer(c, to) ==
    LET d == <<to, c[2]>>
    IN  /\ lock[c] = "None"
        /\ to # c[1]
        /\ lock' = [lock EXCEPT ![c] = Absent, ![d] = "None"]
        /\ power' = [power EXCEPT ![c] = 0, ![d] = power[c]]
        /\ outside' = outside - power[d]
        /\ lost' = lost \cup LostWith(d)
        /\ CardCall
        /\ UNCHANGED <<wallet, potPower, poolVars, recordVars,
                       deficits, haircuts, cuts>>

(* What burn gives to the wallet.                                          *)
BurnGain(c) == ((InitialPower + power[c] \div 2) * BurnReceive) \div 100

(* burn: the lock is not looked at.  The part for the pot goes through     *)
(* accumulate_pot_internal, AccumulatePot of PotRound.                     *)
Burn(c) ==
    /\ lock[c] # Absent
    /\ lock' = [lock EXCEPT ![c] = Absent]
    /\ power' = [power EXCEPT ![c] = 0]
    /\ wallet' = [wallet EXCEPT ![c[1]] = @ + BurnGain(c)]
    /\ outside' = outside + BurnGain(c) - power[c]
    /\ lost' = lost \cup LostWith(c)
    /\ CardCall
    /\ UNCHANGED <<potPower, poolVars, recordVars, deficits, haircuts, cuts>>

(* add_power_to_card: the wallet pays the whole amount, the card takes it  *)
(* up to max_power, and loses what it holds beyond.                        *)
AddPowerToCard(c, amount) ==
    LET filled == Least(power[c] + amount, MaxPower)
    IN  /\ amount > 0
        /\ lock[c] \in {"None", "Deck"}
        /\ amount <= wallet[c[1]]
        /\ power' = [power EXCEPT ![c] = filled]
        /\ wallet' = [wallet EXCEPT ![c[1]] = @ - amount]
        /\ outside' = outside + filled - power[c] - amount
        /\ UNCHANGED <<lock, potPower, poolVars, recordVars,
                       cardCalls, deficits, haircuts, cuts, lost>>

(* Decks are reduced to their lock.                                        *)
EnterDeck(c) ==
    /\ lock[c] = "None"
    /\ lock' = [lock EXCEPT ![c] = "Deck"]
    /\ UNCHANGED <<power, wallet, potPower, poolVars, recordVars, ghostVars>>

LeaveDeck(c) ==
    /\ lock[c] = "Deck"
    /\ lock' = [lock EXCEPT ![c] = "None"]
    /\ UNCHANGED <<power, wallet, potPower, poolVars, recordVars, ghostVars>>

-----------------------------------------------------------------------------
PositionStep(k) ==
    \/ \E gross \in Amounts, fee \in PowerFees : Lend(k, gross, fee)
    \/ \E gross \in Amounts, fee \in PowerFees, horizon \in Horizons :
        Borrow(k, gross, fee, horizon)
    \/ Repay(k)
    \/ Withdraw(k)
    \/ Touch(k)

CardStep(c) ==
    \/ Mint(c)
    \/ \E to \in Owners : Transfer(c, to)
    \/ Burn(c)
    \/ \E amount \in TopUps : AddPowerToCard(c, amount)
    \/ EnterDeck(c)
    \/ LeaveDeck(c)

Next ==
    \/ \E k \in Positions : PositionStep(k)
    \/ \E c \in Cards : CardStep(c)

Spec == Init /\ [][Next]_vars

-----------------------------------------------------------------------------
(* Safety.                                                                 *)

(* A position was open on the card when it was burnt or overwritten.       *)
Orphaned(c) == <<c, "Lend">> \in lost \/ <<c, "Borrow">> \in lost
orphaned == \E c \in Cards : Orphaned(c)

(* The pool owes the lenders no more than it holds and has lent out; with  *)
(* no card lost under a lock it owes exactly that.                         *)
PoolCovers ==
    /\ SumLent <= offer + borrowed
    /\ ~orphaned => SumLent = offer + borrowed

(* The totals that the APY and the index are computed from agree with the  *)
(* records, as long as no card was lost under a lock.                      *)
LoansCounted ==
    ~orphaned => /\ borrowed = SumBorrowed
                 /\ loans = Cardinality(DOMAIN borrowing)
                 /\ wTotal = SumReserve

LentOn(c) == {k \in DOMAIN lending : CardOf(k) = c}
BorrowedOn(c) == {k \in DOMAIN borrowing : CardOf(k) = c}

(* A card locked by a position has the record that unlocks it, always.  If *)
(* the card was never lost under a lock, each record of it is the only one *)
(* and has the lock, so every position can be closed.                      *)
LocksMatch ==
    \A c \in Cards :
        /\ lock[c] = "Lend" => LentOn(c) # {}
        /\ lock[c] = "Borrow" => BorrowedOn(c) # {}
        /\ ~Orphaned(c) =>
            /\ \A j, k \in LentOn(c) : lock[c] = "Lend" /\ j = k
            /\ \A j, k \in BorrowedOn(c) : lock[c] = "Borrow" /\ j = k

(* However often the index rises and the loan is touched, the collateral   *)
(* card holds the principal and what is left of the reserve: the principal *)
(* can always be repaid, and a touch never takes a card's whole power.     *)
CollateralCovers ==
    \A k \in DOMAIN borrowing :
        ~Orphaned(CardOf(k)) =>
            borrowing[k].power + borrowing[k].reserve <= power[CardOf(k)]

(* What the touches have taken and the pending rest of all loans never     *)
(* exceeds the deficits that raised the index, whatever loans were opened, *)
(* touched and repaid in between.                                          *)
Owed == [k \in DOMAIN borrowing |->
            (lIndex - borrowing[k].last) * borrowing[k].reserve]

HaircutsCovered ==
    haircuts * Scale + SumFunctionOnSet(Owed, DOMAIN borrowing)
        <= deficits * Scale

(* What set_power_action_fee does not ask for.  Beyond it lend and withdraw *)
(* credit the pot with more fee than they take.                            *)
FeesWithinWhole == \A fee \in PowerFees : fee <= 100

(* With FeesWithinWhole, no call of the protocol creates or loses POWER    *)
(* except the two that are meant to: a deficit paid to a lender and a cut  *)
(* of a collateral card.                                                   *)
PowerAccounted ==
    SumPower + SumWallet + potPower + offer + interest
        = outside + deficits - cuts

(* To the decks a loan is a stake: seen so, the calls of this module do to *)
(* a card what CardUse says the other components do, and no more.          *)
Held(l) == IF l \in {"Lend", "Borrow"} THEN "Stake" ELSE l

Use == INSTANCE CardUse
    WITH Powers <- Nat,
         lock <- [c \in Cards |-> Held(lock[c])],
         lost <- {<<e[1], Held(e[2])>> : e \in lost}

UseSpec == Use!Spec

-----------------------------------------------------------------------------
(* A statement of the repository that the code does not keep.              *)

(* "total weight (sum of reserve_remaining)", storage_types.rs:249.        *)
WeightIsReserves == wTotal = SumReserve
=============================================================================
