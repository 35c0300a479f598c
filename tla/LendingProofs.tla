--------------------------- MODULE LendingProofs ----------------------------
(***************************************************************************)
(* Theorems about Lending for all owners, tokens, categories, amounts,     *)
(* fees, interests and horizons, and without the bounds of the model.      *)
(*                                                                         *)
(* TypeOK is inductive.  LocksMatch and CollateralCovers are inductive     *)
(* given TypeOK: a record whose card has no other record is the only one   *)
(* that a step on this card can disturb.                                   *)
(***************************************************************************)
EXTENDS Lending, FiniteSetTheorems, TLAPS

-----------------------------------------------------------------------------
(* Arithmetic and records.                                                 *)

LEMMA QuotientType ==
    ASSUME NEW a \in Nat, NEW b \in Nat \ {0}
    PROVE  a \div b \in Nat
OBVIOUS

LEMMA FeeOfType ==
    ASSUME LendingAssumption, NEW n \in Nat, NEW fee \in PowerFees
    PROVE  FeeOf(n, fee) \in Nat
<1>1. fee \in Nat
  BY DEF LendingAssumption
<1>2. n * fee \in Nat
  BY <1>1
<1> QED  BY <1>2, QuotientType DEF FeeOf

(* A fee within 100% never exceeds the amount it is taken from.            *)
LEMMA FeeOfBounds ==
    ASSUME LendingAssumption, FeesWithinWhole, NEW n \in Nat, NEW fee \in PowerFees
    PROVE  FeeOf(n, fee) \in 0..n
<1> DEFINE q == (n * fee) \div 100
<1>1. fee \in 0..100
  BY DEF LendingAssumption, FeesWithinWhole
<1>2. n * fee \in Nat /\ n * fee <= n * 100
  BY <1>1
<1>3. q \in Nat /\ 100 * q <= n * fee
  BY <1>2
<1>4. q <= n
  BY <1>2, <1>3
<1> QED  BY <1>3, <1>4 DEF FeeOf

LEMMA ReserveType ==
    ASSUME LendingAssumption, NEW n \in Nat, NEW horizon \in Horizons
    PROVE  ReserveFor(n, horizon) \in Nat
<1>1. Scale \in Nat \ {0} /\ horizon \in 0..(Scale - 1)
  BY DEF LendingAssumption
<1>2. horizon \in Nat /\ Scale - horizon \in Nat \ {0}
  BY <1>1
<1>3. n * horizon \in Nat
  BY <1>2
<1> QED  BY <1>2, <1>3, QuotientType DEF ReserveFor

LEMMA SaturatingSubType ==
    ASSUME NEW m \in Nat, NEW n \in Nat
    PROVE  SaturatingSub(m, n) \in Nat
BY DEF SaturatingSub

(* A loan that passes the check leaves principal and reserve in the card.  *)
LEMMA CapacityBound ==
    ASSUME NEW held \in Nat, NEW net \in Nat, NEW charge \in Nat,
           NEW reserve \in Nat, HasCapacity(held, net, charge, reserve)
    PROVE  net + reserve <= held - charge
<1>1. SaturatingSub(held, charge) \in Nat
  BY SaturatingSubType
<1>2. SaturatingSub(held, charge) * 5 \in Nat
  BY <1>1
<1>3. (SaturatingSub(held, charge) * 5) \div 100 \in Nat
  BY <1>2, QuotientType
<1> QED  BY <1>3 DEF HasCapacity

LEMMA IndexRiseType ==
    ASSUME LendingAssumption, TypeOK, NEW deficit \in Nat
    PROVE  IndexRise(deficit) \in Nat
<1>1. deficit * Scale \in Nat
  BY DEF LendingAssumption
<1>2. CASE wTotal > 0
  BY <1>1, <1>2, QuotientType DEF IndexRise, TypeOK
<1> QED  BY <1>2 DEF IndexRise

LEMMA InterestType ==
    ASSUME LendingAssumption, NEW n, NEW i \in InterestOn(n)
    PROVE  i \in Nat
BY DEF InterestOn, LendingAssumption

LEMMA BurnGainType ==
    ASSUME LendingAssumption, TypeOK, NEW c \in Cards
    PROVE  BurnGain(c) \in Nat
<1>1. power[c] \div 2 \in Nat
  BY QuotientType DEF TypeOK
<1>2. (InitialPower + power[c] \div 2) * BurnReceive \in Nat
  BY <1>1 DEF LendingAssumption
<1> QED  BY <1>2, QuotientType DEF BurnGain

LEMMA CardOfPosition ==
    ASSUME NEW k \in Positions
    PROVE  CardOf(k) \in Cards /\ k[1] \in Owners
BY DEF Positions, CardOf, Cards

(* Put and Drop.                                                           *)
LEMMA PutShape ==
    ASSUME NEW f, NEW k, NEW v
    PROVE  /\ DOMAIN Put(f, k, v) = DOMAIN f \cup {k}
           /\ Put(f, k, v)[k] = v
           /\ \A x \in DOMAIN f : x # k => Put(f, k, v)[x] = f[x]
BY DEF Put

LEMMA PutType ==
    ASSUME NEW P, NEW S, NEW f, DOMAIN f \subseteq P, f \in [DOMAIN f -> S],
           NEW k \in P, NEW v \in S
    PROVE  /\ DOMAIN Put(f, k, v) \subseteq P
           /\ Put(f, k, v) \in [DOMAIN Put(f, k, v) -> S]
BY DEF Put

LEMMA DropShape ==
    ASSUME NEW f, NEW k
    PROVE  /\ DOMAIN Drop(f, k) = DOMAIN f \ {k}
           /\ \A x \in DOMAIN f : x # k => Drop(f, k)[x] = f[x]
BY DEF Drop

LEMMA DropType ==
    ASSUME NEW P, NEW S, NEW f, DOMAIN f \subseteq P, f \in [DOMAIN f -> S],
           NEW k
    PROVE  /\ DOMAIN Drop(f, k) \subseteq P
           /\ Drop(f, k) \in [DOMAIN Drop(f, k) -> S]
BY DEF Drop

(* What a touch takes is at most the reserve.                              *)
LEMMA PendingType ==
    ASSUME LendingAssumption, TypeOK, NEW k \in DOMAIN borrowing
    PROVE  /\ Pending(k) \in Nat
           /\ Least(Pending(k), borrowing[k].reserve) \in 0..borrowing[k].reserve
<1>1. borrowing[k].last \in Nat /\ borrowing[k].reserve \in Nat /\ lIndex \in Nat
  BY DEF TypeOK, Loans
<1>2. SaturatingSub(lIndex, borrowing[k].last) * borrowing[k].reserve \in Nat
  <2>1. SaturatingSub(lIndex, borrowing[k].last) \in Nat
    BY <1>1, SaturatingSubType
  <2> QED  BY <1>1, <2>1
<1>3. Pending(k) \in Nat
  BY <1>2, QuotientType DEF Pending, LendingAssumption
<1> QED  BY <1>1, <1>3 DEF Least

-----------------------------------------------------------------------------
(* Types.                                                                  *)

LEMMA InitType ==
    ASSUME LendingAssumption, Init
    PROVE  TypeOK
<1>1. Cardinality(MintedCards) \in Nat
  BY FS_CardinalityType DEF LendingAssumption
<1>2. outside \in Int
  BY <1>1 DEF Init, LendingAssumption
<1>3. DOMAIN << >> = {}
  OBVIOUS
<1>4. lock \in [Cards -> Locks \cup {Absent}] /\ power \in [Cards -> Nat]
  BY DEF Init, Locks, LendingAssumption
<1>5. /\ DOMAIN lending \subseteq Positions
      /\ lending \in [DOMAIN lending -> Nat]
      /\ DOMAIN borrowing \subseteq Positions
      /\ borrowing \in [DOMAIN borrowing -> Loans]
  BY <1>3 DEF Init
<1> QED  BY <1>2, <1>4, <1>5 DEF Init, TypeOK

LEMMA LendType ==
    ASSUME LendingAssumption, TypeOK, NEW k \in Positions,
           NEW gross \in Amounts, NEW fee \in PowerFees, Lend(k, gross, fee)
    PROVE  TypeOK'
<1> DEFINE c == CardOf(k)
           charge == FeeOf(gross, fee)
           net == SaturatingSub(gross, charge)
<1>1. gross \in Nat /\ charge \in Nat /\ net \in Nat
  BY FeeOfType, SaturatingSubType DEF LendingAssumption
<1>2. c \in Cards
  BY CardOfPosition
<1> HIDE DEF charge, net, c
<1>3. power[c] \in Nat /\ power[c] - gross \in Nat
  BY <1>1, <1>2 DEF Lend, TypeOK, c
<1>4. power' \in [Cards -> Nat] /\ lock' \in [Cards -> Locks \cup {Absent}]
  <2>1. /\ power' = [power EXCEPT ![c] = @ - gross]
        /\ lock' = [lock EXCEPT ![c] = "Lend"]
    BY DEF Lend, c
  <2>2. power' \in [Cards -> Nat]
    <3>1. power \in [Cards -> Nat]
      BY DEF TypeOK
    <3>2. PICK left \in Nat : left = power[c] - gross
      BY <1>3
    <3>3. power' = [power EXCEPT ![c] = left]
      BY <2>1, <3>2
    <3> QED  BY <3>1, <3>2, <3>3
  <2>3. lock' \in [Cards -> Locks \cup {Absent}]
    BY <2>1 DEF TypeOK, Locks
  <2> QED  BY <2>2, <2>3
<1>5. potPower' \in Nat /\ offer' \in Nat
  BY <1>1 DEF Lend, TypeOK, charge, net
<1>6. DOMAIN lending' \subseteq Positions /\ lending' \in [DOMAIN lending' -> Nat]
  <2>1. lending' = Put(lending, k, net)
    BY DEF Lend, charge, net
  <2>2. DOMAIN lending \subseteq Positions /\ lending \in [DOMAIN lending -> Nat]
    BY DEF TypeOK
  <2> QED  BY <1>1, <2>1, <2>2, PutType
<1>7. UNCHANGED <<wallet, borrowed, loans, interest, lIndex, wTotal,
                  borrowing, ghostVars>>
  BY DEF Lend
<1> QED  BY <1>4, <1>5, <1>6, <1>7 DEF TypeOK, ghostVars

LEMMA BorrowType ==
    ASSUME LendingAssumption, TypeOK, NEW k \in Positions,
           NEW gross \in Amounts, NEW fee \in PowerFees,
           NEW horizon \in Horizons, Borrow(k, gross, fee, horizon)
    PROVE  TypeOK'
<1> DEFINE c == CardOf(k)
           charge == FeeOf(gross, fee)
           net == SaturatingSub(gross, charge)
           reserve == ReserveFor(net, horizon)
<1>1. charge \in Nat /\ net \in Nat
  BY FeeOfType, SaturatingSubType DEF LendingAssumption
<1>2. reserve \in Nat
  BY <1>1, ReserveType
<1>3. c \in Cards /\ k[1] \in Owners
  BY CardOfPosition
<1>4. HasCapacity(power[c], net, charge, reserve) /\ net <= offer
  BY DEF Borrow
<1>5. power[c] \in Nat
  BY <1>3 DEF TypeOK
<1> HIDE DEF reserve, net
<1>6. power[c] - charge \in Nat
  BY <1>1, <1>2, <1>4, <1>5, CapacityBound
<1> HIDE DEF charge, c
<1>7. power' \in [Cards -> Nat] /\ lock' \in [Cards -> Locks \cup {Absent}]
  <2>1. /\ power' = [power EXCEPT ![c] = @ - charge]
        /\ lock' = [lock EXCEPT ![c] = "Borrow"]
    BY DEF Borrow, c, charge
  <2> QED  BY <1>3, <1>6, <2>1 DEF TypeOK, Locks
<1>8. /\ offer' = offer - net /\ borrowed' = borrowed + net
      /\ loans' = loans + 1 /\ wTotal' = wTotal + reserve
      /\ potPower' = potPower + charge
      /\ wallet' = [wallet EXCEPT ![k[1]] = @ + net]
      /\ borrowing' = Put(borrowing, k,
                          [power |-> net, last |-> lIndex, reserve |-> reserve])
  BY DEF Borrow, net, charge, reserve
<1>9. offer' \in Nat /\ borrowed' \in Nat /\ loans' \in Nat /\ wTotal' \in Nat
      /\ potPower' \in Nat
  BY <1>1, <1>2, <1>4, <1>8 DEF TypeOK
<1>10. wallet' \in [Owners -> Nat]
  BY <1>1, <1>3, <1>8 DEF TypeOK
<1>11. [power |-> net, last |-> lIndex, reserve |-> reserve] \in Loans
  BY <1>1, <1>2 DEF TypeOK, Loans
<1>12. /\ DOMAIN borrowing' \subseteq Positions
       /\ borrowing' \in [DOMAIN borrowing' -> Loans]
  <2> DEFINE loan == [power |-> net, last |-> lIndex, reserve |-> reserve]
  <2>1. loan \in Loans
    BY <1>11
  <2>2. borrowing' = Put(borrowing, k, loan)
    BY <1>8
  <2>3. DOMAIN borrowing \subseteq Positions /\ borrowing \in [DOMAIN borrowing -> Loans]
    BY DEF TypeOK
  <2> HIDE DEF loan
  <2> QED  BY <2>1, <2>2, <2>3, PutType
<1>13. UNCHANGED <<interest, lIndex, lending, ghostVars>>
  BY DEF Borrow
<1> QED  BY <1>7, <1>9, <1>10, <1>12, <1>13 DEF TypeOK, ghostVars

LEMMA RepayType ==
    ASSUME LendingAssumption, TypeOK, NEW k \in Positions, Repay(k)
    PROVE  TypeOK'
<1> DEFINE c == CardOf(k)
           principal == borrowing[k].power
<1>1. c \in Cards /\ k[1] \in Owners /\ k \in DOMAIN borrowing
  BY CardOfPosition DEF Repay
<1>2. principal \in Nat /\ borrowing[k].reserve \in Nat
  BY <1>1 DEF TypeOK, Loans
<1>3. principal <= borrowed
  BY DEF Repay
<1>4. power[c] \in Nat /\ wallet[k[1]] \in Nat
  BY <1>1 DEF TypeOK
<1> HIDE DEF principal, c
<1>5. PICK i \in InterestOn(principal) :
        LET required == principal + i
            fromUser == Least(required, wallet[k[1]])
        IN  /\ required <= wallet[k[1]] + power[c]
            /\ interest' = interest + i
            /\ offer' = PoolAfterRepay(k, i)
            /\ power' = [power EXCEPT ![c] = @ - (required - fromUser)]
            /\ wallet' = [wallet EXCEPT ![k[1]] = @ - fromUser]
  BY DEF Repay, principal, c
<1> DEFINE required == principal + i
           fromUser == Least(required, wallet[k[1]])
<1>6. i \in Nat /\ required \in Nat
  BY <1>2, InterestType
<1>7. /\ fromUser \in Nat
      /\ wallet[k[1]] - fromUser \in Nat
      /\ power[c] - (required - fromUser) \in Nat
  BY <1>4, <1>5, <1>6 DEF Least
<1>8. interest' \in Nat /\ offer' \in Nat
  BY <1>2, <1>5, <1>6 DEF TypeOK, PoolAfterRepay, principal
<1>9. power' \in [Cards -> Nat]
  BY <1>1, <1>5, <1>7 DEF TypeOK
<1>10. wallet' \in [Owners -> Nat]
  BY <1>1, <1>5, <1>7 DEF TypeOK
<1>11. borrowed' \in Nat
  BY <1>2, <1>3 DEF Repay, TypeOK, principal
<1>12. loans' \in Nat /\ wTotal' \in Nat
  BY <1>2, SaturatingSubType DEF Repay, TypeOK, WeightAfterRepay
<1>13. lock' \in [Cards -> Locks \cup {Absent}]
  BY <1>1 DEF Repay, TypeOK, Locks, c
<1>14. /\ DOMAIN borrowing' \subseteq Positions
       /\ borrowing' \in [DOMAIN borrowing' -> Loans]
  BY DropType DEF Repay, TypeOK
<1>15. UNCHANGED <<potPower, lIndex, lending, ghostVars>>
  BY DEF Repay
<1> QED
  BY <1>8, <1>9, <1>10, <1>11, <1>12, <1>13, <1>14, <1>15 DEF TypeOK, ghostVars

LEMMA WithdrawType ==
    ASSUME LendingAssumption, TypeOK, NEW k \in Positions, Withdraw(k)
    PROVE  TypeOK'
<1> DEFINE c == CardOf(k)
<1>1. c \in Cards /\ k \in DOMAIN lending /\ lending[k] <= offer
  BY CardOfPosition DEF Withdraw
<1>2. lending[k] \in Nat /\ power[c] \in Nat
  BY <1>1 DEF TypeOK
<1> HIDE DEF c
<1>3. PICK i \in InterestOn(lending[k]), fee \in PowerFees :
        LET deficit == SaturatingSub(i, interest)
        IN  /\ deficits' = deficits + deficit
            /\ interest' = InterestLeft(i)
            /\ lIndex' = lIndex + IndexRise(deficit)
            /\ power' = [power EXCEPT
                    ![c] = @ + lending[k] + SaturatingSub(i, FeeOf(i, fee))]
            /\ potPower' = potPower + FeeOf(i, fee)
  BY DEF Withdraw, c
<1>4. i \in Nat
  BY InterestType
<1>5. FeeOf(i, fee) \in Nat /\ SaturatingSub(i, FeeOf(i, fee)) \in Nat
  BY <1>4, FeeOfType, SaturatingSubType
<1>6. SaturatingSub(i, interest) \in Nat /\ InterestLeft(i) \in Nat
  BY <1>4, SaturatingSubType DEF TypeOK, InterestLeft
<1>7. IndexRise(SaturatingSub(i, interest)) \in Nat
  BY <1>6, IndexRiseType
<1>8. deficits' \in Nat /\ interest' \in Nat /\ lIndex' \in Nat
  BY <1>3, <1>6, <1>7 DEF TypeOK
<1>9. potPower' \in Nat
  BY <1>3, <1>5 DEF TypeOK
<1>10. power' \in [Cards -> Nat]
  BY <1>1, <1>2, <1>3, <1>5 DEF TypeOK
<1>11. offer' \in Nat
  BY <1>1, <1>2 DEF Withdraw, TypeOK
<1>12. lock' \in [Cards -> Locks \cup {Absent}]
  BY <1>1 DEF Withdraw, LockAfterWithdraw, TypeOK, Locks, c
<1>13. DOMAIN lending' \subseteq Positions /\ lending' \in [DOMAIN lending' -> Nat]
  BY DropType DEF Withdraw, TypeOK
<1>14. UNCHANGED <<wallet, borrowed, loans, wTotal, borrowing,
                   cardCalls, outside, haircuts, cuts, lost>>
  BY DEF Withdraw
<1> QED
  BY <1>8, <1>9, <1>10, <1>11, <1>12, <1>13, <1>14 DEF TypeOK

LEMMA TouchType ==
    ASSUME LendingAssumption, TypeOK, NEW k \in Positions, Touch(k)
    PROVE  TypeOK'
<1> DEFINE c == CardOf(k)
           haircut == Least(Pending(k), borrowing[k].reserve)
           cut == IF haircut = borrowing[k].reserve
                  THEN Least(haircut, power[c]) ELSE 0
<1>1. c \in Cards /\ k \in DOMAIN borrowing
  BY CardOfPosition DEF Touch
<1>2. haircut \in 0..borrowing[k].reserve
  BY <1>1, PendingType
<1>3. borrowing[k] \in Loans /\ power[c] \in Nat
  BY <1>1 DEF TypeOK
<1>4. haircut \in Nat /\ borrowing[k].reserve - haircut \in Nat
  <2>1. borrowing[k].reserve \in Nat
    BY <1>3 DEF Loans
  <2> QED  BY <1>2, <2>1
<1> HIDE DEF haircut
<1>5. cut \in 0..power[c]
  BY <1>3, <1>4 DEF Least
<1> HIDE DEF cut
<1>6. /\ borrowing' = [borrowing EXCEPT ![k] = Touched(k, haircut)]
      /\ wTotal' = SaturatingSub(wTotal, haircut)
      /\ power' = [power EXCEPT ![c] = @ - cut]
      /\ haircuts' = haircuts + haircut
      /\ cuts' = cuts + cut
  BY DEF Touch, haircut, cut, c
<1>7. Touched(k, haircut) \in Loans
  BY <1>3, <1>4 DEF Touched, Loans, TypeOK
<1>8. /\ DOMAIN borrowing' \subseteq Positions
      /\ borrowing' \in [DOMAIN borrowing' -> Loans]
  BY <1>6, <1>7 DEF TypeOK
<1>9. wTotal' \in Nat
  BY <1>4, <1>6, SaturatingSubType DEF TypeOK
<1>10. haircuts' \in Nat /\ cuts' \in Nat
  BY <1>3, <1>4, <1>5, <1>6 DEF TypeOK
<1>11. power' \in [Cards -> Nat]
  <2>1. power[c] - cut \in Nat
    BY <1>3, <1>5
  <2> QED  BY <1>1, <1>6, <2>1 DEF TypeOK
<1>12. UNCHANGED <<lock, wallet, potPower, offer, borrowed, loans, interest,
                   lIndex, lending, cardCalls, outside, deficits, lost>>
  BY DEF Touch
<1> QED  BY <1>8, <1>9, <1>10, <1>11, <1>12 DEF TypeOK

LEMMA CardStepType ==
    ASSUME LendingAssumption, TypeOK, NEW c \in Cards, CardStep(c)
    PROVE  TypeOK'
<1>1. power[c] \in Nat /\ c[1] \in Owners /\ c[2] \in TokenIds
  BY DEF TypeOK, Cards
<1>2. CASE Mint(c)
  <2>1. lock' \in [Cards -> Locks \cup {Absent}] /\ power' \in [Cards -> Nat]
    BY <1>2 DEF Mint, TypeOK, Locks, LendingAssumption
  <2>2. outside' \in Int /\ cardCalls' \in Nat
    BY <1>2 DEF Mint, CardCall, TypeOK, LendingAssumption
  <2> QED
    BY <1>2, <2>1, <2>2 DEF Mint, TypeOK, poolVars, recordVars
<1>3. ASSUME NEW to \in Owners, Transfer(c, to)
      PROVE  TypeOK'
  <2> DEFINE d == <<to, c[2]>>
  <2>1. d \in Cards
    BY <1>1 DEF Cards
  <2>2. power[d] \in Nat
    BY <2>1 DEF TypeOK
  <2> HIDE DEF d
  <2>3. /\ lock' = [lock EXCEPT ![c] = Absent, ![d] = "None"]
        /\ power' = [power EXCEPT ![c] = 0, ![d] = power[c]]
        /\ outside' = outside - power[d]
    BY <1>3 DEF Transfer, d
  <2>4. lock' \in [Cards -> Locks \cup {Absent}] /\ power' \in [Cards -> Nat]
    BY <1>1, <2>1, <2>3 DEF TypeOK, Locks
  <2>5. outside' \in Int /\ cardCalls' \in Nat
    BY <1>3, <2>2, <2>3 DEF Transfer, CardCall, TypeOK
  <2>6. lost' \subseteq Cards \X Locks
    <3>1. LostWith(d) \subseteq Cards \X Locks
      BY <2>1 DEF LostWith, TypeOK
    <3> QED  BY <1>3, <3>1 DEF Transfer, TypeOK, d
  <2> QED
    BY <1>3, <2>4, <2>5, <2>6 DEF Transfer, TypeOK, poolVars, recordVars
<1>4. CASE Burn(c)
  <2>1. BurnGain(c) \in Nat
    BY BurnGainType
  <2>2. lock' \in [Cards -> Locks \cup {Absent}] /\ power' \in [Cards -> Nat]
    BY <1>4 DEF Burn, TypeOK
  <2>3. wallet' \in [Owners -> Nat]
    BY <1>1, <1>4, <2>1 DEF Burn, TypeOK
  <2>4. outside' \in Int /\ cardCalls' \in Nat
    BY <1>1, <1>4, <2>1 DEF Burn, CardCall, TypeOK
  <2>5. lost' \subseteq Cards \X Locks
    <3>1. LostWith(c) \subseteq Cards \X Locks
      BY DEF LostWith, TypeOK
    <3> QED  BY <1>4, <3>1 DEF Burn, TypeOK
  <2> QED
    BY <1>4, <2>2, <2>3, <2>4, <2>5 DEF Burn, TypeOK, poolVars, recordVars
<1>5. ASSUME NEW amount \in TopUps, AddPowerToCard(c, amount)
      PROVE  TypeOK'
  <2> DEFINE filled == Least(power[c] + amount, MaxPower)
  <2>1. amount \in Nat /\ filled \in Nat
    <3>1. amount \in Nat /\ MaxPower \in Nat
      BY DEF LendingAssumption
    <3>2. power[c] + amount \in Nat
      BY <1>1, <3>1
    <3> QED  BY <3>1, <3>2 DEF Least
  <2>2. /\ power' = [power EXCEPT ![c] = filled]
        /\ wallet' = [wallet EXCEPT ![c[1]] = @ - amount]
        /\ outside' = outside + filled - power[c] - amount
        /\ amount <= wallet[c[1]]
    BY <1>5 DEF AddPowerToCard
  <2> HIDE DEF filled
  <2>3. power' \in [Cards -> Nat]
    BY <2>1, <2>2 DEF TypeOK
  <2>4. wallet' \in [Owners -> Nat]
    <3>1. wallet[c[1]] - amount \in Nat
      BY <1>1, <2>1, <2>2 DEF TypeOK
    <3> QED  BY <1>1, <2>2, <3>1 DEF TypeOK
  <2>5. outside' \in Int
    BY <1>1, <2>1, <2>2 DEF TypeOK
  <2> QED
    BY <1>5, <2>3, <2>4, <2>5 DEF AddPowerToCard, TypeOK, poolVars, recordVars
<1>6. CASE EnterDeck(c) \/ LeaveDeck(c)
  <2>1. lock' \in [Cards -> Locks \cup {Absent}]
    BY <1>6 DEF EnterDeck, LeaveDeck, TypeOK, Locks
  <2> QED
    BY <1>6, <2>1 DEF EnterDeck, LeaveDeck, TypeOK, poolVars, recordVars, ghostVars
<1> QED  BY <1>2, <1>3, <1>4, <1>5, <1>6 DEF CardStep

(* Every call keeps the types.                                             *)
LEMMA StepType ==
    ASSUME LendingAssumption, TypeOK, [Next]_vars
    PROVE  TypeOK'
<1>1. CASE UNCHANGED vars
  BY <1>1 DEF TypeOK, vars, cardVars, poolVars, recordVars, ghostVars
<1>2. ASSUME NEW k \in Positions, PositionStep(k)
      PROVE  TypeOK'
  BY <1>2, LendType, BorrowType, RepayType, WithdrawType, TouchType
     DEF PositionStep
<1>3. ASSUME NEW c \in Cards, CardStep(c)
      PROVE  TypeOK'
  BY <1>3, CardStepType
<1> QED  BY <1>1, <1>2, <1>3 DEF Next

(* Every variable keeps its type; in particular no balance, no total of    *)
(* the pool and no reserve ever falls below zero.                          *)
THEOREM LendingTypes == Spec => []TypeOK
<1>1. Init => TypeOK
  BY LendingAssumption, InitType
<1>2. TypeOK /\ [Next]_vars => TypeOK'
  BY LendingAssumption, StepType
<1> QED  BY <1>1, <1>2, PTL DEF Spec

-----------------------------------------------------------------------------
(* Locks and collateral, card by card.                                     *)

(* What LocksMatch and CollateralCovers say of one card.                   *)
CardSafe(c) ==
    /\ lock[c] = "Lend" => LentOn(c) # {}
    /\ lock[c] = "Borrow" => BorrowedOn(c) # {}
    /\ ~Orphaned(c) =>
        /\ \A k \in LentOn(c) : lock[c] = "Lend"
        /\ \A k \in BorrowedOn(c) : lock[c] = "Borrow"
        /\ \A j, k \in LentOn(c) : j = k
        /\ \A j, k \in BorrowedOn(c) : j = k
        /\ \A k \in BorrowedOn(c) :
            borrowing[k].power + borrowing[k].reserve <= power[c]

AllSafe == \A c \in Cards : CardSafe(c)

LEMMA SafeByCard ==
    ASSUME TypeOK
    PROVE  AllSafe <=> LocksMatch /\ CollateralCovers
<1>1. \A k \in DOMAIN lending \cup DOMAIN borrowing : CardOf(k) \in Cards
  BY CardOfPosition DEF TypeOK
<1>2. ASSUME AllSafe PROVE LocksMatch /\ CollateralCovers
  <2>1. LocksMatch
    BY <1>2 DEF AllSafe, CardSafe, LocksMatch
  <2>2. CollateralCovers
    BY <1>1, <1>2 DEF AllSafe, CardSafe, CollateralCovers, BorrowedOn
  <2> QED  BY <2>1, <2>2
<1>3. ASSUME LocksMatch, CollateralCovers PROVE AllSafe
  <2> SUFFICES ASSUME NEW c \in Cards PROVE CardSafe(c)
    BY DEF AllSafe
  <2>1. \A k \in BorrowedOn(c) : ~Orphaned(c) =>
            borrowing[k].power + borrowing[k].reserve <= power[c]
    BY <1>3 DEF CollateralCovers, BorrowedOn
  <2> QED  BY <1>3, <2>1 DEF LocksMatch, CardSafe
<1> QED  BY <1>2, <1>3

(* A step that leaves a card, its records and the past losses alone keeps  *)
(* the card safe.                                                          *)
Untouched(c) ==
    /\ lock'[c] = lock[c]
    /\ power'[c] = power[c]
    /\ LentOn(c)' = LentOn(c)
    /\ BorrowedOn(c)' = BorrowedOn(c)
    /\ \A k \in BorrowedOn(c) : borrowing'[k] = borrowing[k]
    /\ Orphaned(c) => Orphaned(c)'

LEMMA UntouchedSafe ==
    ASSUME NEW c \in Cards, CardSafe(c), Untouched(c)
    PROVE  CardSafe(c)'
<1>1. lock[c] = "Lend" => LentOn(c)' # {}
  BY DEF CardSafe, Untouched
<1>2. lock[c] = "Borrow" => BorrowedOn(c)' # {}
  BY DEF CardSafe, Untouched
<1>3. ASSUME ~Orphaned(c)'
      PROVE  /\ \A k \in LentOn(c)' : lock'[c] = "Lend"
             /\ \A k \in BorrowedOn(c)' : lock'[c] = "Borrow"
             /\ \A j, k \in LentOn(c)' : j = k
             /\ \A j, k \in BorrowedOn(c)' : j = k
             /\ \A k \in BorrowedOn(c)' :
                  borrowing'[k].power + borrowing'[k].reserve <= power'[c]
  BY <1>3 DEF CardSafe, Untouched
<1> QED  BY <1>1, <1>2, <1>3 DEF CardSafe, Untouched

LEMMA SameLost ==
    ASSUME lost' = lost, NEW c
    PROVE  Orphaned(c)' <=> Orphaned(c)
BY DEF Orphaned

(* A card that is neither lent nor borrowed on has no records, unless a    *)
(* predecessor was lost with one.                                          *)
LEMMA FreeCard ==
    ASSUME NEW c \in Cards, CardSafe(c), lock[c] \notin {"Lend", "Borrow"},
           ~Orphaned(c)
    PROVE  LentOn(c) = {} /\ BorrowedOn(c) = {}
BY DEF CardSafe

LEMMA InitSafe ==
    ASSUME LendingAssumption, Init
    PROVE  AllSafe
<1>1. DOMAIN lending = {} /\ DOMAIN borrowing = {}
  BY DEF Init
<1>2. \A c \in Cards : lock[c] \notin {"Lend", "Borrow"}
  BY DEF Init, LendingAssumption, Locks
<1> QED  BY <1>1, <1>2 DEF AllSafe, CardSafe, LentOn, BorrowedOn

LEMMA LendSafe ==
    ASSUME LendingAssumption, TypeOK, AllSafe, NEW k \in Positions,
           NEW gross, NEW fee, Lend(k, gross, fee)
    PROVE  AllSafe'
<1> DEFINE c == CardOf(k)
           net == SaturatingSub(gross, FeeOf(gross, fee))
<1>1. c \in Cards
  BY CardOfPosition
<1>2. /\ lock[c] = "None"
      /\ lock' = [lock EXCEPT ![c] = "Lend"]
      /\ power' = [power EXCEPT ![c] = @ - gross]
      /\ lending' = Put(lending, k, net)
      /\ borrowing' = borrowing /\ lost' = lost
  BY DEF Lend, ghostVars
<1>3. DOMAIN lending' = DOMAIN lending \cup {k}
  BY <1>2, PutShape
<1>4. CardSafe(c)'
  <2>1. lock'[c] = "Lend" /\ k \in LentOn(c)'
    BY <1>1, <1>2, <1>3 DEF TypeOK, LentOn
  <2>2. BorrowedOn(c)' = BorrowedOn(c)
    BY <1>2 DEF BorrowedOn
  <2>3. ASSUME ~Orphaned(c) PROVE LentOn(c)' = {k} /\ BorrowedOn(c) = {}
    <3>1. LentOn(c) = {} /\ BorrowedOn(c) = {}
      BY <1>1, <1>2, <2>3, FreeCard DEF AllSafe
    <3> QED  BY <1>3, <3>1 DEF LentOn
  <2> QED  BY <1>2, <2>1, <2>2, <2>3, SameLost DEF CardSafe
<1>5. ASSUME NEW d \in Cards, d # c PROVE CardSafe(d)'
  <2>1. LentOn(d)' = LentOn(d) /\ BorrowedOn(d)' = BorrowedOn(d)
    BY <1>2, <1>3, <1>5 DEF LentOn, BorrowedOn
  <2>2. Untouched(d)
    BY <1>2, <1>5, <2>1, SameLost DEF Untouched, TypeOK
  <2> QED  BY <1>5, <2>2, UntouchedSafe DEF AllSafe
<1> QED  BY <1>4, <1>5 DEF AllSafe

LEMMA BorrowSafe ==
    ASSUME LendingAssumption, TypeOK, AllSafe, NEW k \in Positions,
           NEW gross \in Amounts, NEW fee \in PowerFees,
           NEW horizon \in Horizons, Borrow(k, gross, fee, horizon)
    PROVE  AllSafe'
<1> DEFINE c == CardOf(k)
           charge == FeeOf(gross, fee)
           net == SaturatingSub(gross, charge)
           reserve == ReserveFor(net, horizon)
<1>1. c \in Cards
  BY CardOfPosition
<1>2. charge \in Nat /\ net \in Nat
  BY FeeOfType, SaturatingSubType DEF LendingAssumption
<1>3. reserve \in Nat
  BY <1>2, ReserveType
<1>4. net + reserve <= power[c] - charge
  <2>1. HasCapacity(power[c], net, charge, reserve) /\ power[c] \in Nat
    BY <1>1 DEF Borrow, TypeOK
  <2> HIDE DEF c, charge, net, reserve
  <2> QED  BY <1>2, <1>3, <2>1, CapacityBound
<1>5. /\ lock[c] = "None"
      /\ lock' = [lock EXCEPT ![c] = "Borrow"]
      /\ power' = [power EXCEPT ![c] = @ - charge]
      /\ borrowing' = Put(borrowing, k,
                          [power |-> net, last |-> lIndex, reserve |-> reserve])
      /\ lending' = lending /\ lost' = lost
  BY DEF Borrow, ghostVars
<1> HIDE DEF charge, net, reserve
<1>6. /\ DOMAIN borrowing' = DOMAIN borrowing \cup {k}
      /\ borrowing'[k].power = net /\ borrowing'[k].reserve = reserve
      /\ \A x \in DOMAIN borrowing : x # k => borrowing'[x] = borrowing[x]
  <2> DEFINE loan == [power |-> net, last |-> lIndex, reserve |-> reserve]
  <2>1. loan.power = net /\ loan.reserve = reserve
    OBVIOUS
  <2>2. borrowing' = Put(borrowing, k, loan)
    BY <1>5
  <2> HIDE DEF loan
  <2>3. /\ DOMAIN Put(borrowing, k, loan) = DOMAIN borrowing \cup {k}
        /\ Put(borrowing, k, loan)[k] = loan
        /\ \A x \in DOMAIN borrowing :
              x # k => Put(borrowing, k, loan)[x] = borrowing[x]
    BY DEF Put
  <2> QED  BY <2>1, <2>2, <2>3
<1>7. CardSafe(c)'
  <2>1. lock'[c] = "Borrow" /\ k \in BorrowedOn(c)'
    BY <1>1, <1>5, <1>6 DEF TypeOK, BorrowedOn
  <2>2. LentOn(c)' = LentOn(c)
    BY <1>5 DEF LentOn
  <2>3. ASSUME ~Orphaned(c) PROVE BorrowedOn(c)' = {k} /\ LentOn(c) = {}
    <3>1. LentOn(c) = {} /\ BorrowedOn(c) = {}
      BY <1>1, <1>5, <2>3, FreeCard DEF AllSafe
    <3> QED  BY <1>6, <3>1 DEF BorrowedOn
  <2>4. borrowing'[k].power + borrowing'[k].reserve <= power'[c]
    BY <1>1, <1>4, <1>5, <1>6 DEF TypeOK
  <2> QED  BY <1>5, <2>1, <2>2, <2>3, <2>4, SameLost DEF CardSafe
<1>8. ASSUME NEW d \in Cards, d # c PROVE CardSafe(d)'
  <2>1. LentOn(d)' = LentOn(d) /\ BorrowedOn(d)' = BorrowedOn(d)
    BY <1>5, <1>6, <1>8 DEF LentOn, BorrowedOn
  <2>2. \A x \in BorrowedOn(d) : borrowing'[x] = borrowing[x]
    BY <1>6, <1>8 DEF BorrowedOn
  <2>3. Untouched(d)
    BY <1>5, <1>8, <2>1, <2>2, SameLost DEF Untouched, TypeOK
  <2> QED  BY <1>8, <2>3, UntouchedSafe DEF AllSafe
<1> QED  BY <1>7, <1>8 DEF AllSafe

LEMMA RepaySafe ==
    ASSUME TypeOK, AllSafe, NEW k \in Positions, Repay(k)
    PROVE  AllSafe'
<1> DEFINE c == CardOf(k)
<1>1. c \in Cards /\ k \in BorrowedOn(c)
  BY CardOfPosition DEF Repay, BorrowedOn
<1>2. /\ lock[c] = "Borrow"
      /\ lock' = [lock EXCEPT ![c] = "None"]
      /\ borrowing' = Drop(borrowing, k)
      /\ lending' = lending /\ lost' = lost
  BY DEF Repay, ghostVars
<1>3. \A d \in Cards : d # c => power'[d] = power[d]
  BY DEF Repay, TypeOK
<1>4. /\ DOMAIN borrowing' = DOMAIN borrowing \ {k}
      /\ \A x \in DOMAIN borrowing : x # k => borrowing'[x] = borrowing[x]
  BY <1>2, DropShape
<1>5. CardSafe(c)'
  <2>1. lock'[c] = "None"
    BY <1>1, <1>2 DEF TypeOK
  <2>2. ASSUME ~Orphaned(c) PROVE LentOn(c)' = {} /\ BorrowedOn(c)' = {}
    <3>1. LentOn(c) = {} /\ BorrowedOn(c) = {k}
      BY <1>1, <1>2, <2>2 DEF AllSafe, CardSafe
    <3> QED  BY <1>2, <1>4, <3>1 DEF LentOn, BorrowedOn
  <2> QED  BY <1>2, <2>1, <2>2, SameLost DEF CardSafe
<1>6. ASSUME NEW d \in Cards, d # c PROVE CardSafe(d)'
  <2>1. LentOn(d)' = LentOn(d) /\ BorrowedOn(d)' = BorrowedOn(d)
    BY <1>2, <1>4, <1>6 DEF LentOn, BorrowedOn
  <2>2. \A x \in BorrowedOn(d) : borrowing'[x] = borrowing[x]
    BY <1>4, <1>6 DEF BorrowedOn
  <2>3. Untouched(d)
    BY <1>2, <1>3, <1>6, <2>1, <2>2, SameLost DEF Untouched, TypeOK
  <2> QED  BY <1>6, <2>3, UntouchedSafe DEF AllSafe
<1> QED  BY <1>5, <1>6 DEF AllSafe

LEMMA WithdrawSafe ==
    ASSUME TypeOK, AllSafe, NEW k \in Positions, Withdraw(k)
    PROVE  AllSafe'
<1> DEFINE c == CardOf(k)
<1>1. c \in Cards /\ k \in LentOn(c)
  BY CardOfPosition DEF Withdraw, LentOn
<1>2. /\ lock[c] = "Lend"
      /\ lock' = [lock EXCEPT ![c] = "None"]
      /\ lending' = Drop(lending, k)
      /\ borrowing' = borrowing /\ lost' = lost
  BY DEF Withdraw, LockAfterWithdraw
<1>3. \A d \in Cards : d # c => power'[d] = power[d]
  BY DEF Withdraw, TypeOK
<1>4. DOMAIN lending' = DOMAIN lending \ {k}
  BY <1>2, DropShape
<1>5. CardSafe(c)'
  <2>1. lock'[c] = "None"
    BY <1>1, <1>2 DEF TypeOK
  <2>2. ASSUME ~Orphaned(c) PROVE LentOn(c)' = {} /\ BorrowedOn(c)' = {}
    <3>1. LentOn(c) = {k} /\ BorrowedOn(c) = {}
      BY <1>1, <1>2, <2>2 DEF AllSafe, CardSafe
    <3> QED  BY <1>2, <1>4, <3>1 DEF LentOn, BorrowedOn
  <2> QED  BY <1>2, <2>1, <2>2, SameLost DEF CardSafe
<1>6. ASSUME NEW d \in Cards, d # c PROVE CardSafe(d)'
  <2>1. LentOn(d)' = LentOn(d) /\ BorrowedOn(d)' = BorrowedOn(d)
    BY <1>2, <1>4, <1>6 DEF LentOn, BorrowedOn
  <2>2. Untouched(d)
    BY <1>2, <1>3, <1>6, <2>1, SameLost DEF Untouched, TypeOK
  <2> QED  BY <1>6, <2>2, UntouchedSafe DEF AllSafe
<1> QED  BY <1>5, <1>6 DEF AllSafe

(* A touch takes the haircut from the reserve and at most that from the    *)
(* card, so the sum that the card must hold shrinks as fast as the card.   *)
LEMMA TouchSafe ==
    ASSUME LendingAssumption, TypeOK, AllSafe, NEW k \in Positions, Touch(k)
    PROVE  AllSafe'
<1> DEFINE c == CardOf(k)
           loan == borrowing[k]
           haircut == Least(Pending(k), loan.reserve)
           cut == IF haircut = loan.reserve THEN Least(haircut, power[c]) ELSE 0
<1>1. c \in Cards /\ k \in DOMAIN borrowing /\ k \in BorrowedOn(c)
  BY CardOfPosition DEF Touch, BorrowedOn
<1>2. /\ borrowing' = [borrowing EXCEPT ![k] = Touched(k, haircut)]
      /\ power' = [power EXCEPT ![c] = @ - cut]
      /\ lock' = lock /\ lending' = lending /\ lost' = lost
  BY DEF Touch
<1>3. loan \in Loans /\ power[c] \in Nat
  BY <1>1 DEF TypeOK
<1>4. loan.power \in Nat /\ loan.reserve \in Nat
  BY <1>3 DEF Loans
<1>5. haircut \in 0..loan.reserve
  BY <1>1, PendingType
<1>6. cut \in Nat /\ cut <= haircut
  <2> HIDE DEF haircut, loan, c
  <2> QED  BY <1>3, <1>4, <1>5 DEF Least
<1>7. /\ Touched(k, haircut).power = loan.power
      /\ Touched(k, haircut).reserve = loan.reserve - haircut
  BY <1>3 DEF Touched, Loans
<1> HIDE DEF cut, haircut, loan
<1>8. /\ DOMAIN borrowing' = DOMAIN borrowing
      /\ borrowing'[k].power = loan.power
      /\ borrowing'[k].reserve = loan.reserve - haircut
      /\ \A x \in DOMAIN borrowing : x # k => borrowing'[x] = borrowing[x]
  BY <1>1, <1>2, <1>7 DEF TypeOK
<1>9. \A d \in Cards : LentOn(d)' = LentOn(d) /\ BorrowedOn(d)' = BorrowedOn(d)
  BY <1>2, <1>8 DEF LentOn, BorrowedOn
<1>10. CardSafe(c)'
  <2>1. ASSUME ~Orphaned(c)
        PROVE  borrowing'[k].power + borrowing'[k].reserve <= power'[c]
    <3>1. loan.power + loan.reserve <= power[c]
      BY <1>1, <2>1 DEF AllSafe, CardSafe, loan
    <3>2. power'[c] = power[c] - cut
      BY <1>1, <1>2 DEF TypeOK
    <3> QED  BY <1>3, <1>4, <1>5, <1>6, <1>8, <3>1, <3>2
  <2>2. ASSUME ~Orphaned(c)
        PROVE  BorrowedOn(c) = {k} /\ LentOn(c) = {} /\ lock[c] = "Borrow"
    BY <1>1, <2>2 DEF AllSafe, CardSafe
  <2>3. CardSafe(c)
    BY <1>1 DEF AllSafe
  <2> QED  BY <1>1, <1>2, <1>9, <2>1, <2>2, <2>3, SameLost DEF CardSafe
<1>11. ASSUME NEW d \in Cards, d # c PROVE CardSafe(d)'
  <2>1. \A x \in BorrowedOn(d) : borrowing'[x] = borrowing[x]
    BY <1>8, <1>11 DEF BorrowedOn
  <2>2. Untouched(d)
    BY <1>2, <1>9, <1>11, <2>1, SameLost DEF Untouched, TypeOK
  <2> QED  BY <1>11, <2>2, UntouchedSafe DEF AllSafe
<1> QED  BY <1>10, <1>11 DEF AllSafe

(* A card that is unlocked or absent after the step and was not lost under *)
(* a lock is safe.                                                         *)
LEMMA FreedSafe ==
    ASSUME NEW c \in Cards, CardSafe(c),
           lock'[c] \notin {"Lend", "Borrow"}, recordVars' = recordVars,
           Orphaned(c) \/ lock[c] \in {"Lend", "Borrow"} => Orphaned(c)'
    PROVE  CardSafe(c)'
<1>1. LentOn(c)' = LentOn(c) /\ BorrowedOn(c)' = BorrowedOn(c)
  BY DEF LentOn, BorrowedOn, recordVars
<1>2. ASSUME ~Orphaned(c)' PROVE LentOn(c)' = {} /\ BorrowedOn(c)' = {}
  BY <1>1, <1>2, FreeCard
<1> QED  BY <1>2 DEF CardSafe

LEMMA CardStepSafe ==
    ASSUME LendingAssumption, TypeOK, AllSafe, NEW c \in Cards, CardStep(c)
    PROVE  AllSafe'
<1>1. c[1] \in Owners /\ c[2] \in TokenIds
  BY DEF Cards
<1>2. \A d \in Cards : lock[d] \in Locks \cup {Absent}
  BY DEF TypeOK
<1>3. Absent \notin Locks
  BY DEF LendingAssumption
<1>4. recordVars' = recordVars
  BY DEF CardStep, Mint, Transfer, Burn, AddPowerToCard, EnterDeck, LeaveDeck
<1>5. \A d \in Cards : LentOn(d)' = LentOn(d) /\ BorrowedOn(d)' = BorrowedOn(d)
  BY <1>4 DEF LentOn, BorrowedOn, recordVars
<1>6. \A d \in Cards : Orphaned(d) => Orphaned(d)'
  <2>1. lost \subseteq lost'
    BY DEF CardStep, Mint, Transfer, Burn, AddPowerToCard, EnterDeck, LeaveDeck,
           ghostVars
  <2> QED  BY <2>1 DEF Orphaned
<1>7. ASSUME NEW d \in Cards, lock'[d] = lock[d], power'[d] = power[d]
      PROVE  CardSafe(d)'
  <2>1. Untouched(d)
    BY <1>4, <1>5, <1>6, <1>7 DEF Untouched, recordVars
  <2> QED  BY <2>1, UntouchedSafe DEF AllSafe
<1>8. CASE Mint(c)
  <2>1. CardSafe(c)'
    <3>1. lock[c] = Absent /\ lock'[c] = "None"
      BY <1>8 DEF Mint, TypeOK
    <3> QED  BY <1>3, <1>4, <1>6, <3>1, FreedSafe DEF AllSafe, Locks
  <2>2. \A d \in Cards : d # c => lock'[d] = lock[d] /\ power'[d] = power[d]
    BY <1>8 DEF Mint, TypeOK
  <2> QED  BY <1>7, <2>1, <2>2 DEF AllSafe
<1>9. ASSUME NEW to \in Owners, Transfer(c, to) PROVE AllSafe'
  <2> DEFINE d == <<to, c[2]>>
  <2>1. d \in Cards /\ d # c
    BY <1>1, <1>9 DEF Cards, Transfer
  <2>2. /\ lock[c] = "None"
        /\ lock' = [lock EXCEPT ![c] = Absent, ![d] = "None"]
        /\ power' = [power EXCEPT ![c] = 0, ![d] = power[c]]
        /\ lost' = lost \cup LostWith(d)
    BY <1>9 DEF Transfer
  <2> HIDE DEF d
  <2>3. lock'[c] = Absent /\ lock'[d] = "None"
    BY <2>1, <2>2 DEF TypeOK
  <2>4. CardSafe(c)'
    BY <1>3, <1>4, <1>6, <2>2, <2>3, FreedSafe DEF AllSafe, Locks
  <2>5. CardSafe(d)'
    <3>1. lock[d] \in {"Lend", "Borrow"} => Orphaned(d)'
      BY <1>3, <2>2 DEF LostWith, Orphaned, Locks
    <3> QED  BY <1>4, <1>6, <2>1, <2>3, <3>1, FreedSafe DEF AllSafe
  <2>6. \A x \in Cards : x \notin {c, d} =>
            lock'[x] = lock[x] /\ power'[x] = power[x]
    BY <2>2 DEF TypeOK
  <2> QED  BY <1>7, <2>4, <2>5, <2>6 DEF AllSafe
<1>10. CASE Burn(c)
  <2>1. CardSafe(c)'
    <3>1. lock'[c] = Absent /\ lost' = lost \cup LostWith(c)
      BY <1>10 DEF Burn, TypeOK
    <3>2. lock[c] \in {"Lend", "Borrow"} => Orphaned(c)'
      BY <1>3, <3>1 DEF LostWith, Orphaned, Locks
    <3> QED  BY <1>3, <1>4, <1>6, <3>1, <3>2, FreedSafe DEF AllSafe, Locks
  <2>2. \A d \in Cards : d # c => lock'[d] = lock[d] /\ power'[d] = power[d]
    BY <1>10 DEF Burn, TypeOK
  <2> QED  BY <1>7, <2>1, <2>2 DEF AllSafe
<1>11. ASSUME NEW amount \in TopUps, AddPowerToCard(c, amount) PROVE AllSafe'
  <2>1. CardSafe(c)'
    <3>1. lock[c] \in {"None", "Deck"} /\ lock' = lock
      BY <1>11 DEF AddPowerToCard
    <3> QED  BY <1>4, <1>6, <3>1, FreedSafe DEF AllSafe
  <2>2. \A d \in Cards : d # c => lock'[d] = lock[d] /\ power'[d] = power[d]
    BY <1>11 DEF AddPowerToCard, TypeOK
  <2> QED  BY <1>7, <2>1, <2>2 DEF AllSafe
<1>12. CASE EnterDeck(c) \/ LeaveDeck(c)
  <2>1. CardSafe(c)'
    <3>1. lock[c] \in {"None", "Deck"} /\ lock'[c] \in {"None", "Deck"}
      BY <1>12 DEF EnterDeck, LeaveDeck, TypeOK
    <3> QED  BY <1>4, <1>6, <3>1, FreedSafe DEF AllSafe
  <2>2. \A d \in Cards : d # c => lock'[d] = lock[d] /\ power'[d] = power[d]
    BY <1>12 DEF EnterDeck, LeaveDeck, TypeOK
  <2> QED  BY <1>7, <2>1, <2>2 DEF AllSafe
<1> QED  BY <1>8, <1>9, <1>10, <1>11, <1>12 DEF CardStep

(* Every call keeps every card safe.                                       *)
LEMMA StepSafe ==
    ASSUME LendingAssumption, TypeOK, AllSafe, [Next]_vars
    PROVE  AllSafe'
<1>1. CASE UNCHANGED vars
  <2>1. \A c \in Cards : Untouched(c)
    BY <1>1 DEF Untouched, LentOn, BorrowedOn, vars, cardVars, recordVars,
                ghostVars, Orphaned
  <2> QED  BY <2>1, UntouchedSafe DEF AllSafe
<1>2. ASSUME NEW k \in Positions, PositionStep(k)
      PROVE  AllSafe'
  BY <1>2, LendSafe, BorrowSafe, RepaySafe, WithdrawSafe, TouchSafe
     DEF PositionStep
<1>3. ASSUME NEW c \in Cards, CardStep(c)
      PROVE  AllSafe'
  BY <1>3, CardStepSafe
<1> QED  BY <1>1, <1>2, <1>3 DEF Next

(* The inductive invariant: the types, and what the two properties say of  *)
(* each single card.                                                       *)
THEOREM LendingInvariant == Spec => [](TypeOK /\ AllSafe)
<1>1. Init => TypeOK /\ AllSafe
  BY LendingAssumption, InitType, InitSafe
<1>2. TypeOK /\ AllSafe /\ [Next]_vars => (TypeOK /\ AllSafe)'
  BY LendingAssumption, StepType, StepSafe
<1> QED  BY <1>1, <1>2, PTL DEF Spec

(* A lent or borrowed-on card always has the record that releases it; and  *)
(* unless a card was lost under a lock, the records and the locks belong   *)
(* to each other one to one.                                               *)
THEOREM LocksAgree == Spec => []LocksMatch
<1>1. TypeOK /\ AllSafe => LocksMatch
  BY SafeByCard
<1> QED  BY <1>1, LendingInvariant, PTL

(* However withdrawals raise the index and keepers touch the loans, a      *)
(* collateral card holds the principal and the remaining reserve.          *)
THEOREM CollateralHolds == Spec => []CollateralCovers
<1>1. TypeOK /\ AllSafe => CollateralCovers
  BY SafeByCard
<1> QED  BY <1>1, LendingInvariant, PTL
=============================================================================
