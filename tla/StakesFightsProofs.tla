------------------------- MODULE StakesFightsProofs --------------------------
(***************************************************************************)
(* Theorems about StakesFights for all owners, tokens, categories, prices, *)
(* rates, fees, interests and leverages, and without the bounds of the     *)
(* model.                                                                  *)
(*                                                                         *)
(* TypeOK is inductive.  What the safety properties say of one card,       *)
(* CardSafe, is inductive given TypeOK: a call disturbs one card, or two   *)
(* in a transfer, and what it does to the records depends on that card's   *)
(* lock alone.  The last section shows that the calls are those CardUse    *)
(* allows: a record is found only under the lock of its card or after a    *)
(* loss.                                                                   *)
(***************************************************************************)
EXTENDS StakesFights, SequenceTheorems, TLAPS

Assumptions == CardAssumption /\ PositionAssumption

-----------------------------------------------------------------------------
(* Arithmetic.                                                             *)

LEMMA QuotientType ==
    ASSUME NEW a \in Nat, NEW b \in Nat \ {0}
    PROVE  a \div b \in Nat
OBVIOUS

LEMMA AbsType ==
    ASSUME NEW m \in Int
    PROVE  /\ Abs(m) \in Nat /\ Abs(-m) = Abs(m)
           /\ m # 0 => Abs(m) \in Nat \ {0}
           /\ m >= 0 => Abs(m) = m
BY DEF Abs

LEMMA TruncDivType ==
    ASSUME NEW m \in Int, NEW n \in Int \ {0}
    PROVE  TruncDiv(m, n) \in Int
<1>1. Abs(m) \div Abs(n) \in Nat
  BY AbsType, QuotientType
<1> QED  BY <1>1 DEF TruncDiv

LEMMA TruncDivSigns ==
    ASSUME NEW m \in Nat, NEW n \in Nat \ {0}
    PROVE  TruncDiv(m, n) = m \div n /\ TruncDiv(-m, n) = -(m \div n)
<1>1. Abs(m) = m /\ Abs(-m) = m /\ Abs(n) = n
  BY AbsType
<1>2. m \div n \in Nat /\ (m = 0 => m \div n = 0)
  BY QuotientType
<1> QED  BY <1>1, <1>2 DEF TruncDiv

(* A change of one sign changes the sign of the quotient.                  *)
LEMMA TruncDivNegative ==
    ASSUME NEW m \in Int, NEW n \in Int \ {0}
    PROVE  /\ TruncDiv(-m, n) = -TruncDiv(m, n)
           /\ TruncDiv(m, -n) = -TruncDiv(m, n)
           /\ TruncDiv(-m, -n) = TruncDiv(m, n)
<1>1. PICK q \in Nat : q = Abs(m) \div Abs(n)
  BY AbsType, QuotientType
<1>2. m = 0 => q = 0
  <2>1. Abs(n) \in Nat \ {0}
    BY AbsType
  <2>2. 0 \div Abs(n) = 0
    BY <2>1
  <2> QED  BY <1>1, <2>2 DEF Abs
<1>3. Abs(-m) = Abs(m) /\ Abs(-n) = Abs(n)
  BY AbsType
<1>4. /\ TruncDiv(m, n) = IF (m >= 0) = (n > 0) THEN q ELSE -q
      /\ TruncDiv(-m, n) = IF (-m >= 0) = (n > 0) THEN q ELSE -q
      /\ TruncDiv(m, -n) = IF (m >= 0) = (-n > 0) THEN q ELSE -q
      /\ TruncDiv(-m, -n) = IF (-m >= 0) = (-n > 0) THEN q ELSE -q
  BY <1>1, <1>3 DEF TruncDiv
<1> QED  BY <1>2, <1>4

LEMMA PowerFeeType ==
    ASSUME PositionAssumption, NEW rate \in PowerFees, NEW n \in Nat
    PROVE  PowerFee(rate, n) \in Nat
<1>1. rate * n \in Nat
  BY DEF PositionAssumption
<1> QED  BY <1>1, QuotientType DEF PowerFee

LEMMA TopPowerType ==
    ASSUME CardAssumption
    PROVE  /\ TopPower \in Nat /\ MaxPower \in Nat /\ InitialPower \in Nat
           /\ MaxPower <= TopPower /\ InitialPower <= TopPower
BY DEF TopPower, CardAssumption

LEMMA CappedBounds ==
    ASSUME CardAssumption, NEW n \in Nat
    PROVE  Capped(n) \in 0..TopPower
BY TopPowerType DEF Capped, Least

LEMMA SaturatingSubType ==
    ASSUME NEW m \in Nat, NEW n \in Nat
    PROVE  SaturatingSub(m, n) \in Nat
BY DEF SaturatingSub

LEMMA BurnGainType ==
    ASSUME CardAssumption, CardTypeOK, NEW c \in Cards
    PROVE  BurnGain(c) \in Nat
<1>1. power[c] \in Nat /\ power[c] \div 2 \in Nat
  BY QuotientType DEF CardTypeOK
<1>2. (InitialPower + power[c] \div 2) * BurnReceive \in Nat
  BY <1>1 DEF CardAssumption
<1> QED  BY <1>2, QuotientType DEF BurnGain

(* Whatever the price did and at whatever rate, closing returns a natural  *)
(* number of POWER.                                                        *)
LEMMA StakeAfterPnlType ==
    ASSUME PositionAssumption, NEW f \in Fights, NEW price \in Nat,
           NEW rate \in Int \ {0}
    PROVE  StakeAfterPnl(f, price, rate) \in Nat
<1>1. /\ f.power \in Nat /\ f.trigger \in Nat \ {0} /\ f.leverage \in Nat
  BY DEF Fights
<1> DEFINE size == TruncDiv(f.power * rate, 10000) * f.leverage
           up == TruncDiv(size * (price - f.trigger), f.trigger)
           pnl == IF f.side = "Long" THEN up ELSE -up
<1>2. size \in Int
  <2>1. f.power * rate \in Int
    BY <1>1
  <2>2. TruncDiv(f.power * rate, 10000) \in Int
    BY <2>1, TruncDivType
  <2> QED  BY <1>1, <2>2
<1>3. up \in Int
  <2> HIDE DEF size
  <2>1. price - f.trigger \in Int
    BY <1>1
  <2>2. size * (price - f.trigger) \in Int
    BY <1>2, <2>1
  <2> QED  BY <1>1, <2>2, TruncDivType
<1>4. PnlPower(f, price, rate) \in Int
  <2>1. PnlPower(f, price, rate) = TruncDiv(pnl * 10000, rate)
    BY DEF PnlPower
  <2> HIDE DEF up
  <2>2. pnl * 10000 \in Int
    BY <1>3
  <2> QED  BY <2>1, <2>2, TruncDivType
<1> DEFINE gain == PnlPower(f, price, rate)
           share == IF gain > 0 THEN (gain * ProfitShare) \div 100 ELSE 0
<1>5. share \in Nat
  <2> HIDE DEF gain
  <2>1. CASE gain > 0
    <3>1. gain * ProfitShare \in Nat
      BY <1>4, <2>1 DEF PositionAssumption, gain
    <3> QED  BY <2>1, <3>1, QuotientType
  <2> QED  BY <2>1
<1>6. f.power + gain - share \in Int
  <2> HIDE DEF gain, share
  <2> QED  BY <1>1, <1>4, <1>5 DEF gain
<1>7. StakeAfterPnl(f, price, rate) =
        IF f.power + gain - share > 0 THEN f.power + gain - share ELSE 0
  BY DEF StakeAfterPnl
<1> HIDE DEF gain, share
<1> QED  BY <1>6, <1>7

-----------------------------------------------------------------------------
(* Records and lists.                                                      *)

LEMMA CardOfPosition ==
    ASSUME NEW k \in Positions
    PROVE  CardOf(k) \in Cards /\ k[1] \in Owners
BY DEF Positions, CardOf, Cards

LEMMA PutShape ==
    ASSUME NEW f, NEW k, NEW v
    PROVE  /\ DOMAIN Put(f, k, v) = DOMAIN f \cup {k}
           /\ Put(f, k, v)[k] = v
           /\ \A x \in DOMAIN f : x # k => Put(f, k, v)[x] = f[x]
BY DEF Put

LEMMA PutType ==
    ASSUME NEW P, NEW S, NEW f, DOMAIN f \subseteq P, f \in [DOMAIN f -> S],
           NEW k \in P, NEW v \in S
    PROVE  /\ DOMAIN Put(f, k, v) \subseteq P
           /\ Put(f, k, v) \in [DOMAIN Put(f, k, v) -> S]
BY DEF Put

LEMMA DropShape ==
    ASSUME NEW f, NEW k
    PROVE  /\ DOMAIN Drop(f, k) = DOMAIN f \ {k}
           /\ \A x \in DOMAIN f : x # k => Drop(f, k)[x] = f[x]
BY DEF Drop

LEMMA DropType ==
    ASSUME NEW P, NEW S, NEW f, DOMAIN f \subseteq P, f \in [DOMAIN f -> S],
           NEW k
    PROVE  /\ DOMAIN Drop(f, k) \subseteq P
           /\ Drop(f, k) \in [DOMAIN Drop(f, k) -> S]
BY DEF Drop

ElementsOf(s) == {s[i] : i \in 1..Len(s)}

(* The list with k's entry replaced by the last one, which goes.           *)
Without(s, k) ==
    [i \in 1..(Len(s) - 1) |-> IF i = PositionIn(s, k) THEN s[Len(s)] ELSE s[i]]

LEMMA AppendListed ==
    ASSUME NEW P, NEW s \in Seq(P), NEW k \in P
    PROVE  /\ Append(s, k) \in Seq(P)
           /\ ElementsOf(Append(s, k)) = ElementsOf(s) \cup {k}
           /\ Distinct(s) /\ k \notin ElementsOf(s) => Distinct(Append(s, k))
<1>1. /\ Append(s, k) \in Seq(P)
      /\ Len(s) \in Nat
      /\ Len(Append(s, k)) = Len(s) + 1
      /\ \A i \in 1..Len(s) : Append(s, k)[i] = s[i]
      /\ Append(s, k)[Len(s) + 1] = k
  BY AppendProperties, LenProperties
<1> DEFINE a == Append(s, k)
<1>2. /\ Len(a) = Len(s) + 1 /\ a[Len(s) + 1] = k
      /\ \A i \in 1..Len(s) : a[i] = s[i]
  BY <1>1
<1> HIDE DEF a
<1>3. ElementsOf(a) = ElementsOf(s) \cup {k}
  <2>1. ASSUME NEW x \in ElementsOf(a) PROVE x \in ElementsOf(s) \cup {k}
    <3>1. PICK i \in 1..Len(a) : x = a[i]
      BY <2>1 DEF ElementsOf
    <3>2. CASE i \in 1..Len(s)
      BY <1>2, <3>1, <3>2 DEF ElementsOf
    <3>3. CASE i = Len(s) + 1
      BY <1>2, <3>1, <3>3
    <3> QED  BY <1>1, <1>2, <3>1, <3>2, <3>3
  <2>2. ASSUME NEW x \in ElementsOf(s) PROVE x \in ElementsOf(a)
    <3>1. PICK i \in 1..Len(s) : x = s[i]
      BY <2>2 DEF ElementsOf
    <3>2. i \in 1..Len(a) /\ x = a[i]
      BY <1>1, <1>2, <3>1
    <3> QED  BY <3>2 DEF ElementsOf
  <2>3. k \in ElementsOf(a)
    <3>1. Len(s) + 1 \in 1..Len(a)
      BY <1>1, <1>2
    <3> QED  BY <1>2, <3>1 DEF ElementsOf
  <2> QED  BY <2>1, <2>2, <2>3
<1>4. ASSUME Distinct(s), k \notin ElementsOf(s) PROVE Distinct(a)
  <2>1. SUFFICES ASSUME NEW i \in 1..(Len(s) + 1), NEW j \in 1..(Len(s) + 1),
                        a[i] = a[j]
                 PROVE  i = j
    BY <1>2 DEF Distinct
  <2>2. \A x \in 1..Len(s) : s[x] # k
    BY <1>4 DEF ElementsOf
  <2>3. CASE i <= Len(s) /\ j <= Len(s)
    BY <1>1, <1>2, <1>4, <2>1, <2>3 DEF Distinct
  <2>4. CASE i = Len(s) + 1 \/ j = Len(s) + 1
    BY <1>1, <1>2, <2>1, <2>2, <2>4
  <2> QED  BY <1>1, <2>3, <2>4
<1> QED  BY <1>1, <1>3, <1>4 DEF a

LEMMA WithoutListed ==
    ASSUME NEW P, NEW s \in Seq(P), NEW k \in ElementsOf(s)
    PROVE  /\ Without(s, k) \in Seq(P)
           /\ Distinct(s) => /\ ElementsOf(Without(s, k)) = ElementsOf(s) \ {k}
                             /\ Distinct(Without(s, k))
<1> DEFINE n == Len(s)
           at == PositionIn(s, k)
           w == Without(s, k)
<1>1. n \in Nat /\ \A i \in 1..n : s[i] \in P
  BY LenProperties, ElementOfSeq
<1>2. at \in 1..n /\ s[at] = k
  BY DEF ElementsOf, PositionIn
<1>3. n - 1 \in Nat
  BY <1>1, <1>2
<1>4. w = [i \in 1..(n - 1) |-> IF i = at THEN s[n] ELSE s[i]]
  BY DEF Without
<1> HIDE DEF at, w, n
<1>5. w \in Seq(P)
  <2>1. \A i \in 1..(n - 1) : (IF i = at THEN s[n] ELSE s[i]) \in P
    BY <1>1, <1>2
  <2> QED  BY <1>3, <1>4, <2>1, SeqDef
<1>6. Len(w) = n - 1
  BY <1>3, <1>4, <1>5, LenProperties
<1>7. \A i \in 1..(n - 1) : w[i] = IF i = at THEN s[n] ELSE s[i]
  BY <1>4
<1>8. ASSUME Distinct(s) PROVE ElementsOf(w) = ElementsOf(s) \ {k}
  <2>1. ASSUME NEW x \in ElementsOf(w) PROVE x \in ElementsOf(s) /\ x # k
    <3>1. PICK i \in 1..(n - 1) : x = w[i]
      BY <1>6, <2>1 DEF ElementsOf
    <3>2. PICK j \in 1..n : x = s[j] /\ j # at
      <4>1. CASE i = at
        <5>1. x = s[n] /\ n # at /\ n \in 1..n
          BY <1>1, <1>2, <1>7, <3>1, <4>1
        <5> QED  BY <5>1
      <4>2. CASE i # at
        <5>1. x = s[i] /\ i \in 1..n
          BY <1>1, <1>7, <3>1, <4>2
        <5> QED  BY <4>2, <5>1
      <4> QED  BY <4>1, <4>2
    <3>3. x # k
      BY <1>2, <1>8, <3>2 DEF Distinct, n
    <3> QED  BY <3>2, <3>3 DEF ElementsOf, n
  <2>2. ASSUME NEW x \in ElementsOf(s), x # k PROVE x \in ElementsOf(w)
    <3>1. PICK i \in 1..n : x = s[i]
      BY <2>2 DEF ElementsOf, n
    <3>2. i # at
      BY <1>2, <2>2, <3>1
    <3>3. CASE i = n
      <4>1. at \in 1..(n - 1) /\ w[at] = s[n]
        BY <1>1, <1>2, <1>7, <3>2, <3>3
      <4> QED  BY <1>6, <3>1, <3>3, <4>1 DEF ElementsOf
    <3>4. CASE i # n
      <4>1. i \in 1..(n - 1) /\ w[i] = s[i]
        BY <1>1, <1>7, <3>1, <3>2, <3>4
      <4> QED  BY <1>6, <3>1, <4>1 DEF ElementsOf
    <3> QED  BY <3>3, <3>4
  <2> QED  BY <2>1, <2>2
<1>9. ASSUME Distinct(s) PROVE Distinct(w)
  <2>1. SUFFICES ASSUME NEW i \in 1..(n - 1), NEW j \in 1..(n - 1), w[i] = w[j]
                 PROVE  i = j
    BY <1>6 DEF Distinct
  <2>2. \A x, y \in 1..n : s[x] = s[y] => x = y
    BY <1>9 DEF Distinct, n
  <2>3. CASE i = at /\ j # at
    <3>1. s[n] = s[j] /\ n \in 1..n /\ j \in 1..n
      BY <1>1, <1>7, <2>1, <2>3
    <3>2. n = j
      BY <2>2, <3>1
    <3> QED  BY <1>1, <3>2
  <2>4. CASE i # at /\ j = at
    <3>1. s[i] = s[n] /\ n \in 1..n /\ i \in 1..n
      BY <1>1, <1>7, <2>1, <2>4
    <3>2. i = n
      BY <2>2, <3>1
    <3> QED  BY <1>1, <3>2
  <2>5. CASE i # at /\ j # at
    <3>1. s[i] = s[j] /\ i \in 1..n /\ j \in 1..n
      BY <1>1, <1>7, <2>1, <2>5
    <3> QED  BY <2>2, <3>1
  <2> QED  BY <2>3, <2>4, <2>5
<1> QED  BY <1>5, <1>8, <1>9 DEF w

-----------------------------------------------------------------------------
(* The four calls that write or remove a record, with the index.           *)

StakesListed == ElementsOf(stakeList) = DOMAIN stakes /\ Distinct(stakeList)
FightsListed == ElementsOf(fightList) = DOMAIN fights /\ Distinct(fightList)

LEMMA ListedParts ==
    PositionsListed <=> StakesListed /\ FightsListed
BY DEF PositionsListed, StakesListed, FightsListed, ElementsOf,
       StakeIndex!Listed, FightIndex!Listed

StakesTyped ==
    /\ DOMAIN stakes \subseteq Positions
    /\ stakes \in [DOMAIN stakes -> Stakes]
    /\ stakeList \in Seq(Positions)

FightsTyped ==
    /\ DOMAIN fights \subseteq Positions
    /\ fights \in [DOMAIN fights -> Fights]
    /\ fightList \in Seq(Positions)

LEMMA WriteStakeKeeps ==
    ASSUME StakesTyped, NEW k \in Positions, NEW s \in Stakes, WriteStake(k, s)
    PROVE  StakesTyped' /\ (StakesListed => StakesListed')
<1>1. /\ stakes' = Put(stakes, k, s)
      /\ IF k \in ElementsOf(stakeList) THEN stakeList' = stakeList
         ELSE stakeList' = Append(stakeList, k)
  BY DEF WriteStake, StakeIndex!Listed, StakeIndex!Add, ElementsOf
<1>2. DOMAIN stakes' \subseteq Positions /\ stakes' \in [DOMAIN stakes' -> Stakes]
  BY <1>1, PutType DEF StakesTyped
<1>3. DOMAIN stakes' = DOMAIN stakes \cup {k}
  BY <1>1, PutShape
<1>4. CASE k \in ElementsOf(stakeList)
  BY <1>1, <1>2, <1>3, <1>4 DEF StakesTyped, StakesListed
<1>5. CASE k \notin ElementsOf(stakeList)
  <2>1. /\ stakeList' \in Seq(Positions)
        /\ ElementsOf(stakeList') = ElementsOf(stakeList) \cup {k}
        /\ Distinct(stakeList) => Distinct(stakeList')
    <3>1. stakeList' = Append(stakeList, k)
      BY <1>1, <1>5
    <3>2. PICK list \in Seq(Positions) : list = stakeList
      BY DEF StakesTyped
    <3>3. /\ Append(list, k) \in Seq(Positions)
          /\ ElementsOf(Append(list, k)) = ElementsOf(list) \cup {k}
          /\ Distinct(list) /\ k \notin ElementsOf(list) => Distinct(Append(list, k))
      BY AppendListed
    <3> QED  BY <1>5, <3>1, <3>2, <3>3
  <2> QED  BY <1>2, <1>3, <2>1 DEF StakesTyped, StakesListed
<1> QED  BY <1>4, <1>5

LEMMA RemoveStakeKeeps ==
    ASSUME StakesTyped, NEW k, RemoveStake(k)
    PROVE  StakesTyped' /\ (StakesListed => StakesListed')
<1>1. /\ stakes' = Drop(stakes, k)
      /\ IF k \in ElementsOf(stakeList) THEN stakeList' = Without(stakeList, k)
         ELSE stakeList' = stakeList
  BY DEF RemoveStake, StakeIndex!Listed, StakeIndex!Remove, ElementsOf, Without
<1>2. DOMAIN stakes' \subseteq Positions /\ stakes' \in [DOMAIN stakes' -> Stakes]
  BY <1>1, DropType DEF StakesTyped
<1>3. DOMAIN stakes' = DOMAIN stakes \ {k}
  BY <1>1, DropShape
<1>4. CASE k \notin ElementsOf(stakeList)
  BY <1>1, <1>2, <1>3, <1>4 DEF StakesTyped, StakesListed
<1>5. CASE k \in ElementsOf(stakeList)
  <2>1. /\ stakeList' \in Seq(Positions)
        /\ Distinct(stakeList) =>
            /\ ElementsOf(stakeList') = ElementsOf(stakeList) \ {k}
            /\ Distinct(stakeList')
    BY <1>1, <1>5, WithoutListed DEF StakesTyped
  <2> QED  BY <1>2, <1>3, <2>1 DEF StakesTyped, StakesListed
<1> QED  BY <1>4, <1>5

LEMMA WriteFightKeeps ==
    ASSUME FightsTyped, NEW k \in Positions, NEW f \in Fights, WriteFight(k, f)
    PROVE  FightsTyped' /\ (FightsListed => FightsListed')
<1>1. /\ fights' = Put(fights, k, f)
      /\ IF k \in ElementsOf(fightList) THEN fightList' = fightList
         ELSE fightList' = Append(fightList, k)
  BY DEF WriteFight, FightIndex!Listed, FightIndex!Add, ElementsOf
<1>2. DOMAIN fights' \subseteq Positions /\ fights' \in [DOMAIN fights' -> Fights]
  BY <1>1, PutType DEF FightsTyped
<1>3. DOMAIN fights' = DOMAIN fights \cup {k}
  BY <1>1, PutShape
<1>4. CASE k \in ElementsOf(fightList)
  BY <1>1, <1>2, <1>3, <1>4 DEF FightsTyped, FightsListed
<1>5. CASE k \notin ElementsOf(fightList)
  <2>1. /\ fightList' \in Seq(Positions)
        /\ ElementsOf(fightList') = ElementsOf(fightList) \cup {k}
        /\ Distinct(fightList) => Distinct(fightList')
    <3>1. fightList' = Append(fightList, k)
      BY <1>1, <1>5
    <3>2. PICK list \in Seq(Positions) : list = fightList
      BY DEF FightsTyped
    <3>3. /\ Append(list, k) \in Seq(Positions)
          /\ ElementsOf(Append(list, k)) = ElementsOf(list) \cup {k}
          /\ Distinct(list) /\ k \notin ElementsOf(list) => Distinct(Append(list, k))
      BY AppendListed
    <3> QED  BY <1>5, <3>1, <3>2, <3>3
  <2> QED  BY <1>2, <1>3, <2>1 DEF FightsTyped, FightsListed
<1> QED  BY <1>4, <1>5

LEMMA RemoveFightKeeps ==
    ASSUME FightsTyped, NEW k, RemoveFight(k)
    PROVE  FightsTyped' /\ (FightsListed => FightsListed')
<1>1. /\ fights' = Drop(fights, k)
      /\ IF k \in ElementsOf(fightList) THEN fightList' = Without(fightList, k)
         ELSE fightList' = fightList
  BY DEF RemoveFight, FightIndex!Listed, FightIndex!Remove, ElementsOf, Without
<1>2. DOMAIN fights' \subseteq Positions /\ fights' \in [DOMAIN fights' -> Fights]
  BY <1>1, DropType DEF FightsTyped
<1>3. DOMAIN fights' = DOMAIN fights \ {k}
  BY <1>1, DropShape
<1>4. CASE k \notin ElementsOf(fightList)
  BY <1>1, <1>2, <1>3, <1>4 DEF FightsTyped, FightsListed
<1>5. CASE k \in ElementsOf(fightList)
  <2>1. /\ fightList' \in Seq(Positions)
        /\ Distinct(fightList) =>
            /\ ElementsOf(fightList') = ElementsOf(fightList) \ {k}
            /\ Distinct(fightList')
    BY <1>1, <1>5, WithoutListed DEF FightsTyped
  <2> QED  BY <1>2, <1>3, <2>1 DEF FightsTyped, FightsListed
<1> QED  BY <1>4, <1>5

(* The card itself.                                                        *)
LEMMA UpdateCardType ==
    ASSUME CardTypeOK, NEW c \in Cards, NEW n \in Nat,
           NEW l \in Locks \cup {Absent}, UpdateCard(c, n, l), OthersUnchanged
    PROVE  CardTypeOK'
BY DEF CardTypeOK, UpdateCard, OthersUnchanged

LEMMA RemoveCardType ==
    ASSUME CardTypeOK, NEW c \in Cards, RemoveCard(c)
    PROVE  /\ lock' \in [Cards -> Locks \cup {Absent}]
           /\ power' \in [Cards -> Nat]
           /\ listed' \in [Cards -> Nat]
<1>1. listed[c] \in Nat /\ OneLess(listed[c]) \in Nat
  BY SaturatingSubType DEF CardTypeOK, OneLess
<1> QED  BY <1>1 DEF CardTypeOK, RemoveCard

LEMMA ReleaseCardType ==
    ASSUME CardTypeOK, NEW c \in Cards, NEW n \in Nat, ReleaseCard(c, n)
    PROVE  CardTypeOK'
<1>1. /\ lock' \in [Cards -> Locks \cup {Absent}]
      /\ power' \in [Cards -> Nat]
      /\ listed' \in [Cards -> Nat]
  <2>1. CASE n = 0
    BY <2>1, RemoveCardType DEF ReleaseCard
  <2>2. CASE n # 0
    BY <2>2 DEF ReleaseCard, UpdateCard, CardTypeOK, Locks
  <2> QED  BY <2>1, <2>2
<1>2. lost' \subseteq Cards \X Locks
  <2>1. LostWith(c) \subseteq Cards \X Locks
    BY DEF LostWith, CardTypeOK
  <2> QED  BY <2>1 DEF ReleaseCard, CardTypeOK
<1> QED  BY <1>1, <1>2 DEF ReleaseCard, CardTypeOK

-----------------------------------------------------------------------------
(* Types and indexes, call by call.                                        *)

LEMMA TypeParts ==
    TypeOK <=> /\ CardTypeOK
               /\ StakesTyped
               /\ FightsTyped
               /\ totalStaked \in Nat
               /\ openings \in Nat
BY DEF TypeOK, StakesTyped, FightsTyped

(* What every call is shown to keep here.                                  *)
Typed == TypeOK /\ StakesListed /\ FightsListed

LEMMA InitTyped ==
    ASSUME Assumptions, Init
    PROVE  Typed
<1>1. CardTypeOK
  BY DEF Init, CardInit, CardTypeOK, Assumptions, CardAssumption, Locks
<1>2. DOMAIN << >> = {} /\ << >> \in Seq(Positions) /\ Len(<< >>) = 0
  BY EmptySeq
<1>3. stakes = << >> /\ fights = << >> /\ stakeList = << >> /\ fightList = << >>
  BY DEF Init
<1>4. StakesTyped /\ FightsTyped
  <2>1. \A S : << >> \in [{} -> S]
    OBVIOUS
  <2> QED  BY <1>2, <1>3, <2>1 DEF StakesTyped, FightsTyped
<1>5. StakesListed /\ FightsListed
  BY <1>2, <1>3 DEF StakesListed, FightsListed, ElementsOf, Distinct
<1> QED  BY <1>1, <1>4, <1>5, TypeParts DEF Init, Typed

LEMMA StakeTyped ==
    ASSUME Assumptions, Typed, NEW k \in Positions, NEW interest \in Interests,
           NEW rate \in PowerFees, Stake(k, interest, rate)
    PROVE  Typed'
<1> DEFINE c == CardOf(k)
           staked == power[c] - PowerFee(rate, power[c])
           s == [power |-> staked, interest |-> interest]
<1>1. c \in Cards /\ power[c] \in Nat
  BY CardOfPosition DEF Typed, TypeOK, CardTypeOK
<1>2. staked \in Nat
  <2> HIDE DEF c
  <2>1. PowerFee(rate, power[c]) \in Nat
    BY <1>1, PowerFeeType DEF Assumptions
  <2>2. PowerFee(rate, power[c]) <= power[c]
    BY DEF Stake, c
  <2> QED  BY <1>1, <2>1, <2>2
<1>3. /\ UpdateCard(c, 0, "Stake") /\ OthersUnchanged
      /\ WriteStake(k, s)
      /\ totalStaked' = totalStaked + staked
      /\ openings' = openings + 1
      /\ UNCHANGED <<fights, fightList>>
  BY DEF Stake, Opening, PowerLeft
<1>4. s \in Stakes
  BY <1>2 DEF Stakes, Assumptions, PositionAssumption
<1> HIDE DEF c, staked, s
<1>5. CardTypeOK'
  BY <1>1, <1>3, UpdateCardType DEF Typed, TypeOK, Locks
<1>6. StakesTyped' /\ StakesListed'
  BY <1>3, <1>4, WriteStakeKeeps, TypeParts DEF Typed
<1>7. FightsTyped' /\ FightsListed'
  BY <1>3, TypeParts DEF Typed, FightsTyped, FightsListed
<1>8. totalStaked' \in Nat /\ openings' \in Nat
  BY <1>2, <1>3, TypeParts DEF Typed
<1> QED  BY <1>5, <1>6, <1>7, <1>8 DEF Typed, TypeOK, StakesTyped, FightsTyped

LEMMA UnstakeTyped ==
    ASSUME Assumptions, Typed, NEW k \in Positions, Unstake(k)
    PROVE  Typed'
<1> DEFINE c == CardOf(k)
           earned == (stakes[k].power * stakes[k].interest) \div 100
           back == power[c] + stakes[k].power + earned
<1>1. c \in Cards /\ power[c] \in Nat
  BY CardOfPosition DEF Typed, TypeOK, CardTypeOK
<1>2. back \in Nat
  <2>1. k \in DOMAIN stakes /\ stakes[k] \in Stakes
    BY DEF Unstake, Typed, TypeOK
  <2>2. stakes[k].power \in Nat /\ stakes[k].interest \in Nat
    BY <2>1 DEF Stakes
  <2>3. stakes[k].power * stakes[k].interest \in Nat
    BY <2>2
  <2>4. earned \in Nat
    BY <2>3, QuotientType
  <2> HIDE DEF earned, c
  <2> QED  BY <1>1, <2>2, <2>4
<1>3. /\ UpdateCard(c, Capped(back), "None") /\ OthersUnchanged
      /\ RemoveStake(k)
      /\ UNCHANGED <<fights, fightList, totalStaked, openings>>
  BY DEF Unstake
<1> HIDE DEF c, back
<1>4. Capped(back) \in Nat
  BY <1>2, CappedBounds DEF Assumptions, CardAssumption
<1>5. CardTypeOK'
  BY <1>1, <1>3, <1>4, UpdateCardType DEF Typed, TypeOK, Locks
<1>6. StakesTyped' /\ StakesListed'
  BY <1>3, RemoveStakeKeeps, TypeParts DEF Typed
<1>7. FightsTyped' /\ FightsListed' /\ totalStaked' \in Nat /\ openings' \in Nat
  BY <1>3, TypeParts DEF Typed, FightsTyped, FightsListed
<1> QED  BY <1>5, <1>6, <1>7 DEF Typed, TypeOK, StakesTyped, FightsTyped

LEMMA OpenPositionTyped ==
    ASSUME Assumptions, Typed, NEW k \in Positions, NEW side \in Sides,
           NEW leverage \in Leverages, NEW amount \in Amounts,
           NEW price \in Prices, NEW rate \in PowerFees,
           OpenPosition(k, side, leverage, amount, price, rate)
    PROVE  Typed'
<1> DEFINE c == CardOf(k)
           taken == amount + PowerFee(rate, amount)
           f == [power |-> amount, trigger |-> price,
                 side |-> side, leverage |-> leverage]
<1>1. c \in Cards /\ power[c] \in Nat
  BY CardOfPosition DEF Typed, TypeOK, CardTypeOK
<1>2. /\ power[c] >= taken /\ price > 0
      /\ UpdateCard(c, power[c] - taken, "Fight") /\ OthersUnchanged
      /\ WriteFight(k, f)
      /\ openings' = openings + 1
      /\ UNCHANGED <<stakes, stakeList, totalStaked>>
  BY DEF OpenPosition, Opening
<1>3. amount \in Nat /\ price \in Nat \ {0} /\ leverage \in 1..100
  BY <1>2 DEF Assumptions, PositionAssumption
<1>4. f \in Fights
  BY <1>3 DEF Fights
<1>5. taken \in Nat
  <2>1. PowerFee(rate, amount) \in Nat
    BY <1>3, PowerFeeType DEF Assumptions
  <2> QED  BY <1>3, <2>1
<1> HIDE DEF c, taken, f
<1>6. CardTypeOK'
  <2>1. power[c] - taken \in Nat
    BY <1>1, <1>2, <1>5
  <2> QED  BY <1>1, <1>2, <2>1, UpdateCardType DEF Typed, TypeOK, Locks
<1>7. FightsTyped' /\ FightsListed'
  BY <1>2, <1>4, WriteFightKeeps, TypeParts DEF Typed
<1>8. StakesTyped' /\ StakesListed' /\ totalStaked' \in Nat /\ openings' \in Nat
  BY <1>2, TypeParts DEF Typed, StakesTyped, StakesListed
<1> QED  BY <1>6, <1>7, <1>8 DEF Typed, TypeOK, StakesTyped, FightsTyped

(* The two ways a position ends.                                           *)
LEMMA ReleasedTyped ==
    ASSUME Assumptions, Typed, NEW k \in Positions, NEW n \in Nat,
           ReleaseCard(CardOf(k), n), RemoveFight(k),
           UNCHANGED <<stakes, stakeList, totalStaked, openings>>
    PROVE  Typed'
<1>1. CardTypeOK'
  BY ReleaseCardType, CardOfPosition DEF Typed, TypeOK
<1>2. FightsTyped' /\ FightsListed'
  BY RemoveFightKeeps, TypeParts DEF Typed
<1>3. StakesTyped' /\ StakesListed' /\ totalStaked' \in Nat /\ openings' \in Nat
  BY TypeParts DEF Typed, StakesTyped, StakesListed
<1> QED  BY <1>1, <1>2, <1>3 DEF Typed, TypeOK, StakesTyped, FightsTyped

(* Both return the card with no more power than a card may have.           *)
LEMMA ClosePositionReleases ==
    ASSUME Assumptions, TypeOK, NEW k \in Positions, NEW price \in Prices,
           NEW rate \in Rates, ClosePosition(k, price, rate)
    PROVE  /\ \E n \in 0..TopPower : ReleaseCard(CardOf(k), n)
           /\ Exists(CardOf(k)) /\ RemoveFight(k)
           /\ UNCHANGED <<stakes, stakeList, totalStaked, openings>>
<1> DEFINE left == StakeAfterPnl(fights[k], price, rate)
           n == Capped(power[CardOf(k)] + left)
<1>1. k \in DOMAIN fights /\ price > 0 /\ rate # 0 /\ ReleaseCard(CardOf(k), n)
  BY DEF ClosePosition
<1>2. fights[k] \in Fights /\ price \in Nat /\ rate \in Int \ {0}
  BY <1>1 DEF TypeOK, Assumptions, PositionAssumption
<1>3. left \in Nat /\ power[CardOf(k)] \in Nat
  BY <1>2, StakeAfterPnlType, CardOfPosition DEF TypeOK, CardTypeOK, Assumptions
<1>4. n \in 0..TopPower
  <2> HIDE DEF left
  <2>1. power[CardOf(k)] + left \in Nat
    BY <1>3
  <2> QED  BY <2>1, CappedBounds DEF Assumptions
<1> QED  BY <1>1, <1>4 DEF ClosePosition

LEMMA FightStepTyped ==
    ASSUME Assumptions, Typed, FightStep
    PROVE  Typed'
<1> SUFFICES ASSUME NEW k \in Positions, NEW price \in Prices,
                    \/ \E side \in Sides, leverage \in Leverages,
                          amount \in Amounts, rate \in PowerFees :
                            OpenPosition(k, side, leverage, amount, price, rate)
                    \/ \E rate \in Rates : ClosePosition(k, price, rate)
                    \/ CheckLiquidation(k, price)
             PROVE  Typed'
  BY DEF FightStep
<1>1. ASSUME NEW rate \in Rates, ClosePosition(k, price, rate) PROVE Typed'
  <2>1. TypeOK
    BY DEF Typed
  <2>2. PICK n \in 0..TopPower : ReleaseCard(CardOf(k), n)
    BY <1>1, <2>1, ClosePositionReleases
  <2>3. n \in Nat
    BY DEF Assumptions, CardAssumption
  <2> QED  BY <1>1, <2>1, <2>2, <2>3, ClosePositionReleases, ReleasedTyped
<1>2. ASSUME CheckLiquidation(k, price) PROVE Typed'
  <2>1. power[CardOf(k)] \in Nat
    BY CardOfPosition DEF Typed, TypeOK, CardTypeOK
  <2> QED  BY <1>2, <2>1, ReleasedTyped DEF CheckLiquidation
<1> QED  BY <1>1, <1>2, OpenPositionTyped

LEMMA CardStepTyped ==
    ASSUME Assumptions, Typed, CardStep
    PROVE  Typed'
<1>1. /\ StakesTyped' /\ StakesListed' /\ FightsTyped' /\ FightsListed'
      /\ totalStaked' \in Nat /\ openings' \in Nat
  BY TypeParts DEF CardStep, Typed, recordVars, StakesTyped, StakesListed,
                   FightsTyped, FightsListed
<1>2. CardTypeOK
  BY DEF Typed, TypeOK
<1>3. CardCall => cardCalls' \in Nat
  BY <1>2 DEF CardCall, CardTypeOK
<1>4. ASSUME NEW o \in Owners, CreateUser(o) PROVE CardTypeOK'
  BY <1>2, <1>3, <1>4 DEF CreateUser, CardTypeOK, Assumptions, CardAssumption
<1>5. ASSUME NEW c \in Cards, Mint(c) PROVE CardTypeOK'
  <2>1. lock' \in [Cards -> Locks \cup {Absent}]
    BY <1>2, <1>5 DEF Mint, CardTypeOK, Locks
  <2>2. power' \in [Cards -> Nat]
    BY <1>2, <1>5 DEF Mint, CardTypeOK, Assumptions, CardAssumption
  <2>3. listed' \in [Cards -> Nat]
    BY <1>2, <1>5 DEF Mint, CardTypeOK
  <2> QED  BY <1>2, <1>3, <1>5, <2>1, <2>2, <2>3 DEF Mint, CardTypeOK
<1>6. ASSUME NEW c \in Cards, Burn(c) PROVE CardTypeOK'
  <2>1. c[1] \in Owners /\ BurnGain(c) \in Nat
    BY <1>2, BurnGainType DEF Cards, Assumptions
  <2>2. wallet' \in [Owners -> Nat]
    BY <1>2, <1>6, <2>1 DEF Burn, CardTypeOK
  <2>3. lost' \subseteq Cards \X Locks
    <3>1. LostWith(c) \subseteq Cards \X Locks
      BY <1>2 DEF LostWith, CardTypeOK
    <3> QED  BY <1>2, <1>6, <3>1 DEF Burn, CardTypeOK
  <2> QED
    BY <1>2, <1>3, <1>6, <2>2, <2>3, RemoveCardType DEF Burn, CardTypeOK
<1>7. ASSUME NEW c \in Cards, NEW amount \in TopUps, AddPowerToCard(c, amount)
      PROVE  CardTypeOK'
  <2>1. c[1] \in Owners /\ amount \in Nat /\ power[c] \in Nat
    BY <1>2 DEF Cards, CardTypeOK, Assumptions, CardAssumption
  <2>2. Least(power[c] + amount, MaxPower) \in Nat
    BY <2>1 DEF Least, Assumptions, CardAssumption
  <2>3. wallet[c[1]] \in Nat /\ wallet[c[1]] - amount \in Nat
    BY <1>2, <1>7, <2>1 DEF AddPowerToCard, CardTypeOK
  <2>4. wallet' \in [Owners -> Nat] /\ power' \in [Cards -> Nat]
    BY <1>2, <1>7, <2>1, <2>2, <2>3 DEF AddPowerToCard, CardTypeOK
  <2> QED  BY <1>2, <1>3, <1>7, <2>4 DEF AddPowerToCard, CardTypeOK
<1>8. ASSUME NEW o \in Owners, NEW to \in Owners, NEW t \in TokenIds,
             Transfer(o, to, t)
      PROVE  CardTypeOK'
  <2> DEFINE c == <<o, t>>
             d == <<to, t>>
  <2>1. c \in Cards /\ d \in Cards
    BY DEF Cards
  <2> HIDE DEF c, d
  <2>2. /\ lock' = [lock EXCEPT ![c] = Absent, ![d] = "None"]
        /\ power' = [power EXCEPT ![c] = 0, ![d] = power[c]]
        /\ listed' = [[listed EXCEPT ![c] = OneLess(@)] EXCEPT ![d] = @ + 1]
    BY <1>8 DEF Transfer, c, d
  <2>3. lock' \in [Cards -> Locks \cup {Absent}]
    BY <1>2, <2>1, <2>2 DEF CardTypeOK, Locks
  <2>4. power' \in [Cards -> Nat]
    BY <1>2, <2>1, <2>2 DEF CardTypeOK
  <2>5. listed' \in [Cards -> Nat]
    <3>1. OneLess(listed[c]) \in Nat
      BY <1>2, <2>1, SaturatingSubType DEF CardTypeOK, OneLess
    <3>2. [listed EXCEPT ![c] = OneLess(@)] \in [Cards -> Nat]
      BY <1>2, <3>1 DEF CardTypeOK
    <3> QED  BY <2>1, <2>2, <3>2
  <2>6. lost' \subseteq Cards \X Locks /\ doubled' \subseteq Cards
    <3>1. LostWith(d) \subseteq Cards \X Locks
      BY <1>2, <2>1 DEF LostWith, CardTypeOK
    <3> QED  BY <1>2, <1>8, <2>1, <3>1 DEF Transfer, CardTypeOK, d
  <2> QED  BY <1>2, <1>3, <1>8, <2>3, <2>4, <2>5, <2>6 DEF Transfer, CardTypeOK
<1>9. ASSUME NEW c \in Cards, EnterDeck(c) PROVE CardTypeOK'
  <2>1. power[c] \in Nat /\ UpdateCard(c, power[c], "Deck") /\ "Deck" \in Locks
    BY <1>2, <1>9 DEF EnterDeck, CardTypeOK, Locks
  <2>2. /\ lock' \in [Cards -> Locks \cup {Absent}]
        /\ power' \in [Cards -> Nat]
        /\ listed' \in [Cards -> Nat]
    BY <1>2, <2>1 DEF UpdateCard, CardTypeOK
  <2> QED  BY <1>2, <1>3, <1>9, <2>2 DEF EnterDeck, CardTypeOK
<1>10. ASSUME NEW c \in Cards, LeaveDeck(c) PROVE CardTypeOK'
  <2>1. power[c] \in Nat /\ "None" \in Locks
    BY <1>2 DEF CardTypeOK, Locks
  <2> QED  BY <1>2, <1>10, <2>1, UpdateCardType DEF LeaveDeck
<1>11. CardTypeOK'
  BY <1>4, <1>5, <1>6, <1>7, <1>8, <1>9, <1>10 DEF CardStep
<1> QED  BY <1>1, <1>11 DEF Typed, TypeOK, StakesTyped, FightsTyped

(* Every call keeps the types and the indexes.                             *)
LEMMA StepTyped ==
    ASSUME Assumptions, Typed, [Next]_vars
    PROVE  Typed'
<1>1. CASE UNCHANGED vars
  BY <1>1 DEF vars, storeVars, recordVars, Typed, TypeOK, CardTypeOK,
              StakesListed, FightsListed
<1>2. CASE StakeStep
  BY <1>2, StakeTyped, UnstakeTyped DEF StakeStep
<1> QED  BY <1>1, <1>2, CardStepTyped, FightStepTyped DEF Next

(* Every variable keeps its type; in particular no price movement, fee or  *)
(* rate brings the power of a card, a stake or a user below zero.          *)
THEOREM PositionTypes == Spec => []TypeOK
<1>1. Init => Typed
  BY CardAssumption, PositionAssumption, InitTyped DEF Assumptions
<1>2. Typed /\ [Next]_vars => Typed'
  BY CardAssumption, PositionAssumption, StepTyped DEF Assumptions
<1>3. Typed => TypeOK
  BY DEF Typed
<1> QED  BY <1>1, <1>2, <1>3, PTL DEF Spec

(* The paged indexes of stakes and fights, from which the front end and    *)
(* the liquidators read, list every open position once and no other.       *)
THEOREM IndexesExact == Spec => []PositionsListed
<1>1. Init => Typed
  BY CardAssumption, PositionAssumption, InitTyped DEF Assumptions
<1>2. Typed /\ [Next]_vars => Typed'
  BY CardAssumption, PositionAssumption, StepTyped DEF Assumptions
<1>3. Typed => PositionsListed
  BY ListedParts DEF Typed
<1> QED  BY <1>1, <1>2, <1>3, PTL DEF Spec

-----------------------------------------------------------------------------
(* The lists of owned cards.                                               *)

LEMMA ExistsByLock ==
    ASSUME CardAssumption, NEW c, lock[c] \in Locks
    PROVE  Exists(c)
BY DEF Exists, CardAssumption

LEMMA UpdateCardListed ==
    ASSUME CardAssumption, CardTypeOK, CardsListed, NEW c \in Cards, Exists(c),
           NEW n, NEW l \in Locks, UpdateCard(c, n, l), doubled' = doubled
    PROVE  CardsListed'
<1>1. /\ lock'[c] = l /\ \A d \in Cards : d # c => lock'[d] = lock[d]
      /\ listed' = listed
  BY DEF UpdateCard, CardTypeOK
<1>2. \A d \in Cards : Exists(d)' = Exists(d)
  BY <1>1 DEF Exists, CardAssumption
<1> QED  BY <1>1, <1>2 DEF CardsListed

LEMMA RemoveCardListed ==
    ASSUME CardTypeOK, CardsListed, NEW c \in Cards, Exists(c),
           RemoveCard(c), doubled' = doubled
    PROVE  CardsListed'
<1>1. /\ lock'[c] = Absent /\ \A d \in Cards : d # c => lock'[d] = lock[d]
      /\ listed'[c] = OneLess(listed[c])
      /\ \A d \in Cards : d # c => listed'[d] = listed[d]
  BY DEF RemoveCard, CardTypeOK
<1>2. ASSUME c \notin doubled PROVE listed'[c] = 0
  BY <1>1, <1>2 DEF CardsListed, OneLess, SaturatingSub
<1>3. ASSUME NEW d \in Cards
      PROVE  /\ Exists(d)' => listed'[d] >= 1
             /\ d \notin doubled' => listed'[d] = IF Exists(d)' THEN 1 ELSE 0
  <2>1. CASE d = c
    BY <1>1, <1>2, <2>1 DEF Exists
  <2>2. CASE d # c
    BY <1>1, <2>2 DEF CardsListed, Exists
  <2> QED  BY <2>1, <2>2
<1> QED  BY <1>3 DEF CardsListed

LEMMA ReleaseCardListed ==
    ASSUME CardAssumption, CardTypeOK, CardsListed, NEW c \in Cards, Exists(c),
           NEW n, ReleaseCard(c, n)
    PROVE  CardsListed'
<1>1. CASE n = 0
  BY <1>1, RemoveCardListed DEF ReleaseCard
<1>2. CASE n # 0
  BY <1>2, UpdateCardListed DEF ReleaseCard, Locks
<1> QED  BY <1>1, <1>2

LEMMA TransferListed ==
    ASSUME CardAssumption, CardTypeOK, CardsListed, NEW o \in Owners,
           NEW to \in Owners, NEW t \in TokenIds, Transfer(o, to, t)
    PROVE  CardsListed'
<1> DEFINE c == <<o, t>>
           d == <<to, t>>
<1>1. c \in Cards /\ d \in Cards /\ (c = d <=> o = to)
  BY DEF Cards
<1> HIDE DEF c, d
<1>2. /\ lock[c] = "None"
      /\ lock' = [lock EXCEPT ![c] = Absent, ![d] = "None"]
      /\ listed' = [[listed EXCEPT ![c] = OneLess(@)] EXCEPT ![d] = @ + 1]
      /\ doubled' = IF o # to /\ listed[d] > 0 THEN doubled \cup {d} ELSE doubled
  BY DEF Transfer, c, d
<1>3. Exists(c) /\ listed[c] >= 1 /\ listed[c] \in Nat /\ listed[d] \in Nat
  BY <1>1, <1>2, ExistsByLock DEF CardsListed, CardTypeOK, Locks
<1>4. /\ lock'[d] = "None" /\ (c # d => lock'[c] = Absent)
      /\ \A x \in Cards : x \notin {c, d} =>
            lock'[x] = lock[x] /\ listed'[x] = listed[x]
  BY <1>1, <1>2 DEF CardTypeOK
<1>5. /\ c # d => listed'[c] = listed[c] - 1 /\ listed'[d] = listed[d] + 1
      /\ c = d => listed'[d] = listed[d]
  <2>1. OneLess(listed[c]) = listed[c] - 1
    BY <1>3 DEF OneLess, SaturatingSub
  <2> DEFINE less == [listed EXCEPT ![c] = OneLess(@)]
  <2>2. less \in [Cards -> Int] /\ less[c] = listed[c] - 1 /\ (c # d => less[d] = listed[d])
    BY <1>1, <1>3, <2>1 DEF CardTypeOK
  <2>3. listed' = [less EXCEPT ![d] = @ + 1]
    BY <1>2
  <2> HIDE DEF less
  <2> QED  BY <1>1, <1>3, <2>2, <2>3
<1>6. Exists(d)'
  BY <1>4 DEF Exists, CardAssumption, Locks
<1>7. ASSUME NEW x \in Cards
      PROVE  /\ Exists(x)' => listed'[x] >= 1
             /\ x \notin doubled' => listed'[x] = IF Exists(x)' THEN 1 ELSE 0
  <2>1. CASE x \notin {c, d}
    BY <1>2, <1>4, <2>1 DEF CardsListed, Exists
  <2>2. CASE c = d /\ x = d
    BY <1>1, <1>2, <1>3, <1>5, <1>6, <2>2 DEF CardsListed
  <2>3. CASE c # d /\ x = c
    <3>1. ~Exists(x)'
      BY <1>4, <2>3 DEF Exists
    <3>2. x \notin doubled' => listed[x] = 1
      BY <1>1, <1>2, <1>3, <2>3 DEF CardsListed
    <3> QED  BY <1>5, <2>3, <3>1, <3>2
  <2>4. CASE c # d /\ x = d
    <3>1. listed'[x] >= 1
      BY <1>3, <1>5, <2>4
    <3>2. x \notin doubled' => listed[x] = 0
      BY <1>1, <1>2, <1>3, <2>4
    <3> QED  BY <1>5, <1>6, <2>4, <3>1, <3>2
  <2> QED  BY <2>1, <2>2, <2>3, <2>4
<1> QED  BY <1>7 DEF CardsListed

LEMMA CardStepListed ==
    ASSUME CardAssumption, CardTypeOK, CardsListed, CardStep
    PROVE  CardsListed'
<1>1. ASSUME NEW o \in Owners, CreateUser(o) PROVE CardsListed'
  BY <1>1 DEF CreateUser, CardsListed, Exists
<1>2. ASSUME NEW c \in Cards, Mint(c) PROVE CardsListed'
  <2>1. /\ ~Exists(c) /\ doubled' = doubled
        /\ lock'[c] = "None" /\ \A d \in Cards : d # c => lock'[d] = lock[d]
        /\ listed'[c] = IF listed[c] = 0 THEN 1 ELSE listed[c]
        /\ \A d \in Cards : d # c => listed'[d] = listed[d]
    BY <1>2 DEF Mint, CardTypeOK
  <2>2. listed[c] \in Nat /\ Exists(c)'
    BY <2>1 DEF CardTypeOK, Exists, CardAssumption, Locks
  <2>3. ASSUME NEW d \in Cards
        PROVE  /\ Exists(d)' => listed'[d] >= 1
               /\ d \notin doubled' => listed'[d] = IF Exists(d)' THEN 1 ELSE 0
    <3>1. CASE d = c
      BY <2>1, <2>2, <3>1 DEF CardsListed
    <3>2. CASE d # c
      BY <2>1, <3>2 DEF CardsListed, Exists
    <3> QED  BY <3>1, <3>2
  <2> QED  BY <2>3 DEF CardsListed
<1>3. ASSUME NEW c \in Cards, Burn(c) PROVE CardsListed'
  BY <1>3, RemoveCardListed DEF Burn
<1>4. ASSUME NEW c \in Cards, NEW amount \in TopUps, AddPowerToCard(c, amount)
      PROVE  CardsListed'
  BY <1>4 DEF AddPowerToCard, CardsListed, Exists
<1>5. ASSUME NEW c \in Cards, EnterDeck(c) \/ LeaveDeck(c) PROVE CardsListed'
  <2>1. /\ lock[c] \in Locks
        /\ \E n : \E l \in Locks : UpdateCard(c, n, l)
        /\ doubled' = doubled
    BY <1>5 DEF EnterDeck, LeaveDeck, OthersUnchanged, Locks
  <2> QED  BY <2>1, ExistsByLock, UpdateCardListed
<1> QED  BY <1>1, <1>2, <1>3, <1>4, <1>5, TransferListed DEF CardStep

LEMMA StepListed ==
    ASSUME Assumptions, TypeOK, CardsListed, [Next]_vars
    PROVE  CardsListed'
<1>1. CardAssumption /\ CardTypeOK
  BY DEF Assumptions, TypeOK
<1>2. CASE UNCHANGED vars
  BY <1>2 DEF vars, storeVars, CardsListed, Exists
<1>3. CASE StakeStep
  <2>1. PICK k \in Positions :
            \/ \E interest \in Interests, rate \in PowerFees : Stake(k, interest, rate)
            \/ Unstake(k)
    BY <1>3 DEF StakeStep
  <2>2. /\ CardOf(k) \in Cards /\ lock[CardOf(k)] \in Locks
        /\ \E n : \E l \in Locks : UpdateCard(CardOf(k), n, l)
        /\ doubled' = doubled
    BY <2>1, CardOfPosition DEF Stake, Unstake, OthersUnchanged, Locks
  <2> QED  BY <1>1, <2>2, ExistsByLock, UpdateCardListed
<1>4. CASE FightStep
  <2>1. PICK k \in Positions, price \in Prices :
            \/ \E side \in Sides, leverage \in Leverages, amount \in Amounts,
                  rate \in PowerFees :
                    OpenPosition(k, side, leverage, amount, price, rate)
            \/ \E rate \in Rates : ClosePosition(k, price, rate)
            \/ CheckLiquidation(k, price)
    BY <1>4 DEF FightStep
  <2>2. CardOf(k) \in Cards
    BY CardOfPosition
  <2>3. ASSUME NEW side, NEW leverage, NEW amount, NEW rate,
               OpenPosition(k, side, leverage, amount, price, rate)
        PROVE  CardsListed'
    <3>1. /\ lock[CardOf(k)] \in Locks
          /\ \E n : UpdateCard(CardOf(k), n, "Fight")
          /\ doubled' = doubled
      BY <2>3 DEF OpenPosition, OthersUnchanged, Locks
    <3> QED  BY <1>1, <2>2, <3>1, ExistsByLock, UpdateCardListed DEF Locks
  <2>4. ASSUME NEW rate, ClosePosition(k, price, rate) PROVE CardsListed'
    <3>1. Exists(CardOf(k)) /\ \E n : ReleaseCard(CardOf(k), n)
      BY <2>4 DEF ClosePosition
    <3> QED  BY <1>1, <2>2, <3>1, ReleaseCardListed
  <2>5. ASSUME CheckLiquidation(k, price) PROVE CardsListed'
    <3>1. Exists(CardOf(k)) /\ \E n : ReleaseCard(CardOf(k), n)
      BY <2>5 DEF CheckLiquidation
    <3> QED  BY <1>1, <2>2, <3>1, ReleaseCardListed
  <2> QED  BY <2>1, <2>3, <2>4, <2>5
<1> QED  BY <1>1, <1>2, <1>3, <1>4, CardStepListed DEF Next

LEMMA InitListed ==
    ASSUME CardAssumption, Init
    PROVE  CardsListed
BY DEF Init, CardInit, CardsListed, Exists, CardAssumption, Locks

(* Whoever has a card finds it in the list of owned cards; without a       *)
(* transfer onto a listed token the list is exact.                         *)
THEOREM ListsComplete == Spec => []CardsListed
<1>1. Init => CardsListed
  BY CardAssumption, InitListed
<1>2. TypeOK /\ CardsListed /\ [Next]_vars => CardsListed'
  BY CardAssumption, PositionAssumption, StepListed DEF Assumptions
<1> QED  BY <1>1, <1>2, PositionTypes, PTL DEF Spec

-----------------------------------------------------------------------------
(* Locks, records and powers, card by card.                                *)

(* What LocksBacked and PowerCapped say of one card.                       *)
CardSafe(c) ==
    /\ lock[c] = "Stake" => StakesOn(c) # {} /\ power[c] = 0
    /\ lock[c] = "Fight" => FightsOn(c) # {}
    /\ power[c] <= TopPower
    /\ NeverLost(c) =>
        /\ \A j, k \in StakesOn(c) : lock[c] = "Stake" /\ j = k
        /\ \A j, k \in FightsOn(c) : lock[c] = "Fight" /\ j = k
        /\ \A k \in StakesOn(c) : power[c] + stakes[k].power <= TopPower
        /\ \A k \in FightsOn(c) : power[c] + fights[k].power <= TopPower

AllSafe == \A c \in Cards : CardSafe(c)

(* A step that leaves a card and its records alone, and forgets no loss,   *)
(* keeps the card safe.                                                    *)
Untouched(c) ==
    /\ lock'[c] = lock[c]
    /\ power'[c] = power[c]
    /\ StakesOn(c)' = StakesOn(c)
    /\ FightsOn(c)' = FightsOn(c)
    /\ \A k \in StakesOn(c) : stakes'[k] = stakes[k]
    /\ \A k \in FightsOn(c) : fights'[k] = fights[k]
    /\ NeverLost(c)' => NeverLost(c)

LEMMA UntouchedSafe ==
    ASSUME NEW c \in Cards, CardSafe(c), Untouched(c)
    PROVE  CardSafe(c)'
<1>1. /\ lock'[c] = "Stake" => StakesOn(c)' # {} /\ power'[c] = 0
      /\ lock'[c] = "Fight" => FightsOn(c)' # {}
      /\ power'[c] <= TopPower
  BY DEF CardSafe, Untouched
<1>2. ASSUME NeverLost(c)'
      PROVE  /\ \A j, k \in StakesOn(c)' : lock'[c] = "Stake" /\ j = k
             /\ \A j, k \in FightsOn(c)' : lock'[c] = "Fight" /\ j = k
             /\ \A k \in StakesOn(c)' : power'[c] + stakes'[k].power <= TopPower
             /\ \A k \in FightsOn(c)' : power'[c] + fights'[k].power <= TopPower
  BY <1>2 DEF CardSafe, Untouched
<1> QED  BY <1>1, <1>2 DEF CardSafe

(* A card without a position has no records, unless it was lost with one.  *)
LEMMA FreeCard ==
    ASSUME NEW c \in Cards, CardSafe(c), lock[c] \notin {"Stake", "Fight"},
           NeverLost(c)
    PROVE  StakesOn(c) = {} /\ FightsOn(c) = {}
BY DEF CardSafe

(* A card that leaves the step without a position is safe when it entered  *)
(* it without one too, or is counted as lost.                              *)
LEMMA FreedSafe ==
    ASSUME NEW c \in Cards, CardSafe(c), recordVars' = recordVars,
           lock'[c] \notin {"Stake", "Fight"}, power'[c] <= TopPower,
           NeverLost(c)' => NeverLost(c) /\ lock[c] \notin {"Stake", "Fight"}
    PROVE  CardSafe(c)'
<1>1. StakesOn(c)' = StakesOn(c) /\ FightsOn(c)' = FightsOn(c)
  BY DEF StakesOn, FightsOn, recordVars
<1>2. ASSUME NeverLost(c)' PROVE StakesOn(c)' = {} /\ FightsOn(c)' = {}
  BY <1>1, <1>2, FreeCard
<1> QED  BY <1>2 DEF CardSafe

LEMMA SameLost ==
    ASSUME lost' = lost, NEW c
    PROVE  NeverLost(c)' <=> NeverLost(c)
BY DEF NeverLost

LEMMA InitSafe ==
    ASSUME CardAssumption, Init
    PROVE  AllSafe
<1>1. DOMAIN stakes = {} /\ DOMAIN fights = {}
  BY DEF Init
<1>2. \A c \in Cards : lock[c] \notin {"Stake", "Fight"} /\ power[c] <= TopPower
  BY TopPowerType DEF Init, CardInit, CardAssumption, Locks
<1> QED  BY <1>1, <1>2 DEF AllSafe, CardSafe, StakesOn, FightsOn

LEMMA StakeSafe ==
    ASSUME Assumptions, TypeOK, AllSafe, NEW k \in Positions, NEW interest,
           NEW rate \in PowerFees, Stake(k, interest, rate)
    PROVE  AllSafe'
<1> DEFINE c == CardOf(k)
           staked == power[c] - PowerFee(rate, power[c])
           s == [power |-> staked, interest |-> interest]
<1>1. c \in Cards /\ power[c] \in Nat /\ power[c] <= TopPower /\ CardSafe(c)
  BY CardOfPosition DEF TypeOK, CardTypeOK, AllSafe, CardSafe
<1>2. staked <= TopPower /\ staked \in Nat
  <2> HIDE DEF c
  <2>1. PowerFee(rate, power[c]) \in Nat
    BY <1>1, PowerFeeType DEF Assumptions
  <2>2. PowerFee(rate, power[c]) <= power[c]
    BY DEF Stake, c
  <2> QED  BY <1>1, <2>1, <2>2, TopPowerType DEF Assumptions
<1>3. s.power = staked
  OBVIOUS
<1>4. /\ lock[c] = "None"
      /\ lock' = [lock EXCEPT ![c] = "Stake"]
      /\ power' = [power EXCEPT ![c] = 0]
      /\ stakes' = Put(stakes, k, s)
      /\ fights' = fights /\ lost' = lost
  BY DEF Stake, UpdateCard, WriteStake, PowerLeft, OthersUnchanged
<1> HIDE DEF c, staked, s
<1>5. /\ DOMAIN stakes' = DOMAIN stakes \cup {k} /\ stakes'[k] = s
      /\ \A x \in DOMAIN stakes : x # k => stakes'[x] = stakes[x]
  <2>1. /\ DOMAIN Put(stakes, k, s) = DOMAIN stakes \cup {k}
        /\ Put(stakes, k, s)[k] = s
        /\ \A x \in DOMAIN stakes : x # k => Put(stakes, k, s)[x] = stakes[x]
    BY DEF Put
  <2> QED  BY <1>4, <2>1
<1>6. CardSafe(c)'
  <2>1. lock'[c] = "Stake" /\ power'[c] = 0 /\ k \in StakesOn(c)'
    BY <1>1, <1>4, <1>5 DEF TypeOK, CardTypeOK, StakesOn, c
  <2>2. FightsOn(c)' = FightsOn(c)
    BY <1>4 DEF FightsOn
  <2>3. ASSUME NeverLost(c) PROVE StakesOn(c)' = {k} /\ FightsOn(c) = {}
    <3>1. StakesOn(c) = {} /\ FightsOn(c) = {}
      BY <1>1, <1>4, <2>3, FreeCard
    <3> QED  BY <1>5, <3>1 DEF StakesOn, c
  <2>4. power'[c] + stakes'[k].power <= TopPower
    BY <1>2, <1>3, <1>5, <2>1
  <2>5. power'[c] <= TopPower
    BY <2>1, TopPowerType DEF Assumptions
  <2> QED  BY <1>4, <2>1, <2>2, <2>3, <2>4, <2>5, SameLost DEF CardSafe
<1>7. ASSUME NEW d \in Cards, d # c PROVE CardSafe(d)'
  <2>1. StakesOn(d)' = StakesOn(d) /\ FightsOn(d)' = FightsOn(d)
    BY <1>4, <1>5, <1>7 DEF StakesOn, FightsOn, c
  <2>2. \A x \in StakesOn(d) : stakes'[x] = stakes[x]
    BY <1>5, <1>7 DEF StakesOn, c
  <2>3. Untouched(d)
    BY <1>4, <1>7, <2>1, <2>2, SameLost DEF Untouched, TypeOK, CardTypeOK
  <2> QED  BY <1>7, <2>3, UntouchedSafe DEF AllSafe
<1> QED  BY <1>6, <1>7 DEF AllSafe

LEMMA UnstakeSafe ==
    ASSUME Assumptions, TypeOK, AllSafe, NEW k \in Positions, Unstake(k)
    PROVE  AllSafe'
<1> DEFINE c == CardOf(k)
           earned == (stakes[k].power * stakes[k].interest) \div 100
           n == Capped(power[c] + stakes[k].power + earned)
<1>1. c \in Cards /\ k \in StakesOn(c) /\ power[c] \in Nat /\ CardSafe(c)
  BY CardOfPosition DEF Unstake, StakesOn, TypeOK, CardTypeOK, AllSafe
<1>2. n \in 0..TopPower
  <2>1. stakes[k] \in Stakes
    BY <1>1 DEF TypeOK, StakesOn
  <2>2. stakes[k].power \in Nat /\ stakes[k].interest \in Nat
    BY <2>1 DEF Stakes
  <2>3. stakes[k].power * stakes[k].interest \in Nat
    BY <2>2
  <2>4. earned \in Nat
    BY <2>3, QuotientType
  <2> HIDE DEF earned, c
  <2>5. power[c] + stakes[k].power + earned \in Nat
    BY <1>1, <2>2, <2>4
  <2> QED  BY <2>5, CappedBounds DEF Assumptions
<1>3. /\ lock[c] = "Stake"
      /\ lock' = [lock EXCEPT ![c] = "None"]
      /\ power' = [power EXCEPT ![c] = n]
      /\ stakes' = Drop(stakes, k)
      /\ fights' = fights /\ lost' = lost
  BY DEF Unstake, UpdateCard, RemoveStake, OthersUnchanged
<1> HIDE DEF c, n
<1>4. /\ DOMAIN stakes' = DOMAIN stakes \ {k}
      /\ \A x \in DOMAIN stakes : x # k => stakes'[x] = stakes[x]
  BY <1>3, DropShape
<1>5. CardSafe(c)'
  <2>1. lock'[c] = "None" /\ power'[c] <= TopPower
    BY <1>1, <1>2, <1>3 DEF TypeOK, CardTypeOK, Assumptions, CardAssumption
  <2>2. ASSUME NeverLost(c) PROVE StakesOn(c)' = {} /\ FightsOn(c)' = {}
    <3>1. StakesOn(c) = {k} /\ FightsOn(c) = {}
      BY <1>1, <1>3, <2>2 DEF CardSafe
    <3> QED  BY <1>3, <1>4, <3>1 DEF StakesOn, FightsOn
  <2> QED  BY <1>3, <2>1, <2>2, SameLost DEF CardSafe
<1>6. ASSUME NEW d \in Cards, d # c PROVE CardSafe(d)'
  <2>1. StakesOn(d)' = StakesOn(d) /\ FightsOn(d)' = FightsOn(d)
    BY <1>3, <1>4, <1>6 DEF StakesOn, FightsOn, c
  <2>2. \A x \in StakesOn(d) : stakes'[x] = stakes[x]
    BY <1>4, <1>6 DEF StakesOn, c
  <2>3. Untouched(d)
    BY <1>3, <1>6, <2>1, <2>2, SameLost DEF Untouched, TypeOK, CardTypeOK
  <2> QED  BY <1>6, <2>3, UntouchedSafe DEF AllSafe
<1> QED  BY <1>5, <1>6 DEF AllSafe

LEMMA OpenPositionSafe ==
    ASSUME Assumptions, TypeOK, AllSafe, NEW k \in Positions, NEW side,
           NEW leverage, NEW amount \in Amounts, NEW price,
           NEW rate \in PowerFees,
           OpenPosition(k, side, leverage, amount, price, rate)
    PROVE  AllSafe'
<1> DEFINE c == CardOf(k)
           taken == amount + PowerFee(rate, amount)
           f == [power |-> amount, trigger |-> price,
                 side |-> side, leverage |-> leverage]
<1>1. c \in Cards /\ power[c] \in Nat /\ power[c] <= TopPower /\ CardSafe(c)
  BY CardOfPosition DEF TypeOK, CardTypeOK, AllSafe, CardSafe
<1>2. amount \in Nat /\ taken \in Nat /\ amount <= taken
  <2>1. amount \in Nat
    BY DEF Assumptions, PositionAssumption
  <2>2. PowerFee(rate, amount) \in Nat
    BY <2>1, PowerFeeType DEF Assumptions
  <2> QED  BY <2>1, <2>2
<1>3. f.power = amount
  OBVIOUS
<1>4. /\ lock[c] = "None" /\ taken <= power[c]
      /\ lock' = [lock EXCEPT ![c] = "Fight"]
      /\ power' = [power EXCEPT ![c] = power[c] - taken]
      /\ fights' = Put(fights, k, f)
      /\ stakes' = stakes /\ lost' = lost
  BY <1>1, <1>2 DEF OpenPosition, UpdateCard, WriteFight, OthersUnchanged
<1> HIDE DEF c, taken, f
<1>5. /\ DOMAIN fights' = DOMAIN fights \cup {k} /\ fights'[k] = f
      /\ \A x \in DOMAIN fights : x # k => fights'[x] = fights[x]
  <2>1. /\ DOMAIN Put(fights, k, f) = DOMAIN fights \cup {k}
        /\ Put(fights, k, f)[k] = f
        /\ \A x \in DOMAIN fights : x # k => Put(fights, k, f)[x] = fights[x]
    BY DEF Put
  <2> QED  BY <1>4, <2>1
<1>6. CardSafe(c)'
  <2>1. lock'[c] = "Fight" /\ power'[c] = power[c] - taken /\ k \in FightsOn(c)'
    BY <1>1, <1>4, <1>5 DEF TypeOK, CardTypeOK, FightsOn, c
  <2>2. StakesOn(c)' = StakesOn(c)
    BY <1>4 DEF StakesOn
  <2>3. ASSUME NeverLost(c) PROVE FightsOn(c)' = {k} /\ StakesOn(c) = {}
    <3>1. StakesOn(c) = {} /\ FightsOn(c) = {}
      BY <1>1, <1>4, <2>3, FreeCard
    <3> QED  BY <1>5, <3>1 DEF FightsOn, c
  <2>4. TopPower \in Nat
    BY TopPowerType DEF Assumptions
  <2>5. power'[c] + fights'[k].power <= TopPower /\ power'[c] <= TopPower
    BY <1>1, <1>2, <1>3, <1>5, <2>1, <2>4
  <2> QED  BY <1>4, <2>1, <2>2, <2>3, <2>5, SameLost DEF CardSafe
<1>7. ASSUME NEW d \in Cards, d # c PROVE CardSafe(d)'
  <2>1. StakesOn(d)' = StakesOn(d) /\ FightsOn(d)' = FightsOn(d)
    BY <1>4, <1>5, <1>7 DEF StakesOn, FightsOn, c
  <2>2. \A x \in FightsOn(d) : fights'[x] = fights[x]
    BY <1>5, <1>7 DEF FightsOn, c
  <2>3. Untouched(d)
    BY <1>4, <1>7, <2>1, <2>2, SameLost DEF Untouched, TypeOK, CardTypeOK
  <2> QED  BY <1>7, <2>3, UntouchedSafe DEF AllSafe
<1> QED  BY <1>6, <1>7 DEF AllSafe

(* A card that comes back from a fight, or is removed, is free; its record *)
(* was the only one, unless the card had been lost.                        *)
LEMMA ReleasedSafe ==
    ASSUME Assumptions, TypeOK, AllSafe, NEW k \in DOMAIN fights,
           NEW n \in 0..TopPower, ReleaseCard(CardOf(k), n), RemoveFight(k),
           stakes' = stakes
    PROVE  AllSafe'
<1> DEFINE c == CardOf(k)
<1>1. c \in Cards /\ k \in FightsOn(c) /\ CardSafe(c) /\ TopPower \in Nat
  BY CardOfPosition, TopPowerType DEF FightsOn, TypeOK, AllSafe, Assumptions
<1>2. /\ lock'[c] \in {"None", Absent} /\ power'[c] <= TopPower
      /\ \A d \in Cards : d # c => lock'[d] = lock[d] /\ power'[d] = power[d]
  <2>1. CASE n = 0
    BY <1>1, <2>1 DEF ReleaseCard, RemoveCard, TypeOK, CardTypeOK
  <2>2. CASE n # 0
    BY <1>1, <2>2 DEF ReleaseCard, UpdateCard, TypeOK, CardTypeOK
  <2> QED  BY <2>1, <2>2
<1>3. fights' = Drop(fights, k) /\ \A d \in Cards : NeverLost(d)' => NeverLost(d)
  BY DEF RemoveFight, ReleaseCard, NeverLost
<1> HIDE DEF c
<1>4. /\ DOMAIN fights' = DOMAIN fights \ {k}
      /\ \A x \in DOMAIN fights : x # k => fights'[x] = fights[x]
  BY <1>3, DropShape
<1>5. CardSafe(c)'
  <2>1. lock'[c] \notin {"Stake", "Fight"}
    BY <1>2 DEF Assumptions, CardAssumption, Locks
  <2>2. ASSUME NeverLost(c) PROVE StakesOn(c)' = {} /\ FightsOn(c)' = {}
    <3>1. FightsOn(c) = {k} /\ StakesOn(c) = {}
      BY <1>1, <2>2 DEF CardSafe
    <3> QED  BY <1>4, <3>1 DEF StakesOn, FightsOn
  <2> QED  BY <1>1, <1>2, <1>3, <2>1, <2>2 DEF CardSafe
<1>6. ASSUME NEW d \in Cards, d # c PROVE CardSafe(d)'
  <2>1. StakesOn(d)' = StakesOn(d) /\ FightsOn(d)' = FightsOn(d)
    BY <1>4, <1>6 DEF StakesOn, FightsOn, c
  <2>2. \A x \in FightsOn(d) : fights'[x] = fights[x]
    BY <1>4, <1>6 DEF FightsOn, c
  <2>3. Untouched(d)
    BY <1>2, <1>3, <1>6, <2>1, <2>2 DEF Untouched
  <2> QED  BY <1>6, <2>3, UntouchedSafe DEF AllSafe
<1> QED  BY <1>5, <1>6 DEF AllSafe

LEMMA FightStepSafe ==
    ASSUME Assumptions, TypeOK, AllSafe, FightStep
    PROVE  AllSafe'
<1> SUFFICES ASSUME NEW k \in Positions, NEW price \in Prices,
                    \/ \E side \in Sides, leverage \in Leverages,
                          amount \in Amounts, rate \in PowerFees :
                            OpenPosition(k, side, leverage, amount, price, rate)
                    \/ \E rate \in Rates : ClosePosition(k, price, rate)
                    \/ CheckLiquidation(k, price)
             PROVE  AllSafe'
  BY DEF FightStep
<1>1. ASSUME NEW rate \in Rates, ClosePosition(k, price, rate) PROVE AllSafe'
  <2>1. PICK n \in 0..TopPower : ReleaseCard(CardOf(k), n)
    BY <1>1, ClosePositionReleases
  <2>2. k \in DOMAIN fights /\ RemoveFight(k) /\ stakes' = stakes
    BY <1>1 DEF ClosePosition
  <2> QED  BY <2>1, <2>2, ReleasedSafe
<1>2. ASSUME CheckLiquidation(k, price) PROVE AllSafe'
  <2>1. power[CardOf(k)] \in 0..TopPower
    BY CardOfPosition DEF TypeOK, CardTypeOK, AllSafe, CardSafe, Assumptions,
                          CardAssumption
  <2> QED  BY <1>2, <2>1, ReleasedSafe DEF CheckLiquidation
<1> QED  BY <1>1, <1>2, OpenPositionSafe

LEMMA CardStepSafe ==
    ASSUME Assumptions, TypeOK, AllSafe, CardStep
    PROVE  AllSafe'
<1>1. /\ recordVars' = recordVars
      /\ \A d \in Cards : StakesOn(d)' = StakesOn(d) /\ FightsOn(d)' = FightsOn(d)
  BY DEF CardStep, recordVars, StakesOn, FightsOn
<1>2. /\ \A d \in Cards : power[d] \in Nat /\ lock[d] \in Locks \cup {Absent}
      /\ Absent \notin {"Stake", "Fight"} /\ TopPower \in Nat
      /\ \A d \in Cards : CardSafe(d) /\ power[d] <= TopPower
  BY TopPowerType DEF TypeOK, CardTypeOK, Assumptions, CardAssumption, AllSafe, CardSafe, Locks
<1>3. \A d \in Cards : NeverLost(d)' => NeverLost(d)
  <2>1. lost \subseteq lost'
    BY DEF CardStep, CreateUser, Mint, Burn, AddPowerToCard, Transfer,
           EnterDeck, LeaveDeck, OthersUnchanged
  <2> QED  BY <2>1 DEF NeverLost
<1>4. ASSUME NEW d \in Cards, lock'[d] = lock[d], power'[d] = power[d]
      PROVE  CardSafe(d)'
  <2>1. Untouched(d)
    BY <1>1, <1>3, <1>4 DEF Untouched, recordVars
  <2> QED  BY <1>2, <2>1, UntouchedSafe
<1>5. ASSUME NEW o \in Owners, CreateUser(o) PROVE AllSafe'
  BY <1>4, <1>5 DEF CreateUser, AllSafe
<1>6. ASSUME NEW c \in Cards, Mint(c) PROVE AllSafe'
  <2>1. /\ lock[c] = Absent /\ lock'[c] = "None" /\ power'[c] = InitialPower
        /\ \A d \in Cards : d # c => lock'[d] = lock[d] /\ power'[d] = power[d]
    BY <1>6 DEF Mint, Exists, TypeOK, CardTypeOK
  <2>2. CardSafe(c)'
    <3>1. power'[c] <= TopPower
      BY <2>1, TopPowerType DEF Assumptions
    <3> QED  BY <1>1, <1>2, <1>3, <2>1, <3>1, FreedSafe
  <2> QED  BY <1>4, <2>1, <2>2 DEF AllSafe
<1>7. ASSUME NEW c \in Cards, Burn(c) PROVE AllSafe'
  <2>1. /\ lock'[c] = Absent /\ power'[c] = 0 /\ lost' = lost \cup LostWith(c)
        /\ \A d \in Cards : d # c => lock'[d] = lock[d] /\ power'[d] = power[d]
    BY <1>7 DEF Burn, RemoveCard, TypeOK, CardTypeOK
  <2>2. NeverLost(c)' => lock[c] \notin {"Stake", "Fight"}
    BY <1>2, <2>1 DEF NeverLost, LostWith, Locks
  <2>3. CardSafe(c)'
    BY <1>1, <1>2, <1>3, <2>1, <2>2, FreedSafe
  <2> QED  BY <1>4, <2>1, <2>3 DEF AllSafe
<1>8. ASSUME NEW c \in Cards, NEW amount \in TopUps, AddPowerToCard(c, amount)
      PROVE  AllSafe'
  <2>1. /\ lock[c] \in {"None", "Deck"} /\ lock' = lock /\ lost' = lost
        /\ power'[c] = Least(power[c] + amount, MaxPower)
        /\ \A d \in Cards : d # c => power'[d] = power[d]
    BY <1>8 DEF AddPowerToCard, TypeOK, CardTypeOK
  <2>2. power'[c] <= TopPower
    <3>1. amount \in Nat
      BY DEF Assumptions, CardAssumption
    <3> QED  BY <1>2, <2>1, <3>1, TopPowerType DEF Least, Assumptions
  <2>3. CardSafe(c)'
    BY <1>1, <1>3, <1>2, <2>1, <2>2, FreedSafe
  <2> QED  BY <1>4, <2>1, <2>3 DEF AllSafe
<1>9. ASSUME NEW o \in Owners, NEW to \in Owners, NEW t \in TokenIds,
             Transfer(o, to, t)
      PROVE  AllSafe'
  <2> DEFINE c == <<o, t>>
             d == <<to, t>>
  <2>1. c \in Cards /\ d \in Cards /\ (c = d <=> o = to)
    BY DEF Cards
  <2> HIDE DEF c, d
  <2>2. /\ lock[c] = "None"
        /\ lock' = [lock EXCEPT ![c] = Absent, ![d] = "None"]
        /\ power' = [power EXCEPT ![c] = 0, ![d] = power[c]]
        /\ lost' = IF o = to THEN lost ELSE lost \cup LostWith(d)
    BY <1>9 DEF Transfer, c, d
  <2>3. /\ lock'[d] = "None" /\ power'[d] = power[c]
        /\ c # d => lock'[c] = Absent /\ power'[c] = 0
        /\ \A x \in Cards : x \notin {c, d} =>
              lock'[x] = lock[x] /\ power'[x] = power[x]
    BY <2>1, <2>2 DEF TypeOK, CardTypeOK
  <2>4. CardSafe(d)'
    <3>1. NeverLost(d)' => lock[d] \notin {"Stake", "Fight"}
      BY <1>2, <2>1, <2>2 DEF NeverLost, LostWith, Locks
    <3> QED  BY <1>1, <1>2, <1>3, <2>1, <2>3, <3>1, FreedSafe
  <2>5. ASSUME c # d PROVE CardSafe(c)'
    <3>1. lock'[c] \notin {"Stake", "Fight"} /\ power'[c] <= TopPower
      BY <1>2, <2>3, <2>5
    <3>2. lock[c] \notin {"Stake", "Fight"} /\ CardSafe(c)
      BY <1>2, <2>1, <2>2
    <3> QED  BY <1>1, <1>3, <2>1, <3>1, <3>2, FreedSafe
  <2> QED  BY <1>4, <2>3, <2>4, <2>5 DEF AllSafe
<1>10. ASSUME NEW c \in Cards, EnterDeck(c) \/ LeaveDeck(c) PROVE AllSafe'
  <2>1. /\ lock[c] \in {"None", "Deck"} /\ lock'[c] \in {"None", "Deck"}
        /\ power'[c] = power[c]
        /\ \A d \in Cards : d # c => lock'[d] = lock[d] /\ power'[d] = power[d]
    BY <1>10 DEF EnterDeck, LeaveDeck, UpdateCard, TypeOK, CardTypeOK
  <2>2. CardSafe(c)'
    BY <1>1, <1>2, <1>3, <2>1, FreedSafe
  <2> QED  BY <1>4, <2>1, <2>2 DEF AllSafe
<1> QED  BY <1>5, <1>6, <1>7, <1>8, <1>9, <1>10 DEF CardStep

LEMMA StepSafe ==
    ASSUME Assumptions, TypeOK, AllSafe, [Next]_vars
    PROVE  AllSafe'
<1>1. CASE UNCHANGED vars
  <2>1. \A c \in Cards : Untouched(c)
    BY <1>1 DEF vars, storeVars, recordVars, Untouched, StakesOn, FightsOn,
                NeverLost
  <2> QED  BY <2>1, UntouchedSafe DEF AllSafe
<1>2. CASE StakeStep
  BY <1>2, StakeSafe, UnstakeSafe DEF StakeStep
<1> QED  BY <1>1, <1>2, CardStepSafe, FightStepSafe DEF Next

-----------------------------------------------------------------------------
(* Liquidation.                                                            *)

LEMMA ProductMono ==
    ASSUME NEW a \in Int, NEW b \in Int, NEW c \in Nat, a <= b
    PROVE  a * c <= b * c
OBVIOUS

(* The roundings on the way from the margin of a position of P POWER to    *)
(* the loss n at a price d away from the trigger T: q is the position in   *)
(* USDC at rate r without the leverage L, part the margin in Mths of the   *)
(* trigger, u the loss in USDC.                                            *)
LEMMA LossBound ==
    ASSUME NEW P \in Nat, NEW L \in Nat \ {0}, NEW r \in Nat \ {0},
           NEW T \in Nat \ {0}, NEW M \in Nat \ {0}, NEW part \in Nat,
           NEW q \in Nat, NEW d \in Nat, NEW u \in Nat, NEW n \in Nat,
           NEW A \in Nat, NEW B \in Nat, NEW C \in Nat,
           part * L >= M - L,
           (d + 1) * M >= T * part,
           q * 10000 <= P * r,
           q * 10000 >= P * r - 10000,
           (u + 1) * T >= (q * L) * d,
           (n + 1) * r > u * 10000,
           A * r >= 20000, B * T >= P * L, C * M >= P * L
    PROVE  P - n <= A + B + C
<1> DEFINE W == T * M
           Q == q * 10000
<1>1. W \in Nat \ {0} /\ Q \in Nat
  OBVIOUS
<1>2. (d * M) * (q * L) >= (T * part - M) * (q * L)
  <2>1. T * part - M \in Int /\ d * M \in Int /\ T * part - M <= d * M
    OBVIOUS
  <2>2. q * L \in Nat
    OBVIOUS
  <2> HIDE DEF W, Q
  <2> QED  BY <2>1, <2>2, ProductMono
<1>3. (part * L) * (q * T) >= (M - L) * (q * T)
  <2>1. M - L \in Int /\ part * L \in Int
    OBVIOUS
  <2>2. q * T \in Nat
    OBVIOUS
  <2> QED  BY <2>1, <2>2, ProductMono
<1>4. (d * M) * (q * L) >= q * W - (q * L) * (T + M)
  <2>1. (T * part - M) * (q * L) = (part * L) * (q * T) - (q * L) * M
    OBVIOUS
  <2>2. (M - L) * (q * T) = q * W - (q * L) * T
    OBVIOUS
  <2>3. (q * L) * (T + M) = (q * L) * T + (q * L) * M
    OBVIOUS
  <2> QED  BY <1>2, <1>3, <2>1, <2>2, <2>3
<1>5. (u + 1) * W >= (d * M) * (q * L)
  <2>1. (u + 1) * T \in Int /\ (q * L) * d \in Int
    OBVIOUS
  <2>2. ((q * L) * d) * M <= ((u + 1) * T) * M
    BY <2>1, ProductMono
  <2>3. ((q * L) * d) * M = (d * M) * (q * L) /\ ((u + 1) * T) * M = (u + 1) * W
    OBVIOUS
  <2> QED  BY <2>2, <2>3
<1>6. (u + 1) * W >= q * W - (q * L) * (T + M)
  BY <1>4, <1>5
<1>7. (u * 10000) * W >= Q * W - Q * (L * (T + M)) - 10000 * W
  <2>1. ((u + 1) * W) * 10000 >= (q * W - (q * L) * (T + M)) * 10000
    BY <1>6
  <2>2. ((u + 1) * W) * 10000 = (u * 10000) * W + 10000 * W
    OBVIOUS
  <2>3. (q * W - (q * L) * (T + M)) * 10000 = Q * W - Q * (L * (T + M))
    OBVIOUS
  <2> QED  BY <2>1, <2>2, <2>3
<1>8. Q * W >= (P * r) * W - 10000 * W
  <2>1. (P * r - 10000) * W <= Q * W
    <3>1. P * r - 10000 \in Int
      OBVIOUS
    <3> HIDE DEF Q, W
    <3> QED  BY <1>1, <3>1, ProductMono DEF Q
  <2>2. (P * r - 10000) * W = (P * r) * W - 10000 * W
    OBVIOUS
  <2> QED  BY <2>1, <2>2
<1>9. Q * (L * (T + M)) <= (P * r) * (L * (T + M))
  <2>1. L * (T + M) \in Nat /\ P * r \in Int
    OBVIOUS
  <2> HIDE DEF Q
  <2> QED  BY <1>1, <2>1, ProductMono DEF Q
<1>10. (P * r) * (L * (T + M)) <= (r * (B + C)) * W
  <2>1. (P * L) * (r * M) <= (B * T) * (r * M)
    <3>1. P * L \in Int /\ B * T \in Int /\ r * M \in Nat
      OBVIOUS
    <3> QED  BY <3>1, ProductMono
  <2>2. (P * L) * (r * T) <= (C * M) * (r * T)
    <3>1. P * L \in Int /\ C * M \in Int /\ r * T \in Nat
      OBVIOUS
    <3> QED  BY <3>1, ProductMono
  <2>3. (P * r) * (L * (T + M)) = (P * L) * (r * M) + (P * L) * (r * T)
    OBVIOUS
  <2>4. (r * (B + C)) * W = (B * T) * (r * M) + (C * M) * (r * T)
    OBVIOUS
  <2> QED  BY <2>1, <2>2, <2>3, <2>4
<1>11. 20000 * W <= (A * r) * W
  <2>1. A * r \in Int
    OBVIOUS
  <2> HIDE DEF W
  <2> QED  BY <1>1, <2>1, ProductMono
<1>12. (u * 10000) * W >= (P * r) * W - (A * r) * W - (r * (B + C)) * W
  BY <1>7, <1>8, <1>9, <1>10, <1>11
<1>13. (n + 1) * (r * W) > (u * 10000) * W
  <2>1. ((n + 1) * r) * W > (u * 10000) * W
    <3>1. (n + 1) * r \in Int /\ u * 10000 \in Int
      OBVIOUS
    <3>2. u * 10000 + 1 <= (n + 1) * r
      OBVIOUS
    <3> HIDE DEF W
    <3>3. (u * 10000 + 1) * W <= ((n + 1) * r) * W
      BY <1>1, <3>1, <3>2, ProductMono
    <3>4. (u * 10000 + 1) * W = (u * 10000) * W + W
      BY <1>1
    <3> QED  BY <1>1, <3>1, <3>3, <3>4
  <2> QED  BY <2>1
<1>14. (n + 1) * (r * W) > (P - A - B - C) * (r * W)
  <2>1. (P - A - B - C) * (r * W) = (P * r) * W - (A * r) * W - (r * (B + C)) * W
    OBVIOUS
  <2> QED  BY <1>12, <1>13, <2>1
<1>15. n + 1 > P - A - B - C
  <2> DEFINE V == r * W
             x == P - A - B - C
  <2>1. V \in Nat /\ x \in Int
    OBVIOUS
  <2> HIDE DEF W, V, x
  <2>2. ASSUME n + 1 <= x PROVE FALSE
    <3>1. (n + 1) * V <= x * V
      BY <2>1, <2>2, ProductMono
    <3> QED  BY <1>14, <2>1, <3>1 DEF V, x
  <2>3. n + 1 > x
    BY <2>1, <2>2
  <2> QED  BY <2>3 DEF x
<1> QED  BY <1>15

LEMMA QuotientBounds ==
    ASSUME NEW a \in Nat, NEW b \in Nat \ {0}
    PROVE  /\ a \div b \in Nat
           /\ (a \div b) * b <= a
           /\ ((a \div b) + 1) * b > a
OBVIOUS

LEMMA CeilDivBounds ==
    ASSUME NEW m \in Nat, NEW n \in Nat \ {0}
    PROVE  CeilDiv(m, n) \in Nat /\ CeilDiv(m, n) * n >= m
<1> DEFINE a == m + n - 1
<1>1. a \in Nat
  OBVIOUS
<1> HIDE DEF a
<1>2. a \div n \in Nat /\ ((a \div n) + 1) * n > a
  BY <1>1, QuotientBounds
<1>3. ((a \div n) + 1) * n = (a \div n) * n + n
  BY <1>2
<1> QED  BY <1>2, <1>3 DEF CeilDiv, a

LEMMA MillionType == Million \in Nat \ {0}
BY DEF Million

(* How far the price is from the trigger when liquidation is allowed.      *)
Margin(f) == Million \div f.leverage
Distance(f, price) == IF f.side = "Long" THEN f.trigger - price ELSE price - f.trigger

LEMMA MarginBounds ==
    ASSUME NEW f \in Fights
    PROVE  /\ Margin(f) \in 0..Million
           /\ Margin(f) * f.leverage >= Million - f.leverage
<1>1. f.leverage \in 1..100
  BY DEF Fights
<1> DEFINE l == f.leverage
           m == Million \div l
<1>2. l \in Nat \ {0} /\ Million \in Nat
  BY <1>1, MillionType
<1> HIDE DEF l
<1>3. m \in Nat /\ m * l <= Million /\ (m + 1) * l > Million
  BY <1>2, QuotientBounds
<1> HIDE DEF m
<1>4. m * 1 <= m * l
  BY <1>2, <1>3
<1>5. (m + 1) * l = m * l + l
  BY <1>2, <1>3
<1> QED  BY <1>2, <1>3, <1>4, <1>5 DEF Margin, m, l

LEMMA LiquidatableDistance ==
    ASSUME NEW f \in Fights, NEW price \in Nat, Liquidatable(f, price)
    PROVE  /\ Distance(f, price) \in Nat
           /\ (Distance(f, price) + 1) * Million >= f.trigger * Margin(f)
<1> DEFINE T == f.trigger
           part == Margin(f)
<1>1. T \in Nat \ {0} /\ part \in 0..Million /\ Million \in Nat \ {0}
  BY MarginBounds, MillionType DEF Fights
<1>2. IF f.side = "Long" THEN price <= (T * (Million - part)) \div Million
                         ELSE price >= (T * (Million + part)) \div Million
  BY DEF Liquidatable, LiquidationPrice, Margin
<1> HIDE DEF T, part
<1>3. T * part \in Nat
  BY <1>1
<1>4. CASE f.side = "Long"
  <2>1. T * (Million - part) \in Nat
    BY <1>1
  <2>2. price * Million <= T * (Million - part)
    <3> DEFINE at == (T * (Million - part)) \div Million
    <3>1. at \in Nat /\ at * Million <= T * (Million - part) /\ price <= at
      BY <1>1, <1>2, <1>4, <2>1, QuotientBounds
    <3> HIDE DEF at
    <3>2. price * Million <= at * Million
      BY <1>1, <3>1, ProductMono
    <3> QED  BY <1>1, <2>1, <3>1, <3>2
  <2>3. T * (Million - part) = T * Million - T * part
    BY <1>1
  <2>4. (T - price) * Million >= T * part
    BY <1>1, <1>3, <2>2, <2>3
  <2>5. T - price \in Nat
    <3>1. ASSUME price >= T + 1 PROVE FALSE
      <4>1. (T + 1) * Million <= price * Million
        BY <1>1, <3>1, ProductMono
      <4> QED  BY <1>1, <1>3, <2>2, <2>3, <4>1
    <3> QED  BY <1>1, <3>1
  <2>6. (T - price + 1) * Million = (T - price) * Million + Million
    BY <1>1
  <2>7. (T - price + 1) * Million >= T * part
    BY <1>1, <1>3, <2>4, <2>6
  <2> QED  BY <1>4, <2>5, <2>7 DEF Distance, T, part
<1>5. CASE f.side # "Long"
  <2>1. T * (Million + part) \in Nat
    BY <1>1
  <2>2. (price + 1) * Million > T * (Million + part)
    <3> DEFINE at == (T * (Million + part)) \div Million
    <3>1. /\ at \in Nat /\ (at + 1) * Million > T * (Million + part)
          /\ price >= at
      BY <1>1, <1>2, <1>5, <2>1, QuotientBounds
    <3> HIDE DEF at
    <3>2. (at + 1) * Million <= (price + 1) * Million
      BY <1>1, <3>1, ProductMono
    <3> QED  BY <1>1, <2>1, <3>1, <3>2
  <2>3. T * (Million + part) = T * Million + T * part
    BY <1>1
  <2>4. (price - T + 1) * Million > T * part
    BY <1>1, <1>3, <2>2, <2>3
  <2>5. price - T \in Nat
    <3>1. ASSUME price + 1 <= T PROVE FALSE
      <4>1. (price + 1) * Million <= T * Million
        BY <1>1, <3>1, ProductMono
      <4> QED  BY <1>1, <1>3, <2>2, <2>3, <4>1
    <3> QED  BY <1>1, <3>1
  <2>6. (price - T + 1) * Million >= T * part
    BY <1>1, <1>3, <2>4
  <2> QED  BY <1>5, <2>5, <2>6 DEF Distance, T, part
<1> QED  BY <1>4, <1>5

(* The loss at that distance, as close_position computes it.               *)
LossUsdc(f, price, rate) ==
    ((((f.power * rate) \div 10000) * f.leverage) * Distance(f, price)) \div f.trigger
Loss(f, price, rate) == (LossUsdc(f, price, rate) * 10000) \div rate

LEMMA PnlIsLoss ==
    ASSUME NEW f \in Fights, NEW price \in Nat, NEW rate \in Nat \ {0},
           Distance(f, price) \in Nat
    PROVE  /\ LossUsdc(f, price, rate) \in Nat
           /\ Loss(f, price, rate) \in Nat
           /\ PnlPower(f, price, rate) = -Loss(f, price, rate)
<1>1. f.power \in Nat /\ f.trigger \in Nat \ {0} /\ f.leverage \in Nat
  BY DEF Fights
<1> DEFINE size == ((f.power * rate) \div 10000) * f.leverage
           d == Distance(f, price)
           u == (size * d) \div f.trigger
           up == TruncDiv(size * (price - f.trigger), f.trigger)
           pnl == IF f.side = "Long" THEN up ELSE -up
<1>2. size \in Nat
  <2>1. f.power * rate \in Nat
    BY <1>1
  <2>2. (f.power * rate) \div 10000 \in Nat
    BY <2>1, QuotientType
  <2> QED  BY <1>1, <2>2
<1>margin. TruncDiv(f.power * rate, 10000) = (f.power * rate) \div 10000
  <2>1. f.power * rate \in Nat
    BY <1>1
  <2> QED  BY <2>1, TruncDivSigns
<1>3. d \in Nat /\ (price - f.trigger = IF f.side = "Long" THEN -d ELSE d)
  BY <1>1 DEF Distance
<1> HIDE DEF size, d
<1>4. size * d \in Nat /\ u \in Nat
  <2>1. size * d \in Nat
    BY <1>2, <1>3
  <2> QED  BY <1>1, <2>1, QuotientType
<1>5. pnl = -u
  <2>1. CASE f.side = "Long"
    <3>1. size * (price - f.trigger) = -(size * d)
      BY <1>2, <1>3, <2>1
    <3>2. up = -u
      BY <1>1, <1>4, <3>1, TruncDivSigns
    <3> QED  BY <2>1, <3>2
  <2>2. CASE f.side # "Long"
    <3>1. size * (price - f.trigger) = size * d
      BY <1>3, <2>2
    <3>2. up = u
      BY <1>1, <1>4, <3>1, TruncDivSigns
    <3> QED  BY <2>2, <3>2
  <2> QED  BY <2>1, <2>2
<1>6. LossUsdc(f, price, rate) = u
  BY DEF LossUsdc, size, d
<1>7. PnlPower(f, price, rate) = TruncDiv(pnl * 10000, rate)
  BY <1>margin DEF PnlPower, size
<1> HIDE DEF pnl, u
<1>8. u * 10000 \in Nat /\ pnl * 10000 = -(u * 10000)
  BY <1>4, <1>5
<1>9. TruncDiv(pnl * 10000, rate) = -((u * 10000) \div rate)
  BY <1>8, TruncDivSigns
<1>10. (u * 10000) \div rate \in Nat
  BY <1>8, QuotientType
<1> QED  BY <1>4, <1>6, <1>7, <1>9, <1>10 DEF Loss

LEMMA FairForOne ==
    ASSUME PositionAssumption, NEW f \in Fights, NEW price \in Nat,
           NEW rate \in Nat \ {0}, Liquidatable(f, price)
    PROVE  StakeAfterPnl(f, price, rate)
             <= CeilDiv(2 * 10000, rate) + CeilDiv(f.power * f.leverage, f.trigger)
                                         + CeilDiv(f.power * f.leverage, Million)
<1> DEFINE P == f.power
           L == f.leverage
           T == f.trigger
           q == (P * rate) \div 10000
           d == Distance(f, price)
           u == LossUsdc(f, price, rate)
           n == Loss(f, price, rate)
           A == CeilDiv(20000, rate)
           B == CeilDiv(P * L, T)
           C == CeilDiv(P * L, Million)
           part == Margin(f)
<1>1. P \in Nat /\ L \in Nat \ {0} /\ T \in Nat \ {0}
  BY DEF Fights
<1>2. /\ d \in Nat /\ part \in Nat
      /\ (d + 1) * Million >= T * part
      /\ part * L >= Million - L
  BY LiquidatableDistance, MarginBounds
<1>3. u \in Nat /\ n \in Nat /\ PnlPower(f, price, rate) = -n
  BY <1>2, PnlIsLoss
<1>4. u = ((q * L) * d) \div T /\ n = (u * 10000) \div rate
  BY DEF LossUsdc, Loss
<1> HIDE DEF P, L, T, d, u, n, part
<1>5. P * L \in Nat /\ P * rate \in Nat
  BY <1>1
<1>6. /\ A \in Nat /\ A * rate >= 20000
      /\ B \in Nat /\ B * T >= P * L
      /\ C \in Nat /\ C * Million >= P * L
  <2> DEFINE s == P * L
             a == 20000
  <2>1. s \in Nat /\ a \in Nat
    BY <1>5
  <2> HIDE DEF s, a
  <2>2. A \in Nat /\ A * rate >= a
    BY <2>1, CeilDivBounds DEF a
  <2>3. B \in Nat /\ B * T >= s
    BY <1>1, <2>1, CeilDivBounds DEF s
  <2>4. C \in Nat /\ C * Million >= s
    BY <2>1, CeilDivBounds, MillionType DEF s
  <2> QED  BY <2>2, <2>3, <2>4 DEF s, a
<1>7. q \in Nat /\ q * 10000 <= P * rate /\ q * 10000 >= P * rate - 10000
  BY <1>5
<1> HIDE DEF q, A, B, C
<1>8. (u + 1) * T >= (q * L) * d
  <2> DEFINE a == (q * L) * d
  <2>1. a \in Nat /\ u = a \div T
    BY <1>1, <1>2, <1>4, <1>7
  <2> HIDE DEF a
  <2>2. (u + 1) * T > a /\ (u + 1) * T \in Int
    BY <1>1, <1>3, <2>1, QuotientBounds
  <2>3. (u + 1) * T >= a
    BY <2>1, <2>2
  <2> QED  BY <2>3 DEF a
<1>9. (n + 1) * rate > u * 10000
  <2>1. PICK x \in Nat : x = u * 10000
    BY <1>3
  <2>2. ((x \div rate) + 1) * rate > x
    BY QuotientBounds
  <2>3. n = x \div rate
    BY <1>4, <2>1
  <2> QED  BY <2>1, <2>2, <2>3
<1>10. P - n <= A + B + C
  <2>1. Million \in Nat \ {0}
    BY MillionType
  <2> QED  BY <1>1, <1>2, <1>3, <1>6, <1>7, <1>8, <1>9, <2>1, LossBound
<1>11. StakeAfterPnl(f, price, rate) = IF P - n > 0 THEN P - n ELSE 0
  BY <1>1, <1>3 DEF StakeAfterPnl, P
<1>12. StakeAfterPnl(f, price, rate) <= A + B + C
  BY <1>6, <1>10, <1>11
<1> QED  BY <1>12 DEF A, B, C, P, L, T

(* The sign of the rate cancels out: it turns the size of the position and *)
(* then the profit back.                                                   *)
LEMMA PnlPowerEven ==
    ASSUME NEW f \in Fights, NEW price \in Nat, NEW rate \in Nat \ {0}
    PROVE  PnlPower(f, price, -rate) = PnlPower(f, price, rate)
<1> DEFINE margin(r) == TruncDiv(f.power * r, 10000)
           size(r) == margin(r) * f.leverage
           up(r) == TruncDiv(size(r) * (price - f.trigger), f.trigger)
           pnl(r) == IF f.side = "Long" THEN up(r) ELSE -up(r)
<1>1. f.power \in Nat /\ f.trigger \in Nat \ {0} /\ f.leverage \in Nat
  BY DEF Fights
<1>2. margin(rate) \in Int /\ margin(-rate) = -margin(rate)
  <2>1. PICK n \in Nat : n = f.power * rate
    BY <1>1
  <2>2. f.power * (-rate) = -n
    BY <1>1, <2>1
  <2> QED  BY <2>1, <2>2, TruncDivType, TruncDivNegative
<1> HIDE DEF margin
<1>3. size(rate) \in Int /\ size(-rate) = -size(rate)
  BY <1>1, <1>2
<1> HIDE DEF size
<1>4. up(rate) \in Int /\ up(-rate) = -up(rate)
  <2>1. PICK n \in Int : n = size(rate) * (price - f.trigger)
    BY <1>1, <1>3
  <2>2. size(-rate) * (price - f.trigger) = -n
    <3>1. PICK m \in Int, d \in Int : m = size(rate) /\ d = price - f.trigger
      BY <1>1, <1>3
    <3>2. (-m) * d = -(m * d)
      OBVIOUS
    <3> QED  BY <1>3, <2>1, <3>1, <3>2
  <2>3. TruncDiv(n, f.trigger) \in Int
    BY <1>1, TruncDivType
  <2>4. TruncDiv(-n, f.trigger) = -TruncDiv(n, f.trigger)
    BY <1>1, TruncDivNegative
  <2>5. up(rate) = TruncDiv(n, f.trigger) /\ up(-rate) = TruncDiv(-n, f.trigger)
    BY <2>1, <2>2
  <2> QED  BY <2>3, <2>4, <2>5
<1> HIDE DEF up
<1>5. pnl(rate) \in Int /\ pnl(-rate) = -pnl(rate)
  BY <1>4
<1>6. /\ PnlPower(f, price, rate) = TruncDiv(pnl(rate) * 10000, rate)
      /\ PnlPower(f, price, -rate) = TruncDiv(pnl(-rate) * 10000, -rate)
  BY DEF PnlPower, up, size, margin
<1> HIDE DEF pnl
<1>7. PICK n \in Int : n = pnl(rate) * 10000
  BY <1>5
<1>8. pnl(-rate) * 10000 = -n
  BY <1>5, <1>7
<1> QED  BY <1>6, <1>7, <1>8, TruncDivNegative

-----------------------------------------------------------------------------
(* The theorems.                                                           *)

(* The inductive invariant: the types, and CardSafe of every card.         *)
THEOREM PositionInvariant == Spec => [](TypeOK /\ AllSafe)
<1>1. Init => AllSafe
  BY CardAssumption, InitSafe
<1>2. TypeOK /\ AllSafe /\ [Next]_vars => AllSafe'
  BY CardAssumption, PositionAssumption, StepSafe DEF Assumptions
<1> QED  BY <1>1, <1>2, PositionTypes, PTL DEF Spec

(* A staking or fighting card always has a record through which its owner  *)
(* gets it back, and one only, unless the card was lost with a record; a   *)
(* staked card has all its power in that record.                           *)
THEOREM PositionsBacked == Spec => []LocksBacked
<1>1. AllSafe => LocksBacked
  BY DEF AllSafe, CardSafe, LocksBacked
<1> QED  BY <1>1, PositionInvariant, PTL

(* Neither staking nor fighting is a way past the most a card may have:    *)
(* card and position together never hold more.                             *)
THEOREM CapHolds == Spec => []PowerCapped
<1>1. AllSafe => PowerCapped
  BY DEF AllSafe, CardSafe, PowerCapped
<1> QED  BY <1>1, PositionInvariant, PTL

(* increase_stake_power never succeeds: a staked card has no power.        *)
THEOREM IncreaseRefused == Spec => []NothingToIncrease
<1>1. ASSUME TypeOK, AllSafe, NEW k \in Positions, NEW amount \in 1..TopPower
      PROVE  ~CanIncreaseStakePower(k, amount)
  <2>1. lock[CardOf(k)] = "Stake" => power[CardOf(k)] = 0
    BY <1>1, CardOfPosition DEF AllSafe, CardSafe
  <2> QED  BY <1>1, <2>1 DEF CanIncreaseStakePower
<1>2. TypeOK /\ AllSafe => NothingToIncrease
  BY <1>1 DEF NothingToIncrease
<1> QED  BY <1>2, PositionInvariant, PTL

(* Liquidation takes nothing from the owner that closing would have saved: *)
(* for every price, rate, leverage and stake the difference is a rounding. *)
THEOREM LiquidationIsFair == Spec => []LiquidationFair
<1>1. ASSUME TypeOK, NEW k \in DOMAIN fights, NEW price \in Prices,
             NEW rate \in Rates \ {0}, Liquidatable(fights[k], price)
      PROVE  StakeAfterPnl(fights[k], price, rate)
               <= CeilDiv(2 * 10000, Abs(rate))
                    + CeilDiv(fights[k].power * fights[k].leverage, fights[k].trigger)
                    + CeilDiv(fights[k].power * fights[k].leverage, Million)
  <2>1. fights[k] \in Fights
    BY <1>1 DEF TypeOK
  <2>2. price \in Nat /\ rate \in Int \ {0}
    BY PositionAssumption DEF PositionAssumption
  <2>3. PICK r \in Nat \ {0} : r = Abs(rate) /\ (rate = r \/ rate = -r)
    BY <2>2 DEF Abs
  <2>4. StakeAfterPnl(fights[k], price, rate) = StakeAfterPnl(fights[k], price, r)
    BY <2>1, <2>2, <2>3, PnlPowerEven DEF StakeAfterPnl
  <2>5. StakeAfterPnl(fights[k], price, r)
          <= CeilDiv(2 * 10000, r)
               + CeilDiv(fights[k].power * fights[k].leverage, fights[k].trigger)
               + CeilDiv(fights[k].power * fights[k].leverage, Million)
    BY <1>1, <2>1, <2>2, PositionAssumption, FairForOne
  <2> QED  BY <2>3, <2>4, <2>5
<1>2. TypeOK => LiquidationFair
  BY <1>1 DEF LiquidationFair
<1> QED  BY <1>2, PositionTypes, PTL

-----------------------------------------------------------------------------
(* What the decks see of stakes and fights: the implementation of CardUse. *)

seenLock == [c \in Cards |-> Held(lock[c])]
SeenLost(S) == {<<e[1], Held(e[2])>> : e \in S}

LEMMA HeldLocks ==
    ASSUME CardAssumption, CardTypeOK, NEW c \in Cards
    PROVE  /\ seenLock[c] = Held(lock[c])
           /\ seenLock[c] = Absent <=> lock[c] = Absent
           /\ seenLock[c] = "None" <=> lock[c] = "None"
           /\ seenLock[c] = "Deck" <=> lock[c] = "Deck"
           /\ seenLock[c] = "Stake" <=> lock[c] \in {"Stake", "Fight"}
<1>1. lock[c] \in {"None", "Stake", "Fight", "Deck", Absent}
  BY DEF CardTypeOK, Locks
<1>2. Absent \notin {"None", "Stake", "Fight", "Deck"}
  BY DEF CardAssumption, Locks
<1> QED  BY <1>1, <1>2 DEF seenLock, Held

LEMMA SeenLosses ==
    /\ SeenLost({}) = {}
    /\ \A S, T : SeenLost(S \cup T) = SeenLost(S) \cup SeenLost(T)
    /\ \A c, l : SeenLost({<<c, l>>}) = {<<c, Held(l)>>}
BY DEF SeenLost

(* The losses of a call are seen as the losses of the call that is seen.   *)
LEMMA SeenLostWith ==
    ASSUME CardAssumption, CardTypeOK, NEW c \in Cards
    PROVE  SeenLost(LostWith(c)) = Use!LostWith(c)
<1>1. /\ seenLock[c] \in {"None", Absent} <=> lock[c] \in {"None", Absent}
      /\ seenLock[c] = Held(lock[c])
  BY HeldLocks
<1> QED  BY <1>1, SeenLosses DEF LostWith, Use!LostWith, seenLock

LEMMA SeenBecome ==
    ASSUME CardTypeOK, NEW c \in Cards, NEW n, NEW l,
           lock' = [lock EXCEPT ![c] = l], power' = [power EXCEPT ![c] = n]
    PROVE  Use!Become(c, Held(l), n)
<1>1. \A d \in Cards : lock'[d] = IF d = c THEN l ELSE lock[d]
  BY DEF CardTypeOK
<1>2. seenLock' = [d \in Cards |-> Held(lock'[d])]
  BY DEF seenLock, Held
<1>3. seenLock' = [seenLock EXCEPT ![c] = Held(l)]
  <2>1. [d \in Cards |-> Held(lock'[d])]
            = [d \in Cards |-> IF d = c THEN Held(l) ELSE Held(lock[d])]
    BY <1>1
  <2>2. [seenLock EXCEPT ![c] = Held(l)]
            = [d \in Cards |-> IF d = c THEN Held(l) ELSE Held(lock[d])]
    BY DEF seenLock
  <2> QED  BY <1>2, <2>1, <2>2
<1> QED  BY <1>3 DEF Use!Become, seenLock

LEMMA SameLosses ==
    ASSUME lost' = lost
    PROVE  SeenLost(lost)' = SeenLost(lost)
BY DEF SeenLost

LEMMA MoreLosses ==
    ASSUME CardAssumption, CardTypeOK, NEW c \in Cards, lost' = lost \cup LostWith(c)
    PROVE  SeenLost(lost') = SeenLost(lost) \cup Use!LostWith(c)
BY SeenLosses, SeenLostWith

(* The calls on cards are seen as they are.                                *)
LEMMA MintSeen ==
    ASSUME CardAssumption, CardTypeOK, NEW c \in Cards, Mint(c)
    PROVE  Use!Mint(c)
<1>1. seenLock[c] = Absent /\ Held("None") = "None"
  BY HeldLocks DEF Mint, Exists, Held
<1>2. Use!Become(c, "None", InitialPower)
  BY <1>1, SeenBecome DEF Mint
<1>3. SeenLost(lost)' = SeenLost(lost)
  BY SameLosses DEF Mint
<1> QED  BY <1>1, <1>2, <1>3 DEF Use!Mint, seenLock, SeenLost

LEMMA BurnSeen ==
    ASSUME CardAssumption, CardTypeOK, NEW c \in Cards, Burn(c)
    PROVE  Use!Burn(c)
<1>1. seenLock[c] # Absent /\ Held(Absent) = Absent
  BY HeldLocks DEF Burn, Exists, Held, CardAssumption, Locks
<1>2. Use!Become(c, Absent, 0)
  BY <1>1, SeenBecome DEF Burn, RemoveCard
<1>3. SeenLost(lost') = SeenLost(lost) \cup Use!LostWith(c)
  BY MoreLosses DEF Burn
<1> QED  BY <1>1, <1>2, <1>3 DEF Use!Burn, seenLock, SeenLost

LEMMA AddPowerSeen ==
    ASSUME CardAssumption, CardTypeOK, NEW c \in Cards, NEW amount \in TopUps,
           AddPowerToCard(c, amount)
    PROVE  Use!AddPower(c, power'[c]) /\ power'[c] \in 0..TopPower
<1>1. lock[c] \in {"None", "Deck"} /\ lock' = lock
  BY DEF AddPowerToCard
<1>2. seenLock[c] \in {"None", "Deck"}
  BY <1>1, HeldLocks
<1>3. power[c] \in Nat /\ amount \in Nat /\ TopPower \in Nat
  BY TopPowerType DEF CardTypeOK, CardAssumption
<1>4. Least(power[c] + amount, MaxPower) \in 0..TopPower
  BY <1>3, TopPowerType DEF Least
<1>5. power' = [power EXCEPT ![c] = power'[c]] /\ power'[c] \in 0..TopPower
  BY <1>4 DEF AddPowerToCard, CardTypeOK
<1>6. seenLock' = seenLock
  BY <1>1 DEF seenLock, Held
<1>7. SeenLost(lost)' = SeenLost(lost)
  BY SameLosses DEF AddPowerToCard
<1> QED  BY <1>2, <1>5, <1>6, <1>7 DEF Use!AddPower, seenLock, SeenLost

LEMMA TransferSeen ==
    ASSUME CardAssumption, CardTypeOK, NEW o \in Owners, NEW to \in Owners,
           NEW t \in TokenIds, Transfer(o, to, t)
    PROVE  Use!Transfer(o, to, t)
<1> DEFINE c == <<o, t>>
           d == <<to, t>>
<1>1. c \in Cards /\ d \in Cards
  BY DEF Cards
<1>2. /\ lock[c] = "None"
      /\ lock' = [lock EXCEPT ![c] = Absent, ![d] = "None"]
      /\ power' = [power EXCEPT ![c] = 0, ![d] = power[c]]
      /\ lost' = IF o = to THEN lost ELSE lost \cup LostWith(d)
  BY DEF Transfer
<1> HIDE DEF c, d
<1>3. seenLock[c] = "None" /\ Held(Absent) = Absent /\ Held("None") = "None"
  BY <1>1, <1>2, HeldLocks DEF Held, CardAssumption, Locks
<1>4. seenLock' = [seenLock EXCEPT ![c] = Absent, ![d] = "None"]
  <2>1. \A x \in Cards : lock'[x] = IF x = d THEN "None"
                                    ELSE IF x = c THEN Absent ELSE lock[x]
    BY <1>1, <1>2 DEF CardTypeOK
  <2> DEFINE seen == [x \in Cards |-> IF x = d THEN "None"
                                      ELSE IF x = c THEN Absent ELSE Held(lock[x])]
  <2>2. [x \in Cards |-> Held(lock'[x])] = seen
    BY <1>3, <2>1
  <2>3. [seenLock EXCEPT ![c] = Absent, ![d] = "None"] = seen
    BY DEF seenLock
  <2>4. seenLock' = [x \in Cards |-> Held(lock'[x])]
    BY DEF seenLock, Held
  <2> QED  BY <2>2, <2>3, <2>4
<1>5. SeenLost(lost') = IF o = to THEN SeenLost(lost)
                        ELSE SeenLost(lost) \cup Use!LostWith(d)
  BY <1>1, <1>2, MoreLosses
<1> QED
  BY <1>2, <1>3, <1>4, <1>5 DEF Use!Transfer, seenLock, SeenLost, c, d

LEMMA DeckSeen ==
    ASSUME CardAssumption, CardTypeOK, NEW c \in Cards,
           EnterDeck(c) \/ LeaveDeck(c)
    PROVE  \E o \in Owners, leaving, entering \in SUBSET TokenIds :
                Use!Relock(o, leaving, entering)
<1>1. /\ c[1] \in Owners /\ c[2] \in TokenIds
      /\ \A x \in Cards : x = c <=> x[1] = c[1] /\ x[2] = c[2]
      /\ c = <<c[1], c[2]>>
  BY DEF Cards
<1>2. SeenLost(lost)' = SeenLost(lost) /\ power' = power
  BY SameLosses DEF EnterDeck, LeaveDeck, UpdateCard, OthersUnchanged, CardTypeOK
<1>3. seenLock' = [x \in Cards |-> Held(lock'[x])]
  BY DEF seenLock, Held
<1>4. CASE EnterDeck(c)
  <2>1. \A x \in Cards : lock'[x] = IF x = c THEN "Deck" ELSE lock[x]
    BY <1>4 DEF EnterDeck, UpdateCard, CardTypeOK
  <2>2. seenLock[c] = "None"
    BY <1>4, HeldLocks DEF EnterDeck
  <2>3. seenLock' = [x \in Cards |-> IF x[1] = c[1] /\ x[2] \in {} THEN "None"
                                    ELSE IF x[1] = c[1] /\ x[2] \in {c[2]} THEN "Deck"
                                    ELSE seenLock[x]]
    BY <1>1, <1>3, <2>1 DEF seenLock, Held
  <2>4. Use!Relock(c[1], {}, {c[2]})
    BY <1>1, <1>2, <2>2, <2>3 DEF Use!Relock, Use!Cards, Cards, seenLock, SeenLost
  <2> QED  BY <1>1, <2>4
<1>5. CASE LeaveDeck(c)
  <2>1. \A x \in Cards : lock'[x] = IF x = c THEN "None" ELSE lock[x]
    BY <1>5 DEF LeaveDeck, UpdateCard, CardTypeOK
  <2>2. seenLock[c] = "Deck"
    BY <1>5, HeldLocks DEF LeaveDeck
  <2>3. seenLock' = [x \in Cards |-> IF x[1] = c[1] /\ x[2] \in {c[2]} THEN "None"
                                    ELSE IF x[1] = c[1] /\ x[2] \in {} THEN "Deck"
                                    ELSE seenLock[x]]
    BY <1>1, <1>3, <2>1 DEF seenLock, Held
  <2>4. Use!Relock(c[1], {c[2]}, {})
    BY <1>1, <1>2, <2>2, <2>3 DEF Use!Relock, Use!Cards, Cards, seenLock, SeenLost
  <2> QED  BY <1>1, <2>4
<1> QED  BY <1>4, <1>5

(* A call that takes a free card is seen as Take, and one that returns a   *)
(* card in reach as Release or Remove.                                     *)
LEMMA TakeSeen ==
    ASSUME CardAssumption, CardTypeOK, NEW c \in Cards, NEW n \in 0..TopPower,
           NEW l \in {"Stake", "Fight"}, lock[c] = "None", n <= power[c],
           UpdateCard(c, n, l), lost' = lost
    PROVE  Use!OtherStep
<1>1. seenLock[c] = "None" /\ Held(l) = "Stake"
  BY HeldLocks DEF Held
<1>2. Use!Become(c, "Stake", n)
  BY <1>1, SeenBecome DEF UpdateCard
<1>3. SeenLost(lost)' = SeenLost(lost)
  BY SameLosses
<1>4. Use!Take(c, n)
  BY <1>1, <1>2, <1>3 DEF Use!Take, seenLock, SeenLost
<1>5. power'[c] = n
  BY DEF UpdateCard, CardTypeOK
<1> QED  BY <1>4, <1>5 DEF Use!OtherStep, Use!Cards, Cards

LEMMA ReleaseIsStep ==
    ASSUME NEW c \in Cards, NEW n \in 0..TopPower, power'[c] = n, Use!Release(c, n)
    PROVE  Use!OtherStep
<1>1. power'[c] \in 0..TopPower
  OBVIOUS
<1>2. Use!Release(c, power'[c])
  BY DEF Use!Release, Use!Become
<1> QED  BY <1>1, <1>2 DEF Use!OtherStep, Use!Cards, Cards

LEMMA ReleaseSeen ==
    ASSUME CardAssumption, CardTypeOK, NEW c \in Cards, NEW n \in 0..TopPower,
           Use!InReach(c), ReleaseCard(c, n)
    PROVE  Use!OtherStep
<1>1. /\ Held("None") = "None" /\ Held(Absent) = Absent
      /\ seenLock[c] = "Deck" <=> lock[c] = "Deck"
  BY HeldLocks DEF Held, CardAssumption, Locks
<1>2. SeenLost(lost') = SeenLost(lost) \cup Use!LostByRelease(c)
  <2>1. CASE lock[c] = "Deck"
    <3>1. lost' = lost \cup LostWith(c) /\ LostWith(c) = {<<c, "Deck">>}
      BY <2>1 DEF ReleaseCard, LostWith, CardAssumption, Locks
    <3>2. SeenLost(LostWith(c)) = {<<c, "Deck">>}
      BY <3>1, SeenLosses DEF Held
    <3> QED  BY <1>1, <2>1, <3>1, <3>2, SeenLosses DEF Use!LostByRelease, seenLock
  <2>2. CASE lock[c] # "Deck"
    <3>1. lost' = lost
      BY <2>2 DEF ReleaseCard
    <3> QED  BY <1>1, <2>2, <3>1 DEF Use!LostByRelease, seenLock
  <2> QED  BY <2>1, <2>2
<1>3. CASE n = 0
  <2>1. Use!Become(c, Absent, 0)
    BY <1>1, <1>3, SeenBecome DEF ReleaseCard, RemoveCard
  <2>2. Use!Remove(c)
    BY <1>2, <2>1 DEF Use!Remove, SeenLost
  <2> QED  BY <2>2 DEF Use!OtherStep, Use!Cards, Cards
<1>4. CASE n # 0
  <2>1. Use!Become(c, "None", n) /\ power'[c] = n
    BY <1>1, <1>4, SeenBecome DEF ReleaseCard, UpdateCard, CardTypeOK
  <2>2. Use!Release(c, n)
    BY <1>2, <2>1 DEF Use!Release, SeenLost
  <2> QED  BY <2>1, <2>2, ReleaseIsStep
<1> QED  BY <1>3, <1>4

LEMMA StakeStepSeen ==
    ASSUME Assumptions, TypeOK, AllSafe, StakeStep
    PROVE  Use!OtherStep
<1>1. CardAssumption /\ CardTypeOK
  BY DEF Assumptions, TypeOK
<1>2. PICK k \in Positions :
        \/ \E interest \in Interests, rate \in PowerFees : Stake(k, interest, rate)
        \/ Unstake(k)
  BY DEF StakeStep
<1> DEFINE c == CardOf(k)
<1>3. c \in Cards /\ power[c] \in Nat /\ TopPower \in Nat
  BY <1>1, CardOfPosition, TopPowerType DEF CardTypeOK
<1>4. ASSUME NEW interest, NEW rate, Stake(k, interest, rate)
      PROVE  Use!OtherStep
  <2>1. /\ lock[c] = "None" /\ UpdateCard(c, 0, "Stake") /\ lost' = lost
    BY <1>4 DEF Stake, PowerLeft, OthersUnchanged
  <2>2. 0 \in 0..TopPower /\ 0 <= power[c]
    BY <1>3
  <2> QED  BY <1>1, <1>3, <2>1, <2>2, TakeSeen
<1>5. ASSUME Unstake(k) PROVE Use!OtherStep
  <2>1. PICK n \in Int : n = Capped(power[c] + stakes[k].power
                           + (stakes[k].power * stakes[k].interest) \div 100)
                  /\ n \in 0..TopPower
    <3>1. stakes[k].power \in Nat /\ stakes[k].interest \in Nat
      BY <1>5 DEF Unstake, TypeOK, Stakes
    <3>2. stakes[k].power * stakes[k].interest \in Nat
      BY <3>1
    <3>3. (stakes[k].power * stakes[k].interest) \div 100 \in Nat
      BY <3>2, QuotientType
    <3>4. power[c] + stakes[k].power
            + (stakes[k].power * stakes[k].interest) \div 100 \in Nat
      BY <1>3, <3>1, <3>3
    <3> QED  BY <1>1, <3>4, CappedBounds
  <2>2. lock[c] = "Stake" /\ UpdateCard(c, n, "None") /\ lost' = lost
    BY <1>5, <2>1 DEF Unstake, OthersUnchanged
  <2> HIDE DEF c
  <2>3. seenLock[c] = "Stake" /\ seenLock[c] # Absent /\ Held("None") = "None"
    BY <1>1, <1>3, <2>2, HeldLocks DEF Held, CardAssumption, Locks
  <2>4. Use!Become(c, "None", n) /\ power'[c] = n
    <3>1. Use!Become(c, Held("None"), n)
      BY <1>1, <1>3, <2>2, SeenBecome DEF UpdateCard
    <3>2. power'[c] = n
      BY <1>1, <1>3, <2>2 DEF UpdateCard, CardTypeOK
    <3> QED  BY <2>3, <3>1, <3>2
  <2>5. SeenLost(lost') = SeenLost(lost) \cup Use!LostByRelease(c)
    BY <2>2, <2>3 DEF Use!LostByRelease, seenLock
  <2>6. Use!Release(c, n)
    BY <2>3, <2>4, <2>5 DEF Use!Release, Use!InReach, seenLock, SeenLost
  <2> QED  BY <1>3, <2>1, <2>4, <2>6, ReleaseIsStep
<1> QED  BY <1>2, <1>4, <1>5

(* A fight's record reaches the card it locks, and any later card of the   *)
(* owner and the token when that one was lost.                             *)
LEMMA FightInReach ==
    ASSUME Assumptions, TypeOK, AllSafe, NEW k \in DOMAIN fights,
           Exists(CardOf(k))
    PROVE  Use!InReach(CardOf(k))
<1> DEFINE c == CardOf(k)
<1>1. c \in Cards /\ k \in FightsOn(c) /\ CardSafe(c)
  BY CardOfPosition DEF TypeOK, AllSafe, FightsOn
<1>2. NeverLost(c) => lock[c] = "Fight"
  BY <1>1 DEF CardSafe
<1> HIDE DEF c
<1>3. seenLock[c] # Absent /\ (lock[c] = "Fight" => seenLock[c] = "Stake")
  BY <1>1, HeldLocks DEF Assumptions, TypeOK, Exists, c
<1>4. ~NeverLost(c) => <<c, "Stake">> \in SeenLost(lost)
  <2>1. ASSUME <<c, "Stake">> \in lost PROVE <<c, "Stake">> \in SeenLost(lost)
    BY <2>1 DEF SeenLost, Held
  <2>2. ASSUME <<c, "Fight">> \in lost PROVE <<c, "Stake">> \in SeenLost(lost)
    BY <2>2 DEF SeenLost, Held
  <2> QED  BY <2>1, <2>2 DEF NeverLost
<1>5. Use!InReach(c)
  BY <1>2, <1>3, <1>4 DEF Use!InReach, seenLock, SeenLost
<1> QED  BY <1>5 DEF c

LEMMA FightStepSeen ==
    ASSUME Assumptions, TypeOK, AllSafe, FightStep
    PROVE  Use!OtherStep
<1>1. CardAssumption /\ CardTypeOK
  BY DEF Assumptions, TypeOK
<1>2. PICK k \in Positions, price \in Prices :
        \/ \E side \in Sides, leverage \in Leverages, amount \in Amounts,
              rate \in PowerFees : OpenPosition(k, side, leverage, amount, price, rate)
        \/ \E rate \in Rates : ClosePosition(k, price, rate)
        \/ CheckLiquidation(k, price)
  BY DEF FightStep
<1> DEFINE c == CardOf(k)
<1>3. c \in Cards /\ power[c] \in 0..TopPower /\ TopPower \in Nat
  BY <1>1, CardOfPosition, TopPowerType DEF CardTypeOK, AllSafe, CardSafe
<1>4. ASSUME NEW side, NEW leverage, NEW amount \in Amounts, NEW rate \in PowerFees,
             OpenPosition(k, side, leverage, amount, price, rate)
      PROVE  Use!OtherStep
  <2>1. PICK taken \in Nat : taken = amount + PowerFee(rate, amount)
    <3>1. amount \in Nat
      BY DEF Assumptions, PositionAssumption
    <3>2. PowerFee(rate, amount) \in Nat
      BY <3>1, PowerFeeType DEF Assumptions
    <3>3. amount + PowerFee(rate, amount) \in Nat
      BY <3>1, <3>2
    <3> QED  BY <3>3
  <2>2. /\ lock[c] = "None" /\ power[c] >= taken
        /\ UpdateCard(c, power[c] - taken, "Fight") /\ lost' = lost
    BY <1>4, <2>1 DEF OpenPosition, OthersUnchanged
  <2> HIDE DEF c
  <2>3. power[c] - taken \in 0..TopPower /\ power[c] - taken <= power[c]
    BY <1>3, <2>2
  <2> QED  BY <1>1, <1>3, <2>2, <2>3, TakeSeen
<1>5. ASSUME NEW rate \in Rates, ClosePosition(k, price, rate)
      PROVE  Use!OtherStep
  <2>1. PICK n \in 0..TopPower : ReleaseCard(CardOf(k), n)
    BY <1>5, ClosePositionReleases
  <2>2. k \in DOMAIN fights /\ Exists(CardOf(k))
    BY <1>5 DEF ClosePosition
  <2> QED  BY <1>1, <1>3, <2>1, <2>2, FightInReach, ReleaseSeen
<1>6. ASSUME CheckLiquidation(k, price) PROVE Use!OtherStep
  <2>1. k \in DOMAIN fights /\ Exists(CardOf(k)) /\ ReleaseCard(CardOf(k), power[c])
    BY <1>6 DEF CheckLiquidation
  <2> QED  BY <1>1, <1>3, <2>1, FightInReach, ReleaseSeen
<1> QED  BY <1>2, <1>4, <1>5, <1>6

LEMMA CardStepSeen ==
    ASSUME Assumptions, TypeOK, CardStep
    PROVE  [Use!Next]_(Use!cardVars)
<1>1. CardAssumption /\ CardTypeOK
  BY DEF Assumptions, TypeOK
<1>2. ASSUME NEW o \in Owners, CreateUser(o) PROVE UNCHANGED Use!cardVars
  BY <1>2 DEF CreateUser, Use!cardVars, Held
<1>3. ASSUME NEW c \in Cards, Mint(c) PROVE Use!Next
  BY <1>1, <1>3, MintSeen DEF Use!Next, Use!OwnerStep, Use!Cards, Cards
<1>4. ASSUME NEW c \in Cards, Burn(c) PROVE Use!Next
  BY <1>1, <1>4, BurnSeen DEF Use!Next, Use!OwnerStep, Use!Cards, Cards
<1>5. ASSUME NEW c \in Cards, NEW amount \in TopUps, AddPowerToCard(c, amount)
      PROVE  Use!Next
  BY <1>1, <1>5, AddPowerSeen DEF Use!Next, Use!OwnerStep, Use!Cards, Cards
<1>6. ASSUME NEW c \in Cards, EnterDeck(c) \/ LeaveDeck(c) PROVE Use!Next
  BY <1>1, <1>6, DeckSeen DEF Use!Next, Use!OwnerStep
<1>7. ASSUME NEW o \in Owners, NEW to \in Owners, NEW t \in TokenIds,
             Transfer(o, to, t)
      PROVE  Use!Next
  BY <1>1, <1>7, TransferSeen DEF Use!Next, Use!OwnerStep
<1> QED  BY <1>2, <1>3, <1>4, <1>5, <1>6, <1>7 DEF CardStep

(* What DeckTotals takes for granted of stakes and fights is so: to a card *)
(* their calls do what CardUse says, whatever cards were burnt before.     *)
THEOREM PositionsUseCards == Spec => UseSpec
<1>1. Init => Use!Init
  <2> SUFFICES ASSUME Init PROVE Use!Init
    OBVIOUS
  <2>1. /\ lock = [c \in Cards |-> IF c \in MintedCards THEN "None" ELSE Absent]
        /\ power = [c \in Cards |-> IF c \in MintedCards THEN InitialPower ELSE 0]
        /\ lost = {}
    BY DEF Init, CardInit
  <2>2. Absent # "None" /\ Absent # "Fight"
    BY CardAssumption DEF CardAssumption, Locks
  <2>3. seenLock \in [Cards -> {Absent, "None", "Deck"}]
    BY <2>1, <2>2 DEF seenLock, Held
  <2>4. power = [c \in Cards |-> IF seenLock[c] = Absent THEN 0 ELSE InitialPower]
    BY <2>1, <2>2 DEF seenLock, Held
  <2>5. SeenLost(lost) = {}
    BY <2>1, SeenLosses
  <2> QED
    BY <2>3, <2>4, <2>5 DEF Use!Init, Use!Cards, Cards, seenLock, SeenLost
<1>2. TypeOK /\ AllSafe /\ [Next]_vars => [Use!Next]_(Use!cardVars)
  <2> SUFFICES ASSUME TypeOK, AllSafe, [Next]_vars
               PROVE  [Use!Next]_(Use!cardVars)
    OBVIOUS
  <2>1. Assumptions
    BY CardAssumption, PositionAssumption DEF Assumptions
  <2>2. CASE UNCHANGED vars
    BY <2>2 DEF vars, storeVars, Use!cardVars, Held
  <2>3. CASE StakeStep
    BY <2>1, <2>3, StakeStepSeen DEF Use!Next
  <2>4. CASE FightStep
    BY <2>1, <2>4, FightStepSeen DEF Use!Next
  <2> QED  BY <2>1, <2>2, <2>3, <2>4, CardStepSeen DEF Next
<1> QED  BY <1>1, <1>2, PositionInvariant, PTL DEF Spec, UseSpec, Use!Spec
=============================================================================
