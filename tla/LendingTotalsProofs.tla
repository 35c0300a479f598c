------------------------ MODULE LendingTotalsProofs --------------------------
(***************************************************************************)
(* Theorems about the totals of Lending for all owners, tokens, amounts,   *)
(* fees, interests and horizons, and without the bounds of the model.      *)
(*                                                                         *)
(* The totals follow the records because each call changes one record and  *)
(* at most one card and one wallet (two cards for transfer); what a sum    *)
(* does then is said by SumLemmas.  Three facts are needed beside the      *)
(* properties: a loan is never ahead of the index (PastIndex), the weight  *)
(* of the index is at least the reserves (WeightCovers), even after cards  *)
(* were lost under a lock, and a card that is not in storage counts for    *)
(* nothing (AbsentEmpty).  The last section shows that the calls are those *)
(* CardUse allows.                                                         *)
(***************************************************************************)
EXTENDS LendingProofs, SumLemmas

SumOwed == SumFunctionOnSet(Owed, DOMAIN borrowing)

Finite == IsFiniteSet(DOMAIN lending) /\ IsFiniteSet(DOMAIN borrowing)

PastIndex == \A k \in DOMAIN borrowing : borrowing[k].last <= lIndex

WeightCovers == SumReserve <= wTotal

AbsentEmpty == \A c \in Cards : lock[c] = Absent => power[c] = 0

Totals ==
    /\ Finite
    /\ PastIndex
    /\ WeightCovers
    /\ AbsentEmpty
    /\ PoolCovers
    /\ LoansCounted
    /\ HaircutsCovered
    /\ FeesWithinWhole => PowerAccounted

-----------------------------------------------------------------------------
(* How the sums change with a record, a card or a wallet.                  *)

LEMMA FiniteCards ==
    ASSUME LendingAssumption
    PROVE  IsFiniteSet(Cards)
BY FS_Product DEF LendingAssumption, Cards

LEMMA LoanTerms ==
    ASSUME TypeOK, PastIndex, NEW k \in DOMAIN borrowing
    PROVE  /\ borrowing[k].power \in Nat /\ LoanPower[k] = borrowing[k].power
           /\ borrowing[k].reserve \in Nat /\ LoanReserve[k] = borrowing[k].reserve
           /\ borrowing[k].last \in Nat
           /\ Owed[k] = (lIndex - borrowing[k].last) * borrowing[k].reserve
           /\ Owed[k] \in Nat
<1>1. borrowing[k] \in Loans /\ lIndex \in Nat
  BY DEF TypeOK
<1>2. /\ borrowing[k].power \in Nat /\ borrowing[k].last \in Nat
      /\ borrowing[k].reserve \in Nat
  BY <1>1 DEF Loans
<1>3. lIndex - borrowing[k].last \in Nat
  BY <1>1, <1>2 DEF PastIndex
<1>4. (lIndex - borrowing[k].last) * borrowing[k].reserve \in Nat
  BY <1>2, <1>3
<1> QED  BY <1>2, <1>4 DEF LoanPower, LoanReserve, Owed

LEMMA SumTypes ==
    ASSUME LendingAssumption, TypeOK, Finite, PastIndex
    PROVE  /\ SumLent \in Nat /\ SumBorrowed \in Nat /\ SumReserve \in Nat
           /\ SumOwed \in Nat /\ SumPower \in Nat /\ SumWallet \in Nat
<1>1. SumLent \in Nat
  BY SumNat DEF SumLent, Finite, TypeOK
<1>2. SumBorrowed \in Nat /\ SumReserve \in Nat /\ SumOwed \in Nat
  BY LoanTerms, SumNat DEF SumBorrowed, SumReserve, SumOwed, Finite
<1>3. SumPower \in Nat
  BY FiniteCards, SumNat DEF SumPower, TypeOK
<1>4. SumWallet \in Nat
  BY SumNat DEF SumWallet, TypeOK, LendingAssumption
<1> QED  BY <1>1, <1>2, <1>3, <1>4

LEMMA LoanSumsNext ==
    ASSUME TypeOK', IsFiniteSet(DOMAIN borrowing'), PastIndex'
    PROVE  SumReserve' \in Nat /\ SumOwed' \in Nat
<1>1. ASSUME NEW k \in DOMAIN borrowing'
      PROVE  LoanReserve'[k] \in Nat /\ Owed'[k] \in Nat
  <2>1. borrowing'[k] \in Loans /\ lIndex' \in Nat
    BY <1>1 DEF TypeOK
  <2>2. borrowing'[k].last \in Nat /\ borrowing'[k].reserve \in Nat
    BY <2>1 DEF Loans
  <2>3. lIndex' - borrowing'[k].last \in Nat
    BY <1>1, <2>1, <2>2 DEF PastIndex
  <2>4. (lIndex' - borrowing'[k].last) * borrowing'[k].reserve \in Nat
    BY <2>2, <2>3
  <2> QED  BY <1>1, <2>2, <2>4 DEF LoanReserve, Owed
<1> QED  BY <1>1, SumNat DEF SumReserve, SumOwed

LEMMA PowerChanged ==
    ASSUME LendingAssumption, TypeOK, TypeOK', NEW c \in Cards,
           \A d \in Cards \ {c} : power'[d] = power[d]
    PROVE  SumPower' = SumPower - power[c] + power'[c]
BY FiniteCards, SumChange DEF SumPower, TypeOK

LEMMA WalletChanged ==
    ASSUME LendingAssumption, TypeOK, TypeOK', NEW o \in Owners,
           \A p \in Owners \ {o} : wallet'[p] = wallet[p]
    PROVE  SumWallet' = SumWallet - wallet[o] + wallet'[o]
BY SumChange DEF SumWallet, TypeOK, LendingAssumption

LEMMA LentAdded ==
    ASSUME TypeOK, Finite, NEW k, NEW net \in Nat, lending' = Put(lending, k, net)
    PROVE  /\ IsFiniteSet(DOMAIN lending')
           /\ SumLent' <= SumLent + net
           /\ k \notin DOMAIN lending => SumLent' = SumLent + net
<1>1. /\ DOMAIN lending' = DOMAIN lending \cup {k}
      /\ lending'[k] = net
      /\ \A x \in DOMAIN lending \ {k} : lending'[x] = lending[x]
  BY DEF Put
<1>2. \A x \in DOMAIN lending : lending[x] \in Nat
  BY DEF TypeOK
<1>3. IsFiniteSet(DOMAIN lending) /\ IsFiniteSet(DOMAIN lending')
  BY <1>1, FS_AddElement DEF Finite
<1>4. /\ SumLent' <= SumLent + lending'[k]
      /\ k \notin DOMAIN lending => SumLent' = SumLent + lending'[k]
  <2> DEFINE S == DOMAIN lending
             g == lending'
  <2>1. g[k] \in Nat /\ AgreeBut(lending, g, S, k)
    BY <1>1 DEF AgreeBut
  <2>2. IsFiniteSet(S) /\ NatOn(lending, S)
    BY <1>2, <1>3 DEF NatOn
  <2> HIDE DEF S, g
  <2>3. /\ SumFunctionOnSet(g, S \cup {k}) <= SumFunctionOnSet(lending, S) + g[k]
        /\ k \notin S => SumFunctionOnSet(g, S \cup {k})
                           = SumFunctionOnSet(lending, S) + g[k]
    BY <2>1, <2>2, SumPut
  <2>4. SumLent' = SumFunctionOnSet(g, S \cup {k})
    BY <1>1 DEF S, g, SumLent
  <2> QED  BY <2>3, <2>4 DEF S, g, SumLent
<1> QED  BY <1>1, <1>3, <1>4

LEMMA LentDropped ==
    ASSUME TypeOK, Finite, NEW k \in DOMAIN lending, lending' = Drop(lending, k)
    PROVE  /\ IsFiniteSet(DOMAIN lending')
           /\ SumLent' = SumLent - lending[k]
<1> DEFINE S == DOMAIN lending
           g == lending'
<1>1. /\ DOMAIN lending' = S \ {k}
      /\ \A x \in DOMAIN lending \ {k} : lending'[x] = lending[x]
  BY DEF Drop
<1>2. IsFiniteSet(S) /\ NatOn(lending, S) /\ AgreeBut(lending, g, S, k) /\ k \in S
  BY <1>1 DEF Finite, TypeOK, NatOn, AgreeBut
<1> HIDE DEF S, g
<1>3. SumFunctionOnSet(g, S \ {k}) = SumFunctionOnSet(lending, S) - lending[k]
  BY <1>2, SumDrop
<1>4. IsFiniteSet(DOMAIN lending')
  BY <1>1, <1>2, FS_RemoveElement
<1> QED  BY <1>1, <1>3, <1>4 DEF S, g, SumLent

(* A new loan stands on the current index, so it owes nothing.             *)
LEMMA LoanAdded ==
    ASSUME TypeOK, Finite, PastIndex, NEW k, NEW loan \in Loans,
           loan.last = lIndex, lIndex' = lIndex, borrowing' = Put(borrowing, k, loan)
    PROVE  /\ IsFiniteSet(DOMAIN borrowing') /\ PastIndex'
           /\ SumReserve' <= SumReserve + loan.reserve
           /\ SumOwed' <= SumOwed
           /\ k \notin DOMAIN borrowing =>
                /\ Cardinality(DOMAIN borrowing') = Cardinality(DOMAIN borrowing) + 1
                /\ SumReserve' = SumReserve + loan.reserve
                /\ SumBorrowed' = SumBorrowed + loan.power
<1>0. \A x \in DOMAIN borrowing :
          LoanReserve[x] \in Nat /\ LoanPower[x] \in Nat /\ Owed[x] \in Nat
  BY LoanTerms
<1>1. /\ DOMAIN borrowing' = DOMAIN borrowing \cup {k}
      /\ borrowing'[k] = loan
      /\ \A x \in DOMAIN borrowing \ {k} : borrowing'[x] = borrowing[x]
  BY DEF Put
<1>2. /\ loan.reserve \in Nat /\ loan.power \in Nat /\ lIndex \in Nat
  BY DEF Loans, TypeOK
<1>3. /\ IsFiniteSet(DOMAIN borrowing')
      /\ k \notin DOMAIN borrowing =>
            Cardinality(DOMAIN borrowing') = Cardinality(DOMAIN borrowing) + 1
  BY <1>1, FS_AddElement DEF Finite
<1>4. PastIndex'
  BY <1>1, <1>2 DEF PastIndex
<1>5. /\ LoanReserve'[k] = loan.reserve
      /\ \A x \in DOMAIN borrowing \ {k} : LoanReserve'[x] = LoanReserve[x]
  BY <1>1 DEF LoanReserve
<1>6. /\ LoanPower'[k] = loan.power
      /\ \A x \in DOMAIN borrowing \ {k} : LoanPower'[x] = LoanPower[x]
  BY <1>1 DEF LoanPower
<1>7. Owed'[k] = 0
  <2>1. Owed'[k] = (lIndex - lIndex) * loan.reserve
    BY <1>1 DEF Owed
  <2> QED  BY <1>2, <2>1
<1>8. \A x \in DOMAIN borrowing \ {k} : Owed'[x] = Owed[x]
  BY <1>1 DEF Owed
<1>9. /\ SumReserve' <= SumReserve + loan.reserve
      /\ k \notin DOMAIN borrowing => SumReserve' = SumReserve + loan.reserve
  <2> DEFINE S == DOMAIN borrowing
             g == LoanReserve'
  <2>1. /\ IsFiniteSet(S) /\ NatOn(LoanReserve, S) /\ AgreeBut(LoanReserve, g, S, k)
        /\ g[k] = loan.reserve /\ g[k] \in Nat
    BY <1>0, <1>2, <1>5 DEF Finite, NatOn, AgreeBut
  <2> HIDE DEF S, g
  <2>2. /\ SumFunctionOnSet(g, S \cup {k}) <= SumFunctionOnSet(LoanReserve, S) + g[k]
        /\ k \notin S => SumFunctionOnSet(g, S \cup {k})
                           = SumFunctionOnSet(LoanReserve, S) + g[k]
    BY <2>1, SumPut
  <2>3. SumReserve' = SumFunctionOnSet(g, S \cup {k})
    BY <1>1 DEF S, g, SumReserve
  <2> QED  BY <2>1, <2>2, <2>3 DEF S, SumReserve
<1>10. k \notin DOMAIN borrowing => SumBorrowed' = SumBorrowed + loan.power
  <2> DEFINE S == DOMAIN borrowing
             g == LoanPower'
  <2>1. /\ IsFiniteSet(S) /\ NatOn(LoanPower, S) /\ AgreeBut(LoanPower, g, S, k)
        /\ g[k] = loan.power /\ g[k] \in Nat
    BY <1>0, <1>2, <1>6 DEF Finite, NatOn, AgreeBut
  <2> HIDE DEF S, g
  <2>2. /\ SumFunctionOnSet(g, S \cup {k}) <= SumFunctionOnSet(LoanPower, S) + g[k]
        /\ k \notin S => SumFunctionOnSet(g, S \cup {k})
                           = SumFunctionOnSet(LoanPower, S) + g[k]
    BY <2>1, SumPut
  <2>3. SumBorrowed' = SumFunctionOnSet(g, S \cup {k})
    BY <1>1 DEF S, g, SumBorrowed
  <2> QED  BY <2>1, <2>2, <2>3 DEF S, SumBorrowed
<1>11. SumOwed' <= SumOwed
  <2> DEFINE S == DOMAIN borrowing
             g == Owed'
  <2>1. /\ IsFiniteSet(S) /\ NatOn(Owed, S) /\ AgreeBut(Owed, g, S, k)
        /\ g[k] = 0 /\ g[k] \in Nat
    BY <1>0, <1>2, <1>7, <1>8 DEF Finite, NatOn, AgreeBut
  <2> HIDE DEF S, g
  <2>2. /\ SumFunctionOnSet(g, S \cup {k}) <= SumFunctionOnSet(Owed, S) + g[k]
        /\ k \notin S => SumFunctionOnSet(g, S \cup {k})
                           = SumFunctionOnSet(Owed, S) + g[k]
    BY <2>1, SumPut
  <2>3. SumOwed' = SumFunctionOnSet(g, S \cup {k})
    BY <1>1 DEF S, g, SumOwed
  <2>4. SumOwed \in Nat
    BY LoanTerms, SumNat DEF SumOwed, Finite
  <2> QED  BY <2>1, <2>2, <2>3, <2>4 DEF S, SumOwed
<1> QED  BY <1>3, <1>4, <1>9, <1>10, <1>11

LEMMA LoanDropped ==
    ASSUME TypeOK, Finite, PastIndex, NEW k \in DOMAIN borrowing,
           lIndex' = lIndex, borrowing' = Drop(borrowing, k)
    PROVE  /\ IsFiniteSet(DOMAIN borrowing') /\ PastIndex'
           /\ Cardinality(DOMAIN borrowing') = Cardinality(DOMAIN borrowing) - 1
           /\ SumReserve' = SumReserve - borrowing[k].reserve
           /\ SumBorrowed' = SumBorrowed - borrowing[k].power
           /\ SumOwed' <= SumOwed
<1>0. \A x \in DOMAIN borrowing :
          LoanReserve[x] \in Nat /\ LoanPower[x] \in Nat /\ Owed[x] \in Nat
  BY LoanTerms
<1>1. /\ DOMAIN borrowing' = DOMAIN borrowing \ {k}
      /\ \A x \in DOMAIN borrowing \ {k} : borrowing'[x] = borrowing[x]
  BY DropShape
<1>2. /\ IsFiniteSet(DOMAIN borrowing')
      /\ Cardinality(DOMAIN borrowing') = Cardinality(DOMAIN borrowing) - 1
  BY <1>1, FS_RemoveElement DEF Finite
<1>3. PastIndex'
  BY <1>1 DEF PastIndex
<1>4. \A x \in DOMAIN borrowing \ {k} :
          /\ LoanReserve'[x] = LoanReserve[x] /\ LoanPower'[x] = LoanPower[x]
          /\ Owed'[x] = Owed[x]
  BY <1>1 DEF LoanReserve, LoanPower, Owed
<1>5. SumReserve' = SumReserve - borrowing[k].reserve
  <2> DEFINE S == DOMAIN borrowing
             g == LoanReserve'
  <2>1. /\ IsFiniteSet(S) /\ k \in S
        /\ NatOn(LoanReserve, S) /\ AgreeBut(LoanReserve, g, S, k)
    BY <1>0, <1>4 DEF Finite, NatOn, AgreeBut
  <2> HIDE DEF S, g
  <2>2. SumFunctionOnSet(g, S \ {k}) = SumFunctionOnSet(LoanReserve, S) - LoanReserve[k]
    BY <2>1, SumDrop
  <2>3. SumReserve' = SumFunctionOnSet(g, S \ {k})
    BY <1>1 DEF S, g, SumReserve
  <2> QED  BY <2>2, <2>3, LoanTerms DEF S, SumReserve
<1>6. SumBorrowed' = SumBorrowed - borrowing[k].power
  <2> DEFINE S == DOMAIN borrowing
             g == LoanPower'
  <2>1. /\ IsFiniteSet(S) /\ k \in S
        /\ NatOn(LoanPower, S) /\ AgreeBut(LoanPower, g, S, k)
    BY <1>0, <1>4 DEF Finite, NatOn, AgreeBut
  <2> HIDE DEF S, g
  <2>2. SumFunctionOnSet(g, S \ {k}) = SumFunctionOnSet(LoanPower, S) - LoanPower[k]
    BY <2>1, SumDrop
  <2>3. SumBorrowed' = SumFunctionOnSet(g, S \ {k})
    BY <1>1 DEF S, g, SumBorrowed
  <2> QED  BY <2>2, <2>3, LoanTerms DEF S, SumBorrowed
<1>7. SumOwed' <= SumOwed
  <2> DEFINE S == DOMAIN borrowing
             g == Owed'
  <2>1. /\ IsFiniteSet(S) /\ k \in S
        /\ NatOn(Owed, S) /\ AgreeBut(Owed, g, S, k)
    BY <1>0, <1>4 DEF Finite, NatOn, AgreeBut
  <2> HIDE DEF S, g
  <2>2. SumFunctionOnSet(g, S \ {k}) = SumFunctionOnSet(Owed, S) - Owed[k]
    BY <2>1, SumDrop
  <2>3. SumOwed' = SumFunctionOnSet(g, S \ {k})
    BY <1>1 DEF S, g, SumOwed
  <2>4. SumOwed \in Nat /\ Owed[k] \in Nat
    BY LoanTerms, SumNat DEF SumOwed, Finite
  <2> QED  BY <2>1, <2>2, <2>3, <2>4 DEF S, SumOwed
<1> QED  BY <1>2, <1>3, <1>5, <1>6, <1>7

-----------------------------------------------------------------------------
(* What a call leaves alone.                                               *)

Fewer == ~orphaned' => ~orphaned

(* A card that was lost with a record remains so.                          *)
LEMMA MoreLost ==
    ASSUME lost \subseteq lost'
    PROVE  Fewer
BY DEF Fewer, orphaned, Orphaned

LEMMA LoansFrame ==
    ASSUME Totals, Fewer,
           UNCHANGED <<borrowing, lIndex, wTotal, borrowed, loans>>,
           UNCHANGED <<haircuts, deficits>>
    PROVE  /\ IsFiniteSet(DOMAIN borrowing')
           /\ PastIndex' /\ WeightCovers' /\ LoansCounted' /\ HaircutsCovered'
<1>1. /\ SumReserve' = SumReserve /\ SumBorrowed' = SumBorrowed
      /\ SumOwed' = SumOwed
  BY DEF SumReserve, SumBorrowed, SumOwed, LoanReserve, LoanPower, Owed
<1>2. PastIndex'
  BY DEF Totals, PastIndex
<1>3. WeightCovers'
  BY <1>1 DEF Totals, WeightCovers
<1>4. LoansCounted'
  BY <1>1 DEF Totals, LoansCounted, Fewer
<1>5. HaircutsCovered'
  BY <1>1 DEF Totals, HaircutsCovered, SumOwed
<1> QED  BY <1>2, <1>3, <1>4, <1>5 DEF Totals, Finite

LEMMA LentFrame ==
    ASSUME Totals, Fewer, UNCHANGED lending,
           offer' + borrowed' = offer + borrowed
    PROVE  IsFiniteSet(DOMAIN lending') /\ PoolCovers'
<1>1. SumLent' = SumLent
  BY DEF SumLent
<1> QED  BY <1>1 DEF Totals, Finite, PoolCovers, Fewer

(* The one card whose lock or power a call changes.                        *)
LEMMA AbsentFrame ==
    ASSUME Totals, NEW c \in Cards,
           \A d \in Cards \ {c} : lock'[d] = lock[d] /\ power'[d] = power[d],
           lock'[c] # Absent \/ power'[c] = 0
    PROVE  AbsentEmpty'
BY DEF Totals, AbsentEmpty

(* A card that is free has no record, unless one was lost with a record.    *)
LEMMA FreshRecord ==
    ASSUME AllSafe, NEW k \in Positions, lock[CardOf(k)] = "None", ~orphaned
    PROVE  k \notin DOMAIN lending /\ k \notin DOMAIN borrowing
<1>1. CardOf(k) \in Cards /\ ~Orphaned(CardOf(k))
  BY CardOfPosition DEF orphaned
<1>2. LentOn(CardOf(k)) = {} /\ BorrowedOn(CardOf(k)) = {}
  BY <1>1, FreeCard DEF AllSafe
<1> QED  BY <1>2 DEF LentOn, BorrowedOn

-----------------------------------------------------------------------------
(* The calls on positions.                                                 *)

LEMMA LendTotals ==
    ASSUME LendingAssumption, TypeOK, TypeOK', AllSafe, Totals,
           NEW k \in Positions, NEW gross \in Amounts, NEW fee \in PowerFees,
           Lend(k, gross, fee)
    PROVE  Totals'
<1> DEFINE c == CardOf(k)
           charge == FeeOf(gross, fee)
           net == SaturatingSub(gross, charge)
<1>0. gross \in Nat /\ charge \in Nat
  BY FeeOfType DEF LendingAssumption
<1>1. gross \in Nat /\ charge \in Nat /\ net \in Nat /\ c \in Cards
  BY <1>0, SaturatingSubType, CardOfPosition
<1>2. /\ lock[c] = "None"
      /\ power' = [power EXCEPT ![c] = @ - gross]
      /\ potPower' = potPower + charge
      /\ offer' = offer + net
      /\ lending' = Put(lending, k, net)
      /\ UNCHANGED <<wallet, borrowed, loans, interest, lIndex, wTotal,
                     borrowing, ghostVars>>
  BY DEF Lend
<1> HIDE DEF charge, net, c
<1>3. Fewer /\ UNCHANGED <<haircuts, deficits, cuts, outside, lost>>
  BY <1>2, MoreLost DEF ghostVars
<1>4. /\ IsFiniteSet(DOMAIN borrowing')
      /\ PastIndex' /\ WeightCovers' /\ LoansCounted' /\ HaircutsCovered'
  BY <1>2, <1>3, LoansFrame
<1>5. /\ IsFiniteSet(DOMAIN lending')
      /\ SumLent' <= SumLent + net
      /\ k \notin DOMAIN lending => SumLent' = SumLent + net
  BY <1>1, <1>2, LentAdded DEF Totals
<1>6. PoolCovers'
  <2>1. ~orphaned => k \notin DOMAIN lending
    BY <1>2, FreshRecord DEF c
  <2>2. SumLent \in Nat /\ SumLent' \in Int /\ offer \in Nat /\ borrowed \in Nat
    <3>1. SumLent' \in Nat
      BY <1>5, SumNat DEF SumLent, TypeOK
    <3> QED  BY <3>1, SumTypes DEF Totals, TypeOK
  <2>3. /\ SumLent <= offer + borrowed
        /\ ~orphaned => SumLent = offer + borrowed
    BY DEF Totals, PoolCovers
  <2> QED  BY <1>1, <1>2, <1>3, <1>5, <2>1, <2>2, <2>3 DEF PoolCovers, Fewer
<1>7. ASSUME FeesWithinWhole PROVE PowerAccounted'
  <2>0. gross = net + charge
    <3>1. charge \in 0..gross
      BY <1>1, <1>7, FeeOfBounds DEF charge
    <3> QED  BY <1>1, <3>1 DEF SaturatingSub, net
  <2>1. /\ power'[c] = power[c] - gross /\ power[c] \in Nat
        /\ \A d \in Cards \ {c} : power'[d] = power[d]
    BY <1>1, <1>2 DEF TypeOK
  <2>2. SumPower' = SumPower - gross
    <3>1. SumPower' = SumPower - power[c] + power'[c]
      BY <1>1, <2>1, PowerChanged
    <3> QED  BY <1>1, <2>1, <3>1, SumTypes DEF Totals
  <2>3. SumWallet' = SumWallet
    BY <1>2 DEF SumWallet
  <2>4. SumPower \in Nat /\ SumWallet \in Nat
    BY SumTypes DEF Totals
  <2> QED
    BY <1>1, <1>2, <1>3, <1>7, <2>0, <2>2, <2>3, <2>4
       DEF Totals, PowerAccounted, TypeOK
<1>8. AbsentEmpty'
  <2>1. /\ lock'[c] = "Lend" /\ "Lend" # Absent
        /\ \A d \in Cards \ {c} : lock'[d] = lock[d]
    BY <1>1 DEF Lend, c, TypeOK, LendingAssumption, Locks
  <2>2. \A d \in Cards \ {c} : power'[d] = power[d]
    BY <1>1, <1>2 DEF TypeOK
  <2> QED  BY <1>1, <2>1, <2>2, AbsentFrame
<1> QED  BY <1>4, <1>5, <1>6, <1>7, <1>8 DEF Totals, Finite

LEMMA BorrowTotals ==
    ASSUME LendingAssumption, TypeOK, TypeOK', AllSafe, Totals,
           NEW k \in Positions, NEW gross \in Amounts, NEW fee \in PowerFees,
           NEW horizon \in Horizons, Borrow(k, gross, fee, horizon)
    PROVE  Totals'
<1> DEFINE c == CardOf(k)
           charge == FeeOf(gross, fee)
           net == SaturatingSub(gross, charge)
           reserve == ReserveFor(net, horizon)
           loan == [power |-> net, last |-> lIndex, reserve |-> reserve]
<1>0. gross \in Nat /\ charge \in Nat
  BY FeeOfType DEF LendingAssumption
<1>1. gross \in Nat /\ charge \in Nat /\ net \in Nat /\ c \in Cards /\ k[1] \in Owners
  BY <1>0, SaturatingSubType, CardOfPosition
<1>2. reserve \in Nat
  BY <1>1, ReserveType
<1>3. /\ lock[c] = "None"
      /\ offer' = offer - net /\ borrowed' = borrowed + net
      /\ loans' = loans + 1 /\ wTotal' = wTotal + reserve
      /\ power' = [power EXCEPT ![c] = @ - charge]
      /\ potPower' = potPower + charge
      /\ wallet' = [wallet EXCEPT ![k[1]] = @ + net]
      /\ borrowing' = Put(borrowing, k, loan)
      /\ UNCHANGED <<interest, lIndex, lending, ghostVars>>
  BY DEF Borrow
<1>4. /\ loan \in Loans /\ loan.last = lIndex
      /\ loan.power = net /\ loan.reserve = reserve
  BY <1>1, <1>2 DEF Loans, TypeOK
<1> HIDE DEF charge, net, reserve, loan, c
<1>5. Fewer /\ UNCHANGED <<haircuts, deficits, cuts, outside, lost>>
  BY <1>3, MoreLost DEF ghostVars
<1>6. /\ IsFiniteSet(DOMAIN borrowing') /\ PastIndex'
      /\ SumReserve' <= SumReserve + reserve
      /\ SumOwed' <= SumOwed
      /\ k \notin DOMAIN borrowing =>
            /\ Cardinality(DOMAIN borrowing') = Cardinality(DOMAIN borrowing) + 1
            /\ SumReserve' = SumReserve + reserve
            /\ SumBorrowed' = SumBorrowed + net
  BY <1>3, <1>4, LoanAdded DEF Totals
<1>7. IsFiniteSet(DOMAIN lending')
  BY <1>3 DEF Totals, Finite
<1>8. /\ SumReserve \in Nat /\ SumReserve' \in Nat
      /\ SumOwed \in Nat /\ SumOwed' \in Nat
  BY <1>6, SumTypes, LoanSumsNext DEF Totals
<1>9. PoolCovers'
  <2>1. offer' + borrowed' = offer + borrowed
    BY <1>1, <1>3 DEF TypeOK
  <2> QED  BY <1>3, <1>5, <2>1, LentFrame
<1>10. WeightCovers'
  BY <1>2, <1>3, <1>6, <1>8 DEF Totals, WeightCovers, TypeOK
<1>11. LoansCounted'
  <2>1. ~orphaned => k \notin DOMAIN borrowing
    BY <1>3, FreshRecord DEF c
  <2> QED  BY <1>3, <1>5, <1>6, <2>1 DEF Totals, LoansCounted, Fewer
<1>12. HaircutsCovered'
  <2>1. /\ haircuts * Scale + SumOwed <= deficits * Scale
        /\ haircuts * Scale \in Nat /\ deficits * Scale \in Nat
    BY DEF Totals, HaircutsCovered, SumOwed, TypeOK, LendingAssumption
  <2>2. haircuts * Scale + SumOwed' <= deficits * Scale
    BY <1>6, <1>8, <2>1
  <2> QED  BY <1>5, <2>2 DEF HaircutsCovered, SumOwed
<1>13. ASSUME FeesWithinWhole PROVE PowerAccounted'
  <2>1. /\ power'[c] = power[c] - charge /\ power[c] \in Nat
        /\ \A d \in Cards \ {c} : power'[d] = power[d]
        /\ wallet'[k[1]] = wallet[k[1]] + net /\ wallet[k[1]] \in Nat
        /\ \A p \in Owners \ {k[1]} : wallet'[p] = wallet[p]
    BY <1>1, <1>3 DEF TypeOK
  <2>2. SumPower \in Nat /\ SumWallet \in Nat
    BY SumTypes DEF Totals
  <2>3. SumPower' = SumPower - charge
    <3>1. SumPower' = SumPower - power[c] + power'[c]
      BY <1>1, <2>1, PowerChanged
    <3> QED  BY <1>1, <2>1, <2>2, <3>1
  <2>4. SumWallet' = SumWallet + net
    <3>1. SumWallet' = SumWallet - wallet[k[1]] + wallet'[k[1]]
      BY <1>1, <2>1, WalletChanged
    <3> QED  BY <1>1, <2>1, <2>2, <3>1
  <2> QED
    BY <1>1, <1>3, <1>5, <1>13, <2>2, <2>3, <2>4 DEF Totals, PowerAccounted, TypeOK
<1>14. AbsentEmpty'
  <2>1. /\ lock'[c] = "Borrow" /\ "Borrow" # Absent
        /\ \A d \in Cards \ {c} : lock'[d] = lock[d]
    BY <1>1 DEF Borrow, c, TypeOK, LendingAssumption, Locks
  <2>2. \A d \in Cards \ {c} : power'[d] = power[d]
    BY <1>1, <1>3 DEF TypeOK
  <2> QED  BY <1>1, <2>1, <2>2, AbsentFrame
<1> QED
  BY <1>6, <1>7, <1>9, <1>10, <1>11, <1>12, <1>13, <1>14
     DEF Totals, Finite

LEMMA RepayTotals ==
    ASSUME LendingAssumption, TypeOK, TypeOK', Totals,
           NEW k \in Positions, Repay(k)
    PROVE  Totals'
<1> DEFINE c == CardOf(k)
           principal == borrowing[k].power
           reserve == borrowing[k].reserve
<1>1. c \in Cards /\ k[1] \in Owners /\ k \in DOMAIN borrowing
  BY CardOfPosition DEF Repay
<1>2. principal \in Nat /\ reserve \in Nat
  BY <1>1, LoanTerms DEF Totals
<1>3. /\ principal <= borrowed
      /\ borrowed' = borrowed - principal
      /\ loans' = SaturatingSub(loans, 1)
      /\ wTotal' = SaturatingSub(wTotal, reserve)
      /\ borrowing' = Drop(borrowing, k)
      /\ UNCHANGED <<potPower, lIndex, lending, ghostVars>>
  BY DEF Repay, WeightAfterRepay
<1> DEFINE Paid(i) == Least(principal + i, wallet[k[1]])
<1>4. PICK i \in InterestOn(principal) :
        LET required == principal + i
            fromUser == Least(required, wallet[k[1]])
        IN  /\ required <= wallet[k[1]] + power[c]
            /\ interest' = interest + i
            /\ offer' = PoolAfterRepay(k, i)
            /\ power' = [power EXCEPT ![c] = @ - (required - fromUser)]
            /\ wallet' = [wallet EXCEPT ![k[1]] = @ - fromUser]
  BY DEF Repay
<1> DEFINE fromUser == Paid(i)
<1>5. i \in Nat
  BY InterestType
<1>6. fromUser \in Nat
  BY <1>1, <1>2, <1>5 DEF Least, TypeOK
<1>7. Fewer /\ UNCHANGED <<haircuts, deficits, cuts, outside, lost>>
  BY <1>3, MoreLost DEF ghostVars
<1>8. /\ IsFiniteSet(DOMAIN borrowing') /\ PastIndex'
      /\ Cardinality(DOMAIN borrowing') = Cardinality(DOMAIN borrowing) - 1
      /\ SumReserve' = SumReserve - reserve
      /\ SumBorrowed' = SumBorrowed - principal
      /\ SumOwed' <= SumOwed
  BY <1>1, <1>3, LoanDropped DEF Totals, principal, reserve
<1>16. /\ power'[c] = power[c] - (principal + i - fromUser)
       /\ \A d \in Cards \ {c} : power'[d] = power[d]
       /\ wallet'[k[1]] = wallet[k[1]] - fromUser
       /\ \A p \in Owners \ {k[1]} : wallet'[p] = wallet[p]
       /\ interest' = interest + i /\ offer' = offer + principal
  <2>1. power'[c] = power[c] - (principal + i - fromUser)
    <3> HIDE DEF c, principal
    <3>1. power' = [power EXCEPT ![c] = @ - ((principal + i) - Least(principal + i, wallet[k[1]]))]
      BY <1>4
    <3>2. Least(principal + i, wallet[k[1]]) \in Nat
      BY <1>1, <1>2, <1>5 DEF Least, TypeOK
    <3> HIDE DEF Paid
    <3>3. fromUser = Least(principal + i, wallet[k[1]])
      BY DEF Paid
    <3> QED  BY <1>1, <1>2, <1>5, <3>1, <3>2, <3>3 DEF TypeOK
  <2>2. wallet'[k[1]] = wallet[k[1]] - fromUser
    <3> HIDE DEF c, principal
    <3> QED  BY <1>1, <1>2, <1>4, <1>5 DEF TypeOK
  <2> QED  BY <1>1, <1>4, <2>1, <2>2 DEF TypeOK, PoolAfterRepay
<1> HIDE DEF principal, reserve, c
<1> HIDE DEF fromUser
<1>9. IsFiniteSet(DOMAIN lending')
  BY <1>3 DEF Totals, Finite
<1>10. /\ SumReserve \in Nat /\ SumReserve' \in Nat /\ SumBorrowed \in Nat
       /\ SumOwed \in Nat /\ SumOwed' \in Nat
  BY <1>8, SumTypes, LoanSumsNext DEF Totals
<1>11. PoolCovers'
  <2>1. offer' + borrowed' = offer + borrowed
    BY <1>2, <1>3, <1>16 DEF TypeOK
  <2> QED  BY <1>3, <1>7, <2>1, LentFrame
<1>12. WeightCovers'
  BY <1>2, <1>3, <1>8, <1>10 DEF Totals, WeightCovers, TypeOK, SaturatingSub
<1>13. LoansCounted'
  <2>1. SUFFICES ASSUME ~orphaned
        PROVE  /\ borrowed' = SumBorrowed'
               /\ loans' = Cardinality(DOMAIN borrowing')
               /\ wTotal' = SumReserve'
    BY <1>7 DEF LoansCounted, Fewer
  <2>2. /\ borrowed = SumBorrowed /\ loans = Cardinality(DOMAIN borrowing)
        /\ wTotal = SumReserve
    BY <2>1 DEF Totals, LoansCounted
  <2>3. borrowed' = SumBorrowed'
    BY <1>3, <1>8, <2>2
  <2>4. loans' = Cardinality(DOMAIN borrowing')
    <3>1. Cardinality(DOMAIN borrowing) \in Nat /\ Cardinality(DOMAIN borrowing') \in Nat
      BY <1>8, FS_CardinalityType DEF Totals, Finite
    <3> QED  BY <1>3, <1>8, <2>2, <3>1 DEF SaturatingSub
  <2>5. wTotal' = SumReserve'
    BY <1>2, <1>3, <1>8, <1>10, <2>2 DEF SaturatingSub
  <2> QED  BY <2>3, <2>4, <2>5
<1>14. HaircutsCovered'
  <2>1. /\ haircuts * Scale + SumOwed <= deficits * Scale
        /\ haircuts * Scale \in Nat /\ deficits * Scale \in Nat
    BY DEF Totals, HaircutsCovered, SumOwed, TypeOK, LendingAssumption
  <2>2. haircuts * Scale + SumOwed' <= deficits * Scale
    BY <1>8, <1>10, <2>1
  <2> QED  BY <1>7, <2>2 DEF HaircutsCovered, SumOwed
<1>15. ASSUME FeesWithinWhole PROVE PowerAccounted'
  <2>1. /\ power'[c] = power[c] - (principal + i - fromUser) /\ power[c] \in Nat
        /\ \A d \in Cards \ {c} : power'[d] = power[d]
        /\ wallet'[k[1]] = wallet[k[1]] - fromUser /\ wallet[k[1]] \in Nat
        /\ \A p \in Owners \ {k[1]} : wallet'[p] = wallet[p]
    BY <1>1, <1>16 DEF TypeOK
  <2>2. SumPower \in Nat /\ SumWallet \in Nat
    BY SumTypes DEF Totals
  <2>3. SumPower' = SumPower - (principal + i - fromUser)
    <3>1. SumPower' = SumPower - power[c] + power'[c]
      BY <1>1, <2>1, PowerChanged
    <3> QED  BY <1>2, <1>5, <1>6, <2>1, <2>2, <3>1
  <2>4. SumWallet' = SumWallet - fromUser
    <3>1. SumWallet' = SumWallet - wallet[k[1]] + wallet'[k[1]]
      BY <1>1, <2>1, WalletChanged
    <3> QED  BY <1>6, <2>1, <2>2, <3>1
  <2>5. interest' = interest + i /\ offer' = offer + principal
    BY <1>16
  <2> QED
    BY <1>2, <1>3, <1>5, <1>6, <1>7, <1>15, <2>2, <2>3, <2>4, <2>5
       DEF Totals, PowerAccounted, TypeOK
<1>17. AbsentEmpty'
  <2>1. /\ lock'[c] = "None" /\ "None" # Absent
        /\ \A d \in Cards \ {c} : lock'[d] = lock[d]
    BY <1>1 DEF Repay, c, TypeOK, LendingAssumption, Locks
  <2>2. \A d \in Cards \ {c} : power'[d] = power[d]
    BY <1>1, <1>16 DEF TypeOK
  <2> QED  BY <1>1, <2>1, <2>2, AbsentFrame
<1> QED
  BY <1>8, <1>9, <1>11, <1>12, <1>13, <1>14, <1>15, <1>17 DEF Totals, Finite

LEMMA QuotientTimes ==
    ASSUME NEW a \in Nat, NEW b \in Nat \ {0}
    PROVE  (a \div b) * b <= a
OBVIOUS

(* A rise of the index asks the loans for no more than the deficit.        *)
LEMMA RiseCovered ==
    ASSUME LendingAssumption, TypeOK, PastIndex, Finite, WeightCovers,
           NEW deficit \in Nat, UNCHANGED borrowing,
           lIndex' = lIndex + IndexRise(deficit)
    PROVE  /\ PastIndex'
           /\ SumOwed' <= SumOwed + deficit * Scale
<1> DEFINE rise == IndexRise(deficit)
           S == DOMAIN borrowing
           h == Owed'
<1>1. rise \in Nat /\ lIndex \in Nat /\ wTotal \in Nat /\ Scale \in Nat
  BY IndexRiseType DEF TypeOK, LendingAssumption
<1>2. PastIndex'
  <2>1. \A k \in DOMAIN borrowing : borrowing[k].last \in Nat
    BY LoanTerms
  <2> HIDE DEF rise
  <2>2. lIndex' = lIndex + rise
    BY DEF rise
  <2> QED  BY <1>1, <2>1, <2>2 DEF PastIndex
<1>3. SumOwed' = SumOwed + rise * SumReserve
  <2>1. ASSUME NEW k \in S
        PROVE  /\ Owed[k] \in Int /\ LoanReserve[k] \in Int
               /\ h[k] = Owed[k] + rise * LoanReserve[k]
    <3>1. /\ borrowing[k].last \in Nat /\ borrowing[k].reserve \in Nat
          /\ LoanReserve[k] = borrowing[k].reserve
          /\ Owed[k] = (lIndex - borrowing[k].last) * borrowing[k].reserve
          /\ Owed[k] \in Int
      BY <2>1, LoanTerms
    <3> DEFINE n == lIndex'
    <3>2. h[k] = (n - borrowing[k].last) * borrowing[k].reserve
      BY <2>1 DEF Owed
    <3>3. n = lIndex + rise
      OBVIOUS
    <3> HIDE DEF rise, h, n
    <3> DEFINE x == borrowing[k].last
               y == borrowing[k].reserve
    <3>4. x \in Int /\ y \in Int
      BY <3>1
    <3>5. /\ h[k] = (n - x) * y /\ Owed[k] = (lIndex - x) * y
          /\ LoanReserve[k] = y
      BY <3>1, <3>2
    <3> HIDE DEF x, y
    <3>6. (n - x) * y = (lIndex - x) * y + rise * y
      BY <1>1, <3>3, <3>4
    <3>7. h[k] = Owed[k] + rise * LoanReserve[k]
      BY <3>5, <3>6, Zenon
    <3> QED  BY <3>1, <3>7
  <2>2. IsFiniteSet(S)
    BY DEF Finite
  <2>3. SumOwed' = SumFunctionOnSet(h, S)
    BY DEF SumOwed
  <2> HIDE DEF rise, h, S
  <2>4. SumFunctionOnSet(h, S)
          = SumFunctionOnSet(Owed, S) + rise * SumFunctionOnSet(LoanReserve, S)
    BY <1>1, <2>1, <2>2, SumLinear
  <2> QED  BY <2>3, <2>4 DEF S, SumOwed, SumReserve
<1>4. SumReserve \in Nat /\ SumOwed \in Nat
  BY SumTypes
<1>5. rise * wTotal <= deficit * Scale
  <2>1. deficit * Scale \in Nat
    BY <1>1
  <2>2. CASE wTotal > 0
    BY <1>1, <2>1, <2>2, QuotientTimes DEF IndexRise
  <2>3. CASE ~ wTotal > 0
    BY <1>1, <2>1, <2>3 DEF IndexRise
  <2> QED  BY <2>2, <2>3
<1> HIDE DEF rise
<1>6. rise * SumReserve <= rise * wTotal
  BY <1>1, <1>4 DEF WeightCovers
<1>7. rise * SumReserve \in Nat /\ rise * wTotal \in Nat /\ deficit * Scale \in Nat
  BY <1>1, <1>4
<1>8. rise * SumReserve <= deficit * Scale
  BY <1>5, <1>6, <1>7
<1> QED  BY <1>2, <1>3, <1>4, <1>7, <1>8

LEMMA WithdrawTotals ==
    ASSUME LendingAssumption, TypeOK, TypeOK', Totals,
           NEW k \in Positions, Withdraw(k)
    PROVE  Totals'
<1> DEFINE c == CardOf(k)
           principal == lending[k]
<1>1. c \in Cards /\ k \in DOMAIN lending /\ principal \in Nat /\ principal <= offer
  BY CardOfPosition DEF Withdraw, TypeOK
<1>2. /\ offer' = offer - principal
      /\ lending' = Drop(lending, k)
      /\ UNCHANGED <<wallet, borrowed, loans, wTotal, borrowing,
                     cardCalls, outside, haircuts, cuts, lost>>
      /\ Fewer
  BY MoreLost DEF Withdraw
<1>3. PICK i \in InterestOn(principal), fee \in PowerFees :
        LET deficit == SaturatingSub(i, interest)
        IN  /\ deficits' = deficits + deficit
            /\ interest' = InterestLeft(i)
            /\ lIndex' = lIndex + IndexRise(deficit)
            /\ power' = [power EXCEPT
                    ![c] = @ + lending[k] + SaturatingSub(i, FeeOf(i, fee))]
            /\ potPower' = potPower + FeeOf(i, fee)
  BY DEF Withdraw
<1> DEFINE deficit == SaturatingSub(i, interest)
           kept == SaturatingSub(i, FeeOf(i, fee))
<1>4. i \in Nat /\ FeeOf(i, fee) \in Nat /\ kept \in Nat /\ interest \in Nat
  <2>1. i \in Nat
    BY InterestType
  <2> QED  BY <2>1, FeeOfType, SaturatingSubType DEF TypeOK
<1>5. deficit \in Nat
  BY <1>4, SaturatingSubType
<1>6. /\ deficits' = deficits + deficit
      /\ interest' + i = interest + deficit
      /\ lIndex' = lIndex + IndexRise(deficit)
      /\ potPower' = potPower + FeeOf(i, fee)
  <2>1. InterestLeft(i) + i = interest + deficit
    BY <1>4 DEF InterestLeft, SaturatingSub
  <2> QED  BY <1>3, <2>1
<1>7. /\ power'[c] = power[c] + principal + kept /\ power[c] \in Nat
      /\ \A d \in Cards \ {c} : power'[d] = power[d]
  BY <1>1, <1>3, <1>4 DEF TypeOK
<1> HIDE DEF c, principal, deficit, kept
<1>8. IsFiniteSet(DOMAIN lending') /\ SumLent' = SumLent - principal
  BY <1>1, <1>2, LentDropped DEF Totals, principal
<1>9. PastIndex' /\ SumOwed' <= SumOwed + deficit * Scale
  BY <1>2, <1>5, <1>6, RiseCovered DEF Totals
<1>10. /\ SumLent \in Nat /\ SumOwed \in Nat /\ SumPower \in Nat
       /\ SumWallet \in Nat /\ SumOwed' \in Nat
  <2>1. IsFiniteSet(DOMAIN borrowing')
    BY <1>2 DEF Totals, Finite
  <2> QED  BY <1>9, <2>1, SumTypes, LoanSumsNext DEF Totals
<1>11. PoolCovers'
  BY <1>1, <1>2, <1>8, <1>10 DEF Totals, PoolCovers, TypeOK, Fewer
<1>12. WeightCovers' /\ LoansCounted'
  <2>1. SumReserve' = SumReserve /\ SumBorrowed' = SumBorrowed
    BY <1>2 DEF SumReserve, SumBorrowed, LoanReserve, LoanPower
  <2> QED  BY <1>2, <2>1 DEF Totals, WeightCovers, LoansCounted, Fewer
<1>13. HaircutsCovered'
  <2>1. /\ haircuts * Scale + SumOwed <= deficits * Scale
        /\ haircuts * Scale \in Nat /\ deficits * Scale \in Nat
        /\ deficit * Scale \in Nat
    BY <1>5 DEF Totals, HaircutsCovered, SumOwed, TypeOK, LendingAssumption
  <2>2. deficits' * Scale = deficits * Scale + deficit * Scale
    BY <1>5, <1>6 DEF TypeOK, LendingAssumption
  <2>3. haircuts * Scale + SumOwed' <= deficits' * Scale
    BY <1>9, <1>10, <2>1, <2>2
  <2> QED  BY <1>2, <2>3 DEF HaircutsCovered, SumOwed
<1>14. ASSUME FeesWithinWhole PROVE PowerAccounted'
  <2>1. SumPower' = SumPower + principal + kept
    <3>1. SumPower' = SumPower - power[c] + power'[c]
      BY <1>1, <1>7, PowerChanged
    <3> QED  BY <1>1, <1>4, <1>7, <1>10, <3>1
  <2>2. SumWallet' = SumWallet
    BY <1>2 DEF SumWallet
  <2>3. kept + FeeOf(i, fee) = i
    <3>1. FeeOf(i, fee) \in 0..i
      BY <1>4, <1>14, FeeOfBounds
    <3> QED  BY <1>4, <3>1 DEF kept, SaturatingSub
  <2>4. interest' \in Nat /\ deficits' \in Nat
    BY DEF TypeOK
  <2> QED
    BY <1>1, <1>2, <1>4, <1>5, <1>6, <1>10, <1>14, <2>1, <2>2, <2>3, <2>4
       DEF Totals, PowerAccounted, TypeOK
<1>15. IsFiniteSet(DOMAIN borrowing')
  BY <1>2 DEF Totals, Finite
<1>16. AbsentEmpty'
  <2>1. /\ lock'[c] = "None" /\ "None" # Absent
        /\ \A d \in Cards \ {c} : lock'[d] = lock[d]
    BY <1>1 DEF Withdraw, LockAfterWithdraw, c, TypeOK, LendingAssumption, Locks
  <2>2. \A d \in Cards \ {c} : power'[d] = power[d]
    BY <1>1, <1>7 DEF TypeOK
  <2> QED  BY <1>1, <2>1, <2>2, AbsentFrame
<1> QED
  BY <1>8, <1>9, <1>11, <1>12, <1>13, <1>14, <1>15, <1>16 DEF Totals, Finite

(* A touched loan owes nothing any more, and has paid at most what it owed. *)
LEMMA LoanTouched ==
    ASSUME LendingAssumption, TypeOK, Finite, PastIndex, NEW k \in DOMAIN borrowing,
           NEW haircut \in Nat, haircut <= Pending(k),
           haircut <= borrowing[k].reserve, lIndex' = lIndex,
           borrowing' = [borrowing EXCEPT ![k] = Touched(k, haircut)]
    PROVE  /\ DOMAIN borrowing' = DOMAIN borrowing /\ PastIndex'
           /\ SumReserve' = SumReserve - haircut
           /\ SumBorrowed' = SumBorrowed
           /\ SumOwed' + haircut * Scale <= SumOwed
           /\ haircut <= SumReserve
<1> DEFINE S == DOMAIN borrowing
           loan == borrowing[k]
<1>1. loan \in Loans /\ lIndex \in Nat /\ Scale \in Nat \ {0}
  BY DEF TypeOK, LendingAssumption
<1>2. /\ loan.power \in Nat /\ loan.last \in Nat /\ loan.reserve \in Nat
      /\ loan.last <= lIndex
  BY <1>1 DEF Loans, PastIndex
<1>3. /\ Touched(k, haircut).power = loan.power
      /\ Touched(k, haircut).last = lIndex
      /\ Touched(k, haircut).reserve = loan.reserve - haircut
  BY <1>1 DEF Touched, Loans
<1>4. /\ DOMAIN borrowing' = S
      /\ borrowing'[k] = Touched(k, haircut)
      /\ \A x \in S \ {k} : borrowing'[x] = borrowing[x]
  BY DEF TypeOK
<1> HIDE DEF loan
<1>5. PastIndex'
  BY <1>1, <1>3, <1>4 DEF PastIndex
<1>6. \A x \in S \ {k} : LoanReserve'[x] = LoanReserve[x] /\ Owed'[x] = Owed[x]
  BY <1>4 DEF LoanReserve, Owed
<1>7. LoanReserve'[k] = loan.reserve - haircut /\ LoanReserve[k] = loan.reserve
  BY <1>3, <1>4 DEF LoanReserve, loan
<1>8. Owed'[k] = 0
  <2>1. Owed'[k] = (lIndex - lIndex) * (loan.reserve - haircut)
    BY <1>3, <1>4 DEF Owed
  <2> QED  BY <1>1, <1>2, <2>1
<1>9. \A x \in S : LoanReserve[x] \in Int /\ Owed[x] \in Int
  BY LoanTerms
<1>10. IsFiniteSet(S) /\ k \in S
  BY DEF Finite
<1>11. SumReserve' = SumReserve - haircut
  <2> DEFINE g == LoanReserve'
  <2>1. g[k] \in Int /\ \A x \in S \ {k} : g[x] = LoanReserve[x]
    BY <1>2, <1>6, <1>7
  <2>2. SumReserve' = SumFunctionOnSet(g, S)
    BY <1>4 DEF SumReserve
  <2> HIDE DEF g, S
  <2>3. SumFunctionOnSet(g, S)
          = SumFunctionOnSet(LoanReserve, S) - LoanReserve[k] + g[k]
    BY <1>9, <1>10, <2>1, SumChange
  <2>4. SumFunctionOnSet(LoanReserve, S) \in Int
    BY <1>9, <1>10, SumInt
  <2>5. g[k] = loan.reserve - haircut
    BY <1>7 DEF g
  <2> QED  BY <1>2, <1>7, <2>2, <2>3, <2>4, <2>5 DEF S, SumReserve
<1>12. SumBorrowed' = SumBorrowed
  <2>1. LoanPower' = LoanPower
    BY <1>3, <1>4 DEF LoanPower, loan
  <2> QED  BY <1>4, <2>1 DEF SumBorrowed
<1>13. SumOwed' = SumOwed - Owed[k]
  <2> DEFINE g == Owed'
  <2>1. g[k] \in Int /\ \A x \in S \ {k} : g[x] = Owed[x]
    BY <1>6, <1>8
  <2>2. SumOwed' = SumFunctionOnSet(g, S)
    BY <1>4 DEF SumOwed
  <2> HIDE DEF g, S
  <2>3. SumFunctionOnSet(g, S) = SumFunctionOnSet(Owed, S) - Owed[k] + g[k]
    BY <1>9, <1>10, <2>1, SumChange
  <2>4. SumFunctionOnSet(Owed, S) \in Int /\ Owed[k] \in Int
    BY <1>9, <1>10, SumInt
  <2>5. g[k] = 0
    BY <1>8 DEF g
  <2> QED  BY <2>2, <2>3, <2>4, <2>5 DEF S, SumOwed
<1>14. haircut * Scale <= Owed[k]
  <2>1. Owed[k] \in Nat /\ Owed[k] = (lIndex - loan.last) * loan.reserve
    BY LoanTerms DEF loan
  <2>2. Pending(k) = Owed[k] \div Scale
    BY <1>1, <1>2, <2>1 DEF Pending, SaturatingSub, loan
  <2>3. Pending(k) \in Nat /\ Pending(k) * Scale <= Owed[k]
    BY <1>1, <2>1, <2>2, QuotientTimes, QuotientType
  <2>4. haircut * Scale <= Pending(k) * Scale
    BY <1>1, <2>3
  <2> QED  BY <1>1, <2>1, <2>3, <2>4
<1>15. haircut <= SumReserve
  <2>1. loan.reserve <= SumReserve
    <3>1. LoanReserve[k] <= SumFunctionOnSet(LoanReserve, S)
      BY <1>10, LoanTerms, SumAtLeast
    <3> QED  BY <1>7, <3>1 DEF SumReserve
  <2>2. SumReserve \in Nat
    BY SumTypes
  <2> QED  BY <1>2, <2>1, <2>2 DEF loan
<1>16. SumOwed \in Nat /\ Owed[k] \in Nat /\ haircut * Scale \in Nat
  BY <1>1, SumTypes, LoanTerms
<1>17. SumOwed' + haircut * Scale <= SumOwed
  BY <1>13, <1>14, <1>16
<1> QED  BY <1>4, <1>5, <1>11, <1>12, <1>15, <1>17

LEMMA TouchTotals ==
    ASSUME LendingAssumption, TypeOK, TypeOK', Totals,
           NEW k \in Positions, Touch(k)
    PROVE  Totals'
<1> DEFINE c == CardOf(k)
           haircut == Least(Pending(k), borrowing[k].reserve)
           cut == IF haircut = borrowing[k].reserve
                  THEN Least(haircut, power[c]) ELSE 0
<1>1. c \in Cards /\ k \in DOMAIN borrowing /\ power[c] \in Nat
  BY CardOfPosition DEF Touch, TypeOK
<1>2. /\ borrowing' = [borrowing EXCEPT ![k] = Touched(k, haircut)]
      /\ wTotal' = SaturatingSub(wTotal, haircut)
      /\ power' = [power EXCEPT ![c] = @ - cut]
      /\ haircuts' = haircuts + haircut
      /\ cuts' = cuts + cut
      /\ UNCHANGED <<lock, wallet, potPower, offer, borrowed, loans, interest,
                     lIndex, lending, cardCalls, outside, deficits, lost>>
      /\ Fewer
  BY MoreLost DEF Touch
<1>3. /\ haircut \in Nat /\ haircut <= Pending(k)
      /\ haircut <= borrowing[k].reserve /\ borrowing[k].reserve \in Nat
  BY <1>1, PendingType, LoanTerms DEF Least, Totals
<1>4. cut \in 0..power[c]
  <2> HIDE DEF haircut
  <2> QED  BY <1>1, <1>3 DEF Least
<1> HIDE DEF haircut, cut, c
<1>5. /\ DOMAIN borrowing' = DOMAIN borrowing /\ PastIndex'
      /\ SumReserve' = SumReserve - haircut
      /\ SumBorrowed' = SumBorrowed
      /\ SumOwed' + haircut * Scale <= SumOwed
      /\ haircut <= SumReserve
  BY <1>1, <1>2, <1>3, LoanTouched DEF Totals
<1>6. Finite'
  BY <1>2, <1>5 DEF Totals, Finite
<1>7. /\ SumReserve \in Nat /\ SumOwed \in Nat /\ SumOwed' \in Nat
      /\ SumPower \in Nat /\ SumWallet \in Nat
  BY <1>5, <1>6, SumTypes, LoanSumsNext DEF Totals, Finite
<1>8. PoolCovers'
  BY <1>2, LentFrame
<1>9. WeightCovers'
  BY <1>2, <1>3, <1>5, <1>7 DEF Totals, WeightCovers, SaturatingSub, TypeOK
<1>10. LoansCounted'
  BY <1>2, <1>3, <1>5, <1>7 DEF Totals, LoansCounted, SaturatingSub, Fewer
<1>11. HaircutsCovered'
  <2>1. /\ haircuts * Scale + SumOwed <= deficits * Scale
        /\ haircuts * Scale \in Nat /\ deficits * Scale \in Nat
        /\ haircut * Scale \in Nat
    BY <1>3 DEF Totals, HaircutsCovered, SumOwed, TypeOK, LendingAssumption
  <2>2. haircuts' * Scale = haircuts * Scale + haircut * Scale
    BY <1>2, <1>3 DEF TypeOK, LendingAssumption
  <2>3. haircuts' * Scale + SumOwed' <= deficits * Scale
    BY <1>5, <1>7, <2>1, <2>2
  <2> QED  BY <1>2, <2>3 DEF HaircutsCovered, SumOwed
<1>12. ASSUME FeesWithinWhole PROVE PowerAccounted'
  <2>1. /\ power'[c] = power[c] - cut
        /\ \A d \in Cards \ {c} : power'[d] = power[d]
    BY <1>1, <1>2 DEF TypeOK
  <2>2. SumPower' = SumPower - cut
    <3>1. SumPower' = SumPower - power[c] + power'[c]
      BY <1>1, <2>1, PowerChanged
    <3> QED  BY <1>1, <1>4, <1>7, <2>1, <3>1
  <2>3. SumWallet' = SumWallet
    BY <1>2 DEF SumWallet
  <2> QED
    BY <1>2, <1>4, <1>7, <1>12, <2>2, <2>3 DEF Totals, PowerAccounted, TypeOK
<1>13. AbsentEmpty'
  <2>1. \A d \in Cards : lock'[d] = lock[d] /\ (d # c => power'[d] = power[d])
    BY <1>2 DEF TypeOK
  <2>2. power'[c] = power[c] - cut
    BY <1>1, <1>2 DEF TypeOK
  <2>3. lock[c] = Absent => power'[c] = 0
    BY <1>1, <1>4, <2>2 DEF Totals, AbsentEmpty
  <2> QED  BY <1>1, <2>1, <2>3, AbsentFrame
<1> QED
  BY <1>5, <1>6, <1>8, <1>9, <1>10, <1>11, <1>12, <1>13 DEF Totals

-----------------------------------------------------------------------------
(* The calls on cards: the records and the pool stay as they are.          *)

LEMMA RecordsFrame ==
    ASSUME Totals, Fewer, UNCHANGED <<poolVars, recordVars, haircuts, deficits>>
    PROVE  /\ Finite' /\ PastIndex' /\ WeightCovers'
           /\ PoolCovers' /\ LoansCounted' /\ HaircutsCovered'
<1>1. /\ UNCHANGED <<borrowing, lIndex, wTotal, borrowed, loans>>
      /\ UNCHANGED <<lending, offer, interest>>
      /\ UNCHANGED <<haircuts, deficits>>
  BY DEF poolVars, recordVars
<1>2. offer' + borrowed' = offer + borrowed
  BY <1>1
<1> QED  BY <1>1, <1>2, LoansFrame, LentFrame DEF Finite

LEMMA CardStepTotals ==
    ASSUME LendingAssumption, TypeOK, TypeOK', Totals,
           NEW c \in Cards, CardStep(c)
    PROVE  Totals'
<1>1. /\ c[1] \in Owners /\ c[2] \in TokenIds /\ power[c] \in Nat
      /\ wallet[c[1]] \in Nat
  BY DEF Cards, TypeOK
<1>2. /\ UNCHANGED <<poolVars, recordVars, haircuts, deficits>>
      /\ UNCHANGED <<potPower, cuts>>
  BY DEF CardStep, Mint, Transfer, Burn, AddPowerToCard, EnterDeck, LeaveDeck,
         ghostVars
<1>13. Fewer
  <2>1. lost \subseteq lost'
    BY DEF CardStep, Mint, Transfer, Burn, AddPowerToCard, EnterDeck, LeaveDeck,
           ghostVars
  <2> QED  BY <2>1, MoreLost
<1>3. /\ offer' = offer /\ interest' = interest /\ potPower' = potPower
      /\ deficits' = deficits /\ cuts' = cuts
  BY <1>2 DEF poolVars
<1>4. /\ Finite' /\ PastIndex' /\ WeightCovers'
      /\ PoolCovers' /\ LoansCounted' /\ HaircutsCovered'
  BY <1>2, <1>13, RecordsFrame
<1>5. SumPower \in Nat /\ SumWallet \in Nat
  BY SumTypes DEF Totals
<1>6. /\ potPower \in Nat /\ offer \in Nat /\ interest \in Nat /\ outside \in Int
      /\ deficits \in Nat /\ cuts \in Nat
  BY DEF TypeOK
<1>8. ASSUME AbsentEmpty',
             SumPower' + SumWallet' + outside = SumPower + SumWallet + outside',
             SumPower' \in Int, SumWallet' \in Int, outside' \in Int
      PROVE  Totals'
  <2>1. ASSUME FeesWithinWhole PROVE PowerAccounted'
    <3>0. SumPower + SumWallet + potPower + offer + interest
            = outside + deficits - cuts
      BY <2>1 DEF Totals, PowerAccounted
    <3>1. SumPower' + SumWallet' + potPower + offer + interest
            = outside' + deficits - cuts
      BY <1>5, <1>6, <1>8, <3>0
    <3> QED  BY <1>3, <3>1 DEF PowerAccounted
  <2> QED  BY <1>4, <1>8, <2>1 DEF Totals
<1>9. CASE Mint(c)
  <2>1. /\ lock[c] = Absent /\ lock'[c] = "None" /\ "None" # Absent
        /\ power'[c] = InitialPower /\ InitialPower \in Nat
        /\ \A d \in Cards \ {c} : lock'[d] = lock[d] /\ power'[d] = power[d]
        /\ outside' = outside + InitialPower /\ wallet' = wallet
    BY <1>9 DEF Mint, TypeOK, LendingAssumption, Locks
  <2>2. AbsentEmpty'
    BY <2>1, AbsentFrame
  <2>3. power[c] = 0
    BY <2>1 DEF Totals, AbsentEmpty
  <2>4. SumWallet' = SumWallet
    BY <2>1 DEF SumWallet
  <2>5. SumPower' = SumPower + InitialPower
    <3>1. SumPower' = SumPower - power[c] + power'[c]
      BY <2>1, PowerChanged
    <3> QED  BY <1>5, <2>1, <2>3, <3>1
  <2> QED  BY <1>5, <1>6, <1>8, <2>1, <2>2, <2>4, <2>5
<1>10. ASSUME NEW to \in Owners, Transfer(c, to) PROVE Totals'
  <2> DEFINE d == <<to, c[2]>>
             between == [power EXCEPT ![c] = 0]
  <2>1. d \in Cards /\ d # c /\ power[d] \in Nat
    BY <1>1, <1>10 DEF Cards, Transfer, TypeOK
  <2>2. /\ lock' = [lock EXCEPT ![c] = Absent, ![d] = "None"]
        /\ power' = [power EXCEPT ![c] = 0, ![d] = power[c]]
        /\ outside' = outside - power[d] /\ wallet' = wallet
    BY <1>10 DEF Transfer
  <2> HIDE DEF d
  <2>3. /\ lock'[c] = Absent /\ lock'[d] = "None" /\ "None" # Absent
        /\ power'[c] = 0 /\ power'[d] = power[c]
        /\ \A x \in Cards \ {c, d} : lock'[x] = lock[x] /\ power'[x] = power[x]
    BY <2>1, <2>2 DEF TypeOK, LendingAssumption, Locks
  <2>4. AbsentEmpty'
    BY <2>1, <2>3 DEF Totals, AbsentEmpty
  <2>5. /\ between[c] = 0 /\ between[d] = power[d]
        /\ \A x \in Cards \ {c} : between[x] = power[x]
        /\ \A x \in Cards : between[x] \in Int /\ power[x] \in Int
        /\ \A x \in Cards \ {d} : power'[x] = between[x]
    BY <2>1, <2>3 DEF TypeOK
  <2> HIDE DEF between
  <2>6. IsFiniteSet(Cards)
    BY FiniteCards
  <2>7. SumFunctionOnSet(between, Cards)
          = SumFunctionOnSet(power, Cards) - power[c] + between[c]
    BY <2>5, <2>6, SumChange
  <2>8. SumFunctionOnSet(power', Cards)
          = SumFunctionOnSet(between, Cards) - between[d] + power'[d]
    BY <1>1, <2>1, <2>3, <2>5, <2>6, SumChange
  <2>9. SumPower' = SumPower - power[d]
    BY <1>1, <1>5, <2>1, <2>3, <2>5, <2>7, <2>8 DEF SumPower
  <2>10. SumWallet' = SumWallet
    BY <2>2 DEF SumWallet
  <2> QED  BY <1>5, <1>6, <1>8, <2>1, <2>2, <2>4, <2>9, <2>10
<1>11. CASE Burn(c)
  <2>1. BurnGain(c) \in Nat
    BY BurnGainType
  <2>2. /\ lock'[c] = Absent /\ power'[c] = 0
        /\ \A d \in Cards \ {c} : lock'[d] = lock[d] /\ power'[d] = power[d]
        /\ wallet'[c[1]] = wallet[c[1]] + BurnGain(c)
        /\ \A p \in Owners \ {c[1]} : wallet'[p] = wallet[p]
        /\ outside' = outside + BurnGain(c) - power[c]
    BY <1>1, <1>11 DEF Burn, TypeOK
  <2>3. AbsentEmpty'
    BY <2>2, AbsentFrame
  <2>4. SumPower' = SumPower - power[c]
    <3>1. SumPower' = SumPower - power[c] + power'[c]
      BY <2>2, PowerChanged
    <3> QED  BY <1>1, <1>5, <2>2, <3>1
  <2>5. SumWallet' = SumWallet + BurnGain(c)
    <3>1. SumWallet' = SumWallet - wallet[c[1]] + wallet'[c[1]]
      BY <1>1, <2>2, WalletChanged
    <3> QED  BY <1>1, <1>5, <2>1, <2>2, <3>1
  <2> QED  BY <1>1, <1>5, <1>6, <1>8, <2>1, <2>2, <2>3, <2>4, <2>5
<1>12. ASSUME NEW amount \in TopUps, AddPowerToCard(c, amount) PROVE Totals'
  <2> DEFINE filled == Least(power[c] + amount, MaxPower)
  <2>1. amount \in Nat /\ filled \in Nat
    <3>1. amount \in Nat /\ MaxPower \in Nat
      BY DEF LendingAssumption
    <3>2. power[c] + amount \in Nat
      BY <1>1, <3>1
    <3> QED  BY <3>1, <3>2 DEF Least
  <2>2. /\ lock[c] \in {"None", "Deck"} /\ lock' = lock
        /\ power' = [power EXCEPT ![c] = filled]
        /\ wallet' = [wallet EXCEPT ![c[1]] = @ - amount]
        /\ outside' = outside + filled - power[c] - amount
    BY <1>12 DEF AddPowerToCard
  <2> HIDE DEF filled
  <2>3. /\ lock'[c] # Absent /\ power'[c] = filled
        /\ \A d \in Cards \ {c} : lock'[d] = lock[d] /\ power'[d] = power[d]
        /\ wallet'[c[1]] = wallet[c[1]] - amount
        /\ \A p \in Owners \ {c[1]} : wallet'[p] = wallet[p]
    BY <1>1, <2>2 DEF TypeOK, LendingAssumption, Locks
  <2>4. AbsentEmpty'
    BY <2>3, AbsentFrame
  <2>5. SumPower' = SumPower - power[c] + filled
    BY <2>3, PowerChanged
  <2>6. SumWallet' = SumWallet - amount
    <3>1. SumWallet' = SumWallet - wallet[c[1]] + wallet'[c[1]]
      BY <1>1, <2>3, WalletChanged
    <3> QED  BY <1>1, <1>5, <2>1, <2>3, <3>1
  <2> QED  BY <1>1, <1>5, <1>6, <1>8, <2>1, <2>2, <2>4, <2>5, <2>6
<1>14. CASE EnterDeck(c) \/ LeaveDeck(c)
  <2>1. /\ lock'[c] \in {"None", "Deck"} /\ "None" # Absent /\ "Deck" # Absent
        /\ \A d \in Cards \ {c} : lock'[d] = lock[d] /\ power'[d] = power[d]
        /\ power' = power /\ wallet' = wallet /\ outside' = outside
    BY <1>14 DEF EnterDeck, LeaveDeck, TypeOK, LendingAssumption, Locks, ghostVars
  <2>2. AbsentEmpty'
    BY <2>1, AbsentFrame
  <2>3. SumPower' = SumPower /\ SumWallet' = SumWallet
    BY <2>1 DEF SumPower, SumWallet
  <2> QED  BY <1>5, <1>6, <1>8, <2>1, <2>2, <2>3
<1> QED  BY <1>9, <1>10, <1>11, <1>12, <1>14 DEF CardStep

-----------------------------------------------------------------------------
(* The inductive invariant.                                                *)

LEMMA InitTotals ==
    ASSUME LendingAssumption, Init
    PROVE  Totals
<1>1. DOMAIN lending = {} /\ DOMAIN borrowing = {}
  BY DEF Init
<1>2. /\ SumLent = 0 /\ SumBorrowed = 0 /\ SumReserve = 0 /\ SumOwed = 0
      /\ Cardinality(DOMAIN borrowing) = 0 /\ Finite
  BY <1>1, SumEmpty, FS_EmptySet
     DEF SumLent, SumBorrowed, SumReserve, SumOwed, Finite
<1>3. PastIndex /\ AbsentEmpty /\ WeightCovers
  BY <1>1, <1>2 DEF Init, PastIndex, AbsentEmpty, WeightCovers, LendingAssumption, Locks
<1>4. PoolCovers /\ LoansCounted
  BY <1>2 DEF Init, PoolCovers, LoansCounted
<1>5. HaircutsCovered
  <2>1. haircuts = 0 /\ deficits = 0 /\ Scale \in Nat
    BY DEF Init, LendingAssumption
  <2> QED  BY <1>2, <2>1 DEF HaircutsCovered, SumOwed
<1>6. PowerAccounted
  <2>1. SumWallet = 0
    BY SumZero DEF Init, SumWallet, LendingAssumption
  <2>2. /\ \A c \in MintedCards : power[c] = InitialPower
        /\ \A c \in Cards \ MintedCards : power[c] = 0
        /\ \A c \in Cards : power[c] \in Int
        /\ InitialPower \in Int /\ IsFiniteSet(MintedCards)
        /\ MintedCards \in SUBSET Cards
    BY DEF Init, LendingAssumption
  <2>3. SumPower = SumFunctionOnSet(power, MintedCards)
    BY <2>2, FiniteCards, SumSupport DEF SumPower
  <2>4. SumFunctionOnSet(power, MintedCards) = InitialPower * Cardinality(MintedCards)
    BY <2>2, SumConstant
  <2>5. InitialPower * Cardinality(MintedCards) \in Int
    BY <2>2, FS_CardinalityType
  <2>6. /\ outside = InitialPower * Cardinality(MintedCards)
        /\ potPower = 0 /\ offer = 0 /\ interest = 0 /\ deficits = 0 /\ cuts = 0
    BY DEF Init
  <2> QED  BY <2>1, <2>3, <2>4, <2>5, <2>6 DEF PowerAccounted
<1> QED  BY <1>2, <1>3, <1>4, <1>5, <1>6 DEF Totals

LEMMA StepTotals ==
    ASSUME LendingAssumption, TypeOK, TypeOK', AllSafe, Totals, [Next]_vars
    PROVE  Totals'
<1>1. CASE UNCHANGED vars
  <2>1. /\ UNCHANGED <<poolVars, recordVars, haircuts, deficits>>
        /\ UNCHANGED <<lock, power, wallet, potPower>>
        /\ UNCHANGED <<offer, interest, outside, cuts, lost>>
    BY <1>1 DEF vars, cardVars, poolVars, ghostVars
  <2>2. /\ Finite' /\ PastIndex' /\ WeightCovers'
        /\ PoolCovers' /\ LoansCounted' /\ HaircutsCovered'
    BY <2>1, RecordsFrame, MoreLost
  <2>3. AbsentEmpty'
    BY <2>1 DEF Totals, AbsentEmpty
  <2>4. ASSUME FeesWithinWhole PROVE PowerAccounted'
    BY <2>1, <2>4 DEF Totals, PowerAccounted, SumPower, SumWallet
  <2> QED  BY <2>2, <2>3, <2>4 DEF Totals
<1>2. ASSUME NEW k \in Positions, PositionStep(k)
      PROVE  Totals'
  BY <1>2, LendTotals, BorrowTotals, RepayTotals, WithdrawTotals, TouchTotals
     DEF PositionStep
<1>3. ASSUME NEW c \in Cards, CardStep(c)
      PROVE  Totals'
  BY <1>3, CardStepTotals
<1> QED  BY <1>1, <1>2, <1>3 DEF Next

LEMMA TotalsInvariant == Spec => []Totals
<1>1. Init => Totals
  BY LendingAssumption, InitTotals
<1>2. TypeOK /\ TypeOK' /\ AllSafe /\ Totals /\ [Next]_vars => Totals'
  BY LendingAssumption, StepTotals
<1> QED  BY <1>1, <1>2, LendingInvariant, PTL DEF Spec

(* The pool never owes its lenders more than it holds and has lent out,    *)
(* and owes them exactly that as long as no card was lost under a lock.    *)
THEOREM PoolHolds == Spec => []PoolCovers
<1>1. Totals => PoolCovers
  BY DEF Totals
<1> QED  BY <1>1, TotalsInvariant, PTL

(* Without lost cards the counters that set the APY and weigh the index    *)
(* are those of the loans that exist.                                      *)
THEOREM LoansAreCounted == Spec => []LoansCounted
<1>1. Totals => LoansCounted
  BY DEF Totals
<1> QED  BY <1>1, TotalsInvariant, PTL

(* The borrowers never pay more for deficits than the deficits were, with  *)
(* any number of loans, rises of the index and touches, in any order.      *)
THEOREM HaircutsAreCovered == Spec => []HaircutsCovered
<1>1. Totals => HaircutsCovered
  BY DEF Totals
<1> QED  BY <1>1, TotalsInvariant, PTL

(* As long as no fee is above 100%, POWER is neither created nor lost but  *)
(* by a deficit and by a cut.                                              *)
THEOREM PowerIsAccounted == Spec => [](FeesWithinWhole => PowerAccounted)
<1>1. Totals => (FeesWithinWhole => PowerAccounted)
  BY DEF Totals
<1> QED  BY <1>1, TotalsInvariant, PTL

-----------------------------------------------------------------------------
(* What the decks see of loans: the implementation of CardUse.             *)

seenLock == [c \in Cards |-> Held(lock[c])]
SeenLost(S) == {<<e[1], Held(e[2])>> : e \in S}

LEMMA HeldLocks ==
    ASSUME LendingAssumption, TypeOK, NEW c \in Cards
    PROVE  /\ seenLock[c] = Held(lock[c])
           /\ seenLock[c] = Absent <=> lock[c] = Absent
           /\ seenLock[c] = "None" <=> lock[c] = "None"
           /\ seenLock[c] = "Deck" <=> lock[c] = "Deck"
           /\ seenLock[c] = "Stake" <=> lock[c] \in {"Lend", "Borrow"}
<1>1. lock[c] \in {"None", "Lend", "Borrow", "Deck", Absent}
  BY DEF TypeOK, Locks
<1>2. Absent \notin {"None", "Lend", "Borrow", "Deck", "Stake"}
  BY DEF LendingAssumption, Locks
<1> QED  BY <1>1, <1>2 DEF seenLock, Held

LEMMA SeenLosses ==
    /\ SeenLost({}) = {}
    /\ \A S, T : SeenLost(S \cup T) = SeenLost(S) \cup SeenLost(T)
    /\ \A c, l : SeenLost({<<c, l>>}) = {<<c, Held(l)>>}
BY DEF SeenLost

LEMMA SameLosses ==
    ASSUME lost' = lost
    PROVE  SeenLost(lost)' = SeenLost(lost)
BY DEF SeenLost

(* The losses of a call are seen as the losses of the call that is seen.   *)
LEMMA MoreLosses ==
    ASSUME LendingAssumption, TypeOK, NEW c \in Cards, lost' = lost \cup LostWith(c)
    PROVE  SeenLost(lost') = SeenLost(lost) \cup Use!LostWith(c)
<1>1. /\ seenLock[c] \in {"None", Absent} <=> lock[c] \in {"None", Absent}
      /\ seenLock[c] = Held(lock[c])
  BY HeldLocks
<1>2. SeenLost(LostWith(c)) = Use!LostWith(c)
  BY <1>1, SeenLosses DEF LostWith, Use!LostWith, seenLock
<1> QED  BY <1>2, SeenLosses

LEMMA SeenBecome ==
    ASSUME TypeOK, NEW c \in Cards, NEW n, NEW l,
           lock' = [lock EXCEPT ![c] = l], power' = [power EXCEPT ![c] = n]
    PROVE  Use!Become(c, Held(l), n)
<1>1. \A d \in Cards : lock'[d] = IF d = c THEN l ELSE lock[d]
  BY DEF TypeOK
<1>2. seenLock' = [d \in Cards |-> Held(lock'[d])]
  BY DEF seenLock, Held
<1>3. seenLock' = [seenLock EXCEPT ![c] = Held(l)]
  <2>1. [d \in Cards |-> Held(lock'[d])]
            = [d \in Cards |-> IF d = c THEN Held(l) ELSE Held(lock[d])]
    BY <1>1
  <2>2. [seenLock EXCEPT ![c] = Held(l)]
            = [d \in Cards |-> IF d = c THEN Held(l) ELSE Held(lock[d])]
    BY DEF seenLock
  <2> QED  BY <1>2, <2>1, <2>2
<1> QED  BY <1>3 DEF Use!Become, seenLock

(* lend and borrow.                                                        *)
LEMMA TakeSeen ==
    ASSUME LendingAssumption, TypeOK, NEW c \in Cards, NEW n \in Nat,
           NEW l \in {"Lend", "Borrow"}, lock[c] = "None", n <= power[c],
           lock' = [lock EXCEPT ![c] = l], power' = [power EXCEPT ![c] = n],
           lost' = lost
    PROVE  Use!OtherStep
<1>1. seenLock[c] = "None" /\ Held(l) = "Stake"
  BY HeldLocks DEF Held
<1>2. Use!Become(c, Held(l), n)
  BY SeenBecome
<1>3. SeenLost(lost)' = SeenLost(lost)
  BY SameLosses
<1>4. Use!Take(c, n)
  BY <1>1, <1>2, <1>3 DEF Use!Take, seenLock, SeenLost
<1>5. power'[c] = n /\ power'[c] \in Nat
  BY DEF TypeOK
<1>6. Use!Take(c, power'[c])
  BY <1>4, <1>5 DEF Use!Take, Use!Become
<1> QED  BY <1>5, <1>6 DEF Use!OtherStep, Use!Cards, Cards

(* repay and withdraw.                                                     *)
LEMMA ReleaseSeen ==
    ASSUME LendingAssumption, TypeOK, NEW c \in Cards, NEW n \in Nat,
           lock[c] \in {"Lend", "Borrow"},
           lock' = [lock EXCEPT ![c] = "None"], power' = [power EXCEPT ![c] = n],
           lost' = lost
    PROVE  Use!OtherStep
<1>1. seenLock[c] = "Stake" /\ seenLock[c] # Absent /\ Held("None") = "None"
  BY HeldLocks DEF Held, LendingAssumption
<1>2. Use!Become(c, Held("None"), n)
  BY SeenBecome
<1>3. SeenLost(lost') = SeenLost(lost) \cup Use!LostByRelease(c)
  BY <1>1 DEF Use!LostByRelease, seenLock
<1>4. Use!Release(c, n)
  BY <1>1, <1>2, <1>3 DEF Use!Release, Use!InReach, seenLock, SeenLost
<1>5. power'[c] = n /\ power'[c] \in Nat
  BY DEF TypeOK
<1>6. Use!Release(c, power'[c])
  BY <1>4, <1>5 DEF Use!Release, Use!Become
<1> QED  BY <1>5, <1>6 DEF Use!OtherStep, Use!Cards, Cards

(* A loan's record reaches the card it locks, and any later card of the    *)
(* owner and the token when that one was lost.                             *)
LEMMA LoanInReach ==
    ASSUME LendingAssumption, TypeOK, AllSafe, NEW k \in DOMAIN borrowing,
           lock[CardOf(k)] # Absent
    PROVE  Use!InReach(CardOf(k))
<1> DEFINE c == CardOf(k)
<1>1. c \in Cards /\ k \in BorrowedOn(c)
  BY CardOfPosition DEF TypeOK, BorrowedOn
<1> HIDE DEF c
<1>2. ~Orphaned(c) => lock[c] = "Borrow"
  BY <1>1 DEF AllSafe, CardSafe
<1>3. seenLock[c] # Absent /\ (lock[c] = "Borrow" => seenLock[c] = "Stake")
  BY <1>1, HeldLocks DEF c
<1>4. Orphaned(c) => <<c, "Stake">> \in SeenLost(lost)
  <2>1. ASSUME <<c, "Lend">> \in lost PROVE <<c, "Stake">> \in SeenLost(lost)
    BY <2>1 DEF SeenLost, Held
  <2>2. ASSUME <<c, "Borrow">> \in lost PROVE <<c, "Stake">> \in SeenLost(lost)
    BY <2>2 DEF SeenLost, Held
  <2> QED  BY <2>1, <2>2 DEF Orphaned
<1>5. Use!InReach(c)
  BY <1>2, <1>3, <1>4 DEF Use!InReach, seenLock, SeenLost
<1> QED  BY <1>5 DEF c

LEMMA PositionStepSeen ==
    ASSUME LendingAssumption, TypeOK, TypeOK', AllSafe, Totals,
           NEW k \in Positions, PositionStep(k)
    PROVE  [Use!Next]_(Use!cardVars)
<1> DEFINE c == CardOf(k)
<1>1. c \in Cards
  BY CardOfPosition
<1>2. PICK n \in Nat : n = power'[c]
  BY <1>1 DEF TypeOK
<1>3. power[c] \in Nat
  BY <1>1 DEF TypeOK
<1>4. ASSUME NEW gross \in Amounts, NEW fee \in PowerFees, Lend(k, gross, fee)
      PROVE  Use!OtherStep
  <2>1. /\ lock[c] = "None" /\ lock' = [lock EXCEPT ![c] = "Lend"] /\ lost' = lost
        /\ power' = [power EXCEPT ![c] = power[c] - gross]
    BY <1>4 DEF Lend, ghostVars
  <2>2. gross \in Nat
    BY DEF LendingAssumption
  <2> HIDE DEF c
  <2>3. n = power[c] - gross
    BY <1>1, <1>2, <2>1 DEF TypeOK
  <2>4. n <= power[c] /\ power' = [power EXCEPT ![c] = n]
    BY <1>3, <2>1, <2>2, <2>3
  <2> QED  BY <1>1, <2>1, <2>4, TakeSeen
<1>5. ASSUME NEW gross \in Amounts, NEW fee \in PowerFees, NEW horizon \in Horizons,
             Borrow(k, gross, fee, horizon)
      PROVE  Use!OtherStep
  <2>1. PICK charge \in Nat : charge = FeeOf(gross, fee)
    BY FeeOfType DEF LendingAssumption
  <2>2. /\ lock[c] = "None" /\ lock' = [lock EXCEPT ![c] = "Borrow"] /\ lost' = lost
        /\ power' = [power EXCEPT ![c] = power[c] - charge]
    BY <1>5, <2>1 DEF Borrow, ghostVars
  <2> HIDE DEF c
  <2>3. n = power[c] - charge
    BY <1>1, <1>2, <2>2 DEF TypeOK
  <2>4. n <= power[c] /\ power' = [power EXCEPT ![c] = n]
    BY <1>3, <2>2, <2>3
  <2> QED  BY <1>1, <2>2, <2>4, TakeSeen
<1>6. ASSUME Repay(k) PROVE Use!OtherStep
  <2>1. /\ lock[c] = "Borrow" /\ lock' = [lock EXCEPT ![c] = "None"] /\ lost' = lost
        /\ \E m : power' = [power EXCEPT ![c] = m]
    BY <1>6 DEF Repay, ghostVars
  <2> HIDE DEF c
  <2>2. power' = [power EXCEPT ![c] = n]
    BY <1>1, <1>2, <2>1 DEF TypeOK
  <2> QED  BY <1>1, <2>1, <2>2, ReleaseSeen
<1>7. ASSUME Withdraw(k) PROVE Use!OtherStep
  <2>1. /\ lock[c] = "Lend" /\ lock' = [lock EXCEPT ![c] = "None"] /\ lost' = lost
        /\ \E m : power' = [power EXCEPT ![c] = m]
    BY <1>7 DEF Withdraw, LockAfterWithdraw
  <2> HIDE DEF c
  <2>2. power' = [power EXCEPT ![c] = n]
    BY <1>1, <1>2, <2>1 DEF TypeOK
  <2> QED  BY <1>1, <2>1, <2>2, ReleaseSeen
<1>8. ASSUME Touch(k) PROVE [Use!Next]_(Use!cardVars)
  <2>1. k \in DOMAIN borrowing /\ lock' = lock /\ lost' = lost
    BY <1>8 DEF Touch
  <2>2. PICK cut \in 0..power[c] : power' = [power EXCEPT ![c] = power[c] - cut]
    <3> DEFINE haircut == Least(Pending(k), borrowing[k].reserve)
               less == IF haircut = borrowing[k].reserve
                       THEN Least(haircut, power[c]) ELSE 0
    <3>1. haircut \in Nat
      BY <2>1, PendingType, LoanTerms DEF Least, Totals
    <3>2. power' = [power EXCEPT ![c] = power[c] - less]
      BY <1>8 DEF Touch
    <3> HIDE DEF haircut, c
    <3>3. less \in 0..power[c]
      BY <1>3, <3>1 DEF Least
    <3> QED  BY <3>2, <3>3
  <2> HIDE DEF c
  <2>3. n = power[c] - cut
    BY <1>1, <1>2, <2>2 DEF TypeOK
  <2>4. n <= power[c] /\ power' = [power EXCEPT ![c] = n]
    BY <1>3, <2>2, <2>3
  <2>5. seenLock' = seenLock /\ SeenLost(lost)' = SeenLost(lost)
    BY <2>1, SameLosses DEF seenLock, Held
  <2>6. CASE lock[c] = Absent
    <3>1. power[c] = 0
      BY <1>1, <2>6 DEF Totals, AbsentEmpty
    <3>2. n = power[c]
      <4>1. n <= power[c] /\ n \in Nat
        BY <2>4
      <4> QED  BY <3>1, <4>1
    <3>3. power' = power
      BY <2>4, <3>2 DEF TypeOK
    <3> QED  BY <2>5, <3>3 DEF Use!cardVars, seenLock, SeenLost
  <2>7. CASE lock[c] # Absent
    <3>1. Use!InReach(c)
      BY <2>1, <2>7, LoanInReach DEF c
    <3>2. Use!Cut(c, n)
      BY <2>4, <2>5, <3>1 DEF Use!Cut, seenLock, SeenLost
    <3>3. Use!Cut(c, power'[c])
      BY <1>2, <3>2 DEF Use!Cut
    <3> QED  BY <1>1, <1>2, <3>3 DEF Use!Next, Use!OtherStep, Use!Cards, Cards
  <2> QED  BY <2>6, <2>7
<1> QED  BY <1>4, <1>5, <1>6, <1>7, <1>8 DEF PositionStep, Use!Next

LEMMA CardStepSeen ==
    ASSUME LendingAssumption, TypeOK, TypeOK', NEW c \in Cards, CardStep(c)
    PROVE  Use!Next
<1>1. /\ c[1] \in Owners /\ c[2] \in TokenIds
      /\ \A x \in Cards : x = c <=> x[1] = c[1] /\ x[2] = c[2]
      /\ c = <<c[1], c[2]>>
  BY DEF Cards
<1>2. Held("None") = "None" /\ Held(Absent) = Absent /\ Held("Deck") = "Deck"
  BY DEF Held, LendingAssumption, Locks
<1>3. seenLock' = [x \in Cards |-> Held(lock'[x])]
  BY DEF seenLock, Held
<1>4. CASE Mint(c)
  <2>1. Use!Become(c, Held("None"), InitialPower)
    BY <1>4, SeenBecome DEF Mint
  <2>2. seenLock[c] = Absent /\ SeenLost(lost)' = SeenLost(lost)
    BY <1>4, HeldLocks, SameLosses DEF Mint
  <2>3. Use!Mint(c)
    BY <1>2, <2>1, <2>2 DEF Use!Mint, seenLock, SeenLost
  <2> QED  BY <2>3 DEF Use!Next, Use!OwnerStep, Use!Cards, Cards
<1>5. ASSUME NEW to \in Owners, Transfer(c, to) PROVE Use!Next
  <2> DEFINE d == <<to, c[2]>>
  <2>1. d \in Cards /\ c[1] # to
    BY <1>1, <1>5 DEF Cards, Transfer
  <2>2. /\ lock[c] = "None"
        /\ lock' = [lock EXCEPT ![c] = Absent, ![d] = "None"]
        /\ power' = [power EXCEPT ![c] = 0, ![d] = power[c]]
        /\ lost' = lost \cup LostWith(d)
    BY <1>5 DEF Transfer
  <2> HIDE DEF d
  <2>3. seenLock[c] = "None"
    BY <2>2, HeldLocks
  <2>4. seenLock' = [seenLock EXCEPT ![c] = Absent, ![d] = "None"]
    <3>1. \A x \in Cards : lock'[x] = IF x = d THEN "None"
                                      ELSE IF x = c THEN Absent ELSE lock[x]
      BY <2>1, <2>2 DEF TypeOK
    <3> DEFINE seen == [x \in Cards |-> IF x = d THEN "None"
                                        ELSE IF x = c THEN Absent ELSE Held(lock[x])]
    <3>2. [x \in Cards |-> Held(lock'[x])] = seen
      BY <1>2, <3>1
    <3>3. [seenLock EXCEPT ![c] = Absent, ![d] = "None"] = seen
      BY DEF seenLock
    <3> QED  BY <1>3, <3>2, <3>3
  <2>5. SeenLost(lost') = SeenLost(lost) \cup Use!LostWith(d)
    BY <2>1, <2>2, MoreLosses
  <2>6. Use!Transfer(c[1], to, c[2])
    BY <1>1, <2>1, <2>2, <2>3, <2>4, <2>5 DEF Use!Transfer, seenLock, SeenLost, d
  <2> QED  BY <1>1, <2>6 DEF Use!Next, Use!OwnerStep
<1>6. CASE Burn(c)
  <2>1. Use!Become(c, Held(Absent), 0)
    BY <1>6, SeenBecome DEF Burn
  <2>2. seenLock[c] # Absent
    BY <1>6, HeldLocks DEF Burn
  <2>3. SeenLost(lost') = SeenLost(lost) \cup Use!LostWith(c)
    BY <1>6, MoreLosses DEF Burn
  <2>4. Use!Burn(c)
    BY <1>2, <2>1, <2>2, <2>3 DEF Use!Burn, seenLock, SeenLost
  <2> QED  BY <2>4 DEF Use!Next, Use!OwnerStep, Use!Cards, Cards
<1>7. ASSUME NEW amount \in TopUps, AddPowerToCard(c, amount) PROVE Use!Next
  <2>1. lock[c] \in {"None", "Deck"} /\ lock' = lock /\ lost' = lost
    BY <1>7 DEF AddPowerToCard
  <2>2. power' = [power EXCEPT ![c] = power'[c]] /\ power'[c] \in Nat
    BY <1>7 DEF AddPowerToCard, TypeOK
  <2>3. seenLock' = seenLock /\ SeenLost(lost)' = SeenLost(lost)
    BY <2>1, SameLosses DEF seenLock, Held
  <2>4. seenLock[c] \in {"None", "Deck"}
    BY <2>1, HeldLocks
  <2>5. Use!AddPower(c, power'[c])
    BY <2>2, <2>3, <2>4 DEF Use!AddPower, seenLock, SeenLost
  <2> QED  BY <2>2, <2>5 DEF Use!Next, Use!OwnerStep, Use!Cards, Cards
<1>8. CASE EnterDeck(c)
  <2>1. /\ \A x \in Cards : lock'[x] = IF x = c THEN "Deck" ELSE lock[x]
        /\ power' = power /\ lost' = lost
    BY <1>8 DEF EnterDeck, TypeOK, ghostVars
  <2>2. seenLock[c] = "None" /\ SeenLost(lost)' = SeenLost(lost)
    BY <1>8, <2>1, HeldLocks, SameLosses DEF EnterDeck
  <2>3. seenLock' = [x \in Cards |-> IF x[1] = c[1] /\ x[2] \in {} THEN "None"
                                    ELSE IF x[1] = c[1] /\ x[2] \in {c[2]} THEN "Deck"
                                    ELSE seenLock[x]]
    BY <1>1, <1>3, <2>1 DEF seenLock, Held
  <2>4. Use!Relock(c[1], {}, {c[2]})
    BY <1>1, <2>1, <2>2, <2>3 DEF Use!Relock, Use!Cards, Cards, seenLock, SeenLost
  <2> QED  BY <1>1, <2>4 DEF Use!Next, Use!OwnerStep
<1>9. CASE LeaveDeck(c)
  <2>1. /\ \A x \in Cards : lock'[x] = IF x = c THEN "None" ELSE lock[x]
        /\ power' = power /\ lost' = lost
    BY <1>9 DEF LeaveDeck, TypeOK, ghostVars
  <2>2. seenLock[c] = "Deck" /\ SeenLost(lost)' = SeenLost(lost)
    BY <1>9, <2>1, HeldLocks, SameLosses DEF LeaveDeck
  <2>3. seenLock' = [x \in Cards |-> IF x[1] = c[1] /\ x[2] \in {c[2]} THEN "None"
                                    ELSE IF x[1] = c[1] /\ x[2] \in {} THEN "Deck"
                                    ELSE seenLock[x]]
    BY <1>1, <1>3, <2>1 DEF seenLock, Held
  <2>4. Use!Relock(c[1], {c[2]}, {})
    BY <1>1, <2>1, <2>2, <2>3 DEF Use!Relock, Use!Cards, Cards, seenLock, SeenLost
  <2> QED  BY <1>1, <2>4 DEF Use!Next, Use!OwnerStep
<1> QED  BY <1>4, <1>5, <1>6, <1>7, <1>8, <1>9 DEF CardStep

(* What DeckTotals takes for granted of loans is so: to a card their calls *)
(* do what CardUse says, also to a card whose predecessor was burnt.       *)
THEOREM LoansUseCards == Spec => UseSpec
<1>1. Init => Use!Init
  <2> SUFFICES ASSUME Init PROVE Use!Init
    OBVIOUS
  <2>1. /\ lock = [c \in Cards |-> IF c \in MintedCards THEN "None" ELSE Absent]
        /\ power = [c \in Cards |-> IF c \in MintedCards THEN InitialPower ELSE 0]
        /\ lost = {}
    BY DEF Init
  <2>2. Absent # "None" /\ Held("None") = "None" /\ Held(Absent) = Absent
    BY LendingAssumption DEF LendingAssumption, Locks, Held
  <2>3. seenLock = [c \in Cards |-> IF c \in MintedCards THEN "None" ELSE Absent]
    BY <2>1, <2>2 DEF seenLock
  <2>4. seenLock \in [Cards -> {Absent, "None", "Deck"}]
    BY <2>3
  <2>5. power = [c \in Cards |-> IF seenLock[c] = Absent THEN 0 ELSE InitialPower]
    BY <2>1, <2>2, <2>3
  <2>6. SeenLost(lost) = {}
    BY <2>1, SeenLosses
  <2> QED
    BY <2>4, <2>5, <2>6 DEF Use!Init, Use!Cards, Cards, seenLock, SeenLost
<1>2. TypeOK /\ TypeOK' /\ AllSafe /\ Totals /\ [Next]_vars
        => [Use!Next]_(Use!cardVars)
  <2> SUFFICES ASSUME TypeOK, TypeOK', AllSafe, Totals, [Next]_vars
               PROVE  [Use!Next]_(Use!cardVars)
    OBVIOUS
  <2>1. LendingAssumption
    BY LendingAssumption
  <2>2. CASE UNCHANGED vars
    <3>1. lock' = lock /\ power' = power /\ lost' = lost
      BY <2>2 DEF vars, cardVars, ghostVars
    <3> QED  BY <3>1 DEF Use!cardVars, Held
  <2>3. ASSUME NEW k \in Positions, PositionStep(k)
        PROVE  [Use!Next]_(Use!cardVars)
    BY <2>1, <2>3, PositionStepSeen
  <2>4. ASSUME NEW c \in Cards, CardStep(c) PROVE Use!Next
    BY <2>1, <2>4, CardStepSeen
  <2> QED  BY <2>2, <2>3, <2>4 DEF Next
<1> QED
  BY <1>1, <1>2, LendingInvariant, TotalsInvariant, PTL DEF Spec, UseSpec, Use!Spec
=============================================================================
