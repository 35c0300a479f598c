--------------------------- MODULE PotTotalsProofs ---------------------------
(***************************************************************************)
(* Theorems about the sums of PotRound: what the totals pass has counted,  *)
(* that the vault covers what it promised, and that the u32 arithmetic of  *)
(* the batches never stops a round.                                        *)
(***************************************************************************)
EXTENDS PotRoundProofs, SumLemmas

-----------------------------------------------------------------------------
(* Sums.                                                                   *)

LEMMA SumSplits ==
    ASSUME NEW f, NEW S, NEW T, NEW U, Splits(S, T, U), IsFiniteSet(S),
           \A x \in S : f[x] \in Int
    PROVE  SumFunctionOnSet(f, S) = SumFunctionOnSet(f, T) + SumFunctionOnSet(f, U)
<1>1. T \in SUBSET S /\ S \ T = U
  BY DEF Splits
<1> QED  BY <1>1, SumSplit

LEMMA CardinalitySplits ==
    ASSUME NEW S, NEW T, NEW U, Splits(S, T, U), IsFiniteSet(S)
    PROVE  Cardinality(S) = Cardinality(T) + Cardinality(U)
<1>1. IsFiniteSet(T) /\ IsFiniteSet(U)
  BY FS_Subset DEF Splits
<1>2. Cardinality(T) \in Nat /\ Cardinality(U) \in Nat
  BY <1>1, FS_CardinalityType
<1>3. Cardinality(T \cup U) = Cardinality(T) + Cardinality(U) - Cardinality(T \cap U)
  BY <1>1, FS_Union
<1>4. Cardinality(T \cap U) = 0
  BY FS_EmptySet DEF Splits
<1> QED  BY <1>2, <1>3, <1>4 DEF Splits

(* The parts of n, each rounded down, of a whole d that is at least their  *)
(* sum, do not exceed n.                                                   *)
LEMMA PartsAtMost ==
    ASSUME NEW S, IsFiniteSet(S), NEW f, NEW g, NEW n \in Nat, NEW d \in Nat \ {0},
           \A x \in S : f[x] \in Nat,
           \A x \in S : g[x] \in Nat,
           \A x \in S : d * f[x] <= n * g[x],
           SumFunctionOnSet(g, S) <= d
    PROVE  SumFunctionOnSet(f, S) <= n
<1> DEFINE Zero == [x \in S |-> 0]
           df == [x \in S |-> d * f[x]]
           ng == [x \in S |-> n * g[x]]
           F == SumFunctionOnSet(f, S)
           G == SumFunctionOnSet(g, S)
<1>1. F \in Nat /\ G \in Nat
  BY SumNat
<1>2. SumFunctionOnSet(Zero, S) = 0
  <2>1. \A x \in S : Zero[x] = 0
    OBVIOUS
  <2> HIDE DEF Zero
  <2> QED  BY <2>1, SumZero
<1>3. SumFunctionOnSet(df, S) = 0 + d * F
  <2>1. \A x \in S : Zero[x] \in Int /\ f[x] \in Int /\ df[x] = Zero[x] + d * f[x]
    OBVIOUS
  <2>2. d \in Int
    OBVIOUS
  <2> HIDE DEF Zero, df
  <2> QED  BY <1>2, <2>1, <2>2, SumLinear
<1>4. SumFunctionOnSet(ng, S) = 0 + n * G
  <2>1. \A x \in S : Zero[x] \in Int /\ g[x] \in Int /\ ng[x] = Zero[x] + n * g[x]
    OBVIOUS
  <2>2. n \in Int
    OBVIOUS
  <2> HIDE DEF Zero, ng
  <2> QED  BY <1>2, <2>1, <2>2, SumLinear
<1>5. SumFunctionOnSet(df, S) <= SumFunctionOnSet(ng, S)
  <2>1. \A x \in S : df[x] \in Int /\ ng[x] \in Int /\ df[x] <= ng[x]
    OBVIOUS
  <2> HIDE DEF df, ng
  <2> QED  BY <2>1, SumMonotone
<1> HIDE DEF Zero, df, ng, F, G
<1>6. d * F <= n * G
  BY <1>1, <1>3, <1>4, <1>5
<1>7. G <= d
  BY DEF G
<1>8. d * F <= n * d
  <2>1. n * G <= n * d
    BY <1>1, <1>7
  <2> QED  BY <1>1, <1>6, <2>1
<1>9. F <= n
  <2>1. SUFFICES ASSUME F >= n + 1 PROVE FALSE
    BY <1>1
  <2>2. d * F >= d * (n + 1)
    BY <1>1, <2>1
  <2> QED  BY <1>1, <1>8, <2>2
<1> QED  BY <1>9 DEF F

-----------------------------------------------------------------------------
(* What the totals pass has counted.  The saturating u32 sums are exact    *)
(* where all decks together stay below 2^32.                               *)

TotalsFit ==
    \E m \in Nat : /\ \A e \in EffectivePowers : e <= m
                   /\ m * Cardinality(Players) <= U32Max
                   /\ Cardinality(Players) <= U32Max

EffectiveInv == \A p \in Players : effective[p] \in EffectivePowers \cup {0}

LEMMA EffectiveInvStep ==
    ASSUME DeckAssumption, RoundInv, EffectiveInv, [Next]_vars
    PROVE  EffectiveInv'
<1>1. CASE effective' = effective
  BY <1>1 DEF EffectiveInv
<1>2. ASSUME NEW p \in Players, NEW n, NEW e \in PossiblePowers(n) \cup {0},
             WriteDeck(p, n, e)
      PROVE  EffectiveInv'
  <2>1. e \in EffectivePowers \cup {0}
    BY DEF PossiblePowers
  <2> QED  BY <1>2, <2>1 DEF WriteDeck, EffectiveInv, RoundInv, TypeOK, DeckTypeOK
<1>3. CASE DeckStep
  <2>1. PICK p \in Players : PlaceCard(p) \/ ReplaceCard(p) \/ RemoveCard(p) \/ RecomputeDeck(p)
    BY <1>3 DEF DeckStep
  <2>2. \E n : \E e \in PossiblePowers(n) \cup {0} : WriteDeck(p, n, e)
    BY <2>1 DEF PlaceCard, ReplaceCard, RemoveCard, RecomputeDeck
  <2> QED  BY <1>2, <2>2
<1>4. CASE IndexStep
  BY <1>1, <1>4 DEF IndexStep, MigrateDeck, SetPagesOnly
<1> QED  BY <1>1, <1>3, <1>4, OthersKeepDecks DEF deckVars

LEMMA EffectiveInvariant == Spec => []EffectiveInv
<1>1. Init => EffectiveInv
  BY DEF Init, DeckInit, EffectiveInv
<1>2. RoundInv /\ EffectiveInv /\ [Next]_vars => EffectiveInv'
  BY EffectiveInvStep, DeckAssumption
<1> QED  BY <1>1, <1>2, RoundInvariant, PTL DEF Spec

LEMMA SubsetFits ==
    ASSUME DeckAssumption, PotAssumption, TotalsFit, TypeOK, EffectiveInv,
           NEW S \in SUBSET Players
    PROVE  /\ IsFiniteSet(S)
           /\ Cardinality(S) \in 0..U32Max
           /\ SumFunctionOnSet(effective, S) \in 0..U32Max
           /\ \A x \in S : effective[x] \in Int
<1>1. PICK m \in Nat : /\ \A e \in EffectivePowers : e <= m
                       /\ m * Cardinality(Players) <= U32Max
                       /\ Cardinality(Players) <= U32Max
  BY DEF TotalsFit
<1>2. /\ IsFiniteSet(Players) /\ IsFiniteSet(S) /\ U32Max \in Nat
      /\ Cardinality(S) \in Nat /\ Cardinality(Players) \in Nat
      /\ Cardinality(S) <= Cardinality(Players)
  BY FS_Subset, FS_CardinalityType DEF DeckAssumption, PotAssumption
<1>3. \A x \in S : effective[x] \in Nat /\ effective[x] <= m
  BY <1>1 DEF EffectiveInv, TypeOK, DeckTypeOK
<1>4. PICK f : f = effective
  OBVIOUS
<1> DEFINE Const == [x \in S |-> m]
<1>5. SumFunctionOnSet(f, S) \in Nat
  BY <1>2, <1>3, <1>4, SumNat
<1>6. SumFunctionOnSet(f, S) <= m * Cardinality(S)
  <2>1. \A x \in S : Const[x] = m /\ f[x] \in Int /\ Const[x] \in Int /\ f[x] <= Const[x]
    BY <1>3, <1>4
  <2>2. m \in Int
    OBVIOUS
  <2> HIDE DEF Const
  <2>3. SumFunctionOnSet(Const, S) = m * Cardinality(S)
    BY <1>2, <2>1, <2>2, SumConstant
  <2>4. SumFunctionOnSet(f, S) <= SumFunctionOnSet(Const, S)
    BY <1>2, <2>1, SumMonotone
  <2> QED  BY <2>3, <2>4
<1>7. m * Cardinality(S) <= m * Cardinality(Players)
  BY <1>2
<1>8. SumFunctionOnSet(f, S) <= U32Max
  <2>1. m * Cardinality(S) \in Nat /\ m * Cardinality(Players) \in Nat
    BY <1>2
  <2> QED  BY <1>1, <1>2, <1>5, <1>6, <1>7, <2>1
<1>9. Cardinality(S) \in 0..U32Max
  BY <1>1, <1>2
<1> QED  BY <1>2, <1>3, <1>4, <1>5, <1>8, <1>9

CountSafe(r) ==
    /\ status[r] = "Totals" =>
        /\ snapshot[r].participants = Cardinality(Passed(cursor[r]))
        /\ snapshot[r].power = SumFunctionOnSet(effective, Passed(cursor[r]))
    /\ status[r] = "Shares" => CountsDecksOnce(r)

CountInv == undisturbed => \A r \in Rounds : Open(r) => CountSafe(r)

(* One batch of the totals pass: the snapshot counts the decks up to the   *)
(* next cursor, which is the end of the decks when the pass is done.       *)
LEMMA TotalsBatch ==
    ASSUME DeckAssumption, PotAssumption, TotalsFit, RoundInv, IndexInv, EffectiveInv,
           NEW r \in Rounds, CursorSafe(r), CountSafe(r),
           NEW limit \in Limits, ProcessTotals(r, limit)
    PROVE  \E next \in Nat :
              /\ snapshot'[r].amount = snapshot[r].amount
              /\ snapshot'[r].participants = Cardinality(Passed(next))
              /\ snapshot'[r].power = SumFunctionOnSet(effective, Passed(next))
              /\ \/ cursor'[r] = next /\ status'[r] = "Totals"
                 \/ /\ cursor'[r] = 0 /\ status'[r] = "Shares"
                    /\ next = Len(DeckSource)
<1>1. PICK page : page = ReadDecksPage(cursor[r], limit)
  OBVIOUS
<1>2. PICK c : c = cursor[r]
  OBVIOUS
<1>3. PICK next : next = c + Len(page)
  OBVIOUS
<1>4. /\ c \in Nat /\ Len(page) \in Nat /\ next \in Nat /\ next <= Len(DeckSource)
      /\ Splits(Passed(next), Passed(c), Participants(page))
  BY <1>1, <1>2, <1>3, BatchPage
<1>5. TypeOK /\ Len(DeckSource) \in Nat /\ totalDecks[r] \in Nat
  BY SourceFacts DEF RoundInv, TypeOK
<1>6. Passed(next) \in SUBSET Players /\ Passed(c) \in SUBSET Players
  BY DEF Passed, Holders
<1>7. /\ Cardinality(Passed(next)) = Cardinality(Passed(c)) + Cardinality(Participants(page))
      /\ SumFunctionOnSet(effective, Passed(next))
            = SumFunctionOnSet(effective, Passed(c)) + PowerOf(page)
  <2>1. /\ IsFiniteSet(Passed(next))
        /\ \A x \in Passed(next) : effective[x] \in Int
    BY <1>5, <1>6, SubsetFits
  <2>2. PICK f : f = effective
    OBVIOUS
  <2>3. PICK S, T, U : S = Passed(next) /\ T = Passed(c) /\ U = Participants(page)
    OBVIOUS
  <2>4. Splits(S, T, U) /\ IsFiniteSet(S) /\ \A x \in S : f[x] \in Int
    BY <1>4, <2>1, <2>2, <2>3
  <2>5. /\ Cardinality(S) = Cardinality(T) + Cardinality(U)
        /\ SumFunctionOnSet(f, S) = SumFunctionOnSet(f, T) + SumFunctionOnSet(f, U)
    BY <2>4, CardinalitySplits, SumSplits
  <2> QED  BY <2>2, <2>3, <2>5 DEF PowerOf
<1>8. /\ Cardinality(Passed(next)) \in 0..U32Max
      /\ SumFunctionOnSet(effective, Passed(next)) \in 0..U32Max
  BY <1>5, <1>6, SubsetFits
<1>9. /\ status[r] = "Totals"
      /\ snapshot[r].participants = Cardinality(Passed(c))
      /\ snapshot[r].power = SumFunctionOnSet(effective, Passed(c))
  BY <1>2 DEF ProcessTotals, CountSafe
<1>10. /\ snapshot'[r].amount = snapshot[r].amount
       /\ snapshot'[r].participants = Cardinality(Passed(next))
       /\ snapshot'[r].power = SumFunctionOnSet(effective, Passed(next))
  <2>1. CASE cursor[r] >= totalDecks[r]
    <3>1. snapshot' = snapshot
      BY <2>1 DEF ProcessTotals
    <3>2. next = c
      BY <1>2, <1>3, <1>4, <1>5, <2>1 DEF CursorSafe
    <3> QED  BY <1>9, <3>1, <3>2
  <2>2. CASE ~(cursor[r] >= totalDecks[r])
    <3>1. snapshot' = [snapshot EXCEPT
              ![r].participants = SaturatingAdd(@, Cardinality(Participants(page))),
              ![r].power = SaturatingAdd(@, PowerOf(page))]
      BY <1>1, <2>2 DEF ProcessTotals
    <3>2. /\ snapshot'[r].amount = snapshot[r].amount
          /\ snapshot'[r].participants
                = SaturatingAdd(snapshot[r].participants, Cardinality(Participants(page)))
          /\ snapshot'[r].power = SaturatingAdd(snapshot[r].power, PowerOf(page))
      BY <1>5, <3>1 DEF TypeOK
    <3>3. \A k \in 0..U32Max : Smaller(k, U32Max) = k
      BY DEF Smaller, PotAssumption
    <3> QED  BY <1>7, <1>8, <1>9, <3>2, <3>3 DEF SaturatingAdd
  <2> QED  BY <2>1, <2>2
<1>11. \/ cursor'[r] = next /\ status'[r] = "Totals"
       \/ /\ cursor'[r] = 0 /\ status'[r] = "Shares"
          /\ next = Len(DeckSource)
  <2>1. CASE next >= totalDecks[r]
    <3>1. cursor'[r] = 0 /\ status'[r] = "Shares"
      BY <1>1, <1>2, <1>3, <1>5, <2>1 DEF ProcessTotals, TypeOK
    <3>2. next = Len(DeckSource)
      BY <1>4, <1>5, <2>1 DEF CursorSafe
    <3> QED  BY <3>1, <3>2
  <2>2. CASE ~(next >= totalDecks[r])
    BY <1>1, <1>2, <1>3, <1>5, <1>9, <2>2 DEF ProcessTotals, TypeOK
  <2> QED  BY <2>1, <2>2
<1> QED  BY <1>4, <1>10, <1>11

LEMMA CountStep ==
    ASSUME DeckAssumption, PotAssumption, TotalsFit, RoundInv, IndexInv, EffectiveInv,
           PassInv, CountInv, [Next]_vars, undisturbed', NEW r \in Rounds, Open(r)'
    PROVE  CountSafe(r)'
<1>1. undisturbed /\ UNCHANGED deckVars /\ QuietStep(r)
  BY StaysOpen
<1>2. /\ effective' = effective /\ Len(DeckSource) \in Nat /\ DeckTypeOK
      /\ IsFiniteSet(Players)
  BY <1>1, SourceFacts DEF deckVars, RoundInv, TypeOK, DeckAssumption
<1>3. PICK k : k = cursor'[r]
  OBVIOUS
<1>4. /\ (Passed(cursor[r]))' = Passed(k)
      /\ Participants(DeckSource)' = Participants(DeckSource)
      /\ Participants(DeckSource) = Passed(Len(DeckSource))
  BY <1>1, <1>2, <1>3, SidesNext, AllPassed
<1>5. CASE OpenPotStart(r)
  <2>1. /\ cursor'[r] = 0 /\ status'[r] = "Totals"
        /\ snapshot'[r].participants = 0 /\ snapshot'[r].power = 0
    BY <1>5 DEF OpenPotStart, RoundInv, TypeOK
  <2>2. (Passed(cursor[r]))' = {}
    BY <1>2, <1>3, <1>4, <2>1, AllPassed
  <2>3. Cardinality({}) = 0 /\ SumFunctionOnSet(effective, {}) = 0
    <3>1. PICK f : f = effective
      OBVIOUS
    <3>2. SumFunctionOnSet(f, {}) = 0
      BY SumEmpty
    <3> QED  BY <3>1, <3>2, FS_EmptySet
  <2> QED  BY <1>2, <2>1, <2>2, <2>3 DEF CountSafe
<1>6. ASSUME NEW limit \in Limits, ProcessTotals(r, limit)
      PROVE  CountSafe(r)'
  <2>1. CursorSafe(r) /\ CountSafe(r)
    BY <1>1, <1>6 DEF PassInv, CountInv, ProcessTotals, Open
  <2>2. PICK next \in Nat :
          /\ snapshot'[r].participants = Cardinality(Passed(next))
          /\ snapshot'[r].power = SumFunctionOnSet(effective, Passed(next))
          /\ \/ cursor'[r] = next /\ status'[r] = "Totals"
             \/ cursor'[r] = 0 /\ status'[r] = "Shares" /\ next = Len(DeckSource)
    BY <1>6, <2>1, TotalsBatch
  <2>3. CASE cursor'[r] = next /\ status'[r] = "Totals"
    BY <1>2, <1>3, <1>4, <2>2, <2>3 DEF CountSafe
  <2>4. CASE status'[r] = "Shares" /\ next = Len(DeckSource)
    BY <1>2, <1>4, <2>2, <2>4 DEF CountSafe, CountsDecksOnce, PowerOf
  <2> QED  BY <2>2, <2>3, <2>4
<1>7. ASSUME snapshot' = snapshot, status' = status, status[r] = "Shares"
      PROVE  CountSafe(r)'
  <2>1. CountSafe(r)
    BY <1>1, <1>7 DEF CountInv, Open
  <2> QED  BY <1>2, <1>4, <1>7, <2>1 DEF CountSafe, CountsDecksOnce, PowerOf
<1>8. ASSUME NEW limit \in Limits, ProcessShares(r, limit)
      PROVE  CountSafe(r)'
  BY <1>7, <1>8 DEF ProcessShares
<1>9. CASE Open(r) /\ UNCHANGED roundVars
  <2>1. snapshot' = snapshot /\ status' = status /\ cursor' = cursor /\ CountSafe(r)
    BY <1>1, <1>9 DEF roundVars, CountInv
  <2>2. CASE status[r] = "Totals"
    BY <1>2, <1>3, <1>4, <2>1, <2>2 DEF CountSafe
  <2> QED  BY <1>7, <1>9, <2>1, <2>2 DEF Open
<1> QED  BY <1>1, <1>5, <1>6, <1>8, <1>9 DEF QuietStep

LEMMA CountInvariant ==
    ASSUME TotalsFit
    PROVE  Spec => []CountInv
<1>1. Init => CountInv
  BY DEF Init, CountInv, Open
<1>2. RoundInv /\ IndexInv /\ EffectiveInv /\ PassInv /\ CountInv /\ [Next]_vars
        => CountInv'
  BY CountStep, DeckAssumption, PotAssumption, TotalsFit DEF CountInv
<1> QED
  BY <1>1, <1>2, RoundInvariant, IndexInvariant, EffectiveInvariant, PassInvariant, PTL
     DEF Spec

(* The totals pass counts every complete deck once, whatever the batch     *)
(* sizes are and whatever happens between the batches.                     *)
THEOREM TotalsAreExact ==
    ASSUME TotalsFit
    PROVE  Spec => []TotalsExact
<1>1. CountInv => TotalsExact
  BY DEF CountInv, CountSafe, TotalsExact, Open
<1> QED  BY <1>1, CountInvariant, TotalsFit, PTL

-----------------------------------------------------------------------------
(* The parts of an amount fit into it.                                     *)

PartsOf(amount, powers, total) ==
    [p \in Players |-> Payout(amount, SharePercentage(powers[p], total))]

LEMMA QuotientBound ==
    ASSUME NEW a \in Nat, NEW b \in Nat \ {0}
    PROVE  a \div b \in Nat /\ b * (a \div b) <= a
OBVIOUS

LEMMA PartsFit ==
    ASSUME DeckAssumption, PotAssumption, NEW S \in SUBSET Players,
           NEW amount \in Nat, NEW powers \in [Players -> Nat],
           NEW total, total = SumFunctionOnSet(powers, S)
    PROVE  /\ \A p \in Players : PartsOf(amount, powers, total)[p] \in Nat
           /\ SumFunctionOnSet(PartsOf(amount, powers, total), S) <= amount
<1> DEFINE shares == [p \in Players |-> SharePercentage(powers[p], total)]
           parts == PartsOf(amount, powers, total)
<1>1. IsFiniteSet(S) /\ BasisPoints \in Nat \ {0} /\ \A p \in S : p \in Players
  BY FS_Subset DEF DeckAssumption, PotAssumption
<1>2. \A p \in S : powers[p] \in Nat
  OBVIOUS
<1>3. total \in Nat
  BY <1>1, <1>2, SumNat
<1>4. \A p \in Players : shares[p] \in Nat
  BY <1>3, SharePercentageType
<1>5. \A p \in Players : parts[p] = Payout(amount, shares[p])
  BY DEF PartsOf
<1>6. \A p \in Players : parts[p] \in Nat /\ BasisPoints * parts[p] <= amount * shares[p]
  <2>1. TAKE p \in Players
  <2>0. PICK x \in Nat : x = amount * shares[p]
    BY <1>4
  <2> HIDE DEF shares, parts
  <2>2. parts[p] = x \div BasisPoints
    BY <1>5, <2>0 DEF Payout
  <2>3. x \div BasisPoints \in Nat /\ BasisPoints * (x \div BasisPoints) <= x
    BY <1>1, QuotientBound
  <2> QED  BY <2>0, <2>2, <2>3
<1>7. SumFunctionOnSet(shares, S) <= BasisPoints
  <2>1. CASE total = 0
    <3>1. \A p \in S : shares[p] = 0
      BY <1>1, <2>1 DEF SharePercentage
    <3> HIDE DEF shares
    <3>2. SumFunctionOnSet(shares, S) = 0
      BY <1>1, <3>1, SumZero
    <3> QED  BY <1>1, <3>2
  <2>2. CASE total # 0
    <3>1. \A p \in S : total * shares[p] <= BasisPoints * powers[p]
      <4>1. TAKE p \in S
      <4>2. powers[p] * BasisPoints \in Nat /\ total \in Nat \ {0}
        BY <1>1, <1>2, <1>3, <2>2
      <4>3. shares[p] = (powers[p] * BasisPoints) \div total
        BY <1>1, <4>2 DEF SharePercentage
      <4>4. total * shares[p] <= powers[p] * BasisPoints
        BY <4>2, <4>3, QuotientBound
      <4> QED  BY <1>1, <1>2, <4>4
    <3>2. \A p \in S : shares[p] \in Nat
      BY <1>1, <1>4
    <3>3. total \in Nat \ {0} /\ BasisPoints \in Nat
      BY <1>1, <1>3, <2>2
    <3>4. SumFunctionOnSet(powers, S) <= total
      BY <1>3
    <3> HIDE DEF shares
    <3> QED  BY <1>1, <1>2, <3>1, <3>2, <3>3, <3>4, PartsAtMost
  <2> QED  BY <2>1, <2>2
<1>8. /\ \A p \in S : parts[p] \in Nat
      /\ \A p \in S : shares[p] \in Nat
      /\ \A p \in S : BasisPoints * parts[p] <= amount * shares[p]
  BY <1>1, <1>4, <1>6
<1> HIDE DEF shares, parts
<1>9. SumFunctionOnSet(parts, S) <= amount
  BY <1>1, <1>7, <1>8, PartsAtMost
<1> QED  BY <1>6, <1>9 DEF parts

-----------------------------------------------------------------------------
(* What the players are promised, and what the vault has beside it.        *)

LEMMA PromisedType ==
    ASSUME DeckAssumption, TypeOK, NEW a \in Assets
    PROVE  PromisedTo(a) \in Nat
<1>1. PICK f : f = [p \in Players |-> claimable[p][a]]
  OBVIOUS
<1>2. \A p \in Players : f[p] \in Nat
  BY <1>1 DEF TypeOK
<1> QED  BY <1>1, <1>2, SumNat DEF PromisedTo, DeckAssumption

LEMMA PromisedSame ==
    ASSUME claimable' = claimable
    PROVE  \A a : PromisedTo(a)' = PromisedTo(a)
BY DEF PromisedTo

(* A claim lowers the promise by what it pays.                             *)
LEMMA PromisedClaimed ==
    ASSUME DeckAssumption, TypeOK, NEW q \in Players, NEW a \in Assets,
           NEW n \in Nat, n = Claimed(q)[a],
           claimable' = [claimable EXCEPT
                ![q] = [b \in Assets |-> claimable[q][b] - Claimed(q)[b]]]
    PROVE  PromisedTo(a)' \in Int /\ PromisedTo(a)' + n = PromisedTo(a)
<1>1. PICK f, g : /\ f = [p \in Players |-> claimable[p][a]]
                  /\ g = [p \in Players |-> claimable'[p][a]]
  OBVIOUS
<1>2. /\ \A p \in Players : f[p] \in Int
      /\ g[q] = f[q] - n
      /\ \A p \in Players \ {q} : g[p] = f[p]
  BY <1>1 DEF TypeOK
<1>3. g[q] \in Int
  BY <1>2
<1>4. SumFunctionOnSet(g, Players) = SumFunctionOnSet(f, Players) - f[q] + g[q]
  BY <1>2, <1>3, SumChange DEF DeckAssumption
<1>5. SumFunctionOnSet(f, Players) \in Int
  BY <1>2, SumInt DEF DeckAssumption
<1>6. /\ SumFunctionOnSet(g, Players) \in Int
      /\ SumFunctionOnSet(g, Players) + n = SumFunctionOnSet(f, Players)
  <2>1. f[q] \in Int /\ n \in Int /\ g[q] = f[q] - n
    BY <1>2
  <2>2. PICK before \in Int : before = SumFunctionOnSet(f, Players)
    BY <1>5
  <2>3. PICK held \in Int : held = f[q]
    BY <2>1
  <2>4. SumFunctionOnSet(g, Players) = before - held + (held - n)
    BY <1>4, <2>1, <2>2, <2>3
  <2>5. /\ before - held + (held - n) \in Int
        /\ before - held + (held - n) + n = before
    BY <2>1, <2>2, <2>3
  <2>6. PICK after \in Int : after = before - held + (held - n)
    BY <2>5
  <2>7. after + n = before
    BY <2>5, <2>6
  <2>8. SumFunctionOnSet(g, Players) = after
    BY <2>4, <2>6
  <2> QED  BY <2>2, <2>6, <2>7, <2>8
<1> QED  BY <1>1, <1>6 DEF PromisedTo

(* Crediting a page raises the promise by the parts of its owners.         *)
LEMMA PromisedCredited ==
    ASSUME DeckAssumption, PotAssumption, TypeOK, NEW snap \in Snapshots,
           NEW page, Participants(page) \subseteq Players, NEW a \in Assets,
           claimable' = CreditedClaims(snap, page),
           NEW parts, parts = PartsOf(snap.amount[a], effective, snap.power)
    PROVE  PromisedTo(a)' = PromisedTo(a) + SumFunctionOnSet(parts, Participants(page))
<1>1. PICK f, g, W : /\ f = [p \in Players |-> claimable[p][a]]
                     /\ g = [p \in Players |-> claimable'[p][a]]
                     /\ W = Participants(page)
  OBVIOUS
<1> DEFINE add == [p \in Players |-> IF p \in W THEN parts[p] ELSE 0]
<1>2. \A p \in Players : parts[p] = Payout(snap.amount[a], ShareIn(snap, p))
  BY DEF PartsOf, ShareIn
<1>3. \A p \in Players : parts[p] \in Nat
  <2>1. TAKE p \in Players
  <2>2. ShareIn(snap, p) \in Nat /\ snap.amount[a] \in Nat
    BY SharePercentageType DEF ShareIn, TypeOK, DeckTypeOK, Snapshots, Amounts
  <2> QED  BY <1>2, <2>2, PayoutType
<1>4. \A p \in Players : f[p] \in Int
  BY <1>1 DEF TypeOK
<1>5. \A p \in Players : g[p] = IF p \in W THEN f[p] + parts[p] ELSE f[p]
  BY <1>1, <1>2 DEF CreditedClaims
<1>6. /\ \A p \in Players : f[p] \in Int /\ add[p] \in Int /\ g[p] = f[p] + 1 * add[p]
      /\ \A p \in Players : add[p] \in Int
      /\ \A p \in Players \ W : add[p] = 0
      /\ \A p \in W : parts[p] = add[p] /\ add[p] \in Int
  BY <1>1, <1>3, <1>4, <1>5
<1>7. IsFiniteSet(Players) /\ IsFiniteSet(W) /\ W \in SUBSET Players
  BY <1>1, FS_Subset DEF DeckAssumption
<1> HIDE DEF add
<1>8. SumFunctionOnSet(g, Players)
        = SumFunctionOnSet(f, Players) + 1 * SumFunctionOnSet(add, Players)
  BY <1>6, <1>7, SumLinear
<1>9. SumFunctionOnSet(add, Players) = SumFunctionOnSet(add, W)
  BY <1>6, <1>7, SumSupport
<1>10. SumFunctionOnSet(parts, W) = SumFunctionOnSet(add, W)
  BY <1>6, <1>7, SumEqual
<1>11. SumFunctionOnSet(add, W) \in Int /\ SumFunctionOnSet(f, Players) \in Int
  BY <1>6, <1>7, SumInt
<1>12. SumFunctionOnSet(g, Players)
         = SumFunctionOnSet(f, Players) + SumFunctionOnSet(parts, W)
  BY <1>8, <1>9, <1>10, <1>11
<1> QED  BY <1>1, <1>12 DEF PromisedTo

(* n more could be promised of an asset.                                   *)
Spares(a, n) ==
    IF a \in Core THEN PromisedTo(a) + n <= totalClaimable[a]
                  ELSE pot[a] + fees[a] + PromisedTo(a) + n <= balance[a]

LEMMA AssetTypes ==
    ASSUME DeckAssumption, PotAssumption, TypeOK, NEW a \in Assets
    PROVE  /\ pot[a] \in Nat /\ fees[a] \in Nat /\ PromisedTo(a) \in Nat
           /\ a \in Core => totalClaimable[a] \in Int
           /\ a \notin Core => a \in Generic /\ a \in Tokens /\ balance[a] \in Nat
<1>1. a \notin Core => a \in Generic /\ a \in Tokens
  BY DEF Assets, Tokens
<1> QED  BY <1>1, PromisedType DEF TypeOK

(* An asset that is not of the core has its promises beside pot and fees.  *)
LEMMA SparesBeside ==
    ASSUME NEW a \in Assets, a \notin Core, NEW n \in Nat,
           NEW p, NEW f, NEW promised, NEW held, p + f + promised + n <= held,
           pot'[a] = p, fees'[a] = f, PromisedTo(a)' = promised, balance'[a] = held
    PROVE  Spares(a, n)'
<1>1. pot'[a] + fees'[a] + PromisedTo(a)' + n <= balance'[a]
  OBVIOUS
<1> QED  BY <1>1 DEF Spares

(* What is taken from one part of a sum is taken from the bound as well.   *)
LEMMA FeesTaken ==
    ASSUME NEW p \in Int, NEW f \in Int, NEW d \in Int, NEW n \in Int,
           NEW b \in Int, NEW m \in Int, p + f + d + n <= b
    PROVE  p + (f - m) + d + n <= b - m
<1>1. p + (f - m) + d + n = (p + f + d + n) - m
  OBVIOUS
<1> QED  BY <1>1

LEMMA ClaimTaken ==
    ASSUME NEW p \in Int, NEW f \in Int, NEW d \in Int, NEW n \in Int,
           NEW b \in Int, NEW m \in Int, NEW e \in Int, e + m = d,
           p + f + d + n <= b
    PROVE  p + f + e + n <= b - m
<1>1. e = d - m
  OBVIOUS
<1>2. p + f + (d - m) + n <= b - m
  OBVIOUS
<1> QED  BY <1>1, <1>2

(* Contributions and claims leave it as it is.                             *)
LEMMA SparesKept ==
    ASSUME DeckAssumption, PotAssumption, TypeOK, NEW a \in Assets, NEW n \in Nat,
           Spares(a, n),
           \/ AccumulatePot \/ AccumulatePotToken
           \/ \E p \in Players : ClaimHawAiPotShare(p)
           \/ ClaimDogstarFees
           \/ UNCHANGED moneyVars
    PROVE  Spares(a, n)'
<1>1. CASE AccumulatePot \/ AccumulatePotToken
  <2>1. PICK amount \in Amounts : Accumulate(amount)
    BY <1>1, ContributionAmount
  <2>2. amount[a] \in Nat /\ FeeOf(amount[a]) \in 0..amount[a]
    BY FeeOfBounds DEF Amounts
  <2>3. /\ pot'[a] = pot[a] + amount[a] - FeeOf(amount[a])
        /\ fees'[a] = fees[a] + FeeOf(amount[a])
        /\ totalClaimable' = totalClaimable /\ claimable' = claimable
        /\ a \in Tokens => balance'[a] = balance[a] + amount[a]
    BY <2>1 DEF Accumulate
  <2>4. PromisedTo(a)' = PromisedTo(a)
    BY <2>3, PromisedSame
  <2>5. PICK promised \in Nat : promised = PromisedTo(a)
    BY AssetTypes
  <2>6. CASE a \in Core
    BY <2>3, <2>4, <2>6 DEF Spares
  <2>7. CASE a \notin Core
    <3>1. /\ pot[a] + fees[a] + promised + n <= balance[a] /\ a \in Tokens
          /\ balance[a] \in Nat /\ pot[a] \in Nat /\ fees[a] \in Nat
      BY <2>5, <2>7, AssetTypes DEF Spares
    <3>2. PICK fee \in 0..amount[a] : fee = FeeOf(amount[a])
      BY <2>2
    <3>3. PICK more \in Nat, p \in Nat, f \in Nat, b \in Nat :
             more = amount[a] /\ p = pot[a] /\ f = fees[a] /\ b = balance[a]
      BY <2>2, <3>1
    <3>4. pot'[a] = p + more - fee /\ fees'[a] = f + fee /\ balance'[a] = b + more
      BY <2>3, <3>1, <3>2, <3>3
    <3>5. p + f + promised + n <= b
      BY <3>1, <3>3
    <3>6. fee \in Int
      BY <3>2, <3>3
    <3>7. (p + more - fee) + (f + fee) + promised + n <= b + more
      BY <3>5, <3>6
    <3>8. PromisedTo(a)' = promised
      BY <2>4, <2>5
    <3> QED  BY <2>7, <3>4, <3>7, <3>8, SparesBeside
  <2> QED  BY <2>6, <2>7
<1>2. ASSUME NEW q \in Players, ClaimHawAiPotShare(q)
      PROVE  Spares(a, n)'
  <2>1. PICK m : m = Claimed(q)[a]
    OBVIOUS
  <2>2. m \in Nat
    BY <2>1 DEF Claimed, TypeOK
  <2>3. PromisedTo(a)' \in Int /\ PromisedTo(a)' + m = PromisedTo(a)
    <3>1. claimable' = [claimable EXCEPT
              ![q] = [b \in Assets |-> claimable[q][b] - Claimed(q)[b]]]
      BY <1>2 DEF ClaimHawAiPotShare
    <3> QED  BY <2>1, <2>2, <3>1, PromisedClaimed
  <2>4. /\ pot' = pot /\ fees' = fees
        /\ a \in Core => totalClaimable'[a] = totalClaimable[a] - m
        /\ a \in Tokens => balance'[a] = balance[a] - m
    BY <1>2, <2>1 DEF ClaimHawAiPotShare
  <2>5. PICK before, after : before = PromisedTo(a) /\ after = PromisedTo(a)'
    OBVIOUS
  <2>6. before \in Nat /\ after \in Int /\ after + m = before
    BY <2>2, <2>3, <2>5, AssetTypes
  <2>7. CASE a \in Core
    <3>1. before + n <= totalClaimable[a] /\ totalClaimable[a] \in Int
      BY <2>5, <2>7, AssetTypes DEF Spares
    <3>2. PICK held \in Int : held = totalClaimable[a]
      BY <3>1
    <3>3. after + n <= held - m
      <4>1. before + n <= held
        BY <3>1, <3>2
      <4> QED  BY <2>2, <2>6, <4>1
    <3>4. totalClaimable'[a] = held - m
      BY <2>4, <2>7, <3>2
    <3>5. after + n <= totalClaimable'[a]
      BY <3>3, <3>4
    <3> QED  BY <2>5, <2>7, <3>5 DEF Spares
  <2>8. CASE a \notin Core
    <3>1. /\ pot[a] + fees[a] + before + n <= balance[a]
          /\ balance[a] \in Nat /\ pot[a] \in Nat /\ fees[a] \in Nat /\ a \in Tokens
      BY <2>5, <2>8, AssetTypes DEF Spares
    <3>2. PICK p, f, b \in Nat : p = pot[a] /\ f = fees[a] /\ b = balance[a]
      BY <3>1
    <3>3. p + f + after + n <= b - m
      <4>1. p + f + before + n <= b
        BY <3>1, <3>2
      <4>2. /\ p \in Int /\ f \in Int /\ before \in Int /\ after \in Int
            /\ n \in Int /\ b \in Int /\ m \in Int /\ after + m = before
        BY <2>2, <2>6
      <4> QED  BY <4>1, <4>2, ClaimTaken
    <3>4. /\ pot'[a] = p /\ fees'[a] = f /\ balance'[a] = b - m
      BY <2>4, <3>1, <3>2
    <3> QED  BY <2>5, <2>8, <3>3, <3>4, SparesBeside
  <2> QED  BY <2>7, <2>8
<1>3. CASE ClaimDogstarFees
  <2>1. PICK m : m = ClaimedFees[a]
    OBVIOUS
  <2>2. m \in Nat
    BY <2>1 DEF ClaimedFees, TypeOK
  <2>3. /\ pot' = pot /\ fees'[a] = fees[a] - m /\ totalClaimable' = totalClaimable
        /\ claimable' = claimable
        /\ a \in Tokens => balance'[a] = balance[a] - m
    BY <1>3, <2>1 DEF ClaimDogstarFees
  <2>4. PromisedTo(a)' = PromisedTo(a)
    BY <2>3, PromisedSame
  <2>5. PICK promised \in Nat : promised = PromisedTo(a)
    BY AssetTypes
  <2>6. CASE a \in Core
    BY <2>3, <2>4, <2>6 DEF Spares
  <2>7. CASE a \notin Core
    <3>1. /\ pot[a] + fees[a] + promised + n <= balance[a] /\ a \in Tokens
          /\ balance[a] \in Nat /\ pot[a] \in Nat /\ fees[a] \in Nat
      BY <2>5, <2>7, AssetTypes DEF Spares
    <3>2. PICK p, f, b \in Nat : p = pot[a] /\ f = fees[a] /\ b = balance[a]
      BY <3>1
    <3>3. p + (f - m) + promised + n <= b - m
      <4>1. p + f + promised + n <= b
        BY <3>1, <3>2
      <4>2. /\ p \in Int /\ f \in Int /\ promised \in Int /\ n \in Int
            /\ b \in Int /\ m \in Int
        BY <2>2
      <4> QED  BY <4>1, <4>2, FeesTaken
    <3>4. pot'[a] = p /\ fees'[a] = f - m /\ balance'[a] = b - m
      BY <2>3, <3>1, <3>2
    <3>5. PromisedTo(a)' = promised
      BY <2>4, <2>5
    <3> QED  BY <2>7, <3>3, <3>4, <3>5, SparesBeside
  <2> QED  BY <2>6, <2>7
<1>4. CASE UNCHANGED moneyVars
  <2>1. PromisedTo(a)' = PromisedTo(a)
    BY <1>4, PromisedSame DEF moneyVars
  <2> QED  BY <1>4, <2>1 DEF Spares, moneyVars
<1> QED  BY <1>1, <1>2, <1>3, <1>4

(* A start brings what it takes out of the pot.                            *)
LEMMA SparesOpened ==
    ASSUME DeckAssumption, PotAssumption, TypeOK, NEW a \in Assets, Spares(a, 0),
           MoveToVault, UNCHANGED <<fees, balance>>,
           NEW n \in Nat, NEW k \in Nat, n + k <= Opened[a],
           PromisedTo(a)' = PromisedTo(a) + k
    PROVE  Spares(a, n)'
<1>1. /\ Opened[a] \in Nat
      /\ a \in Core => Opened[a] = pot[a] /\ totalClaimable'[a] = totalClaimable[a] + pot[a]
      /\ pot'[a] = pot[a] - Opened[a]
  BY DEF MoveToVault, Opened, TypeOK
<1>2. PICK before, after : before = PromisedTo(a) /\ after = PromisedTo(a)'
  OBVIOUS
<1>3. before \in Nat /\ after = before + k
  BY <1>2, AssetTypes
<1>4. CASE a \in Core
  <2>1. before + 0 <= totalClaimable[a] /\ totalClaimable[a] \in Int /\ pot[a] \in Nat
    BY <1>2, <1>4, AssetTypes DEF Spares
  <2>2. PICK held \in Int, in \in Nat : held = totalClaimable[a] /\ in = pot[a]
    BY <2>1
  <2>3. n + k <= in /\ totalClaimable'[a] = held + in
    BY <1>1, <1>4, <2>2
  <2>4. after + n <= held + in
    <3>1. before <= held
      BY <1>3, <2>1, <2>2
    <3> QED  BY <1>3, <2>3, <3>1
  <2>5. after + n <= totalClaimable'[a]
    BY <2>3, <2>4
  <2> QED  BY <1>2, <1>4, <2>5 DEF Spares
<1>5. CASE a \notin Core
  <2>1. /\ pot[a] + fees[a] + before + 0 <= balance[a]
        /\ balance[a] \in Nat /\ pot[a] \in Nat /\ fees[a] \in Nat
    BY <1>2, <1>5, AssetTypes DEF Spares
  <2>2. PICK p, f, b \in Nat : p = pot[a] /\ f = fees[a] /\ b = balance[a]
    BY <2>1
  <2>3. PICK out \in Nat : out = Opened[a]
    BY <1>1
  <2>4. (p - out) + f + after + n <= b
    <3>1. p + f + before <= b
      BY <1>3, <2>1, <2>2
    <3>2. n + k <= out
      BY <2>3
    <3> QED  BY <1>3, <3>1, <3>2
  <2>5. pot'[a] = p - out /\ fees'[a] = f /\ balance'[a] = b
    BY <1>1, <2>2, <2>3
  <2> QED  BY <1>2, <1>5, <2>4, <2>5, SparesBeside
<1> QED  BY <1>4, <1>5

(* A batch of the shares pass promises what had been set aside.            *)
LEMMA SparesCredited ==
    ASSUME DeckAssumption, PotAssumption, TypeOK, NEW a \in Assets,
           NEW n \in Nat, NEW k \in Nat, Spares(a, n + k),
           UNCHANGED <<pot, fees, totalClaimable, balance>>,
           PromisedTo(a)' = PromisedTo(a) + k
    PROVE  Spares(a, n)'
<1>1. PICK before, after : before = PromisedTo(a) /\ after = PromisedTo(a)'
  OBVIOUS
<1>2. before \in Nat /\ after = before + k
  BY <1>1, AssetTypes
<1>3. CASE a \in Core
  <2>1. before + (n + k) <= totalClaimable[a] /\ totalClaimable[a] \in Int
    BY <1>1, <1>3, AssetTypes DEF Spares
  <2>2. PICK held \in Int : held = totalClaimable[a]
    BY <2>1
  <2>3. after + n <= held
    <3>1. before + (n + k) <= held
      BY <2>1, <2>2
    <3> QED  BY <1>2, <3>1
  <2> QED  BY <1>1, <1>3, <2>2, <2>3 DEF Spares
<1>4. CASE a \notin Core
  <2>1. /\ pot[a] + fees[a] + before + (n + k) <= balance[a]
        /\ balance[a] \in Nat /\ pot[a] \in Nat /\ fees[a] \in Nat
    BY <1>1, <1>4, AssetTypes DEF Spares
  <2>2. PICK p, f, b \in Nat : p = pot[a] /\ f = fees[a] /\ b = balance[a]
    BY <2>1
  <2>3. p + f + after + n <= b
    <3>1. p + f + before + (n + k) <= b
      BY <2>1, <2>2
    <3> QED  BY <1>2, <3>1
  <2>4. pot'[a] = p /\ fees'[a] = f /\ balance'[a] = b
    BY <2>2
  <2> QED  BY <1>1, <1>4, <2>3, <2>4, SparesBeside
<1> QED  BY <1>3, <1>4

LEMMA SparesLess ==
    ASSUME DeckAssumption, PotAssumption, TypeOK, NEW a \in Assets,
           NEW n \in Nat, NEW k \in Nat, k <= n, Spares(a, n)
    PROVE  Spares(a, k)
<1>1. PICK promised \in Nat : promised = PromisedTo(a)
  BY AssetTypes
<1>2. CASE a \in Core
  <2>1. promised + n <= totalClaimable[a] /\ totalClaimable[a] \in Int
    BY <1>1, <1>2, AssetTypes DEF Spares
  <2>2. promised + k <= totalClaimable[a]
    BY <2>1
  <2> QED  BY <1>1, <1>2, <2>2 DEF Spares
<1>3. CASE a \notin Core
  <2>1. PICK p, f, b \in Nat : p = pot[a] /\ f = fees[a] /\ b = balance[a]
    BY <1>3, AssetTypes
  <2>2. p + f + promised + n <= b
    BY <1>1, <1>3, <2>1 DEF Spares
  <2>3. p + f + promised + k <= b
    BY <2>2
  <2> QED  BY <1>1, <1>3, <2>1, <2>3 DEF Spares
<1> QED  BY <1>2, <1>3

-----------------------------------------------------------------------------
(* The promise that is still to be made: the amounts of the snapshot until *)
(* the totals pass is done, then the parts of the decks ahead.             *)

Pending(r, a) ==
    IF status[r] = "Totals" THEN snapshot[r].amount[a]
    ELSE SumFunctionOnSet(PartsOf(snapshot[r].amount[a], effective, snapshot[r].power),
                          Ahead(cursor[r]))

Needed(a) == IF inProgress = NoRound THEN 0 ELSE Pending(inProgress, a)

SolventInv == undisturbed => \A a \in Assets : Spares(a, Needed(a))

LEMMA PartsType ==
    ASSUME DeckAssumption, PotAssumption, NEW amount \in Nat,
           NEW powers \in [Players -> Nat], NEW total \in Nat,
           NEW S \in SUBSET Players
    PROVE  /\ IsFiniteSet(S)
           /\ \A p \in S : PartsOf(amount, powers, total)[p] \in Nat
           /\ SumFunctionOnSet(PartsOf(amount, powers, total), S) \in Nat
<1>1. IsFiniteSet(S)
  BY FS_Subset DEF DeckAssumption
<1>2. PICK parts : parts = PartsOf(amount, powers, total)
  OBVIOUS
<1>3. \A p \in S : parts[p] \in Nat
  <2>1. TAKE p \in S
  <2>2. parts[p] = Payout(amount, SharePercentage(powers[p], total))
    BY <1>2 DEF PartsOf
  <2>3. SharePercentage(powers[p], total) \in Nat
    BY SharePercentageType
  <2> QED  BY <2>2, <2>3, PayoutType
<1> QED  BY <1>1, <1>2, <1>3, SumNat

LEMMA PendingType ==
    ASSUME DeckAssumption, PotAssumption, TypeOK, NEW r \in Rounds, NEW a \in Assets
    PROVE  Pending(r, a) \in Nat
<1>1. /\ snapshot[r].amount[a] \in Nat /\ snapshot[r].power \in Nat
      /\ effective \in [Players -> Nat] /\ Ahead(cursor[r]) \in SUBSET Players
  <2>1. snapshot[r].amount[a] \in Nat /\ snapshot[r].power \in Nat
    <3>1. snapshot \in [Rounds -> Snapshots]
      BY DEF TypeOK, Snapshots, Amounts
    <3>2. snapshot[r] \in Snapshots
      BY <3>1
    <3> QED  BY <3>2 DEF Snapshots, Amounts
  <2>2. effective \in [Players -> Nat]
    BY DEF TypeOK, DeckTypeOK
  <2>3. Ahead(cursor[r]) \in SUBSET Players
    BY DEF Ahead, Holders
  <2> QED  BY <2>1, <2>2, <2>3
<1>2. SumFunctionOnSet(PartsOf(snapshot[r].amount[a], effective, snapshot[r].power),
                       Ahead(cursor[r])) \in Nat
  <2>1. PICK amount, powers, total, S :
          /\ amount = snapshot[r].amount[a] /\ powers = effective
          /\ total = snapshot[r].power /\ S = Ahead(cursor[r])
    OBVIOUS
  <2> QED  BY <1>1, <2>1, PartsType
<1> QED  BY <1>1, <1>2 DEF Pending

LEMMA MoneyOfOthers ==
    ASSUME OtherStep \/ UNCHANGED vars
    PROVE  \/ AccumulatePot \/ AccumulatePotToken
           \/ \E p \in Players : ClaimHawAiPotShare(p)
           \/ ClaimDogstarFees
           \/ UNCHANGED moneyVars
BY DEF OtherStep, RegisterToken, UnregisterToken, UpdateDogstarFeePercentage,
       SetFeePercentages, DeckStep, IndexStep, vars

(* Steps after which no round is in progress.                              *)
LEMMA SolventIdle ==
    ASSUME DeckAssumption, PotAssumption, RoundInv, IndexInv, SolventInv, [Next]_vars,
           undisturbed', inProgress' = NoRound, NEW a \in Assets
    PROVE  Spares(a, 0)'
<1>1. TypeOK /\ DeckTypeOK
  BY DEF RoundInv, TypeOK
<1>2. CASE OtherStep \/ UNCHANGED vars
  <2>1. inProgress = NoRound
    BY <1>2, OtherStepKeepsRounds DEF roundVars, vars
  <2>2. undisturbed
    BY <1>2 DEF OtherStep, AccumulatePot, AccumulatePotToken, RegisterToken,
                UnregisterToken, UpdateDogstarFeePercentage, SetFeePercentages,
                ClaimHawAiPotShare, ClaimDogstarFees, DeckStep, IndexStep, ghostVars,
                vars
  <2>3. Spares(a, 0)
    BY <2>1, <2>2 DEF SolventInv, Needed
  <2> QED  BY <1>1, <1>2, <2>3, MoneyOfOthers, SparesKept
<1>3. ASSUME NEW r \in Rounds, OpenPotFinalize(r)
      PROVE  Spares(a, 0)'
  <2>1. inProgress = r /\ r # NoRound /\ undisturbed
    BY <1>3 DEF OpenPotFinalize, RoundInv, SinglePot, Open, Rounds, NoRound, ghostVars
  <2>2. PICK n : n = Pending(r, a)
    OBVIOUS
  <2>3. n \in Nat /\ Spares(a, n)
    BY <1>1, <2>1, <2>2, PendingType DEF SolventInv, Needed
  <2>4. Spares(a, 0)
    BY <1>1, <2>3, SparesLess
  <2>5. UNCHANGED moneyVars
    BY <1>3 DEF OpenPotFinalize
  <2> QED  BY <1>1, <2>4, <2>5, SparesKept
<1>4. ASSUME NEW r \in Rounds, OpenPot(r)
      PROVE  Spares(a, 0)'
  <2>1. inProgress = NoRound /\ undisturbed
    BY <1>4, StartsAlone DEF OpenPot, ghostVars
  <2>2. Spares(a, 0)
    BY <2>1 DEF SolventInv, Needed
  <2>3. PICK total \in Nat : total = ReadDecksCount
    BY <1>1, ReadDecksCountType
  <2>4. PICK page : page = ReadDecksPage(0, total)
    OBVIOUS
  <2>5. PICK snap : snap = [amount |-> Opened,
              participants |-> Smaller(Cardinality(Participants(page)), U32Max),
              power |-> PowerOf(page)]
    OBVIOUS
  <2>6. /\ MoveToVault /\ UNCHANGED <<fees, balance>>
        /\ claimable' = CreditedClaims(snap, page)
        /\ PowerOf(page) \in 0..U32Max
    BY <1>4, <2>3, <2>4, <2>5 DEF OpenPot
  <2>7. Participants(page) \in SUBSET Players
    <3>1. Members(page) \subseteq Players
      BY <1>1, <2>4, ReadDecksPageType
    <3> QED  BY <3>1 DEF Participants
  <2>8. Opened \in Amounts /\ Opened[a] \in Nat
    BY <1>1, <2>6, MoveToVaultType DEF Amounts
  <2>9. snap \in Snapshots
    <3>1. Cardinality(Participants(page)) \in Nat /\ U32Max \in Nat
      BY <2>7, FS_Subset, FS_CardinalityType DEF DeckAssumption, PotAssumption
    <3>2. Smaller(Cardinality(Participants(page)), U32Max) \in Nat
      BY <3>1 DEF Smaller
    <3> QED  BY <2>5, <2>6, <2>8, <3>1, <3>2 DEF Snapshots
  <2>10. PICK powers, S, parts, k :
           /\ powers = effective /\ S = Participants(page)
           /\ parts = PartsOf(snap.amount[a], powers, snap.power)
           /\ k = SumFunctionOnSet(parts, S)
    OBVIOUS
  <2>11. /\ powers \in [Players -> Nat] /\ S \in SUBSET Players
         /\ snap.power = SumFunctionOnSet(powers, S) /\ snap.amount[a] = Opened[a]
    BY <1>1, <2>5, <2>7, <2>10 DEF DeckTypeOK, PowerOf
  <2>12. k \in Nat /\ k <= Opened[a]
    <3>1. snap.amount[a] \in Nat /\ snap.power \in Nat
      BY <2>8, <2>9, <2>11 DEF Snapshots
    <3>2. SumFunctionOnSet(PartsOf(snap.amount[a], powers, snap.power), S) \in Nat
      BY <2>11, <3>1, PartsType
    <3>3. SumFunctionOnSet(PartsOf(snap.amount[a], powers, snap.power), S) <= snap.amount[a]
      BY <2>11, <3>1, PartsFit
    <3> QED  BY <2>10, <2>11, <3>2, <3>3
  <2>13. PromisedTo(a)' = PromisedTo(a) + k
    <3>1. parts = PartsOf(snap.amount[a], effective, snap.power)
      BY <2>10
    <3>2. PromisedTo(a)' = PromisedTo(a) + SumFunctionOnSet(parts, Participants(page))
      BY <1>1, <2>6, <2>7, <2>9, <3>1, PromisedCredited
    <3> QED  BY <2>10, <3>2
  <2>14. 0 + k <= Opened[a] /\ 0 \in Nat
    BY <2>8, <2>12
  <2> QED  BY <1>1, <2>2, <2>6, <2>12, <2>13, <2>14, SparesOpened
<1>5. ASSUME NEW r \in Rounds, RoundStep(r)
      PROVE  OpenPotFinalize(r) \/ OpenPot(r)
  <2>1. ~OpenPotStart(r) /\ ~ForceResetPot(r)
    BY DEF OpenPotStart, ForceResetPot, Rounds, NoRound
  <2>2. ASSUME NEW limit, ProcessTotals(r, limit) \/ ProcessShares(r, limit)
        PROVE  FALSE
    <3>1. Open(r) /\ inProgress = NoRound
      BY <2>2 DEF ProcessTotals, ProcessShares, Open
    <3> QED  BY <3>1 DEF RoundInv, SinglePot, Rounds, NoRound
  <2> QED  BY <1>5, <2>1, <2>2 DEF RoundStep
<1> QED  BY <1>2, <1>3, <1>4, <1>5 DEF Next, OtherStep

(* Steps after which a round is in progress.                               *)
LEMMA SolventOpen ==
    ASSUME DeckAssumption, PotAssumption, TotalsFit, RoundInv, IndexInv, EffectiveInv,
           PassInv, CountInv, SolventInv, [Next]_vars, undisturbed',
           NEW r \in Rounds, Open(r)', NEW a \in Assets,
           NEW n, n = Pending(r, a)'
    PROVE  Spares(a, n)'
<1>0. DeckAssumption /\ PotAssumption
  OBVIOUS
<1>1. undisturbed /\ UNCHANGED deckVars /\ QuietStep(r)
  BY StaysOpen
<1>2. TypeOK /\ DeckTypeOK /\ effective' = effective /\ Len(DeckSource) \in Nat
  BY <1>1, SourceFacts DEF RoundInv, TypeOK, deckVars
<1>3. PICK k : k = cursor'[r]
  OBVIOUS
<1>4. (Ahead(cursor[r]))' = Ahead(k)
  BY <1>1, <1>3, SidesNext
<1>5. n = IF status'[r] = "Totals" THEN snapshot'[r].amount[a]
          ELSE SumFunctionOnSet(
                  PartsOf(snapshot'[r].amount[a], effective, snapshot'[r].power), Ahead(k))
  BY <1>2, <1>4 DEF Pending, PartsOf
<1>6. effective \in [Players -> Nat] /\ r # NoRound
  BY <1>2 DEF DeckTypeOK, Rounds, NoRound
<1>7. CASE OpenPotStart(r)
  <2>1. inProgress = NoRound
    BY <1>7, StartsAlone DEF OpenPotStart
  <2>2. Spares(a, 0)
    BY <1>1, <2>1 DEF SolventInv, Needed
  <2>3. /\ MoveToVault /\ UNCHANGED <<fees, balance>> /\ claimable' = claimable
        /\ status'[r] = "Totals" /\ snapshot'[r].amount = Opened
    BY <1>2, <1>7 DEF OpenPotStart, TypeOK
  <2>4. n = Opened[a]
    BY <1>5, <2>3
  <2>5. n \in Nat /\ n + 0 <= Opened[a] /\ 0 \in Nat
    BY <1>2, <2>3, <2>4, MoveToVaultType DEF Amounts
  <2>6. PromisedTo(a)' = PromisedTo(a) + 0
    BY <1>2, <2>3, PromisedSame, PromisedType
  <2> QED  BY <1>2, <2>2, <2>3, <2>5, <2>6, SparesOpened
<1>8. ASSUME NEW limit \in Limits, ProcessTotals(r, limit)
      PROVE  Spares(a, n)'
  <2>1. status[r] = "Totals" /\ Open(r) /\ UNCHANGED moneyVars
    BY <1>8 DEF ProcessTotals, Open
  <2>2. inProgress = r /\ CursorSafe(r) /\ CountSafe(r)
    BY <1>1, <2>1 DEF PassInv, CountInv, RoundInv, SinglePot
  <2>3. PICK m : m = snapshot[r].amount[a]
    OBVIOUS
  <2>4. m \in Nat /\ Spares(a, m)
    BY <1>1, <1>2, <1>6, <2>1, <2>2, <2>3 DEF SolventInv, Needed, Pending, TypeOK
  <2>5. PICK next \in Nat :
          /\ snapshot'[r].amount = snapshot[r].amount
          /\ snapshot'[r].power = SumFunctionOnSet(effective, Passed(next))
          /\ \/ cursor'[r] = next /\ status'[r] = "Totals"
             \/ cursor'[r] = 0 /\ status'[r] = "Shares" /\ next = Len(DeckSource)
    BY <1>8, <2>2, TotalsBatch
  <2>6. n \in Nat /\ n <= m
    <3>1. CASE status'[r] = "Totals"
      BY <1>5, <2>3, <2>4, <2>5, <3>1
    <3>2. CASE status'[r] # "Totals"
      <4>1. k = 0 /\ next = Len(DeckSource)
        BY <1>3, <2>5, <3>2
      <4>2. Ahead(k) = Passed(next)
        BY <1>2, <4>1, AllPassed
      <4>3. PICK powers, total, S :
              /\ powers = effective /\ total = snapshot'[r].power /\ S = Passed(next)
        OBVIOUS
      <4>4. /\ total = SumFunctionOnSet(powers, S) /\ S \in SUBSET Players
            /\ powers \in [Players -> Nat]
        BY <1>6, <2>5, <4>3 DEF Passed, Holders
      <4>5. n = SumFunctionOnSet(PartsOf(m, powers, total), S)
        BY <1>5, <2>3, <2>5, <3>2, <4>2, <4>3
      <4>6. n <= m
        <5>1. m \in Nat /\ S \in SUBSET Players /\ powers \in [Players -> Nat]
          BY <2>4, <4>4
        <5>2. SumFunctionOnSet(PartsOf(m, powers, total), S) <= m
          BY <1>0, <4>4, <5>1, PartsFit
        <5> QED  BY <4>5, <5>2
      <4>7. total \in Nat
        <5>1. IsFiniteSet(S) /\ \A p \in S : powers[p] \in Nat
          BY <4>4, FS_Subset DEF DeckAssumption
        <5> QED  BY <4>4, <5>1, SumNat
      <4>8. n \in Nat
        BY <2>4, <4>4, <4>5, <4>7, PartsType
      <4> QED  BY <4>6, <4>8
    <3> QED  BY <3>1, <3>2
  <2>7. Spares(a, n)
    BY <1>2, <2>4, <2>6, SparesLess
  <2> QED  BY <1>2, <2>1, <2>6, <2>7, SparesKept
<1>9. ASSUME NEW limit \in Limits, ProcessShares(r, limit)
      PROVE  Spares(a, n)'
  <2>1. status[r] = "Shares" /\ Open(r)
    BY <1>9 DEF ProcessShares, Open
  <2>2. inProgress = r /\ CursorSafe(r)
    BY <1>1, <2>1 DEF PassInv, RoundInv, SinglePot
  <2>3. PICK page, c : page = ReadDecksPage(cursor[r], limit) /\ c = cursor[r]
    OBVIOUS
  <2>4. Splits(Ahead(c), Ahead(c + Len(page)), Participants(page))
    BY <2>2, <2>3, BatchPage
  <2>5. /\ snapshot' = snapshot /\ status' = status /\ k = c + Len(page)
        /\ claimable' = CreditedClaims(snapshot[r], page)
        /\ UNCHANGED <<pot, fees, totalClaimable, balance>>
    BY <1>2, <1>3, <1>9, <2>3 DEF ProcessShares, TypeOK
  <2>6. PICK snap : snap = snapshot[r]
    OBVIOUS
  <2>7. snap \in Snapshots /\ snap.amount[a] \in Nat /\ snap.power \in Nat
    <3>0. snapshot \in [Rounds -> Snapshots]
      BY <1>2 DEF TypeOK, Snapshots, Amounts
    <3>1. snap \in Snapshots
      BY <2>6, <3>0
    <3>2. snap.amount \in Amounts /\ snap.power \in Nat
      BY <3>1 DEF Snapshots
    <3> QED  BY <3>1, <3>2 DEF Amounts
  <2>8. PICK powers, S, T, U, parts :
          /\ powers = effective /\ S = Ahead(c) /\ T = Ahead(k) /\ U = Participants(page)
          /\ parts = PartsOf(snap.amount[a], powers, snap.power)
    OBVIOUS
  <2>9. Splits(S, T, U) /\ S \in SUBSET Players /\ powers \in [Players -> Nat]
    BY <1>6, <2>4, <2>5, <2>8 DEF Ahead, Holders
  <2>10. T \in SUBSET Players /\ U \in SUBSET Players
    BY <2>9 DEF Splits
  <2>11. /\ SumFunctionOnSet(parts, T) \in Nat /\ SumFunctionOnSet(parts, U) \in Nat
         /\ IsFiniteSet(S) /\ \A p \in S : parts[p] \in Int
    <3>1. \A V \in SUBSET Players :
             /\ IsFiniteSet(V)
             /\ \A p \in V : PartsOf(snap.amount[a], powers, snap.power)[p] \in Nat
             /\ SumFunctionOnSet(PartsOf(snap.amount[a], powers, snap.power), V) \in Nat
      BY <1>0, <2>7, <2>9, PartsType
    <3>2. \A V \in SUBSET Players :
             /\ IsFiniteSet(V)
             /\ \A p \in V : parts[p] \in Nat
             /\ SumFunctionOnSet(parts, V) \in Nat
      BY <2>8, <3>1
    <3> QED  BY <2>9, <2>10, <3>2
  <2>12. SumFunctionOnSet(parts, S)
           = SumFunctionOnSet(parts, T) + SumFunctionOnSet(parts, U)
    BY <2>9, <2>11, SumSplits
  <2>13. n = SumFunctionOnSet(parts, T)
    BY <1>5, <2>1, <2>5, <2>6, <2>8
  <2>14. Pending(r, a) = SumFunctionOnSet(parts, S)
    BY <2>1, <2>3, <2>6, <2>8 DEF Pending
  <2>15. Spares(a, n + SumFunctionOnSet(parts, U))
    <3>1. Spares(a, Pending(r, a))
      BY <1>1, <1>6, <2>2 DEF SolventInv, Needed
    <3> QED  BY <2>12, <2>13, <2>14, <3>1
  <2>16. PromisedTo(a)' = PromisedTo(a) + SumFunctionOnSet(parts, U)
    <3>1. parts = PartsOf(snap.amount[a], effective, snap.power)
      BY <2>8
    <3>2. Participants(page) \subseteq Players /\ claimable' = CreditedClaims(snap, page)
      BY <2>5, <2>6, <2>8, <2>10
    <3>3. PromisedTo(a)' = PromisedTo(a) + SumFunctionOnSet(parts, Participants(page))
      BY <1>0, <1>2, <2>7, <3>1, <3>2, PromisedCredited
    <3> QED  BY <2>8, <3>3
  <2>17. PICK m \in Nat : m = SumFunctionOnSet(parts, U)
    BY <2>11
  <2> QED  BY <1>2, <2>5, <2>11, <2>13, <2>15, <2>16, <2>17, SparesCredited
<1>10. CASE Open(r) /\ UNCHANGED roundVars /\ (OtherStep \/ UNCHANGED vars)
  <2>1. inProgress = r /\ snapshot' = snapshot /\ status' = status /\ cursor' = cursor
    BY <1>10 DEF RoundInv, SinglePot, roundVars
  <2>2. n = Pending(r, a)
    BY <1>3, <1>5, <2>1 DEF Pending
  <2>3. n \in Nat /\ Spares(a, n)
    BY <1>1, <1>2, <1>6, <2>1, <2>2, PendingType DEF SolventInv, Needed
  <2> QED  BY <1>2, <1>10, <2>3, MoneyOfOthers, SparesKept
<1> QED  BY <1>1, <1>7, <1>8, <1>9, <1>10 DEF QuietStep

LEMMA SolventInvariant ==
    ASSUME TotalsFit
    PROVE  Spec => []SolventInv
<1> DEFINE Inv == RoundInv /\ IndexInv /\ EffectiveInv /\ PassInv /\ CountInv
<1>1. Init => SolventInv
  <2> SUFFICES ASSUME Init, NEW a \in Assets PROVE Spares(a, Needed(a))
    BY DEF SolventInv
  <2>1. PromisedTo(a) = 0
    <3>1. PICK f : f = [p \in Players |-> claimable[p][a]]
      OBVIOUS
    <3>2. \A p \in Players : f[p] = 0
      BY <3>1 DEF Init
    <3> QED  BY <3>1, <3>2, DeckAssumption, SumZero DEF PromisedTo, DeckAssumption
  <2>2. Needed(a) = 0
    BY DEF Init, Needed
  <2>3. a \in Core \/ a \in Tokens
    BY DEF Assets, Tokens
  <2> QED  BY <2>1, <2>2, <2>3 DEF Init, Spares
<1>2. Inv /\ RoundInv' /\ SolventInv /\ [Next]_vars => SolventInv'
  <2> SUFFICES ASSUME Inv, RoundInv', SolventInv, [Next]_vars, undisturbed',
                      NEW a \in Assets
               PROVE  Spares(a, Needed(a))'
    BY DEF SolventInv
  <2>1. CASE inProgress' = NoRound
    <3>1. Spares(a, 0)'
      BY <2>1, SolventIdle, DeckAssumption, PotAssumption
    <3>2. Needed(a)' = 0
      BY <2>1 DEF Needed
    <3> QED  BY <3>1, <3>2 DEF Spares
  <2>2. CASE inProgress' # NoRound
    <3>1. PICK r \in Rounds : r = inProgress'
      BY <2>2 DEF RoundInv, TypeOK
    <3>2. Open(r)'
      BY <3>1 DEF RoundInv, SinglePot
    <3>3. PICK n : n = Pending(r, a)'
      OBVIOUS
    <3>4. Spares(a, n)'
      BY <3>2, <3>3, SolventOpen, TotalsFit, DeckAssumption, PotAssumption
    <3>5. Needed(a)' = n
      BY <2>2, <3>1, <3>3 DEF Needed, Pending
    <3> QED  BY <3>4, <3>5 DEF Spares
  <2> QED  BY <2>1, <2>2
<1> QED
  BY <1>1, <1>2, RoundInvariant, IndexInvariant, EffectiveInvariant, PassInvariant,
     CountInvariant, TotalsFit, PTL DEF Spec

(* No claim of an undisturbed history can fail for lack of funds: the      *)
(* parts of all players, rounded down twice, fit into the amounts of the   *)
(* snapshot, and nothing else is paid from what was moved to the vault.    *)
THEOREM VaultIsSolvent ==
    ASSUME TotalsFit
    PROVE  Spec => []Solvent
<1>1. RoundInv /\ SolventInv => Solvent
  <2> SUFFICES ASSUME RoundInv, SolventInv, undisturbed PROVE Solvent
    BY DEF Solvent
  <2>1. ASSUME NEW a \in Assets PROVE Spares(a, 0)
    <3>1. PICK n : n = Needed(a)
      OBVIOUS
    <3>2. n \in Nat
      BY <3>1, PendingType, DeckAssumption, PotAssumption DEF Needed, RoundInv, TypeOK
    <3>3. TypeOK /\ Spares(a, n)
      BY <3>1 DEF SolventInv, RoundInv
    <3> QED  BY <3>2, <3>3, SparesLess, DeckAssumption, PotAssumption
  <2>2. ASSUME NEW a \in Core PROVE PromisedTo(a) <= totalClaimable[a]
    <3>1. a \in Assets /\ PromisedTo(a) \in Nat
      BY PromisedType, DeckAssumption DEF Assets, RoundInv
    <3> QED  BY <2>1, <3>1 DEF Spares
  <2>3. ASSUME NEW t \in Generic
        PROVE  pot[t] + fees[t] + PromisedTo(t) <= balance[t]
    <3>1. t \in Assets /\ t \notin Core
      BY PotAssumption DEF Assets, PotAssumption
    <3>2. PromisedTo(t) \in Nat /\ pot[t] \in Nat /\ fees[t] \in Nat
      BY <3>1, AssetTypes, DeckAssumption, PotAssumption DEF RoundInv
    <3> QED  BY <2>1, <3>1, <3>2 DEF Spares
  <2> QED  BY <2>2, <2>3 DEF Solvent
<1> QED  BY <1>1, RoundInvariant, SolventInvariant, TotalsFit, PTL

-----------------------------------------------------------------------------
(* No u32 product or sum of a batch overflows, as long as the largest      *)
(* effective power and the largest pot, in basis points, fit a u32.        *)

ProductsFit ==
    /\ \A e \in EffectivePowers : e * BasisPoints <= U32Max
    /\ MaxHeld * BasisPoints <= U32Max

NarrowInv ==
    \A a \in Narrow :
        /\ pot[a] <= MaxHeld
        /\ totalClaimable[a] <= U32Max
        /\ \A r \in Rounds : snapshot[r].amount[a] <= MaxHeld

(* A start: the guard of open_pot_start keeps the vault's total a u32.     *)
LEMMA NarrowStart ==
    ASSUME PotAssumption, TypeOK, NarrowInv, NEW r \in Rounds, CanStart(r), MoveToVault,
           NEW snap, snap.amount = Opened,
           snapshot' = [snapshot EXCEPT ![r] = snap]
    PROVE  NarrowInv'
<1> SUFFICES ASSUME NEW a \in Narrow
             PROVE  /\ pot'[a] <= MaxHeld
                    /\ totalClaimable'[a] <= U32Max
                    /\ \A s \in Rounds : snapshot'[s].amount[a] <= MaxHeld
  BY DEF NarrowInv
<1>1. a \in Core /\ a \in Assets /\ MaxHeld \in Nat /\ pot[a] \in Nat /\ pot[a] <= MaxHeld
  BY DEF PotAssumption, Assets, NarrowInv, TypeOK
<1>2. Opened[a] = pot[a]
  BY <1>1 DEF Opened
<1>3. pot'[a] = pot[a] - Opened[a] /\ totalClaimable'[a] = totalClaimable[a] + pot[a]
  BY <1>1 DEF MoveToVault
<1>4. totalClaimable[a] + pot[a] <= U32Max
  BY <1>1 DEF CanStart, Fits
<1>5. ASSUME NEW s \in Rounds PROVE snapshot'[s].amount[a] <= MaxHeld
  <2>1. CASE s = r
    <3>1. snapshot'[s] = snap
      BY <2>1 DEF TypeOK
    <3> QED  BY <1>1, <1>2, <3>1
  <2>2. CASE s # r
    <3>1. snapshot'[s] = snapshot[s]
      BY <2>2 DEF TypeOK
    <3> QED  BY <3>1 DEF NarrowInv
  <2> QED  BY <2>1, <2>2
<1> QED  BY <1>1, <1>2, <1>3, <1>4, <1>5

LEMMA NarrowRoundStep ==
    ASSUME PotAssumption, TypeOK, NarrowInv, NEW r \in Rounds, RoundStep(r)
    PROVE  NarrowInv'
<1>1. ASSUME UNCHANGED <<pot, totalClaimable>>,
             \A s \in Rounds : snapshot'[s].amount = snapshot[s].amount
      PROVE  NarrowInv'
  BY <1>1 DEF NarrowInv
<1>2. CASE OpenPotStart(r)
  <2>1. PICK snap : snap = [amount |-> Opened, participants |-> 0, power |-> 0]
    OBVIOUS
  <2> QED  BY <1>2, <2>1, NarrowStart DEF OpenPotStart
<1>3. CASE OpenPot(r)
  <2>1. \E n, e : snapshot' = [snapshot EXCEPT
            ![r] = [amount |-> Opened, participants |-> n, power |-> e]]
    BY <1>3 DEF OpenPot
  <2>2. PICK n, e : snapshot' = [snapshot EXCEPT
            ![r] = [amount |-> Opened, participants |-> n, power |-> e]]
    BY <2>1
  <2>3. PICK snap : snap = [amount |-> Opened, participants |-> n, power |-> e]
    OBVIOUS
  <2>4. CanStart(r) /\ MoveToVault
    BY <1>3 DEF OpenPot
  <2> QED  BY <2>2, <2>3, <2>4, NarrowStart
<1>4. ASSUME NEW limit \in Limits, ProcessTotals(r, limit)
      PROVE  NarrowInv'
  <2>1. UNCHANGED <<pot, totalClaimable>>
    BY <1>4 DEF ProcessTotals, moneyVars
  <2>2. \A s \in Rounds : snapshot'[s].amount = snapshot[s].amount
    <3>1. PICK page : page = ReadDecksPage(cursor[r], limit)
      OBVIOUS
    <3>2. \/ snapshot' = snapshot
          \/ snapshot' = [snapshot EXCEPT
                ![r].participants = SaturatingAdd(@, Cardinality(Participants(page))),
                ![r].power = SaturatingAdd(@, PowerOf(page))]
      BY <1>4, <3>1 DEF ProcessTotals
    <3>3. snapshot'[r].amount = snapshot[r].amount
      BY <3>2 DEF TypeOK
    <3>4. \A s \in Rounds \ {r} : snapshot'[s] = snapshot[s]
      BY <3>2 DEF TypeOK
    <3> QED  BY <3>3, <3>4
  <2> QED  BY <1>1, <2>1, <2>2
<1>5. ASSUME NEW limit \in Limits, ProcessShares(r, limit)
      PROVE  NarrowInv'
  BY <1>1, <1>5 DEF ProcessShares
<1>6. CASE OpenPotFinalize(r) \/ ForceResetPot(r)
  BY <1>1, <1>6 DEF OpenPotFinalize, ForceResetPot, moneyVars
<1> QED  BY <1>2, <1>3, <1>4, <1>5, <1>6 DEF RoundStep

LEMMA NarrowOtherStep ==
    ASSUME PotAssumption, TypeOK, NarrowInv, OtherStep \/ UNCHANGED vars
    PROVE  NarrowInv'
<1>1. snapshot' = snapshot
  BY OtherStepKeepsRounds DEF roundVars, vars
<1>2. \A a \in Narrow : /\ a \in Core /\ a \in Assets
                        /\ pot[a] \in Nat /\ fees[a] \in Nat /\ totalClaimable[a] \in Int
  BY DEF PotAssumption, Assets, TypeOK
<1>3. CASE AccumulatePot \/ AccumulatePotToken
  <2>1. PICK amount \in Amounts : Accumulate(amount)
    BY <1>3, ContributionAmount
  <2>2. ASSUME NEW a \in Narrow PROVE pot'[a] <= MaxHeld
    <3>1. amount[a] \in Nat /\ FeeOf(amount[a]) \in 0..amount[a]
      BY <1>2, FeeOfBounds DEF Amounts
    <3>2. /\ pot'[a] = pot[a] + amount[a] - FeeOf(amount[a])
          /\ pot[a] + fees[a] + amount[a] <= MaxHeld /\ MaxHeld \in Nat
      BY <1>2, <2>1 DEF Accumulate, PotAssumption
    <3>3. PICK fee \in 0..amount[a] : fee = FeeOf(amount[a])
      BY <3>1
    <3> QED  BY <1>2, <3>1, <3>2, <3>3
  <2>3. totalClaimable' = totalClaimable
    BY <2>1 DEF Accumulate
  <2> QED  BY <1>1, <2>2, <2>3 DEF NarrowInv
<1>4. ASSUME NEW q \in Players, ClaimHawAiPotShare(q)
      PROVE  NarrowInv'
  <2>1. pot' = pot /\ totalClaimable' = [a \in Core |-> totalClaimable[a] - Claimed(q)[a]]
    BY <1>4 DEF ClaimHawAiPotShare
  <2>2. ASSUME NEW a \in Narrow PROVE totalClaimable'[a] <= U32Max
    <3>1. Claimed(q)[a] \in Nat
      BY <1>2 DEF Claimed, TypeOK
    <3>2. totalClaimable'[a] = totalClaimable[a] - Claimed(q)[a]
      BY <1>2, <2>1
    <3>3. totalClaimable[a] <= U32Max /\ U32Max \in Nat
      BY DEF NarrowInv, PotAssumption
    <3> QED  BY <1>2, <3>1, <3>2, <3>3
  <2> QED  BY <1>1, <2>1, <2>2 DEF NarrowInv
<1>5. CASE pot' = pot /\ totalClaimable' = totalClaimable
  BY <1>1, <1>5 DEF NarrowInv
<1> QED
  BY <1>3, <1>4, <1>5 DEF OtherStep, RegisterToken, UnregisterToken,
     UpdateDogstarFeePercentage, SetFeePercentages, ClaimDogstarFees, DeckStep,
     IndexStep, vars, moneyVars

LEMMA NarrowInvariant == Spec => []NarrowInv
<1>1. Init => NarrowInv
  <2>1. \A a \in Narrow : a \in Core /\ a \in Assets
    BY PotAssumption DEF PotAssumption, Assets
  <2>2. 0 <= MaxHeld /\ 0 <= U32Max
    BY PotAssumption DEF PotAssumption
  <2> QED  BY <2>1, <2>2 DEF Init, NarrowInv
<1>2. RoundInv /\ NarrowInv /\ [Next]_vars => NarrowInv'
  BY NarrowRoundStep, NarrowOtherStep, PotAssumption DEF RoundInv, Next, OtherStep
<1> QED  BY <1>1, <1>2, RoundInvariant, PTL DEF Spec

(* One deck of several has at most all basis points.                       *)
LEMMA ShareAtMostAll ==
    ASSUME PotAssumption, NEW total \in Nat, NEW e \in 0..total
    PROVE  SharePercentage(e, total) \in 0..BasisPoints
<1>1. BasisPoints \in Nat \ {0}
  BY DEF PotAssumption
<1>2. CASE total > 0
  <2>1. PICK q : q = (e * BasisPoints) \div total
    OBVIOUS
  <2>2. total \in Nat \ {0} /\ e * BasisPoints \in Nat
    BY <1>1, <1>2
  <2>3. q \in Nat /\ total * q <= e * BasisPoints
    BY <2>1, <2>2, QuotientBound
  <2>4. e * BasisPoints <= total * BasisPoints
    BY <1>1
  <2>5. q <= BasisPoints
    <3>1. SUFFICES ASSUME q >= BasisPoints + 1 PROVE FALSE
      BY <1>1, <2>3
    <3>2. total * q >= total * (BasisPoints + 1)
      BY <1>1, <2>3, <3>1
    <3> QED  BY <1>1, <1>2, <2>3, <2>4, <3>2
  <2> QED  BY <1>1, <1>2, <2>1, <2>3, <2>5 DEF SharePercentage
<1>3. CASE ~(total > 0)
  BY <1>1, <1>3 DEF SharePercentage
<1> QED  BY <1>2, <1>3

(* What a player ahead of the cursor has and is about to get is covered by *)
(* the vault's total, so it is a u32 as well.                              *)
LEMMA AheadIsCovered ==
    ASSUME DeckAssumption, PotAssumption, TypeOK, NEW r \in Rounds, NEW a \in Core,
           status[r] = "Shares", NEW n, n = Pending(r, a), Spares(a, n),
           NEW p \in Ahead(cursor[r]), NEW part,
           part = Payout(snapshot[r].amount[a], ShareIn(snapshot[r], p))
    PROVE  part \in Nat /\ claimable[p][a] + part <= totalClaimable[a]
<1>0. DeckAssumption /\ PotAssumption
  OBVIOUS
<1>1. a \in Assets /\ p \in Players
  BY DEF Assets, Ahead, Holders
<1>2. PICK amount, powers, total, S :
        /\ amount = snapshot[r].amount[a] /\ powers = effective
        /\ total = snapshot[r].power /\ S = Ahead(cursor[r])
  OBVIOUS
<1>3. amount \in Nat /\ total \in Nat
  BY <1>1, <1>2 DEF TypeOK
<1>4. powers \in [Players -> Nat] /\ S \in SUBSET Players /\ p \in S
  BY <1>2 DEF TypeOK, DeckTypeOK, Ahead, Holders
<1>5. PICK parts : parts = PartsOf(amount, powers, total)
  OBVIOUS
<1>6. IsFiniteSet(S) /\ \A q \in S : parts[q] \in Nat
  BY <1>0, <1>3, <1>4, <1>5, PartsType
<1>7. n = SumFunctionOnSet(parts, S) /\ n \in Nat
  <2>1. n = SumFunctionOnSet(parts, S)
    BY <1>2, <1>5 DEF Pending
  <2> QED  BY <1>6, <2>1, SumNat
<1>8. parts[p] = part
  BY <1>1, <1>2, <1>5 DEF PartsOf, ShareIn
<1>9. part \in Nat /\ part <= n
  BY <1>4, <1>6, <1>7, <1>8, SumAtLeast
<1>10. claimable[p][a] \in Nat /\ claimable[p][a] <= PromisedTo(a)
  <2>1. PICK f : f = [q \in Players |-> claimable[q][a]]
    OBVIOUS
  <2>2. \A q \in Players : f[q] \in Nat
    BY <1>1, <2>1 DEF TypeOK
  <2>3. f[p] <= SumFunctionOnSet(f, Players)
    BY <1>0, <1>1, <2>2, SumAtLeast DEF DeckAssumption
  <2> QED  BY <1>1, <2>1, <2>2, <2>3 DEF PromisedTo
<1>11. /\ PromisedTo(a) \in Nat /\ totalClaimable[a] \in Int
       /\ PromisedTo(a) + n <= totalClaimable[a]
  BY <1>0, <1>1, AssetTypes DEF Spares
<1> QED  BY <1>7, <1>9, <1>10, <1>11

(* One batch of the shares pass.                                           *)
LEMMA SharesGoOn ==
    ASSUME DeckAssumption, PotAssumption, TotalsFit, ProductsFit, RoundInv, IndexInv,
           EffectiveInv, NarrowInv, SolventInv, undisturbed,
           NEW r \in Rounds, CursorSafe(r), CountSafe(r), status[r] = "Shares",
           NEW limit \in Limits, NEW page, page = ReadDecksPage(cursor[r], limit),
           NEW snap, snap = snapshot[r]
    PROVE  SharesFit(snap, page)
<1>0. DeckAssumption /\ PotAssumption /\ TypeOK /\ DeckTypeOK /\ Len(DeckSource) \in Nat
  BY SourceFacts DEF RoundInv, TypeOK
<1>1. inProgress = r /\ r # NoRound
  BY DEF RoundInv, SinglePot, Open, Rounds, NoRound
<1>2. PICK c : c = cursor[r]
  OBVIOUS
<1>3. Splits(Ahead(c), Ahead(c + Len(page)), Participants(page)) /\ c \in Nat
  BY <1>2, BatchPage
<1>4. SUFFICES ASSUME NEW p \in Participants(page)
               PROVE  /\ effective[p] * BasisPoints <= U32Max
                      /\ \A a \in Narrow :
                          LET part == Payout(snap.amount[a], ShareIn(snap, p))
                          IN  /\ snap.amount[a] * ShareIn(snap, p) <= U32Max
                              /\ claimable[p][a] + part <= U32Max
  BY DEF SharesFit, Fits
<1>5. p \in Ahead(c) /\ p \in Players
  BY <1>3 DEF Splits, Ahead, Holders
<1>6. BasisPoints \in Nat \ {0} /\ U32Max \in Nat /\ MaxHeld \in Nat
      /\ effective[p] \in Nat
  BY <1>0, <1>5 DEF PotAssumption, DeckTypeOK
<1>7. effective[p] * BasisPoints <= U32Max
  BY <1>5, <1>6 DEF ProductsFit, EffectiveInv
<1>8. snap.power \in Nat /\ effective[p] <= snap.power
  <2>1. PICK f, S : f = effective /\ S = Participants(DeckSource)
    OBVIOUS
  <2>2. snap.power = SumFunctionOnSet(f, S)
    BY <2>1 DEF CountSafe, CountsDecksOnce, PowerOf
  <2>3. p \in S
    <3>1. \E i \in (c + 1)..Len(DeckSource) : DeckSource[i] = p /\ Complete(p)
      BY <1>5 DEF Ahead, Holders
    <3>2. p \in Members(DeckSource) /\ Complete(p)
      BY <1>0, <1>3, <3>1 DEF Members
    <3> QED  BY <2>1, <3>2 DEF Participants
  <2>4. S \in SUBSET Players
    BY <1>0, <2>1, AllPassed DEF Passed, Holders
  <2>5. IsFiniteSet(S) /\ \A q \in S : f[q] \in Nat
    BY <1>0, <2>1, <2>4, FS_Subset DEF DeckAssumption, DeckTypeOK
  <2>6. SumFunctionOnSet(f, S) \in Nat /\ f[p] <= SumFunctionOnSet(f, S)
    BY <2>3, <2>5, SumNat, SumAtLeast
  <2> QED  BY <2>1, <2>2, <2>6
<1>9. ShareIn(snap, p) \in 0..BasisPoints
  <2>1. effective[p] \in 0..snap.power
    BY <1>6, <1>8
  <2> QED  BY <1>0, <1>8, <2>1, ShareAtMostAll DEF ShareIn
<1>10. ASSUME NEW a \in Narrow
       PROVE  snap.amount[a] * ShareIn(snap, p) <= U32Max
  <2>1. a \in Assets
    BY <1>0 DEF PotAssumption, Assets
  <2>2. PICK n, k : n = snap.amount[a] /\ k = ShareIn(snap, p)
    OBVIOUS
  <2>3. n \in Nat /\ n <= MaxHeld /\ k \in Nat /\ k <= BasisPoints
    BY <1>0, <1>6, <1>9, <2>1, <2>2 DEF NarrowInv, TypeOK
  <2>4. n * k <= MaxHeld * k /\ MaxHeld * k <= MaxHeld * BasisPoints
    BY <1>6, <2>3
  <2>5. n * k \in Int /\ MaxHeld * k \in Int /\ MaxHeld * BasisPoints \in Int
    BY <1>6, <2>3
  <2>6. n * k <= U32Max
    BY <1>6, <2>4, <2>5 DEF ProductsFit
  <2> QED  BY <2>2, <2>6
<1>11. ASSUME NEW a \in Narrow, NEW part,
              part = Payout(snap.amount[a], ShareIn(snap, p))
       PROVE  claimable[p][a] + part <= U32Max
  <2>1. a \in Core /\ a \in Assets
    BY <1>0 DEF PotAssumption, Assets
  <2>2. PICK n : n = Pending(r, a)
    OBVIOUS
  <2>3. Spares(a, n)
    BY <1>1, <2>1, <2>2 DEF SolventInv, Needed
  <2>4. part \in Nat /\ claimable[p][a] + part <= totalClaimable[a]
    BY <1>0, <1>2, <1>5, <1>11, <2>1, <2>2, <2>3, AheadIsCovered
  <2>5. totalClaimable[a] <= U32Max /\ totalClaimable[a] \in Int
    BY <1>0, <2>1 DEF NarrowInv, TypeOK
  <2>6. claimable[p][a] \in Nat
    BY <1>0, <1>5, <2>1 DEF TypeOK
  <2> QED  BY <1>6, <2>4, <2>5, <2>6
<1> QED  BY <1>7, <1>10, <1>11

(* The next batch of an undisturbed round is always accepted and reads a   *)
(* deck, whatever players and the admin do between the batches: neither    *)
(* the index nor the u32 arithmetic can leave a round open for ever.       *)
THEOREM KeeperCanGoOn ==
    ASSUME TotalsFit, ProductsFit
    PROVE  Spec => []KeeperNeverStuck
<1> DEFINE Inv == /\ RoundInv /\ IndexInv /\ EffectiveInv /\ PassInv /\ CountInv
                  /\ CountsAll /\ NarrowInv /\ SolventInv
<1>1. Inv => KeeperNeverStuck
  <2> SUFFICES ASSUME Inv, undisturbed, ~PagesEmptied, NEW r \in Rounds,
                      NEW limit \in Limits, Open(r), cursor[r] < totalDecks[r]
               PROVE  BatchAdvances(r, limit)
    BY DEF KeeperNeverStuck
  <2>1. PICK page : page = ReadDecksPage(cursor[r], limit)
    OBVIOUS
  <2>2. /\ CursorSafe(r) /\ CountSafe(r) /\ totalDecks[r] = Len(DeckSource)
        /\ TypeOK /\ DeckTypeOK
    BY DEF PassInv, CountInv, CountsAll, FullCount, RoundInv, TypeOK
  <2>3. PICK c, total : c = cursor[r] /\ total = totalDecks[r]
    OBVIOUS
  <2>4. Len(page) > 0
    BY <2>1, <2>2, <2>3, BatchReads, PotAssumption
  <2>5. PowerOf(page) \in 0..U32Max
    <3>1. c \in Nat /\ limit \in Nat
      BY <2>2, <2>3, PotAssumption DEF TypeOK, PotAssumption
    <3>2. Participants(page) \in SUBSET Players
      BY <2>1, <2>2, <2>3, <3>1, ReadDecksPageType DEF Participants
    <3> QED
      BY <2>2, <3>2, SubsetFits, DeckAssumption, PotAssumption, TotalsFit DEF PowerOf
  <2>6. ASSUME status[r] = "Shares" PROVE SharesFit(snapshot[r], page)
    BY <2>1, <2>2, <2>6, SharesGoOn, DeckAssumption, PotAssumption, TotalsFit, ProductsFit
  <2> QED  BY <2>1, <2>4, <2>5, <2>6 DEF BatchAdvances, Open
<1> HIDE DEF Inv
<1>2. Spec => []Inv
  <2>1. /\ RoundInv /\ IndexInv /\ EffectiveInv /\ PassInv /\ CountInv
        /\ CountsAll /\ NarrowInv /\ SolventInv
        => Inv
    BY DEF Inv
  <2> QED
    BY <2>1, RoundInvariant, IndexInvariant, EffectiveInvariant, PassInvariant,
       CountInvariant, CountsAllInvariant, NarrowInvariant, SolventInvariant,
       TotalsFit, PTL
<1> QED  BY <1>1, <1>2, PTL

=============================================================================
