--------------------------- MODULE PotRoundProofs ---------------------------
(***************************************************************************)
(* Theorems about PotRound for all numbers of players, assets, rounds and  *)
(* batch sizes.                                                            *)
(*                                                                         *)
(* TypeOK is inductive on its own.  Given it, SinglePot and RoundOrder are *)
(* inductive together; given these, every step of the pot is a step of     *)
(* PotLedger or leaves it unchanged.  The second half follows the cursor   *)
(* of a round through the index of the decks: whom the passes have reached, *)
(* whom they have credited, and that every call takes them further.        *)
(***************************************************************************)
EXTENDS PotRound, SequenceTheorems, FiniteSetTheorems, TLAPS

-----------------------------------------------------------------------------
(* The two deck indexes: what reading them returns, and that every write   *)
(* keeps the types and keeps the paged index free of duplicates.           *)

(* Entries of the legacy list name players.                                *)
LEMMA LegacyOwner ==
    ASSUME DeckTypeOK, NEW i \in 1..Len(legacy)
    PROVE  legacy[i].owner \in Players
<1>1. legacy[i] \in DeckRecords
  BY ElementOfSeq DEF DeckTypeOK
<1> QED  BY <1>1 DEF DeckRecords

(* Reading the index in either mode yields owners: read_decks_page.        *)
LEMMA DeckSourceType ==
    ASSUME DeckTypeOK
    PROVE  DeckSource \in Seq(Players)
<1>1. CASE ~pagesOnly /\ ~hasCount
  <2>1. Len(legacy) \in Nat
    BY LenProperties DEF DeckTypeOK
  <2>2. \A i \in 1..Len(legacy) : legacy[i].owner \in Players
    BY LegacyOwner
  <2>3. [i \in 1..Len(legacy) |-> legacy[i].owner] \in Seq(Players)
    BY <2>1, <2>2, SeqDef
  <2> QED  BY <1>1, <2>3 DEF DeckSource
<1>2. CASE pagesOnly \/ hasCount
  BY <1>2 DEF DeckSource, DeckTypeOK
<1> QED  BY <1>1, <1>2

LEMMA ReadDecksCountType ==
    ASSUME DeckTypeOK
    PROVE  ReadDecksCount \in Nat
BY LenProperties DEF DeckTypeOK, ReadDecksCount

(* A page holds owners, and at most as many as there are from the cursor   *)
(* on.                                                                     *)
LEMMA ReadDecksPageType ==
    ASSUME DeckTypeOK, NEW from \in Nat, NEW limit \in Nat
    PROVE  /\ ReadDecksPage(from, limit) \in Seq(Players)
           /\ Len(ReadDecksPage(from, limit)) \in Nat
           /\ Members(ReadDecksPage(from, limit)) \subseteq Players
<1> DEFINE page == ReadDecksPage(from, limit)
           end == Smaller(from + limit, Len(DeckSource))
<1>1. DeckSource \in Seq(Players) /\ Len(DeckSource) \in Nat
  BY DeckSourceType, LenProperties
<1>2. page \in Seq(Players)
  <2>1. CASE from >= Len(DeckSource)
    BY <2>1, EmptySeq DEF ReadDecksPage
  <2>2. CASE from < Len(DeckSource)
    <3>1. end \in Nat /\ end <= Len(DeckSource)
      BY <1>1 DEF Smaller
    <3>2. \A i \in (from + 1)..end : DeckSource[i] \in Players
      BY <1>1, <3>1, ElementOfSeq
    <3>3. SubSeq(DeckSource, from + 1, end) \in Seq(Players)
      BY <3>1, <3>2, SubSeqProperties
    <3> QED  BY <1>1, <2>2, <3>3 DEF ReadDecksPage
  <2> QED  BY <1>1, <2>1, <2>2
<1>3. \A i \in 1..Len(page) : page[i] \in Players
  BY <1>2, ElementOfSeq
<1> QED  BY <1>2, <1>3, LenProperties DEF Members

-----------------------------------------------------------------------------
(* The legacy list: write_deck replaces the owner's record or appends one. *)
LEMMA WriteLegacyType ==
    ASSUME DeckTypeOK, NEW p \in Players, NEW n \in 0..DeckSize, WriteLegacy(p, n)
    PROVE  legacy' \in Seq(DeckRecords)
<1> DEFINE record == [owner |-> p, cards |-> n]
           known == {i \in 1..Len(legacy) : legacy[i].owner = p}
<1>1. record \in DeckRecords /\ legacy \in Seq(DeckRecords)
  BY DEF DeckTypeOK, DeckRecords
<1>2. CASE pagesOnly
  BY <1>1, <1>2 DEF WriteLegacy
<1>3. CASE ~pagesOnly /\ known = {}
  <2>1. Append(legacy, record) \in Seq(DeckRecords)
    BY <1>1, AppendProperties
  <2> QED  BY <1>3, <2>1 DEF WriteLegacy
<1>4. CASE ~pagesOnly /\ known # {}
  <2> DEFINE at == CHOOSE i \in known : TRUE
  <2>1. at \in known
    BY <1>4
  <2>2. [legacy EXCEPT ![at] = record] \in Seq(DeckRecords)
    BY <1>1, <2>1, ExceptSeq
  <2> QED  BY <1>4, <2>2 DEF WriteLegacy
<1> QED  BY <1>2, <1>3, <1>4

(* Adding an owner who is not indexed yet.                                 *)
LEMMA AddDeckPageIndexKeeps ==
    ASSUME DeckTypeOK, NEW p \in Players, AddDeckPageIndex(p)
    PROVE  /\ paged' \in Seq(Players)
           /\ hasCount' \in BOOLEAN
           /\ NoDuplicates(paged) /\ p \notin Members(paged)
                => NoDuplicates(paged')
<1>1. /\ paged' \in Seq(Players)
      /\ Len(paged) \in Nat
      /\ Len(paged') = Len(paged) + 1
      /\ \A i \in 1..Len(paged) : paged'[i] = paged[i]
      /\ paged'[Len(paged) + 1] = p
  BY AppendProperties, LenProperties DEF DeckTypeOK, AddDeckPageIndex
<1>2. ASSUME NoDuplicates(paged), p \notin Members(paged)
      PROVE  NoDuplicates(paged')
  <2>1. SUFFICES ASSUME NEW i \in 1..(Len(paged) + 1),
                        NEW j \in 1..(Len(paged) + 1),
                        paged'[i] = paged'[j]
                 PROVE  i = j
    BY <1>1 DEF NoDuplicates
  <2>2. \A k \in 1..Len(paged) : paged[k] # p
    BY <1>2 DEF Members
  <2>3. CASE i <= Len(paged) /\ j <= Len(paged)
    BY <1>1, <1>2, <2>1, <2>3 DEF NoDuplicates
  <2>4. CASE i = Len(paged) + 1 \/ j = Len(paged) + 1
    BY <1>1, <2>1, <2>2, <2>4
  <2> QED  BY <1>1, <2>3, <2>4
<1> QED  BY <1>1, <1>2 DEF AddDeckPageIndex

(* Removing an indexed owner by putting the last entry in its place.       *)
LEMMA RemoveDeckPageIndexKeeps ==
    ASSUME DeckTypeOK, NEW p \in Members(paged), RemoveDeckPageIndex(p)
    PROVE  /\ paged' \in Seq(Players)
           /\ hasCount' \in BOOLEAN
           /\ NoDuplicates(paged) => NoDuplicates(paged')
<1> DEFINE last == Len(paged)
           at == PositionOf(paged, p)
           moved == [i \in 1..(last - 1) |-> IF i = at THEN paged[last] ELSE paged[i]]
<1>1. last \in Nat /\ \A i \in 1..last : paged[i] \in Players
  BY LenProperties, ElementOfSeq DEF DeckTypeOK
<1>2. at \in 1..last /\ paged[at] = p
  BY DEF PositionOf, Members
<1>3. last - 1 \in Nat /\ last \in 1..last
  BY <1>1, <1>2
<1>4. paged' = moved
  BY DEF RemoveDeckPageIndex
<1>5. paged' \in Seq(Players) /\ Len(paged') = last - 1
  <2>1. \A i \in 1..(last - 1) : moved[i] \in Players
    BY <1>1, <1>3
  <2>2. moved \in [1..(last - 1) -> Players]
    BY <2>1
  <2> HIDE DEF moved
  <2>3. moved \in Seq(Players)
    BY <1>3, <2>2, SeqDef
  <2>4. Len(moved) = last - 1
    BY <1>3, <2>2, <2>3, LenProperties
  <2> QED  BY <1>4, <2>3, <2>4
<1>6. ASSUME NoDuplicates(paged)
      PROVE  NoDuplicates(paged')
  <2>1. SUFFICES ASSUME NEW i \in 1..(last - 1), NEW j \in 1..(last - 1),
                        moved[i] = moved[j]
                 PROVE  i = j
    BY <1>4, <1>5 DEF NoDuplicates
  <2> DEFINE from(k) == IF k = at THEN last ELSE k
  <2>2. from(i) \in 1..last /\ from(j) \in 1..last
    BY <1>1, <1>3
  <2>3. paged[from(i)] = paged[from(j)]
    BY <2>1, <1>3
  <2>4. from(i) = from(j)
    BY <2>2, <2>3, <1>6 DEF NoDuplicates
  <2> QED  BY <2>4, <1>1, <1>3
<1> QED  BY <1>5, <1>6 DEF RemoveDeckPageIndex, DeckTypeOK

-----------------------------------------------------------------------------
(* write_deck keeps the types and the distinctness of the index, whether   *)
(* the deck enters, stays in or leaves it.                                 *)
LEMMA WriteDeckKeeps ==
    ASSUME DeckAssumption, DeckTypeOK,
           NEW p \in Players, NEW n \in 0..DeckSize, NEW e \in Nat,
           WriteDeck(p, n, e)
    PROVE  /\ DeckTypeOK'
           /\ NoDuplicates(paged) => NoDuplicates(paged')
<1>1. /\ cards' \in [Players -> 0..DeckSize]
      /\ effective' \in [Players -> Nat]
      /\ pagesOnly' \in BOOLEAN
  BY DEF WriteDeck, WriteIndexes, DeckTypeOK
<1>2. legacy' \in Seq(DeckRecords)
  BY WriteLegacyType DEF WriteDeck, WriteIndexes
<1>3. /\ paged' \in Seq(Players)
      /\ hasCount' \in BOOLEAN
      /\ NoDuplicates(paged) => NoDuplicates(paged')
  <2>1. CASE n > 0 /\ p \notin Members(paged)
    BY <2>1, AddDeckPageIndexKeeps DEF WriteDeck, WriteIndexes
  <2>2. CASE n = 0 /\ p \in Members(paged)
    BY <2>2, RemoveDeckPageIndexKeeps DEF WriteDeck, WriteIndexes
  <2>3. CASE ~(n > 0 /\ p \notin Members(paged)) /\ ~(n = 0 /\ p \in Members(paged))
    BY <2>3 DEF WriteDeck, WriteIndexes, DeckTypeOK
  <2> QED  BY <2>1, <2>2, <2>3
<1> QED  BY <1>1, <1>2, <1>3 DEF DeckTypeOK

LEMMA PossiblePowersType ==
    ASSUME DeckAssumption
    PROVE  \A n : PossiblePowers(n) \subseteq Nat
BY DEF DeckAssumption, PossiblePowers

(* Every operation on decks and on the index.                              *)
LEMMA DeckOperationsKeep ==
    ASSUME DeckAssumption, DeckTypeOK,
           \/ \E p \in Players : \/ PlaceCard(p) \/ ReplaceCard(p)
                                 \/ RemoveCard(p) \/ RecomputeDeck(p)
           \/ \E i \in 1..Len(legacy) : MigrateDeck(i)
           \/ \E b \in ModeChanges : SetPagesOnly(b)
    PROVE  /\ DeckTypeOK'
           /\ NoDuplicates(paged) => NoDuplicates(paged')
<1> USE PossiblePowersType
<1>1. \A p \in Players : cards[p] \in 0..DeckSize /\ DeckSize \in Nat
  BY DEF DeckTypeOK, DeckAssumption
<1>2. ASSUME NEW p \in Players, PlaceCard(p)
      PROVE  /\ DeckTypeOK'
             /\ NoDuplicates(paged) => NoDuplicates(paged')
  <2>1. PICK e \in Nat : WriteDeck(p, cards[p] + 1, e)
    BY <1>2 DEF PlaceCard
  <2>2. cards[p] + 1 \in 0..DeckSize
    BY <1>1, <1>2 DEF PlaceCard
  <2> QED  BY <2>1, <2>2, WriteDeckKeeps
<1>3. ASSUME NEW p \in Players, ReplaceCard(p) \/ RecomputeDeck(p)
      PROVE  /\ DeckTypeOK'
             /\ NoDuplicates(paged) => NoDuplicates(paged')
  <2>1. PICK e \in Nat : WriteDeck(p, cards[p], e)
    BY <1>3 DEF ReplaceCard, RecomputeDeck
  <2> QED  BY <1>1, <2>1, WriteDeckKeeps
<1>4. ASSUME NEW p \in Players, RemoveCard(p)
      PROVE  /\ DeckTypeOK'
             /\ NoDuplicates(paged) => NoDuplicates(paged')
  <2>1. WriteDeck(p, cards[p] - 1, 0) /\ cards[p] - 1 \in 0..DeckSize
    BY <1>1, <1>4 DEF RemoveCard
  <2> QED  BY <2>1, WriteDeckKeeps
<1>5. ASSUME NEW i \in 1..Len(legacy), MigrateDeck(i)
      PROVE  /\ DeckTypeOK'
             /\ NoDuplicates(paged) => NoDuplicates(paged')
  <2>1. legacy[i].owner \in Players
    BY LegacyOwner
  <2> QED  BY <1>5, <2>1, AddDeckPageIndexKeeps DEF MigrateDeck, DeckTypeOK
<1>6. ASSUME NEW b \in ModeChanges, SetPagesOnly(b)
      PROVE  /\ DeckTypeOK'
             /\ NoDuplicates(paged) => NoDuplicates(paged')
  BY <1>6 DEF SetPagesOnly, DeckTypeOK, DeckAssumption
<1> QED  BY <1>2, <1>3, <1>4, <1>5, <1>6

-----------------------------------------------------------------------------
(* Arithmetic.                                                             *)

LEMMA DivType ==
    ASSUME NEW a \in Nat, NEW b \in Nat \ {0}
    PROVE  a \div b \in Nat
OBVIOUS

(* A fee never exceeds the amount it is taken from.                        *)
LEMMA FeeOfBounds ==
    ASSUME PotAssumption, TypeOK, NEW n \in Nat
    PROVE  FeeOf(n) \in 0..n
<1> DEFINE q == (n * feeRate) \div BasisPoints
<1>1. BasisPoints \in Nat \ {0} /\ feeRate \in 0..BasisPoints
  BY DEF PotAssumption, TypeOK
<1>2. q \in Nat /\ BasisPoints * q <= n * feeRate
  BY <1>1
<1>3. n * feeRate <= n * BasisPoints
  BY <1>1
<1>4. q <= n
  <2> SUFFICES ASSUME q >= n + 1 PROVE FALSE
    BY <1>2
  <2>1. BasisPoints * q >= BasisPoints * (n + 1)
    BY <1>1, <1>2
  <2> QED  BY <1>1, <1>2, <1>3, <2>1
<1> QED  BY <1>2, <1>4 DEF FeeOf

LEMMA PayoutType ==
    ASSUME PotAssumption, NEW amount \in Nat, NEW percentage \in Nat
    PROVE  Payout(amount, percentage) \in Nat
<1>1. amount * percentage \in Nat /\ BasisPoints \in Nat \ {0}
  BY DEF PotAssumption
<1> QED  BY <1>1, DivType DEF Payout

LEMMA SharePercentageType ==
    ASSUME PotAssumption, NEW e \in Nat, NEW total \in Nat
    PROVE  SharePercentage(e, total) \in Nat
<1>1. e * BasisPoints \in Nat
  BY DEF PotAssumption
<1>2. CASE total > 0
  BY <1>1, <1>2, DivType DEF SharePercentage
<1> QED  BY <1>2 DEF SharePercentage

LEMMA SaturatingAddType ==
    ASSUME PotAssumption, NEW m \in Nat, NEW n \in Nat
    PROVE  SaturatingAdd(m, n) \in Nat
BY DEF PotAssumption, SaturatingAdd, Smaller

LEMMA ParticipantsCount ==
    ASSUME DeckAssumption, NEW page, Members(page) \subseteq Players
    PROVE  Cardinality(Participants(page)) \in Nat
<1>1. Participants(page) \in SUBSET Players
  BY DEF Participants
<1> QED  BY <1>1, FS_Subset, FS_CardinalityType DEF DeckAssumption

-----------------------------------------------------------------------------
(* Types.                                                                  *)

Amounts == [Assets -> Nat]
Snapshots == [amount : Amounts, participants : Nat, power : Nat]

(* Contributions of either kind: balances stay natural numbers, since the  *)
(* fee is at most the amount.                                              *)
LEMMA AccumulateType ==
    ASSUME PotAssumption, TypeOK, NEW amount \in Amounts, Accumulate(amount)
    PROVE  /\ pot' \in Amounts
           /\ fees' \in Amounts
           /\ balance' \in [Tokens -> Nat]
<1>1. \A a \in Assets : /\ FeeOf(amount[a]) \in 0..amount[a]
                        /\ amount[a] \in Nat /\ pot[a] \in Nat /\ fees[a] \in Nat
  BY FeeOfBounds DEF Amounts, TypeOK
<1>2. \A a \in Assets : /\ pot[a] + amount[a] - FeeOf(amount[a]) \in Nat
                        /\ fees[a] + FeeOf(amount[a]) \in Nat
  BY <1>1
<1>3. \A t \in Tokens : balance[t] + amount[t] \in Nat
  BY DEF Amounts, TypeOK, Tokens, Assets, PotAssumption
<1> QED  BY <1>2, <1>3 DEF Accumulate, Amounts

(* What a start takes out of the pot is at most what is there.             *)
LEMMA MoveToVaultType ==
    ASSUME PotAssumption, TypeOK, MoveToVault
    PROVE  /\ Opened \in Amounts
           /\ pot' \in Amounts
           /\ totalClaimable' \in [Core -> Int]
<1>1. \A a \in Assets : pot[a] \in Nat /\ Opened[a] \in {0, pot[a]}
  BY DEF TypeOK, Opened
<1>2. \A a \in Core : totalClaimable[a] + pot[a] \in Int
  BY <1>1 DEF TypeOK, Assets
<1>3. \A a \in Assets : pot[a] - Opened[a] \in Nat
  BY <1>1
<1> QED  BY <1>1, <1>2, <1>3 DEF MoveToVault, Opened, Amounts

(* Crediting a page keeps shares and claimable balances natural numbers.   *)
LEMMA CreditType ==
    ASSUME PotAssumption, TypeOK, NEW snap \in Snapshots, NEW page,
           NEW r \in Rounds
    PROVE  /\ CreditedShares(snap, page, r) \in [Players -> Nat]
           /\ CreditedClaims(snap, page) \in [Players -> Amounts]
<1>1. \A p \in Players : ShareIn(snap, p) \in Nat
  BY SharePercentageType DEF ShareIn, Snapshots, TypeOK, DeckTypeOK
<1>2. \A p \in Players : share[r][p] \in Nat
  BY DEF TypeOK
<1>3. \A p \in Players, a \in Assets :
        claimable[p][a] + Payout(snap.amount[a], ShareIn(snap, p)) \in Nat
  <2>1. TAKE p \in Players, a \in Assets
  <2>2. snap.amount[a] \in Nat /\ claimable[p][a] \in Nat
    BY DEF Snapshots, Amounts, TypeOK
  <2>3. Payout(snap.amount[a], ShareIn(snap, p)) \in Nat
    BY <1>1, <2>2, PayoutType
  <2> QED  BY <2>2, <2>3
<1>4. \A p \in Players : claimable[p] \in Amounts
  BY DEF TypeOK, Amounts
<1> QED  BY <1>1, <1>2, <1>3, <1>4 DEF CreditedShares, CreditedClaims, Amounts

(* The initial state is well typed.                                        *)
LEMMA InitType ==
    ASSUME DeckAssumption, PotAssumption, Init
    PROVE  TypeOK
<1>1. DeckTypeOK
  <2>1. \A i \in 1..Len(LegacyDecks) : LegacyDecks[i].cards \in 0..DeckSize
    <3>1. TAKE i \in 1..Len(LegacyDecks)
    <3>2. LegacyDecks[i] \in DeckRecords
      BY ElementOfSeq DEF DeckAssumption
    <3> QED  BY <3>2 DEF DeckRecords
  <2>2. 0 \in 0..DeckSize
    BY DEF DeckAssumption
  <2>3. cards \in [Players -> 0..DeckSize]
    BY <2>1, <2>2 DEF Init, DeckInit
  <2>4. effective \in [Players -> Nat]
    <3>1. EffectivePowers \cup {0} \subseteq Nat
      BY DEF DeckAssumption
    <3>2. effective \in [Players -> EffectivePowers \cup {0}]
      BY DEF Init, DeckInit
    <3> QED  BY <3>1, <3>2
  <2> QED
    BY <2>3, <2>4, EmptySeq DEF Init, DeckInit, DeckTypeOK, DeckAssumption
<1>2. feeRate \in 0..BasisPoints
  BY DEF Init, PotAssumption
<1>3. 0 \in Nat /\ 0 \in Int /\ 0 \in 0..MaxResets
  BY DEF PotAssumption
<1> QED
  BY <1>1, <1>2, <1>3 DEF Init, TypeOK, Rounds, NoRound, Statuses, Assets

(* Each of the two kinds of contribution accumulates some amounts.         *)
LEMMA ContributionAmount ==
    ASSUME PotAssumption, TypeOK, AccumulatePot \/ AccumulatePotToken
    PROVE  \E amount \in Amounts : Accumulate(amount)
<1>1. CASE AccumulatePot
  <2>1. PICK c \in Contributions :
          /\ c[Xtar] >= 0
          /\ Accumulate([a \in Assets |-> IF a \in Core THEN c[a] ELSE 0])
    BY <1>1 DEF AccumulatePot
  <2>2. \A a \in Core : c[a] \in Nat
    <3>1. \A a \in Core : c[a] \in Int
      BY DEF PotAssumption
    <3>2. \A a \in Core : c[a] >= 0
      BY <2>1 DEF PotAssumption
    <3> QED  BY <3>1, <3>2
  <2>3. [a \in Assets |-> IF a \in Core THEN c[a] ELSE 0] \in Amounts
    BY <2>2 DEF Amounts
  <2> QED  BY <2>1, <2>3
<1>2. CASE AccumulatePotToken
  <2>1. PICK t \in registered, n \in TokenAmounts :
          Accumulate([a \in Assets |-> IF a = t THEN n ELSE 0])
    BY <1>2 DEF AccumulatePotToken
  <2>2. [a \in Assets |-> IF a = t THEN n ELSE 0] \in Amounts
    BY DEF PotAssumption, Amounts
  <2> QED  BY <2>1, <2>2
<1> QED  BY <1>1, <1>2

(* Contributions.                                                          *)
LEMMA ContributionType ==
    ASSUME PotAssumption, TypeOK, AccumulatePot \/ AccumulatePotToken
    PROVE  TypeOK'
<1>1. PICK amount \in Amounts : Accumulate(amount)
  BY ContributionAmount
<1>2. /\ pot' \in Amounts /\ fees' \in Amounts
      /\ balance' \in [Tokens -> Nat]
  BY <1>1, AccumulateType
<1>3. UNCHANGED <<totalClaimable, claimable>>
  BY <1>1 DEF Accumulate
<1>4. UNCHANGED <<deckVars, adminVars, roundVars, ghostVars>>
  BY DEF AccumulatePot, AccumulatePotToken
<1> QED
  BY <1>2, <1>3, <1>4 DEF TypeOK, DeckTypeOK, Amounts, deckVars, adminVars,
                          roundVars, ghostVars

(* Calls of the admin that set the registry or the fee.                    *)
LEMMA AdminType ==
    ASSUME PotAssumption, TypeOK,
           \/ RegisterToken \/ UnregisterToken
           \/ UpdateDogstarFeePercentage \/ SetFeePercentages
    PROVE  TypeOK'
<1>1. registered' \subseteq Tokens /\ feeRate' \in 0..BasisPoints
  BY DEF RegisterToken, UnregisterToken, UpdateDogstarFeePercentage,
         SetFeePercentages, TypeOK, PotAssumption
<1>2. UNCHANGED <<deckVars, moneyVars, roundVars, ghostVars>>
  BY DEF RegisterToken, UnregisterToken, UpdateDogstarFeePercentage,
         SetFeePercentages
<1> QED
  BY <1>1, <1>2 DEF TypeOK, DeckTypeOK, deckVars, moneyVars, roundVars, ghostVars

(* Claims of players and of the admin.                                     *)
LEMMA ClaimType ==
    ASSUME PotAssumption, TypeOK,
           (\E p \in Players : ClaimHawAiPotShare(p)) \/ ClaimDogstarFees
    PROVE  TypeOK'
<1>1. Core \subseteq Assets /\ Tokens \subseteq Assets
  BY DEF PotAssumption, Assets, Tokens
<1>2. ASSUME NEW p \in Players, ClaimHawAiPotShare(p)
      PROVE  TypeOK'
  <2> DEFINE paid == Claimed(p)
  <2>1. \A a \in Assets : /\ claimable[p][a] \in Nat
                          /\ paid[a] \in {0, claimable[p][a]}
                          /\ paid[a] \in Nat
    BY DEF Claimed, TypeOK
  <2>2. claimable' \in [Players -> Amounts]
    <3>1. [a \in Assets |-> claimable[p][a] - paid[a]] \in Amounts
      BY <2>1 DEF Amounts
    <3> QED  BY <1>2, <3>1 DEF ClaimHawAiPotShare, TypeOK, Amounts
  <2>3. totalClaimable' \in [Core -> Int]
    <3>1. \A a \in Core : totalClaimable[a] - paid[a] \in Int
      <4>1. \A a \in Core : totalClaimable[a] \in Int
        BY DEF TypeOK
      <4> QED  BY <1>1, <2>1, <4>1
    <3>2. totalClaimable' = [a \in Core |-> totalClaimable[a] - paid[a]]
      BY <1>2 DEF ClaimHawAiPotShare
    <3> QED  BY <3>1, <3>2
  <2>4. balance' \in [Tokens -> Nat]
    <3>1. \A t \in Tokens : balance[t] \in Nat /\ paid[t] \in Nat
      <4>1. \A t \in Tokens : balance[t] \in Nat
        BY DEF TypeOK
      <4> QED  BY <1>1, <2>1, <4>1
    <3>2. /\ \A t \in Tokens : paid[t] <= balance[t]
          /\ balance' = [t \in Tokens |-> balance[t] - paid[t]]
      BY <1>2 DEF ClaimHawAiPotShare
    <3>3. \A t \in Tokens : balance[t] - paid[t] \in Nat
      BY <3>1, <3>2
    <3> QED  BY <3>2, <3>3
  <2> QED
    BY <1>2, <2>2, <2>3, <2>4 DEF ClaimHawAiPotShare, TypeOK, DeckTypeOK, Amounts,
                                  deckVars, adminVars, roundVars, ghostVars
<1>3. ASSUME ClaimDogstarFees
      PROVE  TypeOK'
  <2>1. \A a \in Assets : fees[a] \in Nat /\ ClaimedFees[a] \in {0, fees[a]}
    BY DEF ClaimedFees, TypeOK
  <2>2. fees' \in Amounts
    BY <1>3, <2>1 DEF ClaimDogstarFees, Amounts
  <2>3. balance' \in [Tokens -> Nat]
    <3>1. \A t \in Tokens : balance[t] \in Nat /\ ClaimedFees[t] \in Nat
      BY <1>1, <2>1 DEF TypeOK
    <3>2. /\ \A t \in Tokens : ClaimedFees[t] <= balance[t]
          /\ balance' = [t \in Tokens |-> balance[t] - ClaimedFees[t]]
      BY <1>3 DEF ClaimDogstarFees
    <3>3. \A t \in Tokens : balance[t] - ClaimedFees[t] \in Nat
      BY <3>1, <3>2
    <3> QED  BY <3>2, <3>3
  <2> QED
    BY <1>3, <2>2, <2>3 DEF ClaimDogstarFees, TypeOK, DeckTypeOK, Amounts,
                            deckVars, adminVars, roundVars, ghostVars
<1> QED  BY <1>2, <1>3

(* Changes of decks and of the index.                                      *)
LEMMA DeckType ==
    ASSUME DeckAssumption, PotAssumption, TypeOK, DeckStep \/ IndexStep
    PROVE  TypeOK' /\ (IndexDistinct => IndexDistinct')
<1>1. DeckTypeOK' /\ (NoDuplicates(paged) => NoDuplicates(paged'))
  BY DeckOperationsKeep DEF TypeOK, DeckStep, IndexStep
<1>2. UNCHANGED <<moneyVars, adminVars, roundVars, resets>>
  BY DEF DeckStep, IndexStep, ghostVars
<1>3. undisturbed' \in BOOLEAN
  BY DEF DeckStep, IndexStep, ghostVars, TypeOK
<1> QED
  BY <1>1, <1>2, <1>3 DEF TypeOK, IndexDistinct, moneyVars, adminVars, roundVars

(* The start of a round.                                                   *)
LEMMA StartType ==
    ASSUME PotAssumption, TypeOK, NEW r \in Rounds, OpenPotStart(r)
    PROVE  TypeOK'
<1>1. /\ Opened \in Amounts /\ pot' \in Amounts
      /\ totalClaimable' \in [Core -> Int]
  BY MoveToVaultType DEF OpenPotStart
<1>2. snapshot' \in [Rounds -> Snapshots]
  <2>1. [amount |-> Opened, participants |-> 0, power |-> 0] \in Snapshots
    BY <1>1 DEF Snapshots
  <2> QED  BY <2>1 DEF OpenPotStart, TypeOK, Snapshots, Amounts
<1>3. totalDecks' \in [Rounds -> Nat]
  BY ReadDecksCountType DEF OpenPotStart, TypeOK
<1>4. /\ inProgress' \in Rounds \cup {NoRound}
      /\ status' \in [Rounds -> Statuses]
      /\ cursor' \in [Rounds -> Nat]
  BY DEF OpenPotStart, TypeOK, Statuses
<1>5. UNCHANGED <<currentRound, share, fees, claimable, balance>>
      /\ UNCHANGED <<deckVars, adminVars, ghostVars>>
  BY DEF OpenPotStart
<1> QED
  BY <1>1, <1>2, <1>3, <1>4, <1>5
     DEF TypeOK, DeckTypeOK, Amounts, Snapshots, deckVars, adminVars, ghostVars

(* One batch of the totals pass.                                           *)
LEMMA TotalsType ==
    ASSUME DeckAssumption, PotAssumption, TypeOK, NEW r \in Rounds,
           NEW limit \in Limits, ProcessTotals(r, limit)
    PROVE  TypeOK'
<1> DEFINE page == ReadDecksPage(cursor[r], limit)
           count == Cardinality(Participants(page))
<1>1. /\ cursor[r] \in Nat /\ limit \in Nat /\ DeckTypeOK
      /\ snapshot \in [Rounds -> Snapshots]
  BY DEF TypeOK, PotAssumption, Amounts, Snapshots
<1>2. Len(page) \in Nat /\ Members(page) \subseteq Players
  BY <1>1, ReadDecksPageType
<1>3. count \in Nat
  BY <1>2, ParticipantsCount
<1> HIDE DEF page
<1>4. snapshot' \in [Rounds -> Snapshots]
  <2>1. CASE snapshot' = snapshot
    BY <1>1, <2>1
  <2>2. CASE /\ PowerOf(page) \in 0..U32Max
             /\ snapshot' = [snapshot EXCEPT
                    ![r].participants = SaturatingAdd(@, count),
                    ![r].power = SaturatingAdd(@, PowerOf(page))]
    <3>1. PowerOf(page) \in Nat
      BY <2>2 DEF PotAssumption
    <3>2. snapshot[r].participants \in Nat /\ snapshot[r].power \in Nat
      BY <1>1 DEF Snapshots
    <3>3. /\ SaturatingAdd(snapshot[r].participants, count) \in Nat
          /\ SaturatingAdd(snapshot[r].power, PowerOf(page)) \in Nat
      BY <1>3, <3>1, <3>2, SaturatingAddType
    <3>4. PICK m, n \in Nat :
              /\ m = SaturatingAdd(snapshot[r].participants, count)
              /\ n = SaturatingAdd(snapshot[r].power, PowerOf(page))
      BY <3>3
    <3>5. [snapshot[r] EXCEPT !.participants = m, !.power = n] \in Snapshots
      BY <1>1, <3>4 DEF Snapshots
    <3>6. snapshot' = [snapshot EXCEPT ![r] =
                          [snapshot[r] EXCEPT !.participants = m, !.power = n]]
      BY <2>2, <3>4
    <3> QED  BY <1>1, <3>5, <3>6
  <2> QED  BY <2>1, <2>2 DEF ProcessTotals, page
<1>5. cursor' \in [Rounds -> Nat]
  <2>1. cursor[r] + Len(page) \in Nat
    BY <1>1, <1>2
  <2> QED  BY <2>1 DEF ProcessTotals, TypeOK, page
<1>6. status' \in [Rounds -> Statuses]
  BY DEF ProcessTotals, TypeOK, Statuses
<1>7. UNCHANGED <<currentRound, inProgress, totalDecks, share>>
      /\ UNCHANGED <<deckVars, moneyVars, adminVars, ghostVars>>
  BY DEF ProcessTotals
<1> QED
  BY <1>4, <1>5, <1>6, <1>7 DEF TypeOK, DeckTypeOK, Amounts, Snapshots, deckVars,
                                moneyVars, adminVars, ghostVars

(* One batch of the shares pass.                                           *)
LEMMA SharesType ==
    ASSUME DeckAssumption, PotAssumption, TypeOK, NEW r \in Rounds,
           NEW limit \in Limits, ProcessShares(r, limit)
    PROVE  TypeOK'
<1> DEFINE page == ReadDecksPage(cursor[r], limit)
<1>1. /\ cursor[r] \in Nat /\ limit \in Nat /\ DeckTypeOK
      /\ snapshot[r] \in Snapshots
  BY DEF TypeOK, PotAssumption, Amounts, Snapshots
<1>2. Len(page) \in Nat
  BY <1>1, ReadDecksPageType
<1> HIDE DEF page
<1>3. /\ CreditedShares(snapshot[r], page, r) \in [Players -> Nat]
      /\ CreditedClaims(snapshot[r], page) \in [Players -> Amounts]
  BY <1>1, CreditType
<1>4. share' \in [Rounds -> [Players -> Nat]] /\ claimable' \in [Players -> Amounts]
  BY <1>3 DEF ProcessShares, TypeOK, page
<1>5. cursor' \in [Rounds -> Nat]
  <2>1. cursor[r] + Len(page) \in Nat
    BY <1>1, <1>2
  <2> QED  BY <2>1 DEF ProcessShares, TypeOK, page
<1>6. UNCHANGED <<currentRound, inProgress, status, totalDecks, snapshot>>
      /\ UNCHANGED <<pot, fees, totalClaimable, balance>>
      /\ UNCHANGED <<deckVars, adminVars, ghostVars>>
  BY DEF ProcessShares
<1> QED
  BY <1>4, <1>5, <1>6 DEF TypeOK, DeckTypeOK, Amounts, deckVars, adminVars, ghostVars

(* A round opened in one transaction.                                      *)
LEMMA OpenPotType ==
    ASSUME DeckAssumption, PotAssumption, TypeOK, NEW r \in Rounds, OpenPot(r)
    PROVE  TypeOK'
<1> DEFINE total == ReadDecksCount
           page == ReadDecksPage(0, total)
           snap == [amount |-> Opened,
                    participants |-> Smaller(Cardinality(Participants(page)), U32Max),
                    power |-> PowerOf(page)]
<1>1. total \in Nat
  BY ReadDecksCountType DEF TypeOK
<1>2. Members(page) \subseteq Players
  BY <1>1, ReadDecksPageType DEF TypeOK
<1> HIDE DEF page, total
<1>3. /\ Opened \in Amounts /\ pot' \in Amounts
      /\ totalClaimable' \in [Core -> Int]
  BY MoveToVaultType DEF OpenPot
<1>4. snap \in Snapshots
  <2>1. Cardinality(Participants(page)) \in Nat
    BY <1>2, ParticipantsCount
  <2>2. PowerOf(page) \in 0..U32Max
    BY DEF OpenPot, page, total
  <2>3. U32Max \in Nat
    BY DEF PotAssumption
  <2>4. Smaller(Cardinality(Participants(page)), U32Max) \in Nat
    BY <2>1, <2>3 DEF Smaller
  <2> QED  BY <1>3, <2>2, <2>3, <2>4 DEF Snapshots
<1>5. /\ snapshot' = [snapshot EXCEPT ![r] = snap]
      /\ share' = [share EXCEPT ![r] = CreditedShares(snap, page, r)]
      /\ claimable' = CreditedClaims(snap, page)
      /\ totalDecks' = [totalDecks EXCEPT ![r] = total]
      /\ cursor' = [cursor EXCEPT ![r] = total]
  BY DEF OpenPot, page, total
<1> HIDE DEF snap
<1>6. /\ snapshot' \in [Rounds -> Snapshots]
      /\ share' \in [Rounds -> [Players -> Nat]]
      /\ claimable' \in [Players -> Amounts]
      /\ totalDecks' \in [Rounds -> Nat]
      /\ cursor' \in [Rounds -> Nat]
  BY <1>1, <1>4, <1>5, CreditType DEF TypeOK, Snapshots, Amounts
<1>7. /\ currentRound' \in Rounds \cup {NoRound}
      /\ inProgress' \in Rounds \cup {NoRound}
      /\ status' \in [Rounds -> Statuses]
  BY DEF OpenPot, TypeOK, Statuses
<1>8. UNCHANGED <<fees, balance, deckVars, adminVars, ghostVars>>
  BY DEF OpenPot
<1> QED
  BY <1>3, <1>6, <1>7, <1>8 DEF TypeOK, DeckTypeOK, Amounts, Snapshots, deckVars,
                                adminVars, ghostVars

(* The end of a round, and a reset.                                        *)
LEMMA FinalizeType ==
    ASSUME PotAssumption, TypeOK, NEW r \in Rounds, OpenPotFinalize(r)
    PROVE  TypeOK'
BY DEF OpenPotFinalize, TypeOK, DeckTypeOK, Statuses, deckVars, moneyVars,
       adminVars, ghostVars

LEMMA ResetType ==
    ASSUME PotAssumption, TypeOK, NEW r \in Rounds, ForceResetPot(r)
    PROVE  TypeOK'
<1>1. totalDecks' \in [Rounds -> Nat]
  BY ReadDecksCountType DEF ForceResetPot, TypeOK
<1>2. resets' \in 0..MaxResets
  BY DEF ForceResetPot, TypeOK, PotAssumption
<1> QED
  BY <1>1, <1>2 DEF ForceResetPot, TypeOK, DeckTypeOK, Statuses, deckVars,
                    moneyVars, adminVars

LEMMA TypeStep ==
    ASSUME DeckAssumption, PotAssumption, TypeOK, [Next]_vars
    PROVE  TypeOK'
<1>1. ASSUME NEW r \in Rounds, RoundStep(r)
      PROVE  TypeOK'
  BY <1>1, StartType, TotalsType, SharesType, OpenPotType, FinalizeType, ResetType
     DEF RoundStep
<1>2. CASE UNCHANGED vars
  BY <1>2 DEF vars, deckVars, moneyVars, adminVars, roundVars, ghostVars,
              TypeOK, DeckTypeOK
<1> QED
  BY <1>1, <1>2, ContributionType, AdminType, ClaimType, DeckType DEF Next

(* Every variable keeps its type; in particular the balances the contract  *)
(* stores never become negative, whatever is contributed and claimed.      *)
THEOREM TypeCorrect == Spec => []TypeOK
<1>1. Init => TypeOK
  BY InitType, DeckAssumption, PotAssumption
<1>2. TypeOK /\ [Next]_vars => TypeOK'
  BY TypeStep, DeckAssumption, PotAssumption
<1> QED  BY <1>1, <1>2, PTL DEF Spec

-----------------------------------------------------------------------------
(* The order of rounds.  SinglePot is not inductive without the types, and *)
(* RoundOrder needs it: a round is finalized only while pot_ip names it,   *)
(* and then it is the one that is above current_round.                     *)

RoundInv == TypeOK /\ SinglePot /\ RoundOrder

(* The guards of open_pot_start leave no round in progress.                *)
LEMMA StartsAlone ==
    ASSUME RoundInv, NEW r \in Rounds, CanStart(r)
    PROVE  /\ inProgress = NoRound
           /\ r > currentRound
           /\ status[r] = "Init"
<1>1. status[r] = "Init" /\ r > currentRound
  BY DEF CanStart, AlreadyProcessed, RoundInv, TypeOK, Rounds, NoRound
<1>2. inProgress = NoRound
  <2> SUFFICES ASSUME inProgress \in Rounds PROVE FALSE
    BY DEF RoundInv, TypeOK
  <2>1. Open(inProgress)
    BY DEF RoundInv, SinglePot
  <2>2. inProgress # r
    BY <1>1, <2>1 DEF Open
  <2>3. Status(inProgress) # "Finalized" /\ inProgress # NoRound
    BY <2>1 DEF Status, Open, Rounds, NoRound
  <2> QED  BY <2>2, <2>3 DEF CanStart, OtherRoundOpen
<1> QED  BY <1>1, <1>2

(* What a step of a round does to the variables the order is about.        *)
LEMMA RoundStepKeepsOrder ==
    ASSUME RoundInv, NEW r \in Rounds, RoundStep(r)
    PROVE  SinglePot' /\ RoundOrder'
<1> USE DEF RoundInv, SinglePot, RoundOrder, Open, TypeOK, Statuses, Rounds, NoRound
<1>1. CASE OpenPotStart(r)
  <2>1. inProgress = NoRound /\ r > currentRound
    BY <1>1, StartsAlone DEF OpenPotStart
  <2> QED  BY <1>1, <2>1 DEF OpenPotStart
<1>2. ASSUME NEW limit \in Limits, ProcessTotals(r, limit)
      PROVE  SinglePot' /\ RoundOrder'
  <2>1. /\ status[r] = "Totals"
        /\ \E s \in {"Totals", "Shares"} : status' = [status EXCEPT ![r] = s]
        /\ UNCHANGED <<inProgress, currentRound>>
    BY <1>2 DEF ProcessTotals
  <2> QED  BY <2>1
<1>3. ASSUME NEW limit \in Limits, ProcessShares(r, limit)
      PROVE  SinglePot' /\ RoundOrder'
  BY <1>3 DEF ProcessShares
<1>4. CASE OpenPotFinalize(r)
  <2>1. inProgress = r /\ r > currentRound
    BY <1>4 DEF OpenPotFinalize
  <2> QED  BY <1>4, <2>1 DEF OpenPotFinalize
<1>5. CASE OpenPot(r)
  <2>1. inProgress = NoRound /\ r > currentRound
    BY <1>5, StartsAlone DEF OpenPot
  <2>2. /\ currentRound' = r
        /\ status' = [status EXCEPT ![r] = "Finalized"]
        /\ inProgress' = NoRound
    BY <1>5 DEF OpenPot
  <2> QED  BY <2>1, <2>2
<1>6. CASE ForceResetPot(r)
  BY <1>6 DEF ForceResetPot, Resettable
<1> QED  BY <1>1, <1>2, <1>3, <1>4, <1>5, <1>6 DEF RoundStep

(* All other steps leave the rounds alone.                                 *)
OtherStep ==
    \/ AccumulatePot \/ AccumulatePotToken
    \/ RegisterToken \/ UnregisterToken
    \/ UpdateDogstarFeePercentage \/ SetFeePercentages
    \/ \E p \in Players : ClaimHawAiPotShare(p)
    \/ ClaimDogstarFees \/ DeckStep \/ IndexStep

LEMMA OtherStepKeepsRounds ==
    ASSUME OtherStep
    PROVE  UNCHANGED roundVars
BY DEF OtherStep, AccumulatePot, AccumulatePotToken, RegisterToken, UnregisterToken,
       UpdateDogstarFeePercentage, SetFeePercentages, ClaimHawAiPotShare,
       ClaimDogstarFees, DeckStep, IndexStep

LEMMA RoundInvStep ==
    ASSUME DeckAssumption, PotAssumption, RoundInv, [Next]_vars
    PROVE  RoundInv'
<1>1. TypeOK'
  BY TypeStep DEF RoundInv
<1>2. CASE UNCHANGED roundVars
  BY <1>1, <1>2 DEF roundVars, RoundInv, SinglePot, RoundOrder, Open
<1>3. ASSUME NEW r \in Rounds, RoundStep(r)
      PROVE  RoundInv'
  BY <1>1, <1>3, RoundStepKeepsOrder DEF RoundInv
<1> QED
  BY <1>2, <1>3, OtherStepKeepsRounds DEF Next, OtherStep, vars

LEMMA RoundInvariant == Spec => []RoundInv
<1>1. Init => RoundInv
  BY InitType, DeckAssumption, PotAssumption
     DEF RoundInv, Init, SinglePot, RoundOrder, Open, Rounds, NoRound
<1>2. RoundInv /\ [Next]_vars => RoundInv'
  BY RoundInvStep, DeckAssumption, PotAssumption
<1> QED  BY <1>1, <1>2, PTL DEF Spec

(* open_pot_start, open_pot_finalize and force_reset_pot together keep at  *)
(* most one round in progress, the one pot_ip names; rounds are finalized  *)
(* in increasing order, and none is opened at or below a finalized one.    *)
THEOREM RoundsAscend == Spec => []RoundsInOrder
BY RoundInvariant, PTL DEF RoundInv, RoundsInOrder

-----------------------------------------------------------------------------
(* PotRound implements PotLedger: the refinement mapping reads the ledger  *)
(* off the XTAR fields.                                                    *)

LedgerVars == <<inProgress, currentRound, pot[Xtar], totalClaimable[Xtar],
                fees[Xtar], balance[Xtar]>>

LEMMA XtarIsCore ==
    ASSUME PotAssumption
    PROVE  Xtar \in Core /\ Xtar \in Assets /\ Xtar \in Tokens
BY DEF PotAssumption, Assets, Tokens

LEMMA XtarTypes ==
    ASSUME PotAssumption, TypeOK
    PROVE  /\ pot[Xtar] \in Nat /\ fees[Xtar] \in Nat /\ balance[Xtar] \in Nat
           /\ totalClaimable[Xtar] \in Int
           /\ inProgress \in Nat /\ currentRound \in Nat
<1>1. pot[Xtar] \in Nat /\ fees[Xtar] \in Nat
  BY XtarIsCore DEF TypeOK
<1>2. balance[Xtar] \in Nat
  BY XtarIsCore DEF TypeOK
<1>3. totalClaimable[Xtar] \in Int
  BY XtarIsCore DEF TypeOK
<1>4. inProgress \in Nat /\ currentRound \in Nat
  BY DEF TypeOK, Rounds, NoRound
<1> QED  BY <1>1, <1>2, <1>3, <1>4

(* A contribution is a deposit, of no XTAR if it brings other assets.      *)
LEMMA ContributionIsDeposit ==
    ASSUME PotAssumption, TypeOK, AccumulatePot \/ AccumulatePotToken
    PROVE  Ledger!Deposit
<1>1. PICK amount \in Amounts : Accumulate(amount)
  BY ContributionAmount
<1>2. /\ amount[Xtar] \in Nat
      /\ FeeOf(amount[Xtar]) \in 0..amount[Xtar]
  BY XtarIsCore, FeeOfBounds DEF Amounts
<1>3. /\ pot'[Xtar] = pot[Xtar] + amount[Xtar] - FeeOf(amount[Xtar])
      /\ fees'[Xtar] = fees[Xtar] + FeeOf(amount[Xtar])
      /\ balance'[Xtar] = balance[Xtar] + amount[Xtar]
      /\ totalClaimable' = totalClaimable
  BY <1>1, XtarIsCore DEF Accumulate
<1>4. UNCHANGED <<inProgress, currentRound>>
  BY DEF AccumulatePot, AccumulatePotToken, roundVars
<1> QED  BY <1>2, <1>3, <1>4, XtarTypes DEF Ledger!Deposit

(* A start promises the whole pot.                                         *)
LEMMA StartPromises ==
    ASSUME PotAssumption, TypeOK, MoveToVault,
           UNCHANGED <<fees, balance>>
    PROVE  Ledger!Promise
<1>1. Opened[Xtar] = pot[Xtar]
  BY XtarIsCore DEF Opened
<1>2. /\ pot'[Xtar] = pot[Xtar] - pot[Xtar]
      /\ totalClaimable'[Xtar] = totalClaimable[Xtar] + pot[Xtar]
  BY <1>1, XtarIsCore DEF MoveToVault
<1> QED  BY <1>2, XtarTypes DEF Ledger!Promise

LEMMA RoundStepRefines ==
    ASSUME PotAssumption, RoundInv, NEW r \in Rounds, RoundStep(r)
    PROVE  Ledger!Next \/ UNCHANGED LedgerVars
<1> USE DEF RoundInv
<1>1. CASE OpenPotStart(r)
  <2>1. inProgress = NoRound /\ r > currentRound
    BY <1>1, StartsAlone DEF OpenPotStart
  <2>2. Ledger!Promise
    BY <1>1, StartPromises DEF OpenPotStart
  <2>3. inProgress' = r /\ currentRound' = currentRound
    BY <1>1 DEF OpenPotStart
  <2> QED  BY <2>1, <2>2, <2>3 DEF Ledger!OpenRound, Ledger!Next, NoRound
<1>2. ASSUME NEW limit \in Limits, ProcessTotals(r, limit)
      PROVE  UNCHANGED LedgerVars
  BY <1>2 DEF ProcessTotals, LedgerVars, moneyVars
<1>3. ASSUME NEW limit \in Limits, ProcessShares(r, limit)
      PROVE  UNCHANGED LedgerVars
  BY <1>3 DEF ProcessShares, LedgerVars
<1>4. CASE OpenPotFinalize(r)
  <2>1. inProgress = r /\ r # 0
    BY <1>4 DEF OpenPotFinalize, SinglePot, Open, Rounds
  <2> QED
    BY <1>4, <2>1 DEF OpenPotFinalize, Ledger!CloseRound, Ledger!Next, Ledger!money,
                      moneyVars, NoRound
<1>5. CASE OpenPot(r)
  <2>1. inProgress = NoRound /\ r > currentRound
    BY <1>5, StartsAlone DEF OpenPot
  <2>2. Ledger!Promise
    BY <1>5, StartPromises DEF OpenPot
  <2>3. inProgress' = NoRound /\ currentRound' = r
    BY <1>5 DEF OpenPot
  <2> QED  BY <2>1, <2>2, <2>3 DEF Ledger!OpenAndClose, Ledger!Next, NoRound
<1>6. CASE ForceResetPot(r)
  <2>1. Open(r)
    BY <1>6 DEF ForceResetPot, Resettable, Open, TypeOK, Statuses
  <2>2. inProgress = r
    BY <2>1 DEF SinglePot
  <2> QED  BY <1>6, <2>2 DEF ForceResetPot, LedgerVars, moneyVars
<1> QED  BY <1>1, <1>2, <1>3, <1>4, <1>5, <1>6 DEF RoundStep

LEMMA ClaimRefines ==
    ASSUME PotAssumption, TypeOK,
           (\E p \in Players : ClaimHawAiPotShare(p)) \/ ClaimDogstarFees
    PROVE  Ledger!Next
<1>1. ASSUME NEW p \in Players, ClaimHawAiPotShare(p)
      PROVE  Ledger!PayPlayer
  <2> DEFINE paid == Claimed(p)[Xtar]
  <2>1. paid \in Nat
    BY XtarIsCore DEF Claimed, TypeOK
  <2>2. /\ paid <= balance[Xtar]
        /\ balance'[Xtar] = balance[Xtar] - paid
        /\ totalClaimable'[Xtar] = totalClaimable[Xtar] - paid
        /\ UNCHANGED <<pot, fees, inProgress, currentRound>>
    BY <1>1, XtarIsCore DEF ClaimHawAiPotShare, roundVars
  <2> HIDE DEF paid
  <2> QED  BY <2>1, <2>2, XtarTypes DEF Ledger!PayPlayer
<1>2. ASSUME ClaimDogstarFees
      PROVE  Ledger!PayFees
  <2>1. ClaimedFees[Xtar] = fees[Xtar]
    BY XtarIsCore DEF ClaimedFees
  <2>2. /\ fees[Xtar] <= balance[Xtar]
        /\ balance'[Xtar] = balance[Xtar] - fees[Xtar]
        /\ fees'[Xtar] = fees[Xtar] - fees[Xtar]
        /\ UNCHANGED <<pot, totalClaimable, inProgress, currentRound>>
    BY <1>2, <2>1, XtarIsCore DEF ClaimDogstarFees, roundVars
  <2> QED  BY <2>2, XtarTypes DEF Ledger!PayFees
<1> QED  BY <1>1, <1>2 DEF Ledger!Next

LEMMA StepRefines ==
    ASSUME PotAssumption, RoundInv, [Next]_vars
    PROVE  [Ledger!Next]_(Ledger!vars)
<1>1. CASE UNCHANGED LedgerVars
  BY <1>1 DEF LedgerVars, Ledger!vars, Ledger!money
<1>2. CASE \/ RegisterToken \/ UnregisterToken \/ UpdateDogstarFeePercentage
           \/ SetFeePercentages \/ DeckStep \/ IndexStep \/ UNCHANGED vars
  <2>1. UNCHANGED <<moneyVars, roundVars>>
    BY <1>2 DEF RegisterToken, UnregisterToken, UpdateDogstarFeePercentage,
                SetFeePercentages, DeckStep, IndexStep, vars
  <2> QED  BY <1>1, <2>1 DEF LedgerVars, moneyVars, roundVars
<1>3. CASE AccumulatePot \/ AccumulatePotToken
  BY <1>3, ContributionIsDeposit DEF RoundInv, Ledger!Next
<1>4. CASE (\E p \in Players : ClaimHawAiPotShare(p)) \/ ClaimDogstarFees
  BY <1>4, ClaimRefines DEF RoundInv
<1>5. ASSUME NEW r \in Rounds, RoundStep(r)
      PROVE  [Ledger!Next]_(Ledger!vars)
  BY <1>1, <1>5, RoundStepRefines
<1> QED  BY <1>2, <1>3, <1>4, <1>5 DEF Next

(* The pot is a correct ledger of XTAR: every call of the contract is a    *)
(* deposit, a promise of the whole pot, the closing of a round, a payment  *)
(* out of what was promised or of all fees, or moves no XTAR.              *)
THEOREM ImplementsLedger == Spec => LedgerSpec
<1>1. Init => Ledger!Init
  BY XtarIsCore, PotAssumption DEF Init, Ledger!Init, NoRound
<1>2. RoundInv /\ [Next]_vars => [Ledger!Next]_(Ledger!vars)
  BY StepRefines, PotAssumption
<1> QED  BY <1>1, <1>2, RoundInvariant, PTL DEF Spec, LedgerSpec, Ledger!Spec

(* XTAR is accounted for in exactly one place.  The ledger's steps keep    *)
(* its balance, and every step of the pot is one of them.                  *)
THEOREM XtarAccounted == Spec => []XtarBacked
<1>1. Init => XtarBacked
  BY XtarIsCore, PotAssumption DEF Init, XtarBacked
<1>2. RoundInv /\ RoundInv' /\ XtarBacked /\ [Next]_vars => XtarBacked'
  <2> SUFFICES ASSUME RoundInv, RoundInv', XtarBacked, [Next]_vars
               PROVE  XtarBacked'
    OBVIOUS
  <2>1. [Ledger!Next]_(Ledger!vars)
    BY StepRefines, PotAssumption
  <2>2. /\ pot[Xtar] \in Nat /\ fees[Xtar] \in Nat /\ balance[Xtar] \in Nat
        /\ totalClaimable[Xtar] \in Int
    BY XtarTypes, PotAssumption DEF RoundInv
  <2>3. /\ pot'[Xtar] \in Nat /\ fees'[Xtar] \in Nat /\ balance'[Xtar] \in Nat
        /\ totalClaimable'[Xtar] \in Int
    BY XtarIsCore, PotAssumption DEF RoundInv, TypeOK
  <2> QED
    BY <2>1, <2>2, <2>3
       DEF XtarBacked, Ledger!Next, Ledger!vars, Ledger!money, Ledger!Deposit,
           Ledger!Promise, Ledger!OpenRound, Ledger!CloseRound, Ledger!OpenAndClose,
           Ledger!PayPlayer, Ledger!PayFees
<1> QED  BY <1>1, <1>2, RoundInvariant, PTL DEF Spec

-----------------------------------------------------------------------------
(* What a round in progress and a finalized round are protected from.      *)

(* Only deck and index operations change decks and indexes.                *)
LEMMA OthersKeepDecks ==
    ASSUME [Next]_vars, ~DeckStep, ~IndexStep
    PROVE  UNCHANGED deckVars
<1>1. ASSUME NEW r \in Rounds, RoundStep(r)
      PROVE  UNCHANGED deckVars
  BY <1>1 DEF RoundStep, OpenPotStart, ProcessTotals, ProcessShares,
              OpenPotFinalize, OpenPot, ForceResetPot
<1>2. CASE OtherStep
  BY <1>2 DEF OtherStep, AccumulatePot, AccumulatePotToken, RegisterToken,
              UnregisterToken, UpdateDogstarFeePercentage, SetFeePercentages,
              ClaimHawAiPotShare, ClaimDogstarFees
<1>3. CASE UNCHANGED vars
  BY <1>3 DEF vars
<1> QED  BY <1>1, <1>2, <1>3 DEF Next, OtherStep

(* While a round is in progress no deck changes, through all batches and   *)
(* through force_reset_pot: both passes divide the same powers.            *)
THEOREM DecksStayFrozen == Spec => DecksFrozen
<1>1. ASSUME RoundInv, [Next]_vars, inProgress # NoRound
      PROVE  UNCHANGED <<cards, effective>>
  <2>1. CASE DeckStep
    <3>1. inProgress \in Rounds /\ Open(inProgress)
      BY <1>1 DEF RoundInv, SinglePot, TypeOK
    <3>2. Status(inProgress) \notin {"Init", "Finalized"}
      BY <3>1 DEF Status, Open
    <3> QED  BY <1>1, <2>1, <3>2 DEF DeckStep, DeckChangesAllowed, DeckPowerAllowed
  <2>2. CASE IndexStep
    BY <2>2 DEF IndexStep, MigrateDeck, SetPagesOnly
  <2>3. CASE ~DeckStep /\ ~IndexStep
    BY <1>1, <2>3, OthersKeepDecks DEF deckVars
  <2> QED  BY <2>1, <2>2, <2>3
<1> QED  BY <1>1, RoundInvariant, PTL DEF Spec, DecksFrozen

(* The status, snapshot and shares of a finalized round are final: no      *)
(* restart, no late batch and no later round writes them.                  *)
THEOREM HistoryStaysFixed == Spec => HistoryFixed
<1> DEFINE Fixed(r) == status[r] = "Finalized" =>
                            /\ status'[r] = "Finalized"
                            /\ snapshot'[r] = snapshot[r]
                            /\ share'[r] = share[r]
<1>1. ASSUME RoundInv, [Next]_vars, NEW r \in Rounds
      PROVE  Fixed(r)
  <2>1. CASE UNCHANGED roundVars
    BY <2>1 DEF roundVars
  <2>2. ASSUME NEW s \in Rounds, RoundStep(s)
        PROVE  Fixed(r)
    <3>1. /\ status[s] # "Finalized"
          /\ r # s => /\ status'[r] = status[r]
                      /\ snapshot'[r] = snapshot[r]
                      /\ share'[r] = share[r]
      BY <1>1, <2>2 DEF RoundInv, TypeOK, RoundStep, OpenPotStart, CanStart,
                        ProcessTotals, ProcessShares, OpenPotFinalize, OpenPot,
                        ForceResetPot, Resettable
    <3> QED  BY <3>1
  <2> QED
    BY <1>1, <2>1, <2>2, OtherStepKeepsRounds DEF Next, OtherStep, vars
<1>2. RoundInv /\ [Next]_vars =>
        \A r \in Rounds : status[r] = "Finalized" =>
            /\ status'[r] = "Finalized"
            /\ snapshot'[r] = snapshot[r]
            /\ share'[r] = share[r]
  BY <1>1
<1> QED  BY <1>2, RoundInvariant, PTL DEF Spec, HistoryFixed

(* The paged index never names an owner twice, in either mode and through  *)
(* mode changes and migrations at any moment, so no deck is counted or     *)
(* paid twice in one pass.                                                 *)
THEOREM IndexStaysDistinct == Spec => []IndexDistinct
<1>1. Init => IndexDistinct
  BY EmptySeq DEF Init, DeckInit, IndexDistinct, NoDuplicates
<1>2. RoundInv /\ IndexDistinct /\ [Next]_vars => IndexDistinct'
  <2> SUFFICES ASSUME RoundInv, IndexDistinct, [Next]_vars
               PROVE  IndexDistinct'
    OBVIOUS
  <2>1. CASE DeckStep \/ IndexStep
    BY <2>1, DeckType, DeckAssumption, PotAssumption DEF RoundInv
  <2>2. CASE ~DeckStep /\ ~IndexStep
    BY <2>2, OthersKeepDecks DEF deckVars, IndexDistinct, NoDuplicates
  <2> QED  BY <2>1, <2>2
<1> QED  BY <1>1, <1>2, RoundInvariant, PTL DEF Spec

-----------------------------------------------------------------------------
(* The indexes: the legacy list has one record per owner, and pages with   *)
(* an entry have a count.                                                  *)

LegacyDistinct ==
    \A i, j \in 1..Len(legacy) : legacy[i].owner = legacy[j].owner => i = j

IndexInv == IndexDistinct /\ LegacyDistinct /\ (Len(paged) > 0 => hasCount)

(* write_deck replaces the record of the owner or appends the first one.   *)
LEMMA WriteLegacyDistinct ==
    ASSUME DeckTypeOK, LegacyDistinct, NEW p \in Players, NEW n, WriteLegacy(p, n)
    PROVE  LegacyDistinct'
<1> DEFINE record == [owner |-> p, cards |-> n]
           known == {i \in 1..Len(legacy) : legacy[i].owner = p}
           at == CHOOSE i \in known : TRUE
<1>1. legacy \in Seq(DeckRecords) /\ Len(legacy) \in Nat
  BY LenProperties DEF DeckTypeOK
<1>2. CASE legacy' = legacy
  BY <1>2 DEF LegacyDistinct
<1>3. CASE known = {} /\ legacy' = Append(legacy, record)
  <2>1. /\ Len(legacy') = Len(legacy) + 1
        /\ \A i \in 1..Len(legacy) : legacy'[i] = legacy[i]
        /\ legacy'[Len(legacy) + 1] = record
    BY <1>1, <1>3
  <2>2. legacy'[Len(legacy) + 1].owner = p
    BY <2>1
  <2>3. \A i \in 1..Len(legacy) : legacy[i].owner # p
    BY <1>3
  <2>4. SUFFICES ASSUME NEW i \in 1..(Len(legacy) + 1), NEW j \in 1..(Len(legacy) + 1),
                        legacy'[i].owner = legacy'[j].owner
                 PROVE  i = j
    BY <2>1 DEF LegacyDistinct
  <2>5. \A k \in 1..(Len(legacy) + 1) :
          k = Len(legacy) + 1 \/ (k \in 1..Len(legacy) /\ legacy'[k].owner # p)
    BY <1>1, <2>1, <2>3
  <2>6. CASE i = Len(legacy) + 1 \/ j = Len(legacy) + 1
    BY <2>2, <2>4, <2>5, <2>6
  <2>7. CASE i \in 1..Len(legacy) /\ j \in 1..Len(legacy)
    BY <2>1, <2>4, <2>7 DEF LegacyDistinct
  <2> QED  BY <2>5, <2>6, <2>7
<1>4. CASE known # {} /\ legacy' = [legacy EXCEPT ![at] = record]
  <2>1. at \in 1..Len(legacy) /\ legacy[at].owner = p
    BY <1>4
  <2> HIDE DEF at
  <2>2. Len(legacy') = Len(legacy)
    BY <1>1, <1>4, <2>1
  <2>3. \A i \in 1..Len(legacy) : legacy'[i].owner = legacy[i].owner
    BY <1>1, <1>4, <2>1
  <2> QED  BY <2>2, <2>3 DEF LegacyDistinct
<1> QED  BY <1>2, <1>3, <1>4 DEF WriteLegacy

LEMMA WriteDeckIndexes ==
    ASSUME DeckTypeOK, IndexInv, NEW p \in Players, NEW n, NEW e, WriteDeck(p, n, e)
    PROVE  LegacyDistinct' /\ (Len(paged') > 0 => hasCount')
<1>1. LegacyDistinct'
  BY WriteLegacyDistinct DEF IndexInv, WriteDeck, WriteIndexes
<1>2. CASE AddDeckPageIndex(p)
  BY <1>1, <1>2 DEF AddDeckPageIndex
<1>3. CASE p \in Members(paged) /\ RemoveDeckPageIndex(p)
  <2>1. Len(paged) > 0
    BY <1>3, LenProperties DEF Members, DeckTypeOK
  <2> QED  BY <1>1, <1>3, <2>1 DEF IndexInv, RemoveDeckPageIndex
<1>4. CASE UNCHANGED <<paged, hasCount>>
  BY <1>1, <1>4 DEF IndexInv
<1>5. \/ AddDeckPageIndex(p)
      \/ p \in Members(paged) /\ RemoveDeckPageIndex(p)
      \/ UNCHANGED <<paged, hasCount>>
  <2>1. CASE n > 0 /\ p \notin Members(paged)
    BY <2>1 DEF WriteDeck, WriteIndexes
  <2>2. CASE n = 0 /\ p \in Members(paged)
    BY <2>2 DEF WriteDeck, WriteIndexes
  <2>3. CASE ~(n > 0 /\ p \notin Members(paged)) /\ ~(n = 0 /\ p \in Members(paged))
    BY <2>3 DEF WriteDeck, WriteIndexes
  <2> QED  BY <2>1, <2>2, <2>3
<1> QED  BY <1>2, <1>3, <1>4, <1>5

LEMMA IndexInvStep ==
    ASSUME DeckAssumption, PotAssumption, RoundInv, IndexInv, [Next]_vars
    PROVE  IndexInv'
<1>1. DeckTypeOK
  BY DEF RoundInv, TypeOK
<1>2. ASSUME UNCHANGED deckVars PROVE IndexInv'
  BY <1>2 DEF deckVars, IndexInv, IndexDistinct, NoDuplicates, LegacyDistinct
<1>3. CASE DeckStep \/ IndexStep
  <2>1. IndexDistinct'
    BY <1>3, DeckType DEF RoundInv, IndexInv
  <2>2. CASE DeckStep
    <3>1. PICK p \in Players : PlaceCard(p) \/ ReplaceCard(p) \/ RemoveCard(p) \/ RecomputeDeck(p)
      BY <2>2 DEF DeckStep
    <3>2. \E n, e : WriteDeck(p, n, e)
      BY <3>1 DEF PlaceCard, ReplaceCard, RemoveCard, RecomputeDeck
    <3> QED  BY <1>1, <2>1, <3>2, WriteDeckIndexes DEF IndexInv
  <2>3. CASE IndexStep
    <3>1. legacy' = legacy /\ (hasCount' = TRUE \/ UNCHANGED <<paged, hasCount>>)
      BY <2>3 DEF IndexStep, MigrateDeck, SetPagesOnly, AddDeckPageIndex
    <3> QED  BY <2>1, <3>1 DEF IndexInv, LegacyDistinct
  <2> QED  BY <1>3, <2>2, <2>3
<1> QED  BY <1>2, <1>3, OthersKeepDecks

LEMMA IndexInvariant == Spec => []IndexInv
<1>1. Init => IndexInv
  <2> SUFFICES ASSUME Init PROVE IndexInv
    OBVIOUS
  <2>1. legacy = LegacyDecks /\ paged = << >>
    BY DEF Init, DeckInit
  <2> QED
    BY <2>1, DeckAssumption, EmptySeq
       DEF DeckAssumption, IndexInv, IndexDistinct, NoDuplicates, LegacyDistinct
<1>2. RoundInv /\ IndexInv /\ [Next]_vars => IndexInv'
  BY IndexInvStep, DeckAssumption, PotAssumption
<1> QED  BY <1>1, <1>2, RoundInvariant, PTL DEF Spec

-----------------------------------------------------------------------------
(* A deployment that never held unpaged decks and keeps its mode: the      *)
(* legacy copies are current while they are written, so that a migration   *)
(* finds every deck with a card already in the pages.                      *)

CopiesCurrent ==
    ~pagesOnly => \A i \in 1..Len(legacy) : legacy[i].cards = cards[legacy[i].owner]

LEMMA MembersAdded ==
    ASSUME DeckTypeOK, NEW p \in Players, AddDeckPageIndex(p)
    PROVE  Members(paged') = Members(paged) \cup {p}
<1>1. /\ Len(paged) \in Nat /\ Len(paged') = Len(paged) + 1
      /\ \A i \in 1..Len(paged) : paged'[i] = paged[i]
      /\ paged'[Len(paged) + 1] = p
  BY AppendProperties, LenProperties DEF DeckTypeOK, AddDeckPageIndex
<1>2. 1..Len(paged') = 1..Len(paged) \cup {Len(paged) + 1}
  BY <1>1
<1> QED  BY <1>1, <1>2 DEF Members

LEMMA MembersRemoved ==
    ASSUME DeckTypeOK, NoDuplicates(paged), NEW p \in Members(paged),
           RemoveDeckPageIndex(p)
    PROVE  Members(paged') = Members(paged) \ {p}
<1> DEFINE at == PositionOf(paged, p)
<1>1. PICK last : last = Len(paged)
  OBVIOUS
<1>2. last \in Nat /\ at \in 1..last /\ paged[at] = p
  BY <1>1, LenProperties DEF PositionOf, Members, DeckTypeOK
<1>3. paged' = [i \in 1..(last - 1) |-> IF i = at THEN paged[last] ELSE paged[i]]
  BY <1>1 DEF RemoveDeckPageIndex
<1> HIDE DEF at
<1>4. paged' \in Seq(Players) /\ Len(paged') = last - 1
  <2>1. paged' \in Seq(Players)
    BY RemoveDeckPageIndexKeeps
  <2>2. last - 1 \in Nat /\ DOMAIN paged' = 1..(last - 1)
    BY <1>2, <1>3
  <2> QED  BY <2>1, <2>2, LenProperties
<1>5. \A i \in 1..last : paged[i] = p => i = at
  BY <1>1, <1>2 DEF NoDuplicates
<1>6. ASSUME NEW x \in Members(paged')
      PROVE  x \in Members(paged) /\ x # p
  <2>1. PICK i \in 1..(last - 1) : x = paged'[i]
    BY <1>4, <1>6 DEF Members
  <2>2. CASE i = at
    <3>1. x = paged[last] /\ last \in 1..last /\ last # at
      BY <1>2, <1>3, <2>1, <2>2
    <3> QED  BY <1>1, <1>5, <3>1 DEF Members
  <2>3. CASE i # at
    <3>1. x = paged[i] /\ i \in 1..last
      BY <1>2, <1>3, <2>1, <2>3
    <3> QED  BY <1>1, <1>5, <2>3, <3>1 DEF Members
  <2> QED  BY <2>2, <2>3
<1>7. ASSUME NEW x \in Members(paged), x # p
      PROVE  x \in Members(paged')
  <2>1. PICK i \in 1..last : x = paged[i]
    BY <1>1 DEF Members
  <2>2. i # at
    BY <1>2, <1>7, <2>1
  <2>3. \E j \in 1..(last - 1) : paged'[j] = x
    <3>1. CASE i = last
      <4>1. at \in 1..(last - 1)
        BY <1>2, <2>2, <3>1
      <4> QED  BY <1>3, <2>1, <3>1, <4>1
    <3>2. CASE i # last
      <4>1. i \in 1..(last - 1)
        BY <1>2, <2>1, <3>2
      <4> QED  BY <1>3, <2>1, <2>2, <4>1
    <3> QED  BY <3>1, <3>2
  <2> QED  BY <1>4, <2>3 DEF Members
<1> QED  BY <1>6, <1>7

(* write_deck writes the copy together with the record.                    *)
LEMMA WriteLegacyCurrent ==
    ASSUME DeckTypeOK, LegacyDistinct, CopiesCurrent, NEW p \in Players, NEW n,
           WriteLegacy(p, n), pagesOnly' = pagesOnly,
           cards' = [cards EXCEPT ![p] = n]
    PROVE  CopiesCurrent'
<1> DEFINE record == [owner |-> p, cards |-> n]
           known == {i \in 1..Len(legacy) : legacy[i].owner = p}
           at == CHOOSE i \in known : TRUE
<1>1. legacy \in Seq(DeckRecords) /\ Len(legacy) \in Nat
  BY LenProperties DEF DeckTypeOK
<1>2. \A i \in 1..Len(legacy) : legacy[i].owner \in Players
  BY LegacyOwner
<1>3. /\ cards'[p] = n
      /\ \A q \in Players : q # p => cards'[q] = cards[q]
  BY DEF DeckTypeOK
<1>4. CASE pagesOnly
  BY <1>4 DEF CopiesCurrent
<1>5. CASE ~pagesOnly /\ known = {}
  <2>1. /\ Len(legacy') = Len(legacy) + 1
        /\ \A i \in 1..Len(legacy) : legacy'[i] = legacy[i]
        /\ legacy'[Len(legacy) + 1] = record
    BY <1>1, <1>5 DEF WriteLegacy
  <2>2. \A i \in 1..Len(legacy) : legacy'[i].cards = cards'[legacy'[i].owner]
    BY <1>2, <1>3, <1>5, <2>1 DEF CopiesCurrent
  <2>3. legacy'[Len(legacy) + 1].cards = cards'[legacy'[Len(legacy) + 1].owner]
    BY <1>3, <2>1
  <2>4. \A i \in 1..Len(legacy') : i \in 1..Len(legacy) \/ i = Len(legacy) + 1
    BY <1>1, <2>1
  <2> QED  BY <2>2, <2>3, <2>4 DEF CopiesCurrent
<1>6. CASE ~pagesOnly /\ known # {}
  <2>1. at \in 1..Len(legacy) /\ legacy[at].owner = p
    BY <1>6
  <2>2. legacy' = [legacy EXCEPT ![at] = record]
    BY <1>6 DEF WriteLegacy
  <2> HIDE DEF at
  <2>3. Len(legacy') = Len(legacy) /\ legacy'[at] = record
    BY <1>1, <2>1, <2>2
  <2>4. ASSUME NEW i \in 1..Len(legacy), i # at
        PROVE  legacy'[i].cards = cards'[legacy'[i].owner]
    <3>1. legacy'[i] = legacy[i]
      BY <1>1, <2>2, <2>4
    <3>2. legacy[i].owner # p
      BY <2>1, <2>4 DEF LegacyDistinct
    <3> QED  BY <1>2, <1>3, <1>6, <3>1, <3>2 DEF CopiesCurrent
  <2>5. legacy'[at].cards = cards'[legacy'[at].owner]
    BY <1>3, <2>3
  <2> QED  BY <2>3, <2>4, <2>5 DEF CopiesCurrent
<1> QED  BY <1>4, <1>5, <1>6

LEMMA WriteDeckExact ==
    ASSUME DeckTypeOK, IndexInv, IndexExact, CopiesCurrent,
           NEW p \in Players, NEW n \in 0..DeckSize, NEW e, WriteDeck(p, n, e)
    PROVE  CopiesCurrent' /\ Members(paged') = {q \in Players : cards'[q] > 0}
<1>1. /\ cards' = [cards EXCEPT ![p] = n]
      /\ WriteLegacy(p, n) /\ pagesOnly' = pagesOnly
  BY DEF WriteDeck, WriteIndexes
<1>2. CopiesCurrent'
  BY <1>1, WriteLegacyCurrent DEF IndexInv
<1>3. /\ cards'[p] = n
      /\ \A q \in Players : q # p => cards'[q] = cards[q]
  BY <1>1 DEF DeckTypeOK
<1>4. NoDuplicates(paged) /\ Members(paged) = {q \in Players : cards[q] > 0}
  BY DEF IndexExact
<1>5. CASE n > 0 /\ p \notin Members(paged)
  <2>1. Members(paged') = Members(paged) \cup {p}
    BY <1>5, MembersAdded DEF WriteDeck, WriteIndexes
  <2> QED  BY <1>2, <1>3, <1>4, <1>5, <2>1
<1>6. CASE n = 0 /\ p \in Members(paged)
  <2>1. Members(paged') = Members(paged) \ {p}
    BY <1>4, <1>6, MembersRemoved DEF WriteDeck, WriteIndexes
  <2> QED  BY <1>2, <1>3, <1>4, <1>6, <2>1
<1>7. CASE ~(n > 0 /\ p \notin Members(paged)) /\ ~(n = 0 /\ p \in Members(paged))
  <2>1. paged' = paged
    BY <1>7 DEF WriteDeck, WriteIndexes
  <2>2. p \in Members(paged) <=> n > 0
    BY <1>7
  <2> QED  BY <1>2, <1>3, <1>4, <2>1, <2>2
<1> QED  BY <1>5, <1>6, <1>7

(* A migration finds nothing to do: the copy it looks at is current.       *)
LEMMA NothingToMigrate ==
    ASSUME DeckTypeOK, IndexExact, CopiesCurrent, NEW i, MigrateDeck(i)
    PROVE  FALSE
<1>1. legacy[i].owner \in Players
  BY LegacyOwner DEF MigrateDeck
<1>2. cards[legacy[i].owner] > 0
  BY DEF MigrateDeck, CopiesCurrent
<1> QED  BY <1>1, <1>2 DEF MigrateDeck, IndexExact

LEMMA ExactStep ==
    ASSUME DeckAssumption, PotAssumption, ModeChanges = {}, RoundInv, IndexInv,
           IndexExact, CopiesCurrent, IndexInv', [Next]_vars
    PROVE  IndexExact' /\ CopiesCurrent'
<1>1. DeckTypeOK /\ IndexDistinct'
  BY DEF RoundInv, TypeOK, IndexInv
<1>2. ASSUME UNCHANGED deckVars PROVE IndexExact' /\ CopiesCurrent'
  BY <1>2 DEF deckVars, IndexExact, NoDuplicates, Members, CopiesCurrent
<1>3. CASE DeckStep
  <2>1. PICK p \in Players : PlaceCard(p) \/ ReplaceCard(p) \/ RemoveCard(p) \/ RecomputeDeck(p)
    BY <1>3 DEF DeckStep
  <2>2. cards[p] \in 0..DeckSize /\ DeckSize \in Nat
    BY <1>1 DEF DeckTypeOK, DeckAssumption
  <2>3. \E n \in 0..DeckSize : \E e : WriteDeck(p, n, e)
    <3>1. CASE PlaceCard(p)
      BY <2>2, <3>1 DEF PlaceCard
    <3>2. CASE RemoveCard(p)
      BY <2>2, <3>2 DEF RemoveCard
    <3>3. CASE ReplaceCard(p) \/ RecomputeDeck(p)
      BY <2>2, <3>3 DEF ReplaceCard, RecomputeDeck
    <3> QED  BY <2>1, <3>1, <3>2, <3>3
  <2>4. CopiesCurrent' /\ Members(paged') = {q \in Players : cards'[q] > 0}
    BY <1>1, <2>3, WriteDeckExact
  <2> QED  BY <1>1, <2>4 DEF IndexExact, IndexDistinct
<1>4. CASE IndexStep
  BY <1>1, <1>4, NothingToMigrate DEF IndexStep
<1> QED  BY <1>2, <1>3, <1>4, OthersKeepDecks

(* In a deployment that never held unpaged decks and keeps its mode, the   *)
(* pages hold each deck with a card, once, whatever happens to the decks:  *)
(* write_deck, add_deck_page_index, remove_deck_page_index.                *)
THEOREM PagesAreExact ==
    ASSUME LegacyDecks = << >>, ModeChanges = {}
    PROVE  Spec => []IndexExact
<1>1. Init => IndexExact /\ CopiesCurrent
  <2> SUFFICES ASSUME Init PROVE IndexExact /\ CopiesCurrent
    OBVIOUS
  <2>1. /\ paged = << >> /\ legacy = << >>
        /\ \A p \in Players : cards[p] = 0
    BY DEF Init, DeckInit
  <2> QED  BY <2>1 DEF IndexExact, NoDuplicates, Members, CopiesCurrent
<1>2. /\ RoundInv /\ IndexInv /\ IndexInv' /\ [Next]_vars
      /\ IndexExact /\ CopiesCurrent
      => IndexExact' /\ CopiesCurrent'
  BY DeckAssumption, PotAssumption, ExactStep
<1> QED  BY <1>1, <1>2, RoundInvariant, IndexInvariant, PTL DEF Spec

-----------------------------------------------------------------------------
(* What a pass reads names no owner twice, and the count it stops at is    *)
(* not below the number of entries: read_decks_count falls back on the     *)
(* legacy list only where the pages are empty.                             *)
LEMMA SourceFacts ==
    ASSUME DeckTypeOK, IndexInv
    PROVE  /\ NoDuplicates(DeckSource)
           /\ Len(DeckSource) \in Nat
           /\ ReadDecksCount \in Nat
           /\ Len(DeckSource) <= ReadDecksCount
<1>1. Len(legacy) \in Nat /\ Len(paged) \in Nat
  BY LenProperties DEF DeckTypeOK
<1>2. CASE ~pagesOnly /\ ~hasCount
  <2> DEFINE owners == [i \in 1..Len(legacy) |-> legacy[i].owner]
  <2>1. DeckSource = owners
    BY <1>2 DEF DeckSource
  <2>2. Len(owners) = Len(legacy)
    BY <1>1
  <2>3. NoDuplicates(owners)
    BY <2>2 DEF NoDuplicates, IndexInv, LegacyDistinct
  <2>4. Len(paged) = 0
    BY <1>1, <1>2 DEF IndexInv
  <2>5. ReadDecksCount = Len(legacy)
    BY <1>2, <2>4 DEF ReadDecksCount
  <2> QED  BY <1>1, <2>1, <2>2, <2>3, <2>5
<1>3. CASE pagesOnly \/ hasCount
  <2>1. DeckSource = paged
    BY <1>3 DEF DeckSource
  <2>2. Len(paged) <= ReadDecksCount /\ ReadDecksCount \in Nat
    BY <1>1 DEF ReadDecksCount
  <2> QED  BY <1>1, <2>1, <2>2 DEF IndexInv, IndexDistinct
<1> QED  BY <1>2, <1>3

-----------------------------------------------------------------------------
(* A pass cuts the decks in two: those up to the cursor and those ahead.   *)

Holders(I) == {p \in Players : Complete(p) /\ \E i \in I : DeckSource[i] = p}
Passed(n) == Holders(1..n)
Ahead(n) == Holders((n + 1)..Len(DeckSource))

LEMMA AllPassed ==
    ASSUME DeckTypeOK
    PROVE  /\ Participants(DeckSource) = Passed(Len(DeckSource))
           /\ Ahead(0) = Passed(Len(DeckSource))
           /\ Passed(0) = {}
           /\ Ahead(Len(DeckSource)) = {}
<1>1. DeckSource \in Seq(Players) /\ Len(DeckSource) \in Nat
  BY DeckSourceType, LenProperties
<1>2. \A i \in 1..Len(DeckSource) : DeckSource[i] \in Players
  BY <1>1, ElementOfSeq
<1>3. Participants(DeckSource) = Passed(Len(DeckSource))
  BY <1>2 DEF Participants, Members, Passed, Holders
<1>4. /\ 1..0 = {} /\ (0 + 1) = 1
      /\ (Len(DeckSource) + 1)..Len(DeckSource) = {}
  BY <1>1
<1> QED  BY <1>3, <1>4 DEF Passed, Ahead, Holders

LEMMA PageOf ==
    ASSUME DeckTypeOK, NEW c \in Nat, c <= Len(DeckSource), NEW limit \in Nat,
           NEW page, page = ReadDecksPage(c, limit)
    PROVE  /\ Len(page) \in Nat
           /\ c + Len(page) <= Len(DeckSource)
           /\ Participants(page) = Holders((c + 1)..(c + Len(page)))
<1>1. DeckSource \in Seq(Players) /\ Len(DeckSource) \in Nat
  BY DeckSourceType, LenProperties
<1>2. \A i \in 1..Len(DeckSource) : DeckSource[i] \in Players
  BY <1>1, ElementOfSeq
<1>3. CASE c >= Len(DeckSource)
  <2>1. page = << >> /\ Len(page) = 0
    BY <1>3 DEF ReadDecksPage
  <2>2. Members(page) = {} /\ (c + 1)..(c + Len(page)) = {}
    BY <2>1 DEF Members
  <2> QED  BY <1>1, <2>1, <2>2 DEF Participants, Holders
<1>4. CASE c < Len(DeckSource)
  <2> DEFINE e == Smaller(c + limit, Len(DeckSource))
  <2>1. e \in Nat /\ c <= e /\ e <= Len(DeckSource)
    BY <1>1, <1>4 DEF Smaller
  <2>2. page = SubSeq(DeckSource, c + 1, e)
    <3>1. ~(c >= Len(DeckSource))
      BY <1>1, <1>4
    <3> QED  BY <3>1, Zenon DEF ReadDecksPage
  <2> HIDE DEF e
  <2>3. Len(page) = e - c /\ \A i \in 1..(e - c) : page[i] = DeckSource[c + i]
    <3>1. /\ Len(page) = IF c + 1 <= e THEN e - (c + 1) + 1 ELSE 0
          /\ \A i \in 1..(e - (c + 1) + 1) : page[i] = DeckSource[c + 1 + i - 1]
      BY <1>1, <2>1, <2>2, SubSeqProperties
    <3>2. e - (c + 1) + 1 = e - c /\ (c + 1 <= e \/ e - c = 0)
      BY <2>1
    <3>3. Len(page) = e - c
      BY <3>1, <3>2
    <3>4. ASSUME NEW i \in 1..(e - c) PROVE page[i] = DeckSource[c + i]
      <4>1. c + 1 + i - 1 = c + i
        BY <2>1
      <4> QED  BY <3>1, <3>2, <4>1
    <3> QED  BY <3>3, <3>4
  <2>4. Members(page) = {DeckSource[i] : i \in (c + 1)..e}
    <3>1. ASSUME NEW i \in (c + 1)..e PROVE DeckSource[i] \in Members(page)
      <4>1. i - c \in 1..(e - c) /\ c + (i - c) = i
        BY <2>1
      <4> QED  BY <2>3, <4>1 DEF Members
    <3>2. ASSUME NEW i \in 1..(e - c)
          PROVE  page[i] \in {DeckSource[k] : k \in (c + 1)..e}
      <4>1. c + i \in (c + 1)..e
        BY <2>1
      <4> QED  BY <2>3, <4>1
    <3> QED  BY <2>3, <3>1, <3>2 DEF Members
  <2>5. \A i \in (c + 1)..e : DeckSource[i] \in Players
    BY <1>1, <1>2, <2>1
  <2>6. Participants(page) = Holders((c + 1)..e)
    BY <2>4, <2>5 DEF Participants, Holders
  <2>7. c + Len(page) = e
    BY <2>1, <2>3
  <2> QED  BY <1>1, <2>1, <2>3, <2>6, <2>7
<1> QED  BY <1>1, <1>3, <1>4

(* S consists of T and U, which have nothing in common.                    *)
Splits(S, T, U) == S = T \cup U /\ T \cap U = {}

LEMMA HoldersSplit ==
    ASSUME NoDuplicates(DeckSource), NEW I \in SUBSET (1..Len(DeckSource)),
           NEW J \in SUBSET (1..Len(DeckSource)), NEW K, Splits(K, I, J)
    PROVE  Splits(Holders(K), Holders(I), Holders(J))
<1>1. Holders(K) = Holders(I) \cup Holders(J)
  BY DEF Holders, Splits
<1>2. Holders(I) \cap Holders(J) = {}
  BY DEF Holders, Splits, NoDuplicates
<1> QED  BY <1>1, <1>2 DEF Splits

(* One batch moves the owners on its page from one side to the other.      *)
LEMMA PageMoves ==
    ASSUME DeckTypeOK, NoDuplicates(DeckSource),
           NEW c \in Nat, c <= Len(DeckSource), NEW limit \in Nat,
           NEW page, page = ReadDecksPage(c, limit)
    PROVE  /\ Len(page) \in Nat
           /\ c + Len(page) \in Nat /\ c + Len(page) <= Len(DeckSource)
           /\ Splits(Passed(c + Len(page)), Passed(c), Participants(page))
           /\ Splits(Ahead(c), Ahead(c + Len(page)), Participants(page))
<1>1. PICK next : next = c + Len(page)
  OBVIOUS
<1>2. PICK all : all = Len(DeckSource)
  OBVIOUS
<1>3. all \in Nat
  BY <1>2, DeckSourceType, LenProperties
<1>4. Len(page) \in Nat /\ next \in Nat /\ c <= next /\ next <= all
  <2>1. Len(page) \in Nat /\ c + Len(page) <= Len(DeckSource)
    BY PageOf
  <2> QED  BY <1>1, <1>2, <2>1
<1>5. Participants(page) = Holders((c + 1)..next)
  BY <1>1, PageOf
<1>6. /\ Splits(1..next, 1..c, (c + 1)..next)
      /\ Splits((c + 1)..all, (next + 1)..all, (c + 1)..next)
  BY <1>3, <1>4 DEF Splits
<1>7. /\ 1..c \in SUBSET (1..all) /\ (c + 1)..next \in SUBSET (1..all)
      /\ (next + 1)..all \in SUBSET (1..all)
  BY <1>3, <1>4
<1>8. Splits(Holders(1..next), Holders(1..c), Holders((c + 1)..next))
  BY <1>2, <1>6, <1>7, HoldersSplit
<1>9. Splits(Holders((c + 1)..all), Holders((next + 1)..all), Holders((c + 1)..next))
  BY <1>2, <1>6, <1>7, HoldersSplit
<1> QED  BY <1>1, <1>2, <1>4, <1>5, <1>8, <1>9 DEF Passed, Ahead

-----------------------------------------------------------------------------
(* Steps that leave a round open in an undisturbed history.                *)

LEMMA NoDeckStepInRound ==
    ASSUME RoundInv, NEW r \in Rounds, Open(r)
    PROVE  ~DeckStep
<1>1. inProgress = r /\ inProgress # NoRound
  BY DEF RoundInv, SinglePot, Rounds, NoRound
<1>2. Status(inProgress) \notin {"Init", "Finalized"}
  BY <1>1 DEF Status, Open
<1> QED  BY <1>1, <1>2 DEF DeckStep, DeckChangesAllowed, DeckPowerAllowed

QuietStep(r) ==
    \/ OpenPotStart(r)
    \/ \E limit \in Limits : ProcessTotals(r, limit)
    \/ \E limit \in Limits : ProcessShares(r, limit)
    \/ Open(r) /\ UNCHANGED roundVars /\ (OtherStep \/ UNCHANGED vars)

LEMMA StaysOpen ==
    ASSUME RoundInv, [Next]_vars, undisturbed', NEW r \in Rounds, Open(r)'
    PROVE  /\ undisturbed
           /\ UNCHANGED deckVars
           /\ QuietStep(r)
<1>1. ASSUME NEW s \in Rounds, RoundStep(s)
      PROVE  undisturbed /\ QuietStep(r)
  <2>1. undisturbed' = undisturbed
    BY <1>1 DEF RoundStep, OpenPotStart, ProcessTotals, ProcessShares,
                OpenPotFinalize, OpenPot, ForceResetPot, ghostVars
  <2>2. CASE s = r
    <3>1. ~OpenPotFinalize(r) /\ ~OpenPot(r) /\ ~ForceResetPot(r)
      BY DEF OpenPotFinalize, OpenPot, ForceResetPot, Open, RoundInv, TypeOK
    <3> QED  BY <1>1, <2>1, <2>2, <3>1 DEF RoundStep, QuietStep
  <2>3. CASE s # r
    <3>1. status'[r] = status[r]
      BY <1>1, <2>3 DEF RoundStep, OpenPotStart, ProcessTotals, ProcessShares,
                        OpenPotFinalize, OpenPot, ForceResetPot, RoundInv, TypeOK
    <3>2. Open(r) /\ inProgress = r /\ r # NoRound
      BY <3>1 DEF Open, RoundInv, SinglePot, Rounds, NoRound
    <3>3. ~Open(s) /\ ~CanStart(s)
      BY <2>3, <3>2, StartsAlone DEF RoundInv, SinglePot
    <3> QED
      BY <1>1, <2>1, <3>3
         DEF RoundStep, OpenPotStart, ProcessTotals, ProcessShares, OpenPotFinalize,
             OpenPot, ForceResetPot, Open
  <2> QED  BY <2>2, <2>3
<1>2. ASSUME UNCHANGED roundVars, OtherStep \/ UNCHANGED vars PROVE QuietStep(r)
  BY <1>2 DEF roundVars, Open, QuietStep
<1>3. ~DeckStep /\ ~IndexStep
  <2>1. CASE DeckStep
    <3>1. Open(r)
      BY <2>1 DEF DeckStep, roundVars, Open
    <3> QED  BY <2>1, <3>1, NoDeckStepInRound
  <2>2. CASE IndexStep
    <3>1. Open(r) /\ inProgress = NoRound
      BY <2>2 DEF IndexStep, roundVars, Open
    <3> QED  BY <3>1 DEF RoundInv, SinglePot, Rounds, NoRound
  <2> QED  BY <2>1, <2>2
<1>4. UNCHANGED deckVars
  BY <1>3, OthersKeepDecks
<1>5. CASE OtherStep
  <2>1. UNCHANGED roundVars
    BY <1>5, OtherStepKeepsRounds
  <2>2. undisturbed' = undisturbed
    BY <1>3, <1>5 DEF OtherStep, AccumulatePot, AccumulatePotToken, RegisterToken,
                      UnregisterToken, UpdateDogstarFeePercentage, SetFeePercentages,
                      ClaimHawAiPotShare, ClaimDogstarFees, ghostVars
  <2> QED  BY <1>2, <1>4, <1>5, <2>1, <2>2
<1>6. CASE UNCHANGED vars
  <2>1. undisturbed' = undisturbed /\ UNCHANGED roundVars
    BY <1>6 DEF vars, ghostVars
  <2> QED  BY <1>2, <1>4, <1>6, <2>1
<1> QED  BY <1>1, <1>4, <1>5, <1>6 DEF Next, OtherStep

(* What the two sides are after a step that leaves the decks alone.        *)
LEMMA SidesNext ==
    ASSUME UNCHANGED deckVars, NEW r, NEW k, cursor'[r] = k
    PROVE  /\ (Passed(cursor[r]))' = Passed(k)
           /\ (Ahead(cursor[r]))' = Ahead(k)
           /\ DeckSource' = DeckSource
           /\ Participants(DeckSource)' = Participants(DeckSource)
<1>1. DeckSource' = DeckSource
  BY DEF deckVars, DeckSource
<1>2. cards' = cards
  BY DEF deckVars
<1>3. \A p : Complete(p)' <=> Complete(p)
  BY <1>2 DEF Complete
<1> QED  BY <1>1, <1>3 DEF Passed, Ahead, Holders, Participants, Members

-----------------------------------------------------------------------------
(* How far a pass has come, and whom it has credited.                      *)

CursorSafe(r) == cursor[r] <= Len(DeckSource) /\ Len(DeckSource) <= totalDecks[r]

CreditSafe(r) ==
    status[r] = "Shares" =>
        \A p \in Passed(cursor[r]) :
            share[r][p] = SharePercentage(effective[p], snapshot[r].power)

PassInv == undisturbed => \A r \in Rounds : Open(r) => CursorSafe(r) /\ CreditSafe(r)

(* A batch of either pass, in terms of the page it reads.                  *)
LEMMA BatchPage ==
    ASSUME PotAssumption, RoundInv, IndexInv, NEW r \in Rounds, CursorSafe(r),
           NEW limit \in Limits, NEW page, page = ReadDecksPage(cursor[r], limit),
           NEW c, c = cursor[r]
    PROVE  /\ c \in Nat /\ Len(page) \in Nat
           /\ c + Len(page) \in Nat /\ c + Len(page) <= Len(DeckSource)
           /\ Splits(Passed(c + Len(page)), Passed(c), Participants(page))
           /\ Splits(Ahead(c), Ahead(c + Len(page)), Participants(page))
<1>1. DeckTypeOK /\ c \in Nat /\ limit \in Nat
  BY DEF RoundInv, TypeOK, PotAssumption
<1>2. c <= Len(DeckSource) /\ NoDuplicates(DeckSource)
  BY <1>1, SourceFacts DEF CursorSafe
<1>3. page = ReadDecksPage(c, limit)
  OBVIOUS
<1> QED  BY <1>1, <1>2, <1>3, PageMoves

LEMMA PassStep ==
    ASSUME DeckAssumption, PotAssumption, RoundInv, IndexInv, PassInv, [Next]_vars,
           undisturbed', NEW r \in Rounds, Open(r)'
    PROVE  CursorSafe(r)' /\ CreditSafe(r)'
<1>1. undisturbed /\ UNCHANGED deckVars /\ QuietStep(r)
  BY StaysOpen
<1>2. /\ DeckSource' = DeckSource /\ effective' = effective
      /\ Len(DeckSource) \in Nat /\ DeckTypeOK
  BY <1>1, SourceFacts DEF deckVars, DeckSource, RoundInv, TypeOK
<1>3. PICK k : k = cursor'[r]
  OBVIOUS
<1>4. (Passed(cursor[r]))' = Passed(k)
  BY <1>1, <1>3, SidesNext
<1>5. CASE OpenPotStart(r)
  <2>1. cursor'[r] = 0 /\ totalDecks'[r] = ReadDecksCount /\ status'[r] = "Totals"
    BY <1>5 DEF OpenPotStart, RoundInv, TypeOK
  <2>2. Len(DeckSource) <= ReadDecksCount
    BY <1>2, SourceFacts
  <2> QED  BY <1>2, <2>1, <2>2 DEF CursorSafe, CreditSafe
<1>6. ASSUME NEW limit \in Limits, ProcessTotals(r, limit)
      PROVE  CursorSafe(r)' /\ CreditSafe(r)'
  <2>1. CursorSafe(r)
    BY <1>1, <1>6 DEF PassInv, ProcessTotals, Open
  <2>2. PICK page : page = ReadDecksPage(cursor[r], limit)
    OBVIOUS
  <2>3. PICK c : c = cursor[r]
    OBVIOUS
  <2>4. c + Len(page) \in Nat /\ c + Len(page) <= Len(DeckSource)
    BY <2>1, <2>2, <2>3, BatchPage
  <2>5. /\ totalDecks' = totalDecks
        /\ \/ cursor'[r] = 0
           \/ cursor'[r] = c + Len(page) /\ status'[r] = "Totals"
    BY <1>6, <2>2, <2>3 DEF ProcessTotals, RoundInv, TypeOK
  <2>6. CursorSafe(r)'
    BY <1>2, <2>1, <2>4, <2>5 DEF CursorSafe
  <2>7. CreditSafe(r)'
    <3>1. CASE k = 0
      <4>1. (Passed(cursor[r]))' = {}
        BY <1>2, <1>4, <3>1, AllPassed
      <4> QED  BY <4>1 DEF CreditSafe
    <3>2. CASE k # 0
      BY <1>3, <2>5, <3>2 DEF CreditSafe
    <3> QED  BY <3>1, <3>2
  <2> QED  BY <2>6, <2>7
<1>7. ASSUME NEW limit \in Limits, ProcessShares(r, limit)
      PROVE  CursorSafe(r)' /\ CreditSafe(r)'
  <2>1. CursorSafe(r) /\ CreditSafe(r) /\ status[r] = "Shares"
    BY <1>1, <1>7 DEF PassInv, ProcessShares, Open
  <2>2. PICK page : page = ReadDecksPage(cursor[r], limit)
    OBVIOUS
  <2>3. PICK c : c = cursor[r]
    OBVIOUS
  <2>4. /\ c + Len(page) \in Nat /\ c + Len(page) <= Len(DeckSource)
        /\ Splits(Passed(c + Len(page)), Passed(c), Participants(page))
    BY <2>1, <2>2, <2>3, BatchPage
  <2>5. /\ totalDecks' = totalDecks /\ snapshot' = snapshot
        /\ cursor'[r] = c + Len(page)
        /\ share'[r] = CreditedShares(snapshot[r], page, r)
    BY <1>7, <2>2, <2>3 DEF ProcessShares, RoundInv, TypeOK
  <2>6. CursorSafe(r)'
    BY <1>2, <2>1, <2>4, <2>5 DEF CursorSafe
  <2>7. CreditSafe(r)'
    <3>1. (Passed(cursor[r]))' = Passed(c) \cup Participants(page)
      BY <1>3, <1>4, <2>4, <2>5 DEF Splits
    <3>2. Passed(c) \subseteq Players
      BY DEF Passed, Holders
    <3>3. Participants(page) \subseteq Players
      BY <2>4 DEF Passed, Holders, Splits
    <3>4. ASSUME NEW p \in Passed(c) \cup Participants(page)
          PROVE  share'[r][p] = SharePercentage(effective[p], snapshot[r].power)
      <4>1. share'[r][p] = IF p \in Participants(page)
                           THEN ShareIn(snapshot[r], p) ELSE share[r][p]
        BY <2>5, <3>2, <3>3 DEF CreditedShares
      <4>2. CASE p \in Participants(page)
        BY <4>1, <4>2 DEF ShareIn
      <4>3. CASE p \notin Participants(page)
        BY <2>1, <2>3, <4>1, <4>3 DEF CreditSafe
      <4> QED  BY <4>2, <4>3
    <3> QED  BY <1>2, <2>5, <3>1, <3>4 DEF CreditSafe
  <2> QED  BY <2>6, <2>7
<1>8. CASE Open(r) /\ UNCHANGED roundVars
  <2>1. CursorSafe(r) /\ CreditSafe(r)
    BY <1>1, <1>8 DEF PassInv
  <2>2. cursor' = cursor /\ totalDecks' = totalDecks /\ snapshot' = snapshot
        /\ share' = share /\ status' = status
    BY <1>8 DEF roundVars
  <2>3. CursorSafe(r)'
    BY <1>2, <2>1, <2>2 DEF CursorSafe
  <2>4. (Passed(cursor[r]))' = Passed(cursor[r])
    BY <1>3, <1>4, <2>2
  <2> QED  BY <1>2, <2>1, <2>2, <2>3, <2>4 DEF CreditSafe
<1> QED  BY <1>1, <1>5, <1>6, <1>7, <1>8 DEF QuietStep

LEMMA PassInvariant == Spec => []PassInv
<1>1. Init => PassInv
  BY DEF Init, PassInv, Open
<1>2. RoundInv /\ IndexInv /\ PassInv /\ [Next]_vars => PassInv'
  BY PassStep, DeckAssumption, PotAssumption DEF PassInv
<1> QED  BY <1>1, <1>2, RoundInvariant, IndexInvariant, PTL DEF Spec

(* No batch size and no order of calls skips a deck: once the cursor has   *)
(* reached the number of decks, every complete deck has its share.         *)
THEOREM EveryoneIsCredited == Spec => []EveryDeckCredited
<1>1. RoundInv /\ IndexInv /\ PassInv => EveryDeckCredited
  <2> SUFFICES ASSUME RoundInv, IndexInv, PassInv, undisturbed, NEW r \in Rounds,
                      status[r] = "Shares", cursor[r] >= totalDecks[r],
                      NEW p \in Participants(DeckSource)
               PROVE  share[r][p] = SharePercentage(effective[p], snapshot[r].power)
    BY DEF EveryDeckCredited
  <2>1. CursorSafe(r) /\ CreditSafe(r)
    BY DEF PassInv, Open
  <2>2. /\ cursor[r] \in Nat /\ totalDecks[r] \in Nat /\ Len(DeckSource) \in Nat
        /\ DeckTypeOK
    BY SourceFacts DEF RoundInv, TypeOK
  <2>3. cursor[r] = Len(DeckSource)
    BY <2>1, <2>2 DEF CursorSafe
  <2>4. p \in Passed(cursor[r])
    BY <2>2, <2>3, AllPassed
  <2> QED  BY <2>1, <2>4 DEF CreditSafe
<1> QED  BY <1>1, RoundInvariant, IndexInvariant, PassInvariant, PTL

-----------------------------------------------------------------------------
(* Whom a pass has not reached yet has no share of the round.              *)

Uncredited(r) ==
    /\ status[r] = "Totals" => \A p \in Players : share[r][p] = 0
    /\ status[r] = "Shares" => \A p \in Players \ Passed(cursor[r]) : share[r][p] = 0

FreshInv ==
    \A r \in Rounds :
        /\ status[r] = "Init" => \A p \in Players : share[r][p] = 0
        /\ undisturbed => Uncredited(r)

(* The owners on the next page have no share yet.                          *)
LEMMA PageUncredited ==
    ASSUME PotAssumption, RoundInv, IndexInv, NEW r \in Rounds, CursorSafe(r),
           Uncredited(r), status[r] = "Shares", NEW limit \in Limits,
           NEW page, page = ReadDecksPage(cursor[r], limit)
    PROVE  \A p \in Participants(page) : p \in Players /\ share[r][p] = 0
<1>1. PICK c : c = cursor[r]
  OBVIOUS
<1>2. Splits(Passed(c + Len(page)), Passed(c), Participants(page))
  BY <1>1, BatchPage
<1>3. \A p \in Participants(page) : p \in Players \ Passed(c)
  BY <1>2 DEF Splits, Passed, Holders
<1> QED  BY <1>1, <1>3 DEF Uncredited

LEMMA UncreditedStep ==
    ASSUME DeckAssumption, PotAssumption, RoundInv, IndexInv, PassInv, FreshInv,
           [Next]_vars, undisturbed', NEW r \in Rounds, Open(r)'
    PROVE  Uncredited(r)'
<1>1. undisturbed /\ UNCHANGED deckVars /\ QuietStep(r)
  BY StaysOpen
<1>2. PICK k : k = cursor'[r]
  OBVIOUS
<1>3. (Passed(cursor[r]))' = Passed(k)
  BY <1>1, <1>2, SidesNext
<1>4. CASE OpenPotStart(r)
  <2>1. status[r] = "Init" /\ status'[r] = "Totals" /\ share' = share
    BY <1>4 DEF OpenPotStart, CanStart, RoundInv, TypeOK
  <2> QED  BY <2>1 DEF FreshInv, Uncredited
<1>5. ASSUME NEW limit \in Limits, ProcessTotals(r, limit)
      PROVE  Uncredited(r)'
  <2>1. status[r] = "Totals" /\ share' = share
    BY <1>5 DEF ProcessTotals
  <2>2. \A p \in Players : share'[r][p] = 0
    BY <1>1, <2>1 DEF FreshInv, Uncredited
  <2> QED  BY <2>2 DEF Uncredited
<1>6. ASSUME NEW limit \in Limits, ProcessShares(r, limit)
      PROVE  Uncredited(r)'
  <2>1. CursorSafe(r) /\ Uncredited(r) /\ status[r] = "Shares" /\ status' = status
    BY <1>1, <1>6 DEF PassInv, FreshInv, ProcessShares, Open
  <2>2. PICK page, c : page = ReadDecksPage(cursor[r], limit) /\ c = cursor[r]
    OBVIOUS
  <2>3. Splits(Passed(c + Len(page)), Passed(c), Participants(page))
    BY <2>1, <2>2, BatchPage
  <2>4. k = c + Len(page) /\ share'[r] = CreditedShares(snapshot[r], page, r)
    BY <1>2, <1>6, <2>2 DEF ProcessShares, RoundInv, TypeOK
  <2>5. ASSUME NEW p \in Players \ Passed(k)
        PROVE  share'[r][p] = 0
    <3>1. p \notin Participants(page) /\ p \notin Passed(c)
      BY <2>3, <2>4, <2>5 DEF Splits
    <3>2. share'[r][p] = share[r][p]
      BY <2>4, <3>1 DEF CreditedShares
    <3> QED  BY <2>1, <2>2, <3>1, <3>2 DEF Uncredited
  <2> QED  BY <1>3, <2>1, <2>5 DEF Uncredited
<1>7. CASE Open(r) /\ UNCHANGED roundVars
  <2>1. Uncredited(r) /\ cursor' = cursor /\ status' = status /\ share' = share
    BY <1>1, <1>7 DEF FreshInv, roundVars
  <2> QED  BY <1>2, <1>3, <2>1 DEF Uncredited
<1> QED  BY <1>1, <1>4, <1>5, <1>6, <1>7 DEF QuietStep

LEMMA FreshInvariant == Spec => []FreshInv
<1>1. Init => FreshInv
  BY DEF Init, FreshInv, Uncredited
<1>2. ASSUME RoundInv, IndexInv, PassInv, FreshInv, [Next]_vars, NEW r \in Rounds
      PROVE  /\ status'[r] = "Init" => \A p \in Players : share'[r][p] = 0
             /\ undisturbed' => Uncredited(r)'
  <2>1. undisturbed' => Uncredited(r)'
    <3>1. CASE Open(r)'
      BY <1>2, <3>1, UncreditedStep, DeckAssumption, PotAssumption
    <3>2. CASE ~Open(r)'
      BY <3>2 DEF Open, Uncredited
    <3> QED  BY <3>1, <3>2
  <2>2. status'[r] = "Init" => status[r] = "Init" /\ share'[r] = share[r]
    <3>1. ASSUME NEW s \in Rounds, RoundStep(s)
          PROVE  status'[r] = "Init" => status[r] = "Init" /\ share'[r] = share[r]
      BY <1>2, <3>1 DEF RoundInv, TypeOK, RoundStep, OpenPotStart, ProcessTotals,
                        ProcessShares, OpenPotFinalize, OpenPot, ForceResetPot
    <3> QED
      BY <1>2, <3>1, OtherStepKeepsRounds DEF Next, OtherStep, vars, roundVars
  <2> QED  BY <1>2, <2>1, <2>2 DEF FreshInv
<1>3. RoundInv /\ IndexInv /\ PassInv /\ FreshInv /\ [Next]_vars => FreshInv'
  BY <1>2 DEF FreshInv
<1> QED  BY <1>1, <1>3, RoundInvariant, IndexInvariant, PassInvariant, PTL DEF Spec

(* What the two ways to credit have in common: the owners of a page get    *)
(* a share of round r they did not have, and the parts it stands for.      *)
LEMMA PageCredits ==
    ASSUME PotAssumption, TypeOK, NEW r \in Rounds, NEW page, NEW snap \in Snapshots,
           snapshot'[r] = snap,
           share' = [share EXCEPT ![r] = CreditedShares(snap, page, r)],
           claimable' = CreditedClaims(snap, page),
           \A q \in Participants(page) : q \in Players /\ share[r][q] = 0,
           NEW p \in Players
    PROVE  /\ \A s \in Rounds : share'[s][p] # share[s][p] => FirstCredit(s, p)
           /\ (\E a \in Assets : claimable'[p][a] > claimable[p][a])
                => \E s \in Rounds : share'[s][p] # share[s][p]
<1>1. \A s \in Rounds : s # r => share'[s] = share[s]
  BY DEF TypeOK
<1>2. share'[r] = CreditedShares(snap, page, r)
  BY DEF TypeOK
<1>3. CASE p \notin Participants(page)
  <2>1. share'[r][p] = share[r][p] /\ claimable'[p] = claimable[p]
    BY <1>2, <1>3 DEF CreditedShares, CreditedClaims
  <2>2. \A a \in Assets : claimable[p][a] \in Nat
    BY DEF TypeOK
  <2> QED  BY <1>1, <2>1, <2>2
<1>4. CASE p \in Participants(page)
  <2>1. PICK part : part = ShareIn(snap, p)
    OBVIOUS
  <2>2. /\ share[r][p] = 0 /\ share'[r][p] = part
        /\ \A a \in Assets :
             claimable'[p][a] = claimable[p][a] + Payout(snap.amount[a], part)
    BY <1>2, <1>4, <2>1 DEF CreditedShares, CreditedClaims
  <2>3. FirstCredit(r, p)
    BY <2>2 DEF FirstCredit
  <2>4. ASSUME NEW a \in Assets, claimable'[p][a] > claimable[p][a]
        PROVE  share'[r][p] # share[r][p]
    <3>1. SUFFICES ASSUME part = 0 PROVE FALSE
      BY <2>2
    <3>2. snap.amount[a] \in Nat /\ claimable[p][a] \in Nat /\ BasisPoints \in Nat \ {0}
      BY DEF TypeOK, PotAssumption, Snapshots, Amounts
    <3>3. Payout(snap.amount[a], 0) = 0
      BY <3>2 DEF Payout
    <3> QED  BY <2>2, <2>4, <3>1, <3>2, <3>3
  <2> QED  BY <1>1, <2>3, <2>4
<1> QED  BY <1>3, <1>4

(* The body of CreditedOnce, for one player.                               *)
CreditsOf(p) ==
    /\ \A r \in Rounds : share'[r][p] # share[r][p] => FirstCredit(r, p)
    /\ (\E a \in Assets : claimable'[p][a] > claimable[p][a])
        => \E r \in Rounds : share'[r][p] # share[r][p]

(* A claim takes away; the other calls that leave the rounds alone do not  *)
(* touch what players can claim.                                           *)
LEMMA OthersCreditNobody ==
    ASSUME TypeOK, OtherStep \/ UNCHANGED vars, NEW p \in Players
    PROVE  CreditsOf(p)
<1>1. share' = share
  BY OtherStepKeepsRounds DEF roundVars, vars
<1>2. \A a \in Assets : claimable[p][a] \in Nat
  BY DEF TypeOK
<1>3. CASE claimable' = claimable
  BY <1>1, <1>2, <1>3 DEF CreditsOf
<1>4. ASSUME NEW q \in Players, ClaimHawAiPotShare(q)
      PROVE  CreditsOf(p)
  <2>1. claimable' = [claimable EXCEPT
            ![q] = [a \in Assets |-> claimable[q][a] - Claimed(q)[a]]]
    BY <1>4 DEF ClaimHawAiPotShare
  <2>2. \A a \in Assets : Claimed(q)[a] \in Nat
    BY DEF Claimed, TypeOK
  <2>3. ASSUME NEW a \in Assets PROVE ~(claimable'[p][a] > claimable[p][a])
    <3>1. CASE p = q
      <4>1. claimable'[p][a] = claimable[p][a] - Claimed(q)[a]
        BY <2>1, <3>1 DEF TypeOK
      <4> QED  BY <1>2, <2>2, <4>1
    <3>2. CASE p # q
      <4>1. claimable'[p] = claimable[p]
        BY <2>1, <3>2 DEF TypeOK
      <4> QED  BY <1>2, <4>1
    <3> QED  BY <3>1, <3>2
  <2> QED  BY <1>1, <2>3 DEF CreditsOf
<1> QED
  BY <1>3, <1>4 DEF OtherStep, AccumulatePot, AccumulatePotToken, Accumulate,
     RegisterToken, UnregisterToken, UpdateDogstarFeePercentage, SetFeePercentages,
     ClaimDogstarFees, DeckStep, IndexStep, vars, moneyVars

(* A round opened in one transaction: nobody has a share of it before.     *)
LEMMA OpenPotCredits ==
    ASSUME DeckAssumption, PotAssumption, TypeOK, FreshInv, NEW r \in Rounds,
           OpenPot(r), NEW p \in Players
    PROVE  CreditsOf(p)
<1>1. PICK total \in Nat : total = ReadDecksCount
  BY ReadDecksCountType DEF TypeOK
<1>2. PICK page : page = ReadDecksPage(0, total)
  OBVIOUS
<1>3. PICK snap : snap = [amount |-> Opened,
          participants |-> Smaller(Cardinality(Participants(page)), U32Max),
          power |-> PowerOf(page)]
  OBVIOUS
<1>4. /\ MoveToVault /\ status[r] = "Init" /\ PowerOf(page) \in 0..U32Max
      /\ snapshot' = [snapshot EXCEPT ![r] = snap]
      /\ share' = [share EXCEPT ![r] = CreditedShares(snap, page, r)]
      /\ claimable' = CreditedClaims(snap, page)
  BY <1>1, <1>2, <1>3 DEF OpenPot, CanStart
<1>5. Members(page) \subseteq Players
  BY <1>1, <1>2, ReadDecksPageType DEF TypeOK
<1>6. snap \in Snapshots
  <2>1. Cardinality(Participants(page)) \in Nat /\ U32Max \in Nat
    BY <1>5, ParticipantsCount DEF PotAssumption
  <2>2. Smaller(Cardinality(Participants(page)), U32Max) \in Nat
    BY <2>1 DEF Smaller
  <2>3. Opened \in Amounts
    BY <1>4, MoveToVaultType
  <2> QED  BY <1>3, <1>4, <2>1, <2>2, <2>3 DEF Snapshots
<1>7. \A q \in Participants(page) : q \in Players /\ share[r][q] = 0
  BY <1>4, <1>5 DEF Participants, FreshInv
<1>8. snapshot'[r] = snap
  BY <1>4 DEF TypeOK
<1> QED  BY <1>4, <1>6, <1>7, <1>8, PageCredits DEF CreditsOf

(* No player is credited twice for a round, by whatever batches and in     *)
(* whatever order the keeper calls them, and no other call raises what a   *)
(* player can claim.                                                       *)
THEOREM CreditsComeOnce == Spec => CreditedOnce
<1>1. ASSUME RoundInv, IndexInv, PassInv, FreshInv, [Next]_vars, undisturbed',
             NEW p \in Players
      PROVE  CreditsOf(p)
  <2>1. TypeOK /\ snapshot \in [Rounds -> Snapshots]
    BY <1>1 DEF RoundInv, TypeOK, Snapshots, Amounts
  <2>2. CASE OtherStep \/ UNCHANGED vars
    BY <2>1, <2>2, OthersCreditNobody
  <2>3. ASSUME NEW r \in Rounds, NEW limit \in Limits, ProcessShares(r, limit)
        PROVE  CreditsOf(p)
    <3>1. /\ status[r] = "Shares" /\ Open(r) /\ snapshot' = snapshot
          /\ undisturbed' = undisturbed
      BY <2>3 DEF ProcessShares, ghostVars, Open
    <3>2. CursorSafe(r) /\ Uncredited(r)
      BY <1>1, <3>1 DEF PassInv, FreshInv
    <3>3. PICK page : page = ReadDecksPage(cursor[r], limit)
      OBVIOUS
    <3>4. \A q \in Participants(page) : q \in Players /\ share[r][q] = 0
      BY <1>1, <3>1, <3>2, <3>3, PageUncredited, PotAssumption
    <3>5. PICK snap \in Snapshots : snap = snapshot[r]
      BY <2>1
    <3>6. /\ snapshot'[r] = snap
          /\ share' = [share EXCEPT ![r] = CreditedShares(snap, page, r)]
          /\ claimable' = CreditedClaims(snap, page)
      BY <2>3, <3>1, <3>3, <3>5 DEF ProcessShares
    <3> QED  BY <2>1, <3>4, <3>6, PageCredits, PotAssumption DEF CreditsOf
  <2>4. ASSUME NEW r \in Rounds, OpenPot(r)
        PROVE  CreditsOf(p)
    BY <1>1, <2>1, <2>4, OpenPotCredits, DeckAssumption, PotAssumption
  <2>5. ASSUME NEW r \in Rounds,
               \/ OpenPotStart(r) \/ OpenPotFinalize(r)
               \/ \E limit \in Limits : ProcessTotals(r, limit)
        PROVE  CreditsOf(p)
    <3>1. share' = share /\ claimable' = claimable
      BY <2>5 DEF OpenPotStart, OpenPotFinalize, ProcessTotals, moneyVars
    <3>2. \A a \in Assets : claimable[p][a] \in Nat
      BY <2>1 DEF TypeOK
    <3> QED  BY <3>1, <3>2 DEF CreditsOf
  <2>6. ASSUME NEW r \in Rounds PROVE ~ForceResetPot(r)
    BY <1>1 DEF ForceResetPot
  <2> QED
    BY <1>1, <2>2, <2>3, <2>4, <2>5, <2>6 DEF Next, RoundStep, OtherStep
<1>2. RoundInv /\ IndexInv /\ PassInv /\ FreshInv /\ [Next]_vars =>
        (undisturbed' => \A p \in Players : CreditsOf(p))
  BY <1>1
<1>3. Spec => [][undisturbed' => \A p \in Players : CreditsOf(p)]_vars
  BY <1>2, RoundInvariant, IndexInvariant, PassInvariant, FreshInvariant, PTL DEF Spec
<1> QED  BY <1>3 DEF CreditedOnce, CreditsOf

-----------------------------------------------------------------------------
(* Progress: the count a round was started with is the number of entries   *)
(* its passes read, so a batch before the end never comes back empty.      *)

FullCount(r) == PagesEmptied \/ totalDecks[r] = Len(DeckSource)

CountsAll == undisturbed => \A r \in Rounds : Open(r) => FullCount(r)

LEMMA StartCountsAll ==
    ASSUME DeckTypeOK, IndexInv
    PROVE  PagesEmptied \/ ReadDecksCount = Len(DeckSource)
<1>1. Len(legacy) \in Nat /\ Len(paged) \in Nat
  BY LenProperties DEF DeckTypeOK
<1>2. CASE ~pagesOnly /\ ~hasCount
  <2>1. Len(DeckSource) = Len(legacy)
    BY <1>1, <1>2 DEF DeckSource
  <2>2. Len(paged) = 0
    BY <1>1, <1>2 DEF IndexInv
  <2> QED  BY <1>2, <2>1, <2>2 DEF ReadDecksCount
<1>3. CASE pagesOnly \/ hasCount
  BY <1>3 DEF DeckSource, ReadDecksCount, PagesEmptied, DeckTypeOK
<1> QED  BY <1>2, <1>3

LEMMA CountsAllStep ==
    ASSUME RoundInv, IndexInv, CountsAll, [Next]_vars, undisturbed',
           NEW r \in Rounds, Open(r)'
    PROVE  FullCount(r)'
<1>1. undisturbed /\ UNCHANGED deckVars /\ QuietStep(r)
  BY StaysOpen
<1>2. DeckSource' = DeckSource /\ (PagesEmptied' <=> PagesEmptied) /\ DeckTypeOK
  BY <1>1 DEF deckVars, DeckSource, PagesEmptied, RoundInv, TypeOK
<1>3. CASE OpenPotStart(r)
  <2>1. totalDecks'[r] = ReadDecksCount
    BY <1>3 DEF OpenPotStart, RoundInv, TypeOK
  <2> QED  BY <1>2, <2>1, StartCountsAll DEF FullCount
<1>4. CASE Open(r) /\ totalDecks' = totalDecks
  BY <1>1, <1>2, <1>4 DEF CountsAll, FullCount
<1>5. ASSUME NEW limit \in Limits, ProcessTotals(r, limit) \/ ProcessShares(r, limit)
      PROVE  Open(r) /\ totalDecks' = totalDecks
  BY <1>5 DEF ProcessTotals, ProcessShares, Open
<1> QED  BY <1>1, <1>3, <1>4, <1>5 DEF QuietStep, roundVars

LEMMA CountsAllInvariant == Spec => []CountsAll
<1>1. Init => CountsAll
  BY DEF Init, CountsAll, Open
<1>2. RoundInv /\ IndexInv /\ CountsAll /\ [Next]_vars => CountsAll'
  BY CountsAllStep DEF CountsAll
<1> QED  BY <1>1, <1>2, RoundInvariant, IndexInvariant, PTL DEF Spec

(* Before the end of the decks a batch reads at least one.                 *)
LEMMA PageNotEmpty ==
    ASSUME DeckTypeOK, NEW c \in Nat, c < Len(DeckSource), NEW limit \in Nat \ {0}
    PROVE  Len(ReadDecksPage(c, limit)) > 0
<1> DEFINE e == Smaller(c + limit, Len(DeckSource))
<1>1. DeckSource \in Seq(Players) /\ Len(DeckSource) \in Nat
  BY DeckSourceType, LenProperties
<1>2. e \in Nat /\ c + 1 <= e /\ e <= Len(DeckSource)
  BY <1>1 DEF Smaller
<1>3. ReadDecksPage(c, limit) = SubSeq(DeckSource, c + 1, e)
  <2>1. ~(c >= Len(DeckSource))
    BY <1>1
  <2> QED  BY <2>1, Zenon DEF ReadDecksPage
<1> HIDE DEF e
<1>4. Len(SubSeq(DeckSource, c + 1, e)) = e - (c + 1) + 1
  BY <1>1, <1>2, SubSeqProperties
<1> QED  BY <1>2, <1>3, <1>4

(* What the invariants say of the page a batch reads before the end.       *)
LEMMA BatchReads ==
    ASSUME PotAssumption, RoundInv, IndexInv, NEW r \in Rounds, CursorSafe(r),
           totalDecks[r] = Len(DeckSource), NEW limit \in Limits,
           NEW page, page = ReadDecksPage(cursor[r], limit),
           NEW c, c = cursor[r], NEW total, total = totalDecks[r]
    PROVE  /\ c \in Nat /\ total \in Nat /\ c <= total
           /\ Len(page) \in Nat /\ c + Len(page) <= total
           /\ c < total => Len(page) > 0
<1>1. /\ DeckTypeOK /\ c \in Nat /\ total \in Nat /\ limit \in Nat \ {0}
  BY DEF RoundInv, TypeOK, PotAssumption
<1>2. Len(page) \in Nat /\ c + Len(page) <= Len(DeckSource)
  BY BatchPage
<1>3. c < total => Len(page) > 0
  BY <1>1, PageNotEmpty
<1> QED  BY <1>1, <1>2, <1>3 DEF CursorSafe

LEMMA RemainingType ==
    ASSUME TypeOK, NEW r \in Rounds
    PROVE  Remaining(r) \in Int
<1>1. totalDecks[r] \in Nat /\ cursor[r] \in Nat /\ status[r] \in Statuses
  BY DEF TypeOK
<1>2. CASE status[r] = "Totals"
  BY <1>1, <1>2 DEF Remaining
<1>3. CASE status[r] = "Shares"
  BY <1>1, <1>3 DEF Remaining
<1>4. CASE status[r] \notin {"Totals", "Shares"}
  BY <1>1, <1>4 DEF Remaining
<1> QED  BY <1>2, <1>3, <1>4

(* A call of the keeper takes the round further.                           *)
LEMMA KeeperAdvances ==
    ASSUME PotAssumption, RoundInv, IndexInv, NEW r \in Rounds, Open(r), CursorSafe(r),
           totalDecks[r] = Len(DeckSource), Keeper(r)
    PROVE  Remaining(r)' < Remaining(r) /\ Remaining(r)' <= Remaining(r)
<1>1. PICK c, total : c = cursor[r] /\ total = totalDecks[r]
  OBVIOUS
<1>2. c \in Nat /\ total \in Nat /\ c <= total
  BY <1>1, SourceFacts DEF RoundInv, TypeOK, CursorSafe
<1>3. ASSUME NEW limit \in Limits, ProcessTotals(r, limit)
      PROVE  Remaining(r)' < Remaining(r) /\ Remaining(r)' <= Remaining(r)
  <2>1. PICK page : page = ReadDecksPage(cursor[r], limit)
    OBVIOUS
  <2>2. PICK n \in Nat : n = Len(page)
    BY <1>1, <2>1, BatchReads
  <2>3. c + n <= total /\ (c < total => n > 0)
    BY <1>1, <2>1, <2>2, BatchReads
  <2>4. status[r] = "Totals" /\ totalDecks'[r] = total
    BY <1>1, <1>3 DEF ProcessTotals
  <2>5. Remaining(r) = 2 * total + 2 - c
    BY <1>1, <2>4 DEF Remaining
  <2>6. CASE c + n >= total
    <3>1. cursor'[r] = 0 /\ status'[r] = "Shares"
      BY <1>1, <1>3, <2>1, <2>2, <2>6 DEF ProcessTotals, RoundInv, TypeOK
    <3>2. Remaining(r)' = total + 1 - 0
      BY <2>4, <3>1 DEF Remaining
    <3> QED  BY <1>2, <2>5, <3>2
  <2>7. CASE ~(c + n >= total)
    <3>1. cursor'[r] = c + n /\ status'[r] = "Totals"
      BY <1>1, <1>3, <2>1, <2>2, <2>4, <2>7 DEF ProcessTotals, RoundInv, TypeOK
    <3>2. Remaining(r)' = 2 * total + 2 - (c + n)
      BY <2>4, <3>1 DEF Remaining
    <3> QED  BY <1>2, <2>3, <2>5, <2>7, <3>2
  <2> QED  BY <2>6, <2>7
<1>4. ASSUME NEW limit \in Limits, ProcessShares(r, limit)
      PROVE  Remaining(r)' < Remaining(r) /\ Remaining(r)' <= Remaining(r)
  <2>1. PICK page : page = ReadDecksPage(cursor[r], limit)
    OBVIOUS
  <2>2. PICK n \in Nat : n = Len(page)
    BY <1>1, <2>1, BatchReads
  <2>3. n > 0
    BY <1>1, <1>4, <2>1, <2>2, BatchReads DEF ProcessShares
  <2>4. /\ status[r] = "Shares" /\ status'[r] = "Shares" /\ totalDecks'[r] = total
        /\ cursor'[r] = c + n
    BY <1>1, <1>4, <2>1, <2>2 DEF ProcessShares, RoundInv, TypeOK
  <2>5. Remaining(r) = total + 1 - c /\ Remaining(r)' = total + 1 - (c + n)
    BY <1>1, <2>4 DEF Remaining
  <2> QED  BY <1>2, <2>3, <2>5
<1>5. CASE OpenPotFinalize(r)
  <2>1. status[r] = "Shares" /\ status'[r] = "Finalized"
    BY <1>5 DEF OpenPotFinalize, RoundInv, TypeOK
  <2>2. Remaining(r) = total + 1 - c /\ Remaining(r)' = 0
    BY <1>1, <2>1 DEF Remaining
  <2> QED  BY <1>2, <2>2
<1> QED  BY <1>3, <1>4, <1>5 DEF Keeper

(* Nothing else moves an open round.                                       *)
LEMMA OthersLeaveRound ==
    ASSUME RoundInv, [Next]_vars, undisturbed', NEW r \in Rounds, Open(r), ~Keeper(r)
    PROVE  Remaining(r)' = Remaining(r)
<1>1. /\ status'[r] = status[r] /\ cursor'[r] = cursor[r]
      /\ totalDecks'[r] = totalDecks[r]
  <2>1. CASE UNCHANGED roundVars
    BY <2>1 DEF roundVars
  <2>2. ASSUME NEW s \in Rounds, RoundStep(s)
        PROVE  /\ status'[r] = status[r] /\ cursor'[r] = cursor[r]
               /\ totalDecks'[r] = totalDecks[r]
    <3>1. s # r
      <4> SUFFICES ASSUME s = r PROVE FALSE
        OBVIOUS
      <4>1. ~OpenPotStart(r) /\ ~OpenPot(r)
        BY DEF OpenPotStart, OpenPot, CanStart, Open
      <4>2. ~ForceResetPot(r)
        BY DEF ForceResetPot
      <4> QED  BY <2>2, <4>1, <4>2 DEF RoundStep, Keeper
    <3> QED
      BY <2>2, <3>1 DEF RoundStep, OpenPotStart, ProcessTotals, ProcessShares,
                        OpenPotFinalize, OpenPot, ForceResetPot, RoundInv, TypeOK
  <2> QED  BY <2>1, <2>2, OtherStepKeepsRounds DEF Next, OtherStep, vars
<1> QED  BY <1>1 DEF Remaining

(* The measure behind RoundCloses: every batch and the finalize bring an   *)
(* undisturbed round nearer to its end, and no call of anybody, in either  *)
(* mode of the index, takes it back.                                       *)
THEOREM EveryCallAdvances == Spec => RoundAdvances
<1>1. ASSUME RoundInv, IndexInv, PassInv, CountsAll, [Next]_vars,
             NEW r \in Rounds, Open(r), undisturbed', ~PagesEmptied
      PROVE  /\ Remaining(r)' <= Remaining(r)
             /\ Keeper(r) => Remaining(r)' < Remaining(r)
  <2>1. CASE Keeper(r)
    <3>1. undisturbed' = undisturbed
      BY <2>1 DEF Keeper, ProcessTotals, ProcessShares, OpenPotFinalize, ghostVars
    <3>2. CursorSafe(r) /\ totalDecks[r] = Len(DeckSource)
      BY <1>1, <3>1 DEF PassInv, CountsAll, FullCount
    <3>3. Remaining(r)' < Remaining(r) /\ Remaining(r)' <= Remaining(r)
      BY <1>1, <2>1, <3>2, KeeperAdvances, PotAssumption
    <3> QED  BY <3>3
  <2>2. CASE ~Keeper(r)
    <3>1. Remaining(r)' = Remaining(r) /\ Remaining(r) \in Int
      BY <1>1, <2>2, OthersLeaveRound, RemainingType DEF RoundInv
    <3> QED  BY <2>2, <3>1
  <2> QED  BY <2>1, <2>2
<1>2. RoundInv /\ IndexInv /\ PassInv /\ CountsAll /\ [Next]_vars =>
        \A r \in Rounds : Open(r) /\ undisturbed' /\ ~PagesEmptied =>
            /\ Remaining(r)' <= Remaining(r)
            /\ Keeper(r) => Remaining(r)' < Remaining(r)
  BY <1>1
<1> QED
  BY <1>2, RoundInvariant, IndexInvariant, PassInvariant, CountsAllInvariant, PTL
     DEF Spec, RoundAdvances

=============================================================================
