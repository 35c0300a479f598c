-------------------------- MODULE DeckTotalsProofs ---------------------------
(***************************************************************************)
(* Theorems about DeckTotals for all owners, tokens, deck sizes and legacy *)
(* decks, and without the bounds of the model: which cards a deck locks,   *)
(* what becomes of a deck that lost one, that the totals are the sums they *)
(* stand for however deck calls and batches of a rebuild interleave, and   *)
(* that the decks are those of DeckRegistry.                               *)
(***************************************************************************)
EXTENDS DeckTotals, SequenceTheorems, SumLemmas

(* The part of TypeOK the proofs need.                                     *)
LockTypes ==
    /\ lock \in [Cards -> Locks \cup {Absent}]
    /\ deck \in [Owners -> SUBSET TokenIds]

(* A card lost from a deck is still among the deck's tokens, and the deck  *)
(* does not lock it any more, whatever else happened to it since.          *)
LossStays ==
    \A p \in Owners, t \in TokenIds :
        <<<<p, t>>, "Deck">> \in lost => t \in deck[p] /\ lock[<<p, t>>] # "Deck"

DeckSafe == LockTypes /\ DeckLocks /\ LossStays

Assumptions == CardAssumption /\ DeckTotalsAssumption

-----------------------------------------------------------------------------

LEMMA InitSafe ==
    ASSUME Assumptions, Init
    PROVE  DeckSafe
<1>1. /\ lock = [c \in Cards |-> IF c \in LegacyCards THEN "Deck"
                                 ELSE IF c \in MintedCards THEN "None" ELSE Absent]
      /\ deck = [p \in Owners |-> {t \in TokenIds : <<p, t>> \in LegacyCards}]
      /\ lost = {}
  BY DEF Init, CardInit
<1>2. LockTypes
  BY <1>1 DEF LockTypes, Locks
<1>3. DeckLocks
  <2>1. Absent # "Deck"
    BY DEF Assumptions, CardAssumption, Locks
  <2>2. \A p \in Owners, t \in TokenIds : <<p, t>> \in Cards
    BY DEF Cards
  <2> HIDE DEF LegacyCards
  <2> QED  BY <1>1, <2>1, <2>2 DEF DeckLocks
<1>4. LossStays
  BY <1>1 DEF LossStays
<1> QED  BY <1>2, <1>3, <1>4 DEF DeckSafe

(* A step that changes neither lock nor deck nor losses.                   *)
LEMMA SameSafe ==
    ASSUME DeckSafe, lock' = lock, deck' = deck, lost' = lost
    PROVE  DeckSafe'
BY DEF DeckSafe, LockTypes, DeckLocks, LossStays, LostFromDeck

(* A step of one card that no deck holds before or after.                  *)
LEMMA FreeStepSafe ==
    ASSUME DeckSafe, NEW c \in Cards, NEW l \in Locks \cup {Absent},
           lock[c] # "Deck", l # "Deck",
           lock' = [lock EXCEPT ![c] = l], deck' = deck, lost' = lost
    PROVE  DeckSafe'
<1>1. lock'[c] = l /\ \A d \in Cards : d # c => lock'[d] = lock[d]
  BY DEF DeckSafe, LockTypes
<1>2. \A p \in Owners, t \in TokenIds : <<p, t>> \in Cards
  BY DEF Cards
<1>3. LockTypes'
  BY DEF DeckSafe, LockTypes
<1>4. DeckLocks'
  BY <1>1, <1>2 DEF DeckSafe, DeckLocks, LostFromDeck
<1>5. LossStays'
  BY <1>1, <1>2 DEF DeckSafe, LossStays
<1> QED  BY <1>3, <1>4, <1>5 DEF DeckSafe

(* A card that disappears, or is overwritten, with what it leaves behind.  *)
LEMMA LosingStepSafe ==
    ASSUME CardAssumption, DeckSafe, NEW c \in Cards, NEW l \in {"None", Absent},
           lock' = [lock EXCEPT ![c] = l], deck' = deck,
           lost' = lost \cup LostWith(c)
    PROVE  DeckSafe'
<1>1. lock'[c] = l /\ \A d \in Cards : d # c => lock'[d] = lock[d]
  BY DEF DeckSafe, LockTypes
<1>2. \A p \in Owners, t \in TokenIds : <<p, t>> \in Cards
  BY DEF Cards
<1>3. l # "Deck" /\ l \in Locks \cup {Absent}
  BY DEF CardAssumption, Locks
<1>4. LostWith(c) = IF lock[c] \in {"None", Absent} THEN {} ELSE {<<c, lock[c]>>}
  BY DEF LostWith
<1>5. LockTypes'
  BY <1>3 DEF DeckSafe, LockTypes
<1>6. lock[c] = "Deck" => <<c, "Deck">> \in lost'
  BY <1>3, <1>4 DEF CardAssumption, Locks
<1>7. DeckLocks'
  <2> SUFFICES ASSUME NEW p \in Owners, NEW t \in TokenIds
               PROVE  /\ lock'[<<p, t>>] = "Deck" => t \in deck[p]
                      /\ t \in deck[p] => \/ lock'[<<p, t>>] = "Deck"
                                          \/ <<<<p, t>>, "Deck">> \in lost'
    BY DEF DeckLocks, LostFromDeck
  <2>1. /\ lock[<<p, t>>] = "Deck" => t \in deck[p]
        /\ t \in deck[p] => \/ lock[<<p, t>>] = "Deck"
                            \/ <<<<p, t>>, "Deck">> \in lost
    BY DEF DeckSafe, DeckLocks, LostFromDeck
  <2>2. CASE <<p, t>> = c
    BY <1>1, <1>3, <1>6, <2>1, <2>2
  <2>3. CASE <<p, t>> # c
    BY <1>1, <1>2, <2>1, <2>3
  <2> QED  BY <2>2, <2>3
<1>8. LossStays'
  <2> SUFFICES ASSUME NEW p \in Owners, NEW t \in TokenIds,
                      <<<<p, t>>, "Deck">> \in lost'
               PROVE  t \in deck[p] /\ lock'[<<p, t>>] # "Deck"
    BY DEF LossStays
  <2>1. CASE <<<<p, t>>, "Deck">> \in lost
    BY <1>1, <1>2, <1>3, <2>1 DEF DeckSafe, LossStays
  <2>2. CASE <<p, t>> = c /\ lock[c] = "Deck"
    BY <1>1, <1>3, <2>2 DEF DeckSafe, DeckLocks
  <2> QED  BY <1>4, <2>1, <2>2
<1> QED  BY <1>5, <1>7, <1>8 DEF DeckSafe

(* A card released or removed by the record of a position.                 *)
LEMMA ReleaseSafe ==
    ASSUME CardAssumption, DeckSafe, NEW c \in Cards, NEW l \in {"None", Absent},
           lock' = [lock EXCEPT ![c] = l], deck' = deck,
           lost' = lost \cup Use!LostByRelease(c)
    PROVE  DeckSafe'
<1>1. CASE lock[c] = "Deck"
  <2>1. Use!LostByRelease(c) = LostWith(c)
    BY <1>1 DEF Use!LostByRelease, LostWith, CardAssumption, Locks
  <2> QED  BY <2>1, LosingStepSafe
<1>2. CASE lock[c] # "Deck"
  <2>1. lost' = lost
    BY <1>2 DEF Use!LostByRelease
  <2>2. l # "Deck" /\ l \in Locks \cup {Absent}
    BY DEF CardAssumption, Locks
  <2> QED  BY <1>2, <2>1, <2>2, FreeStepSafe
<1> QED  BY <1>1, <1>2

(* apply_deck_update succeeds only for a deck all of whose cards it locks, *)
(* so for a deck that lost none.                                           *)
LEMMA UpdatedDeckWhole ==
    ASSUME DeckSafe, NEW p \in Owners, NEW new, ApplyDeckUpdate(p, new)
    PROVE  LostFromDeck(p) = {}
<1> SUFFICES ASSUME NEW t \in LostFromDeck(p)
             PROVE  FALSE
  OBVIOUS
<1>1. t \in deck[p] /\ t \in TokenIds /\ <<<<p, t>>, "Deck">> \in lost
  BY DEF LostFromDeck, DeckSafe, LockTypes
<1>2. lock[<<p, t>>] = "Deck"
  BY <1>1 DEF ApplyDeckUpdate
<1> QED  BY <1>1, <1>2 DEF DeckSafe, LossStays

LEMMA ApplyDeckUpdateSafe ==
    ASSUME DeckSafe, NEW p \in Owners, NEW new \in SUBSET TokenIds,
           ApplyDeckUpdate(p, new)
    PROVE  DeckSafe'
<1>1. /\ \A t \in deck[p] : lock[<<p, t>>] = "Deck"
      /\ \A t \in new \ deck[p] : lock[<<p, t>>] = "None"
      /\ lock' = Relocked(p, new)
      /\ deck' = [deck EXCEPT ![p] = new]
      /\ lost' = lost
  BY DEF ApplyDeckUpdate, StoreDeck
<1>2. deck'[p] = new /\ \A o \in Owners : o # p => deck'[o] = deck[o]
  BY <1>1 DEF DeckSafe, LockTypes
<1>3. \A o \in Owners, t \in TokenIds :
        lock'[<<o, t>>] = IF o = p /\ t \in deck[p] \ new THEN "None"
                          ELSE IF o = p /\ t \in new \ deck[p] THEN "Deck"
                          ELSE lock[<<o, t>>]
  BY <1>1 DEF Relocked, Cards
<1>4. LockTypes'
  <2>1. lock' \in [Cards -> Locks \cup {Absent}]
    BY <1>1 DEF Relocked, DeckSafe, LockTypes, Locks
  <2>2. deck' \in [Owners -> SUBSET TokenIds]
    BY <1>1 DEF DeckSafe, LockTypes
  <2> QED  BY <2>1, <2>2 DEF LockTypes
<1>5. ASSUME NEW t \in TokenIds PROVE <<<<p, t>>, "Deck">> \notin lost
  BY UpdatedDeckWhole DEF DeckSafe, LossStays, LostFromDeck
<1>6. DeckLocks'
  <2> SUFFICES ASSUME NEW o \in Owners, NEW t \in TokenIds
               PROVE  /\ lock'[<<o, t>>] = "Deck" => t \in deck'[o]
                      /\ t \in deck'[o] => \/ lock'[<<o, t>>] = "Deck"
                                           \/ <<<<o, t>>, "Deck">> \in lost'
    BY DEF DeckLocks, LostFromDeck
  <2>1. /\ lock[<<o, t>>] = "Deck" => t \in deck[o]
        /\ t \in deck[o] => \/ lock[<<o, t>>] = "Deck"
                            \/ <<<<o, t>>, "Deck">> \in lost
    BY DEF DeckSafe, DeckLocks, LostFromDeck
  <2>2. CASE o # p
    BY <1>1, <1>2, <1>3, <2>1, <2>2
  <2>3. CASE o = p
    BY <1>1, <1>2, <1>3, <2>1, <2>3
  <2> QED  BY <2>2, <2>3
<1>7. LossStays'
  <2> SUFFICES ASSUME NEW o \in Owners, NEW t \in TokenIds,
                      <<<<o, t>>, "Deck">> \in lost
               PROVE  t \in deck'[o] /\ lock'[<<o, t>>] # "Deck"
    BY <1>1 DEF LossStays
  <2>1. o # p
    BY <1>5
  <2> QED  BY <1>2, <1>3, <2>1 DEF DeckSafe, LossStays
<1> QED  BY <1>4, <1>6, <1>7 DEF DeckSafe

-----------------------------------------------------------------------------

LEMMA CardStepSafe ==
    ASSUME Assumptions, DeckSafe, CardStep
    PROVE  DeckSafe'
<1>1. deck' = deck /\ CardAssumption
  BY DEF CardStep, Assumptions
<1>2. ASSUME NEW c \in Cards, Mint(c) PROVE DeckSafe'
  <2>1. lock[c] # "Deck" /\ lock' = [lock EXCEPT ![c] = "None"] /\ lost' = lost
    BY <1>1, <1>2 DEF Mint, Exists, CardAssumption, Locks
  <2> QED  BY <1>1, <2>1, FreeStepSafe DEF Locks
<1>3. ASSUME NEW c \in Cards, Burn(c) PROVE DeckSafe'
  BY <1>1, <1>3, LosingStepSafe DEF Burn, RemoveCard
<1>4. ASSUME NEW c \in Cards, NEW n, Use!Take(c, n) \/ Use!Cut(c, n)
      PROVE  DeckSafe'
  <2>1. CASE Use!Take(c, n)
    BY <1>1, <2>1, FreeStepSafe DEF Use!Take, Use!Become, Locks
  <2>2. CASE Use!Cut(c, n)
    BY <1>1, <2>2, SameSafe DEF Use!Cut
  <2> QED  BY <1>4, <2>1, <2>2
<1>5. ASSUME NEW c \in Cards, NEW n, Use!Release(c, n) \/ Use!Remove(c)
      PROVE  DeckSafe'
  BY <1>1, <1>5, ReleaseSafe DEF Use!Release, Use!Remove, Use!Become
<1>6. ASSUME NEW o \in Owners, NEW to \in Owners, NEW t \in TokenIds,
             Transfer(o, to, t)
      PROVE  DeckSafe'
  <2> DEFINE c == <<o, t>>
             d == <<to, t>>
  <2>1. c \in Cards /\ d \in Cards /\ (c = d <=> o = to)
    BY DEF Cards
  <2> HIDE DEF c, d
  <2>2. /\ lock[c] = "None"
        /\ lock' = [lock EXCEPT ![c] = Absent, ![d] = "None"]
        /\ lost' = IF o = to THEN lost ELSE lost \cup LostWith(d)
    BY <1>6 DEF Transfer, c, d
  <2>3. lock'[d] = "None" /\ (c # d => lock'[c] = Absent)
    BY <2>1, <2>2 DEF DeckSafe, LockTypes
  <2>4. CASE c = d
    <3>1. lock' = lock /\ lost' = lost
      BY <2>1, <2>2, <2>4 DEF DeckSafe, LockTypes
    <3> QED  BY <1>1, <3>1, SameSafe
  <2>5. CASE c # d
    <3>1. Absent # "Deck"
      BY <1>1 DEF CardAssumption, Locks
    <3>2. /\ \A x \in Cards : x \notin {c, d} => lock'[x] = lock[x]
          /\ lock' \in [Cards -> Locks \cup {Absent}]
      BY <2>1, <2>2 DEF DeckSafe, LockTypes, Locks
    <3>3. lost' = lost \cup LostWith(d)
      BY <2>1, <2>2, <2>5
    <3>4. LostWith(d) = IF lock[d] \in {"None", Absent} THEN {} ELSE {<<d, lock[d]>>}
      BY DEF LostWith
    <3>5. DeckLocks'
      <4> SUFFICES ASSUME NEW p \in Owners, NEW s \in TokenIds
                   PROVE  /\ lock'[<<p, s>>] = "Deck" => s \in deck[p]
                          /\ s \in deck[p] => \/ lock'[<<p, s>>] = "Deck"
                                              \/ <<<<p, s>>, "Deck">> \in lost'
        BY <1>1 DEF DeckLocks, LostFromDeck
      <4>1. /\ lock[<<p, s>>] = "Deck" => s \in deck[p]
            /\ s \in deck[p] => \/ lock[<<p, s>>] = "Deck"
                                \/ <<<<p, s>>, "Deck">> \in lost
        BY DEF DeckSafe, DeckLocks, LostFromDeck
      <4>2. <<p, s>> \in Cards
        BY DEF Cards
      <4>3. CASE <<p, s>> = c
        BY <2>2, <2>3, <2>5, <3>1, <3>3, <4>1, <4>3
      <4>4. CASE <<p, s>> = d
        BY <2>3, <3>1, <3>3, <3>4, <4>1, <4>4
      <4>5. CASE <<p, s>> \notin {c, d}
        BY <3>2, <3>3, <4>1, <4>2, <4>5
      <4> QED  BY <4>3, <4>4, <4>5
    <3>6. LossStays'
      <4> SUFFICES ASSUME NEW p \in Owners, NEW s \in TokenIds,
                          <<<<p, s>>, "Deck">> \in lost'
                   PROVE  s \in deck[p] /\ lock'[<<p, s>>] # "Deck"
        BY <1>1 DEF LossStays
      <4>1. <<p, s>> \in Cards
        BY DEF Cards
      <4>2. lock'[<<p, s>>] # "Deck"
        <5>1. <<<<p, s>>, "Deck">> \in lost => lock[<<p, s>>] # "Deck"
          BY DEF DeckSafe, LossStays
        <5>2. CASE <<p, s>> \in {c, d}
          BY <2>3, <2>5, <3>1, <5>2
        <5>3. CASE <<p, s>> \notin {c, d}
          <6>1. <<<<p, s>>, "Deck">> \in lost
            BY <3>3, <3>4, <5>3
          <6> QED  BY <3>2, <4>1, <5>1, <5>3, <6>1
        <5> QED  BY <5>2, <5>3
      <4>3. s \in deck[p]
        <5>1. CASE <<<<p, s>>, "Deck">> \in lost
          BY <5>1 DEF DeckSafe, LossStays
        <5>2. CASE <<p, s>> = d /\ lock[d] = "Deck"
          BY <5>2 DEF DeckSafe, DeckLocks
        <5> QED  BY <3>3, <3>4, <5>1, <5>2
      <4> QED  BY <4>2, <4>3
    <3> QED  BY <1>1, <3>2, <3>5, <3>6 DEF DeckSafe, LockTypes
  <2> QED  BY <2>4, <2>5
<1> QED  BY <1>2, <1>3, <1>4, <1>5, <1>6 DEF CardStep, OtherStep

LEMMA StepSafe ==
    ASSUME Assumptions, DeckSafe, [Next]_vars
    PROVE  DeckSafe'
<1>1. CASE UNCHANGED vars
  BY <1>1, SameSafe DEF vars, storeVars
<1>2. CASE DeckStep
  <2>1. ASSUME NEW p \in Owners, NEW t \in TokenIds,
               Place(p, t) \/ RemovePlace(p, t) \/ \E s \in TokenIds : Replace(p, s, t)
        PROVE  DeckSafe'
    <3>1. \E new \in SUBSET TokenIds : ApplyDeckUpdate(p, new)
      <4>1. deck[p] \in SUBSET TokenIds
        BY DEF DeckSafe, LockTypes
      <4> QED  BY <2>1, <4>1 DEF Place, RemovePlace, Replace
    <3> QED  BY <3>1, ApplyDeckUpdateSafe
  <2>2. ASSUME NEW p \in Owners, NEW t \in TokenIds, NEW amount \in TopUps,
               GrowCard(p, t, amount)
        PROVE  DeckSafe'
    <3>1. lock' = lock /\ lost' = lost
      BY <2>2 DEF GrowCard, AddPowerToCard
    <3>2. deck' = deck
      BY <2>2 DEF GrowCard, StoreDeck, DeckSafe, LockTypes
    <3> QED  BY <3>1, <3>2, SameSafe
  <2>3. ASSUME NEW i, MigrateDeck(i) PROVE DeckSafe'
    BY <2>3, SameSafe DEF MigrateDeck, storeVars
  <2> QED  BY <1>2, <2>1, <2>2, <2>3 DEF DeckStep
<1>3. CASE RebuildStep
  <2>1. lock' = lock /\ lost' = lost /\ deck' = deck
    BY <1>3 DEF RebuildStep, RebuildDeckEffective, storeVars
  <2> QED  BY <2>1, SameSafe
<1> QED  BY <1>1, <1>2, <1>3, CardStepSafe DEF Next

-----------------------------------------------------------------------------
(* The totals.                                                             *)

(* The indexes.                                                            *)
IndexTypes ==
    /\ legacy \in Seq(Reg!DeckRecords)
    /\ paged \in Seq(Owners)
    /\ hasCount \in BOOLEAN
    /\ pagesOnly \in BOOLEAN

(* The amounts, and how far a rebuild can have come.                       *)
Amounts ==
    /\ power \in [Cards -> Nat]
    /\ \A p \in Owners : Cardinality(deck[p]) <= DeckSize
    /\ deckPower \in [Owners -> Nat]
    /\ deckBonus \in [Owners -> Nat]
    /\ totalDeckPower \in Nat
    /\ totalEffective \in Nat
    /\ sweep \in Nat \cup {Trusted, Untrusted}
    /\ sweep >= 0 => sweep <= Len(paged)

(* An incomplete deck counts for nothing, so that a call that finds it     *)
(* incomplete takes nothing out of the totals.                             *)
PartialEmpty == \A p \in Owners : ~Full(deck[p]) => deckPower[p] = 0

TotalsSafe ==
    /\ IndexTypes
    /\ Reg!NoDuplicates(paged)
    /\ Amounts
    /\ PartialEmpty
    /\ TotalsSummed

LEMMA EffectiveType ==
    ASSUME NEW n \in Nat, NEW b \in Nat
    PROVE  /\ EffectivePower(n, b) \in Nat
           /\ n = 0 => EffectivePower(n, b) = 0
<1>1. n * (100 + b) \in Nat
  OBVIOUS
<1>2. (n * (100 + b)) \div 100 \in Nat
  <2> DEFINE m == n * (100 + b)
  <2> HIDE DEF m
  <2>1. m \in Nat => m \div 100 \in Nat
    OBVIOUS
  <2> QED  BY <1>1, <2>1 DEF m
<1>3. n = 0 => n * (100 + b) = 0
  OBVIOUS
<1> QED  BY <1>2, <1>3 DEF EffectivePower

LEMMA SumPowersType ==
    ASSUME Assumptions, NEW powers \in [Cards -> Nat], NEW p \in Owners,
           NEW tokens \in SUBSET TokenIds
    PROVE  SumPowers(powers, p, tokens) \in Nat
<1>1. IsFiniteSet(tokens)
  BY FS_Subset DEF Assumptions, DeckTotalsAssumption
<1> DEFINE f == [t \in tokens |-> powers[<<p, t>>]]
<1>2. \A t \in tokens : f[t] \in Nat
  BY DEF Cards
<1> HIDE DEF f
<1>3. SumFunctionOnSet(f, tokens) \in Nat
  BY <1>1, <1>2, SumNat
<1> QED  BY <1>3 DEF SumPowers, f

LEMMA BonusType ==
    ASSUME NEW n
    PROVE  BonusOf(n) \in Nat
BY DEF BonusOf

LEMMA EffectiveOfType ==
    ASSUME Amounts, NEW p \in Owners
    PROVE  EffectiveOf(p) \in Nat
BY EffectiveType DEF Amounts, EffectiveOf

(* What the deck put into the totals is what the totals count for it.      *)
LEMMA TakenOutCounted ==
    ASSUME Amounts, PartialEmpty, NEW p \in Owners
    PROVE  TakenOut(p) = [power |-> deckPower[p], effective |-> EffectiveOf(p)]
<1>1. deckPower[p] \in Nat /\ deckBonus[p] \in Nat
  BY DEF Amounts
<1>2. deckPower[p] = 0 => EffectivePower(deckPower[p], deckBonus[p]) = 0
  BY <1>1, EffectiveType
<1>3. CASE ~Full(deck[p])
  BY <1>3 DEF PartialEmpty, TakenOut, EffectiveOf
<1>4. CASE Full(deck[p]) /\ deckPower[p] = 0
  BY <1>2, <1>4 DEF TakenOut, EffectiveOf
<1>5. CASE Full(deck[p]) /\ deckPower[p] > 0
  BY <1>5 DEF TakenOut, EffectiveOf
<1> QED  BY <1>1, <1>3, <1>4, <1>5

(* A total that counts f goes over to g, which differs in one term.        *)
LEMMA TotalAdjusted ==
    ASSUME NEW S, IsFiniteSet(S), NEW f, NatOn(f, S), NEW g, NEW a \in S,
           AgreeBut(f, g, S, a), g[a] \in Nat
    PROVE  SumFunctionOnSet(g, S)
             = SaturatingSub(SumFunctionOnSet(f, S), f[a]) + g[a]
<1>1. \A x \in S : f[x] \in Nat
  BY DEF NatOn
<1>2. SumFunctionOnSet(g, S) = SumFunctionOnSet(f, S) - f[a] + g[a]
  BY <1>1, SumChange DEF AgreeBut
<1>3. f[a] <= SumFunctionOnSet(f, S) /\ SumFunctionOnSet(f, S) \in Nat
  BY <1>1, SumAtLeast, SumNat
<1> QED  BY <1>1, <1>2, <1>3 DEF SaturatingSub

-----------------------------------------------------------------------------
(* A deck is written.                                                      *)

(* The legacy list: the owner's record is replaced or appended.           *)
LEMMA LegacyWritten ==
    ASSUME IndexTypes, NEW p \in Owners, NEW n \in 0..DeckSize, Reg!WriteLegacy(p, n)
    PROVE  legacy' \in Seq(Reg!DeckRecords)
<1> DEFINE record == [owner |-> p, cards |-> n]
           known == {i \in 1..Len(legacy) : legacy[i].owner = p}
<1>1. record \in Reg!DeckRecords /\ legacy \in Seq(Reg!DeckRecords)
  BY DEF IndexTypes, Reg!DeckRecords
<1>2. CASE pagesOnly
  BY <1>1, <1>2 DEF Reg!WriteLegacy
<1>3. CASE ~pagesOnly /\ known = {}
  <2>1. Append(legacy, record) \in Seq(Reg!DeckRecords)
    BY <1>1, AppendProperties
  <2> QED  BY <1>3, <2>1 DEF Reg!WriteLegacy
<1>4. CASE ~pagesOnly /\ known # {}
  <2> DEFINE at == CHOOSE i \in known : TRUE
  <2>1. at \in known
    BY <1>4
  <2>2. [legacy EXCEPT ![at] = record] \in Seq(Reg!DeckRecords)
    BY <1>1, <2>1, ExceptSeq
  <2> QED  BY <1>4, <2>2 DEF Reg!WriteLegacy
<1> QED  BY <1>2, <1>3, <1>4

(* Adding an owner who is not indexed yet.                                 *)
LEMMA IndexedAdded ==
    ASSUME IndexTypes, NEW p \in Owners, Reg!AddDeckPageIndex(p)
    PROVE  /\ paged' \in Seq(Owners)
           /\ hasCount' \in BOOLEAN
           /\ Reg!NoDuplicates(paged) /\ p \notin Reg!Members(paged)
                => Reg!NoDuplicates(paged')
<1>1. /\ paged' \in Seq(Owners)
      /\ Len(paged) \in Nat
      /\ Len(paged') = Len(paged) + 1
      /\ \A i \in 1..Len(paged) : paged'[i] = paged[i]
      /\ paged'[Len(paged) + 1] = p
  BY AppendProperties, LenProperties DEF IndexTypes, Reg!AddDeckPageIndex
<1>2. ASSUME Reg!NoDuplicates(paged), p \notin Reg!Members(paged)
      PROVE  Reg!NoDuplicates(paged')
  <2>1. SUFFICES ASSUME NEW i \in 1..(Len(paged) + 1),
                        NEW j \in 1..(Len(paged) + 1),
                        paged'[i] = paged'[j]
                 PROVE  i = j
    BY <1>1 DEF Reg!NoDuplicates
  <2>2. \A k \in 1..Len(paged) : paged[k] # p
    BY <1>2 DEF Reg!Members
  <2>3. CASE i <= Len(paged) /\ j <= Len(paged)
    BY <1>1, <1>2, <2>1, <2>3 DEF Reg!NoDuplicates
  <2>4. CASE i = Len(paged) + 1 \/ j = Len(paged) + 1
    BY <1>1, <2>1, <2>2, <2>4
  <2> QED  BY <1>1, <2>3, <2>4
<1> QED  BY <1>1, <1>2 DEF Reg!AddDeckPageIndex

(* Removing an indexed owner by putting the last entry in its place.       *)
LEMMA IndexedRemoved ==
    ASSUME IndexTypes, NEW p \in Reg!Members(paged), Reg!RemoveDeckPageIndex(p)
    PROVE  /\ paged' \in Seq(Owners)
           /\ hasCount' \in BOOLEAN
           /\ Reg!NoDuplicates(paged) => Reg!NoDuplicates(paged')
<1> DEFINE last == Len(paged)
           at == Reg!PositionOf(paged, p)
           moved == [i \in 1..(last - 1) |-> IF i = at THEN paged[last] ELSE paged[i]]
<1>1. last \in Nat /\ \A i \in 1..last : paged[i] \in Owners
  BY LenProperties, ElementOfSeq DEF IndexTypes
<1>2. at \in 1..last /\ paged[at] = p
  BY DEF Reg!PositionOf, Reg!Members
<1>3. last - 1 \in Nat /\ last \in 1..last
  BY <1>1, <1>2
<1>4. paged' = moved
  BY DEF Reg!RemoveDeckPageIndex
<1>5. paged' \in Seq(Owners) /\ Len(paged') = last - 1
  <2>1. \A i \in 1..(last - 1) : moved[i] \in Owners
    BY <1>1, <1>3
  <2>2. moved \in [1..(last - 1) -> Owners]
    BY <2>1
  <2> HIDE DEF moved
  <2>3. moved \in Seq(Owners)
    BY <1>3, <2>2, SeqDef
  <2>4. Len(moved) = last - 1
    BY <1>3, <2>2, <2>3, LenProperties
  <2> QED  BY <1>4, <2>3, <2>4
<1>6. ASSUME Reg!NoDuplicates(paged)
      PROVE  Reg!NoDuplicates(paged')
  <2>1. SUFFICES ASSUME NEW i \in 1..(last - 1), NEW j \in 1..(last - 1),
                        moved[i] = moved[j]
                 PROVE  i = j
    BY <1>4, <1>5 DEF Reg!NoDuplicates
  <2> DEFINE from(k) == IF k = at THEN last ELSE k
  <2>2. from(i) \in 1..last /\ from(j) \in 1..last
    BY <1>1, <1>3
  <2>3. paged[from(i)] = paged[from(j)]
    BY <2>1, <1>3
  <2>4. from(i) = from(j)
    BY <2>2, <2>3, <1>6 DEF Reg!NoDuplicates
  <2> QED  BY <2>4, <1>1, <1>3
<1> QED  BY <1>5, <1>6 DEF Reg!RemoveDeckPageIndex, IndexTypes

LEMMA IndexesWritten ==
    ASSUME IndexTypes, Reg!NoDuplicates(paged), NEW p \in Owners, NEW n \in 0..DeckSize,
           Reg!WriteIndexes(p, n)
    PROVE  IndexTypes' /\ Reg!NoDuplicates(paged')
<1>1. legacy' \in Seq(Reg!DeckRecords)
  BY LegacyWritten DEF Reg!WriteIndexes
<1>2. /\ paged' \in Seq(Owners)
      /\ hasCount' \in BOOLEAN
      /\ Reg!NoDuplicates(paged')
  <2>1. CASE n > 0 /\ p \notin Reg!Members(paged)
    BY <2>1, IndexedAdded DEF Reg!WriteIndexes
  <2>2. CASE n = 0 /\ p \in Reg!Members(paged)
    BY <2>2, IndexedRemoved DEF Reg!WriteIndexes
  <2>3. CASE ~(n > 0 /\ p \notin Reg!Members(paged)) /\ ~(n = 0 /\ p \in Reg!Members(paged))
    BY <2>3 DEF Reg!WriteIndexes, IndexTypes
  <2> QED  BY <2>1, <2>2, <2>3
<1>3. pagesOnly' \in BOOLEAN
  BY DEF Reg!WriteIndexes, IndexTypes
<1> QED  BY <1>1, <1>2, <1>3 DEF IndexTypes

LEMMA StoreDeckKeeps ==
    ASSUME Assumptions, LockTypes, TotalsSafe, NEW p \in Owners,
           NEW new \in SUBSET TokenIds, Cardinality(new) <= DeckSize,
           power' \in [Cards -> Nat], StoreDeck(p, new)
    PROVE  TotalsSafe'
<1> DEFINE total == IF Full(new) THEN SumPowers(power', p, new) ELSE 0
           bonus == IF Full(new) THEN BonusOf(Cardinality(CategoriesIn(new))) ELSE 0
<1>1. total \in Nat /\ bonus \in Nat
  BY SumPowersType, BonusType
<1>2. /\ deck' = [deck EXCEPT ![p] = new]
      /\ deckPower' = [deckPower EXCEPT ![p] = total]
      /\ deckBonus' = [deckBonus EXCEPT ![p] = bonus]
      /\ totalDeckPower' = SaturatingSub(totalDeckPower, deckPower[p]) + total
      /\ totalEffective' = SaturatingSub(totalEffective, EffectiveOf(p))
                              + EffectivePower(total, bonus)
      /\ Reg!WriteIndexes(p, Cardinality(new))
      /\ sweep' = IF sweep >= 0 THEN Untrusted ELSE sweep
  <2>1. TakenOut(p) = [power |-> deckPower[p], effective |-> EffectiveOf(p)]
    BY TakenOutCounted DEF TotalsSafe
  <2> QED  BY <2>1 DEF StoreDeck
<1>3. ~Full(new) => total = 0
  OBVIOUS
<1> HIDE DEF total, bonus
<1>4. /\ deck'[p] = new /\ deckPower'[p] = total /\ deckBonus'[p] = bonus
      /\ \A q \in Owners \ {p} : /\ deck'[q] = deck[q]
                                 /\ deckPower'[q] = deckPower[q]
                                 /\ deckBonus'[q] = deckBonus[q]
      /\ deckPower' \in [Owners -> Nat] /\ deckBonus' \in [Owners -> Nat]
  BY <1>1, <1>2 DEF LockTypes, TotalsSafe, Amounts
<1>5. EffectivePower(total, bonus) \in Nat
  BY <1>1, EffectiveType
<1>6. EffectiveOf(p)' = EffectivePower(total, bonus)
  <2>1. ~Full(new) => EffectivePower(total, bonus) = 0
    BY <1>1, <1>3, EffectiveType
  <2> QED  BY <1>4, <2>1 DEF EffectiveOf
<1>7. \A q \in Owners \ {p} : EffectiveOf(q)' = EffectiveOf(q)
  BY <1>4 DEF EffectiveOf
<1>8. IndexTypes' /\ Reg!NoDuplicates(paged')
  <2>1. Cardinality(new) \in Nat
    BY FS_Subset, FS_CardinalityType DEF Assumptions, DeckTotalsAssumption
  <2>2. Cardinality(new) \in 0..DeckSize
    BY <2>1 DEF Assumptions, DeckTotalsAssumption
  <2> QED  BY <1>2, <2>2, IndexesWritten DEF TotalsSafe
<1>9. PartialEmpty'
  BY <1>3, <1>4 DEF PartialEmpty, TotalsSafe, Full
<1>10. totalDeckPower' = SumFunctionOnSet(deckPower', Owners)
  <2> DEFINE g == deckPower'
  <2>1. NatOn(deckPower, Owners) /\ AgreeBut(deckPower, g, Owners, p)
        /\ g[p] = total
    BY <1>4 DEF NatOn, AgreeBut, TotalsSafe, Amounts
  <2>2. IsFiniteSet(Owners)
    BY DEF Assumptions, DeckTotalsAssumption
  <2> HIDE DEF g
  <2>3. SumFunctionOnSet(g, Owners)
          = SaturatingSub(SumFunctionOnSet(deckPower, Owners), deckPower[p]) + g[p]
    BY <1>1, <2>1, <2>2, TotalAdjusted
  <2>4. totalDeckPower = SumFunctionOnSet(deckPower, Owners)
    BY DEF TotalsSafe, TotalsSummed
  <2> QED  BY <1>2, <2>1, <2>3, <2>4 DEF g
<1>11. sweep = Trusted => totalEffective' = SumEffective'
  <2> DEFINE f == [q \in Owners |-> EffectiveOf(q)]
             g == [q \in Owners |-> EffectiveOf(q)']
  <2>1. NatOn(f, Owners)
    BY EffectiveOfType DEF NatOn, TotalsSafe
  <2>2. AgreeBut(f, g, Owners, p) /\ g[p] = EffectivePower(total, bonus)
        /\ f[p] = EffectiveOf(p)
    BY <1>6, <1>7 DEF AgreeBut
  <2>3. IsFiniteSet(Owners)
    BY DEF Assumptions, DeckTotalsAssumption
  <2>4. SumEffective = SumFunctionOnSet(f, Owners)
        /\ SumEffective' = SumFunctionOnSet(g, Owners)
    BY DEF SumEffective
  <2> HIDE DEF f, g
  <2>5. SumFunctionOnSet(g, Owners)
          = SaturatingSub(SumFunctionOnSet(f, Owners), f[p]) + g[p]
    BY <1>5, <2>1, <2>2, <2>3, TotalAdjusted
  <2>6. sweep = Trusted => totalEffective = SumEffective
    BY DEF TotalsSafe, TotalsSummed
  <2> QED  BY <1>2, <2>2, <2>4, <2>5, <2>6
<1>12. /\ sweep' \in {Trusted, Untrusted}
       /\ sweep' = Trusted => sweep = Trusted
  BY <1>2 DEF TotalsSafe, Amounts, Trusted, Untrusted
<1>13. Amounts'
  <2>1. \A q \in Owners : Cardinality(deck'[q]) <= DeckSize
    BY <1>4 DEF TotalsSafe, Amounts
  <2>2. totalDeckPower' \in Nat /\ totalEffective' \in Nat
    <3>1. deckPower[p] \in Nat /\ EffectiveOf(p) \in Nat
          /\ totalDeckPower \in Nat /\ totalEffective \in Nat
      BY EffectiveOfType DEF TotalsSafe, Amounts
    <3> QED  BY <1>1, <1>2, <1>5, <3>1 DEF SaturatingSub
  <2> QED  BY <1>4, <1>12, <2>1, <2>2 DEF Amounts, Trusted, Untrusted
<1>14. TotalsSummed'
  BY <1>10, <1>11, <1>12 DEF TotalsSummed, Trusted, Untrusted
<1> QED  BY <1>8, <1>9, <1>13, <1>14 DEF TotalsSafe

(* A call on cards that no deck has to be told of.                         *)
LEMMA OtherCallKeeps ==
    ASSUME TotalsSafe, power' \in [Cards -> Nat],
           UNCHANGED <<deck, totalVars, indexVars, sweep>>
    PROVE  TotalsSafe'
<1>1. SumEffective' = SumEffective /\ \A S : SumAt(S)' = SumAt(S)
  BY DEF SumEffective, SumAt, EffectiveOf, totalVars, indexVars
<1> QED
  BY <1>1 DEF TotalsSafe, totalVars, indexVars, IndexTypes, Amounts, PartialEmpty,
              TotalsSummed

LEMMA ApplyDeckUpdateKeeps ==
    ASSUME Assumptions, LockTypes, TotalsSafe, NEW p \in Owners,
           NEW new \in SUBSET TokenIds, Cardinality(new) <= DeckSize,
           ApplyDeckUpdate(p, new)
    PROVE  TotalsSafe'
<1>1. power' \in [Cards -> Nat] /\ StoreDeck(p, new)
  BY DEF ApplyDeckUpdate, TotalsSafe, Amounts
<1> QED  BY <1>1, StoreDeckKeeps

(* The decks that place, replace and remove make.                          *)
LEMMA NewDeckFits ==
    ASSUME Assumptions, LockTypes, Amounts, NEW p \in Owners, NEW t \in TokenIds,
           Place(p, t) \/ RemovePlace(p, t) \/ \E s \in TokenIds : Replace(p, s, t)
    PROVE  \E new \in SUBSET TokenIds :
                Cardinality(new) <= DeckSize /\ ApplyDeckUpdate(p, new)
<1>1. /\ deck[p] \in SUBSET TokenIds /\ IsFiniteSet(deck[p])
      /\ Cardinality(deck[p]) \in Nat /\ Cardinality(deck[p]) <= DeckSize
      /\ DeckSize \in Nat
  BY FS_Subset, FS_CardinalityType
     DEF LockTypes, Amounts, Assumptions, DeckTotalsAssumption
<1>2. CASE Place(p, t)
  <2>1. Cardinality(deck[p] \cup {t}) = Cardinality(deck[p]) + 1
    BY <1>1, <1>2, FS_AddElement DEF Place
  <2> QED  BY <1>1, <1>2, <2>1 DEF Place
<1>3. CASE RemovePlace(p, t)
  <2>1. Cardinality(deck[p] \ {t}) = Cardinality(deck[p]) - 1
    BY <1>1, <1>3, FS_RemoveElement DEF RemovePlace
  <2> QED  BY <1>1, <1>3, <2>1 DEF RemovePlace
<1>4. ASSUME NEW s \in TokenIds, Replace(p, s, t)
      PROVE  \E new \in SUBSET TokenIds :
                Cardinality(new) <= DeckSize /\ ApplyDeckUpdate(p, new)
  <2> DEFINE rest == deck[p] \ {s}
  <2>1. /\ IsFiniteSet(rest) /\ Cardinality(rest) = Cardinality(deck[p]) - 1
        /\ t \notin rest
    BY <1>1, <1>4, FS_RemoveElement DEF Replace
  <2>2. Cardinality(rest \cup {t}) = Cardinality(rest) + 1
    BY <2>1, FS_AddElement
  <2> QED  BY <1>1, <1>4, <2>1, <2>2 DEF Replace
<1> QED  BY <1>2, <1>3, <1>4

LEMMA GrowCardKeeps ==
    ASSUME Assumptions, LockTypes, TotalsSafe, NEW p \in Owners, NEW t \in TokenIds,
           NEW amount \in TopUps, GrowCard(p, t, amount)
    PROVE  TotalsSafe'
<1> DEFINE c == <<p, t>>
<1>1. c \in Cards
  BY DEF Cards
<1>2. power[c] \in Nat /\ amount \in Nat /\ MaxPower \in Nat
  BY <1>1 DEF TotalsSafe, Amounts, Assumptions, CardAssumption
<1> HIDE DEF c
<1>3. power' = [power EXCEPT ![c] = Least(power[c] + amount, MaxPower)]
  BY DEF GrowCard, AddPowerToCard, c
<1>4. power' \in [Cards -> Nat]
  <2>1. Least(power[c] + amount, MaxPower) \in Nat
    BY <1>2 DEF Least
  <2> QED  BY <1>1, <1>3, <2>1 DEF TotalsSafe, Amounts
<1>5. CASE lock[c] = "Deck"
  <2>1. StoreDeck(p, deck[p])
    BY <1>5 DEF GrowCard, c
  <2>2. deck[p] \in SUBSET TokenIds /\ Cardinality(deck[p]) <= DeckSize
    BY DEF LockTypes, TotalsSafe, Amounts
  <2>3. PICK new \in SUBSET TokenIds : new = deck[p]
    BY <2>2
  <2>4. StoreDeck(p, new) /\ Cardinality(new) <= DeckSize
    BY <2>1, <2>2, <2>3 DEF StoreDeck
  <2> QED  BY <1>4, <2>4, StoreDeckKeeps
<1>6. CASE lock[c] # "Deck"
  BY <1>4, <1>6, OtherCallKeeps DEF GrowCard, c
<1> QED  BY <1>5, <1>6

(* Migration appends to the pages and passes no deck a rebuild has passed. *)
LEMMA MigrateDeckKeeps ==
    ASSUME Assumptions, TotalsSafe, NEW i \in 1..Len(legacy), MigrateDeck(i)
    PROVE  TotalsSafe'
<1> DEFINE p == legacy[i].owner
<1>1. p \in Owners
  <2>1. legacy[i] \in Reg!DeckRecords
    BY ElementOfSeq DEF TotalsSafe, IndexTypes
  <2> QED  BY <2>1 DEF Reg!DeckRecords
<1>2. /\ p \notin Reg!Members(paged) /\ Reg!AddDeckPageIndex(p)
      /\ legacy' = legacy /\ pagesOnly' = pagesOnly
      /\ UNCHANGED <<storeVars, deck, totalVars, sweep>>
  BY DEF MigrateDeck, Reg!MigrateDeck
<1>3. IndexTypes' /\ Reg!NoDuplicates(paged')
  <2>1. /\ paged' \in Seq(Owners) /\ hasCount' \in BOOLEAN
        /\ Reg!NoDuplicates(paged')
    BY <1>1, <1>2, IndexedAdded DEF TotalsSafe
  <2> QED  BY <1>2, <2>1 DEF TotalsSafe, IndexTypes
<1>4. /\ Len(paged) \in Nat /\ Len(paged') = Len(paged) + 1
      /\ \A k \in 1..Len(paged) : paged'[k] = paged[k]
  BY <1>1, <1>2, AppendProperties, LenProperties
     DEF Reg!AddDeckPageIndex, TotalsSafe, IndexTypes
<1>5. /\ Amounts' /\ PartialEmpty'
      /\ SumEffective' = SumEffective
      /\ \A q : EffectiveOf(q)' = EffectiveOf(q)
  <2>1. UNCHANGED <<power, deck, deckPower, deckBonus, totalDeckPower,
                    totalEffective, sweep>>
    BY <1>2 DEF totalVars, storeVars
  <2>2. Amounts'
    BY <1>4, <2>1 DEF TotalsSafe, Amounts, Trusted, Untrusted
  <2>3. PartialEmpty'
    BY <2>1 DEF TotalsSafe, PartialEmpty, Full
  <2>4. \A q : EffectiveOf(q)' = EffectiveOf(q)
    BY <2>1 DEF EffectiveOf, Full
  <2>5. SumEffective' = SumEffective
    BY <2>4 DEF SumEffective
  <2> QED  BY <2>2, <2>3, <2>4, <2>5
<1>6. sweep >= 0 => SumAt(1..sweep)' = SumAt(1..sweep)
  <2> SUFFICES ASSUME sweep >= 0
               PROVE  SumAt(1..sweep)' = SumAt(1..sweep)
    OBVIOUS
  <2>1. sweep \in Nat /\ sweep <= Len(paged) /\ sweep' = sweep
    BY <1>2 DEF TotalsSafe, Amounts, Trusted, Untrusted
  <2>2. \A k \in 1..sweep : paged'[k] = paged[k]
    BY <1>4, <2>1
  <2>3. [k \in 1..sweep |-> EffectiveOf(paged[k])]'
          = [k \in 1..sweep |-> EffectiveOf(paged[k])]
    BY <1>2, <2>1, <2>2 DEF EffectiveOf, totalVars
  <2> QED  BY <2>1, <2>3 DEF SumAt
<1>7. TotalsSummed'
  BY <1>2, <1>5, <1>6 DEF TotalsSafe, TotalsSummed, totalVars
<1> QED  BY <1>3, <1>5, <1>7 DEF TotalsSafe

-----------------------------------------------------------------------------
(* The batches of a rebuild.                                               *)

LEMMA PagedEffective ==
    ASSUME TotalsSafe
    PROVE  /\ Len(paged) \in Nat
           /\ \A i \in 1..Len(paged) : paged[i] \in Owners /\ EffectiveOf(paged[i]) \in Nat
BY EffectiveOfType, ElementOfSeq, LenProperties DEF TotalsSafe, IndexTypes

(* SumAt as the sum of any function that has its terms.                    *)
LEMMA SumAtOf ==
    ASSUME TotalsSafe, NEW m \in Nat, NEW n \in Nat, n <= Len(paged), NEW f,
           \A i \in (m + 1)..n : f[i] = EffectiveOf(paged[i])
    PROVE  /\ SumAt((m + 1)..n) = SumFunctionOnSet(f, (m + 1)..n)
           /\ SumAt((m + 1)..n) \in Nat
<1> DEFINE S == (m + 1)..n
           g == [i \in S |-> EffectiveOf(paged[i])]
<1>1. IsFiniteSet(S)
  BY FS_Interval
<1>2. \A i \in S : i \in 1..Len(paged)
  BY PagedEffective
<1>3. \A i \in S : g[i] \in Nat /\ f[i] = g[i]
  BY <1>2, PagedEffective
<1>4. SumAt(S) = SumFunctionOnSet(g, S)
  BY DEF SumAt
<1> HIDE DEF S, g
<1>5. SumFunctionOnSet(f, S) = SumFunctionOnSet(g, S)
  BY <1>1, <1>3, SumEqual
<1>6. SumFunctionOnSet(g, S) \in Nat
  BY <1>1, <1>3, SumNat
<1> QED  BY <1>4, <1>5, <1>6 DEF S

LEMMA SumAtSplit ==
    ASSUME TotalsSafe, NEW m \in Nat, NEW n \in Nat, m <= n, n <= Len(paged)
    PROVE  SumAt(1..n) = SumAt(1..m) + SumAt((m + 1)..n)
<1> DEFINE f == [i \in 1..n |-> EffectiveOf(paged[i])]
           S == 1..n
           T == 1..m
<1>1. IsFiniteSet(S) /\ T \in SUBSET S /\ S \ T = (m + 1)..n
  <2>1. IsFiniteSet(S)
    BY FS_Interval
  <2>2. T \in SUBSET S
    OBVIOUS
  <2>3. S \ T = (m + 1)..n
    OBVIOUS
  <2> QED  BY <2>1, <2>2, <2>3
<1>2. /\ \A i \in S : f[i] = EffectiveOf(paged[i]) /\ f[i] \in Int
      /\ \A i \in T : f[i] = EffectiveOf(paged[i])
      /\ \A i \in (m + 1)..n : f[i] = EffectiveOf(paged[i])
  BY PagedEffective
<1>3. m <= Len(paged)
  BY PagedEffective
<1> HIDE DEF f
<1>4. SumAt(S) = SumFunctionOnSet(f, S) /\ SumAt(T) = SumFunctionOnSet(f, T)
  <2>1. 0 \in Nat /\ S = (0 + 1)..n /\ T = (0 + 1)..m
    OBVIOUS
  <2>2. \A i \in (0 + 1)..n : f[i] = EffectiveOf(paged[i])
    BY <1>2, <2>1
  <2>3. \A i \in (0 + 1)..m : f[i] = EffectiveOf(paged[i])
    BY <1>2, <2>1
  <2> HIDE DEF S, T
  <2> QED  BY <1>3, <2>1, <2>2, <2>3, SumAtOf
<1>5. SumAt((m + 1)..n) = SumFunctionOnSet(f, (m + 1)..n)
  BY <1>2, SumAtOf
<1> HIDE DEF S, T
<1>6. SumFunctionOnSet(f, S) = SumFunctionOnSet(f, T) + SumFunctionOnSet(f, S \ T)
  BY <1>1, <1>2, SumSplit
<1> QED  BY <1>1, <1>4, <1>5, <1>6 DEF S, T

(* When every deck that counts is in the pages, the pages have the total.  *)
LEMMA SumAtAll ==
    ASSUME Assumptions, TotalsSafe,
           \A p \in Owners : EffectiveOf(p) > 0 => p \in Reg!Members(paged)
    PROVE  SumAt(1..Len(paged)) = SumEffective
<1> DEFINE S == 1..Len(paged)
           f == [i \in S |-> EffectiveOf(paged[i])]
           g == [p \in Owners |-> EffectiveOf(p)]
           N == {paged[i] : i \in S}
<1>1. IsFiniteSet(S) /\ IsFiniteSet(Owners)
  <2>1. IsFiniteSet(S)
    BY PagedEffective, FS_Interval
  <2>2. IsFiniteSet(Owners)
    BY DEF Assumptions, DeckTotalsAssumption
  <2> QED  BY <2>1, <2>2
<1>2. \A i \in S : f[i] \in Int /\ g[paged[i]] = f[i]
  BY PagedEffective
<1>3. \A i, j \in S : paged[i] = paged[j] => i = j
  BY DEF TotalsSafe, Reg!NoDuplicates
<1>4. N \in SUBSET Owners
  BY PagedEffective
<1>5. /\ \A p \in Owners : g[p] \in Int
      /\ \A p \in Owners \ N : g[p] = 0
  <2>1. \A p \in Owners : g[p] = EffectiveOf(p) /\ EffectiveOf(p) \in Nat
    BY EffectiveOfType DEF TotalsSafe
  <2>2. N = Reg!Members(paged)
    BY DEF Reg!Members
  <2> QED  BY <2>1, <2>2
<1>6. SumAt(S) = SumFunctionOnSet(f, S) /\ SumEffective = SumFunctionOnSet(g, Owners)
  BY DEF SumAt, SumEffective
<1> HIDE DEF f, g
<1>7. SumFunctionOnSet(g, N) = SumFunctionOnSet(f, S)
  <2> HIDE DEF S
  <2> QED  BY <1>1, <1>2, <1>3, SumRename
<1>8. SumFunctionOnSet(g, Owners) = SumFunctionOnSet(g, N)
  <2> HIDE DEF N
  <2> QED  BY <1>1, <1>4, <1>5, SumSupport
<1> QED  BY <1>6, <1>7, <1>8

LEMMA RebuildKeeps ==
    ASSUME Assumptions, TotalsSafe, NEW start \in 0..Len(paged),
           NEW limit \in BatchSizes, RebuildDeckEffective(start, limit)
    PROVE  TotalsSafe'
<1> DEFINE last == Least(start + limit, Len(paged))
<1>1. Len(paged) \in Nat /\ start \in Nat /\ limit \in Nat \ {0}
  <2>1. Len(paged) \in Nat
    BY PagedEffective
  <2>2. BatchSizes \subseteq Nat \ {0}
    BY DEF Assumptions, DeckTotalsAssumption
  <2> QED  BY <2>1, <2>2
<1>2. last \in Nat /\ start <= last /\ last <= Len(paged)
  BY <1>1 DEF Least
<1>3. Visited(start, limit) = (start + 1)..last
  <2>1. Least(Reg!ReadDecksCount, Len(paged)) = Len(paged)
    <3>1. Len(legacy) \in Nat
      BY LenProperties DEF TotalsSafe, IndexTypes
    <3> QED  BY <1>1, <3>1 DEF Reg!ReadDecksCount, Least
  <2> QED  BY <2>1 DEF Visited
<1>4. /\ totalEffective' = SumBefore(start) + SumAt((start + 1)..last)
      /\ UNCHANGED <<storeVars, deck, deckPower, deckBonus, totalDeckPower, indexVars>>
  BY <1>3 DEF RebuildDeckEffective
<1>5. SumAt((start + 1)..last) \in Nat /\ SumBefore(start) \in Nat
  <2>1. SumAt((start + 1)..last) \in Nat
    <3> DEFINE f == [i \in (start + 1)..last |-> EffectiveOf(paged[i])]
    <3>1. \A i \in (start + 1)..last : f[i] = EffectiveOf(paged[i])
      OBVIOUS
    <3> HIDE DEF f
    <3> QED  BY <1>1, <1>2, <3>1, SumAtOf
  <2> QED  BY <2>1 DEF SumBefore, TotalsSafe, Amounts
<1>6. start \in {0, sweep} => totalEffective' = SumAt(1..last)
  <2> SUFFICES ASSUME start \in {0, sweep}
               PROVE  totalEffective' = SumAt(1..last)
    OBVIOUS
  <2>1. SumBefore(start) = SumAt(1..start)
    <3>1. CASE start = 0
      <4>1. [i \in {} |-> EffectiveOf(paged[i])] = [i \in 1..0 |-> EffectiveOf(paged[i])]
            /\ 1..0 = {}
        OBVIOUS
      <4>2. SumAt(1..0) = 0
        BY <4>1, SumEmpty DEF SumAt
      <4> QED  BY <3>1, <4>2 DEF SumBefore
    <3>2. CASE start # 0
      BY <1>1, <3>2 DEF SumBefore, TotalsSafe, TotalsSummed
    <3> QED  BY <3>1, <3>2
  <2> QED  BY <1>1, <1>2, <1>4, <2>1, SumAtSplit
<1> DEFINE unpaged == \E p \in Owners : EffectiveOf(p) > 0 /\ p \notin Reg!Members(paged)
<1>7. sweep' = IF start \notin {0, sweep} \/ unpaged THEN Untrusted
               ELSE IF start + limit < Len(paged) THEN start + limit ELSE Trusted
  BY DEF RebuildDeckEffective
<1> HIDE DEF unpaged, last
<1>8. \A S : SumAt(S)' = SumAt(S)
  BY <1>4 DEF SumAt, EffectiveOf, indexVars
<1>9. SumEffective' = SumEffective
  BY <1>4 DEF SumEffective, EffectiveOf
<1>10. \/ sweep' = Untrusted
       \/ /\ sweep' \in Nat /\ sweep' = last /\ sweep' < Len(paged)
          /\ totalEffective' = SumAt(1..last)
       \/ sweep' = Trusted /\ totalEffective' = SumEffective
  <2>1. CASE start \notin {0, sweep} \/ unpaged
    BY <1>7, <2>1
  <2>2. CASE ~(start \notin {0, sweep} \/ unpaged) /\ start + limit < Len(paged)
    <3>1. sweep' = start + limit
      BY <1>7, <2>2
    <3>2. last = start + limit
      BY <1>1, <2>2 DEF Least, last
    <3> QED  BY <1>1, <1>2, <1>6, <2>2, <3>1, <3>2
  <2>3. CASE ~(start \notin {0, sweep} \/ unpaged) /\ ~(start + limit < Len(paged))
    <3>1. sweep' = Trusted
      BY <1>7, <2>3
    <3>2. last = Len(paged)
      BY <1>1, <2>3 DEF Least, last
    <3>3. SumAt(1..Len(paged)) = SumEffective
      BY <2>3, SumAtAll DEF unpaged
    <3> QED  BY <1>6, <2>3, <3>1, <3>2, <3>3
  <2> QED  BY <2>1, <2>2, <2>3
<1>11. TotalsSummed'
  <2>1. totalDeckPower' = SumFunctionOnSet(deckPower', Owners)
    BY <1>4 DEF TotalsSafe, TotalsSummed
  <2>2. sweep' = Trusted => totalEffective' = SumEffective'
    BY <1>9, <1>10 DEF Trusted, Untrusted
  <2>3. sweep' >= 0 => totalEffective' = SumAt(1..sweep)'
    <3> SUFFICES ASSUME sweep' >= 0 PROVE totalEffective' = SumAt(1..sweep)'
      OBVIOUS
    <3>1. sweep' = last /\ totalEffective' = SumAt(1..last)
      BY <1>10 DEF Trusted, Untrusted
    <3>2. SumAt(1..sweep)' = SumAt(1..last)
      <4>1. [i \in 1..sweep |-> EffectiveOf(paged[i])]'
              = [i \in 1..last |-> EffectiveOf(paged[i])]
        BY <1>4, <3>1 DEF EffectiveOf, indexVars
      <4> QED  BY <3>1, <4>1 DEF SumAt
    <3> QED  BY <3>1, <3>2
  <2> QED  BY <2>1, <2>2, <2>3 DEF TotalsSummed
<1>12. Amounts'
  <2>1. totalEffective' \in Nat
    BY <1>4, <1>5
  <2>2. /\ sweep' \in Nat \cup {Trusted, Untrusted}
        /\ sweep' >= 0 => sweep' <= Len(paged')
    BY <1>1, <1>4, <1>10 DEF Trusted, Untrusted, indexVars
  <2> QED  BY <1>4, <2>1, <2>2 DEF TotalsSafe, Amounts, storeVars
<1> QED
  BY <1>4, <1>11, <1>12
     DEF TotalsSafe, IndexTypes, PartialEmpty, Reg!NoDuplicates, indexVars

-----------------------------------------------------------------------------
(* The totals in every step.                                               *)

LEMMA CardStepKeeps ==
    ASSUME Assumptions, TotalsSafe, CardStep
    PROVE  TotalsSafe'
<1>1. /\ power \in [Cards -> Nat] /\ InitialPower \in Nat
      /\ OtherPowers \subseteq Nat
  <2>1. power \in [Cards -> Nat]
    BY DEF TotalsSafe, Amounts
  <2>2. InitialPower \in Nat /\ MaxPower \in Nat
    BY DEF Assumptions, CardAssumption
  <2>3. OtherPowers \subseteq Nat
    BY DEF Assumptions, DeckTotalsAssumption
  <2> QED  BY <2>1, <2>2, <2>3
<1>2. power' \in [Cards -> Nat]
  <2>1. ASSUME NEW c \in Cards,
               \/ Mint(c) \/ Burn(c) \/ Use!Remove(c)
               \/ \E n \in OtherPowers :
                        Use!Take(c, n) \/ Use!Cut(c, n) \/ Use!Release(c, n)
        PROVE  power' \in [Cards -> Nat]
    BY <1>1, <2>1 DEF Mint, Burn, RemoveCard, Use!Take, Use!Cut, Use!Release,
                      Use!Remove, Use!Become
  <2>2. ASSUME NEW o \in Owners, NEW to \in Owners, NEW t \in TokenIds,
               Transfer(o, to, t)
        PROVE  power' \in [Cards -> Nat]
    <3> DEFINE c == <<o, t>>
               d == <<to, t>>
    <3>1. c \in Cards /\ d \in Cards
      BY DEF Cards
    <3> HIDE DEF c, d
    <3>2. power' = [power EXCEPT ![c] = 0, ![d] = power[c]]
      BY <2>2 DEF Transfer, c, d
    <3> QED  BY <1>1, <3>1, <3>2
  <2> QED  BY <2>1, <2>2 DEF CardStep, OtherStep
<1> QED  BY <1>2, OtherCallKeeps DEF CardStep

LEMMA InitDecks ==
    ASSUME Assumptions, Init, NEW p \in Owners
    PROVE  deck[p] = {} \/ Full(deck[p])
<1>1. deck[p] = {t \in TokenIds : <<p, t>> \in LegacyCards}
  BY DEF Init
<1> DEFINE Names == {LegacyOwners[i] : i \in 1..Len(LegacyOwners)}
<1>2. \A t : <<p, t>> \in LegacyCards <=> p \in Names /\ t \in LegacyDeck
  BY DEF LegacyCards
<1>3. LegacyCards \subseteq Owners \X TokenIds /\ Cardinality(LegacyDeck) = DeckSize
  BY DEF Assumptions, DeckTotalsAssumption, CardAssumption, Cards
<1> HIDE DEF Names
<1>4. CASE p \in Names
  <2>1. \A t \in LegacyDeck : t \in TokenIds
    <3> SUFFICES ASSUME NEW t \in LegacyDeck PROVE t \in TokenIds
      OBVIOUS
    <3>1. <<p, t>> \in Owners \X TokenIds
      BY <1>2, <1>3, <1>4
    <3> QED  BY <3>1
  <2>2. deck[p] = LegacyDeck
    BY <1>1, <1>2, <1>4, <2>1
  <2> QED  BY <1>3, <2>2 DEF Full
<1>5. CASE p \notin Names
  BY <1>1, <1>2, <1>5
<1> QED  BY <1>4, <1>5

LEMMA InitTotals ==
    ASSUME Assumptions, Init
    PROVE  TotalsSafe
<1>1. DeckSize \in Nat \ {0} /\ LegacyOwners \in Seq(Owners) /\ IsFiniteSet(Owners)
      /\ InitialModes \subseteq BOOLEAN
  BY DEF Assumptions, DeckTotalsAssumption
<1>2. power \in [Cards -> Nat]
  BY DEF Init, CardInit, Assumptions, CardAssumption
<1>3. \A p \in Owners : deck[p] \in SUBSET TokenIds
  BY DEF Init
<1>4. ASSUME NEW p \in Owners, ~Full(deck[p])
      PROVE  deck[p] = {} /\ deckPower[p] = 0
  <2>1. deck[p] = {}
    BY <1>4, InitDecks
  <2>2. deckPower[p] = SumPowers(power, p, {})
    BY <2>1 DEF Init
  <2> QED  BY <2>1, <2>2, SumEmpty DEF SumPowers
<1>5. PartialEmpty
  BY <1>4 DEF PartialEmpty
<1>6. IndexTypes
  <2>1. Len(LegacyOwners) \in Nat /\ \A i \in 1..Len(LegacyOwners) : LegacyOwners[i] \in Owners
    BY <1>1, LenProperties, ElementOfSeq
  <2>2. \A i \in 1..Len(LegacyOwners) :
            [owner |-> LegacyOwners[i], cards |-> DeckSize] \in Reg!DeckRecords
    BY <1>1, <2>1 DEF Reg!DeckRecords
  <2>3. legacy \in Seq(Reg!DeckRecords)
    BY <2>1, <2>2, IsASeq DEF Init
  <2>4. paged \in Seq(Owners) /\ hasCount \in BOOLEAN /\ pagesOnly \in BOOLEAN
    <3>1. paged = << >> /\ hasCount = FALSE /\ pagesOnly \in InitialModes
      BY DEF Init
    <3>2. paged \in Seq(Owners)
      BY <3>1, EmptySeq
    <3> QED  BY <1>1, <3>1, <3>2
  <2> QED  BY <2>3, <2>4 DEF IndexTypes
<1>7. Reg!NoDuplicates(paged)
  BY DEF Init, Reg!NoDuplicates
<1>8. deckPower \in [Owners -> Nat] /\ deckBonus \in [Owners -> Nat]
  <2>1. \A p \in Owners : SumPowers(power, p, deck[p]) \in Nat
    BY <1>2, <1>3, SumPowersType
  <2> QED  BY <2>1, BonusType DEF Init
<1>9. Amounts
  <2>1. \A p \in Owners : Cardinality(deck[p]) <= DeckSize
    <3> SUFFICES ASSUME NEW p \in Owners PROVE Cardinality(deck[p]) <= DeckSize
      OBVIOUS
    <3>1. Cardinality({}) = 0
      BY FS_EmptySet
    <3>2. deck[p] = {} \/ Full(deck[p])
      BY InitDecks
    <3>3. CASE deck[p] = {}
      BY <1>1, <3>1, <3>3
    <3>4. CASE Full(deck[p])
      BY <1>1, <3>4 DEF Full
    <3> QED  BY <3>2, <3>3, <3>4
  <2>2. totalDeckPower \in Nat
    BY <1>1, <1>8, SumNat DEF Init
  <2>3. sweep \in {Trusted, Untrusted} /\ totalEffective \in Nat
    BY DEF Init
  <2> QED  BY <1>2, <1>8, <2>1, <2>2, <2>3 DEF Amounts, Trusted, Untrusted
<1>10. TotalsSummed
  <2>1. sweep = Trusted => totalEffective = SumEffective
    <3> SUFFICES ASSUME sweep = Trusted PROVE totalEffective = SumEffective
      OBVIOUS
    <3>1. LegacyOwners = << >>
      BY DEF Init, Trusted, Untrusted
    <3>2. \A p \in Owners : EffectiveOf(p) = 0
      <4> SUFFICES ASSUME NEW p \in Owners PROVE EffectiveOf(p) = 0
        OBVIOUS
      <4>1. deck[p] = {}
        BY <3>1 DEF Init, LegacyCards
      <4> QED  BY <1>1, <4>1, FS_EmptySet DEF EffectiveOf, Full
    <3>3. SumEffective = 0
      <4> DEFINE f == [p \in Owners |-> EffectiveOf(p)]
      <4>1. \A p \in Owners : f[p] = 0
        BY <3>2
      <4> HIDE DEF f
      <4>2. SumFunctionOnSet(f, Owners) = 0
        BY <1>1, <4>1, SumZero
      <4> QED  BY <4>2 DEF SumEffective, f
    <3> QED  BY <3>3 DEF Init
  <2>2. sweep \in {Trusted, Untrusted} /\ totalDeckPower = SumFunctionOnSet(deckPower, Owners)
    BY DEF Init
  <2> QED  BY <2>1, <2>2 DEF TotalsSummed, Trusted, Untrusted
<1> QED  BY <1>5, <1>6, <1>7, <1>9, <1>10 DEF TotalsSafe

LEMMA StepTotals ==
    ASSUME Assumptions, LockTypes, TotalsSafe, [Next]_vars
    PROVE  TotalsSafe'
<1>1. CASE UNCHANGED vars
  <2>1. power' = power /\ UNCHANGED <<deck, totalVars, indexVars, sweep>>
    BY <1>1 DEF vars, storeVars
  <2> QED  BY <2>1, OtherCallKeeps DEF TotalsSafe, Amounts
<1>2. CASE DeckStep
  <2>1. ASSUME NEW p \in Owners, NEW t \in TokenIds,
               Place(p, t) \/ RemovePlace(p, t) \/ \E s \in TokenIds : Replace(p, s, t)
        PROVE  TotalsSafe'
    <3>1. PICK new \in SUBSET TokenIds :
                Cardinality(new) <= DeckSize /\ ApplyDeckUpdate(p, new)
      BY <2>1, NewDeckFits DEF TotalsSafe
    <3> QED  BY <3>1, ApplyDeckUpdateKeeps
  <2>2. ASSUME NEW p \in Owners, NEW t \in TokenIds, NEW amount \in TopUps,
               GrowCard(p, t, amount)
        PROVE  TotalsSafe'
    BY <2>2, GrowCardKeeps
  <2>3. ASSUME NEW i \in 1..Len(legacy), MigrateDeck(i) PROVE TotalsSafe'
    BY <2>3, MigrateDeckKeeps
  <2> QED  BY <1>2, <2>1, <2>2, <2>3 DEF DeckStep
<1>3. CASE RebuildStep
  BY <1>3, RebuildKeeps DEF RebuildStep
<1> QED  BY <1>1, <1>2, <1>3, CardStepKeeps DEF Next

-----------------------------------------------------------------------------
(* The stored powers stay those of the cards: whoever changes the power of *)
(* a card finds it unlocked, or tells the deck, or the card was lost.      *)

LEMMA CardsOfWholeDeck ==
    ASSUME DeckSafe, NEW p \in Owners, LostFromDeck(p) = {}, NEW t \in deck[p]
    PROVE  <<p, t>> \in Cards /\ lock[<<p, t>>] = "Deck"
<1>1. t \in TokenIds
  BY DEF DeckSafe, LockTypes
<1> QED  BY <1>1 DEF DeckSafe, DeckLocks, Cards

LEMMA UndisputedWhole ==
    ASSUME DeckSafe, NEW p \in Owners, Undisputed(p)
    PROVE  LostFromDeck(p) = {}
BY DEF Undisputed, LostFromDeck, Locks

LEMMA SamePowers ==
    ASSUME NEW p, NEW tokens, \A t \in tokens : power'[<<p, t>>] = power[<<p, t>>]
    PROVE  SumPowers(power', p, tokens) = SumPowers(power, p, tokens)
<1>1. [t \in tokens |-> power'[<<p, t>>]] = [t \in tokens |-> power[<<p, t>>]]
  OBVIOUS
<1> QED  BY <1>1 DEF SumPowers

LEMMA FreshUntouched ==
    ASSUME DeckSafe, DeckPowerFresh, UNCHANGED <<deck, deckPower>>, lost \subseteq lost',
           \A c \in Cards : lock[c] = "Deck" => \/ power'[c] = power[c]
                                                \/ \E l \in Locks : <<c, l>> \in lost'
    PROVE  DeckPowerFresh'
<1> SUFFICES ASSUME NEW p \in Owners, Undisputed(p)'
             PROVE  deckPower'[p] = IF Full(deck[p])
                                    THEN SumPowers(power', p, deck[p]) ELSE 0
  BY DEF DeckPowerFresh, Full, SumPowers
<1>1. Undisputed(p)
  BY DEF Undisputed
<1>2. ASSUME NEW t \in deck[p]
      PROVE  power'[<<p, t>>] = power[<<p, t>>]
  <2>1. <<p, t>> \in Cards /\ lock[<<p, t>>] = "Deck"
    BY <1>1, UndisputedWhole, CardsOfWholeDeck
  <2>2. \A l \in Locks : <<<<p, t>>, l>> \notin lost'
    BY DEF Undisputed
  <2> QED  BY <2>1, <2>2
<1>3. SumPowers(power', p, deck[p]) = SumPowers(power, p, deck[p])
  BY <1>2, SamePowers
<1> QED  BY <1>1, <1>3 DEF DeckPowerFresh

LEMMA FreshStored ==
    ASSUME DeckSafe, TotalsSafe, DeckPowerFresh, NEW p \in Owners,
           NEW new \in SUBSET TokenIds, StoreDeck(p, new), lost' = lost,
           \A c \in Cards : c[1] # p => power'[c] = power[c]
    PROVE  DeckPowerFresh'
<1> SUFFICES ASSUME NEW q \in Owners, Undisputed(q)'
             PROVE  deckPower'[q] = IF Full(deck'[q])
                                    THEN SumPowers(power', q, deck'[q]) ELSE 0
  BY DEF DeckPowerFresh, Full, SumPowers
<1>1. /\ deck' = [deck EXCEPT ![p] = new]
      /\ deckPower' = [deckPower EXCEPT
                         ![p] = IF Full(new) THEN SumPowers(power', p, new) ELSE 0]
  BY DEF StoreDeck
<1>2. CASE q = p
  BY <1>1, <1>2 DEF DeckSafe, LockTypes, TotalsSafe, Amounts
<1>3. CASE q # p
  <2>1. deck'[q] = deck[q] /\ deckPower'[q] = deckPower[q]
    BY <1>1, <1>3 DEF DeckSafe, LockTypes, TotalsSafe, Amounts
  <2>2. Undisputed(q)
    BY <2>1 DEF Undisputed
  <2>3. \A t \in deck[q] : power'[<<q, t>>] = power[<<q, t>>]
    BY <1>3, <2>2, UndisputedWhole, CardsOfWholeDeck
  <2>4. SumPowers(power', q, deck[q]) = SumPowers(power, q, deck[q])
    BY <2>3, SamePowers
  <2> QED  BY <2>1, <2>2, <2>4 DEF DeckPowerFresh
<1> QED  BY <1>2, <1>3

LEMMA CardStepFresh ==
    ASSUME Assumptions, DeckSafe, TotalsSafe, DeckPowerFresh, CardStep
    PROVE  DeckPowerFresh'
<1> DEFINE Kept == /\ lost \subseteq lost'
                   /\ \A c \in Cards :
                        lock[c] = "Deck" => \/ power'[c] = power[c]
                                            \/ \E l \in Locks : <<c, l>> \in lost'
<1>1. /\ power \in [Cards -> Nat] /\ Absent # "Deck"
      /\ UNCHANGED <<deck, deckPower>>
  BY DEF TotalsSafe, Amounts, CardStep, totalVars, Assumptions, CardAssumption, Locks
<1>2. ASSUME NEW c \in Cards, Mint(c) PROVE Kept
  BY <1>1, <1>2 DEF Mint, Exists
<1>3. ASSUME NEW c \in Cards, Burn(c) PROVE Kept
  <2>1. /\ power' = [power EXCEPT ![c] = 0] /\ lost' = lost \cup LostWith(c)
        /\ lock[c] = "Deck" => <<c, "Deck">> \in LostWith(c)
    BY <1>1, <1>3 DEF Burn, RemoveCard, LostWith
  <2> QED  BY <1>1, <2>1 DEF Locks
<1>4. ASSUME NEW c \in Cards, NEW n, Use!Take(c, n) \/ Use!Cut(c, n) PROVE Kept
  <2>1. /\ \A d \in Cards : d # c => power'[d] = power[d]
        /\ lost' = lost
    BY <1>1, <1>4 DEF Use!Take, Use!Cut, Use!Become
  <2>2. lock[c] = "Deck" => <<c, "Stake">> \in lost
    BY <1>4 DEF Use!Take, Use!Cut, Use!InReach
  <2> QED  BY <2>1, <2>2 DEF Locks
<1>5. ASSUME NEW c \in Cards, NEW n, Use!Release(c, n) \/ Use!Remove(c) PROVE Kept
  <2>1. /\ \A d \in Cards : d # c => power'[d] = power[d]
        /\ lost' = lost \cup Use!LostByRelease(c)
    BY <1>1, <1>5 DEF Use!Release, Use!Remove, Use!Become
  <2>2. lock[c] = "Deck" => <<c, "Deck">> \in lost'
    BY <2>1 DEF Use!LostByRelease
  <2> QED  BY <2>1, <2>2 DEF Locks
<1>6. ASSUME NEW o \in Owners, NEW to \in Owners, NEW t \in TokenIds,
             Transfer(o, to, t)
      PROVE  Kept
  <2> DEFINE c == <<o, t>>
             d == <<to, t>>
  <2>1. c \in Cards /\ d \in Cards /\ (c = d <=> o = to)
    BY DEF Cards
  <2> HIDE DEF c, d
  <2>2. /\ lock[c] = "None"
        /\ power' = [power EXCEPT ![c] = 0, ![d] = power[c]]
        /\ lost' = IF o = to THEN lost ELSE lost \cup LostWith(d)
    BY <1>6 DEF Transfer, c, d
  <2>3. lock[d] = "Deck" => <<d, "Deck">> \in LostWith(d) /\ o # to
    BY <1>1, <2>1, <2>2 DEF LostWith
  <2>4. \A x \in Cards \ {c, d} : power'[x] = power[x]
    BY <1>1, <2>1, <2>2
  <2> QED  BY <2>2, <2>3, <2>4 DEF Locks
<1>7. Kept
  <2> HIDE DEF Kept
  <2> QED  BY <1>2, <1>3, <1>4, <1>5, <1>6 DEF CardStep, OtherStep
<1> QED  BY <1>1, <1>7, FreshUntouched

LEMMA StepFresh ==
    ASSUME Assumptions, DeckSafe, TotalsSafe, DeckPowerFresh, [Next]_vars
    PROVE  DeckPowerFresh'
<1>1. CASE power' = power /\ lost' = lost /\ UNCHANGED <<deck, deckPower>>
  BY <1>1, FreshUntouched
<1>2. ASSUME NEW p \in Owners, NEW t \in TokenIds,
             Place(p, t) \/ RemovePlace(p, t) \/ \E s \in TokenIds : Replace(p, s, t)
      PROVE  DeckPowerFresh'
  <2>1. PICK new \in SUBSET TokenIds : ApplyDeckUpdate(p, new)
    BY <1>2, NewDeckFits DEF TotalsSafe, DeckSafe
  <2>2. power' = power /\ lost' = lost /\ StoreDeck(p, new)
    BY <2>1 DEF ApplyDeckUpdate
  <2> QED  BY <2>2, FreshStored
<1>3. ASSUME NEW p \in Owners, NEW t \in TokenIds, NEW amount \in TopUps,
             GrowCard(p, t, amount)
      PROVE  DeckPowerFresh'
  <2>1. /\ \A c \in Cards : c # <<p, t>> => power'[c] = power[c]
        /\ lost' = lost
    BY <1>3 DEF GrowCard, AddPowerToCard, TotalsSafe, Amounts
  <2>2. CASE lock[<<p, t>>] = "Deck"
    <3>1. PICK new \in SUBSET TokenIds : new = deck[p]
      BY DEF DeckSafe, LockTypes
    <3>2. StoreDeck(p, new)
      BY <1>3, <2>2, <3>1 DEF GrowCard
    <3>3. \A c \in Cards : c[1] # p => power'[c] = power[c]
      BY <2>1
    <3> QED  BY <2>1, <3>2, <3>3, FreshStored
  <2>3. CASE lock[<<p, t>>] # "Deck"
    <3>1. UNCHANGED <<deck, deckPower>>
      BY <1>3, <2>3 DEF GrowCard, totalVars
    <3> QED  BY <2>1, <2>3, <3>1, FreshUntouched
  <2> QED  BY <2>2, <2>3
<1>4. ASSUME NEW i, MigrateDeck(i) PROVE DeckPowerFresh'
  BY <1>1, <1>4 DEF MigrateDeck, storeVars, totalVars
<1>5. CASE DeckStep
  BY <1>2, <1>3, <1>4, <1>5 DEF DeckStep
<1>6. CASE RebuildStep
  BY <1>1, <1>6 DEF RebuildStep, RebuildDeckEffective, storeVars
<1>7. CASE UNCHANGED vars
  BY <1>1, <1>7 DEF vars, storeVars, totalVars
<1> QED  BY <1>5, <1>6, <1>7, CardStepFresh DEF Next

-----------------------------------------------------------------------------
(* The decks seen as numbers of cards with an effective power.             *)

(* What DeckRegistry calls cards and effective.                            *)
Counts == [p \in Owners |-> Cardinality(deck[p])]
Effectives == [p \in Owners |-> EffectiveOf(p)]

LEMMA PowerAllowed ==
    ASSUME EffectivePowers = Nat, Amounts, NEW p \in Owners
    PROVE  EffectiveOf(p) \in Reg!PossiblePowers(Cardinality(deck[p]))
BY EffectiveOfType DEF Reg!PossiblePowers, EffectiveOf, Full

LEMMA PowerAllowedNext ==
    ASSUME EffectivePowers = Nat, Amounts', NEW p \in Owners
    PROVE  EffectiveOf(p)' \in Reg!PossiblePowers(Cardinality(deck'[p]))
<1>1. deckPower'[p] \in Nat /\ deckBonus'[p] \in Nat
  BY DEF Amounts
<1>2. EffectivePower(deckPower'[p], deckBonus'[p]) \in Nat
  BY <1>1, EffectiveType
<1> QED  BY <1>2 DEF Reg!PossiblePowers, EffectiveOf, Full

LEMMA StoreDeckRefines ==
    ASSUME LockTypes, TotalsSafe, NEW p \in Owners, NEW new \in SUBSET TokenIds,
           StoreDeck(p, new)
    PROVE  Reg!WriteDeck(p, Cardinality(new), EffectiveOf(p)')
<1>1. /\ deck'[p] = new
      /\ \A q \in Owners \ {p} : /\ deck'[q] = deck[q]
                                 /\ deckPower'[q] = deckPower[q]
                                 /\ deckBonus'[q] = deckBonus[q]
      /\ Reg!WriteIndexes(p, Cardinality(new))
  BY DEF StoreDeck, LockTypes, TotalsSafe, Amounts
<1>2. \A q \in Owners \ {p} : EffectiveOf(q)' = EffectiveOf(q)
  BY <1>1 DEF EffectiveOf
<1>3. Counts' = [Counts EXCEPT ![p] = Cardinality(new)]
  BY <1>1 DEF Counts
<1>4. Effectives' = [Effectives EXCEPT ![p] = EffectiveOf(p)']
  BY <1>2 DEF Effectives
<1> QED  BY <1>1, <1>3, <1>4 DEF Reg!WriteDeck, Counts, Effectives

LEMMA InitRefines ==
    ASSUME Assumptions, Init, EffectivePowers = Nat
    PROVE  Reg!DeckInit
<1>1. TotalsSafe
  BY InitTotals
<1> DEFINE Listed == [i \in 1..Len(LegacyOwners) |->
                        [owner |-> LegacyOwners[i], cards |-> DeckSize]]
<1>2. LegacyOwners \in Seq(Owners) /\ DeckSize \in Nat /\ IsFiniteSet(TokenIds)
  BY DEF Assumptions, DeckTotalsAssumption
<1>3. Len(Listed) = Len(LegacyOwners)
  BY <1>2
<1>4. ASSUME NEW p \in Owners
      PROVE  Cardinality(deck[p])
               = IF \E i \in 1..Len(Listed) : Listed[i].owner = p
                 THEN Listed[CHOOSE i \in 1..Len(Listed) : Listed[i].owner = p].cards
                 ELSE 0
  <2>1. CASE \E i \in 1..Len(Listed) : Listed[i].owner = p
    <3>1. \E i \in 1..Len(LegacyOwners) : LegacyOwners[i] = p
      BY <1>3, <2>1
    <3>2. Listed[CHOOSE i \in 1..Len(Listed) : Listed[i].owner = p].cards = DeckSize
      <4> DEFINE at == CHOOSE i \in 1..Len(Listed) : Listed[i].owner = p
      <4>1. at \in 1..Len(Listed)
        BY <2>1
      <4> HIDE DEF at
      <4>2. Listed[at].cards = DeckSize
        BY <1>3, <4>1
      <4> QED  BY <4>2 DEF at
    <3>3. Cardinality(deck[p]) = DeckSize
      <4>1. Cardinality(LegacyDeck) = DeckSize /\ LegacyCards \subseteq Owners \X TokenIds
        BY DEF Assumptions, DeckTotalsAssumption, CardAssumption, Cards
      <4>2. \A t : <<p, t>> \in LegacyCards <=> t \in LegacyDeck
        BY <3>1 DEF LegacyCards
      <4>3. \A t \in LegacyDeck : t \in TokenIds
        <5> SUFFICES ASSUME NEW t \in LegacyDeck PROVE t \in TokenIds
          OBVIOUS
        <5>1. <<p, t>> \in Owners \X TokenIds
          BY <4>1, <4>2
        <5> QED  BY <5>1
      <4>4. deck[p] = LegacyDeck
        BY <4>2, <4>3 DEF Init
      <4> QED  BY <4>1, <4>4
    <3> HIDE DEF Listed
    <3> QED  BY <2>1, <3>2, <3>3
  <2>2. CASE ~ \E i \in 1..Len(Listed) : Listed[i].owner = p
    <3>1. ~ \E i \in 1..Len(LegacyOwners) : LegacyOwners[i] = p
      BY <1>3, <2>2
    <3>2. deck[p] = {}
      BY <3>1 DEF Init, LegacyCards
    <3>3. Cardinality(deck[p]) = 0
      BY <3>2, FS_EmptySet
    <3> HIDE DEF Listed
    <3> QED  BY <2>2, <3>3
  <2> QED  BY <2>1, <2>2
<1>5. \A p \in Owners : /\ EffectiveOf(p) \in EffectivePowers \cup {0}
                        /\ EffectiveOf(p) \in Reg!PossiblePowers(Cardinality(deck[p]))
  BY <1>1, EffectiveOfType, PowerAllowed DEF TotalsSafe
<1>6. Counts = [p \in Owners |->
                  IF \E i \in 1..Len(Listed) : Listed[i].owner = p
                  THEN Listed[CHOOSE i \in 1..Len(Listed) : Listed[i].owner = p].cards
                  ELSE 0]
  <2> HIDE DEF Listed
  <2> QED  BY <1>4 DEF Counts
<1>7. Effectives \in {f \in [Owners -> EffectivePowers \cup {0}] :
                        \A p \in Owners : f[p] \in Reg!PossiblePowers(Counts[p])}
  BY <1>5 DEF Effectives, Counts
<1>8. /\ legacy = Listed /\ paged = << >> /\ hasCount = FALSE
      /\ pagesOnly \in InitialModes
  BY DEF Init
<1> QED  BY <1>6, <1>7, <1>8 DEF Reg!DeckInit, Counts, Effectives

LEMMA UnchangedRegistry ==
    ASSUME UNCHANGED <<deck, deckPower, deckBonus, indexVars>>
    PROVE  UNCHANGED Reg!deckVars
BY DEF Reg!deckVars, EffectiveOf, indexVars

LEMMA StepRefines ==
    ASSUME Assumptions, EffectivePowers = Nat, DeckSafe, TotalsSafe, TotalsSafe',
           [Next]_vars
    PROVE  [RegistryNext]_(Reg!deckVars)
<1>1. CASE UNCHANGED vars
  BY <1>1, UnchangedRegistry DEF vars, totalVars
<1>2. CASE CardStep
  BY <1>2, UnchangedRegistry DEF CardStep, totalVars
<1>3. CASE RebuildStep
  BY <1>3, UnchangedRegistry DEF RebuildStep, RebuildDeckEffective
<1>4. ASSUME NEW i \in 1..Len(legacy), MigrateDeck(i)
      PROVE  RegistryNext
  BY <1>4 DEF MigrateDeck, RegistryNext
<1>5. ASSUME NEW p \in Owners, NEW t \in TokenIds, NEW amount \in TopUps,
             GrowCard(p, t, amount)
      PROVE  [RegistryNext]_(Reg!deckVars)
  <2>1. CASE lock[<<p, t>>] # "Deck"
    BY <1>5, <2>1, UnchangedRegistry DEF GrowCard, totalVars
  <2>2. CASE lock[<<p, t>>] = "Deck"
    <3>1. PICK new \in SUBSET TokenIds : new = deck[p]
      BY DEF DeckSafe, LockTypes
    <3>2. StoreDeck(p, new)
      BY <1>5, <2>2, <3>1 DEF GrowCard
    <3>3. Reg!WriteDeck(p, Cardinality(deck[p]), EffectiveOf(p)')
      BY <3>1, <3>2, StoreDeckRefines DEF DeckSafe
    <3>4. t \in deck[p] /\ IsFiniteSet(deck[p])
      BY <2>2, FS_Subset DEF DeckSafe, DeckLocks, LockTypes, Assumptions, DeckTotalsAssumption
    <3>5. Cardinality(deck[p]) > 0
      BY <3>4, FS_EmptySet, FS_CardinalityType
    <3>6. deck'[p] = deck[p]
      BY <3>1, <3>2 DEF StoreDeck, DeckSafe, LockTypes
    <3>7. EffectiveOf(p)' \in Reg!PossiblePowers(Cardinality(deck[p]))
      BY <3>6, PowerAllowedNext DEF TotalsSafe
    <3>8. Reg!RecomputeDeck(p)
      BY <3>3, <3>5, <3>7 DEF Reg!RecomputeDeck
    <3> QED  BY <3>8 DEF RegistryNext
  <2> QED  BY <2>1, <2>2
<1>6. ASSUME NEW p \in Owners, NEW t \in TokenIds, NEW new \in SUBSET TokenIds,
             ApplyDeckUpdate(p, new)
      PROVE  /\ Reg!WriteDeck(p, Cardinality(new), EffectiveOf(p)')
             /\ EffectiveOf(p)' \in Reg!PossiblePowers(Cardinality(new))
  <2>1. StoreDeck(p, new)
    BY <1>6 DEF ApplyDeckUpdate
  <2>2. deck'[p] = new
    BY <2>1 DEF StoreDeck, DeckSafe, LockTypes
  <2> QED  BY <2>1, <2>2, StoreDeckRefines, PowerAllowedNext DEF TotalsSafe, DeckSafe
<1>7. ASSUME NEW p \in Owners
      PROVE  /\ deck[p] \in SUBSET TokenIds /\ IsFiniteSet(deck[p])
             /\ Cardinality(deck[p]) \in Nat /\ Cardinality(deck[p]) <= DeckSize
             /\ DeckSize \in Nat
  BY FS_Subset, FS_CardinalityType
     DEF DeckSafe, LockTypes, TotalsSafe, Amounts, Assumptions, DeckTotalsAssumption
<1>8. ASSUME NEW p \in Owners, NEW t \in TokenIds, Place(p, t)
      PROVE  RegistryNext
  <2>1. PICK new \in SUBSET TokenIds : new = deck[p] \cup {t}
    BY <1>7
  <2>2. ApplyDeckUpdate(p, new) /\ t \notin deck[p] /\ Cardinality(deck[p]) < DeckSize
    BY <1>8, <2>1 DEF Place
  <2>3. Cardinality(new) = Cardinality(deck[p]) + 1
    BY <1>7, <2>1, <2>2, FS_AddElement
  <2>4. Reg!PlaceCard(p)
    BY <1>6, <2>2, <2>3 DEF Reg!PlaceCard
  <2> QED  BY <2>4 DEF RegistryNext
<1>9. ASSUME NEW p \in Owners, NEW t \in TokenIds, RemovePlace(p, t)
      PROVE  RegistryNext
  <2>1. PICK new \in SUBSET TokenIds : new = deck[p] \ {t}
    BY <1>7
  <2>2. ApplyDeckUpdate(p, new) /\ t \in deck[p]
    BY <1>9, <2>1 DEF RemovePlace
  <2>3. Cardinality(new) = Cardinality(deck[p]) - 1 /\ Cardinality(new) \in Nat
    BY <1>7, <2>1, <2>2, FS_RemoveElement, FS_CardinalityType
  <2>4. Reg!WriteDeck(p, Cardinality(deck[p]) - 1, 0) /\ Cardinality(deck[p]) > 0
    <3>1. EffectiveOf(p)' \in Reg!PossiblePowers(Cardinality(new))
          /\ Cardinality(new) # DeckSize
      BY <1>6, <1>7, <2>2, <2>3
    <3>2. EffectiveOf(p)' = 0
      BY <3>1 DEF Reg!PossiblePowers
    <3>3. Reg!WriteDeck(p, Cardinality(new), EffectiveOf(p)')
      BY <1>6, <2>2
    <3> QED  BY <1>7, <2>3, <3>2, <3>3
  <2>5. Reg!RemoveCard(p)
    BY <2>4 DEF Reg!RemoveCard
  <2> QED  BY <2>5 DEF RegistryNext
<1>10. ASSUME NEW p \in Owners, NEW t \in TokenIds, NEW s \in TokenIds,
              Replace(p, s, t)
       PROVE  RegistryNext
  <2> DEFINE rest == deck[p] \ {s}
  <2>1. PICK new \in SUBSET TokenIds : new = rest \cup {t}
    BY <1>7
  <2>2. ApplyDeckUpdate(p, new) /\ s \in deck[p] /\ t \notin deck[p]
    BY <1>10, <2>1 DEF Replace
  <2>3. /\ IsFiniteSet(rest) /\ t \notin rest
        /\ Cardinality(rest) = Cardinality(deck[p]) - 1 /\ Cardinality(rest) \in Nat
    BY <1>7, <2>2, FS_RemoveElement, FS_CardinalityType
  <2>4. Cardinality(new) = Cardinality(deck[p]) /\ Cardinality(deck[p]) > 0
    <3>1. Cardinality(rest \cup {t}) = Cardinality(rest) + 1
      BY <2>3, FS_AddElement
    <3>2. Cardinality(deck[p]) \in Nat
      BY <1>7
    <3> HIDE DEF rest
    <3> QED  BY <2>1, <2>3, <3>1, <3>2
  <2>5. Reg!ReplaceCard(p)
    BY <1>6, <2>2, <2>4 DEF Reg!ReplaceCard
  <2> QED  BY <2>5 DEF RegistryNext
<1>11. CASE DeckStep
  BY <1>4, <1>5, <1>8, <1>9, <1>10, <1>11 DEF DeckStep
<1> QED  BY <1>1, <1>2, <1>3, <1>11 DEF Next

-----------------------------------------------------------------------------
(* The types the proofs above did without: the values of the bonus, and    *)
(* the variables of CardStore they never read.                             *)

CardRest ==
    /\ power \in [Cards -> Nat]
    /\ listed \in [Cards -> Nat]
    /\ wallet \in [Owners -> Nat]
    /\ cardCalls \in Nat
    /\ lost \subseteq Cards \X Locks
    /\ doubled \subseteq Cards

BonusValues == deckBonus \in [Owners -> {0, 5, 10, 25}]

LEMMA BurnGainType ==
    ASSUME CardAssumption, CardRest, NEW c \in Cards
    PROVE  BurnGain(c) \in Nat
<1>1. power[c] \in Nat
  BY DEF CardRest, CardAssumption
<1>2. power[c] \div 2 \in Nat
  BY <1>1
<1>3. PICK n : n = (InitialPower + power[c] \div 2) * BurnReceive
  OBVIOUS
<1>4. n \in Nat
  BY <1>2, <1>3 DEF CardAssumption
<1>5. n \div 100 \in Nat
  BY <1>4
<1> QED  BY <1>3, <1>5 DEF BurnGain

LEMMA LessType ==
    ASSUME CardRest, NEW c \in Cards
    PROVE  OneLess(listed[c]) \in Nat
BY DEF CardRest, OneLess, SaturatingSub

LEMMA LostWithType ==
    ASSUME LockTypes, NEW c \in Cards
    PROVE  LostWith(c) \subseteq Cards \X Locks
BY DEF LockTypes, LostWith

LEMMA AddPowerRest ==
    ASSUME Assumptions, CardRest, NEW c \in Cards, NEW amount \in TopUps,
           AddPowerToCard(c, amount)
    PROVE  CardRest'
<1>1. c[1] \in Owners /\ amount \in Nat /\ MaxPower \in Nat /\ power[c] \in Nat
  BY DEF Cards, CardRest, Assumptions, CardAssumption
<1>2. Least(power[c] + amount, MaxPower) \in Nat
  BY <1>1 DEF Least
<1>3. wallet[c[1]] \in Nat /\ wallet[c[1]] - amount \in Nat
  BY <1>1 DEF AddPowerToCard, CardRest
<1>4. wallet' \in [Owners -> Nat]
  BY <1>1, <1>3 DEF AddPowerToCard, CardRest
<1>5. power' \in [Cards -> Nat]
  BY <1>1, <1>2 DEF AddPowerToCard, CardRest
<1> QED  BY <1>4, <1>5 DEF AddPowerToCard, CardCall, CardRest

LEMMA CardStepRest ==
    ASSUME Assumptions, LockTypes, CardRest, CardStep
    PROVE  CardRest'
<1>1. InitialPower \in Nat /\ OtherPowers \subseteq Nat
  BY DEF Assumptions, CardAssumption, DeckTotalsAssumption
<1>2. CardCall => cardCalls' \in Nat
  BY DEF CardCall, CardRest
<1>3. ASSUME NEW c \in Cards, Mint(c) PROVE CardRest'
  <2>1. power' \in [Cards -> Nat]
    BY <1>1, <1>3 DEF Mint, CardRest
  <2>2. listed' \in [Cards -> Nat]
    BY <1>3 DEF Mint, CardRest
  <2> QED  BY <1>2, <1>3, <2>1, <2>2 DEF Mint, CardRest
<1>4. ASSUME NEW c \in Cards, Burn(c) PROVE CardRest'
  <2>1. wallet' \in [Owners -> Nat]
    <3>1. c[1] \in Owners /\ BurnGain(c) \in Nat
      BY BurnGainType DEF Cards, Assumptions
    <3> QED  BY <1>4, <3>1 DEF Burn, CardRest
  <2>2. lost' \subseteq Cards \X Locks
    BY <1>4, LostWithType DEF Burn, CardRest
  <2>3. power' \in [Cards -> Nat] /\ listed' \in [Cards -> Nat]
    BY <1>1, <1>4, LessType DEF Burn, RemoveCard, CardRest
  <2> QED  BY <1>2, <1>4, <2>1, <2>2, <2>3 DEF Burn, CardRest
<1>5. ASSUME OtherStep PROVE CardRest'
  <2>1. CardCall \/ UNCHANGED cardCalls
    BY <1>5 DEF OtherStep
  <2>2. PICK c \in Cards :
          \/ /\ \E n \in OtherPowers :
                    Use!Take(c, n) \/ Use!Cut(c, n) \/ Use!Release(c, n)
             /\ UNCHANGED listed
          \/ /\ Use!Remove(c)
             /\ listed' = [listed EXCEPT ![c] = OneLess(@)]
    BY <1>5 DEF OtherStep
  <2>3. power' \in [Cards -> Nat]
    BY <1>1, <2>2 DEF CardRest, Use!Take, Use!Cut, Use!Release, Use!Remove, Use!Become
  <2>4. listed' \in [Cards -> Nat]
    BY <2>2, LessType DEF CardRest
  <2>5. lost' \subseteq Cards \X Locks
    BY <2>2 DEF CardRest, Use!Take, Use!Cut, Use!Release, Use!Remove,
                Use!LostByRelease, Locks
  <2> QED  BY <1>2, <1>5, <2>1, <2>3, <2>4, <2>5 DEF OtherStep, CardRest
<1>7. ASSUME NEW o \in Owners, NEW to \in Owners, NEW t \in TokenIds,
             Transfer(o, to, t)
      PROVE  CardRest'
  <2> DEFINE c == <<o, t>>
             d == <<to, t>>
  <2>1. c \in Cards /\ d \in Cards
    BY DEF Cards
  <2> HIDE DEF c, d
  <2>2. /\ power' = [power EXCEPT ![c] = 0, ![d] = power[c]]
        /\ listed' = [[listed EXCEPT ![c] = OneLess(@)] EXCEPT ![d] = @ + 1]
    BY <1>7 DEF Transfer, c, d
  <2>3. power' \in [Cards -> Nat]
    BY <1>1, <2>1, <2>2 DEF CardRest
  <2>4. listed' \in [Cards -> Nat]
    <3>1. [listed EXCEPT ![c] = OneLess(@)] \in [Cards -> Nat]
      BY <2>1, LessType DEF CardRest
    <3> QED  BY <2>1, <2>2, <3>1
  <2>5. lost' \subseteq Cards \X Locks /\ doubled' \subseteq Cards
    BY <1>7, <2>1, LostWithType DEF Transfer, CardRest, d
  <2> QED  BY <1>2, <1>7, <2>3, <2>4, <2>5 DEF Transfer, CardRest
<1> QED  BY <1>3, <1>4, <1>5, <1>7 DEF CardStep

LEMMA StepRest ==
    ASSUME Assumptions, LockTypes, Amounts, CardRest, [Next]_vars
    PROVE  CardRest'
<1>1. CASE UNCHANGED <<power, listed, wallet, cardCalls, lost, doubled>>
  BY <1>1 DEF CardRest
<1>2. CASE UNCHANGED vars \/ RebuildStep
  BY <1>1, <1>2 DEF vars, RebuildStep, RebuildDeckEffective, storeVars
<1>3. CASE DeckStep
  <2>1. ASSUME NEW p \in Owners, NEW t \in TokenIds,
               Place(p, t) \/ RemovePlace(p, t) \/ \E s \in TokenIds : Replace(p, s, t)
        PROVE  CardRest'
    BY <1>1, <2>1, NewDeckFits DEF ApplyDeckUpdate
  <2>2. ASSUME NEW p \in Owners, NEW t \in TokenIds, NEW amount \in TopUps,
               GrowCard(p, t, amount)
        PROVE  CardRest'
    <3>1. <<p, t>> \in Cards /\ AddPowerToCard(<<p, t>>, amount)
      BY <2>2 DEF GrowCard, Cards
    <3> QED  BY <3>1, AddPowerRest
  <2>3. ASSUME NEW i, MigrateDeck(i) PROVE CardRest'
    BY <1>1, <2>3 DEF MigrateDeck, storeVars
  <2> QED  BY <1>3, <2>1, <2>2, <2>3 DEF DeckStep
<1> QED  BY <1>2, <1>3, CardStepRest DEF Next

LEMMA StoredBonus ==
    ASSUME BonusValues, NEW p \in Owners, NEW new, StoreDeck(p, new)
    PROVE  BonusValues'
<1> DEFINE bonus == IF Full(new) THEN BonusOf(Cardinality(CategoriesIn(new))) ELSE 0
<1>1. deckBonus' = [deckBonus EXCEPT ![p] = bonus]
  BY DEF StoreDeck
<1>2. bonus \in {0, 5, 10, 25}
  BY DEF BonusOf
<1> HIDE DEF bonus
<1> QED  BY <1>1, <1>2 DEF BonusValues

LEMMA StepBonus ==
    ASSUME Assumptions, LockTypes, Amounts, BonusValues, [Next]_vars
    PROVE  BonusValues'
<1>1. CASE UNCHANGED deckBonus
  BY <1>1 DEF BonusValues
<1>2. CASE UNCHANGED vars \/ CardStep \/ RebuildStep
  BY <1>1, <1>2 DEF vars, totalVars, CardStep, RebuildStep, RebuildDeckEffective
<1>3. CASE DeckStep
  <2>1. ASSUME NEW p \in Owners, NEW t \in TokenIds,
               Place(p, t) \/ RemovePlace(p, t) \/ \E s \in TokenIds : Replace(p, s, t)
        PROVE  BonusValues'
    <3>1. PICK new \in SUBSET TokenIds : ApplyDeckUpdate(p, new)
      BY <2>1, NewDeckFits
    <3> QED  BY <3>1, StoredBonus DEF ApplyDeckUpdate
  <2>2. ASSUME NEW p \in Owners, NEW t \in TokenIds, NEW amount \in TopUps,
               GrowCard(p, t, amount)
        PROVE  BonusValues'
    <3>1. PICK new \in SUBSET TokenIds : new = deck[p]
      BY DEF LockTypes
    <3>2. CASE lock[<<p, t>>] = "Deck"
      BY <2>2, <3>1, <3>2, StoredBonus DEF GrowCard
    <3>3. CASE lock[<<p, t>>] # "Deck"
      BY <1>1, <2>2, <3>3 DEF GrowCard, totalVars
    <3> QED  BY <3>2, <3>3
  <2>3. ASSUME NEW i, MigrateDeck(i) PROVE BonusValues'
    BY <1>1, <2>3 DEF MigrateDeck, totalVars
  <2> QED  BY <1>3, <2>1, <2>2, <2>3 DEF DeckStep
<1> QED  BY <1>2, <1>3 DEF Next

LEMMA InitRest ==
    ASSUME Assumptions, Init
    PROVE  CardRest /\ BonusValues
<1>1. InitialPower \in Nat /\ UserPower \in Nat
  BY DEF Assumptions, CardAssumption
<1>2. CardRest
  BY <1>1 DEF CardRest, Init, CardInit
<1>3. \A n : BonusOf(n) \in {0, 5, 10, 25}
  BY DEF BonusOf
<1> QED  BY <1>2, <1>3 DEF Init, BonusValues

-----------------------------------------------------------------------------
(* The theorems.                                                           *)

(* The inductive invariant: DeckLocks, and that no loss is ever undone.    *)
THEOREM DeckInvariant == Spec => []DeckSafe
<1>1. Init => DeckSafe
  BY CardAssumption, DeckTotalsAssumption, InitSafe DEF Assumptions
<1>2. DeckSafe /\ [Next]_vars => DeckSafe'
  BY CardAssumption, DeckTotalsAssumption, StepSafe DEF Assumptions
<1> QED  BY <1>1, <1>2, PTL DEF Spec

(* A card locked by its owner's deck is in that deck, and a card in a deck *)
(* is locked by it unless the deck lost it: to a burn, a transfer or the   *)
(* record of a fight with a card that was lost before.                     *)
THEOREM DeckLocksHold == Spec => []DeckLocks
<1>1. DeckSafe => DeckLocks
  BY DEF DeckSafe
<1> QED  BY <1>1, DeckInvariant, PTL

(* No call of the contract ever changes a deck that lost a card: not even  *)
(* minting the card anew lets its owner take it out or replace it.         *)
THEOREM BrokenForever == Spec => BrokenDeckStays
<1> DEFINE Stays == \A p \in Owners : LostFromDeck(p) # {} => deck'[p] = deck[p]
<1>1. ASSUME DeckSafe, Next PROVE Stays
  <2>1. ASSUME NEW p \in Owners, NEW new, ApplyDeckUpdate(p, new) PROVE Stays
    <3>1. LostFromDeck(p) = {}
      BY <1>1, <2>1, UpdatedDeckWhole
    <3>2. \A o \in Owners : o # p => deck'[o] = deck[o]
      BY <1>1, <2>1 DEF ApplyDeckUpdate, StoreDeck, DeckSafe, LockTypes
    <3> QED  BY <3>1, <3>2
  <2>2. ASSUME NEW p \in Owners, NEW t, NEW amount, GrowCard(p, t, amount)
        PROVE  Stays
    <3>1. deck' = deck
      BY <1>1, <2>2 DEF GrowCard, StoreDeck, DeckSafe, LockTypes
    <3> QED  BY <3>1
  <2>3. CASE DeckStep
    <3>1. ASSUME NEW i, MigrateDeck(i) PROVE Stays
      BY <3>1 DEF MigrateDeck
    <3>2. ASSUME NEW p \in Owners, NEW t \in TokenIds,
                 Place(p, t) \/ RemovePlace(p, t) \/ \E s \in TokenIds : Replace(p, s, t)
          PROVE  Stays
      <4>1. \E new : ApplyDeckUpdate(p, new)
        BY <3>2 DEF Place, RemovePlace, Replace
      <4> QED  BY <4>1, <2>1
    <3> HIDE DEF Stays
    <3> QED  BY <2>2, <2>3, <3>1, <3>2 DEF DeckStep
  <2>4. CASE CardStep
    BY <2>4 DEF CardStep
  <2>5. CASE RebuildStep
    BY <2>5 DEF RebuildStep, RebuildDeckEffective
  <2> QED  BY <1>1, <2>3, <2>4, <2>5 DEF Next
<1>2. DeckSafe /\ [Next]_vars => [Stays]_vars
  BY <1>1
<1> QED  BY <1>2, DeckInvariant, PTL DEF Spec, BrokenDeckStays

(* The totals and the stored powers, together with what they rest on.      *)
THEOREM TotalsInvariant == Spec => [](TotalsSafe /\ DeckPowerFresh)
<1> DEFINE Inv == DeckSafe /\ TotalsSafe /\ DeckPowerFresh
<1>1. Init => Inv
  <2> SUFFICES ASSUME Init PROVE Inv
    OBVIOUS
  <2>1. DeckSafe /\ TotalsSafe
    BY CardAssumption, DeckTotalsAssumption, InitSafe, InitTotals DEF Assumptions
  <2>2. DeckPowerFresh
    <3>1. \A p \in Owners : deckPower[p] = SumPowers(power, p, deck[p])
      BY DEF Init
    <3> QED  BY <2>1, <3>1 DEF DeckPowerFresh, TotalsSafe, PartialEmpty
  <2> QED  BY <2>1, <2>2
<1>2. Inv /\ [Next]_vars => Inv'
  BY CardAssumption, DeckTotalsAssumption, StepSafe, StepTotals, StepFresh
     DEF Assumptions, DeckSafe
<1> QED  BY <1>1, <1>2, PTL DEF Spec

(* Every variable keeps its type; in particular no deck has more than      *)
(* DeckSize cards, and no power of a card or deck and no total falls below *)
(* zero, whatever order the calls of all components come in.               *)
THEOREM DeckTypes == Spec => []TypeOK
<1>1. Init => CardRest /\ BonusValues
  BY CardAssumption, DeckTotalsAssumption, InitRest DEF Assumptions
<1>2. /\ DeckSafe /\ TotalsSafe
      /\ CardRest /\ BonusValues /\ [Next]_vars
      => CardRest' /\ BonusValues'
  BY CardAssumption, DeckTotalsAssumption, StepRest, StepBonus
     DEF Assumptions, DeckSafe, TotalsSafe
<1>3. DeckSafe /\ TotalsSafe /\ CardRest /\ BonusValues => TypeOK
  BY DEF TypeOK, CardTypeOK, CardRest, BonusValues, DeckSafe, LockTypes,
         TotalsSafe, IndexTypes, Amounts
<1> QED  BY <1>1, <1>2, <1>3, DeckInvariant, TotalsInvariant, PTL DEF Spec

(* The total power is the sum over the decks at any time.  The total of    *)
(* effective powers is that of all decks unless a rebuild was disturbed,   *)
(* and that of the decks passed while one is under way.                    *)
THEOREM TotalsAreSums == Spec => []TotalsSummed
<1>1. TotalsSafe => TotalsSummed
  BY DEF TotalsSafe
<1> QED  BY <1>1, TotalsInvariant, PTL

(* The power stored with a deck whose cards were never lost is theirs.     *)
THEOREM PowersStayFresh == Spec => []DeckPowerFresh
  BY TotalsInvariant, PTL

(* Every deck call is a call DeckRegistry knows, or leaves its view alone. *)
(* DeckRegistry bounds the effective powers for the model checker only.    *)
THEOREM ImplementsRegistry ==
    ASSUME EffectivePowers = Nat
    PROVE  Spec => RegistrySpec
<1>1. Init => Reg!DeckInit
  BY CardAssumption, DeckTotalsAssumption, InitRefines DEF Assumptions
<1>2. DeckSafe /\ TotalsSafe /\ TotalsSafe' /\ [Next]_vars
        => [RegistryNext]_(Reg!deckVars)
  BY CardAssumption, DeckTotalsAssumption, StepRefines DEF Assumptions
<1> QED
  BY <1>1, <1>2, DeckInvariant, TotalsInvariant, PTL DEF Spec, RegistrySpec
=============================================================================
