----------------------------- MODULE DeckTotals ------------------------------
(***************************************************************************)
(* What is in the decks, and the totals kept about them                    *)
(* (contracts/nft/src/actions/deck.rs): the power and bonus stored with    *)
(* each deck, Balance.total_deck_power and TotalEffectiveDeckPower.  The   *)
(* totals are never computed from the decks but adjusted by every call     *)
(* that writes a deck; rebuild_total_effective_deck_power sums one of them *)
(* again, in batches, while the other calls go on.                         *)
(*                                                                         *)
(* Cards come from CardStore; the indexes over the decks are those of      *)
(* DeckRegistry, for which a deck is the number of its cards and its       *)
(* effective power.  That this view is right is RegistrySpec.  The guard   *)
(* on the status of the pot and the switch of the mode are left to         *)
(* PotRound: here decks may change at any time, in one mode.               *)
(***************************************************************************)
EXTENDS CardStore, Sequences, Functions

CONSTANTS
    DeckSize,       \* cards of a complete deck (4 in the code)
    CategoryOf,     \* category of each token's metadata
    LegacyOwners,   \* owners of complete decks written before there were pages
    LegacyDeck,     \* the tokens in each of those decks
    OtherPowers,    \* powers a stake, a fight or a loan may leave on a card
    EffectivePowers,\* effective powers DeckRegistry allows a complete deck
    BatchSizes,     \* limits of rebuild_deck_effective
    MaxTotal,       \* bound of the model: a batch is repeated below this total
    InitialModes    \* as in DeckRegistry

LegacyCards == {LegacyOwners[i] : i \in 1..Len(LegacyOwners)} \X LegacyDeck

ASSUME DeckTotalsAssumption ==
    /\ IsFiniteSet(Owners)
    /\ IsFiniteSet(TokenIds)
    /\ DeckSize \in Nat \ {0}
    /\ LegacyOwners \in Seq(Owners)
    /\ \A i, j \in 1..Len(LegacyOwners) :
            LegacyOwners[i] = LegacyOwners[j] => i = j
    /\ Cardinality(LegacyDeck) = DeckSize
    /\ LegacyCards \subseteq MintedCards
    /\ OtherPowers \subseteq Nat
    /\ EffectivePowers \subseteq Nat
    /\ BatchSizes \subseteq Nat \ {0}
    /\ MaxTotal \in Nat
    /\ InitialModes \subseteq BOOLEAN

VARIABLES
    deck,           \* Deck.token_ids, their order left out
    deckPower,      \* Deck.total_power
    deckBonus,      \* Deck.bonus, in percent
    totalDeckPower, \* Balance.total_deck_power
    totalEffective, \* DataKey::TotalEffectiveDeckPower
    legacy,         \* the indexes, see DeckRegistry
    paged,
    hasCount,
    pagesOnly,
    sweep           \* ghost: how far a rebuild has come, see below

indexVars == <<legacy, paged, hasCount, pagesOnly>>
totalVars == <<deckPower, deckBonus, totalDeckPower, totalEffective>>
vars == <<storeVars, deck, totalVars, indexVars, sweep>>

(* sweep = n >= 0: the first n decks of the pages have been summed, and no *)
(* deck was written since.  Trusted: totalEffective counts every deck.     *)
(* Untrusted: a rebuild was disturbed, or was never completed.             *)
Trusted == -1
Untrusted == -2

-----------------------------------------------------------------------------
(* Powers.                                                                 *)

BonusOf(categories) ==
    CASE categories = 2 -> 5
      [] categories = 3 -> 10
      [] categories = 4 -> 25
      [] OTHER -> 0

(* calculate_effective_power.                                              *)
EffectivePower(total, bonus) == (total * (100 + bonus)) \div 100

Full(tokens) == Cardinality(tokens) = DeckSize
EffectiveOf(p) == IF Full(deck[p]) THEN EffectivePower(deckPower[p], deckBonus[p]) ELSE 0

SumPowers(powers, p, tokens) ==
    SumFunctionOnSet([t \in tokens |-> powers[<<p, t>>]], tokens)
SumEffective == SumFunctionOnSet([p \in Owners |-> EffectiveOf(p)], Owners)

(* The effective powers of the decks at some positions of the pages.       *)
SumAt(positions) ==
    SumFunctionOnSet([i \in positions |-> EffectiveOf(paged[i])], positions)

CategoriesIn(tokens) == {CategoryOf[t] : t \in tokens}

Reg == INSTANCE DeckRegistry
    WITH Players <- Owners,
         ModeChanges <- {},
         LegacyDecks <- [i \in 1..Len(LegacyOwners) |->
                            [owner |-> LegacyOwners[i], cards |-> DeckSize]],
         cards <- [p \in Owners |-> Cardinality(deck[p])],
         effective <- [p \in Owners |-> EffectiveOf(p)]

TypeOK ==
    /\ CardTypeOK
    /\ deck \in [Owners -> SUBSET TokenIds]
    /\ \A p \in Owners : Cardinality(deck[p]) <= DeckSize
    /\ deckPower \in [Owners -> Nat]
    /\ deckBonus \in [Owners -> {0, 5, 10, 25}]
    /\ totalDeckPower \in Nat
    /\ totalEffective \in Nat
    /\ legacy \in Seq(Reg!DeckRecords)
    /\ paged \in Seq(Owners)
    /\ hasCount \in BOOLEAN
    /\ pagesOnly \in BOOLEAN
    /\ sweep \in Nat \cup {Trusted, Untrusted}

(* A contract upgraded from the version without pages knows no total of    *)
(* effective powers yet.                                                   *)
Init ==
    /\ CardInit(LegacyCards)
    /\ deck = [p \in Owners |-> {t \in TokenIds : <<p, t>> \in LegacyCards}]
    /\ deckPower = [p \in Owners |-> SumPowers(power, p, deck[p])]
    /\ deckBonus = [p \in Owners |-> BonusOf(Cardinality(CategoriesIn(deck[p])))]
    /\ totalDeckPower = SumFunctionOnSet(deckPower, Owners)
    /\ totalEffective = 0
    /\ legacy = [i \in 1..Len(LegacyOwners) |->
                    [owner |-> LegacyOwners[i], cards |-> DeckSize]]
    /\ paged = << >>
    /\ hasCount = FALSE
    /\ pagesOnly \in InitialModes
    /\ sweep = IF LegacyOwners = << >> THEN Trusted ELSE Untrusted

-----------------------------------------------------------------------------
(* Writing a deck.                                                         *)

(* Mutant: the power that leaves the total is the new one.                 *)
TakenOut_NewPower(p) ==
    IF Full(deck[p]) THEN [power |-> SumPowers(power, p, deck[p]), effective |-> 0]
    ELSE [power |-> 0, effective |-> 0]

(* What the old deck had put into the totals.                              *)
TakenOut(p) ==
    IF Full(deck[p]) /\ deckPower[p] > 0
    THEN [power |-> deckPower[p],
          effective |-> EffectivePower(deckPower[p], deckBonus[p])]
    ELSE [power |-> 0, effective |-> 0]

(* recompute_deck_totals and write_deck: p's deck becomes new.  The powers *)
(* are read after the call's own change of cards, hence power'.            *)
StoreDeck(p, new) ==
    LET full == Full(new)
        total == IF full THEN SumPowers(power', p, new) ELSE 0
        bonus == IF full THEN BonusOf(Cardinality(CategoriesIn(new))) ELSE 0
        out == TakenOut(p)
    IN  /\ full => \A t \in new : lock'[<<p, t>>] # Absent
        /\ deck' = [deck EXCEPT ![p] = new]
        /\ deckPower' = [deckPower EXCEPT ![p] = total]
        /\ deckBonus' = [deckBonus EXCEPT ![p] = bonus]
        /\ totalDeckPower' = SaturatingSub(totalDeckPower, out.power) + total
        /\ totalEffective' = SaturatingSub(totalEffective, out.effective)
                                + EffectivePower(total, bonus)
        /\ Reg!WriteIndexes(p, Cardinality(new))
        /\ sweep' = IF sweep >= 0 THEN Untrusted ELSE sweep

(* Mutant: the removed cards keep their lock.                              *)
Relocked_KeepsRemoved(p, new) ==
    [c \in Cards |-> IF c[1] = p /\ c[2] \in new \ deck[p] THEN "Deck" ELSE lock[c]]

(* Removed cards are unlocked, added ones locked.                          *)
Relocked(p, new) ==
    [c \in Cards |->
        IF c[1] = p /\ c[2] \in deck[p] \ new THEN "None"
        ELSE IF c[1] = p /\ c[2] \in new \ deck[p] THEN "Deck"
        ELSE lock[c]]

(* Mutant: only the cards of the new deck are looked at.                   *)
ApplyDeckUpdate_NewCards(p, new) ==
    /\ \A t \in deck[p] \cap new : lock[<<p, t>>] = "Deck"
    /\ \A t \in new \ deck[p] : lock[<<p, t>>] = "None"
    /\ lock' = Relocked(p, new)
    /\ UNCHANGED <<power, listed, wallet, cardCalls, lost, doubled>>
    /\ StoreDeck(p, new)

(* apply_deck_update.  Every card of the old and of the new deck must be   *)
(* there with the lock it should have.                                     *)
ApplyDeckUpdate(p, new) ==
    /\ \A t \in deck[p] : lock[<<p, t>>] = "Deck"
    /\ \A t \in new \ deck[p] : lock[<<p, t>>] = "None"
    /\ lock' = Relocked(p, new)
    /\ UNCHANGED <<power, listed, wallet, cardCalls, lost, doubled>>
    /\ StoreDeck(p, new)

(* Mutant: no limit on the number of cards.                                *)
Place_Unlimited(p, t) ==
    /\ t \notin deck[p]
    /\ ApplyDeckUpdate(p, deck[p] \cup {t})

Place(p, t) ==
    /\ Cardinality(deck[p]) < DeckSize
    /\ t \notin deck[p]
    /\ ApplyDeckUpdate(p, deck[p] \cup {t})

Replace(p, s, t) ==
    /\ s \in deck[p]
    /\ t \notin deck[p]
    /\ ApplyDeckUpdate(p, (deck[p] \ {s}) \cup {t})

RemovePlace(p, t) ==
    /\ t \in deck[p]
    /\ ApplyDeckUpdate(p, deck[p] \ {t})

(* Mutant: the deck is not told of the new power.                          *)
GrowCard_NoRecompute(p, t, amount) ==
    /\ AddPowerToCard(<<p, t>>, amount)
    /\ UNCHANGED <<deck, totalVars, indexVars, sweep>>

(* add_power_to_card with recompute_deck_after_power_change: a card in the *)
(* deck takes the deck's totals along.                                     *)
GrowCard(p, t, amount) ==
    /\ AddPowerToCard(<<p, t>>, amount)
    /\ IF lock[<<p, t>>] = "Deck"
       THEN StoreDeck(p, deck[p])
       ELSE UNCHANGED <<deck, totalVars, indexVars, sweep>>

-----------------------------------------------------------------------------
(* The batches of the admin.                                               *)

(* Mutant: a later batch starts from zero again.                           *)
SumBefore_Zero(start) == 0

SumBefore(start) == IF start = 0 THEN 0 ELSE totalEffective

(* The decks a batch visits, as positions in the pages.  The count falls   *)
(* back on the legacy list, the reads do not: positions beyond the pages   *)
(* are passed over.                                                        *)
Visited(start, limit) ==
    (start + 1)..Least(start + limit, Least(Reg!ReadDecksCount, Len(paged)))

(* rebuild_deck_effective(start, limit).  Its branch for unpaged decks is  *)
(* never taken: the count it waits for to be 0 is then that of the legacy  *)
(* list.                                                                   *)
RebuildDeckEffective(start, limit) ==
    LET next == start + limit
        unpaged == \E p \in Owners : EffectiveOf(p) > 0 /\ p \notin Reg!Members(paged)
    IN  /\ totalEffective' = SumBefore(start) + SumAt(Visited(start, limit))
        /\ sweep' = IF start \notin {0, sweep} \/ unpaged THEN Untrusted
                    ELSE IF next < Len(paged) THEN next ELSE Trusted
        /\ UNCHANGED <<storeVars, deck, deckPower, deckBonus, totalDeckPower, indexVars>>

(* Mutant: a deck that is in the pages is added again.                     *)
MigrateDeck_Again(i) ==
    /\ UNCHANGED <<storeVars, deck, totalVars, sweep>>
    /\ Reg!MigrateDeck_Again(i)

(* Migration only adds to the pages; a sweep under way stays right.        *)
MigrateDeck(i) ==
    /\ UNCHANGED <<storeVars, deck, totalVars, sweep>>
    /\ Reg!MigrateDeck(i)

-----------------------------------------------------------------------------
(* The calls of CardStore, and those of the other components as CardUse    *)
(* states them.                                                            *)

Use == INSTANCE CardUse WITH Powers <- OtherPowers

OtherStep ==
    /\ \E c \in Cards :
        \/ /\ \E n \in OtherPowers :
                \/ Use!Take(c, n) /\ CardCall
                \/ (Use!Cut(c, n) \/ Use!Release(c, n)) /\ UNCHANGED cardCalls
           /\ UNCHANGED listed
        \/ /\ Use!Remove(c)
           /\ listed' = [listed EXCEPT ![c] = OneLess(@)]
           /\ UNCHANGED cardCalls
    /\ UNCHANGED <<wallet, doubled>>

CardStep ==
    /\ \/ \E c \in Cards : Mint(c) \/ Burn(c)
       \/ \E o, to \in Owners, t \in TokenIds : Transfer(o, to, t)
       \/ OtherStep
    /\ UNCHANGED <<deck, totalVars, indexVars, sweep>>

DeckStep ==
    \/ \E p \in Owners, t \in TokenIds :
        \/ Place(p, t)
        \/ RemovePlace(p, t)
        \/ \E s \in TokenIds : Replace(p, s, t)
        \/ \E amount \in TopUps : GrowCard(p, t, amount)
    \/ \E i \in 1..Len(legacy) : MigrateDeck(i)

RebuildStep ==
    \E start \in 0..Len(paged), limit \in BatchSizes :
        /\ start \in {0, sweep} \/ totalEffective < MaxTotal
        /\ RebuildDeckEffective(start, limit)

Next == CardStep \/ DeckStep \/ RebuildStep

Spec == Init /\ [][Next]_vars

-----------------------------------------------------------------------------
(* Properties.                                                             *)

LostFromDeck(p) == {t \in deck[p] : <<<<p, t>>, "Deck">> \in lost}

(* The total power is at any time the sum over the decks.  The total of    *)
(* effective powers is, unless a rebuild was disturbed; while a rebuild is *)
(* under way it is the sum of the decks it has passed.                     *)
TotalsSummed ==
    /\ totalDeckPower = SumFunctionOnSet(deckPower, Owners)
    /\ sweep = Trusted => totalEffective = SumEffective
    /\ sweep >= 0 => totalEffective = SumAt(1..sweep)

(* A card locked by its owner's deck is in that deck, and a card in a deck *)
(* is locked by it unless it was burnt or overwritten there, or freed by   *)
(* the record that a card before it left behind.                           *)
DeckLocks ==
    \A p \in Owners, t \in TokenIds :
        /\ lock[<<p, t>>] = "Deck" => t \in deck[p]
        /\ t \in deck[p] => \/ lock[<<p, t>>] = "Deck"
                            \/ t \in LostFromDeck(p)

(* No card in the deck was ever taken from whoever had it locked, so that  *)
(* no record of a predecessor reaches it.                                  *)
Undisputed(p) == \A t \in deck[p], l \in Locks : <<<<p, t>>, l>> \notin lost

(* The power stored with an undisputed deck is that of its cards now,      *)
(* whatever was done to them since they were placed.                       *)
DeckPowerFresh ==
    \A p \in Owners :
        Undisputed(p) =>
            deckPower[p] = IF Full(deck[p]) THEN SumPowers(power, p, deck[p]) ELSE 0

(* A deck that lost a card stays as it is: no call of the contract gets    *)
(* the card out of it, changes the other cards or completes it, and its    *)
(* effective power goes on counting in the pot.                            *)
BrokenDeckStays ==
    [][\A p \in Owners : LostFromDeck(p) # {} => deck'[p] = deck[p]]_vars

(* The decks seen as numbers of cards with an effective power do what      *)
(* DeckRegistry, on which the pot is built, says of them.                  *)
RegistryNext ==
    \/ \E p \in Owners : \/ Reg!PlaceCard(p)
                         \/ Reg!ReplaceCard(p)
                         \/ Reg!RemoveCard(p)
                         \/ Reg!RecomputeDeck(p)
    \/ \E i \in 1..Len(legacy) : Reg!MigrateDeck(i)

RegistrySpec == Reg!DeckInit /\ [][RegistryNext]_(Reg!deckVars)
=============================================================================
