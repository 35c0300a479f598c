---------------------------- MODULE DeckRegistry ----------------------------
(***************************************************************************)
(* The decks of all players and the two indexes over them                  *)
(* (contracts/nft/src/actions/deck.rs), as the pot sees them.              *)
(*                                                                         *)
(* A deck is reduced to the number of its cards and to the effective power *)
(* calculate_effective_power gives it; which cards it holds, their powers  *)
(* and categories are the business of module DeckTotals.  Both indexes are *)
(* kept: the legacy list of deck records under DataKey::Decks, written     *)
(* unless the contract is in pages-only mode, and the paged index, here    *)
(* the sequence of owners its pages hold (module PagedIndex shows that     *)
(* pages, positions and count together implement such a sequence).         *)
(*                                                                         *)
(* The module has no Next of its own: PotRound decides when a deck may     *)
(* change and adds the pot.                                                *)
(***************************************************************************)
EXTENDS Integers, Sequences, FiniteSets

CONSTANTS
    Players,        \* owners of decks
    DeckSize,       \* cards of a complete deck (4 in the code)
    EffectivePowers,\* effective powers a complete deck may have
    LegacyDecks,    \* decks written by a version without pages, in list order
    InitialModes,   \* the values pages-only mode may have at the start
    ModeChanges     \* the values set_pages_only_mode may be given later

(* What the legacy list keeps of a deck record.                            *)
DeckRecords == [owner : Players, cards : 0..DeckSize]

(* write_deck keeps one record per owner in the legacy list.               *)
ASSUME DeckAssumption ==
    /\ IsFiniteSet(Players)
    /\ DeckSize \in Nat \ {0}
    /\ EffectivePowers \subseteq Nat
    /\ LegacyDecks \in Seq(DeckRecords)
    /\ \A i, j \in 1..Len(LegacyDecks) :
            LegacyDecks[i].owner = LegacyDecks[j].owner => i = j
    /\ InitialModes \subseteq BOOLEAN
    /\ ModeChanges \subseteq BOOLEAN

VARIABLES
    cards,      \* cards[p]: number of cards in p's deck
    effective,  \* effective[p]: effective power of p's deck, 0 unless complete
    legacy,     \* DataKey::Decks: a copy of each deck ever written, in order
    paged,      \* owners in the paged index, in page order
    hasCount,   \* DataKey::PagedCount(Decks) exists
    pagesOnly   \* the pg_only flag

deckVars == <<cards, effective, legacy, paged, hasCount, pagesOnly>>

DeckTypeOK ==
    /\ cards \in [Players -> 0..DeckSize]
    /\ effective \in [Players -> Nat]
    /\ legacy \in Seq(DeckRecords)
    /\ paged \in Seq(Players)
    /\ hasCount \in BOOLEAN
    /\ pagesOnly \in BOOLEAN

-----------------------------------------------------------------------------
(* Helpers on sequences of distinct elements.                              *)

Members(s) == {s[i] : i \in 1..Len(s)}
PositionOf(s, x) == CHOOSE i \in 1..Len(s) : s[i] = x
Smaller(m, n) == IF m < n THEN m ELSE n

(* A complete deck, the only kind the passes of the pot count and pay.     *)
Complete(p) == cards[p] = DeckSize

-----------------------------------------------------------------------------
(* Reading the index.                                                      *)

(* Mutant: in default mode the legacy list is counted, whose records of    *)
(* emptied decks stay.                                                     *)
ReadDecksCount_Legacy == IF pagesOnly THEN Len(paged) ELSE Len(legacy)

(* read_decks_count: an empty paged index falls back on the legacy list,   *)
(* which also holds decks that have become empty.                          *)
ReadDecksCount ==
    IF Len(paged) = 0 /\ ~pagesOnly THEN Len(legacy) ELSE Len(paged)

(* Mutant: the legacy list is read in every mode.                          *)
DeckSource_Legacy == [i \in 1..Len(legacy) |-> legacy[i].owner]

(* read_decks_page chooses its source by the presence of the count key,    *)
(* not by its value.                                                       *)
DeckSource ==
    IF ~pagesOnly /\ ~hasCount
    THEN [i \in 1..Len(legacy) |-> legacy[i].owner]
    ELSE paged

(* Mutant: every batch reads from the start.                               *)
ReadDecksPage_NoCursor(cursor, limit) ==
    SubSeq(DeckSource, 1, Smaller(limit, Len(DeckSource)))

(* read_decks_page: at most limit owners from the cursor on.               *)
ReadDecksPage(cursor, limit) ==
    IF cursor >= Len(DeckSource)
    THEN << >>
    ELSE SubSeq(DeckSource, cursor + 1, Smaller(cursor + limit, Len(DeckSource)))

-----------------------------------------------------------------------------
(* Writing a deck.                                                         *)

(* The legacy half of write_deck: replace the owner's record or push it.   *)
WriteLegacy(p, n) ==
    LET record == [owner |-> p, cards |-> n]
        known == {i \in 1..Len(legacy) : legacy[i].owner = p}
    IN  IF pagesOnly
        THEN UNCHANGED legacy
        ELSE legacy' = IF known = {}
                       THEN Append(legacy, record)
                       ELSE [legacy EXCEPT ![CHOOSE i \in known : TRUE] = record]

AddDeckPageIndex(p) ==
    /\ paged' = Append(paged, p)
    /\ hasCount' = TRUE

(* Mutant: the last entry is dropped instead of the removed one.           *)
RemoveDeckPageIndex_NoSwap(p) ==
    /\ paged' = SubSeq(paged, 1, Len(paged) - 1)
    /\ UNCHANGED hasCount

(* remove_deck_page_index: the last entry takes the place of the removed   *)
(* one.                                                                    *)
RemoveDeckPageIndex(p) ==
    LET last == Len(paged)
        at == PositionOf(paged, p)
    IN  /\ paged' = [i \in 1..(last - 1) |->
                        IF i = at THEN paged[last] ELSE paged[i]]
        /\ UNCHANGED hasCount

(* The second half of write_deck: the legacy list, then the paged index,   *)
(* which a deck enters with its first card and leaves with its last.       *)
WriteIndexes(p, n) ==
    /\ WriteLegacy(p, n)
    /\ CASE n > 0 /\ p \notin Members(paged) -> AddDeckPageIndex(p)
         [] n = 0 /\ p \in Members(paged) -> RemoveDeckPageIndex(p)
         [] OTHER -> UNCHANGED <<paged, hasCount>>
    /\ UNCHANGED pagesOnly

(* write_deck: the record, then the indexes.                               *)
WriteDeck(p, n, e) ==
    /\ cards' = [cards EXCEPT ![p] = n]
    /\ effective' = [effective EXCEPT ![p] = e]
    /\ WriteIndexes(p, n)

(* recompute_deck_totals: a deck of n cards has an effective power only if *)
(* it is complete; the powers of its cards decide which.                   *)
PossiblePowers(n) == IF n = DeckSize THEN EffectivePowers ELSE {0}

DeckInit ==
    /\ cards = [p \in Players |->
                    IF \E i \in 1..Len(LegacyDecks) : LegacyDecks[i].owner = p
                    THEN LegacyDecks[CHOOSE i \in 1..Len(LegacyDecks) :
                                        LegacyDecks[i].owner = p].cards
                    ELSE 0]
    /\ effective \in {f \in [Players -> EffectivePowers \cup {0}] :
                        \A p \in Players : f[p] \in PossiblePowers(cards[p])}
    /\ legacy = LegacyDecks
    /\ paged = << >>
    /\ hasCount = FALSE
    /\ pagesOnly \in InitialModes

-----------------------------------------------------------------------------
(* The operations, without the pot's guard.                                *)

PlaceCard(p) ==
    /\ cards[p] < DeckSize
    /\ \E e \in PossiblePowers(cards[p] + 1) : WriteDeck(p, cards[p] + 1, e)

ReplaceCard(p) ==
    /\ cards[p] > 0
    /\ \E e \in PossiblePowers(cards[p]) : WriteDeck(p, cards[p], e)

RemoveCard(p) ==
    /\ cards[p] > 0
    /\ WriteDeck(p, cards[p] - 1, 0)

(* recompute_deck_after_power_change, for a card that is in the deck.      *)
RecomputeDeck(p) ==
    /\ cards[p] > 0
    /\ \E e \in PossiblePowers(cards[p]) : WriteDeck(p, cards[p], e)

(* Mutant: no look at the owner's Pos key before adding.                   *)
MigrateDeck_Again(i) ==
    /\ ~pagesOnly
    /\ i \in 1..Len(legacy)
    /\ legacy[i].cards > 0
    /\ AddDeckPageIndex(legacy[i].owner)
    /\ UNCHANGED <<cards, effective, legacy, pagesOnly>>

(* migrate_decks_to_pages(i - 1, 1).  A larger limit is a sequence of such *)
(* calls: the loop carries nothing from one entry to the next.  In         *)
(* pages-only mode read_decks returns the paged decks themselves and the   *)
(* call changes nothing.  The test is on the legacy copy of the deck.      *)
MigrateDeck(i) ==
    /\ ~pagesOnly
    /\ i \in 1..Len(legacy)
    /\ legacy[i].cards > 0
    /\ legacy[i].owner \notin Members(paged)
    /\ AddDeckPageIndex(legacy[i].owner)
    /\ UNCHANGED <<cards, effective, legacy, pagesOnly>>

SetPagesOnly(b) ==
    /\ b # pagesOnly
    /\ pagesOnly' = b
    /\ UNCHANGED <<cards, effective, legacy, paged, hasCount>>

-----------------------------------------------------------------------------
(* The index names each owner once.                                        *)
NoDuplicates(s) == \A i, j \in 1..Len(s) : s[i] = s[j] => i = j
=============================================================================
