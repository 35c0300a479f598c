------------------------------ MODULE PotRound ------------------------------
(***************************************************************************)
(* The Haw AI pot: contributions, the opening of a round in resumable      *)
(* batches, the crediting of players and the claims                        *)
(* (contracts/nft/src/contract.rs and pot/management.rs).                  *)
(*                                                                         *)
(* Every call of the contract is one atomic transaction, so every action   *)
(* is one call; an assertion, an error result or an arithmetic overflow    *)
(* reverts the whole call, which is an action that is not enabled.  What   *)
(* interleaves is the calls of players, of the admin and of its keeper.    *)
(*                                                                         *)
(* All assets go through the same steps, so balances are functions of the  *)
(* asset: Core assets (TERRY, POWER, XTAR) have a field each in PotBalance *)
(* and ContractVault, Generic assets are the registered token contracts.   *)
(***************************************************************************)
EXTENDS DeckRegistry, Functions

CONSTANTS
    MaxRound,       \* rounds are 1..MaxRound; bounds the model, not the code
    Core,           \* assets with fields of their own
    Generic,        \* assets under AccumulatedByToken
    Xtar,           \* the core asset that is a token held by the contract
    Narrow,         \* core assets counted in u32 (POWER)
    U32Max,         \* the largest u32
    BasisPoints,    \* the denominator of shares and fees (10000)
    Fees,           \* dogstar fees the admin may ask for, in basis points
    Contributions,  \* core amounts one call may ask for: functions on Core
    TokenAmounts,   \* amounts one accumulate_pot_token call may bring
    MaxHeld,        \* bound of the model on what pot and fees hold per asset
    Limits,         \* batch sizes the keeper uses
    PageSizeDecks,  \* open_pot refuses more decks than this
    MaxResets       \* bound of the model on calls of force_reset_pot

Assets == Core \cup Generic
Tokens == {Xtar} \cup Generic
Rounds == 1..MaxRound
NoRound == 0

ASSUME PotAssumption ==
    /\ MaxRound \in Nat
    /\ Xtar \in Core
    /\ Core \cap Generic = {}
    /\ Narrow \subseteq Core \ {Xtar}
    /\ U32Max \in Nat
    /\ BasisPoints \in Nat \ {0}
    /\ Fees \subseteq Nat
    /\ Contributions \subseteq [Core -> Int]
    /\ \A c \in Contributions, a \in Core \ {Xtar} : c[a] >= 0
    /\ TokenAmounts \subseteq Nat
    /\ MaxHeld \in Nat
    /\ Limits \subseteq Nat \ {0}
    /\ PageSizeDecks \in Nat
    /\ MaxResets \in Nat

VARIABLES
    pot,            \* PotBalance.accumulated_*, AccumulatedByToken
    fees,           \* ContractVault.dogstar_*, DogstarGenericFee
    totalClaimable, \* ContractVault.total_claimable_* (core only)
    claimable,      \* UserClaimableBalance, UserGenericClaimable
    balance,        \* tokens the contract holds at the token contracts
    registered,     \* RegisteredTokens
    feeRate,        \* Config.dogstar_fee_percentage
    currentRound,   \* CurrentRound
    inProgress,     \* the pot_ip key, NoRound when it is absent
    status,         \* PotStatus(round)
    cursor,         \* PotCursor(round)
    totalDecks,     \* the pot_tot key of the round
    snapshot,       \* OpeningSnapshot(round); exists once status leaves Init
    share,          \* PlayerShare(round, player).share_percentage
    resets,         \* calls of force_reset_pot so far
    undisturbed     \* no admin call changed the index or restarted a round
                    \* between the start and the end of a round

moneyVars == <<pot, fees, totalClaimable, claimable, balance>>
adminVars == <<registered, feeRate>>
roundVars == <<currentRound, inProgress, status, cursor, totalDecks, snapshot, share>>
ghostVars == <<resets, undisturbed>>
vars == <<deckVars, moneyVars, adminVars, roundVars, ghostVars>>

Statuses == {"Init", "Totals", "Shares", "Finalized"}

TypeOK ==
    /\ DeckTypeOK
    /\ pot \in [Assets -> Nat]
    /\ fees \in [Assets -> Nat]
    /\ totalClaimable \in [Core -> Int]
    /\ claimable \in [Players -> [Assets -> Nat]]
    /\ balance \in [Tokens -> Nat]
    /\ registered \subseteq Tokens
    /\ feeRate \in 0..BasisPoints
    /\ currentRound \in Rounds \cup {NoRound}
    /\ inProgress \in Rounds \cup {NoRound}
    /\ status \in [Rounds -> Statuses]
    /\ cursor \in [Rounds -> Nat]
    /\ totalDecks \in [Rounds -> Nat]
    /\ snapshot \in [Rounds -> [amount : [Assets -> Nat],
                                participants : Nat, power : Nat]]
    /\ share \in [Rounds -> [Players -> Nat]]
    /\ resets \in 0..MaxResets
    /\ undisturbed \in BOOLEAN

(* initialize stores the admin's configuration as it comes; the model      *)
(* starts from a fee within the 50% the code names as the maximum.         *)
Init ==
    /\ DeckInit
    /\ pot = [a \in Assets |-> 0]
    /\ fees = [a \in Assets |-> 0]
    /\ totalClaimable = [a \in Core |-> 0]
    /\ claimable = [p \in Players |-> [a \in Assets |-> 0]]
    /\ balance = [t \in Tokens |-> 0]
    /\ registered = {}
    /\ feeRate \in {f \in Fees : 2 * f <= BasisPoints}
    /\ currentRound = NoRound
    /\ inProgress = NoRound
    /\ status = [r \in Rounds |-> "Init"]
    /\ cursor = [r \in Rounds |-> 0]
    /\ totalDecks = [r \in Rounds |-> 0]
    /\ snapshot = [r \in Rounds |-> [amount |-> [a \in Assets |-> 0],
                                     participants |-> 0, power |-> 0]]
    /\ share = [r \in Rounds |-> [p \in Players |-> 0]]
    /\ resets = 0
    /\ undisturbed = TRUE

-----------------------------------------------------------------------------
(* Arithmetic.  The release profile keeps overflow checks on, so a sum or  *)
(* product of u32 values that does not fit reverts the call; i128 amounts  *)
(* do not overflow in practice and are left unbounded.                     *)

Fits(a, n) == a \in Narrow => n <= U32Max
SaturatingAdd(m, n) == Smaller(m + n, U32Max)

(* The fee taken from an amount, rounded down.                             *)
FeeOf(n) == (n * feeRate) \div BasisPoints

(* share_percentage of a deck of power e when all decks have power total.  *)
SharePercentage(e, total) ==
    IF total > 0 THEN (e * BasisPoints) \div total ELSE 0

(* Mutant: parts rounded up.                                               *)
Payout_RoundedUp(amount, percentage) ==
    (amount * percentage + BasisPoints - 1) \div BasisPoints

(* A player's part of an amount of the snapshot.                           *)
Payout(amount, percentage) == (amount * percentage) \div BasisPoints

(* Complete decks of a page, and the sum of their effective powers.        *)
Participants(page) == {p \in Members(page) : Complete(p)}
PowerOf(page) == SumFunctionOnSet(effective, Participants(page))

-----------------------------------------------------------------------------
(* Contributions.                                                          *)

(* The tail of accumulate_pot, accumulate_pot_internal and                 *)
(* accumulate_pot_token: the net amount to the pot, the fee to the vault.  *)
Accumulate(amount) ==
    /\ \A a \in Assets : /\ Fits(a, amount[a] * feeRate)
                         /\ Fits(a, pot[a] + amount[a] - FeeOf(amount[a]))
                         /\ Fits(a, fees[a] + FeeOf(amount[a]))
                         /\ pot[a] + fees[a] + amount[a] <= MaxHeld
    /\ pot' = [a \in Assets |-> pot[a] + amount[a] - FeeOf(amount[a])]
    /\ fees' = [a \in Assets |-> fees[a] + FeeOf(amount[a])]
    /\ balance' = [t \in Tokens |-> balance[t] + amount[t]]
    /\ UNCHANGED <<totalClaimable, claimable>>

(* accumulate_pot and contribute_to_pot by the admin, and the calls that   *)
(* end in accumulate_pot_internal: mint, burn, opening and closing a       *)
(* position.  XTAR is transferred to the contract in the same call, and a  *)
(* negative amount of it is refused.  POWER is a u32; the code would take  *)
(* a negative amount of TERRY, which the model leaves out.                 *)
AccumulatePot ==
    /\ \E c \in Contributions :
        /\ c[Xtar] >= 0
        /\ Accumulate([a \in Assets |-> IF a \in Core THEN c[a] ELSE 0])
    /\ UNCHANGED <<deckVars, adminVars, roundVars, ghostVars>>

AccumulatePotToken ==
    /\ \E t \in registered, n \in TokenAmounts :
        Accumulate([a \in Assets |-> IF a = t THEN n ELSE 0])
    /\ UNCHANGED <<deckVars, adminVars, roundVars, ghostVars>>

RegisterToken ==
    /\ \E t \in Tokens : registered' = registered \cup {t}
    /\ UNCHANGED <<deckVars, moneyVars, feeRate, roundVars, ghostVars>>

UnregisterToken ==
    /\ \E t \in Tokens : registered' = registered \ {t}
    /\ UNCHANGED <<deckVars, moneyVars, feeRate, roundVars, ghostVars>>

(* update_dogstar_fee_percentage: at most 50%.                             *)
UpdateDogstarFeePercentage ==
    /\ \E f \in Fees : /\ 2 * f <= BasisPoints
                       /\ feeRate' = f
    /\ UNCHANGED <<deckVars, moneyVars, registered, roundVars, ghostVars>>

(* Mutant: the fee is stored as it comes.                                  *)
SetFeePercentages_Unchecked ==
    /\ \E f \in Fees : feeRate' = f
    /\ UNCHANGED <<deckVars, moneyVars, registered, roundVars, ghostVars>>

(* set_fee_percentages: at most 100%.                                      *)
SetFeePercentages ==
    /\ \E f \in Fees : /\ f <= BasisPoints
                       /\ feeRate' = f
    /\ UNCHANGED <<deckVars, moneyVars, registered, roundVars, ghostVars>>

-----------------------------------------------------------------------------
(* Opening a round.                                                        *)

Status(r) == IF r \in Rounds THEN status[r] ELSE "Init"

(* What a start takes out of the pot: the core balances, and the generic   *)
(* balances of the tokens that are registered at that moment.              *)
Opened == [a \in Assets |-> IF a \in Core \cup registered THEN pot[a] ELSE 0]

AlreadyProcessed(r) == r <= currentRound

(* Mutant: the guard looks at the round to start, not at the one in        *)
(* progress.                                                               *)
OtherRoundOpen_WrongRound(r) == Status(r) \notin {"Init", "Finalized"}

OtherRoundOpen(r) ==
    /\ inProgress \notin {NoRound, r}
    /\ Status(inProgress) # "Finalized"

(* The guards of open_pot_start_internal.                                  *)
CanStart(r) ==
    /\ ~AlreadyProcessed(r)
    /\ ~OtherRoundOpen(r)
    /\ status[r] = "Init"
    /\ \A a \in Core : Fits(a, totalClaimable[a] + pot[a])

(* Mutant: the pot is snapshotted but not zeroed.                          *)
MoveToVault_KeepsPot ==
    /\ totalClaimable' = [a \in Core |-> totalClaimable[a] + pot[a]]
    /\ UNCHANGED pot

(* The money a start moves from the pot to the vault.                      *)
MoveToVault ==
    /\ totalClaimable' = [a \in Core |-> totalClaimable[a] + pot[a]]
    /\ pot' = [a \in Assets |-> pot[a] - Opened[a]]

OpenPotStart(r) ==
    /\ CanStart(r)
    /\ MoveToVault
    /\ snapshot' = [snapshot EXCEPT ![r] = [amount |-> Opened,
                                            participants |-> 0, power |-> 0]]
    /\ totalDecks' = [totalDecks EXCEPT ![r] = ReadDecksCount]
    /\ inProgress' = r
    /\ status' = [status EXCEPT ![r] = "Totals"]
    /\ cursor' = [cursor EXCEPT ![r] = 0]
    /\ UNCHANGED <<currentRound, share, fees, claimable, balance>>
    /\ UNCHANGED <<deckVars, adminVars, ghostVars>>

(* open_pot_process_totals on one batch.                                   *)
ProcessTotals(r, limit) ==
    LET page == ReadDecksPage(cursor[r], limit)
        next == cursor[r] + Len(page)
        done == next >= totalDecks[r]
        count == Cardinality(Participants(page))
    IN  /\ status[r] = "Totals"
        /\ IF cursor[r] >= totalDecks[r]
           THEN UNCHANGED snapshot
           ELSE /\ PowerOf(page) \in 0..U32Max
                /\ snapshot' = [snapshot EXCEPT
                        ![r].participants = SaturatingAdd(@, count),
                        ![r].power = SaturatingAdd(@, PowerOf(page))]
        /\ cursor' = [cursor EXCEPT ![r] = IF done THEN 0 ELSE next]
        /\ status' = [status EXCEPT ![r] = IF done THEN "Shares" ELSE @]
        /\ UNCHANGED <<currentRound, inProgress, totalDecks, share>>
        /\ UNCHANGED <<deckVars, moneyVars, adminVars, ghostVars>>

(* What process_shares gives the owners of a page in the round whose       *)
(* snapshot is snap: the new shares and the new claimable balances.        *)
ShareIn(snap, p) == SharePercentage(effective[p], snap.power)

SharesFit(snap, page) ==
    \A p \in Participants(page) :
        /\ snap.power > 0 => effective[p] * BasisPoints <= U32Max
        /\ \A a \in Core :
            LET part == Payout(snap.amount[a], ShareIn(snap, p))
            IN  /\ Fits(a, snap.amount[a] * ShareIn(snap, p))
                /\ Fits(a, claimable[p][a] + part)

CreditedShares(snap, page, r) ==
    [p \in Players |-> IF p \in Participants(page)
                       THEN ShareIn(snap, p) ELSE share[r][p]]

CreditedClaims(snap, page) ==
    [p \in Players |->
        IF p \in Participants(page)
        THEN [a \in Assets |->
                claimable[p][a] + Payout(snap.amount[a], ShareIn(snap, p))]
        ELSE claimable[p]]

(* open_pot_process_shares on one batch.  With the cursor at the end the   *)
(* call returns and changes nothing.                                       *)
ProcessShares(r, limit) ==
    LET page == ReadDecksPage(cursor[r], limit)
    IN  /\ status[r] = "Shares"
        /\ cursor[r] < totalDecks[r]
        /\ SharesFit(snapshot[r], page)
        /\ share' = [share EXCEPT ![r] = CreditedShares(snapshot[r], page, r)]
        /\ claimable' = CreditedClaims(snapshot[r], page)
        /\ cursor' = [cursor EXCEPT ![r] = @ + Len(page)]
        /\ UNCHANGED <<currentRound, inProgress, status, totalDecks, snapshot>>
        /\ UNCHANGED <<pot, fees, totalClaimable, balance>>
        /\ UNCHANGED <<deckVars, adminVars, ghostVars>>

OpenPotFinalize(r) ==
    /\ status[r] = "Shares"
    /\ cursor[r] >= totalDecks[r]
    /\ currentRound' = r
    /\ status' = [status EXCEPT ![r] = "Finalized"]
    /\ inProgress' = NoRound
    /\ UNCHANGED <<cursor, totalDecks, snapshot, share>>
    /\ UNCHANGED <<deckVars, moneyVars, adminVars, ghostVars>>

(* open_pot: start, both passes over all decks, and finalize in one        *)
(* transaction.  One page must bring the cursor to the end of each pass,   *)
(* otherwise the next phase's assertion reverts the call.                  *)
OpenPot(r) ==
    LET total == ReadDecksCount
        page == ReadDecksPage(0, total)
        snap == [amount |-> Opened,
                 participants |-> Smaller(Cardinality(Participants(page)), U32Max),
                 power |-> PowerOf(page)]
    IN  /\ CanStart(r)
        /\ total <= PageSizeDecks
        /\ Len(page) >= total
        /\ PowerOf(page) \in 0..U32Max
        /\ SharesFit(snap, page)
        /\ MoveToVault
        /\ snapshot' = [snapshot EXCEPT ![r] = snap]
        /\ totalDecks' = [totalDecks EXCEPT ![r] = total]
        /\ cursor' = [cursor EXCEPT ![r] = total]
        /\ share' = [share EXCEPT ![r] = CreditedShares(snap, page, r)]
        /\ claimable' = CreditedClaims(snap, page)
        /\ currentRound' = r
        /\ status' = [status EXCEPT ![r] = "Finalized"]
        /\ inProgress' = NoRound
        /\ UNCHANGED <<fees, balance, deckVars, adminVars, ghostVars>>

(* Mutant: a finalized round can be reset.                                 *)
Resettable_Finalized(r) == status[r] # "Init"

(* force_reset_pot needs a snapshot, which a round has once it was         *)
(* started, and refuses finalized rounds.                                  *)
Resettable(r) == status[r] \notin {"Init", "Finalized"}

(* force_reset_pot: back to the totals phase with the cursor at 0.  The    *)
(* snapshot keeps the participants and the power of the earlier pass, and  *)
(* players keep what the earlier shares phase credited.                    *)
ForceResetPot(r) ==
    /\ resets < MaxResets
    /\ Resettable(r)
    /\ inProgress' = r
    /\ totalDecks' = [totalDecks EXCEPT ![r] =
                        IF @ = 0 THEN ReadDecksCount ELSE @]
    /\ status' = [status EXCEPT ![r] = "Totals"]
    /\ cursor' = [cursor EXCEPT ![r] = 0]
    /\ resets' = resets + 1
    /\ undisturbed' = FALSE
    /\ UNCHANGED <<currentRound, snapshot, share, deckVars, moneyVars, adminVars>>

-----------------------------------------------------------------------------
(* Claims.                                                                 *)

(* What a claim pays: all core balances, and the generic balances of the   *)
(* tokens that are registered at that moment.                              *)
Claimed(p) ==
    [a \in Assets |-> IF a \in Core \cup registered THEN claimable[p][a] ELSE 0]

ClaimHawAiPotShare(p) ==
    LET paid == Claimed(p)
    IN  /\ \E a \in Assets : paid[a] > 0
        /\ \A a \in Narrow : paid[a] <= totalClaimable[a]
        /\ \A t \in Tokens : paid[t] <= balance[t]
        /\ claimable' = [claimable EXCEPT
                ![p] = [a \in Assets |-> claimable[p][a] - paid[a]]]
        /\ totalClaimable' = [a \in Core |-> totalClaimable[a] - paid[a]]
        /\ balance' = [t \in Tokens |-> balance[t] - paid[t]]
        /\ UNCHANGED <<pot, fees, deckVars, adminVars, roundVars, ghostVars>>

(* The fees a claim by the admin pays out.                                 *)
ClaimedFees == [a \in Assets |-> IF a \in Core \cup registered THEN fees[a] ELSE 0]

ClaimDogstarFees ==
    /\ \E a \in Assets : ClaimedFees[a] > 0
    /\ \A t \in Tokens : ClaimedFees[t] <= balance[t]
    /\ fees' = [a \in Assets |-> fees[a] - ClaimedFees[a]]
    /\ balance' = [t \in Tokens |-> balance[t] - ClaimedFees[t]]
    /\ UNCHANGED <<pot, totalClaimable, claimable>>
    /\ UNCHANGED <<deckVars, adminVars, roundVars, ghostVars>>

-----------------------------------------------------------------------------
(* Deck changes.                                                           *)

(* The guard of place, replace and remove_place.                           *)
DeckChangesAllowed ==
    LET r == IF inProgress = NoRound THEN currentRound + 1 ELSE inProgress
    IN  Status(r) \in {"Init", "Finalized"}

(* Mutant: the guard asks for the last finished round.                     *)
DeckPowerAllowed_LastRound == Status(currentRound) \in {"Init", "Finalized"}

(* The guard of add_power_to_card for a card locked by Action::Deck.       *)
DeckPowerAllowed ==
    inProgress # NoRound => Status(inProgress) \in {"Init", "Finalized"}

DeckStep ==
    /\ \/ /\ DeckChangesAllowed
          /\ \E p \in Players : PlaceCard(p) \/ ReplaceCard(p) \/ RemoveCard(p)
       \/ /\ DeckPowerAllowed
          /\ \E p \in Players : RecomputeDeck(p)
    /\ UNCHANGED <<moneyVars, adminVars, roundVars, ghostVars>>

(* Admin calls that change what the index reads; nothing stops them during *)
(* a round.                                                                *)
IndexStep ==
    /\ \/ \E i \in 1..Len(legacy) : MigrateDeck(i)
       \/ \E b \in ModeChanges : SetPagesOnly(b)
    /\ undisturbed' = (undisturbed /\ inProgress = NoRound)
    /\ UNCHANGED <<moneyVars, adminVars, roundVars, resets>>

-----------------------------------------------------------------------------
RoundStep(r) ==
    \/ OpenPotStart(r)
    \/ \E limit \in Limits : ProcessTotals(r, limit)
    \/ \E limit \in Limits : ProcessShares(r, limit)
    \/ OpenPotFinalize(r)
    \/ OpenPot(r)
    \/ ForceResetPot(r)

Next ==
    \/ AccumulatePot
    \/ AccumulatePotToken
    \/ RegisterToken
    \/ UnregisterToken
    \/ UpdateDogstarFeePercentage
    \/ SetFeePercentages
    \/ \E r \in Rounds : RoundStep(r)
    \/ \E p \in Players : ClaimHawAiPotShare(p)
    \/ ClaimDogstarFees
    \/ DeckStep
    \/ IndexStep

Spec == Init /\ [][Next]_vars

(* The keeper of the admin, once a round is started, keeps calling the     *)
(* batch functions and then open_pot_finalize.                             *)
Keeper(r) ==
    \/ \E limit \in Limits : ProcessTotals(r, limit)
    \/ \E limit \in Limits : ProcessShares(r, limit)
    \/ OpenPotFinalize(r)

FairSpec == Spec /\ \A r \in Rounds : WF_vars(Keeper(r))

(* The money and the rounds seen from outside: PotLedger.                  *)
Ledger == INSTANCE PotLedger
    WITH open <- inProgress, last <- currentRound,
         accumulated <- pot[Xtar], promised <- totalClaimable[Xtar],
         collected <- fees[Xtar], custody <- balance[Xtar]

LedgerSpec == Ledger!Spec

-----------------------------------------------------------------------------
(* Safety.                                                                 *)

Open(r) == status[r] \in {"Totals", "Shares"}

(* At most one round is being opened, and pot_ip names it: the PotInProgress *)
(* guard of open_pot_start, finalize and force_reset_pot together.         *)
SinglePot ==
    \A r \in Rounds : Open(r) <=> inProgress = r

(* Finalized rounds are not above current_round and an open round is above *)
(* it, so no round is ever opened behind one that was paid.                *)
RoundOrder ==
    \A r \in Rounds : /\ status[r] = "Finalized" => r <= currentRound
                      /\ Open(r) => r > currentRound

(* Rounds follow one another: a round is opened, in however many calls,    *)
(* only when no other one is, and never at or behind one that was paid.    *)
RoundsInOrder == SinglePot /\ RoundOrder

(* Every XTAR the contract holds is accounted for in exactly one place:    *)
(* the pot, the vault's total claimable or the vault's fees.  It survives  *)
(* force_reset_pot and changes of the index in the middle of a round.      *)
XtarBacked == balance[Xtar] = pot[Xtar] + totalClaimable[Xtar] + fees[Xtar]

PromisedTo(a) == SumFunctionOnSet([p \in Players |-> claimable[p][a]], Players)

(* The players' claimable balances are covered by what the vault counts as *)
(* claimable, and for a generic token by what is left of the contract's    *)
(* balance: no claim of undisturbed rounds can fail for lack of funds,     *)
(* however claims interleave with batches, contributions and later rounds. *)
Solvent ==
    undisturbed =>
        /\ \A a \in Core : PromisedTo(a) <= totalClaimable[a]
        /\ \A t \in Generic : pot[t] + fees[t] + PromisedTo(t) <= balance[t]

(* After the totals phase, the snapshot counts each complete deck once,    *)
(* whatever the batch sizes were.                                          *)
CountsDecksOnce(r) ==
    /\ snapshot[r].participants = Cardinality(Participants(DeckSource))
    /\ snapshot[r].power = PowerOf(DeckSource)

TotalsExact ==
    undisturbed => \A r \in Rounds : status[r] = "Shares" => CountsDecksOnce(r)

(* A round that can be finalized has given every complete deck its share   *)
(* of the snapshot's power; the swap-remove index, the cursor and the      *)
(* phase change skipped nobody.  TotalsExact says what that power is.      *)
EveryDeckCredited ==
    undisturbed =>
        \A r \in Rounds :
            status[r] = "Shares" /\ cursor[r] >= totalDecks[r] =>
                \A p \in Participants(DeckSource) :
                    share[r][p] = SharePercentage(effective[p], snapshot[r].power)

(* read_decks_count and read_decks_page disagree: pages that had an entry  *)
(* have none, so the count falls back on the legacy list, but their count  *)
(* key is still there, so the pages are read.                              *)
PagesEmptied == ~pagesOnly /\ hasCount /\ Len(paged) = 0

(* The next batch of an open round reads a deck, and no sum or product of  *)
(* it overflows.                                                           *)
BatchAdvances(r, limit) ==
    LET page == ReadDecksPage(cursor[r], limit)
    IN  /\ Len(page) > 0
        /\ IF status[r] = "Totals" THEN PowerOf(page) \in 0..U32Max
                                   ELSE SharesFit(snapshot[r], page)

(* However deposits and claims interleave with the batches, the keeper's   *)
(* next batch is accepted and moves the cursor until it reaches the count: *)
(* neither the index nor the u32 arithmetic of shares and claimables can   *)
(* leave a round that nobody is able to close.                             *)
KeeperNeverStuck ==
    undisturbed /\ ~PagesEmptied =>
        \A r \in Rounds, limit \in Limits :
            Open(r) /\ cursor[r] < totalDecks[r] => BatchAdvances(r, limit)

(* In a deployment that never held unpaged decks and keeps its mode, the   *)
(* pages hold each non-empty deck once, in either mode.                    *)
IndexExact ==
    /\ NoDuplicates(paged)
    /\ Members(paged) = {p \in Players : cards[p] > 0}

IndexDistinct == NoDuplicates(paged)

-----------------------------------------------------------------------------
(* Action properties.                                                      *)

(* Between the start and the end of a round no deck changes, so both       *)
(* passes read the same powers, also after force_reset_pot.                *)
DecksFrozen == [][inProgress # NoRound => UNCHANGED <<cards, effective>>]_vars

(* The record of a finalized round never changes again.                    *)
HistoryFixed ==
    [][\A r \in Rounds : status[r] = "Finalized" =>
            /\ status'[r] = "Finalized"
            /\ snapshot'[r] = snapshot[r]
            /\ share'[r] = share[r]]_vars

(* p is credited in round r: the first time, and with the part of each     *)
(* amount that the recorded share stands for.                              *)
FirstCredit(r, p) ==
    /\ share[r][p] = 0
    /\ \A a \in Assets :
        claimable'[p][a] = claimable[p][a] + Payout(snapshot'[r].amount[a], share'[r][p])

(* No player is credited twice in a round, and nothing but a credit raises *)
(* a claimable balance: with EveryDeckCredited and HistoryFixed, the batches *)
(* pay just what open_pot would have paid in one call.                     *)
CreditedOnce ==
    [][undisturbed' => \A p \in Players :
        /\ \A r \in Rounds : share'[r][p] # share[r][p] => FirstCredit(r, p)
        /\ (\E a \in Assets : claimable'[p][a] > claimable[p][a])
            => \E r \in Rounds : share'[r][p] # share[r][p]]_vars

-----------------------------------------------------------------------------
(* Liveness.                                                               *)

(* The calls an open round still needs, at most: two passes of one deck    *)
(* each, the change of the phase and the finalize.                         *)
Remaining(r) ==
    CASE status[r] = "Totals" -> 2 * totalDecks[r] + 2 - cursor[r]
      [] status[r] = "Shares" -> totalDecks[r] + 1 - cursor[r]
      [] OTHER -> 0

(* Every call of the keeper brings an undisturbed round nearer to its end, *)
(* and no other call takes it back.  With KeeperNeverStuck this is what    *)
(* RoundCloses needs besides fairness.                                     *)
RoundAdvances ==
    [][\A r \in Rounds : Open(r) /\ undisturbed' /\ ~PagesEmptied =>
        /\ Remaining(r)' <= Remaining(r)
        /\ Keeper(r) => Remaining(r)' < Remaining(r)]_vars

(* A round that was started is finalized, given a keeper that goes on      *)
(* calling.                                                                *)
RoundCloses == \A r \in Rounds : Open(r) ~> status[r] = "Finalized"
=============================================================================
