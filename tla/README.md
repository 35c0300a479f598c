# Verification of the MyLab contract

TLA+ models of `contracts/nft` (a Soroban contract in Rust), checked with TLC
and partly proved with TLAPS. `PROJECT.json` maps every definition to the lines
it models, and lists the runs, the mutants, the hazards and the theorems.

## 1. The system

The contract is a card game's ledger. Users mint cards with TERRY or XTAR, put
them in decks, stake, fight, lend or borrow their POWER; parts of what they pay
go to a pot ("Haw AI pot"), which the admin opens in rounds for the owners of
complete decks. Every entry point is one atomic transaction: a failed assertion,
an error or an arithmetic overflow (`overflow-checks` is on in the release
profile) undoes the whole call. Nothing runs in parallel; what interleaves is the
*calls* of users, of the admin and of the keepers that process long jobs in
batches. Components share storage entries only, there are no callbacks.

| Component (source) | State | Operations | What is hard | Correct when |
|---|---|---|---|---|
| Pot rounds (`contract.rs`, `pot/management.rs`) | `PotBalance`, `ContractVault`, generic balances and fees per token, `CurrentRound`, `pot_ip`, per round `PotStatus`, `PotCursor`, total, `OpeningSnapshot`, `PlayerShare`; claimable per user | contributions, token registry, fees, `open_pot`, the four `open_pot_*` phases, `force_reset_pot`, claims | a round spans many transactions, anything may happen in between | at most one round open; every complete deck counted and paid once; never more promised than held; finalized rounds fixed; a started round can be finished |
| Deck registry (`actions/deck.rs`) | deck per owner, legacy list, pages, positions, count, global totals | place, replace, remove, recompute, migrate, rebuild totals | two copies of the index written under different conditions, swap-remove under a cursor | the index lists each non-empty deck once; decks frozen while a round is open; totals exact |
| Paged lists (`lending.rs`, `stake.rs`, `fight.rs`, rounds in `management.rs`) | record per key, legacy list, pages, positions, count, pages-only flag | write, remove, migrate, mode switch | page boundaries, order of the writes in swap-remove, migration of stale copies | pages without gaps, positions agree, nothing lost, nothing comes back |
| Lending (`actions/lending.rs`) | pool totals in `State`, `Lending`, `Borrowing`, `BorrowMeta` records, locks, wallets | lend, borrow, repay, withdraw, touch_loans | deficits spread lazily by an index; totals kept incrementally | pool covers lenders; collateral covers loans; haircuts covered by deficits; POWER accounted |
| Cards (`contract.rs`, `nft_info.rs`, `user_info.rs`, `burn.rs`) | card per (owner, token), list of owned tokens, user balances and level | mint, transfer, burn, add_power_to_card | locks are the only link between a card and its position; burn ignores them | a locked card has its position and the reverse |
| Stakes (`actions/stake.rs`), fights (`actions/fight.rs`) | records, their indexes, `total_staked_power` | stake, increase, unstake; open, close, check_liquidation | the lock is the only link to the card, the caller names the category, price and rate move between the calls, every division rounds | lock and record agree; the power cap holds; liquidation takes no more than closing would |
| Configuration, levels, whitelist, metadata (`admin.rs`, `metadata.rs`) | independent fields | setters | - | stated limits kept |
| Storage lifetime, events, errors | - | - | - | - |

## 2. Modules

    PotLedger    <- (refined by) -  PotRound    - EXTENDS ->  DeckRegistry
    DeckRegistry <- (refined by) -  DeckTotals  - EXTENDS ->  CardStore
    CardUse      <- (INSTANCE) ---  DeckTotals
    CardUse      <- (refined by) -  StakesFights, Lending
    KeyList      <- (refined by) -  PagedIndex
    KeyList      <- (INSTANCE) ---  StakesFights - EXTENDS -> CardStore
                                    RoundsIndex

* **DeckRegistry** - decks reduced to a number of cards (`cards`) and an effective
  power; the legacy list; the paged index reduced to the sequence of its keys
  (`paged`) and the existence of the count key. `MigrateDeck` is one entry of
  `migrate_decks_to_pages` (a batch is a run of such steps, nothing else is read in
  between). `ReadDecksCount` and `ReadDecksPage` are the two reads of the pot.
* **PotRound** - one action per entry point of the pot; balances are functions of
  the asset (`Core` assets with fields, `Generic` ones by token). It composes
  with DeckRegistry by EXTENDS: `DeckStep` joins the deck calls with the guards
  that look at the status of the pot, `IndexStep` the admin's migration and mode
  switch, which have no guard.
* **PotLedger** - what the pot promises about XTAR and rounds, in six variables
  and a few moves of money. `LedgerSpec` in PotRound is this specification under
  the mapping `open <- inProgress`, `accumulated <- pot[Xtar]`, and so on.
* **PagedIndex** - the real index, with pages, positions, count and legacy list,
  as the lendings use it; stakes, fights and borrowings are the same code under
  other names. **KeyList** is the list without duplicates that it implements,
  with removal that moves the last key into the gap; this is what licenses the
  sequence in DeckRegistry. One difference: an emptied last page of decks stays as
  an empty vector instead of being removed, which no read can tell apart.
* **RoundsIndex** - the list of finalized rounds, `add_round` and its migration,
  which is a whole batch here because it only compares lengths.
* **Lending** - pool, positions, liquidation index, reserves, and the card and
  wallet calls that meet them. `borrowing[k]` joins the `Borrowing` and the
  `BorrowMeta` of a key (written and removed together); `weight` and
  `reserve_remaining` are one field, as every write gives them the same value.
  A key is an owner, a token and the category *named by the caller*.
* **CardStore** - cards by owner and token, how often the owners' lists name them,
  the users' POWER, and the calls on them. It has no Next: two modules extend it.
* **DeckTotals** - the tokens in each deck, the power and bonus stored with it,
  `Balance.total_deck_power`, the total of effective powers and its rebuild in
  batches, over the cards of CardStore. `RegistrySpec`: seen as numbers of cards with an
  effective power, its decks implement DeckRegistry, the view the pot is built on.
  The calls of stakes, fights and loans (`OtherStep`) are those of CardUse.
* **CardUse** - what the components that share cards may do to the lock and the power of
  one, with the losses (`lost`) by which records outlive their cards. To the decks a
  stake, a fight and a loan are one lock, "Stake". A record is found again only while its
  card has that lock, or once a card was lost with it: `burn` and `move_nft` ask nobody,
  `close_position` and `check_liquidation` ask for the record and not for the lock, and
  `touch_loans` looks at neither. So an old record can free a card from a deck, remove it,
  or cut its power there (`InReach`). StakesFights and Lending refine CardUse (`UseSpec`),
  each with the decks reduced to their lock. It is an agreement between each component and
  the decks: stakes and fights are not composed with loans on the same card.
* **StakesFights** - stakes and leveraged positions over the cards of CardStore, their
  indexes two instances of KeyList, which PagedIndex implements. `increase_stake_power` is
  its guard only: the guard never holds, since a staked card has no power (`LocksBacked`).
* **MC\*** give TLC the values of the constants, **\*Proofs** hold the theorems,
  **SumLemmas** the lemmas about sums that the proofs of the totals cite.

### Abstractions

* An assertion, error or overflow is an action that is not enabled. u32 amounts
  of POWER in the pot overflow at `U32Max` for the assets in `Narrow`; i128
  amounts are unbounded. In Lending the u32 and u64 amounts are unbounded (the
  totals of all cards stay far below 2^32).
* Not in the models, because no modelled decision reads them: TERRY and POWER of
  users in PotRound, the legacy `DogstarBalance`, the informational
  `vault.haw_ai_pot_*` fields, opening counters, timestamps, events, TTL.
* `accumulate_pot` with a negative amount of TERRY (i128, given by the admin, accepted by
  the code) is not modelled; a negative amount of XTAR is refused, as in the code.
* What the admin may set is taken as the code takes it: `feeRate` within the limit of each
  setter, `PowerFees` any number of percent (`stake` refuses a fee above the power,
  `lend`, `borrow` and `withdraw` saturate), `Rates` any integer (0 makes `close_position`
  fail), `InitialPower` on either side of `MaxPower`. Assumed and not enforced:
  `initialize` stores any configuration, the models start from a pot fee within 50%, and
  from `ProfitShare` and `BurnReceive` within 100%, which is what `set_fee_percentages` keeps.
  `Horizons` below 1, leverages of 1 to 100 and staked powers above 0 stand for assertions
  of `borrow` and `open_position`.
* Lending: time, and with it `calculate_apy` and `calculate_interest`, is
  reduced to a choice from `Interests` (0 when the principal or the borrowed total is
  0, as in the code) and from `Horizons`, the factor APY * T_max of a reserve. This
  allows more combinations than time does.
* Lending: the locks of stakes and fights are absent; such a card takes no part in
  lending until it is released. Decks are a lock that a card enters and leaves, here and
  in StakesFights.
* `withdraw` gives principal and interest back without the cap of `max_power` that the
  other calls keep, so the power of a card has no bound in Lending, DeckTotals and CardUse.
* CardStore, DeckTotals, StakesFights: prices, TERRY and the level it gives are left out;
  every user may mint. Which share of fees and profits goes to the pot or to
  `Balance.haw_ai_power` is PotRound's `Accumulate` or not modelled.
* DeckTotals: the order of the tokens in a deck is left out, and so are the guard on the
  status of the pot and the mode switch, which PotRound has. `rebuild_deck_effective` takes
  any start up to the number of decks; repetitions of a batch stop at `MaxTotal`.
* StakesFights: the oracle reports any price of `Prices` at any call; fee, interest and
  rate are the admin's to change at any time, so each call takes any of them. The end of a
  staking period may come at any time. The amounts are unbounded integers.
* Ghost variables: `undisturbed` (no forced reset, and no migration or mode
  switch while a round was open), `resets`; `outside`, `deficits`, `haircuts`,
  `cuts`, `cardCalls` in Lending; `lost` (cards burnt or overwritten while
  locked, or freed from a deck by an old record, with the lock) in Lending, CardUse and
  CardStore; `doubled` (cards transferred to an owner who had the token listed) in CardStore; `sweep` (how far an undisturbed rebuild has come) in DeckTotals.
  None is read by a guard but the counters that bound the model and, beside `MaxTotal`,
  `sweep`.

## 3. Runs

| Run | Instance | Shows |
|---|---|---|
| `PotPages` | 2 players, decks of 0..2 cards of effective power 1 or 2, 2 rounds of XTAR and POWER, batches of 1 or 2 and `open_pot`, both modes, no fee | `RoundsInOrder`, `Solvent`, `TotalsExact`, `KeeperNeverStuck`, `IndexExact`, `DecksFrozen`, `CreditedOnce` |
| `PotTokens` | 1 player, XTAR and a generic token, fees of 0, 50 and 100% and one of 150% that both setters refuse, a negative contribution that is refused, registry changes at any time, a forced reset | `TypeOK`, `XtarBacked`, refinement of PotLedger |
| `PotUpgrade` | 2 players with decks from the unpaged version, migration and mode switch at any time, a forced reset | `EveryDeckCredited`, `IndexDistinct`, `HistoryFixed` |
| `PotLive` | 2 players, pages-only, a keeper with weak fairness | `RoundCloses` |
| `PagedIndex` | 5 keys, pages of 2, 2 legacy entries, mode switched on at any time | `TypeOK`, `PagesSound`, `NothingLost`, `NothingHaunts`, refinement of KeyList |
| `Loans` | 4 owners with a card each (3 at the start), two amounts, fee 50%, interest 2 (0 where the code says so), deficits up to 4, one mint, transfer or burn, decks | `TypeOK`, `PoolCovers`, `LoansCounted`, `LocksMatch`, `CollateralCovers`, `HaircutsCovered`, `PowerAccounted`, refinement of CardUse |
| `Decks` | 2 owners, 3 tokens of 2 categories, decks of 2, one of them unpaged at the start, batches of 1, two card calls, cards given back with power 0 or 20, both modes | `TypeOK`, `TotalsSummed`, `DeckLocks`, `DeckPowerFresh`, `BrokenDeckStays`, refinement of DeckRegistry |
| `Positions` | 2 owners of one token, 2 categories, 3 openings, two card calls, fees of 10 and 110%, leverage 1 and 3, prices 60 and 160, rates 0, -0.25 and 1 USDC, decks | `TypeOK`, `CardsListed`, `LocksBacked`, `PositionsListed`, `PowerCapped`, `LiquidationFair`, refinement of CardUse |
| `PotStuck`, `RoundsTwice`, `LoanBurnt`, `CardOverwritten` | the smallest instances | findings, section 6 |

Every property of a passing run is violated by a mutant of the model (a named
variant `Operator_Mutation` beside the operator it replaces).

**Bounds and why they are enough.** `MaxRound`, `MaxHeld`, `MaxResets`, `MaxDeficits`,
`MaxCardCalls`, `MaxOpenings` and `MaxTotal` bound the model, not the code. Two rounds are needed for a start
behind a finalized round, two decks for a batch that stops in the middle and
for the swap of the index. `DeckSize` 4 becomes 1 or 2: only "complete", "empty"
and "in between" matter. `BasisPoints` 10000 becomes 10, so that rounding down
really loses something with small amounts. `U32Max` is 20 in `PotPages` and
`PotLive`: 2 basis points' worth of deck power and of POWER in one contribution just
fit the u32 products of a batch (429,496 in the code), and both runs fail with 19.
`PageSize` 50 becomes 2 with 5 keys: three
pages, a page that fills, one that empties, swaps within and between pages. In
`Loans` two lenders and two borrowers are the least that let the index rise by
a withdrawal while two loans are open; two deficits of 2 let it rise again
after one of them was touched. `Horizons` is 1/2 with `Scale` 4, where the code's
largest factor is 15%: reserves of 1 or 2 units would otherwise need amounts of 12 and
more. In `Decks` the two card calls (to be taken by another component counts as one) are
what it takes to burn a card in a deck and mint it again, to overwrite one, or to lose one
under a record; in `Positions` two calls burn a card under a position
and mint the token again, and three openings then give it a second and a third record,
under either category. The negative rate turns the size of a position and
the profit back, so closing at it is closing at its absolute value. Price 60 is below the liquidation price of a threefold
long at 160 and 160 above that of a threefold short at 60. The proofs do not depend on any of these.

Two things the bounds leave out, and only theorems cover. `PotPages` has no generic token
(with one it passes ten million states, out of reach together with two rounds and two
players), so `Solvent` for generic tokens rests on `VaultIsSolvent`; `PotTokens` has
one, without a second player to share with. `Loans` has one category (a second one takes the
run to several minutes), so that two categories never make two records of one card rests
on `LocksAgree`.

`CHECK_DEADLOCK FALSE` is set where the bounded model may stop: a user need not act,
and the bounds end every behaviour.

**Fairness.** Only `PotLive` and `PotStuck` assume any: weak fairness of
`Keeper(r)`, one of the batch calls or the finalize of an open round. Nobody else
is fair. The code does not schedule the keeper; it is the operational assumption
under which batches exist at all: the admin's script keeps calling until the round is
finalized. Since the deck calls are blocked and the other calls do not disable it,
weak fairness is enough.

## 4. What is proved

tlapm proves, for all values of the constants that satisfy the named assumptions
(`DeckAssumption`, `PotAssumption`, `IndexAssumption`, `LendingAssumption`,
`CardAssumption`, `PositionAssumption`: types, finiteness, denominators that are not 0, shares
of a profit or a burn within 100%, legacy lists that name nobody twice, as `write_deck` and
`write_lending` keep them):

* **PotRoundProofs** (it begins with the lemmas on the deck index): `TypeOK` is inductive
  once fees are shown to be at most the amount they are taken from, which the guards of both
  setters and of `accumulate_pot` give. The parts `SinglePot`
  and `RoundOrder` of `RoundsInOrder` are inductive only together (`RoundsAscend`): a start
  is refused because the round in progress is not finalized, which needs `SinglePot`; that
  the finished round may become `current_round` needs `RoundOrder`. With both, every step is a step of
  PotLedger or a stutter (`ImplementsLedger`), and `XtarAccounted` is an invariant.
  `DecksStayFrozen` follows from `SinglePot` and the two guards of `DeckStep`;
  `HistoryStaysFixed` from `RoundOrder` and the guards of start and reset;
  `IndexStaysDistinct` from the deck lemmas about append and swap-remove. Its second half
  follows the cursor of a round, with invariants that build on one another:
  1. `IndexInv`: neither index names an owner twice, and pages with an entry have a count,
     so the source a pass reads is a list of distinct owners no longer than the count.
     `PagesAreExact` adds that the legacy copies are current while they are written.
  2. `PassInv`: in an undisturbed round the cursor cuts that list in two, and every owner
     on the passed side has its share. A batch moves an interval from one side to the
     other (`Splits`); at the end nobody is ahead (`EveryoneIsCredited`).
  3. `FreshInv`: whoever the shares pass has not reached has no share of the round. So a
     batch credits only players it finds without a share (`CreditsComeOnce`).
  4. `CountsAll`: the count a round started with is the number of entries its passes read,
     unless the pages are the emptied ones of `PotStuck`. So a batch before the end reads a
     deck, and each call of the keeper lowers `Remaining`, which no other call raises
     (`EveryCallAdvances`).
* **PotTotalsProofs**, the sums of a round:
  1. `CountInv`: the snapshot counts the passed side. The u32 sums saturate, so
     `TotalsAreExact` assumes `TotalsFit`: all decks at the largest effective power stay
     below 2^32.
  2. `SolventInv`: what the pot has beside its promises (`Spares`) covers what the pass has
     still to credit (`Needed`): all of the snapshot during the first pass, the parts
     of the decks ahead during the second. Each part is rounded down twice, to basis points
     and to units, and the parts of all decks together still fit the amount because
     the powers they are shares of sum up to the total (`PartsFit`, from `PartsAtMost`).
     With no round open this is `VaultIsSolvent`.
  3. `NarrowInv`: pot, snapshots and the vault's total keep their u32 bounds. What a player
     has and is about to get is covered by the vault's total (`AheadIsCovered`, from
     `SolventInv`), so it is a u32 too; that the two products of a batch are is
     `ProductsFit`. `KeeperCanGoOn` puts all of this together: the next batch is accepted.
* **PagedIndexProofs**: `PagesFull` and `PosAgrees`, the parts of `PagesSound`, are
  inductive together with `TypeOK` (`PagesStaySound`; a removal reads the position of the
  key and the last key, so each needs the other). Lemmas on `\div` and `%` turn positions into pages and offsets, "shape"
  lemmas describe the list after each operation. From these: `ImplementsList`,
  `LosesNothing`, and `HauntsNothing` under `ModeChanges \subseteq {TRUE}`.
* **LendingProofs**: `LendingTypes`; `LocksAgree` and `CollateralHolds`, by an
  invariant per card (`CardSafe`): a step touches one card, or two for a transfer, and a
  card without a position has no record to disturb. The strengthening is that the
  records of a card are at most one, without which a repayment from the collateral
  could undercut a second loan. A consequence: without lost cards a touch never takes
  the whole power of a card, so `emit_loan_liquidated` is never reached.
* **SumLemmas** - what `SumFunctionOnSet` does when a term, or the set, changes. The
  fold is an unspecified choice of a function on all subsets; that there is one and only
  one, and each lemma, is proved for the smallest subset that could break it (the
  subsets of a finite set are well-founded, which the library states without an operator
  parameter).
* **LendingTotalsProofs**: `PoolHolds`, `LoansAreCounted`, `HaircutsAreCovered` and
  `PowerIsAccounted` over these sums. They need three more facts: no loan is ahead of
  the index (else a touch could hand power back); `wTotal` is at least the sum of the
  reserves even after cards were lost (else the index could rise by more than the loans
  bear); a card not in storage has no power. With these, `LoansUseCards`: every step is one
  of CardUse. That a record is within reach of `Touch` is `LocksMatch` (the card is locked,
  or was lost with the lock), a cut is the minimum of the haircut and what the card has, and a
  touch of a card that has gone changes nothing because it has no power.
* **StakesFightsProofs**: `PositionTypes` and `IndexesExact` (distinct keys survive append
  and swap-remove); `ListsComplete`; `PositionInvariant`, per card (`CardSafe`): which
  records a lock allows, how many, and that card and record together keep the cap, from
  which `PositionsBacked`, `CapHolds` and `IncreaseRefused` follow. `LiquidationIsFair` is
  arithmetic (`LossBound`): at a price that allows liquidation the loss in USDC is at least
  the margin less one division's rounding, so what is left of the stake is bounded by the
  sum of the roundings, for every leverage, rate, price and size; a negative rate gives what
  its absolute value gives (`PnlPowerEven`). `PositionsUseCards`:
  every step is one of CardUse; `LocksBacked` puts each fight in reach of its record, and
  the cap makes the power a card comes back with one that CardUse allows.
* **DeckTotalsProofs**: `DeckLocks` is inductive together with `LossStays`, that a card lost
  from a deck is still among its tokens and not locked by it. Every deck call reads
  all cards of the old deck, so it is refused from then on: `BrokenForever`. The same fact
  makes the stored powers fresh (`PowersStayFresh`): a card in an undisputed deck carries
  the lock "Deck" and is out of reach of every record, and the one call that changes the
  power of such a card stores the deck again. Both rest on the calls of the others as
  CardUse has them, which `PositionsUseCards` and `LoansUseCards` show to be those they
  make. `TotalsAreSums` rests on three more facts. A deck that is not complete
  has power and bonus 0 (`PartialEmpty`), else the new amount would be added without the old
  one being taken out. The pages name no deck twice and a batch ends within them, so
  the sum over the positions of a finished rebuild is that over the owners (`SumRename`,
  `SumSplit`). And no call that writes a deck leaves a rebuild under way. With
  `EffectivePowers` all of Nat (a bound of DeckRegistry's choices, for TLC),
  every step is one of DeckRegistry or a stutter (`ImplementsRegistry`).
  `DeckTypes` adds the bounds: a deck has at most `DeckSize` cards and no amount is negative.

Every safety property of the passing runs is proved, but for the limits the theorems
name. Only model-checked: `RoundCloses`, since liveness under fairness is out of the
provers' reach. What it rests on besides fairness is proved: the keeper's next batch is
accepted (`KeeperCanGoOn`), it lowers a natural number, and nobody raises it again
(`EveryCallAdvances`).

## 5. What the properties assume

`Solvent`, `TotalsExact` and `EveryDeckCredited` speak only of `undisturbed` histories:
with a forced reset, or a migration or mode switch during a round, the code does not
keep them, and says nothing about it. `XtarBacked`, `RoundsInOrder`, `HistoryFixed` and the
refinement hold also then. `CreditedOnce`, `KeeperNeverStuck` and `RoundAdvances` speak of
them too, the last two also of an index that is not in the state of `PotStuck`
(`PagesEmptied`). The theorems on `Solvent`, `TotalsExact` and `KeeperNeverStuck`
assume `TotalsFit` besides; the run's two decks satisfy it. That on `KeeperNeverStuck` assumes
`ProductsFit`: no effective power and no pot of POWER above 429,496. The code does not enforce
it: beyond it `process_shares` reverts on a deck's product, or on the product of the pot with
a large share, and the round stays open until the admin changes the code. `IndexExact` speaks of
deployments without decks from before the pages and without a change of mode. `NothingHaunts` assumes that
pages-only mode is not switched off again: afterwards the legacy list still holds
records that were removed in between, and a migration would list them. `LoansCounted`
and the equality in `PoolCovers` assume that no card was burnt or overwritten under a loan
(`~orphaned`), the one-to-one part of `LocksMatch` and `CollateralCovers` only that this one
was not (`~Orphaned(c)`);
`HaircutsCovered`, `PowerAccounted` and "a locked card has its record" do not. `PowerIsAccounted` assumes a `power_action_fee`
of at most 100% (`FeesWithinWhole`): above it the fee exceeds what was taken, and the call
credits POWER that came from nowhere. The one
record of `LocksBacked` and the sums in `PowerCapped` speak of cards that were never lost
under an action, `DeckPowerFresh` of decks without a lost card and without one whose
predecessor was lost (`Undisputed`). The most a card may have is `max_power`, or `initial_power`
where the metadata puts that higher (`TopPower`). `PowerCapped` is what stakes, fights and top-ups keep:
`withdraw`, which StakesFights does not have, may leave a card above the cap. The second half of
`CardsListed` leaves out the cards in `doubled`. `TotalsSummed` leaves out the total of effective
powers from the moment a rebuild is disturbed to the next one that is not.

## 6. Disagreements found

* `PotStuck`: in default mode a round can start that no keeper can finish. The count
  falls back on the legacy list, which keeps emptied decks, while the pages are empty.
* `RoundsTwice`: migrating the rounds after a new one was added, or in batches, lists a
  round twice, for every reader of the list. (`get_pending_rewards` would repeat a reward only
  where an older version left a `PendingReward`: no reachable code writes one any more.)
* `LoanBurnt`: `burn` ignores locks. After burn, mint and borrow of the same token
  `w_total` counts the reserve of a loan that no longer exists.
* `CardOverwritten`: `move_nft` overwrites a card of the same token that the recipient
  already has, and lists the token twice, against its own comment.

Seen while modelling, where no text says what should be, or without a run of their own:
a `power_action_fee` above 100% makes `lend` and `withdraw` pay the pot more than
they take; `force_reset_pot` keeps the totals of the earlier pass, to which the next one adds, so a
deck is counted twice and its share halved; `set_fee_percentages` accepts a fee of 100%,
beyond the 50% that `update_dogstar_fee_percentage` enforces; the branch of the rebuild for
decks that are not in the pages is never taken; a deck one card of which was burnt can
never be changed again and goes on counting in the pot; the record of a burnt fighting card
closes on any later card of the token, even one in a deck, which it then frees or removes,
and the loan of a burnt collateral cuts such a card; `withdraw` may leave a card above
`max_power`; `increase_stake_power` can never
succeed; `total_staked_power` never falls; `create_user` resets an existing user.

## 7. Not modelled

Prices, TERRY and the level computed from it, the whitelist, the table of metadata, the
configuration beyond what the modelled calls read, the reading of pages by views, TTL and
events. The pages and the legacy lists of stakes and fights are those of PagedIndex.
`release_dogstar_fees` is a no-op.
`pot/reward.rs`, `calculate_and_store_claimable_shares`, `check_liquidations` and
`liquidate` are not reached from any entry point, and `update_deck` is not exposed.

## 8. What could follow

1. Stakes, fights and loans over one store of cards, where the record of one may meet the
   lock of another. CardUse has the decks' view of it; the records' own view (`LocksBacked`
   and `LocksMatch` together) is checked for each component alone.
2. An abstract pool that Lending implements, per position.
3. Levels: TERRY, prices and the guard of `mint`.
