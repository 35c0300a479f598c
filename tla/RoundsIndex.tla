----------------------------- MODULE RoundsIndex -----------------------------
(***************************************************************************)
(* The rounds that have been finalized, in a legacy list and in pages      *)
(* (contracts/nft/src/pot/management.rs).                                  *)
(*                                                                         *)
(* The pages are the ones of module PagedIndex without positions and       *)
(* without removal, so they are kept here as the sequence they hold.  What *)
(* tells whether a round is in them is not a position but a comparison of  *)
(* the count with the length of the legacy list.                           *)
(***************************************************************************)
EXTENDS Integers, Sequences

CONSTANTS
    LegacyRounds,   \* rounds finalized by a version without pages
    MaxRound        \* bound of the model: the last round finalized

VARIABLES
    legacy,     \* DataKey::AllRounds
    paged,      \* the rounds in the pages, as many as their count
    lastRound,  \* the last round finalized
    pagesOnly   \* the pg_only flag

vars == <<legacy, paged, lastRound, pagesOnly>>

(* get_all_rounds *)
AllRounds == IF pagesOnly THEN paged ELSE legacy

Init ==
    /\ legacy = LegacyRounds
    /\ paged = << >>
    /\ lastRound = Len(LegacyRounds)
    /\ pagesOnly = FALSE

(* add_round, when the round is finalized: outside pages-only mode the     *)
(* page entry depends on the pages being shorter than the legacy list.     *)
AddRound(round) ==
    /\ round > lastRound
    /\ lastRound' = round
    /\ legacy' = IF pagesOnly THEN legacy ELSE Append(legacy, round)
    /\ paged' = IF pagesOnly \/ Len(paged) < Len(legacy')
                THEN Append(paged, round)
                ELSE paged
    /\ UNCHANGED pagesOnly

(* migrate_rounds_to_pages: the count is read once, before the loop, and   *)
(* decides for the whole batch.                                            *)
MigrateRounds(start, limit) ==
    LET total == Len(AllRounds)
        end == IF start + limit < total THEN start + limit ELSE total
    IN  /\ start < total
        /\ Len(paged) < total
        /\ paged' = paged \o SubSeq(AllRounds, start + 1, end)
        /\ UNCHANGED <<legacy, lastRound, pagesOnly>>

SetPagesOnly(b) ==
    /\ b # pagesOnly
    /\ pagesOnly' = b
    /\ UNCHANGED <<legacy, paged, lastRound>>

Next ==
    \/ \E round \in 1..MaxRound : AddRound(round)
    \/ \E start \in 0..(MaxRound - 1), limit \in 1..MaxRound : MigrateRounds(start, limit)
    \/ \E b \in BOOLEAN : SetPagesOnly(b)

Spec == Init /\ [][Next]_vars

-----------------------------------------------------------------------------
(* Migration may be repeated: no round is in the pages twice               *)
(* (tests.rs, migrate_rounds_idempotent, which migrates everything in one  *)
(* batch).                                                                 *)
RoundsListedOnce == \A i, j \in 1..Len(paged) : paged[i] = paged[j] => i = j
=============================================================================
