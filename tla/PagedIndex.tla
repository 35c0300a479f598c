----------------------------- MODULE PagedIndex -----------------------------
(***************************************************************************)
(* The lendings and their two indexes (contracts/nft/src/actions/          *)
(* lending.rs).  Stakes, fights and borrowings are kept by the same code   *)
(* with other names (stake.rs, fight.rs, lending.rs).                      *)
(*                                                                         *)
(* A lending is known by its key, the owner, category and token id; what   *)
(* the record says besides is left out.  The legacy list holds a copy of   *)
(* each record and is written unless the contract is in pages-only mode.   *)
(* The paged index is four kinds of storage entries: pages of at most      *)
(* PageSize keys, one position per key, and a count.                       *)
(***************************************************************************)
EXTENDS Integers, Sequences

CONSTANTS
    Keys,           \* keys of lendings
    PageSize,       \* PAGE_SIZE_LENDINGS, 50 in the code
    LegacyEntries,  \* lendings written by a version without pages
    ModeChanges     \* the values set_pages_only_mode may be given later

(* Helpers on lists.                                                       *)
Members(s) == {s[i] : i \in 1..Len(s)}
NoDuplicates(s) == \A i, j \in 1..Len(s) : s[i] = s[j] => i = j
PositionOf(s, x) == CHOOSE i \in 1..Len(s) : s[i] = x

ASSUME IndexAssumption ==
    /\ PageSize \in Nat \ {0}
    /\ LegacyEntries \in Seq(Keys)
    /\ NoDuplicates(LegacyEntries)
    /\ ModeChanges \subseteq BOOLEAN

VARIABLES
    entries,    \* keys that have a Lending record
    list,       \* DataKey::Lendings: the legacy list
    pages,      \* pages[n]: DataKey::PagedList(Lendings, n), for the stored n
    pos,        \* pos[k]: DataKey::Pos(Lendings, k), for the k that have one
    count,      \* DataKey::PagedCount(Lendings), 0 if absent
    pagesOnly   \* the pg_only flag

indexVars == <<pages, pos, count>>
vars == <<entries, list, pages, pos, count, pagesOnly>>

-----------------------------------------------------------------------------
(* Storage entries: a set, a removed and a read value.                     *)

Store(f, x, v) == [y \in DOMAIN f \cup {x} |-> IF y = x THEN v ELSE f[y]]
Without(f, x) == [y \in DOMAIN f \ {x} |-> f[y]]
Page(n) == IF n \in DOMAIN pages THEN pages[n] ELSE << >>

PageOf(i) == i \div PageSize
OffsetOf(i) == i % PageSize

(* read_lending_key_at(i) finds a key.                                     *)
Stored(i) == OffsetOf(i) < Len(Page(PageOf(i)))

(* The key read_lending_key_at(i) finds.                                   *)
ReadKeyAt(i) == Page(PageOf(i))[OffsetOf(i) + 1]

(* Mutant: the offset within the page is forgotten.                        *)
PutKeyAt_FirstOffset(i, k) ==
    [Page(PageOf(i)) EXCEPT ![1] = k]

(* The page of position i, with key k written over that position.          *)
PutKeyAt(i, k) == [Page(PageOf(i)) EXCEPT ![OffsetOf(i) + 1] = k]

(* read_lendings_count over a legacy list l.                               *)
ReadCount(l) == IF count = 0 /\ ~pagesOnly THEN Len(l) ELSE count

-----------------------------------------------------------------------------
(* add_lending_page_index: the position behind the last one.  An offset    *)
(* beyond the page's end is a panic.                                       *)
AddPageIndex(k) ==
    LET page == PageOf(count)
        offset == OffsetOf(count)
        keys == Page(page)
    IN  /\ offset <= Len(keys)
        /\ pages' = Store(pages, page,
                          IF offset = Len(keys)
                          THEN Append(keys, k)
                          ELSE [keys EXCEPT ![offset + 1] = k])
        /\ pos' = Store(pos, k, count)
        /\ count' = count + 1

(* The last key of the index is written over position at, and its own      *)
(* position follows it.                                                    *)
MovedPages(at, last) ==
    IF at # last /\ Stored(last)
    THEN Store(pages, PageOf(at), PutKeyAt(at, ReadKeyAt(last)))
    ELSE pages

(* Mutant: the position of the moved key is not updated.                   *)
MovedPos_Stale(at, last) == pos

MovedPos(at, last) ==
    IF at # last /\ Stored(last)
    THEN Store(pos, ReadKeyAt(last), at)
    ELSE pos

(* p without its position offset: Vec::remove does nothing beyond the end. *)
Removed(p, offset) ==
    IF offset + 1 > Len(p) THEN p
    ELSE SubSeq(p, 1, offset) \o SubSeq(p, offset + 2, Len(p))

(* The last position disappears, and with the last key the page.           *)
CutPage(f, n, offset) ==
    LET p == IF n \in DOMAIN f THEN f[n] ELSE << >>
    IN  IF Removed(p, offset) = << >>
        THEN Without(f, n)
        ELSE Store(f, n, Removed(p, offset))

(* Mutant: a missing Pos key is read as 0, and the count is not tested.    *)
RemovePageIndex_Unchecked(k, l) ==
    LET at == IF k \in DOMAIN pos THEN pos[k] ELSE 0
        last == ReadCount(l) - 1
    IN  /\ pages' = CutPage(MovedPages(at, last), PageOf(last), OffsetOf(last))
        /\ pos' = Without(MovedPos(at, last), k)
        /\ count' = last

(* remove_lending_page_index, after the legacy list has become l.          *)
RemovePageIndex(k, l) ==
    IF k \notin DOMAIN pos \/ ReadCount(l) = 0
    THEN UNCHANGED indexVars
    ELSE LET at == pos[k]
             last == ReadCount(l) - 1
         IN  /\ at # last /\ Stored(last) => OffsetOf(at) < Len(Page(PageOf(at)))
             /\ pages' = CutPage(MovedPages(at, last), PageOf(last), OffsetOf(last))
             /\ pos' = Without(MovedPos(at, last), k)
             /\ count' = last

-----------------------------------------------------------------------------
Init ==
    /\ entries = Members(LegacyEntries)
    /\ list = LegacyEntries
    /\ pages = << >>
    /\ pos = << >>
    /\ count = 0
    /\ pagesOnly = FALSE

(* Mutant: the paged index is kept only beside the legacy list.            *)
WriteLending_OneIndex(k) ==
    /\ entries' = entries \cup {k}
    /\ list' = IF pagesOnly \/ k \in Members(list) THEN list ELSE Append(list, k)
    /\ IF k \in DOMAIN pos \/ pagesOnly THEN UNCHANGED indexVars ELSE AddPageIndex(k)
    /\ UNCHANGED pagesOnly

(* write_lending, of a new lending or over an old one.                     *)
WriteLending(k) ==
    /\ entries' = entries \cup {k}
    /\ list' = IF pagesOnly \/ k \in Members(list) THEN list ELSE Append(list, k)
    /\ IF k \in DOMAIN pos THEN UNCHANGED indexVars ELSE AddPageIndex(k)
    /\ UNCHANGED pagesOnly

(* Mutant: the legacy list keeps the removed lending.                      *)
RemoveLending_KeepsLegacy(k) ==
    /\ k \in entries
    /\ entries' = entries \ {k}
    /\ UNCHANGED <<list, pagesOnly>>
    /\ RemovePageIndex(k, list)

(* remove_lending: its callers have read the record before.                *)
RemoveLending(k) ==
    /\ k \in entries
    /\ entries' = entries \ {k}
    /\ list' = IF pagesOnly \/ k \notin Members(list) THEN list
               ELSE Removed(list, PositionOf(list, k) - 1)
    /\ RemovePageIndex(k, list')
    /\ UNCHANGED pagesOnly

(* migrate_lendings_to_pages(i - 1, 1); a larger limit is a sequence of    *)
(* such calls.  In pages-only mode the list it reads is the index itself,  *)
(* and nothing changes.                                                    *)
MigrateLending(i) ==
    /\ ~pagesOnly
    /\ i \in 1..Len(list)
    /\ list[i] \notin DOMAIN pos
    /\ AddPageIndex(list[i])
    /\ UNCHANGED <<entries, list, pagesOnly>>

SetPagesOnly(b) ==
    /\ b # pagesOnly
    /\ pagesOnly' = b
    /\ UNCHANGED <<entries, list, pages, pos, count>>

Next ==
    \/ \E k \in Keys : WriteLending(k) \/ RemoveLending(k)
    \/ \E i \in 1..Len(list) : MigrateLending(i)
    \/ \E b \in ModeChanges : SetPagesOnly(b)

Spec == Init /\ [][Next]_vars

-----------------------------------------------------------------------------
(* The storage entries have the types the code reads them at.              *)
TypeOK ==
    /\ entries \subseteq Keys
    /\ list \in Seq(Keys)
    /\ DOMAIN pages \subseteq Nat
    /\ \A n \in DOMAIN pages : pages[n] \in Seq(Keys)
    /\ DOMAIN pos \subseteq Keys
    /\ \A k \in DOMAIN pos : pos[k] \in Nat
    /\ count \in Nat
    /\ pagesOnly \in BOOLEAN

(* The pages are filled without a gap up to the count: every position      *)
(* below it is stored, no page is stored empty, is larger than PageSize or *)
(* holds a position beyond the count.  It is what add_lending_page_index   *)
(* would panic about.                                                      *)
PagesFull ==
    /\ \A i \in 0..(count - 1) : Stored(i)
    /\ \A n \in DOMAIN pages :
          /\ Len(pages[n]) \in 1..PageSize
          /\ n * PageSize + Len(pages[n]) <= count

(* Every Pos key names the position at which its key is found, and every   *)
(* listed key has its Pos key: swap-remove keeps both directions.          *)
PosAgrees ==
    /\ \A k \in DOMAIN pos : pos[k] < count /\ ReadKeyAt(pos[k]) = k
    /\ \A i \in 0..(count - 1) :
          ReadKeyAt(i) \in DOMAIN pos /\ pos[ReadKeyAt(i)] = i

(* Pages, count and positions tell of the same list, after any sequence of *)
(* writes, removals, migrations and changes of the mode.                   *)
PagesSound == PagesFull /\ PosAgrees

(* No lending is lost: each is in the paged index, or in the legacy list   *)
(* from which migration takes it.                                          *)
NothingLost == \A k \in entries : k \in DOMAIN pos \/ k \in Members(list)

(* No lending haunts the index: a listed key has its record.  It holds as  *)
(* long as pages-only mode is not given up again; the legacy list, which   *)
(* that mode does not update, would bring back removed lendings.           *)
NothingHaunts ==
    /\ DOMAIN pos \subseteq entries
    /\ ~pagesOnly => Members(list) \subseteq entries

-----------------------------------------------------------------------------
(* The list the pages, positions and count stand for.                      *)
Listing == [i \in 1..count |-> ReadKeyAt(i - 1)]

L == INSTANCE KeyList WITH keys <- Listing

(* The paged index is the list of module KeyList.                          *)
ListSpec == L!ListSpec
=============================================================================
