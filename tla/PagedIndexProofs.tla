-------------------------- MODULE PagedIndexProofs --------------------------
(***************************************************************************)
(* Proofs about PagedIndex: the pages stay without a gap, the positions    *)
(* agree with them, and together they are the list of module KeyList, for  *)
(* every page size, every set of keys and every change of mode.            *)
(***************************************************************************)
EXTENDS PagedIndex, TLAPS

-----------------------------------------------------------------------------
(* Positions, pages and offsets.                                           *)

(* A position is its page and its offset.                                  *)
LEMMA PositionParts ==
    ASSUME NEW i \in Nat
    PROVE  /\ PageOf(i) \in Nat
           /\ OffsetOf(i) \in 0..(PageSize - 1)
           /\ i = PageOf(i) * PageSize + OffsetOf(i)
  BY IndexAssumption, Z3 DEF IndexAssumption, PageOf, OffsetOf

(* An earlier page ends before a later one starts.                         *)
LEMMA PagesApart ==
    ASSUME NEW m \in Nat, NEW n \in Nat, m < n
    PROVE  m * PageSize + PageSize <= n * PageSize
  BY IndexAssumption, Z3 DEF IndexAssumption

(* Page and offset determine the position.                                 *)
LEMMA PartsDetermine ==
    ASSUME NEW i \in Nat, NEW n \in Nat, NEW o \in 0..(PageSize - 1),
           i = n * PageSize + o
    PROVE  PageOf(i) = n /\ OffsetOf(i) = o
<1>1. /\ PageOf(i) \in Nat
      /\ OffsetOf(i) \in 0..(PageSize - 1)
      /\ i = PageOf(i) * PageSize + OffsetOf(i)
  BY PositionParts
<1> DEFINE a == PageOf(i)
           b == OffsetOf(i)
<1> HIDE DEF a, b
<1>2. /\ a \in Nat /\ b \in 0..(PageSize - 1)
      /\ i = a * PageSize + b
  BY <1>1 DEF a, b
<1>3. ~(a < n)
  BY <1>2, PagesApart, IndexAssumption, Z3 DEF IndexAssumption
<1>4. ~(n < a)
  BY <1>2, PagesApart, IndexAssumption, Z3 DEF IndexAssumption
<1>5. a = n
  BY <1>2, <1>3, <1>4
<1>6. b = o
  BY <1>2, <1>5, IndexAssumption, Z3 DEF IndexAssumption
<1> QED BY <1>5, <1>6 DEF a, b

-----------------------------------------------------------------------------
(* What a state of full pages says of its positions.                       *)

(* The read of a position below the count succeeds.                        *)
LEMMA BelowCount ==
    ASSUME TypeOK, PagesFull, NEW i \in Nat, i < count
    PROVE  /\ PageOf(i) \in DOMAIN pages
           /\ OffsetOf(i) + 1 \in 1..Len(pages[PageOf(i)])
           /\ ReadKeyAt(i) = pages[PageOf(i)][OffsetOf(i) + 1]
           /\ ReadKeyAt(i) \in Keys
<1>1. Stored(i)
  BY DEF TypeOK, PagesFull
<1>2. PageOf(i) \in Nat /\ OffsetOf(i) \in Nat
  BY PositionParts, IndexAssumption DEF IndexAssumption
<1>3. PageOf(i) \in DOMAIN pages
  BY <1>1, <1>2 DEF Stored, Page
<1>4. pages[PageOf(i)] \in Seq(Keys)
  BY <1>3 DEF TypeOK
<1>5. OffsetOf(i) + 1 \in 1..Len(pages[PageOf(i)])
  BY <1>1, <1>2, <1>3, <1>4 DEF Stored, Page
<1>6. ReadKeyAt(i) = pages[PageOf(i)][OffsetOf(i) + 1]
  BY <1>3 DEF ReadKeyAt, Page
<1> QED BY <1>3, <1>4, <1>5, <1>6

(* The page behind the last key ends where the next key belongs: the       *)
(* offset add_lending_page_index computes is the page's length.            *)
LEMMA EndOfPages ==
    ASSUME TypeOK, PagesFull
    PROVE  /\ PageOf(count) \in Nat
           /\ Page(PageOf(count)) \in Seq(Keys)
           /\ Len(Page(PageOf(count))) = OffsetOf(count)
           /\ OffsetOf(count) \in 0..(PageSize - 1)
<1> DEFINE n == PageOf(count)
           o == OffsetOf(count)
<1>1. /\ n \in Nat /\ o \in 0..(PageSize - 1) /\ count \in Nat
      /\ count = n * PageSize + o
  BY PositionParts DEF TypeOK
<1> HIDE DEF n, o
<1>2. Page(n) \in Seq(Keys)
  BY DEF Page, TypeOK
<1>3. Len(Page(n)) <= o
  <2>1. CASE n \in DOMAIN pages
    <3>1. n * PageSize + Len(pages[n]) <= count
      BY <2>1 DEF PagesFull
    <3>2. n * PageSize \in Nat /\ o \in Nat /\ Len(pages[n]) \in Nat
      BY <1>1, <2>1, IndexAssumption DEF IndexAssumption, TypeOK
    <3> QED BY <1>1, <2>1, <3>1, <3>2 DEF Page
  <2>2. CASE n \notin DOMAIN pages
    BY <1>1, <2>2, IndexAssumption DEF Page, IndexAssumption
  <2> QED BY <2>1, <2>2
<1>4. o <= Len(Page(n))
  <2>1. CASE o = 0
    BY <1>2, <2>1
  <2>2. CASE o > 0
    <3>1. o - 1 \in 0..(PageSize - 1) /\ count - 1 \in Nat
      BY <1>1, <2>2, IndexAssumption, Z3 DEF IndexAssumption
    <3>2. count - 1 = n * PageSize + (o - 1)
      BY <1>1, <2>2, IndexAssumption, Z3 DEF IndexAssumption
    <3>3. PageOf(count - 1) = n /\ OffsetOf(count - 1) = o - 1
      BY <1>1, <3>1, <3>2, PartsDetermine
    <3>4. Stored(count - 1)
      BY <1>1, <3>1 DEF PagesFull
    <3> QED BY <1>1, <1>2, <3>3, <3>4, IndexAssumption DEF Stored, IndexAssumption
  <2> QED BY <1>1, <2>1, <2>2, IndexAssumption DEF IndexAssumption
<1> QED
  <2>1. Len(Page(n)) \in Nat /\ o \in Nat
    BY <1>1, <1>2, IndexAssumption DEF IndexAssumption
  <2> QED BY <1>1, <1>2, <1>3, <1>4, <2>1 DEF n, o

(* The last key is the last of its page.                                   *)
LEMMA LastOfPages ==
    ASSUME TypeOK, PagesFull, count > 0
    PROVE  /\ count - 1 \in Nat
           /\ PageOf(count - 1) \in DOMAIN pages
           /\ pages[PageOf(count - 1)] \in Seq(Keys)
           /\ Len(pages[PageOf(count - 1)]) = OffsetOf(count - 1) + 1
           /\ OffsetOf(count - 1) \in 0..(PageSize - 1)
<1> DEFINE n == PageOf(count - 1)
           o == OffsetOf(count - 1)
<1>1. count \in Nat /\ count - 1 \in Nat /\ count - 1 < count
  BY DEF TypeOK
<1>2. /\ n \in DOMAIN pages
      /\ o + 1 \in 1..Len(pages[n])
  BY <1>1, BelowCount
<1>3. /\ n \in Nat /\ o \in 0..(PageSize - 1)
      /\ count - 1 = n * PageSize + o
  BY <1>1, PositionParts
<1> HIDE DEF n, o
<1>4. pages[n] \in Seq(Keys) /\ n * PageSize + Len(pages[n]) <= count
  BY <1>2 DEF TypeOK, PagesFull
<1>5. /\ n * PageSize \in Nat /\ o \in Nat /\ Len(pages[n]) \in Nat
  BY <1>3, <1>4, IndexAssumption DEF IndexAssumption
<1>6. Len(pages[n]) = o + 1
  BY <1>1, <1>2, <1>3, <1>4, <1>5
<1> QED BY <1>1, <1>2, <1>3, <1>4, <1>6 DEF n, o

-----------------------------------------------------------------------------
(* Insertion.                                                              *)

(* The new key is pushed on the page of the count; no other page changes.  *)
LEMMA AddChanges ==
    ASSUME TypeOK, PagesFull, NEW k \in Keys, AddPageIndex(k)
    PROVE  LET n == PageOf(count)
           IN  /\ n \in Nat
               /\ DOMAIN pages' = DOMAIN pages \cup {n}
               /\ pages'[n] = Append(Page(n), k)
               /\ \A m \in DOMAIN pages : m # n => pages'[m] = pages[m]
               /\ Page(n) \in Seq(Keys)
               /\ Len(Page(n)) = OffsetOf(count)
               /\ count' = count + 1
               /\ pos' = Store(pos, k, count)
<1>1. /\ PageOf(count) \in Nat
      /\ Page(PageOf(count)) \in Seq(Keys)
      /\ Len(Page(PageOf(count))) = OffsetOf(count)
  BY EndOfPages
<1>2. pages' = Store(pages, PageOf(count), Append(Page(PageOf(count)), k))
  BY <1>1 DEF AddPageIndex
<1>3. count' = count + 1 /\ pos' = Store(pos, k, count)
  BY DEF AddPageIndex
<1> QED BY <1>1, <1>2, <1>3 DEF Store

(* Insertion keeps every earlier key at its position and puts the new one  *)
(* behind them.                                                            *)
LEMMA AddShape ==
    ASSUME TypeOK, PagesFull, NEW k \in Keys, AddPageIndex(k)
    PROVE  \A i \in 0..count :
               Stored(i)' /\ ReadKeyAt(i)' = IF i = count THEN k ELSE ReadKeyAt(i)
<1> DEFINE n == PageOf(count)
<1>1. /\ n \in Nat
      /\ DOMAIN pages' = DOMAIN pages \cup {n}
      /\ pages'[n] = Append(Page(n), k)
      /\ \A m \in DOMAIN pages : m # n => pages'[m] = pages[m]
      /\ Page(n) \in Seq(Keys)
      /\ Len(Page(n)) = OffsetOf(count)
      /\ count \in Nat
  BY AddChanges DEF TypeOK
<1>2. ASSUME NEW i \in 0..(count - 1)
      PROVE  Stored(i)' /\ ReadKeyAt(i)' = ReadKeyAt(i)
  <2>1. i \in Nat /\ i < count
    BY <1>1
  <2>2. /\ PageOf(i) \in DOMAIN pages
        /\ OffsetOf(i) + 1 \in 1..Len(pages[PageOf(i)])
        /\ ReadKeyAt(i) = pages[PageOf(i)][OffsetOf(i) + 1]
        /\ pages[PageOf(i)] \in Seq(Keys)
        /\ OffsetOf(i) \in Nat
    <3>1. OffsetOf(i) \in Nat
      BY <2>1, PositionParts, IndexAssumption DEF IndexAssumption
    <3> QED BY <2>1, <3>1, BelowCount DEF TypeOK
  <2>3. PageOf(i) \in DOMAIN pages'
    BY <1>1, <2>2
  <2>4. CASE PageOf(i) # n
    <3>1. pages'[PageOf(i)] = pages[PageOf(i)]
      BY <1>1, <2>2, <2>4
    <3> QED BY <2>2, <2>3, <3>1 DEF Stored, ReadKeyAt, Page
  <2>5. CASE PageOf(i) = n
    <3>1. Page(n) = pages[PageOf(i)]
      BY <2>2, <2>5 DEF Page
    <3>2. /\ OffsetOf(i) < Len(pages'[PageOf(i)])
          /\ pages'[PageOf(i)][OffsetOf(i) + 1] = pages[PageOf(i)][OffsetOf(i) + 1]
      BY <1>1, <2>2, <2>5, <3>1
    <3> QED BY <2>2, <2>3, <3>2 DEF Stored, ReadKeyAt, Page
  <2> QED BY <2>4, <2>5
<1>3. ASSUME NEW i \in 0..count, i = count
      PROVE  Stored(i)' /\ ReadKeyAt(i)' = k
  <2>1. PageOf(i) \in DOMAIN pages'
    BY <1>1, <1>3
  <2>2. /\ OffsetOf(i) < Len(pages'[PageOf(i)])
        /\ pages'[PageOf(i)][OffsetOf(i) + 1] = k
    BY <1>1, <1>3
  <2> QED BY <2>1, <2>2 DEF Stored, ReadKeyAt, Page
<1>4. ASSUME NEW i \in 0..count
      PROVE  i = count \/ i \in 0..(count - 1)
  BY <1>1
<1>5. ASSUME NEW i \in 0..count
      PROVE  Stored(i)' /\ ReadKeyAt(i)' = IF i = count THEN k ELSE ReadKeyAt(i)
  <2>1. CASE i = count
    BY <1>3, <2>1
  <2>2. CASE i # count
    BY <1>2, <1>4, <2>2
  <2> QED BY <2>1, <2>2
<1> QED BY <1>5

(* Insertion keeps the types of the index.                                 *)
LEMMA AddKeepsTypes ==
    ASSUME TypeOK, PagesFull, NEW k \in Keys, AddPageIndex(k)
    PROVE  /\ DOMAIN pages' \subseteq Nat
           /\ \A m \in DOMAIN pages' : pages'[m] \in Seq(Keys)
           /\ DOMAIN pos' \subseteq Keys
           /\ \A x \in DOMAIN pos' : pos'[x] \in Nat
           /\ count' \in Nat
<1> DEFINE n == PageOf(count)
<1>1. /\ n \in Nat
      /\ DOMAIN pages' = DOMAIN pages \cup {n}
      /\ pages'[n] = Append(Page(n), k)
      /\ \A m \in DOMAIN pages : m # n => pages'[m] = pages[m]
      /\ Page(n) \in Seq(Keys)
      /\ count' = count + 1
      /\ pos' = Store(pos, k, count)
  BY AddChanges
<1> HIDE DEF n
<1>2. ASSUME NEW m \in DOMAIN pages'
      PROVE  pages'[m] \in Seq(Keys)
  <2>1. CASE m = n
    <3>1. Append(Page(n), k) \in Seq(Keys)
      BY <1>1
    <3> QED BY <1>1, <2>1, <3>1
  <2>2. CASE m # n
    BY <1>1, <2>2 DEF TypeOK
  <2> QED BY <2>1, <2>2
<1>3. /\ DOMAIN pos' \subseteq Keys
      /\ \A x \in DOMAIN pos' : pos'[x] \in Nat
  BY <1>1 DEF TypeOK, Store
<1> QED BY <1>1, <1>2, <1>3 DEF TypeOK

(* Insertion keeps the pages full.                                         *)
LEMMA AddKeepsPages ==
    ASSUME TypeOK, PagesFull, NEW k \in Keys, AddPageIndex(k)
    PROVE  PagesFull'
<1> DEFINE n == PageOf(count)
<1>1. /\ n \in Nat
      /\ DOMAIN pages' = DOMAIN pages \cup {n}
      /\ pages'[n] = Append(Page(n), k)
      /\ \A m \in DOMAIN pages : m # n => pages'[m] = pages[m]
      /\ Page(n) \in Seq(Keys)
      /\ Len(Page(n)) = OffsetOf(count)
      /\ count \in Nat /\ count' = count + 1
  BY AddChanges DEF TypeOK
<1>2. ASSUME NEW i \in 0..(count' - 1)
      PROVE  Stored(i)'
  <2>1. i \in 0..count
    BY <1>1
  <2> QED BY <2>1, AddShape
<1>3. ASSUME NEW m \in DOMAIN pages'
      PROVE  /\ Len(pages'[m]) \in 1..PageSize
             /\ m * PageSize + Len(pages'[m]) <= count'
  <2>1. CASE m = n
    <3>1. /\ OffsetOf(count) \in 0..(PageSize - 1)
          /\ count = n * PageSize + OffsetOf(count)
      BY <1>1, PositionParts
    <3>2. Len(pages'[m]) = OffsetOf(count) + 1
      BY <1>1, <2>1
    <3>3. n * PageSize \in Nat
      BY <1>1, IndexAssumption DEF IndexAssumption
    <3> HIDE DEF n
    <3>4. PICK x \in Nat, o \in 0..(PageSize - 1), c \in Nat :
             x = n * PageSize /\ o = OffsetOf(count) /\ c = count
      BY <1>1, <3>1, <3>3
    <3>5. o + 1 \in 1..PageSize
      BY IndexAssumption DEF IndexAssumption
    <3>6. o \in Nat
      BY <3>4, IndexAssumption DEF IndexAssumption
    <3>7. x + (o + 1) <= c + 1
      BY <3>1, <3>4, <3>6
    <3>8. Len(pages'[m]) = o + 1 /\ m * PageSize = x /\ count' = c + 1
      BY <1>1, <2>1, <3>2, <3>4
    <3> QED BY <3>5, <3>7, <3>8
  <2>2. CASE m # n
    <3>1. /\ m \in DOMAIN pages /\ pages'[m] = pages[m] /\ m \in Nat
      BY <1>1, <2>2 DEF TypeOK
    <3>2. /\ Len(pages[m]) \in 1..PageSize
          /\ m * PageSize + Len(pages[m]) <= count
      BY <3>1 DEF PagesFull
    <3>3. m * PageSize \in Nat
      BY <3>1, IndexAssumption DEF IndexAssumption
    <3>4. PICK x \in Nat, h \in 1..PageSize, c \in Nat :
             x = m * PageSize /\ h = Len(pages[m]) /\ c = count
      BY <1>1, <3>2, <3>3
    <3>5. h \in Nat
      BY <3>4, IndexAssumption DEF IndexAssumption
    <3>6. x + h <= c + 1
      BY <3>2, <3>4, <3>5
    <3> QED BY <1>1, <3>1, <3>4, <3>6
  <2> QED BY <2>1, <2>2
<1> QED BY <1>2, <1>3 DEF PagesFull

(* Insertion of a key without position keeps positions and pages agreed.   *)
LEMMA AddKeepsPositions ==
    ASSUME TypeOK, PagesFull, PosAgrees, NEW k \in Keys, AddPageIndex(k),
           k \notin DOMAIN pos
    PROVE  PosAgrees'
<1>1. /\ count \in Nat /\ count' = count + 1
      /\ pos' = Store(pos, k, count)
  BY AddChanges DEF TypeOK
<1>2. \A i \in 0..count : ReadKeyAt(i)' = IF i = count THEN k ELSE ReadKeyAt(i)
  BY AddShape
<1>3. /\ DOMAIN pos' = DOMAIN pos \cup {k}
      /\ pos'[k] = count
      /\ \A x \in DOMAIN pos : pos'[x] = pos[x]
  BY <1>1 DEF Store
<1>4. ASSUME NEW x \in DOMAIN pos'
      PROVE  pos'[x] < count' /\ ReadKeyAt(pos[x])' = x
  <2>1. SUFFICES ASSUME NEW i \in 0..count, i = pos'[x]
                 PROVE  ReadKeyAt(i)' = x
    <3>1. pos'[x] \in 0..count
      BY <1>1, <1>3 DEF PosAgrees, TypeOK
    <3> QED BY <1>1, <3>1
  <2>2. CASE x = k
    BY <1>2, <1>3, <2>1, <2>2
  <2>3. CASE x # k
    <3>1. x \in DOMAIN pos /\ i = pos[x] /\ i < count /\ ReadKeyAt(i) = x
      BY <1>3, <2>1, <2>3 DEF PosAgrees
    <3> QED BY <1>1, <1>2, <2>1, <3>1
  <2> QED BY <2>2, <2>3
<1>5. ASSUME NEW i \in 0..(count' - 1)
      PROVE  ReadKeyAt(i)' \in DOMAIN pos' /\ pos'[ReadKeyAt(i)'] = i
  <2>1. CASE i = count
    <3>1. i \in 0..count
      BY <1>1, <2>1
    <3> QED BY <1>2, <1>3, <2>1, <3>1
  <2>2. CASE i # count
    <3>1. i \in 0..(count - 1) /\ i \in 0..count
      BY <1>1, <2>2
    <3>2. ReadKeyAt(i)' = ReadKeyAt(i) /\ ReadKeyAt(i) \in DOMAIN pos /\ pos[ReadKeyAt(i)] = i
      BY <1>2, <3>1 DEF PosAgrees
    <3> QED BY <1>3, <3>2
  <2> QED BY <2>1, <2>2
<1> QED BY <1>4, <1>5 DEF PosAgrees

-----------------------------------------------------------------------------
(* Removal.                                                                *)

IndexInv == TypeOK /\ PagesFull /\ PosAgrees

(* What remove_lending_page_index does to a key with a position.           *)
RemovesAt(k) ==
    LET at == pos[k]
        last == count - 1
    IN  /\ pages' = CutPage(MovedPages(at, last), PageOf(last), OffsetOf(last))
        /\ pos' = Without(MovedPos(at, last), k)
        /\ count' = last

(* A sequence without its last element.                                    *)
LEMMA RemovedLast ==
    ASSUME NEW T, NEW p \in Seq(T), NEW o \in Nat, Len(p) = o + 1
    PROVE  /\ Removed(p, o) \in Seq(T)
           /\ Len(Removed(p, o)) = o
           /\ \A j \in 1..o : Removed(p, o)[j] = p[j]
<1>1. Removed(p, o) = SubSeq(p, 1, o) \o SubSeq(p, o + 2, o + 1)
  BY DEF Removed
<1>2. SubSeq(p, o + 2, o + 1) \in Seq(T) /\ Len(SubSeq(p, o + 2, o + 1)) = 0
  OBVIOUS
<1>3. /\ SubSeq(p, 1, o) \in Seq(T) /\ Len(SubSeq(p, 1, o)) = o
      /\ \A j \in 1..o : SubSeq(p, 1, o)[j] = p[j]
  OBVIOUS
<1> QED BY <1>1, <1>2, <1>3

(* The position of the removed key and the last position are stored.       *)
LEMMA RemovePositions ==
    ASSUME IndexInv, NEW k \in DOMAIN pos
    PROVE  /\ count > 0 /\ count \in Nat /\ count - 1 \in Nat
           /\ pos[k] \in 0..(count - 1)
           /\ Stored(pos[k]) /\ Stored(count - 1)
<1>1. pos[k] \in Nat /\ pos[k] < count /\ count \in Nat
  BY DEF IndexInv, TypeOK, PosAgrees
<1>2. pos[k] \in 0..(count - 1) /\ count - 1 \in 0..(count - 1)
  BY <1>1
<1> QED BY <1>1, <1>2 DEF IndexInv, PagesFull

(* Letting the last key take the freed position changes no length and no   *)
(* other position.                                                         *)
LEMMA MovedShape ==
    ASSUME IndexInv, NEW at \in 0..(count - 1)
    PROVE  LET f == MovedPages(at, count - 1)
           IN  /\ DOMAIN f = DOMAIN pages
               /\ \A m \in DOMAIN pages : f[m] \in Seq(Keys) /\ Len(f[m]) = Len(pages[m])
               /\ \A i \in 0..(count - 1) :
                      f[PageOf(i)][OffsetOf(i) + 1] =
                          IF i = at THEN ReadKeyAt(count - 1) ELSE ReadKeyAt(i)
<1> DEFINE f == MovedPages(at, count - 1)
           n == PageOf(at)
           lastKey == ReadKeyAt(count - 1)
<1>1. /\ TypeOK /\ PagesFull /\ count \in Nat /\ at \in Nat /\ at < count
      /\ count - 1 \in Nat /\ count - 1 < count
  BY DEF IndexInv, TypeOK
<1>2. /\ n \in DOMAIN pages
      /\ OffsetOf(at) + 1 \in 1..Len(pages[n])
      /\ pages[n] \in Seq(Keys)
  BY <1>1, BelowCount DEF TypeOK
<1>3. lastKey \in Keys
  BY <1>1, BelowCount
<1>4. \A i \in 0..(count - 1) :
         /\ PageOf(i) \in DOMAIN pages
         /\ pages[PageOf(i)][OffsetOf(i) + 1] = ReadKeyAt(i)
         /\ OffsetOf(i) + 1 \in 1..Len(pages[PageOf(i)])
  <2> SUFFICES ASSUME NEW i \in 0..(count - 1)
               PROVE  /\ PageOf(i) \in DOMAIN pages
                      /\ pages[PageOf(i)][OffsetOf(i) + 1] = ReadKeyAt(i)
                      /\ OffsetOf(i) + 1 \in 1..Len(pages[PageOf(i)])
    OBVIOUS
  <2>1. i \in Nat /\ i < count
    BY <1>1
  <2> QED BY <1>1, <2>1, BelowCount
<1>5. CASE at = count - 1
  <2>1. f = pages
    BY <1>5 DEF MovedPages
  <2> HIDE DEF f
  <2> QED BY <1>1, <1>4, <1>5, <2>1 DEF TypeOK, f
<1>6. CASE at # count - 1
  <2>1. Stored(count - 1)
    BY <1>1 DEF PagesFull
  <2>2. f = Store(pages, n, [pages[n] EXCEPT ![OffsetOf(at) + 1] = lastKey])
    BY <1>2, <1>6, <2>1 DEF MovedPages, PutKeyAt, Page
  <2> HIDE DEF f, n, lastKey
  <2>3. /\ DOMAIN f = DOMAIN pages
        /\ f[n] = [pages[n] EXCEPT ![OffsetOf(at) + 1] = lastKey]
        /\ \A m \in DOMAIN pages : m # n => f[m] = pages[m]
    BY <1>2, <2>2 DEF Store
  <2>4. /\ f[n] \in Seq(Keys) /\ Len(f[n]) = Len(pages[n])
        /\ f[n][OffsetOf(at) + 1] = lastKey
        /\ \A j \in 1..Len(pages[n]) : j # OffsetOf(at) + 1 => f[n][j] = pages[n][j]
    BY <1>2, <1>3, <2>3
  <2>5. ASSUME NEW m \in DOMAIN pages
        PROVE  f[m] \in Seq(Keys) /\ Len(f[m]) = Len(pages[m])
    BY <1>1, <2>3, <2>4 DEF TypeOK
  <2>6. ASSUME NEW i \in 0..(count - 1)
        PROVE  f[PageOf(i)][OffsetOf(i) + 1] = IF i = at THEN lastKey ELSE ReadKeyAt(i)
    <3>1. CASE i = at
      BY <2>4, <3>1 DEF n
    <3>2. CASE i # at /\ PageOf(i) # n
      BY <1>4, <2>3, <3>2
    <3>3. CASE i # at /\ PageOf(i) = n
      <4>1. /\ i \in Nat /\ at \in Nat
            /\ i = PageOf(i) * PageSize + OffsetOf(i)
            /\ at = PageOf(at) * PageSize + OffsetOf(at)
            /\ OffsetOf(i) \in Nat /\ OffsetOf(at) \in Nat
        <5>1. i \in Nat /\ at \in Nat
          BY <1>1
        <5> QED BY <5>1, PositionParts, IndexAssumption DEF IndexAssumption
      <4>2. OffsetOf(i) # OffsetOf(at)
        BY <3>3, <4>1 DEF n
      <4>3. OffsetOf(i) + 1 # OffsetOf(at) + 1
        BY <4>1, <4>2
      <4> QED BY <1>4, <2>4, <3>3, <4>3
    <3> QED BY <3>1, <3>2, <3>3
  <2> QED BY <2>3, <2>5, <2>6 DEF f, lastKey
<1> QED BY <1>5, <1>6

(* The pages after the last position is cut off.                           *)
LEMMA CutShape ==
    ASSUME IndexInv, NEW k \in DOMAIN pos, RemovesAt(k)
    PROVE  LET n == PageOf(count - 1)
               o == OffsetOf(count - 1)
               f == MovedPages(pos[k], count - 1)
           IN  /\ DOMAIN pages' = IF o = 0 THEN DOMAIN pages \ {n} ELSE DOMAIN pages
               /\ \A m \in DOMAIN pages : m # n => pages'[m] = f[m]
               /\ o # 0 => /\ pages'[n] \in Seq(Keys)
                           /\ Len(pages'[n]) = o
                           /\ \A j \in 1..o : pages'[n][j] = f[n][j]
<1> DEFINE n == PageOf(count - 1)
           o == OffsetOf(count - 1)
           f == MovedPages(pos[k], count - 1)
<1>1. /\ TypeOK /\ PagesFull /\ count > 0
      /\ pos[k] \in 0..(count - 1)
  BY RemovePositions DEF IndexInv
<1>2. /\ n \in DOMAIN pages
      /\ Len(pages[n]) = o + 1 /\ o \in Nat
  BY <1>1, LastOfPages, IndexAssumption DEF IndexAssumption
<1>3. /\ DOMAIN f = DOMAIN pages
      /\ \A m \in DOMAIN pages : f[m] \in Seq(Keys) /\ Len(f[m]) = Len(pages[m])
  BY <1>1, MovedShape
<1>4. pages' = CutPage(f, n, o)
  BY DEF RemovesAt
<1> HIDE DEF n, o, f
<1> DEFINE cut == Removed(f[n], o)
<1>5. /\ cut \in Seq(Keys) /\ Len(cut) = o
      /\ \A j \in 1..o : cut[j] = f[n][j]
  <2>1. f[n] \in Seq(Keys) /\ Len(f[n]) = o + 1
    BY <1>2, <1>3
  <2> QED BY <1>2, <2>1, RemovedLast
<1>6. pages' = IF cut = << >> THEN Without(f, n) ELSE Store(f, n, cut)
  BY <1>2, <1>3, <1>4 DEF CutPage
<1>7. cut = << >> <=> o = 0
  BY <1>2, <1>5
<1> HIDE DEF cut
<1>8. CASE o = 0
  BY <1>2, <1>3, <1>6, <1>7, <1>8 DEF Without, n, o, f
<1>9. CASE o # 0
  <2>1. pages' = Store(f, n, cut)
    BY <1>6, <1>7, <1>9
  <2>2. /\ DOMAIN pages' = DOMAIN pages
        /\ pages'[n] = cut
        /\ \A m \in DOMAIN pages : m # n => pages'[m] = f[m]
    BY <1>2, <1>3, <2>1 DEF Store
  <2> QED BY <1>5, <1>9, <2>2 DEF n, o, f
<1> QED BY <1>8, <1>9

(* Removal keeps every key but the last at its position, and puts the last *)
(* one at the removed key's.                                               *)
LEMMA RemoveShape ==
    ASSUME IndexInv, NEW k \in DOMAIN pos, RemovesAt(k)
    PROVE  \A i \in 0..(count - 2) :
               /\ Stored(i)'
               /\ ReadKeyAt(i)' = IF i = pos[k] THEN ReadKeyAt(count - 1) ELSE ReadKeyAt(i)
<1> DEFINE n == PageOf(count - 1)
           o == OffsetOf(count - 1)
           f == MovedPages(pos[k], count - 1)
<1> SUFFICES ASSUME NEW i \in 0..(count - 2)
             PROVE  /\ Stored(i)'
                    /\ ReadKeyAt(i)' = IF i = pos[k] THEN ReadKeyAt(count - 1) ELSE ReadKeyAt(i)
  OBVIOUS
<1>1. /\ TypeOK /\ PagesFull /\ count > 0 /\ count \in Nat
      /\ pos[k] \in 0..(count - 1)
  BY RemovePositions DEF IndexInv
<1>2. /\ i \in Nat /\ i < count - 1 /\ i \in 0..(count - 1) /\ count - 1 \in Nat
  BY <1>1
<1>3. /\ DOMAIN f = DOMAIN pages
      /\ \A m \in DOMAIN pages : f[m] \in Seq(Keys) /\ Len(f[m]) = Len(pages[m])
      /\ f[PageOf(i)][OffsetOf(i) + 1] =
            IF i = pos[k] THEN ReadKeyAt(count - 1) ELSE ReadKeyAt(i)
  BY <1>1, <1>2, MovedShape
<1>4. /\ DOMAIN pages' = IF o = 0 THEN DOMAIN pages \ {n} ELSE DOMAIN pages
      /\ \A m \in DOMAIN pages : m # n => pages'[m] = f[m]
      /\ o # 0 => /\ Len(pages'[n]) = o
                  /\ \A j \in 1..o : pages'[n][j] = f[n][j]
  BY CutShape
<1>5. /\ PageOf(i) \in DOMAIN pages
      /\ OffsetOf(i) + 1 \in 1..Len(pages[PageOf(i)])
  <2>1. i < count
    BY <1>1, <1>2
  <2> QED BY <1>1, <1>2, <2>1, BelowCount
<1>6. /\ i = PageOf(i) * PageSize + OffsetOf(i)
      /\ count - 1 = n * PageSize + o
      /\ OffsetOf(i) \in Nat /\ o \in Nat
      /\ PageOf(i) \in Nat /\ n \in Nat
  <2>1. /\ i = PageOf(i) * PageSize + OffsetOf(i)
        /\ PageOf(i) \in Nat /\ OffsetOf(i) \in 0..(PageSize - 1)
    BY <1>2, PositionParts
  <2>2. count - 1 = n * PageSize + o /\ n \in Nat /\ o \in 0..(PageSize - 1)
    BY <1>2, PositionParts
  <2>3. PageSize \in Nat
    BY IndexAssumption DEF IndexAssumption
  <2> QED BY <2>1, <2>2, <2>3
<1> HIDE DEF n, o, f
<1>7. CASE PageOf(i) # n
  <2>1. PageOf(i) \in DOMAIN pages' /\ pages'[PageOf(i)] = f[PageOf(i)]
    BY <1>4, <1>5, <1>7
  <2>2. OffsetOf(i) < Len(pages'[PageOf(i)])
    BY <1>3, <1>5, <1>6, <2>1
  <2> QED BY <1>3, <2>1, <2>2 DEF Stored, ReadKeyAt, Page
<1>8. CASE PageOf(i) = n
  <2>1. OffsetOf(i) < o
    <3>1. n * PageSize \in Nat
      BY <1>6, IndexAssumption DEF IndexAssumption
    <3>2. n * PageSize + OffsetOf(i) < n * PageSize + o
      BY <1>2, <1>6, <1>8
    <3> QED BY <1>6, <3>1, <3>2
  <2>2. PageOf(i) \in DOMAIN pages' /\ OffsetOf(i) < Len(pages'[PageOf(i)])
    BY <1>4, <1>5, <1>6, <1>8, <2>1
  <2>3. pages'[PageOf(i)][OffsetOf(i) + 1] = f[PageOf(i)][OffsetOf(i) + 1]
    BY <1>4, <1>6, <1>8, <2>1
  <2> QED BY <1>3, <2>2, <2>3 DEF Stored, ReadKeyAt, Page
<1> QED BY <1>7, <1>8

(* Removal keeps the types of the index.                                   *)
LEMMA RemoveKeepsTypes ==
    ASSUME IndexInv, NEW k \in DOMAIN pos, RemovesAt(k)
    PROVE  /\ DOMAIN pages' \subseteq Nat
           /\ \A m \in DOMAIN pages' : pages'[m] \in Seq(Keys)
           /\ DOMAIN pos' \subseteq Keys
           /\ \A x \in DOMAIN pos' : pos'[x] \in Nat
           /\ count' \in Nat
<1> DEFINE n == PageOf(count - 1)
           o == OffsetOf(count - 1)
           f == MovedPages(pos[k], count - 1)
<1>1. /\ TypeOK /\ PagesFull /\ count > 0 /\ count \in Nat /\ count - 1 \in Nat
      /\ count - 1 < count /\ pos[k] \in 0..(count - 1)
  BY RemovePositions DEF IndexInv
<1>2. \A m \in DOMAIN pages : f[m] \in Seq(Keys)
  BY <1>1, MovedShape
<1>3. /\ DOMAIN pages' = IF o = 0 THEN DOMAIN pages \ {n} ELSE DOMAIN pages
      /\ \A m \in DOMAIN pages : m # n => pages'[m] = f[m]
      /\ o # 0 => pages'[n] \in Seq(Keys)
  BY CutShape
<1>4. ReadKeyAt(count - 1) \in Keys
  BY <1>1, BelowCount
<1>5. /\ count' \in Nat
      /\ pos' = Without(MovedPos(pos[k], count - 1), k)
  BY <1>1 DEF RemovesAt
<1> HIDE DEF n, o, f
<1>6. /\ DOMAIN pages' \subseteq Nat
      /\ \A m \in DOMAIN pages' : pages'[m] \in Seq(Keys)
  <2>1. DOMAIN pages' \subseteq DOMAIN pages
    BY <1>3
  <2>2. ASSUME NEW m \in DOMAIN pages'
        PROVE  pages'[m] \in Seq(Keys)
    <3>1. CASE m = n
      BY <1>3, <3>1
    <3>2. CASE m # n
      BY <1>2, <1>3, <2>1, <3>2
    <3> QED BY <3>1, <3>2
  <2> QED BY <1>1, <2>1, <2>2 DEF TypeOK
<1>7. pos[k] \in Nat
  BY <1>1
<1>8. /\ DOMAIN MovedPos(pos[k], count - 1) \subseteq Keys
      /\ \A x \in DOMAIN MovedPos(pos[k], count - 1) : MovedPos(pos[k], count - 1)[x] \in Nat
  BY <1>1, <1>4, <1>7 DEF MovedPos, Store, TypeOK
<1>9. /\ DOMAIN pos' \subseteq Keys
      /\ \A x \in DOMAIN pos' : pos'[x] \in Nat
  BY <1>5, <1>8 DEF Without
<1> QED BY <1>5, <1>6, <1>9

(* Removal keeps the pages full.                                           *)
LEMMA RemoveKeepsPages ==
    ASSUME IndexInv, NEW k \in DOMAIN pos, RemovesAt(k)
    PROVE  PagesFull'
<1> DEFINE n == PageOf(count - 1)
           o == OffsetOf(count - 1)
           f == MovedPages(pos[k], count - 1)
<1>1. /\ TypeOK /\ PagesFull /\ count > 0 /\ count \in Nat /\ count - 1 \in Nat
      /\ pos[k] \in 0..(count - 1)
  BY RemovePositions DEF IndexInv
<1>2. count' = count - 1
  BY DEF RemovesAt
<1>3. ASSUME NEW i \in 0..(count' - 1)
      PROVE  Stored(i)'
  <2>1. i \in 0..(count - 2)
    BY <1>1, <1>2
  <2> QED BY <2>1, RemoveShape
<1>4. \A m \in DOMAIN pages : Len(f[m]) = Len(pages[m])
  BY <1>1, MovedShape
<1>5. /\ DOMAIN pages' = IF o = 0 THEN DOMAIN pages \ {n} ELSE DOMAIN pages
      /\ \A m \in DOMAIN pages : m # n => pages'[m] = f[m]
      /\ o # 0 => Len(pages'[n]) = o
  BY CutShape
<1>6. /\ o \in 0..(PageSize - 1) /\ n \in Nat
      /\ count - 1 = n * PageSize + o
  BY <1>1, PositionParts
<1> HIDE DEF f
<1>7. ASSUME NEW m \in DOMAIN pages'
      PROVE  /\ Len(pages'[m]) \in 1..PageSize
             /\ m * PageSize + Len(pages'[m]) <= count'
  <2>1. m \in DOMAIN pages /\ m \in Nat
    BY <1>1, <1>5 DEF TypeOK
  <2>2. m * PageSize \in Nat
    BY <2>1, IndexAssumption DEF IndexAssumption
  <2>3. CASE m = n
    <3> HIDE DEF n, o
    <3>1. o # 0 /\ Len(pages'[m]) = o
      BY <1>5, <2>3
    <3> QED BY <1>1, <1>2, <1>6, <2>2, <2>3, <3>1, IndexAssumption DEF IndexAssumption
  <2>4. CASE m # n
    <3>1. /\ Len(pages'[m]) = Len(pages[m])
          /\ Len(pages[m]) \in 1..PageSize
          /\ m * PageSize + Len(pages[m]) <= count
      BY <1>1, <1>4, <1>5, <2>1, <2>4 DEF PagesFull
    <3>2. m * PageSize + Len(pages[m]) # count
      <4>1. SUFFICES ASSUME m * PageSize + Len(pages[m]) = count
                     PROVE  FALSE
        OBVIOUS
      <4>2. /\ Len(pages[m]) - 1 \in 0..(PageSize - 1)
            /\ count - 1 = m * PageSize + (Len(pages[m]) - 1)
        <5>1. PageSize \in Nat
          BY IndexAssumption DEF IndexAssumption
        <5>2. PICK x \in Nat, h \in 1..PageSize : x = m * PageSize /\ h = Len(pages[m])
          BY <2>2, <3>1
        <5>3. h - 1 \in 0..(PageSize - 1)
          BY <5>1
        <5>4. (x + h) - 1 = x + (h - 1)
          BY <5>1, <5>2
        <5> QED BY <4>1, <5>2, <5>3, <5>4
      <4>3. PageOf(count - 1) = m
        BY <1>1, <2>1, <4>2, PartsDetermine
      <4> QED BY <2>4, <4>3
    <3> HIDE DEF n, o
    <3> QED BY <1>1, <1>2, <2>2, <3>1, <3>2, IndexAssumption DEF IndexAssumption
  <2> QED BY <2>3, <2>4
<1> QED BY <1>3, <1>7 DEF PagesFull

(* Removal keeps positions and pages agreed.                               *)
LEMMA RemoveKeepsPositions ==
    ASSUME IndexInv, NEW k \in DOMAIN pos, RemovesAt(k)
    PROVE  PosAgrees'
<1> DEFINE at == pos[k]
           last == count - 1
           lastKey == ReadKeyAt(count - 1)
<1>1. /\ TypeOK /\ PosAgrees /\ count > 0 /\ count \in Nat /\ last \in Nat
      /\ at \in 0..last /\ Stored(last)
  BY RemovePositions DEF IndexInv
<1>2. /\ count' = last
      /\ pos' = Without(MovedPos(at, last), k)
  BY DEF RemovesAt
<1>3. \A i \in 0..(count - 2) :
         ReadKeyAt(i)' = IF i = at THEN lastKey ELSE ReadKeyAt(i)
  BY RemoveShape
<1>4. \A i \in 0..last : ReadKeyAt(i) \in DOMAIN pos /\ pos[ReadKeyAt(i)] = i
  BY <1>1 DEF PosAgrees
<1>5. lastKey \in DOMAIN pos /\ pos[lastKey] = last
  <2>1. last \in 0..last
    BY <1>1
  <2> QED BY <1>4, <2>1
<1>6. \A x \in DOMAIN pos : pos[x] \in 0..last /\ ReadKeyAt(pos[x]) = x
  BY <1>1 DEF PosAgrees, TypeOK
<1>7. ReadKeyAt(at) = k
  BY <1>6
<1>8. /\ DOMAIN pos' = DOMAIN pos \ {k}
      /\ \A x \in DOMAIN pos \ {k} :
            pos'[x] = IF at # last /\ x = lastKey THEN at ELSE pos[x]
  <2>1. CASE at = last
    <3>1. pos' = Without(pos, k)
      BY <1>2, <2>1 DEF MovedPos
    <3> HIDE DEF at, last, lastKey
    <3> QED BY <2>1, <3>1 DEF Without
  <2>2. CASE at # last
    <3>1. pos' = Without(Store(pos, lastKey, at), k)
      BY <1>1, <1>2, <2>2 DEF MovedPos
    <3> HIDE DEF at, last, lastKey
    <3> QED BY <1>5, <2>2, <3>1 DEF Without, Store
  <2> QED BY <2>1, <2>2
<1> HIDE DEF at, last, lastKey
<1>9. lastKey = k <=> at = last
  <2>1. CASE lastKey = k
    BY <1>5, <2>1 DEF at
  <2>2. CASE at = last
    BY <1>7, <2>2 DEF last, lastKey
  <2> QED BY <2>1, <2>2
<1>10. ASSUME NEW x \in DOMAIN pos'
       PROVE  pos'[x] < count' /\ ReadKeyAt(pos[x])' = x
  <2>1. x \in DOMAIN pos /\ x # k
    BY <1>8
  <2>2. ReadKeyAt(pos[x]) = x /\ pos[x] \in 0..last
    BY <1>6, <2>1
  <2>3. /\ pos'[x] \in 0..(count - 2)
        /\ IF x = lastKey THEN pos'[x] = at ELSE pos'[x] = pos[x] /\ pos[x] # at
    <3>1. CASE x = lastKey
      <4>1. at # last
        BY <1>9, <2>1, <3>1
      <4>2. pos'[x] = at
        BY <1>8, <2>1, <3>1, <4>1
      <4> QED BY <1>1, <3>1, <4>1, <4>2 DEF last
    <3>2. CASE x # lastKey
      <4>1. pos'[x] = pos[x]
        BY <1>8, <2>1, <3>2
      <4>2. pos[x] # last
        BY <2>2, <3>2 DEF last, lastKey
      <4>3. pos[x] # at
        BY <1>7, <2>1, <2>2
      <4> QED BY <1>1, <2>2, <3>2, <4>1, <4>2, <4>3 DEF last
    <3> QED BY <3>1, <3>2
  <2>4. SUFFICES ASSUME NEW i \in 0..(count - 2), i = pos'[x]
                 PROVE  ReadKeyAt(i)' = x
    BY <1>1, <1>2, <2>3 DEF last
  <2>5. CASE x = lastKey
    BY <1>3, <2>3, <2>4, <2>5
  <2>6. CASE x # lastKey
    BY <1>3, <2>2, <2>3, <2>4, <2>6
  <2> QED BY <2>5, <2>6
<1>11. ASSUME NEW i \in 0..(count' - 1)
       PROVE  ReadKeyAt(i)' \in DOMAIN pos' /\ pos'[ReadKeyAt(i)'] = i
  <2>1. i \in 0..(count - 2) /\ i \in 0..last /\ i # last
    BY <1>1, <1>2 DEF last
  <2>2. ReadKeyAt(i)' = IF i = at THEN lastKey ELSE ReadKeyAt(i)
    BY <1>3, <2>1
  <2>3. CASE i = at
    <3>1. at # last /\ lastKey # k
      BY <1>9, <2>1, <2>3
    <3> QED BY <1>5, <1>8, <2>2, <2>3, <3>1
  <2>4. CASE i # at
    <3>1. ReadKeyAt(i) \in DOMAIN pos /\ pos[ReadKeyAt(i)] = i
      BY <1>4, <2>1
    <3>2. ReadKeyAt(i) # k
      BY <2>4, <3>1 DEF at
    <3>3. ReadKeyAt(i) # lastKey
      BY <1>5, <2>1, <3>1
    <3> QED BY <1>8, <2>2, <2>4, <3>1, <3>2, <3>3
  <2> QED BY <2>3, <2>4
<1> QED BY <1>10, <1>11 DEF PosAgrees

-----------------------------------------------------------------------------
(* The invariant of the index.                                             *)

(* Two sequences over a set join to one over it.                           *)
LEMMA JoinType ==
    ASSUME NEW T, NEW u \in Seq(T), NEW v \in Seq(T)
    PROVE  u \o v \in Seq(T) /\ Len(u \o v) = Len(u) + Len(v)
<1>1. u \o v \in Seq(T)
  OBVIOUS
<1>2. Len(u \o v) = Len(u) + Len(v)
  OBVIOUS
<1> QED BY <1>1, <1>2

(* A removal from the legacy list moves the later copies up.               *)
LEMMA RemovedElements ==
    ASSUME NEW T, NEW p \in Seq(T), NEW at \in 1..Len(p)
    PROVE  /\ Removed(p, at - 1) \in Seq(T)
           /\ Len(Removed(p, at - 1)) = Len(p) - 1
           /\ \A j \in 1..(Len(p) - 1) :
                 Removed(p, at - 1)[j] = IF j < at THEN p[j] ELSE p[j + 1]
<1>1. Len(p) \in Nat /\ at \in Nat /\ at > 0
  OBVIOUS
<1>2. Removed(p, at - 1) = SubSeq(p, 1, at - 1) \o SubSeq(p, at + 1, Len(p))
  <2>1. ~((at - 1) + 1 > Len(p)) /\ (at - 1) + 2 = at + 1
    BY <1>1
  <2> QED BY <2>1 DEF Removed
<1>3. /\ SubSeq(p, 1, at - 1) \in Seq(T) /\ Len(SubSeq(p, 1, at - 1)) = at - 1
      /\ \A j \in 1..(at - 1) : SubSeq(p, 1, at - 1)[j] = p[j]
  BY <1>1
<1>4. /\ SubSeq(p, at + 1, Len(p)) \in Seq(T)
      /\ Len(SubSeq(p, at + 1, Len(p))) = Len(p) - at
      /\ \A j \in 1..(Len(p) - at) : SubSeq(p, at + 1, Len(p))[j] = p[at + j]
  BY <1>1
<1> DEFINE a == SubSeq(p, 1, at - 1)
           b == SubSeq(p, at + 1, Len(p))
<1> HIDE DEF a, b
<1>5. /\ a \o b \in Seq(T) /\ Len(a \o b) = Len(p) - 1
      /\ \A j \in 1..(Len(p) - 1) :
            (a \o b)[j] = IF j < at THEN a[j] ELSE b[j - (at - 1)]
  <2>1. /\ a \in Seq(T) /\ b \in Seq(T)
        /\ Len(a) = at - 1 /\ Len(b) = Len(p) - at
    BY <1>3, <1>4 DEF a, b
  <2>2. /\ a \o b \in Seq(T) /\ Len(a \o b) = Len(a) + Len(b)
    BY <2>1, JoinType
  <2>3. \A j \in 1..(Len(a) + Len(b)) :
           (a \o b)[j] = IF j <= Len(a) THEN a[j] ELSE b[j - Len(a)]
    BY <2>1
  <2>4. Len(a) + Len(b) = Len(p) - 1 /\ \A j \in 1..(Len(p) - 1) : j <= Len(a) <=> j < at
    BY <1>1, <2>1
  <2> QED BY <1>1, <2>1, <2>2, <2>3, <2>4
<1>6. ASSUME NEW j \in 1..(Len(p) - 1)
      PROVE  (a \o b)[j] = IF j < at THEN p[j] ELSE p[j + 1]
  <2>1. CASE j < at
    BY <1>1, <1>3, <1>5, <2>1 DEF a
  <2>2. CASE ~(j < at)
    <3>1. j - (at - 1) \in 1..(Len(p) - at) /\ at + (j - (at - 1)) = j + 1
      BY <1>1, <2>2
    <3> QED BY <1>4, <1>5, <2>2, <3>1 DEF b
  <2> QED BY <2>1, <2>2
<1> QED BY <1>2, <1>5, <1>6 DEF a, b

(* Where the legacy list holds a key.                                      *)
LEMMA PositionFound ==
    ASSUME NEW p, NEW x \in Members(p)
    PROVE  PositionOf(p, x) \in 1..Len(p) /\ p[PositionOf(p, x)] = x
<1>1. \E i \in 1..Len(p) : p[i] = x
  BY DEF Members
<1> QED BY <1>1 DEF PositionOf

(* The legacy list stays a list of keys.                                   *)
LEMMA ListKeepsType ==
    ASSUME TypeOK, NEW k \in Keys
    PROVE  /\ Append(list, k) \in Seq(Keys)
           /\ k \in Members(list) => Removed(list, PositionOf(list, k) - 1) \in Seq(Keys)
<1>1. list \in Seq(Keys)
  BY DEF TypeOK
<1>2. ASSUME k \in Members(list)
      PROVE  Removed(list, PositionOf(list, k) - 1) \in Seq(Keys)
  <2>1. PositionOf(list, k) \in 1..Len(list)
    BY <1>2, PositionFound
  <2> QED BY <1>1, <2>1, RemovedElements
<1> QED BY <1>1, <1>2

(* remove_lending_page_index removes a key that has a position and does    *)
(* nothing otherwise: the fall-back of the count on the legacy list does   *)
(* not matter to it.                                                       *)
LEMMA RemoveCases ==
    ASSUME IndexInv, NEW k \in Keys, RemoveLending(k)
    PROVE  IF k \in DOMAIN pos THEN RemovesAt(k) ELSE UNCHANGED indexVars
<1>1. RemovePageIndex(k, list')
  BY DEF RemoveLending
<1>2. CASE k \notin DOMAIN pos
  BY <1>1, <1>2 DEF RemovePageIndex
<1>3. CASE k \in DOMAIN pos
  <2>1. count > 0 /\ count \in Nat
    BY <1>3, RemovePositions
  <2>2. ReadCount(list') = count
    BY <2>1 DEF ReadCount
  <2> QED BY <1>1, <1>3, <2>1, <2>2 DEF RemovePageIndex, RemovesAt
<1> QED BY <1>2, <1>3

(* Every insertion is of a key without position.                           *)
LEMMA AddKeepsIndex ==
    ASSUME IndexInv, NEW k \in Keys, k \notin DOMAIN pos, AddPageIndex(k),
           entries' \subseteq Keys, list' \in Seq(Keys), pagesOnly' \in BOOLEAN
    PROVE  IndexInv'
<1>1. TypeOK'
  <2>1. /\ DOMAIN pages' \subseteq Nat
        /\ \A m \in DOMAIN pages' : pages'[m] \in Seq(Keys)
        /\ DOMAIN pos' \subseteq Keys
        /\ \A x \in DOMAIN pos' : pos'[x] \in Nat
        /\ count' \in Nat
    BY AddKeepsTypes DEF IndexInv
  <2> QED BY <2>1 DEF TypeOK
<1>2. PagesFull'
  BY AddKeepsPages DEF IndexInv
<1>3. PosAgrees'
  BY AddKeepsPositions DEF IndexInv
<1> QED BY <1>1, <1>2, <1>3 DEF IndexInv

(* A step that leaves pages, positions and count alone.                    *)
LEMMA OtherKeepsIndex ==
    ASSUME IndexInv, UNCHANGED indexVars,
           entries' \subseteq Keys, list' \in Seq(Keys), pagesOnly' \in BOOLEAN
    PROVE  IndexInv'
<1> USE DEF indexVars
<1>1. TypeOK'
  BY DEF IndexInv, TypeOK
<1>2. PagesFull'
  BY DEF IndexInv, PagesFull, Stored, Page
<1>3. PosAgrees'
  BY DEF IndexInv, PosAgrees, ReadKeyAt, Page
<1> QED BY <1>1, <1>2, <1>3 DEF IndexInv

(* The upgraded contract starts without pages.                             *)
LEMMA InitIndex == Init => IndexInv
<1> SUFFICES ASSUME Init PROVE IndexInv
  OBVIOUS
<1>1. /\ DOMAIN pages = {} /\ DOMAIN pos = {} /\ count = 0
      /\ list = LegacyEntries /\ entries = Members(LegacyEntries)
      /\ pagesOnly = FALSE
  BY DEF Init
<1>2. Members(LegacyEntries) \subseteq Keys
  BY IndexAssumption DEF IndexAssumption, Members
<1>3. TypeOK
  BY <1>1, <1>2, IndexAssumption DEF TypeOK, IndexAssumption
<1>4. 0..(count - 1) = {}
  BY <1>1
<1> QED BY <1>1, <1>3, <1>4 DEF IndexInv, PagesFull, PosAgrees

(* Each operation keeps the index.                                         *)
LEMMA StepKeepsIndex == IndexInv /\ [Next]_vars => IndexInv'
<1> SUFFICES ASSUME IndexInv, [Next]_vars PROVE IndexInv'
  OBVIOUS
<1>1. /\ TypeOK /\ entries \subseteq Keys /\ list \in Seq(Keys) /\ pagesOnly \in BOOLEAN
  BY DEF IndexInv, TypeOK
<1>2. ASSUME NEW k \in Keys, WriteLending(k)
      PROVE  IndexInv'
  <2>1. entries' \subseteq Keys /\ list' \in Seq(Keys) /\ pagesOnly' \in BOOLEAN
    BY <1>1, <1>2, ListKeepsType DEF WriteLending
  <2>2. CASE k \in DOMAIN pos
    BY <1>2, <2>1, <2>2, OtherKeepsIndex DEF WriteLending
  <2>3. CASE k \notin DOMAIN pos
    BY <1>2, <2>1, <2>3, AddKeepsIndex DEF WriteLending
  <2> QED BY <2>2, <2>3
<1>3. ASSUME NEW k \in Keys, RemoveLending(k)
      PROVE  IndexInv'
  <2>1. entries' \subseteq Keys /\ list' \in Seq(Keys) /\ pagesOnly' \in BOOLEAN
    BY <1>1, <1>3, ListKeepsType DEF RemoveLending
  <2>2. CASE k \in DOMAIN pos
    <3>1. RemovesAt(k)
      BY <1>3, <2>2, RemoveCases
    <3>2. TypeOK'
      <4>1. /\ DOMAIN pages' \subseteq Nat
            /\ \A m \in DOMAIN pages' : pages'[m] \in Seq(Keys)
            /\ DOMAIN pos' \subseteq Keys
            /\ \A x \in DOMAIN pos' : pos'[x] \in Nat
            /\ count' \in Nat
        BY <2>2, <3>1, RemoveKeepsTypes
      <4> QED BY <2>1, <4>1 DEF TypeOK
    <3>3. PagesFull' /\ PosAgrees'
      BY <2>2, <3>1, RemoveKeepsPages, RemoveKeepsPositions
    <3> QED BY <3>2, <3>3 DEF IndexInv
  <2>3. CASE k \notin DOMAIN pos
    <3>1. UNCHANGED indexVars
      BY <1>3, <2>3, RemoveCases
    <3> QED BY <2>1, <3>1, OtherKeepsIndex
  <2> QED BY <2>2, <2>3
<1>4. ASSUME NEW i \in 1..Len(list), MigrateLending(i)
      PROVE  IndexInv'
  <2>1. /\ list[i] \in Keys /\ list[i] \notin DOMAIN pos
        /\ AddPageIndex(list[i])
    BY <1>1, <1>4 DEF MigrateLending
  <2>2. entries' \subseteq Keys /\ list' \in Seq(Keys) /\ pagesOnly' \in BOOLEAN
    BY <1>1, <1>4 DEF MigrateLending
  <2>3. PICK k \in Keys : k \notin DOMAIN pos /\ AddPageIndex(k)
    BY <2>1
  <2> QED BY <2>2, <2>3, AddKeepsIndex
<1>5. ASSUME NEW b \in ModeChanges, SetPagesOnly(b)
      PROVE  IndexInv'
  <2>1. entries' \subseteq Keys /\ list' \in Seq(Keys) /\ pagesOnly' \in BOOLEAN
    BY <1>1, <1>5, IndexAssumption DEF SetPagesOnly, IndexAssumption
  <2> QED BY <1>5, <2>1, OtherKeepsIndex DEF SetPagesOnly, indexVars
<1>6. CASE UNCHANGED vars
  <2>1. /\ UNCHANGED indexVars
        /\ entries' \subseteq Keys /\ list' \in Seq(Keys) /\ pagesOnly' \in BOOLEAN
    BY <1>1, <1>6 DEF vars, indexVars
  <2> QED BY <2>1, OtherKeepsIndex
<1> QED BY <1>2, <1>3, <1>4, <1>5, <1>6 DEF Next

-----------------------------------------------------------------------------
(* The theorems about the index.                                           *)

(* The storage entries keep their types, the pages stay full without a     *)
(* gap, and the positions agree with them, whatever is written, removed,   *)
(* migrated or switched, in any order: add_lending_page_index never        *)
(* reaches its panic.                                                      *)
THEOREM IndexInvariant == Spec => []IndexInv
  BY InitIndex, StepKeepsIndex, PTL DEF Spec

(* The entries of the lending index keep their types.                      *)
THEOREM IndexTypes == Spec => []TypeOK
<1>1. IndexInv => TypeOK
  BY DEF IndexInv
<1> QED BY IndexInvariant, <1>1, PTL

(* The pages of the lending index have no gap, and the positions agree     *)
(* with them in both directions.                                           *)
THEOREM PagesStaySound == Spec => []PagesSound
<1>1. IndexInv => PagesSound
  BY DEF IndexInv, PagesSound
<1> QED BY IndexInvariant, <1>1, PTL

-----------------------------------------------------------------------------
(* The index implements the list.                                          *)

(* Listing is the sequence of the keys below the count.                    *)
LEMMA ListingIs ==
    ASSUME IndexInv
    PROVE  /\ Listing \in Seq(Keys) /\ Len(Listing) = count /\ count \in Nat
           /\ \A i \in 1..count : Listing[i] = ReadKeyAt(i - 1)
<1>1. count \in Nat
  BY DEF IndexInv, TypeOK
<1>2. \A i \in 1..count : ReadKeyAt(i - 1) \in Keys
  <2> SUFFICES ASSUME NEW i \in 1..count
               PROVE  ReadKeyAt(i - 1) \in Keys
    OBVIOUS
  <2>1. i - 1 \in Nat /\ i - 1 < count
    BY <1>1
  <2> QED BY <2>1, BelowCount DEF IndexInv
<1> QED BY <1>1, <1>2 DEF Listing

(* The keys of the list are those with a position.                         *)
LEMMA ListedHavePositions ==
    ASSUME IndexInv
    PROVE  L!Listed = DOMAIN pos
<1>1. /\ Len(Listing) = count /\ count \in Nat
      /\ \A i \in 1..count : Listing[i] = ReadKeyAt(i - 1)
  BY ListingIs
<1>2. ASSUME NEW i \in 1..count
      PROVE  Listing[i] \in DOMAIN pos
  <2>1. i - 1 \in 0..(count - 1)
    BY <1>1
  <2> QED BY <1>1, <2>1 DEF IndexInv, PosAgrees
<1>3. ASSUME NEW k \in DOMAIN pos
      PROVE  \E i \in 1..count : Listing[i] = k
  <2>1. pos[k] \in Nat /\ pos[k] < count /\ ReadKeyAt(pos[k]) = k
    BY DEF IndexInv, TypeOK, PosAgrees
  <2>2. pos[k] + 1 \in 1..count /\ (pos[k] + 1) - 1 = pos[k]
    BY <1>1, <2>1
  <2> QED BY <1>1, <2>1, <2>2
<1> QED BY <1>1, <1>2, <1>3 DEF L!Listed

(* Insertion appends to the list.                                          *)
LEMMA AddAppends ==
    ASSUME IndexInv, IndexInv', NEW k \in Keys, k \notin DOMAIN pos, AddPageIndex(k)
    PROVE  L!Add(k)
<1>1. /\ Listing \in Seq(Keys) /\ Len(Listing) = count /\ count \in Nat
      /\ \A i \in 1..count : Listing[i] = ReadKeyAt(i - 1)
  BY ListingIs
<1>2. count' = count + 1
  BY DEF AddPageIndex
<1>3. \A i \in 0..count : ReadKeyAt(i)' = IF i = count THEN k ELSE ReadKeyAt(i)
  BY AddShape DEF IndexInv
<1>4. Listing' = [i \in 1..(count + 1) |-> ReadKeyAt(i - 1)']
  BY <1>2 DEF Listing
<1>5. ASSUME NEW i \in 1..(count + 1)
      PROVE  ReadKeyAt(i - 1)' = Append(Listing, k)[i]
  <2>1. i - 1 \in 0..count
    BY <1>1
  <2>2. CASE i = count + 1
    <3>1. Append(Listing, k)[i] = k
      BY <1>1, <2>2
    <3>2. i - 1 = count
      BY <1>1, <2>2
    <3>3. PICK j \in 0..count : j = i - 1 /\ j = count
      BY <2>1, <3>2
    <3>4. ReadKeyAt(j)' = k
      BY <1>3, <3>3
    <3> QED BY <3>1, <3>3, <3>4
  <2>3. CASE i # count + 1
    <3>1. i \in 1..count
      BY <1>1, <2>3
    <3>2. Append(Listing, k)[i] = Listing[i]
      BY <1>1, <3>1
    <3>3. PICK j \in 0..count : j = i - 1 /\ j # count
      BY <1>1, <2>1, <2>3
    <3>4. ReadKeyAt(j)' = ReadKeyAt(j)
      BY <1>3, <3>3
    <3> QED BY <1>1, <3>1, <3>2, <3>3, <3>4
  <2> QED BY <2>2, <2>3
<1>6. Append(Listing, k) = [i \in 1..(count + 1) |-> Append(Listing, k)[i]]
  <2>1. Append(Listing, k) \in Seq(Keys) /\ Len(Append(Listing, k)) = count + 1
    BY <1>1
  <2> DEFINE q == Append(Listing, k)
             n == count + 1
  <2> HIDE DEF q, n
  <2>2. q \in Seq(Keys) /\ Len(q) = n
    BY <2>1 DEF q, n
  <2>3. q = [i \in 1..n |-> q[i]]
    BY <2>2
  <2> QED BY <2>3 DEF q, n
<1>7. Listing' = Append(Listing, k)
  BY <1>4, <1>5, <1>6
<1>8. k \notin L!Listed
  BY ListedHavePositions
<1> QED BY <1>7, <1>8 DEF L!Add

(* Removal lets the last key of the list take the place of the removed.    *)
LEMMA RemoveSwaps ==
    ASSUME IndexInv, NEW k \in DOMAIN pos, RemovesAt(k)
    PROVE  \E at \in 1..Len(Listing) : L!Remove(at)
<1>1. /\ Len(Listing) = count /\ count \in Nat
      /\ \A i \in 1..count : Listing[i] = ReadKeyAt(i - 1)
  BY ListingIs
<1>2. /\ count > 0 /\ pos[k] \in 0..(count - 1)
  BY RemovePositions
<1>3. PICK at \in 1..count : at - 1 = pos[k]
  <2>1. pos[k] + 1 \in 1..count /\ (pos[k] + 1) - 1 = pos[k]
    BY <1>1, <1>2
  <2> QED BY <2>1
<1>4. count' = count - 1
  BY DEF RemovesAt
<1>5. \A i \in 0..(count - 2) :
         ReadKeyAt(i)' = IF i = pos[k] THEN ReadKeyAt(count - 1) ELSE ReadKeyAt(i)
  BY RemoveShape
<1>6. Listing' = [i \in 1..(count - 1) |-> ReadKeyAt(i - 1)']
  BY <1>4 DEF Listing
<1>7. ASSUME NEW i \in 1..(count - 1)
      PROVE  ReadKeyAt(i - 1)' = IF i = at THEN Listing[count] ELSE Listing[i]
  <2>1. PICK j \in 0..(count - 2) : j = i - 1
    BY <1>1, <1>2
  <2>2. ReadKeyAt(j)' = IF j = pos[k] THEN ReadKeyAt(count - 1) ELSE ReadKeyAt(j)
    BY <1>5
  <2>3. j = pos[k] <=> i = at
    BY <1>1, <1>2, <1>3, <2>1
  <2>4. Listing[i] = ReadKeyAt(j) /\ Listing[count] = ReadKeyAt(count - 1)
    BY <1>1, <1>2, <2>1
  <2> QED BY <2>1, <2>2, <2>3, <2>4
<1>8. Listing' = [i \in 1..(Len(Listing) - 1) |->
                     IF i = at THEN Listing[Len(Listing)] ELSE Listing[i]]
  BY <1>1, <1>6, <1>7
<1> QED BY <1>1, <1>3, <1>8 DEF L!Remove

(* A step that leaves the index alone leaves the list alone.               *)
LEMMA OtherKeepsListing ==
    ASSUME UNCHANGED indexVars
    PROVE  UNCHANGED Listing
  BY DEF indexVars, Listing, ReadKeyAt, Page

(* Every step of the index is a step of the list, or leaves it alone.      *)
LEMMA StepRefinesList ==
    ASSUME IndexInv, IndexInv', [Next]_vars
    PROVE  [L!ListNext]_Listing
<1>1. list \in Seq(Keys)
  BY DEF IndexInv, TypeOK
<1>2. ASSUME NEW k \in Keys, WriteLending(k)
      PROVE  [L!ListNext]_Listing
  <2>1. CASE k \in DOMAIN pos
    BY <1>2, <2>1, OtherKeepsListing DEF WriteLending
  <2>2. CASE k \notin DOMAIN pos
    <3>1. L!Add(k)
      BY <1>2, <2>2, AddAppends DEF WriteLending
    <3> QED BY <3>1 DEF L!ListNext
  <2> QED BY <2>1, <2>2
<1>3. ASSUME NEW k \in Keys, RemoveLending(k)
      PROVE  [L!ListNext]_Listing
  <2>1. CASE k \in DOMAIN pos
    <3>1. RemovesAt(k)
      BY <1>3, <2>1, RemoveCases
    <3>2. \E at \in 1..Len(Listing) : L!Remove(at)
      BY <2>1, <3>1, RemoveSwaps
    <3> QED BY <3>2 DEF L!ListNext
  <2>2. CASE k \notin DOMAIN pos
    <3>1. UNCHANGED indexVars
      BY <1>3, <2>2, RemoveCases
    <3> QED BY <3>1, OtherKeepsListing
  <2> QED BY <2>1, <2>2
<1>4. ASSUME NEW i \in 1..Len(list), MigrateLending(i)
      PROVE  [L!ListNext]_Listing
  <2>1. PICK k \in Keys : k \notin DOMAIN pos /\ AddPageIndex(k)
    BY <1>1, <1>4 DEF MigrateLending
  <2>2. L!Add(k)
    BY <2>1, AddAppends
  <2> QED BY <2>2 DEF L!ListNext
<1>5. ASSUME NEW b \in ModeChanges, SetPagesOnly(b)
      PROVE  [L!ListNext]_Listing
  BY <1>5, OtherKeepsListing DEF SetPagesOnly, indexVars
<1>6. CASE UNCHANGED vars
  BY <1>6, OtherKeepsListing DEF vars, indexVars
<1> QED BY <1>2, <1>3, <1>4, <1>5, <1>6 DEF Next

(* The pages, positions and count of the lending index are together the    *)
(* list of module KeyList: every key once, removal by the last key taking  *)
(* the removed one's place.                                                *)
THEOREM ImplementsList == Spec => ListSpec
<1>1. Init => L!ListInit
  <2> SUFFICES ASSUME Init PROVE Listing = << >>
    BY DEF L!ListInit
  <2>1. IndexInv /\ count = 0
    BY InitIndex DEF Init
  <2>2. Listing \in Seq(Keys) /\ Len(Listing) = 0
    BY <2>1, ListingIs
  <2> QED BY <2>2
<1>2. IndexInv /\ IndexInv' /\ [Next]_vars => [L!ListNext]_Listing
  BY StepRefinesList
<1> QED BY <1>1, <1>2, IndexInvariant, PTL DEF Spec, ListSpec, L!ListSpec

-----------------------------------------------------------------------------
(* Lendings are neither lost nor brought back.                             *)

(* Which keys have a position after a removal.                             *)
LEMMA PositionsLeft ==
    ASSUME IndexInv, NEW k \in DOMAIN pos, RemovesAt(k)
    PROVE  DOMAIN pos' = DOMAIN pos \ {k}
<1>1. count - 1 \in 0..(count - 1)
  BY RemovePositions
<1>2. ReadKeyAt(count - 1) \in DOMAIN pos
  BY <1>1 DEF IndexInv, PosAgrees
<1>3. DOMAIN MovedPos(pos[k], count - 1) = DOMAIN pos
  BY <1>2 DEF MovedPos, Store
<1> QED BY <1>3 DEF RemovesAt, Without

(* A removal from the legacy list takes out the key and no other.          *)
LEMMA RemovedMembers ==
    ASSUME NEW T, NEW p \in Seq(T), NEW x \in Members(p)
    PROVE  LET r == Removed(p, PositionOf(p, x) - 1)
           IN  /\ Members(p) \ {x} \subseteq Members(r)
               /\ NoDuplicates(p) => /\ Members(r) \subseteq Members(p) \ {x}
                                     /\ NoDuplicates(r)
<1> DEFINE at == PositionOf(p, x)
           r == Removed(p, at - 1)
<1>1. at \in 1..Len(p) /\ p[at] = x /\ Len(p) \in Nat
  BY PositionFound
<1>2. /\ Len(r) = Len(p) - 1
      /\ \A j \in 1..(Len(p) - 1) : r[j] = IF j < at THEN p[j] ELSE p[j + 1]
  BY <1>1, RemovedElements
<1> HIDE DEF at, r
<1>3. ASSUME NEW y \in Members(p) \ {x}
      PROVE  y \in Members(r)
  <2>1. PICK i \in 1..Len(p) : p[i] = y
    BY DEF Members
  <2>2. i # at
    BY <1>1, <2>1
  <2>3. CASE i < at
    BY <1>1, <1>2, <2>1, <2>3 DEF Members
  <2>4. CASE i > at
    <3>1. i - 1 \in 1..(Len(p) - 1) /\ ~(i - 1 < at) /\ (i - 1) + 1 = i
      BY <1>1, <2>4
    <3> QED BY <1>2, <2>1, <3>1 DEF Members
  <2> QED BY <1>1, <2>2, <2>3, <2>4
<1>4. ASSUME NoDuplicates(p)
      PROVE  Members(r) \subseteq Members(p) \ {x} /\ NoDuplicates(r)
  <2>1. ASSUME NEW j \in 1..(Len(p) - 1)
        PROVE  \E i \in 1..Len(p) : /\ i # at /\ r[j] = p[i]
                                     /\ i = IF j < at THEN j ELSE j + 1
    BY <1>1, <1>2
  <2>2. ASSUME NEW y \in Members(r)
        PROVE  y \in Members(p) \ {x}
    <3>1. PICK j \in 1..(Len(p) - 1) : r[j] = y
      BY <1>2 DEF Members
    <3>2. PICK i \in 1..Len(p) : i # at /\ r[j] = p[i]
      BY <2>1
    <3>3. p[i] # p[at]
      BY <1>1, <1>4, <3>2 DEF NoDuplicates
    <3> QED BY <1>1, <3>1, <3>2, <3>3 DEF Members
  <2>3. ASSUME NEW j \in 1..Len(r), NEW h \in 1..Len(r), r[j] = r[h]
        PROVE  j = h
    <3>1. j \in 1..(Len(p) - 1) /\ h \in 1..(Len(p) - 1)
      BY <1>2
    <3>2. PICK i \in 1..Len(p) : r[j] = p[i] /\ i = IF j < at THEN j ELSE j + 1
      BY <2>1, <3>1
    <3>3. PICK g \in 1..Len(p) : r[h] = p[g] /\ g = IF h < at THEN h ELSE h + 1
      BY <2>1, <3>1
    <3>4. i = g
      BY <1>4, <2>3, <3>2, <3>3 DEF NoDuplicates
    <3> QED BY <1>1, <3>1, <3>2, <3>3, <3>4
  <2> QED BY <2>2, <2>3 DEF NoDuplicates
<1> QED BY <1>3, <1>4 DEF at, r

(* An appended key is a member, and the others stay.                       *)
LEMMA AppendedMembers ==
    ASSUME NEW T, NEW p \in Seq(T), NEW x \in T
    PROVE  /\ Members(Append(p, x)) = Members(p) \cup {x}
           /\ x \notin Members(p) /\ NoDuplicates(p) => NoDuplicates(Append(p, x))
<1>1. /\ Len(Append(p, x)) = Len(p) + 1 /\ Len(p) \in Nat
      /\ \A i \in 1..Len(p) : Append(p, x)[i] = p[i]
      /\ Append(p, x)[Len(p) + 1] = x
  OBVIOUS
<1> DEFINE q == Append(p, x)
<1> HIDE DEF q
<1>2. /\ Len(q) = Len(p) + 1 /\ Len(p) \in Nat
      /\ \A i \in 1..Len(p) : q[i] = p[i]
      /\ q[Len(p) + 1] = x
  BY <1>1 DEF q
<1>3. 1..Len(q) = 1..Len(p) \cup {Len(p) + 1}
  BY <1>2
<1>4. Members(q) = Members(p) \cup {x}
  BY <1>2, <1>3 DEF Members
<1>5. ASSUME x \notin Members(p), NoDuplicates(p)
      PROVE  NoDuplicates(q)
  BY <1>2, <1>3, <1>5 DEF NoDuplicates, Members
<1> QED BY <1>4, <1>5 DEF q

(* The keys with a position after an insertion.                            *)
LEMMA PositionsGrow ==
    ASSUME NEW k, AddPageIndex(k)
    PROVE  DOMAIN pos' = DOMAIN pos \cup {k}
  BY DEF AddPageIndex, Store

(* The initial lendings are in the legacy list, and no step loses one.     *)
LEMMA StepLosesNothing ==
    ASSUME IndexInv, NothingLost, [Next]_vars
    PROVE  NothingLost'
<1>1. list \in Seq(Keys) /\ entries \subseteq Keys
  BY DEF IndexInv, TypeOK
<1>2. ASSUME NEW k \in Keys, WriteLending(k)
      PROVE  NothingLost'
  <2>1. DOMAIN pos' = DOMAIN pos \cup {k}
    BY <1>2, PositionsGrow DEF WriteLending, indexVars
  <2>2. Members(list) \subseteq Members(list')
    BY <1>1, <1>2, AppendedMembers DEF WriteLending
  <2> QED BY <1>2, <2>1, <2>2 DEF WriteLending, NothingLost
<1>3. ASSUME NEW k \in Keys, RemoveLending(k)
      PROVE  NothingLost'
  <2>1. DOMAIN pos \ {k} \subseteq DOMAIN pos'
    BY <1>3, RemoveCases, PositionsLeft DEF indexVars
  <2>2. Members(list) \ {k} \subseteq Members(list')
    BY <1>1, <1>3, RemovedMembers DEF RemoveLending
  <2> QED BY <1>3, <2>1, <2>2 DEF RemoveLending, NothingLost
<1>4. ASSUME NEW i \in 1..Len(list), MigrateLending(i)
      PROVE  NothingLost'
  <2>1. DOMAIN pos' = DOMAIN pos \cup {list[i]}
    BY <1>4, PositionsGrow DEF MigrateLending
  <2> QED BY <1>4, <2>1 DEF MigrateLending, NothingLost
<1>5. ASSUME NEW b \in ModeChanges, SetPagesOnly(b)
      PROVE  NothingLost'
  BY <1>5 DEF SetPagesOnly, NothingLost
<1>6. CASE UNCHANGED vars
  BY <1>6 DEF vars, NothingLost
<1> QED BY <1>2, <1>3, <1>4, <1>5, <1>6 DEF Next

(* No lending is lost from both indexes, in any mode and across migration. *)
THEOREM LosesNothing == Spec => []NothingLost
<1>1. Init => NothingLost
  BY DEF Init, NothingLost
<1>2. IndexInv /\ NothingLost /\ [Next]_vars => NothingLost'
  BY StepLosesNothing
<1> QED BY <1>1, <1>2, IndexInvariant, PTL DEF Spec

(* The legacy list of a contract not in pages-only mode is exact as far as *)
(* it goes.                                                                *)
HauntInv == NothingHaunts /\ (~pagesOnly => NoDuplicates(list))

(* As long as pages-only mode is only switched on, no step brings a        *)
(* removed lending back.                                                   *)
LEMMA StepHauntsNothing ==
    ASSUME ModeChanges \subseteq {TRUE}, IndexInv, HauntInv, [Next]_vars
    PROVE  HauntInv'
<1>1. list \in Seq(Keys) /\ entries \subseteq Keys
  BY DEF IndexInv, TypeOK
<1>2. ASSUME NEW k \in Keys, WriteLending(k)
      PROVE  HauntInv'
  <2>1. DOMAIN pos' = DOMAIN pos \cup {k}
    BY <1>2, PositionsGrow DEF WriteLending, indexVars
  <2>2. CASE pagesOnly \/ k \in Members(list)
    BY <1>2, <2>1, <2>2 DEF WriteLending, HauntInv, NothingHaunts
  <2>3. CASE ~(pagesOnly \/ k \in Members(list))
    <3>1. list' = Append(list, k)
      BY <1>2, <2>3 DEF WriteLending
    <3>2. Members(list') = Members(list) \cup {k} /\ NoDuplicates(list')
      BY <1>1, <2>3, <3>1, AppendedMembers DEF HauntInv
    <3> QED BY <1>2, <2>1, <2>3, <3>2 DEF WriteLending, HauntInv, NothingHaunts
  <2> QED BY <2>2, <2>3
<1>3. ASSUME NEW k \in Keys, RemoveLending(k)
      PROVE  HauntInv'
  <2>1. DOMAIN pos' = DOMAIN pos \ {k}
    BY <1>3, RemoveCases, PositionsLeft DEF indexVars
  <2>2. CASE pagesOnly
    BY <1>3, <2>1, <2>2 DEF RemoveLending, HauntInv, NothingHaunts
  <2>3. CASE ~pagesOnly
    <3>1. Members(list') \subseteq Members(list) \ {k} /\ NoDuplicates(list')
      BY <1>1, <1>3, <2>3, RemovedMembers DEF RemoveLending, HauntInv
    <3> QED BY <1>3, <2>1, <2>3, <3>1 DEF RemoveLending, HauntInv, NothingHaunts
  <2> QED BY <2>2, <2>3
<1>4. ASSUME NEW i \in 1..Len(list), MigrateLending(i)
      PROVE  HauntInv'
  <2>1. DOMAIN pos' = DOMAIN pos \cup {list[i]}
    BY <1>4, PositionsGrow DEF MigrateLending
  <2>2. list[i] \in Members(list)
    BY DEF Members
  <2> QED BY <1>4, <2>1, <2>2 DEF MigrateLending, HauntInv, NothingHaunts
<1>5. ASSUME NEW b \in ModeChanges, SetPagesOnly(b)
      PROVE  HauntInv'
  BY <1>5 DEF SetPagesOnly, HauntInv, NothingHaunts
<1>6. CASE UNCHANGED vars
  BY <1>6 DEF vars, HauntInv, NothingHaunts
<1> QED BY <1>2, <1>3, <1>4, <1>5, <1>6 DEF Next

(* As long as pages-only mode is only switched on, every listed key has    *)
(* its lending record.                                                     *)
THEOREM HauntsNothing ==
    ASSUME ModeChanges \subseteq {TRUE}
    PROVE  Spec => []NothingHaunts
<1>1. Init => HauntInv
  BY IndexAssumption DEF Init, HauntInv, NothingHaunts, IndexAssumption
<1>2. IndexInv /\ HauntInv /\ [Next]_vars => HauntInv'
  BY StepHauntsNothing
<1>3. HauntInv => NothingHaunts
  BY DEF HauntInv
<1> QED BY <1>1, <1>2, <1>3, IndexInvariant, PTL DEF Spec
=============================================================================
