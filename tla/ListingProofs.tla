--------------------------- MODULE ListingProofs ---------------------------
(***************************************************************************)
(* Theorems about Listing, for every finite set of requests, every order of *)
(* creation and every page and limit a client may ask for.                  *)
(***************************************************************************)
EXTENDS Listing, FiniteSetTheorems, TLAPS

-----------------------------------------------------------------------------
(* The pages: arithmetic over any number of rows and any limit from 1.      *)

LEMMA LimitFromOne == \A raw \in RawLimit : LimitOf(raw) \in Nat \ {0}
BY ListingAssumption DEF LimitOf, Smaller, Larger

LEMMA PageFromOne == \A raw \in RawPage : PageOf(raw) \in Nat \ {0}
BY ListingAssumption DEF PageOf, Larger

LEMMA TimesMonotone ==
    ASSUME NEW m \in Nat, NEW n \in Nat, NEW d \in Nat, m <= n
    PROVE  m * d <= n * d
OBVIOUS

LEMMA Quotient ==
    ASSUME NEW n \in Nat, NEW d \in Nat \ {0}
    PROVE  /\ n \div d \in Nat
           /\ (n \div d) * d <= n
           /\ n < (n \div d) * d + d
OBVIOUS

LEMMA LastPage ==
    ASSUME NEW total \in Nat, NEW limit \in Nat \ {0}, NEW last, last = TotalPages(total, limit)
    PROVE  /\ last \in Nat
           /\ total <= last * limit
           /\ last # 0 => (last - 1) * limit < total
<1>1. /\ last \in Nat
      /\ last * limit <= total + limit - 1
      /\ total + limit - 1 < last * limit + limit
    BY Quotient DEF TotalPages
<1>2. last # 0 => (last - 1) * limit = last * limit - limit
    BY <1>1
<1>. QED
    BY <1>1, <1>2

\* The listed rows are finitely many.
LEMMA ListedFinite ==
    ASSUME NEW scope, NEW status
    PROVE  IsFiniteSet(Listed(scope, status)) /\ Cardinality(Listed(scope, status)) \in Nat
<1>1. Listed(scope, status) \in SUBSET Request
    BY DEF Listed
<1>. QED
    BY <1>1, ListingAssumption, FS_Subset, FS_CardinalityType

PagesOf(total, limit) == 1 .. TotalPages(total, limit)

LEMMA PagesCover ==
    ASSUME NEW total \in Nat, NEW limit \in Nat \ {0}
    PROVE  LET pages == PagesOf(total, limit) IN
           /\ \A k \in 1 .. total : \E page \in pages : k \in Window(page, limit)
           /\ \A page \in pages : \E k \in 1 .. total : k \in Window(page, limit)
           /\ \A p, q \in pages : p # q => Window(p, limit) \cap Window(q, limit) = {}
           /\ \A page \in (Nat \ {0}) \ pages : Window(page, limit) \cap 1 .. total = {}
<1> DEFINE last == TotalPages(total, limit)
           pages == PagesOf(total, limit)
<1>1. /\ last \in Nat
      /\ total <= last * limit
      /\ last # 0 => (last - 1) * limit < total
    BY LastPage
<1>2. \A page : page \in pages <=> page \in Nat \ {0} /\ page <= last
    BY <1>1 DEF PagesOf
<1> HIDE DEF last, pages
<1>3. ASSUME NEW k \in 1 .. total
      PROVE  \E page \in pages : k \in Window(page, limit)
    <2> DEFINE page == (k - 1) \div limit + 1
    <2>1. /\ page \in Nat \ {0}
          /\ (page - 1) * limit <= k - 1
          /\ k - 1 < (page - 1) * limit + limit
        BY Quotient
    <2> HIDE DEF page
    <2>2. page <= last
        <3> SUFFICES ASSUME last <= page - 1
                     PROVE  FALSE
            BY <1>1, <2>1
        <3>1. last * limit <= (page - 1) * limit
            BY <1>1, <2>1, TimesMonotone
        <3>2. last * limit \in Nat /\ (page - 1) * limit \in Nat
            BY <1>1, <2>1
        <3>. QED
            BY <1>1, <2>1, <3>1, <3>2
    <2>3. (page - 1) * limit \in Nat
        BY <2>1
    <2>4. k \in Window(page, limit)
        BY <2>1, <2>3 DEF Window, Offset
    <2>. QED
        BY <1>1, <1>2, <2>1, <2>2, <2>4
<1>4. ASSUME NEW page \in pages
      PROVE  \E k \in 1 .. total : k \in Window(page, limit)
    <2>1. page \in Nat \ {0} /\ page <= last /\ last # 0
        BY <1>1, <1>2
    <2>2. (page - 1) * limit <= (last - 1) * limit
        BY <1>1, <2>1, TimesMonotone
    <2>3. (page - 1) * limit \in Nat /\ (last - 1) * limit \in Nat
        BY <1>1, <2>1
    <2>4. (page - 1) * limit + 1 \in 1 .. total
        BY <1>1, <2>1, <2>2, <2>3
    <2>5. (page - 1) * limit + 1 \in Window(page, limit)
        BY <2>3 DEF Window, Offset
    <2>. QED
        BY <2>4, <2>5
<1>5. ASSUME NEW p \in Nat \ {0}, NEW q \in Nat \ {0}, p < q
      PROVE  Window(p, limit) \cap Window(q, limit) = {}
    <2>1. p * limit <= (q - 1) * limit
        BY <1>5, TimesMonotone
    <2>2. (p - 1) * limit + limit = p * limit
        BY <1>5
    <2>3. p * limit \in Nat /\ (p - 1) * limit \in Nat /\ (q - 1) * limit \in Nat
        BY <1>5
    <2>. QED
        BY <2>1, <2>2, <2>3 DEF Window, Offset
<1>6. ASSUME NEW page \in (Nat \ {0}) \ pages
      PROVE  Window(page, limit) \cap 1 .. total = {}
    <2>1. last <= page - 1
        BY <1>1, <1>2
    <2>2. last * limit <= (page - 1) * limit
        BY <1>1, <2>1, TimesMonotone
    <2>3. last * limit \in Nat /\ (page - 1) * limit \in Nat
        BY <1>1
    <2>. QED
        BY <1>1, <2>2, <2>3 DEF Window, Offset
<1>7. ASSUME NEW p \in pages, NEW q \in pages, p # q
      PROVE  Window(p, limit) \cap Window(q, limit) = {}
    <2>1. p \in Nat \ {0} /\ q \in Nat \ {0}
        BY <1>1, <1>2
    <2>2. p < q \/ q < p
        BY <1>7, <2>1
    <2>. QED
        BY <1>5, <2>1, <2>2
<1>. QED
    BY <1>3, <1>4, <1>6, <1>7 DEF pages

\* The pages 1 .. totalPages partition every list, and a page past them is empty.
THEOREM PagesAlwaysCover == Spec => []PagesCoverList
<1>1. PagesCoverList
    <2> SUFFICES ASSUME NEW total \in Totals,
                        NEW limit \in {LimitOf(raw) : raw \in RawLimit}
                 PROVE  LET pages == PagesOf(total, limit)
                            Shown(page) == Window(page, limit) \cap 1 .. total
                            asked == {PageOf(raw) : raw \in RawPage}
                        IN /\ UNION {Shown(page) : page \in pages} = 1 .. total
                           /\ \A page \in pages : Shown(page) # {}
                           /\ \A p, q \in pages : p # q => Shown(p) \cap Shown(q) = {}
                           /\ \A page \in asked \ pages : page > 0 /\ Shown(page) = {}
        BY Zenon DEF PagesCoverList, PagesOf
    <2> DEFINE pages == PagesOf(total, limit)
    <2>1. total \in Nat /\ limit \in Nat \ {0}
        <3>1. PICK scope \in Scopes, status \in {"active", "deleted"} :
                  total = Cardinality(Listed(scope, status))
            BY DEF Totals
        <3>. QED
            BY <3>1, ListedFinite, LimitFromOne
    <2>2. /\ \A k \in 1 .. total : \E page \in pages : k \in Window(page, limit)
          /\ \A page \in pages : \E k \in 1 .. total : k \in Window(page, limit)
          /\ \A p, q \in pages : p # q => Window(p, limit) \cap Window(q, limit) = {}
          /\ \A page \in (Nat \ {0}) \ pages : Window(page, limit) \cap 1 .. total = {}
        BY <2>1, PagesCover
    <2>3. \A page \in {PageOf(raw) : raw \in RawPage} : page \in Nat \ {0}
        BY PageFromOne
    <2>4. \A page \in Nat \ {0} : page > 0
        OBVIOUS
    <2>. QED
        BY <2>2, <2>3, <2>4
<1>. QED
    BY <1>1, PTL

-----------------------------------------------------------------------------
(* The cursor: whatever happens to a list between two queries, and in       *)
(* whatever order each returns the rows of one instant.                      *)

LEMMA PlaceOfRow ==
    ASSUME NEW list \in SUBSET Request, NEW place \in Orders(list)
    PROVE  /\ IsFiniteSet(list) /\ Cardinality(list) \in Nat
           /\ place \in Injection(list, 1 .. Cardinality(list))
           /\ place \in [list -> 1 .. Cardinality(list)]
           /\ \A f, g \in list : place[f] = place[g] => f = g
           /\ \A f, g \in list : CreatedAt[f] > CreatedAt[g] => place[f] < place[g]
<1>1. IsFiniteSet(list) /\ Cardinality(list) \in Nat
    BY ListingAssumption, FS_Subset, FS_CardinalityType
<1>. QED
    BY <1>1 DEF Orders, SortKey, Injection, IsInjective

\* The rows up to an offset, in an order that a query may return.
UpTo(list, place, offset) == {f \in list : place[f] <= offset}

LEMMA RowsUpTo ==
    ASSUME NEW list \in SUBSET Request, NEW place \in Orders(list), NEW offset \in Nat
    PROVE  /\ IsFiniteSet(UpTo(list, place, offset))
           /\ Cardinality(UpTo(list, place, offset)) \in Nat
           /\ Cardinality(UpTo(list, place, offset)) <= offset
           /\ offset <= Cardinality(list) => Cardinality(UpTo(list, place, offset)) = offset
<1> DEFINE rows == UpTo(list, place, offset)
           short == [f \in rows |-> place[f]]
<1>1. /\ IsFiniteSet(list) /\ Cardinality(list) \in Nat
      /\ place \in Injection(list, 1 .. Cardinality(list))
      /\ place \in [list -> 1 .. Cardinality(list)]
      /\ \A f, g \in list : place[f] = place[g] => f = g
    BY PlaceOfRow
<1>2. rows \in SUBSET list /\ IsFiniteSet(rows) /\ Cardinality(rows) \in Nat
    BY <1>1, FS_Subset, FS_CardinalityType DEF UpTo
<1>3. IsFiniteSet(1 .. offset) /\ Cardinality(1 .. offset) = offset
    BY FS_Interval
<1>4. short \in Injection(rows, 1 .. offset)
    <2>1. short \in [rows -> 1 .. offset]
        BY <1>1 DEF UpTo
    <2>. QED
        BY <1>1, <1>2, <2>1 DEF Injection, IsInjective
<1>5. Cardinality(rows) <= offset
    BY <1>3, <1>4, FS_Injection
<1>6. ASSUME offset <= Cardinality(list)
      PROVE  Cardinality(rows) = offset
    <2>1. place \in Surjection(list, 1 .. Cardinality(list))
        <3>1. IsFiniteSet(1 .. Cardinality(list))
              /\ Cardinality(1 .. Cardinality(list)) = Cardinality(list)
            BY <1>1, FS_Interval
        <3>. QED
            BY <1>1, <3>1, FS_Injection
    <2>2. \A k \in 1 .. offset : \E f \in rows : short[f] = k
        <3> SUFFICES ASSUME NEW k \in 1 .. offset PROVE \E f \in rows : short[f] = k
            OBVIOUS
        <3>1. k \in 1 .. Cardinality(list)
            BY <1>1, <1>6
        <3>2. PICK f \in list : place[f] = k
            BY <2>1, <3>1 DEF Surjection
        <3>. QED
            BY <3>2 DEF UpTo
    <2>3. short \in Surjection(rows, 1 .. offset)
        BY <1>4, <2>2 DEF Injection, Surjection
    <2>4. offset <= Cardinality(rows)
        BY <1>2, <1>3, <2>3, FS_Surjection
    <2>. QED
        BY <1>2, <1>5, <2>4
<1>. QED
    BY <1>2, <1>5, <1>6

\* Rows read that are still there stay ahead of a row missed, unless they are of its
\* instant; so they fill the places up to the offset together with the rows missed.
LEMMA NoMoreMissedThanGone ==
    ASSUME NEW list \in SUBSET Request, NEW after \in SUBSET Request, NEW offset \in Nat,
           NEW shown \in Orders(list), NEW next \in Orders(after)
    PROVE  LET read == UpTo(list, shown, offset)
               missed == {f \in (list \cap after) \ read : next[f] <= offset}
               slipped == {f \in missed :
                              \A g \in read \cap after : CreatedAt[g] # CreatedAt[f]}
           IN Cardinality(slipped) <= Cardinality(read \ after)
<1> DEFINE read == UpTo(list, shown, offset)
           again == UpTo(after, next, offset)
           missed == {f \in (list \cap after) \ read : next[f] <= offset}
           slipped == {f \in missed : \A g \in read \cap after : CreatedAt[g] # CreatedAt[f]}
<1>1. /\ IsFiniteSet(read) /\ Cardinality(read) \in Nat /\ read \subseteq list
      /\ offset <= Cardinality(list) => Cardinality(read) = offset
      /\ IsFiniteSet(again) /\ Cardinality(again) \in Nat /\ Cardinality(again) <= offset
    <2>1. read \subseteq list
        BY DEF UpTo
    <2>. QED
        BY <2>1, RowsUpTo
<1>2. slipped \in SUBSET Request /\ IsFiniteSet(slipped) /\ Cardinality(slipped) \in Nat
    <2>1. slipped \in SUBSET Request
        OBVIOUS
    <2>. QED
        BY <2>1, ListingAssumption, FS_Subset, FS_CardinalityType
<1>3. /\ IsFiniteSet(read \cap after) /\ Cardinality(read \cap after) \in Nat
      /\ IsFiniteSet(read \ after) /\ Cardinality(read \ after) \in Nat
      /\ Cardinality(read \ after) = Cardinality(read) - Cardinality(read \cap after)
    <2>1. read \cap after \in SUBSET read
        OBVIOUS
    <2>. QED
        BY <1>1, <2>1, FS_Subset, FS_CardinalityType, FS_Difference
<1>4. ASSUME NEW f \in slipped
      PROVE  /\ offset < Cardinality(list)
             /\ f \in again /\ f \notin read
             /\ \A g \in read \cap after : g \in again
    <2>1. /\ f \in list /\ f \in after /\ f \notin read /\ next[f] <= offset
          /\ \A g \in read \cap after : CreatedAt[g] # CreatedAt[f]
        OBVIOUS
    <2>2. /\ shown[f] \in 1 .. Cardinality(list) /\ Cardinality(list) \in Nat
          /\ shown[f] > offset
        BY <2>1, PlaceOfRow DEF UpTo
    <2>3. ASSUME NEW g \in read \cap after
          PROVE  g \in again
        <3>1. g \in list /\ g \in after /\ shown[g] <= offset
              /\ shown[g] \in 1 .. Cardinality(list) /\ CreatedAt[g] # CreatedAt[f]
            BY <2>1, PlaceOfRow DEF UpTo
        <3>2. ~(CreatedAt[f] > CreatedAt[g])
            <4>1. CreatedAt[f] > CreatedAt[g] => shown[f] < shown[g]
                BY <2>1, <3>1, PlaceOfRow
            <4>. QED
                BY <2>2, <3>1, <4>1
        <3>3. CreatedAt[g] > CreatedAt[f]
            <4>1. CreatedAt[f] \in Int /\ CreatedAt[g] \in Int
                BY <2>1, <3>1, ListingAssumption
            <4>. QED
                BY <3>1, <3>2, <4>1
        <3>4. next[g] < next[f] /\ next[g] \in Int /\ next[f] \in Int
            <4>1. next[g] \in 1 .. Cardinality(after) /\ next[f] \in 1 .. Cardinality(after)
                  /\ next[g] < next[f]
                BY <2>1, <3>1, <3>3, PlaceOfRow
            <4>2. Cardinality(after) \in Nat
                BY PlaceOfRow
            <4>. QED
                BY <4>1, <4>2
        <3>. QED
            BY <2>1, <3>1, <3>4 DEF UpTo
    <2>. QED
        BY <2>1, <2>2, <2>3 DEF UpTo
<1> HIDE DEF read, again, slipped
<1>5. CASE slipped = {}
    <2>1. Cardinality(slipped) <= Cardinality(read \ after)
        BY <1>3, <1>5, FS_EmptySet
    <2>. QED
        BY <2>1 DEF slipped, read
<1>6. CASE slipped # {}
    <2>1. PICK f \in slipped : TRUE
        BY <1>6
    <2>2. Cardinality(read) = offset
        <3>1. offset < Cardinality(list) /\ Cardinality(list) \in Nat
            BY <1>4, <2>1, ListingAssumption, FS_Subset, FS_CardinalityType
        <3>. QED
            BY <1>1, <3>1
    <2>3. (read \cap after) \cup slipped \in SUBSET again
        BY <1>4, <2>1
    <2>4. (read \cap after) \cap slipped = {}
        BY <1>4
    <2>5. Cardinality((read \cap after) \cup slipped)
              = Cardinality(read \cap after) + Cardinality(slipped)
        <3>1. Cardinality((read \cap after) \cap slipped) = 0
            BY <2>4, FS_EmptySet
        <3>2. Cardinality((read \cap after) \cup slipped)
                  = Cardinality(read \cap after) + Cardinality(slipped)
                    - Cardinality((read \cap after) \cap slipped)
            BY <1>2, <1>3, FS_Union
        <3>. QED
            BY <1>2, <1>3, <3>1, <3>2
    <2>6. Cardinality((read \cap after) \cup slipped) <= Cardinality(again)
        BY <1>1, <2>3, FS_Subset
    <2>7. Cardinality(slipped) <= Cardinality(read \ after)
        BY <1>1, <1>2, <1>3, <2>2, <2>5, <2>6
    <2>. QED
        BY <2>7 DEF slipped, read
<1>. QED
    BY <1>5, <1>6

LEMMA OffsetsAreNat == Offsets \subseteq Nat
<1> SUFFICES ASSUME NEW rawPage \in RawPage, NEW rawLimit \in RawLimit
             PROVE  Offset(PageOf(rawPage), LimitOf(rawLimit)) \in Nat
    BY DEF Offsets
<1> DEFINE page == PageOf(rawPage)
           limit == LimitOf(rawLimit)
<1>1. page \in Nat \ {0} /\ limit \in Nat \ {0}
    BY PageFromOne, LimitFromOne
<1> HIDE DEF page, limit
<1>2. (page - 1) * limit \in Nat
    BY <1>1
<1>. QED
    BY <1>2 DEF Offset, page, limit

\* Whoever goes on from an offset misses, but for rows of an instant she has read of, no
\* more rows than left the part already read: created_at never changes, so rows that stay
\* are not overtaken.
THEOREM CursorsKeepRest == Spec => CursorKeepsRest
<1>1. [\A scope \in Scopes, status \in {"active", "deleted"} :
         LET list == Listed(scope, status)
             kept == list \cap list'
         IN \A shown \in Orders(list), next \in Orders(list)', offset \in Offsets :
                LET read == {f \in list : shown[f] <= offset}
                    missed == {f \in kept \ read : next[f] <= offset}
                    tied == {f \in missed : \E g \in read \cap kept : SortKey(g) = SortKey(f)}
                IN Cardinality(missed \ tied) <= Cardinality(read \ list')]_files
    <2> SUFFICES ASSUME NEW scope \in Scopes, NEW status \in {"active", "deleted"},
                        NEW shown \in Orders(Listed(scope, status)),
                        NEW next \in Orders(Listed(scope, status))', NEW offset \in Offsets
                 PROVE  LET list == Listed(scope, status)
                            kept == list \cap list'
                            read == {f \in list : shown[f] <= offset}
                            missed == {f \in kept \ read : next[f] <= offset}
                            tied == {f \in missed :
                                        \E g \in read \cap kept : SortKey(g) = SortKey(f)}
                        IN Cardinality(missed \ tied) <= Cardinality(read \ list')
        OBVIOUS
    <2> DEFINE list == Listed(scope, status)
               after == list'
               read == {f \in list : shown[f] <= offset}
               missed == {f \in (list \cap after) \ read : next[f] <= offset}
               tied == {f \in missed :
                           \E g \in read \cap (list \cap after) : SortKey(g) = SortKey(f)}
               slipped == {f \in missed : \A g \in read \cap after : CreatedAt[g] # CreatedAt[f]}
    <2>1. list \in SUBSET Request /\ after \in SUBSET Request /\ offset \in Nat
        BY OffsetsAreNat DEF Listed
    <2>2. next \in Orders(after)
        BY DEF Orders, SortKey
    <2>3. missed \ tied = slipped /\ read = UpTo(list, shown, offset)
        BY DEF SortKey, UpTo
    <2>. HIDE DEF list, after
    <2>4. Cardinality(slipped) <= Cardinality(read \ after)
        BY <2>1, <2>2, <2>3, NoMoreMissedThanGone DEF list
    <2>. QED
        BY <2>3, <2>4 DEF list, after
<1>. QED
    BY <1>1, PTL DEF CursorKeepsRest
=============================================================================
