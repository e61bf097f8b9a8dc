------------------------------ MODULE Listing ------------------------------
(***************************************************************************)
(* ListFilesUseCase over the files table of FileStore: which rows a request *)
(* lists, in which order, and which of them are on its page.                *)
(*                                                                         *)
(* ORDER BY created_at DESC says nothing of rows created in one instant, so *)
(* they may change places from one query to the next.                       *)
(***************************************************************************)
EXTENDS FileStore, Functions

CONSTANTS
    CreatedAt,  \* created_at of each file, by whatever clock stamped it
    RawLimit,   \* what ?limit= may be: integers, or Nothing
    RawPage     \* what ?page= may be: integers, or Nothing

ASSUMPTION ListingAssumption ==
    /\ IsFiniteSet(Request)
    /\ CreatedAt \in [Request -> Int]
    /\ RawLimit \subseteq Int \cup {Nothing}
    /\ RawPage \subseteq Int \cup {Nothing}

-----------------------------------------------------------------------------
(* The request. *)

Larger(m, n) == IF m < n THEN n ELSE m

Smaller(m, n) == IF m < n THEN m ELSE n

PageOf(raw) == IF raw = Nothing THEN 1 ELSE Larger(1, raw)

LimitOf(raw) == IF raw = Nothing THEN 20 ELSE Smaller(100, Larger(1, raw))

\* Whose files a user may ask for, and whose are listed: Nothing for everybody's.
MayList(user, owner) == user \in Admin \/ owner \in {user, Nothing}

Scope(user, owner) ==
    IF owner = Nothing /\ user \notin Admin THEN user ELSE owner

Scopes ==
    UNION {{Scope(user, owner) : owner \in {o \in User \cup {Nothing} : MayList(user, o)}} :
              user \in User}

-----------------------------------------------------------------------------
(* The query. *)

Listed(scope, status) ==
    {f \in Request : /\ files[f] # Nothing
                     /\ files[f].status = status
                     /\ scope \in {files[f].ownerId, Nothing}}

\* Mutant: ordered by the last change, so a new version moves its file forward.
LastChange(f) ==
    CreatedAt[f] + (IF files[f] = Nothing THEN 0 ELSE 2 * files[f].versionCount)

SortKey(f) == CreatedAt[f]

\* The orders PostgreSQL may return a list in, as the place of each row; every query picks
\* one anew.
Orders(list) ==
    {place \in Injection(list, 1 .. Cardinality(list)) :
        \A f, g \in list : SortKey(f) > SortKey(g) => place[f] < place[g]}

\* Mutant: pages are counted from 0.
OffsetFromZero(page, limit) == page * limit

Offset(page, limit) == (page - 1) * limit

\* The places of the list that a page shows.
Window(page, limit) == (Offset(page, limit) + 1) .. (Offset(page, limit) + limit)

TotalPages(total, limit) == (total + limit - 1) \div limit

-----------------------------------------------------------------------------
Totals == {Cardinality(Listed(scope, status)) :
              scope \in Scopes, status \in {"active", "deleted"}}

\* Every place of a list is on one page of 1 .. totalPages and no later page shows
\* any, whatever the limit asked for; a page below 1 is the first.
PagesCoverList ==
    \A total \in Totals, limit \in {LimitOf(raw) : raw \in RawLimit} :
        LET pages == 1 .. TotalPages(total, limit)
            Shown(page) == Window(page, limit) \cap 1 .. total
            asked == {PageOf(raw) : raw \in RawPage}
        IN /\ UNION {Shown(page) : page \in pages} = 1 .. total
           /\ \A page \in pages : Shown(page) # {}
           /\ \A p, q \in pages : p # q => Shown(p) \cap Shown(q) = {}
           /\ \A page \in asked \ pages : page > 0 /\ Shown(page) = {}

Offsets == {Offset(PageOf(rawPage), LimitOf(rawLimit)) :
               rawPage \in RawPage, rawLimit \in RawLimit}

\* A client that has read the rows up to an offset and goes on from there after a step
\* misses no row that stays listed because of what is uploaded, revised or written
\* meanwhile: at most as many rows slip past it as left the part it has read.  Not
\* counted are the rows that share their instant with one it has read and that is still
\* there: the order of the query (TypeOrmFileRepository 80) lets the two change places, and
\* such a row is missed although nothing left.
CursorKeepsRest ==
    [][\A scope \in Scopes, status \in {"active", "deleted"} :
         LET list == Listed(scope, status)
             kept == list \cap list'
         IN \A shown \in Orders(list), next \in Orders(list)', offset \in Offsets :
                LET read == {f \in list : shown[f] <= offset}
                    missed == {f \in kept \ read : next[f] <= offset}
                    tied == {f \in missed : \E g \in read \cap kept : SortKey(g) = SortKey(f)}
                IN Cardinality(missed \ tied) <= Cardinality(read \ list')]_files
=============================================================================
