------------------------------ MODULE Listing ------------------------------
(***************************************************************************)
(* The listings of the API: plans, snapshots of a plan and restores are    *)
(* read whole, sorted with the newest first and cut into pages.  A client  *)
(* walks through the pages while items come and go.                        *)
(***************************************************************************)
EXTENDS Integers, Sequences, SequencesExt, FiniteSets

CONSTANTS
    Items,
    Limits,     \* page sizes that clients ask for
    MaxFetches  \* bound: pages of one walk

ASSUME LimitsAssumption == Limits \subseteq Int

(* GenericPager: a page size that is not positive means 5 *)
PageSize(limit) == IF limit <= 0 THEN 5 ELSE limit
From(offset)    == IF offset < 0 THEN 0 ELSE offset

(* Mutant: the last page is cut one item short. *)
PageEndShort(limit, offset, total) ==
    IF From(offset) + PageSize(limit) > total THEN total - 1 ELSE From(offset) + PageSize(limit)

PageEnd(limit, offset, total) ==
    IF From(offset) + PageSize(limit) > total THEN total ELSE From(offset) + PageSize(limit)

PageItems(limit, offset, list) ==
    IF From(offset) >= Len(list) THEN <<>>
    ELSE SubSeq(list, From(offset) + 1, PageEnd(limit, offset, Len(list)))

CurrentPage(limit, offset) == From(offset) \div PageSize(limit) + 1

(* Mutant: a last page that is not full is not counted. *)
TotalPagesFull(limit, total) == IF total < PageSize(limit) THEN 1 ELSE total \div PageSize(limit)

TotalPages(limit, total) ==
    LET pages == (total + PageSize(limit) - 1) \div PageSize(limit)
    IN  IF pages = 0 THEN 1 ELSE pages

-----------------------------------------------------------------------------
VARIABLES
    created,   \* every item in the order of creation
    deleted,   \* items that ListBackups filters out, or that are gone
    walk,      \* "idle", "walking", "ended"
    limit, offset,
    seen,      \* items on the pages of the walk so far
    began      \* the items listed and those deleted when the walk began

walkVars    == <<walk, limit, offset, seen, began>>
listingVars == <<created, deleted, walkVars>>

(* Where the items stand that are not filtered out, and the later ones *)
LiveAt   == {k \in 1..Len(created) : created[k] \notin deleted}
Newer(k) == {j \in LiveAt : j > k}

(* ListBackups, ListSnapshots, ListRestores: the newest first, so that the *)
(* n-th item has n - 1 newer ones                                          *)
Listed ==
    [n \in 1..Cardinality(LiveAt) |->
        created[CHOOSE k \in LiveAt : Cardinality(Newer(k)) = n - 1]]

CreateItem(i) ==
    /\ i \notin ToSet(created)
    /\ created' = Append(created, i)
    /\ UNCHANGED <<deleted, walkVars>>

DeleteItem(i) ==
    /\ i \in ToSet(created) \ deleted
    /\ deleted' = deleted \cup {i}
    /\ UNCHANGED <<created, walkVars>>

Begin(l) ==
    /\ walk = "idle"
    /\ walk' = "walking" /\ limit' = l /\ offset' = 0 /\ seen' = {}
    /\ began' = [listed |-> ToSet(Listed), deleted |-> deleted]
    /\ UNCHANGED <<created, deleted>>

(* One request for a page.  The client goes on by a page until the answer  *)
(* says that this is the last one; an empty listing is answered without    *)
(* GenericPager.                                                           *)
Fetch ==
    /\ walk = "walking" /\ offset < MaxFetches * PageSize(limit)
    /\ seen' = seen \cup ToSet(PageItems(limit, offset, Listed))
    /\ walk' = IF Listed = <<>> \/ CurrentPage(limit, offset) >= TotalPages(limit, Len(Listed))
               THEN "ended" ELSE "walking"
    /\ offset' = offset + PageSize(limit)
    /\ UNCHANGED <<created, deleted, limit, began>>

ListingInit ==
    /\ created = <<>> /\ deleted = {}
    /\ walk = "idle" /\ limit = 0 /\ offset = 0 /\ seen = {}
    /\ began = [listed |-> {}, deleted |-> {}]

ListingStep ==
    \/ \E i \in Items : CreateItem(i) \/ DeleteItem(i)
    \/ \E l \in Limits : Begin(l)
    \/ Fetch

ListingSpec == ListingInit /\ [][ListingStep]_listingVars

-----------------------------------------------------------------------------
(* A walk to the last page passes over no more of the items it began with  *)
(* than were deleted while it was under way: what is created meanwhile     *)
(* pushes items to later pages, a deletion pulls at most one past it.      *)
WalkMissesFew ==
    walk = "ended" =>
        LET removed == deleted \ began.deleted
        IN  Cardinality((began.listed \ removed) \ seen) <= Cardinality(removed)

(* GenericPager counts the pages that it fills: an offset whose page holds *)
(* an item is on one of the TotalPages of the answer, and each of them     *)
(* holds an item.                                                          *)
PagesMatchItems ==
    \A l \in Limits, o \in 0..(2 * Cardinality(Items)) :
        o % PageSize(l) = 0 /\ Listed # <<>> =>
            (PageItems(l, o, Listed) # <<>> <=> CurrentPage(l, o) <= TotalPages(l, Len(Listed)))
=============================================================================
