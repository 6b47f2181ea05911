---- MODULE Listing ----
(***************************************************************************)
(* The dashboard's lists: the queries behind them (store/web_reads*.go),   *)
(* which page by the sort key and id of the last row rather than by its    *)
(* position, and the browser's Paged (resource.svelte.ts), which refetches *)
(* the first page whenever something happened and keeps the pages that     *)
(* were loaded after it.  Rows move while they are read: a pull request is *)
(* updated, a review completes long after its creation, by which it is     *)
(* sorted, a finding is dismissed.                                         *)
(*                                                                         *)
(* A row of an answer is <<key, order, id>>, where key is the page's name  *)
(* for it, and order and id sort it, ascending.                            *)
(***************************************************************************)
EXTENDS Integers, Sequences, FiniteSets, Orders

CONSTANTS Repos, Pulls, \* numbers, which sort rows as their ids
          Problems,     \* findings of one pull request, by fingerprint
          Filters,      \* the filters each list is asked with
          PageSize,
          ListingBounds

\* Changes in the database, refetches, pages asked for, requests that fail.
ListingBound == [changes : Nat, refetches : Nat, more : Nat, queries : Nat, faults : Nat]

ASSUME ListingAssumption ==
    /\ PageSize \in Nat \ {0} /\ ListingBounds \subseteq ListingBound
    /\ Repos \cup Pulls \cup Problems \subseteq Nat /\ IsFiniteSet(Repos \cup Pulls \cup Problems)

VARIABLES
    repos, pulls, \* the tables' rows
    reports,      \* completed reviews of one pull request, by creation
    waived,       \* its dismissals
    now,          \* the clock
    list,         \* the browser's Paged
    replies,      \* requests under way, with what was read
    seen,         \* history of the query's list: rows that moved since it was begun, or slid off its first page; and whether it was astray
    room          \* what may still happen

listingVars == <<repos, pulls, reports, waived, now, list, replies, seen, room>>

NoPage == [items |-> <<>>, next |-> <<>>, gen |-> 0]

ListingInit ==
    /\ repos \in [Repos -> {[archived |-> FALSE, fork |-> FALSE]}]
    /\ pulls \in {[p \in Pulls |-> [open |-> TRUE, at |-> 1]]}
    /\ reports = {[at |-> 1, found |-> Problems, head |-> 1]} /\ waived = {}
    /\ now = 1
    /\ \E v \in DOMAIN Filters, f \in UNION {Filters[w] : w \in DOMAIN Filters} :
          /\ f \in Filters[v]
          /\ list = [view |-> v, filter |-> f, gen |-> 1, seq |-> 0, first |-> NoPage, extra |-> <<>>,
                     after |-> {}, more |-> FALSE]
    /\ replies = {} /\ seen = [moved |-> {}, slid |-> {}, astray |-> FALSE]
    /\ room \in ListingBounds

Take(what) == room[what] > 0 /\ room' = [room EXCEPT ![what] = @ - 1]

-----------------------------------------------------------------------------
(* What the queries read *)

RepoKind(r) == IF repos[r].archived THEN "archived" ELSE IF repos[r].fork THEN "forks" ELSE "inUse"
RepoRows(kind) == {<<r, r, 0>> : r \in {x \in Repos : RepoKind(x) = kind}}

PullRows(state) ==
    {<<p, -pulls[p].at, -p>> : p \in {x \in Pulls : state = "all" \/ pulls[x].open = (state = "open")}}

\* A finding's id is of the review that reported it.
FindingId(v, f) == <<v.at, f>>

\* Each finding as the latest completed review that reported it did, and
\* whether a later one, at another head, no longer did.
Latest(f) == CHOOSE v \in reports : f \in v.found /\ \A w \in reports : f \in w.found => w.at <= v.at
Addressed(f) == f \notin waived /\ \E w \in reports : w.at > Latest(f).at /\ w.head # Latest(f).head
FindingStatus(f) == IF f \in waived THEN "dismissed" ELSE IF Addressed(f) THEN "addressed" ELSE "open"
FindingRows(status) ==
    {<<FindingId(Latest(f), f), -Latest(f).at, -f>> :
        f \in {x \in Problems : (\E v \in reports : x \in v.found) /\ FindingStatus(x) = status}}

Rows(view, filter) ==
    CASE view = "repos" -> RepoRows(filter) [] view = "pulls" -> PullRows(filter) [] OTHER -> FindingRows(filter)

\* The position after a row, which its sort key alone is not.
AfterKey(row, cursor) == cursor = <<>> \/ row[2] > cursor[1]
After(row, cursor) ==
    cursor = <<>> \/ row[2] > cursor[1] \/ (row[2] = cursor[1] /\ row[3] > cursor[2])

Earlier(a, b) == a[2] < b[2] \/ (a[2] = b[2] /\ a[3] < b[3])

\* One row more than the page holds says that there is a next page.
ReadPage(view, filter, cursor) ==
    LET rows == {r \in Rows(view, filter) : After(r, cursor)}
        sorted == InOrder(rows, {p \in rows \X rows : Earlier(p[1], p[2])})
    IN IF Len(sorted) <= PageSize THEN [items |-> sorted, next |-> <<>>]
       ELSE [items |-> SubSeq(sorted, 1, PageSize), next |-> <<sorted[PageSize][2], sorted[PageSize][3]>>]

-----------------------------------------------------------------------------
(* The database *)

\* The rows of the list's query that a change moves.
Moves ==
    LET before == Rows(list.view, list.filter)
        after  == Rows(list.view, list.filter)'
    IN seen' = [seen EXCEPT !.moved = @ \cup {r[1] : r \in (before \ after) \cup (after \ before)}]

RepoChanges(r) ==
    /\ list.view = "repos" /\ Take("changes")
    /\ \E a, f \in BOOLEAN : repos' = [repos EXCEPT ![r] = [archived |-> a, fork |-> f]]
    /\ UNCHANGED <<pulls, reports, waived, now, list, replies>> /\ Moves

\* Two may be updated at one time.
PullChanges(p) ==
    /\ list.view = "pulls" /\ Take("changes")
    /\ now' \in {now, now + 1}
    /\ \E open \in BOOLEAN : pulls' = [pulls EXCEPT ![p] = [open |-> open, at |-> now']]
    /\ UNCHANGED <<repos, reports, waived, list, replies>> /\ Moves

\* A review created at some time since the last one completes.
ReviewCompletes ==
    /\ list.view = "findings" /\ Take("changes")
    /\ now' = now + 1
    /\ \E at \in 2..now', found \in SUBSET Problems, head \in 1..2 :
          /\ \A v \in reports : v.at # at
          /\ reports' = reports \cup {[at |-> at, found |-> found, head |-> head]}
    /\ UNCHANGED <<repos, pulls, waived, list, replies>> /\ Moves

Waive(f) ==
    /\ list.view = "findings" /\ Take("changes")
    /\ waived' = IF f \in waived THEN waived \ {f} ELSE waived \cup {f}
    /\ UNCHANGED <<repos, pulls, reports, now, list, replies>> /\ Moves

-----------------------------------------------------------------------------
(* The browser *)

\* The cursor "Load more" would use, which is that of the last page it gave
\* (list.after, if any), and the rows shown.
Cursor == IF list.after = {} THEN list.first.next ELSE CHOOSE c \in list.after : TRUE

Keys(items) == {items[i][1] : i \in DOMAIN items}
Without(rows, keys) == Picked(rows, {i \in DOMAIN rows : rows[i][1] \notin keys})
Items == list.first.items \o Without(list.extra, Keys(list.first.items))

PageRequest(kind, cursor) ==
    [kind |-> kind, seq |-> list.seq', gen |-> list.gen', filter |-> list.filter', cursor |-> cursor,
     page |-> NoPage, read |-> FALSE]

\* The page is opened, or something happened: the first page again.
LoadFirst ==
    /\ IF list.seq = 0 THEN UNCHANGED room ELSE Take("refetches")
    /\ list' = [list EXCEPT !.seq = @ + 1]
    /\ replies' = replies \cup {PageRequest("first", <<>>)}
    /\ UNCHANGED <<repos, pulls, reports, waived, now, seen>>

\* Another query drops what was loaded of the old one.
ChangeQuery(f) ==
    /\ f # list.filter /\ Take("queries")
    /\ list' = [list EXCEPT !.filter = f, !.gen = @ + 1, !.seq = @ + 1, !.extra = <<>>, !.after = {}, !.more = FALSE]
    /\ replies' = replies \cup {PageRequest("first", <<>>)}
    /\ seen' = [moved |-> {}, slid |-> {}, astray |-> FALSE]
    /\ UNCHANGED <<repos, pulls, reports, waived, now>>

\* With the old query's cursor, when the new one's first page is not there.
More ==
    /\ Cursor # <<>> /\ ~list.more /\ Take("more")
    /\ list' = [list EXCEPT !.more = TRUE]
    /\ replies' = replies \cup {PageRequest("more", Cursor)}
    /\ seen' = [seen EXCEPT !.astray = @ \/ list.first.gen # list.gen]
    /\ UNCHANGED <<repos, pulls, reports, waived, now>>

\* A replica reads the page.
Serve(q) ==
    /\ ~q.read
    /\ LET p == ReadPage(list.view, q.filter, q.cursor)
       IN replies' = (replies \ {q}) \cup {[q EXCEPT !.read = TRUE, !.page = [items |-> p.items, next |-> p.next, gen |-> q.gen]]}
    /\ UNCHANGED <<repos, pulls, reports, waived, now, list, seen, room>>

\* A first page lands, unless a newer one was asked for meanwhile.
FirstLands(q) ==
    /\ q.kind = "first" /\ q.read /\ replies' = replies \ {q}
    /\ IF q.seq # list.seq THEN UNCHANGED <<list, seen>>
       ELSE /\ list' = [list EXCEPT !.first = q.page]
            /\ seen' = [seen EXCEPT !.slid =
                  IF list.first.gen # q.gen \/ (list.after = {} /\ ~list.more) THEN @
                  ELSE @ \cup (Keys(list.first.items) \ Keys(q.page.items))]
    /\ UNCHANGED <<repos, pulls, reports, waived, now, room>>

Appended(q) ==
    [list EXCEPT !.more = FALSE, !.after = {q.page.next}, !.extra = @ \o Without(q.page.items, Keys(@))]

MoreLandsAnyway(q) ==
    /\ q.kind = "more" /\ q.read /\ replies' = replies \ {q}
    /\ list' = Appended(q)
    /\ UNCHANGED <<repos, pulls, reports, waived, now, seen, room>>

\* A further page lands, unless the query changed meanwhile.
MoreLands(q) ==
    /\ q.kind = "more" /\ q.read /\ replies' = replies \ {q}
    /\ list' = IF q.gen # list.gen THEN list ELSE Appended(q)
    /\ UNCHANGED <<repos, pulls, reports, waived, now, seen, room>>

RequestFails(q) ==
    /\ Take("faults") /\ replies' = replies \ {q}
    /\ list' = IF q.kind = "more" /\ q.gen = list.gen THEN [list EXCEPT !.more = FALSE] ELSE list
    /\ UNCHANGED <<repos, pulls, reports, waived, now, seen>>

ListingNext ==
    \/ \E r \in Repos : RepoChanges(r)
    \/ \E p \in Pulls : PullChanges(p)
    \/ ReviewCompletes \/ \E f \in Problems : Waive(f)
    \/ LoadFirst \/ More \/ \E f \in Filters[list.view] : ChangeQuery(f)
    \/ \E q \in replies : Serve(q) \/ FirstLands(q) \/ MoreLands(q) \/ RequestFails(q)

ListingSpec == ListingInit /\ [][ListingNext]_listingVars

-----------------------------------------------------------------------------
(* Properties *)

ListingTypeOK ==
    /\ \A p \in Pulls : pulls[p].at \in 1..now
    /\ \A v \in reports : v.at \in 1..now /\ v.found \subseteq Problems
    /\ list.filter \in Filters[list.view] /\ list.first.gen <= list.gen
    /\ \A q \in replies : q.seq <= list.seq /\ q.gen <= list.gen
    /\ room \in ListingBound

\* A list leaves nothing out and shows nothing of another query or twice,
\* however its rows move between the pages and the answers come late: a row
\* that stayed where it was since the list was begun is on the page, or comes
\* after its cursor; but where a refetch pushed it off the first page, or
\* more was asked for before the query's own first page had come.
PagesLeaveNothingOut ==
    list.first.gen = list.gen /\ ~seen.astray =>
        /\ \A r \in Rows(list.view, list.filter) :
              r[1] \in seen.moved \cup seen.slid \/ r \in Elements(Items) \/ (Cursor # <<>> /\ After(r, Cursor))
        /\ \A r \in Elements(Items) : r[1] \in seen.moved \/ r \in Rows(list.view, list.filter)
        /\ Cardinality(Keys(Items)) = Len(Items)
====
