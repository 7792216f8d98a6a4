------------------------------- MODULE Feeds -------------------------------
(***************************************************************************)
(* A reader walks through a paginated list of rm3 by its "next" links while *)
(* others change the site: lib/query.js writes the SQL, lib/indexfeed.js    *)
(* and lib/activityfeed.js turn its rows into articles, lib/pagination.js   *)
(* cuts the page and makes the token of the link, and mergeFacet puts the   *)
(* counts of facet queries next to the articles.                            *)
(*                                                                         *)
(* All of it is event emitters in one node.js process.  The rows of one    *)
(* query are one snapshot and come in one step; what interleaves is the    *)
(* answers of the queries (one for the list, one per facet), the look-ups  *)
(* that decorate an article (a photo's pictures are looked up in the blob  *)
(* store) and other people's edits.  An emitter that has ended an inner    *)
(* emitter calls its listeners at once, so a cascade of `end' is one step. *)
(*                                                                         *)
(* A definition that a comment calls a mutant is a plausible mistake in    *)
(* the code of the definition after it, and no part of the specification.  *)
(***************************************************************************)
EXTENDS Naturals, Sequences, FiniteSets

CONSTANTS
    Entries,    \* entityIds (numbers: SQL compares them), revisionIds in wh_log
    PathRank,   \* the place of each entry's path in path order
    Slow,       \* entries of a prototype with an enhanceFunc (photos, graphics)
    Matches,    \* how many rows of permissions let the reader view an entry
    Sorts,      \* the sort orders of the list that is read
    Filters,    \* the facets the reader may enter by
    Limit,      \* articles to a page
    Facets,     \* the facet queries of the block, in the order they are merged
    MaxTime,    \* bound on the clock
    MaxWrites   \* bound on what others write during the walk

NoToken == [key |-> 0, id |-> 0]
Months == {1, 2}

ASSUME EntriesAreIds == Entries \subseteq Nat \ {0} /\ IsFiniteSet(Entries)
ASSUME PathsDiffer ==
    /\ PathRank \in [Entries -> Nat \ {0}]
    /\ \A a, b \in Entries : PathRank[a] = PathRank[b] => a = b
ASSUME SlowAreEntries == Slow \subseteq Entries
ASSUME MatchesOnce == Matches \in [Entries -> Nat \ {0}]
ASSUME SortsAreKnown == Sorts \subseteq {"changed", "created", "path", "activity"}
ASSUME FiltersAreKnown == Filters \subseteq {"all", "month", "tag"}
ASSUME LimitIsPositive == Limit \in Nat \ {0}
ASSUME FacetsAreListed == Facets \in Seq(STRING)
ASSUME BoundsAreNats == MaxTime \in Nat \ {0, 1} /\ MaxWrites \in Nat

VARIABLES
    rows,       \* the rows of wh_entity, or of wh_log for "activity"
    now,        \* the clock, as new Date() and now() read it
    walk,       \* the list that is read: its sort order and its facet; history:
                \* whether articles came out of order or too late, what
                \* others wrote
    url,        \* the page asked for: filter and token of the link followed
    page,       \* the page being made
    seen,       \* what the reader has been shown, page after page
    steady      \* history: what has been in the list, unmoved, all the while

vars == <<rows, now, walk, url, page, seen, steady>>

---------------------------------------------------------------------------
(* The rows.  `listed' is stub <> true and hidden = false, or for wh_log    *)
(* evtFinal (the lists of events with a limit ask for drafts="false"); in   *)
(* wh_log `modified' is evtEnd, and the id revisionNum with revisionId.     *)

Row == [listed : BOOLEAN, created : 1..MaxTime, modified : 1..MaxTime,
        tagged : BOOLEAN]

\* date_trunc('month', ...)
Month(t) == IF t <= 2 THEN 1 ELSE 2

Descending(sort) == sort # "path"

\* The columns a list is ordered by, which are those its token holds.
LogPosition(table, e) == [key |-> table[e].modified, id |-> e]

EntityPosition(sort, table, e) ==
    [key |-> CASE sort = "changed" -> table[e].modified
               [] sort = "created" -> table[e].created
               [] sort = "path" -> PathRank[e],
     id |-> e]

Position(sort, table, e) ==
    IF sort = "activity" THEN LogPosition(table, e) ELSE EntityPosition(sort, table, e)

\* ORDER BY both of these columns.
Precedes(sort, a, b) ==
    IF Descending(sort)
    THEN a.key > b.key \/ (a.key = b.key /\ a.id > b.id)
    ELSE a.key < b.key \/ (a.key = b.key /\ a.id < b.id)

\* Mutant: the seek compares the first column only.
AfterTokenKey(sort, token, a) ==
    IF Descending(sort) THEN a.key < token.key ELSE a.key > token.key

\* Mutant: the seek lets the last article of the page before in again.
AfterTokenOrAt(sort, token, a) ==
    IF Descending(sort)
    THEN a.key < token.key \/ (a.key = token.key /\ a.id <= token.id)
    ELSE a.key > token.key \/ (a.key = token.key /\ a.id >= token.id)

\* The seek, a comparison of rows in SQL: (key, id) < (?, ?), or > for paths.
AfterToken(sort, token, a) ==
    IF Descending(sort)
    THEN a.key < token.key \/ (a.key = token.key /\ a.id < token.id)
    ELSE a.key > token.key \/ (a.key = token.key /\ a.id > token.id)

\* With "changed" a month is the month of the change, otherwise of creation.
MonthOf(sort, table, e) ==
    Month(IF sort = "changed" THEN table[e].modified ELSE table[e].created)

\* The WHERE clause, without the seek.
Selected(sort, filter, table, e) ==
    /\ table[e].listed
    /\ filter.month # 0 => filter.month = MonthOf(sort, table, e)
    /\ filter.tag => table[e].tagged

\* A filter by tag makes the query SELECT DISTINCT ON (path) ... ORDER BY
\* path first; without it there is a row for every permission that matches.
Ordering(sort, filter) == IF filter.tag THEN "path" ELSE sort
Copies(filter, e) == IF filter.tag THEN 1 ELSE Matches[e]

\* Mutant: the facet queries are given the pagination of the list.
MonthCountsHere(sort, filter, table) ==
    [m \in Months |-> Cardinality({e \in Entries :
        /\ Selected(sort, filter, table, e) /\ MonthOf(sort, table, e) = m
        /\ url.token # NoToken => AfterToken(sort, url.token, Position(sort, table, e))})]

\* count(*) GROUP BY date_trunc('month', ...): target `count' has neither
\* DISTINCT nor a seek.
MonthCounts(sort, filter, table) ==
    [m \in Months |-> Cardinality(UNION {{e} \X (1..Matches[e]) : e \in
        {x \in Entries : Selected(sort, filter, table, x) /\ MonthOf(sort, table, x) = m}})]

\* pagination.limit: one more than is shown.
PageLimit == Limit + 1

\* The elements of a finite set from first to last; before[x]: those before x.
InOrder(before) ==
    [i \in 1..Cardinality(DOMAIN before) |->
        CHOOSE x \in DOMAIN before : Cardinality(before[x]) = i - 1]

\* The rows of the query, ordered and cut off after PageLimit: of each the
\* columns that a token would hold.
Found(sort, link, table) ==
    {e \in Entries : /\ Selected(sort, link.filter, table, e)
                     /\ link.token # NoToken =>
                           AfterToken(sort, link.token, Position(sort, table, e))}

Answer(sort, link, table) ==
    LET by == Ordering(sort, link.filter)
        all == UNION {{e} \X (1..Copies(link.filter, e)) : e \in Found(sort, link, table)}
        ordered == InOrder([r \in all |->
            {q \in all : \/ Precedes(by, Position(by, table, q[1]), Position(by, table, r[1]))
                         \/ q[1] = r[1] /\ q[2] < r[2]}])
    IN  [i \in 1..(IF Len(ordered) < PageLimit THEN Len(ordered) ELSE PageLimit) |->
            Position(sort, table, ordered[i][1])]

---------------------------------------------------------------------------
(* Pages.  `article' events reach generateLastLink in the order `emitted'.  *)

\* The levels of mergeFacet: an activity feed has none.
Levels == IF walk.sort = "activity" THEN <<>> ELSE Facets

\* waiting: 0 while the list has not ended, k while the k-th mergeFacet waits
\* for its counts, Len(Levels) + 1 when the outermost emitter has ended.
\* last: how many articles there were when the list ended.  broken: a decoration
\* has failed.  counts: those of the "months" facet.
FreshPage == [answered |-> FALSE, todo |-> {}, emitted |-> <<>>, rows |-> <<>>,
              last |-> 0, broken |-> FALSE, waiting |-> 0, counted |-> {}, named |-> {}, replies |-> 0,
              counts |-> [m \in Months |-> 0], failed |-> FALSE]

\* generateLastLink: the articles on the page, and whether one more had come
\* when the list ended.
Shown(p) == SubSeq(p.emitted, 1,
                   IF Len(p.emitted) < Limit THEN Len(p.emitted) ELSE Limit)
More(p) == p.last > Limit

Rendered == page.replies > 0

\* Mutant: a level is counted as ended twice.
EndsPast(p) == [p EXCEPT !.waiting = IF @ = 0 THEN 0 ELSE Len(Levels) + 2,
                         !.replies = IF p.waiting = 0 THEN @ ELSE @ + 1]

\* mergeFacet, all of its levels: the list (or the level below) has ended; a
\* level whose counts are in passes them on by name and ends too.
Ends(p) ==
    LET open == {k \in 1..Len(Levels) :
                    k >= p.waiting /\ Levels[k] \notin p.counted}
        next == IF open = {} THEN Len(Levels) + 1
                ELSE CHOOSE k \in open : \A j \in open : k <= j
    IN  IF p.waiting = 0 THEN p
        ELSE [p EXCEPT
                !.waiting = next,
                !.named = @ \cup {Levels[k] : k \in {j \in 1..Len(Levels) :
                                       p.waiting <= j /\ j < next}},
                !.replies = IF next > Len(Levels) THEN @ + 1 ELSE @]

\* async.each calls back when every article is decorated, or one has failed;
\* once only.
ListEnds(p) ==
    IF p.waiting = 0 /\ (p.todo = {} \/ p.broken)
    THEN Ends([p EXCEPT !.waiting = 1, !.last = Len(p.emitted)]) ELSE p

\* What comes of the list's rows.  logToActivityFeed emits each at once;
\* resultsToIndexFeed goes through them in order too, but emits at once only
\* those whose decoration looks nothing up.
ActivityFeed(answer) == [emitted |-> answer, todo |-> {}]
IndexFeed(answer) ==
    LET quick == {i \in DOMAIN answer : answer[i].id \notin Slow}
        ordered == InOrder([i \in quick |-> {j \in quick : j < i}])
    IN  [emitted |-> [k \in DOMAIN ordered |-> answer[ordered[k]]],
         todo |-> DOMAIN answer \ quick]

\* The list's rows are here.
RunQuery ==
    /\ ~page.answered /\ ~page.failed
    /\ LET answer == Answer(walk.sort, url, rows)
           feed == IF walk.sort = "activity" THEN ActivityFeed(answer)
                   ELSE IndexFeed(answer)
       IN  page' = ListEnds([page EXCEPT !.answered = TRUE, !.rows = answer,
                                         !.todo = feed.todo,
                                         !.emitted = feed.emitted])
    /\ UNCHANGED <<rows, now, walk, url, seen, steady>>

\* An error of the list's query is passed on as `error', and recordQuery then
\* emits `end' as well: the page is answered by next(err) and once more.
FailQuery ==
    /\ ~page.answered /\ ~page.failed
    /\ page' = ListEnds([page EXCEPT !.failed = TRUE, !.answered = TRUE,
                                     !.replies = 1])
    /\ UNCHANGED <<rows, now, walk, url, seen, steady>>

\* enhanceFunc calls back for one article, with an error if a blob could not be
\* looked up; the article is emitted either way.  What comes after the end of
\* the list still gets on the page, until that is rendered.
Decorate(i) ==
    /\ i \in page.todo /\ ~Rendered
    /\ \E broken \in {page.broken, TRUE} :
          page' = ListEnds([page EXCEPT !.todo = @ \ {i}, !.broken = broken,
                                        !.emitted = Append(@, page.rows[i])])
    /\ UNCHANGED <<rows, now, walk, url, seen, steady>>

\* Mutant: counts that are in end the page, whatever it still waits for.
CountFacetAlone(k) ==
    /\ Levels[k] \notin page.counted
    /\ page' = Ends([page EXCEPT !.counted = @ \cup {Levels[k]}, !.waiting = k + 1])
    /\ UNCHANGED <<rows, now, walk, url, seen, steady>>

\* The counts of a facet are in.  If its level was waiting for them they are
\* emitted without the facet's name, so the page does not show them.
CountFacet(k) ==
    /\ Levels[k] \notin page.counted
    /\ page' = LET p == [page EXCEPT !.counted = @ \cup {Levels[k]},
                            !.counts = IF Levels[k] = "months"
                                       THEN MonthCounts(walk.sort, url.filter, rows)
                                       ELSE @]
               IN  IF page.waiting = k THEN Ends([p EXCEPT !.waiting = k + 1])
                   ELSE p
    /\ UNCHANGED <<rows, now, walk, url, seen, steady>>

\* Nobody listens to the `error' of a facet's query (mergeFacet listens to the
\* list's twice), so it is thrown and takes the process down with the page.
FailFacet(k) ==
    /\ Levels[k] \notin page.counted
    /\ page' = [FreshPage EXCEPT !.failed = TRUE, !.answered = TRUE,
                                 !.counted = {Levels[j] : j \in 1..Len(Levels)}]
    /\ UNCHANGED <<rows, now, walk, url, seen, steady>>

---------------------------------------------------------------------------
(* The reader. *)

\* The link to the next page: the month stays in it (tokenPrefix), a tag not.
Link(filter, token) ==
    [filter |-> [month |-> filter.month, tag |-> FALSE], token |-> token]

\* Have the articles of a page come out of their order, or after the end of the
\* list, which Slow ones may?
Shuffled ==
    walk.shuffled \/ page.emitted # page.rows \/ page.last # Len(page.rows)

FollowLink ==
    /\ Rendered /\ ~page.failed /\ More(page)
    /\ walk' = [walk EXCEPT !.shuffled = Shuffled]
    /\ seen' = seen \o Shown(page)
    /\ url' = Link(url.filter, Shown(page)[Limit])
    /\ page' = FreshPage
    /\ UNCHANGED <<rows, now, steady>>

\* The last page is read.
FinishReading ==
    /\ Rendered /\ ~page.failed /\ ~More(page) /\ ~walk.over
    /\ seen' = seen \o Shown(page)
    /\ walk' = [walk EXCEPT !.over = TRUE, !.shuffled = Shuffled]
    /\ UNCHANGED <<rows, now, url, page, steady>>

---------------------------------------------------------------------------
(* Other people.  What they write is modelled in EntityUpdates. *)

\* What has stayed in the list, at its place, since the walk began.
Unmoved(table, table2) ==
    {e \in steady : /\ Selected(walk.sort, walk.filter, table2, e)
                    /\ Position(walk.sort, table2, e) = Position(walk.sort, table, e)}

Write(e, row) ==
    /\ walk.writes < MaxWrites
    /\ rows' = [rows EXCEPT ![e] = row]
    /\ steady' = Unmoved(rows, rows')
    /\ walk' = [walk EXCEPT !.writes = @ + 1]
    /\ UNCHANGED <<now, url, page, seen>>

\* A page is created, or a draft, deletion or hiding of it is undone.
AddEntry(e) ==
    /\ ~rows[e].listed
    /\ Write(e, [listed |-> TRUE, created |-> now, modified |-> now,
                 tagged |-> rows[e].tagged])

\* An edit that is not a minor change; log entries are never changed.
EditEntry(e) ==
    /\ rows[e].listed /\ walk.sort # "activity" /\ rows[e].modified # now
    /\ Write(e, [rows[e] EXCEPT !.modified = now])

\* A page is deleted, moved or hidden.
RemoveEntry(e) ==
    /\ rows[e].listed /\ walk.sort # "activity"
    /\ Write(e, [rows[e] EXCEPT !.listed = FALSE])

Tick ==
    /\ now < MaxTime
    /\ now' = now + 1
    /\ UNCHANGED <<rows, walk, url, page, seen, steady>>

Others == Tick \/ \E e \in Entries : AddEntry(e) \/ EditEntry(e) \/ RemoveEntry(e)

---------------------------------------------------------------------------
FilterOf(name, month) == [month |-> IF name = "month" THEN month ELSE 0,
                          tag |-> name = "tag"]

\* Entries that are older than the walk.  An entry's tag goes with its number.
\* An activity feed has no facets to enter by.
Init ==
    /\ now = 2
    /\ rows \in [Entries -> {r \in Row : r.modified <= 2 /\ r.created <= r.modified}]
    /\ \A e \in Entries : rows[e].tagged = (e % 2 = 0)
    /\ \A e \in Entries : ~rows[e].listed => rows[e].modified = 1
    /\ \E sort \in Sorts, name \in Filters, month \in Months :
          /\ sort = "activity" => name = "all"
          /\ walk = [sort |-> sort, filter |-> FilterOf(name, month), over |-> FALSE,
                     shuffled |-> FALSE, writes |-> 0]
    /\ url = [filter |-> walk.filter, token |-> NoToken]
    /\ page = FreshPage
    /\ seen = <<>>
    /\ steady = {e \in Entries : Selected(walk.sort, walk.filter, rows, e)}

Next ==
    \/ RunQuery \/ FailQuery
    \/ \E i \in 1..(Limit + 1) : Decorate(i)
    \/ \E k \in 1..Len(Levels) : CountFacet(k) \/ FailFacet(k)
    \/ FollowLink \/ FinishReading
    \/ ~walk.over /\ ~page.failed /\ Others

Spec == Init /\ [][Next]_vars

---------------------------------------------------------------------------
(* Properties. *)

TypeOK ==
    /\ rows \in [Entries -> Row]
    /\ now \in 1..MaxTime
    /\ walk \in [sort : Sorts, over : BOOLEAN, shuffled : BOOLEAN,
                 filter : [month : {0} \cup Months, tag : BOOLEAN],
                 writes : 0..MaxWrites]
    /\ url \in [filter : [month : {0} \cup Months, tag : BOOLEAN],
                token : [key : Nat, id : Nat]]
    /\ seen \in Seq([key : Nat, id : Entries])
    /\ steady \subseteq Entries
    /\ page.waiting \in 0..(Len(Levels) + 1)
    /\ page.replies \in 0..2 /\ page.last \in 0..PageLimit

Times(e, s) == Cardinality({i \in DOMAIN s : s[i].id = e})

\* Following the "next" links to the end shows every entry that was in the
\* list all along, at its place, exactly once, whatever others created, edited
\* or removed meanwhile (the seek of _queryGen and _activityQueryGen), as long
\* as the articles of each page were emitted in the order of its rows, and
\* before the list ended.
EachShownOnce ==
    walk.over /\ ~walk.shuffled => \A e \in steady : Times(e, seen) = 1

\* The same, whatever the order in which decorated articles come out.  The
\* comment at lib/query.js:191 says: "Note: Sort order is important to make
\* the comparison work."
EveryEntryIsReached == walk.over => \A e \in steady : Times(e, seen) >= 1

\* Across pages the list is read in its order, each row at the place it had
\* when its page was made; edits in between never turn the reader back.
ReadInOrder ==
    ~walk.shuffled =>
        \A i, j \in DOMAIN seen : i < j => Precedes(walk.sort, seen[i], seen[j])

\* A page whose queries succeed is rendered once, when the counts of every
\* facet are in (mergeFacet) and every article is on it: those come one by one,
\* and a page with some of them missing has one whose decoration failed.
RenderedWhole ==
    ~page.failed =>
        /\ page.replies <= 1
        /\ page.replies = 1 =>
              /\ page.answered
              /\ page.counted = {Levels[k] : k \in 1..Len(Levels)}
              /\ \/ page.todo = {} /\ Len(page.emitted) = Len(page.rows)
                 \/ page.broken

\* When nobody writes while a list is read to its end, the counts of its month
\* facet, on whatever page, are the numbers of entries the reader was shown
\* (the count query has the list's filter and not its pagination).
CountsAddUp ==
    walk.over /\ walk.writes = 0 /\ ~walk.shuffled /\ "months" \in page.counted =>
        \A m \in Months :
            page.counts[m] = Cardinality({i \in DOMAIN seen :
                                             MonthOf(walk.sort, rows, seen[i].id) = m})

=============================================================================
