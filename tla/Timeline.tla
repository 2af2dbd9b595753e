------------------------------- MODULE Timeline -------------------------------
(***************************************************************************)
(* The "load more" lists of a device's events (useReliabilityEvents and    *)
(* useConfigAuditEvents with the tabs that show them): pages fetched by a  *)
(* keyset cursor, newest first, while events keep being ingested, some of  *)
(* them late.  A return to the browser tab fetches every page again, one   *)
(* after the other; the button cancels that.                               *)
(***************************************************************************)
EXTENDS Naturals, Sequences, FiniteSets, FiniteSetsExt

CONSTANTS
    MaxTime,      \* events are their place in the keyset order, 1..MaxTime
    PageSize      \* limit: PAGE_SIZE

VARIABLES
    events,       \* the rows of the events table
    pages,        \* data.pages: [items, next], next = 0 without a cursor
    base,         \* the events there were when the first page shown was read
    job,          \* the fetch in flight: "none", "next" or "all"
    got           \* the pages and the base the refetch has so far

vars == <<events, pages, base, job, got>>

\* The first cursor is above every event.
Top == MaxTime + 1

\* list_page: the newest events below the cursor; the page that is not full
\* is the last.
Newest(below) == {e \in below : Cardinality({f \in below : f > e}) < PageSize}

Page(cursor) ==
    LET items == Newest({e \in events : e < cursor})
    IN  [items |-> items, next |-> IF Cardinality(items) = PageSize THEN Min(items) ELSE 0]

Rows(ps) == UNION {ps[i].items : i \in DOMAIN ps}

Last(ps) == ps[Len(ps)]

\* getNextPageParam and the request with its answer: the page after ps.
FollowingByOffset(ps) ==
    LET skip == Cardinality(Rows(ps))
        items == {e \in events : Cardinality({f \in events : f > e}) \in skip .. (skip + PageSize - 1)}
    IN  [items |-> items, next |-> IF Cardinality(items) = PageSize THEN Min(items) ELSE 0]

Following(ps) == Page(IF ps = <<>> THEN Top ELSE Last(ps).next)

hasNextPage == pages # <<>> /\ Last(pages).next # 0

Nothing == [pages |-> <<>>, base |-> {}]

\* The tab is opened: the first page is being fetched.
Init ==
    /\ events \in SUBSET (1..MaxTime)
    /\ pages = <<>> /\ base = {}
    /\ job = "all" /\ got = Nothing

\* An event is stored, perhaps older than events already shown.
Ingest(e) ==
    /\ e \notin events
    /\ events' = events \union {e}
    /\ UNCHANGED <<pages, base, job, got>>

\* One request of the refetch is answered.  It stops at a page without a
\* cursor or after as many pages as there were, and replaces them at once.
PageAnswered ==
    /\ job = "all"
    /\ LET now == [pages |-> Append(got.pages, Following(got.pages)),
                   base |-> IF got.pages = <<>> THEN events ELSE got.base]
       IN  IF Last(now.pages).next = 0 \/ Len(now.pages) >= Len(pages)
           THEN /\ pages' = now.pages /\ base' = now.base
                /\ job' = "none" /\ got' = Nothing
           ELSE got' = now /\ UNCHANGED <<pages, base, job>>
    /\ UNCHANGED events

\* The button: fetchNextPage, which cancels a refetch.
FetchNext ==
    /\ hasNextPage
    /\ job # "next"
    /\ job' = "next" /\ got' = Nothing
    /\ UNCHANGED <<events, pages, base>>

NextAnswered ==
    /\ job = "next"
    /\ pages' = Append(pages, Following(pages))
    /\ job' = "none"
    /\ UNCHANGED <<events, base, got>>

\* A request fails for the last time: what is shown stays.
FetchFailed ==
    /\ job # "none"
    /\ job' = "none" /\ got' = Nothing
    /\ UNCHANGED <<events, pages, base>>

\* The browser tab is visible again; a fetch in flight is shared.
Focus ==
    /\ job = "none"
    /\ job' = "all"
    /\ UNCHANGED <<events, pages, base, got>>

Next ==
    \/ \E e \in 1..MaxTime : Ingest(e)
    \/ PageAnswered
    \/ FetchNext
    \/ NextAnswered
    \/ FetchFailed
    \/ Focus

Spec == Init /\ [][Next]_vars

TypeOK ==
    /\ events \subseteq 1..MaxTime
    /\ pages \in Seq([items : SUBSET (1..MaxTime), next : 0..MaxTime])
    /\ base \subseteq events
    /\ job \in {"none", "next", "all"}
    /\ got.base \subseteq events

\* Whatever was ingested, refetched, cancelled or failed meanwhile: no event
\* is listed twice, the pages are in order, and no event that was stored when
\* the first page was read is missing above the last row shown, nor at all
\* once the button is gone (ReliabilityTab and ConfigAuditTab: "Append-only
\* keyset list").
NoEventSkipped ==
    /\ \A i, j \in DOMAIN pages : i < j =>
           \A e \in pages[i].items, f \in pages[j].items : e > f
    /\ \A e \in base : e \notin Rows(pages) =>
           hasNextPage /\ \A f \in Rows(pages) : e < f

\* The inductive invariant behind NoEventSkipped.  A run of pages is unbroken:
\* every event of its base that it does not list is older than its cursor, and
\* the cursor is no newer than what it lists.
Unbroken(ps, b) ==
    /\ ps \in Seq([items : SUBSET (1..MaxTime), next : 0..MaxTime])
    /\ b \subseteq events
    /\ \A i, j \in DOMAIN ps : i < j =>
           \A e \in ps[i].items, f \in ps[j].items : e > f
    /\ ps # <<>> /\ Last(ps).next # 0 => \A f \in Rows(ps) : Last(ps).next <= f
    /\ \A e \in b : e \notin Rows(ps) => ps # <<>> /\ e < Last(ps).next
PagesInv ==
    /\ events \subseteq 1..MaxTime
    /\ Unbroken(pages, base) /\ Unbroken(got.pages, got.base)
    /\ job = "next" => hasNextPage
    /\ got.pages # <<>> => Last(got.pages).next # 0

===============================================================================
