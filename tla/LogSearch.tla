------------------------------ MODULE LogSearch ------------------------------
(***************************************************************************)
(* The log search page (frontend/src/pages/LogsPage.tsx): a search opens a *)
(* point in time of the log store and shows its first page, "load more"    *)
(* continues behind the cursor with the values the form has THEN.  Filters *)
(* and tenant can be changed at any moment, lines keep arriving.           *)
(***************************************************************************)
EXTENDS Naturals, Sequences, FiniteSets, FiniteSetsExt

CONSTANTS
    MaxLines,     \* log lines, numbered in the order of their timestamps
    PageSize,     \* size: 100
    MaxChanges    \* changes of the form and of the tenant

Filters == {"all", "odd"}
ActiveTenants == {1, 2}

VARIABLES
    lines,        \* how many lines are stored
    form,         \* the filter on the form; "undated" when a date is cleared
    tenant,       \* the active tenant
    hits, cursor, total,     \* the page's state; cursor is a set of 0 or 1
    flight,       \* the request in flight, a set of 0 or 1
    asked,        \* the search the shown hits belong to
    mixed,        \* a later page was asked for with another form or tenant
    changes

vars == <<lines, form, tenant, hits, cursor, total, flight, asked, mixed, changes>>

\* The last line is the second tenant's, the others are the first's.
Matches(q, n) ==
    /\ q.tenant = IF n = MaxLines THEN 2 ELSE 1
    /\ q.form = "odd" => n % 2 = 1

\* The newest of a set of lines, as many as a page holds, and their order.
Newest(below) == {n \in below : Cardinality({m \in below : m > n}) < PageSize}

Descending(set) ==
    CHOOSE s \in [1..Cardinality(set) -> set] : \A i, j \in DOMAIN s : i < j => s[i] > s[j]

\* search_logs: the newest matching lines of the point in time pit (the
\* lines stored when it was opened) behind the position after.
Found(q, pit, after) ==
    LET top == Newest({n \in 1..pit : n < after /\ Matches(q, n)})
    IN  [hits |-> Descending(top),
         total |-> Cardinality({n \in 1..pit : Matches(q, n)}),
         cursor |-> IF Cardinality(top) = PageSize THEN {[pit |-> pit, after |-> Min(top)]} ELSE {}]

Query == [tenant |-> tenant, form |-> form]

Nowhere == [tenant |-> 0, form |-> "none"]

Init ==
    /\ lines \in {0, 1, MaxLines - 1, MaxLines}
    /\ form = "all" /\ tenant = 1
    /\ hits = <<>> /\ cursor = {} /\ total = 0
    /\ flight = {}
    /\ asked = Nowhere /\ mixed = FALSE
    /\ changes = 0

Log ==
    /\ lines < MaxLines
    /\ lines' = lines + 1
    /\ UNCHANGED <<form, tenant, hits, cursor, total, flight, asked, mixed, changes>>

SetForm(f) ==
    /\ f # form /\ changes < MaxChanges
    /\ form' = f /\ changes' = changes + 1
    /\ UNCHANGED <<lines, tenant, hits, cursor, total, flight, asked, mixed>>

SwitchTenant(t) ==
    /\ t # tenant /\ changes < MaxChanges
    /\ tenant' = t /\ changes' = changes + 1
    /\ UNCHANGED <<lines, form, hits, cursor, total, flight, asked, mixed>>

\* fetchPage: nothing without both dates, else one request.
fetchPage(c) ==
    flight' = IF form = "undated" THEN flight ELSE {[query |-> Query, cursor |-> c]}

\* The search button, disabled while a request is pending: what is shown is
\* cleared before the request is sent.
RunKeepsHits ==
    /\ flight = {}
    /\ asked' = Query /\ mixed' = FALSE
    /\ fetchPage({})
    /\ UNCHANGED <<lines, form, tenant, hits, cursor, total, changes>>

run ==
    /\ flight = {}
    /\ hits' = <<>> /\ cursor' = {} /\ total' = 0
    /\ asked' = Query /\ mixed' = FALSE
    /\ fetchPage({})
    /\ UNCHANGED <<lines, form, tenant, changes>>

\* The load-more button: shown with a cursor, disabled while pending.
loadMore ==
    /\ cursor # {} /\ flight = {}
    /\ fetchPage(cursor)
    /\ mixed' = (mixed \/ (form # "undated" /\ Query # asked))
    /\ UNCHANGED <<lines, form, tenant, hits, cursor, total, asked, changes>>

\* The answer replaces the hits of a first page and extends those of a later
\* one; a request without a cursor opens the point in time when it is served.
Answered ==
    \E r \in flight :
       LET at == IF r.cursor = {} THEN [pit |-> lines, after |-> MaxLines + 1]
                 ELSE CHOOSE c \in r.cursor : TRUE
           res == Found(r.query, at.pit, at.after)
       IN  /\ hits' = IF r.cursor = {} THEN res.hits ELSE hits \o res.hits
           /\ cursor' = res.cursor /\ total' = res.total
           /\ flight' = {}
           /\ UNCHANGED <<lines, form, tenant, asked, mixed, changes>>

\* The search is refused, or its point in time is no longer kept.
Refused ==
    /\ flight # {}
    /\ flight' = {}
    /\ UNCHANGED <<lines, form, tenant, hits, cursor, total, asked, mixed, changes>>

Next ==
    \/ Log
    \/ \E f \in Filters \union {"undated"} : SetForm(f)
    \/ \E t \in ActiveTenants : SwitchTenant(t)
    \/ run
    \/ loadMore
    \/ Answered
    \/ Refused

Spec == Init /\ [][Next]_vars

TypeOK ==
    /\ lines \in 0..MaxLines
    /\ form \in Filters \union {"undated"}
    /\ tenant \in ActiveTenants
    /\ hits \in Seq(1..MaxLines)
    /\ cursor \subseteq [pit : 0..MaxLines, after : 1..MaxLines]
    /\ total \in 0..MaxLines
    /\ flight \subseteq [query : [tenant : ActiveTenants, form : Filters],
                         cursor : SUBSET [pit : 0..MaxLines, after : 1..MaxLines]]
    /\ asked \in [tenant : ActiveTenants, form : Filters \union {"undated"}] \union {Nowhere}
    /\ mixed \in BOOLEAN
    /\ changes \in 0..MaxChanges

\* Unless "load more" was pressed with another form or tenant than the
\* search, the hits are lines of that search and of no other, newest first,
\* none twice, and none skipped between the first and the last; the count
\* under the form says how many there are, and without the button they are
\* all shown (LogsPage: run clears before it asks, fetchPage appends).
HitsAreTheSearch ==
    ~mixed =>
       /\ \A i \in DOMAIN hits : Matches(asked, hits[i])
       /\ \A i \in 1..(Len(hits) - 1) :
             /\ hits[i] > hits[i + 1]
             /\ \A n \in (hits[i + 1] + 1)..(hits[i] - 1) : ~Matches(asked, n)
       /\ cursor = {} => Len(hits) = total
       /\ Len(hits) <= total

\* The inductive invariant behind HitsAreTheSearch: the hits list the lines of
\* the search from one position of one point in time on, where the cursor is;
\* and a request in flight continues there.
Listing(s, set) ==
    /\ s \in Seq(Nat) /\ Len(s) = Cardinality(set)
    /\ \A i \in DOMAIN s : s[i] \in set
    /\ \A n \in set : \E i \in DOMAIN s : s[i] = n
    /\ \A i, j \in DOMAIN s : i < j => s[i] > s[j]
From(q, pit, after) == {n \in 1..pit : n >= after /\ Matches(q, n)}
Shows(pit, after) ==
    /\ Listing(hits, From(asked, pit, after))
    /\ total = Cardinality(From(asked, pit, 1))
    /\ IF cursor = {} THEN after = 1 ELSE cursor = {[pit |-> pit, after |-> after]}
SearchInv ==
    /\ lines \in 0..MaxLines
    /\ ~mixed =>
          /\ \E pit \in 0..MaxLines, after \in 1..MaxLines : Shows(pit, after)
          /\ \A r \in flight : r.query = asked /\ r.cursor = cursor

===============================================================================
