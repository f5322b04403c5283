---------------------------- MODULE SessionViews ----------------------------
(***************************************************************************)
(* Reading debug sessions: the pages and API calls that list them, show    *)
(* one with its peers, and show its telemetry page by page.                *)
(*                                                                         *)
(* Nothing is read in a transaction.  A request issues its SELECTs one by  *)
(* one, each on whatever the database holds by then, while the capture     *)
(* (CaptureStore) creates, fills, ends and purges sessions.                *)
(***************************************************************************)
EXTENDS CaptureStore

CONSTANTS
    Readers,    \* requests, or the series of requests of one client
    Limit,      \* PaginationParams.limit, 50 in the code
    MaxPages    \* bound on the pages one client asks for

ASSUME LimitAssumption == Limit \in Nat \ {0} /\ MaxPages \in Nat

VARIABLE
    view        \* what each reader has seen and will ask next

vars == <<store, view>>

-----------------------------------------------------------------------------
\* The order in which the detail page queries the telemetry tables.
Kinds == <<"span", "metric", "log">>

\* What is asked: the list, one session, its detail page, or pages of rows.
Questions == {"list", "session", "detail", "pages"}

Unasked == [step |-> "unasked"]
NotFound == [step |-> "notFound"]
Failed == [step |-> "failed"]
\* left: sessions whose peers are still to be read; shown: peers by session;
\* queries: telemetry still to be queried; results: what the queries returned.
Asking(what, left, queries) ==
    [step |-> "asking", what |-> what, left |-> left, shown |-> <<>>,
     queries |-> queries, total |-> 0, results |-> <<>>]

Query(s, kind, offset) == [session |-> s, kind |-> kind, offset |-> offset]
Result(query, total, items) == [query |-> query, total |-> total, items |-> items]

\* Mutant: the WHERE clause is missing.
RowsOf_AnySession(s, kind) == Only(rows, {r \in Records : r.kind = kind})
\* WHERE debug_session_id = ?
RowsOf(s, kind) == Only(rows, {r \in Records : r.session = s /\ r.kind = kind})

\* At most Limit of a sequence from an offset on.
Cut(seq, offset) ==
    SubSeq(seq, offset + 1, IF Len(seq) < offset + Limit THEN Len(seq) ELSE offset + Limit)

\* Mutant: one row more than the limit.
PageOf_OneMore(query) ==
    LET newest == Reverse(RowsOf(query.session, query.kind))
    IN  IF Len(newest) > query.offset + Limit
        THEN SubSeq(newest, query.offset + 1, query.offset + Limit + 1)
        ELSE Cut(newest, query.offset)
\* Mutant: the oldest first.
PageOf_Ascending(query) == Cut(RowsOf(query.session, query.kind), query.offset)
\* Mutant: an offset that counts from one.
PageOf_FromOne(query) ==
    Cut(Reverse(RowsOf(query.session, query.kind)),
        IF query.offset = 0 THEN 0 ELSE query.offset + 1)
\* ORDER BY the time, DESC, LIMIT, OFFSET.  A row's time is read when it is
\* inserted, by the one flush task.
PageOf(query) == Cut(Reverse(RowsOf(query.session, query.kind)), query.offset)

InitViews == Init /\ view = [r \in Readers |-> Unasked]

-----------------------------------------------------------------------------
(* list_debug_sessions, get_debug_session *)

\* SELECT of every session.
SelectAll(r) ==
    /\ view[r] = Unasked
    /\ view' = [view EXCEPT ![r] = Asking("list", {s \in Sessions : Exists(s)}, <<>>)]
    /\ UNCHANGED store

\* SELECT of one session, for the API or for the detail page, which goes on to
\* the first page of each kind of telemetry.
SelectOne(r, s, what) ==
    /\ view[r] = Unasked
    /\ view' = [view EXCEPT ![r] =
           IF ~Exists(s) THEN NotFound
           ELSE Asking(what, {s}, IF what = "session" THEN <<>>
                                  ELSE [i \in DOMAIN Kinds |-> Query(s, Kinds[i], 0)])]
    /\ UNCHANGED store

\* The answer with the peers of one more session.
WithPeers(shown, s, P) == [t \in DOMAIN shown \cup {s} |-> IF t = s THEN P ELSE shown[t]]

\* Mutant: every session's peers are selected.
SelectPeers_All(r) ==
    /\ view[r].step = "asking"
    /\ \E s \in view[r].left :
          view' = [view EXCEPT ![r].left = @ \ {s},
                     ![r].shown = WithPeers(@, s, UNION {claims[t] : t \in Sessions})]
    /\ UNCHANGED store
\* SELECT of the peers of the next session.  (The list goes through them newest
\* first.)
SelectPeers(r) ==
    /\ view[r].step = "asking"
    /\ \E s \in view[r].left :
          view' = [view EXCEPT ![r].left = @ \ {s},
                               ![r].shown = WithPeers(@, s, claims[s])]
    /\ UNCHANGED store

\* The database fails a statement on sessions or peers: the request fails.  (The
\* pages show an empty list instead.)
SelectFails(r) ==
    /\ view[r].step = "asking"
    /\ view[r].left # {}
    /\ view' = [view EXCEPT ![r] = Failed]
    /\ UNCHANGED store

-----------------------------------------------------------------------------
(* query_spans, query_metrics, query_logs *)

\* The API's query of one kind of rows; no session row is read for it.
AskPage(r, s, kind) ==
    /\ view[r] = Unasked
    /\ view' = [view EXCEPT ![r] = Asking("pages", {}, <<Query(s, kind, 0)>>)]
    /\ UNCHANGED store

\* SELECT COUNT(*).
Count(r) ==
    /\ view[r].step = "asking"
    /\ view[r].left = {}
    /\ view[r].queries # <<>>
    /\ LET query == Head(view[r].queries)
       IN  view' = [view EXCEPT ![r].step = "counted",
                                ![r].total = Len(RowsOf(query.session, query.kind))]
    /\ UNCHANGED store

\* The query of reader r returned.
Return(r, total, items) ==
    view' = [view EXCEPT ![r].step = "asking", ![r].total = 0, ![r].queries = Tail(@),
                         ![r].results = Append(@, Result(Head(view[r].queries), total, items))]

\* SELECT of the rows.
SelectPage(r) ==
    /\ view[r].step = "counted"
    /\ Return(r, view[r].total, PageOf(Head(view[r].queries)))
    /\ UNCHANGED store

\* Either statement fails: the API fails, the detail page shows no rows of the
\* kind and a count of zero.
QueryFails(r) ==
    /\ \/ view[r].step = "counted"
       \/ view[r].step = "asking" /\ view[r].left = {} /\ view[r].queries # <<>>
    /\ IF view[r].what = "detail" THEN Return(r, 0, <<>>)
       ELSE view' = [view EXCEPT ![r] = Failed]
    /\ UNCHANGED store

\* The client asks for the page after the one it got.
AskNextPage(r) ==
    /\ view[r].step = "asking" /\ view[r].what = "pages"
    /\ view[r].queries = <<>>
    /\ Len(view[r].results) < MaxPages
    /\ LET query == Last(view[r].results).query
       IN  view' = [view EXCEPT ![r].queries = <<[query EXCEPT !.offset = @ + Limit]>>]
    /\ UNCHANGED store

\* The answer is read, or the client goes away before it is complete.
Leave(r) ==
    /\ view[r] # Unasked
    /\ view' = [view EXCEPT ![r] = Unasked]
    /\ UNCHANGED store

-----------------------------------------------------------------------------
Reading(r) ==
    \/ SelectAll(r)
    \/ \E s \in Sessions, what \in {"session", "detail"} : SelectOne(r, s, what)
    \/ SelectPeers(r)
    \/ SelectFails(r)
    \/ \E s \in Sessions, kind \in Range(Kinds) : AskPage(r, s, kind)
    \/ Count(r)
    \/ SelectPage(r)
    \/ QueryFails(r)
    \/ AskNextPage(r)
    \/ Leave(r)

Capturing == NextStore /\ UNCHANGED view

NextViews == Capturing \/ \E r \in Readers : Reading(r)

SpecViews == InitViews /\ [][NextViews]_vars

-----------------------------------------------------------------------------
(* What must hold *)

Answering(r) == view[r].step \in {"asking", "counted"}

Queries == [session : Sessions, kind : Range(Kinds), offset : Nat]
Pages == {items \in Seq(Records) : Len(items) <= Limit}

\* Every variable keeps its type; no page is longer than the limit.
TypeOK ==
    /\ status \in [Sessions -> {"absent", "active", "completed", "deleted"}]
    /\ claims \in [Sessions -> SUBSET Peers]
    /\ rows \in Seq(Records)
    /\ DOMAIN view = Readers
    /\ \A r \in Readers :
          \/ view[r] \in {Unasked, NotFound, Failed}
          \/ view[r] \in [step : {"asking", "counted"}, what : Questions,
                          left : SUBSET Sessions,
                          shown : UNION {[S -> SUBSET Peers] : S \in SUBSET Sessions},
                          queries : Seq(Queries), total : Nat,
                          results : Seq([query : Queries, total : Nat, items : Pages])]

\* Session and peers are two reads, and a list is one read per session; still a
\* session is shown with the peers it claims, or it is already purged.
ShownWithItsPeers ==
    \A r \in Readers : Answering(r) =>
        \A s \in DOMAIN view[r].shown :
            view[r].shown[s] = claims[s] \/ status[s] = "deleted"

\* The detail page never shows a row of a peer that it does not list, though the
\* session may be purged between any two of its eight statements.
RowsComeFromShownPeers ==
    \A r \in Readers : Answering(r) /\ view[r].what = "detail" =>
        \A res \in Range(view[r].results) : \A row \in Range(res.items) :
            row.session = res.query.session /\ row.peer \in view[r].shown[row.session]

\* Total and page are two reads, with flushes between them: the page is that of
\* one moment, and the total is of a moment no later, so that it never promises
\* rows that are not there - until the session is purged.
PageIsOfOneMoment ==
    \A r \in Readers : Answering(r) =>
        \A res \in Range(view[r].results) :
            LET all == RowsOf(res.query.session, res.query.kind)
            IN  \/ status[res.query.session] = "deleted"
                \/ \E n \in res.total .. Len(all) :
                      res.items = Cut(Reverse(SubSeq(all, 1, n)), res.query.offset)

\* A client that asks for page after page while rows are added may see a row
\* again, but it misses none between a row of its first page and one that it sees
\* later - until the session is purged.
NoRowSkipped ==
    \A r \in Readers : Answering(r) /\ view[r].what = "pages" =>
        LET results == view[r].results
            seen == UNION {Range(res.items) : res \in Range(results)}
            query == Head(results).query
            all == RowsOf(query.session, query.kind)
        IN  \/ results = <<>>
            \/ status[query.session] = "deleted"
            \/ \A i, j, k \in DOMAIN all :
                  /\ i < j /\ j < k
                  /\ all[i] \in seen /\ all[k] \in Range(Head(results).items)
                  => all[j] \in seen
=============================================================================
