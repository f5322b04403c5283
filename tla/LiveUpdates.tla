---------------------------- MODULE LiveUpdates ----------------------------
(***************************************************************************)
(* Live updates in the browser: the events an export sends, the broadcast  *)
(* channel that overwrites its oldest event when a subscriber lags, the    *)
(* SSE stream of each page, the dashboard counter that is fetched again on *)
(* every event, and the trace inspector with its pause button.             *)
(*                                                                         *)
(* The counter is that of the peers; the one of HOPR sessions works alike. *)
(* The one of debug sessions has other writers, among them a cleanup that  *)
(* announces nothing, and is not the subject here.                         *)
(***************************************************************************)
EXTENDS Naturals, Sequences, SequencesExt, FiniteSets

CONSTANTS
    Peers,      \* peer ids
    Exports,    \* OTLP export requests under way at the same time
    Capacity,   \* of the broadcast channel, 1024 in the code
    Cooldown,   \* TRACE_SAMPLE_COOLDOWN, in units of the clock
    MaxRows,    \* maxRows of the inspector, 100 in the code
    MaxEvents,  \* bound on the events sent
    MaxTime     \* bound on the clock

ASSUME CapacityAssumption == Capacity \in Nat \ {0} /\ MaxRows \in Nat \ {0}
ASSUME BoundsAssumption == Cooldown \in Nat \ {0} /\ MaxEvents \in Nat /\ MaxTime \in Nat

VARIABLES
    known,      \* the collection behind the counter
    export,     \* what each export request is about to send
    sent,       \* events since the start; the channel keeps the last Capacity
    lastSample, \* last_trace_sample
    now,        \* the monotonic clock
    cursor,     \* next event of each page's subscription, 0 when disconnected
    shown,      \* the number on the dashboard
    fetch,      \* the request each event made the dashboard send
    missed,     \* history: an announcement came to nothing, and none came since
    overtaken,  \* history: the number shown came in after a later one
    paused, buffer, rows,  \* the inspector
    taken       \* history: the traces the inspector was handed

serverVars == <<known, export, sent, lastSample, now>>
dashboardVars == <<shown, fetch, missed, overtaken>>
inspectorVars == <<paused, buffer, rows, taken>>
vars == <<serverVars, cursor, dashboardVars, inspectorVars>>

-----------------------------------------------------------------------------
Pages == {"dashboard", "inspector"}
Idle == "idle"
NoSample == MaxTime + 1
Connected(page) == cursor[page] # 0

\* What a fetch is: not sent, asked, answered with a count, or over.
Unsent == [step |-> "unsent"]
Asked == [step |-> "asked"]
Answered(n) ==
    [step |-> "answered", count |-> n,
     order |-> 1 + Cardinality({i \in DOMAIN fetch : fetch[i].step \in {"answered", "over"}})]
Over(i) == [step |-> "over", order |-> i]

\* An event is of a kind that the dashboard or the inspector listens to.
Events == {"peer_seen", "trace_sampled"}

\* broadcast::Sender::send, which never waits.
Send(event) ==
    /\ Len(sent) < MaxEvents
    /\ sent' = Append(sent, event)

Init ==
    /\ known = {}
    /\ export = [e \in Exports |-> Idle]
    /\ sent = <<>>
    /\ lastSample = NoSample
    /\ now = 0
    /\ cursor = [page \in Pages |-> 0]
    /\ shown = 0
    /\ fetch = [i \in 1 .. MaxEvents |-> Unsent]
    /\ missed = FALSE
    /\ overtaken = FALSE
    /\ paused = FALSE
    /\ buffer = <<>>
    /\ rows = <<>>
    /\ taken = <<>>

-----------------------------------------------------------------------------
(* An export *)

\* record_seen, of a new or a known peer.
Record(e, p) ==
    /\ export[e] = Idle
    /\ known' = known \cup {p}
    /\ export' = [export EXCEPT ![e] = "peer_seen"]
    /\ UNCHANGED <<sent, lastSample, now, cursor, dashboardVars, inspectorVars>>

\* Mutant: the time of the sample is not kept.
SampleTrace_Forgets(e) ==
    /\ export[e] = Idle
    /\ lastSample = NoSample \/ now - lastSample >= Cooldown
    /\ export' = [export EXCEPT ![e] = "trace_sampled"]
    /\ UNCHANGED <<known, sent, lastSample, now, cursor, dashboardVars, inspectorVars>>
\* should_sample_trace: one check and update under the mutex.
SampleTrace(e) ==
    /\ export[e] = Idle
    /\ lastSample = NoSample \/ now - lastSample >= Cooldown
    /\ lastSample' = now
    /\ export' = [export EXCEPT ![e] = "trace_sampled"]
    /\ UNCHANGED <<known, sent, now, cursor, dashboardVars, inspectorVars>>

\* The event goes to whoever is subscribed when it is sent.
SendEvent(e) ==
    /\ export[e] # Idle
    /\ Send(export[e])
    /\ export' = [export EXCEPT ![e] = Idle]
    /\ missed' = (missed \/ (export[e] = "peer_seen" /\ ~Connected("dashboard")))
    /\ UNCHANGED <<known, lastSample, now, cursor, shown, fetch, overtaken, inspectorVars>>

TimePasses ==
    /\ now < MaxTime
    /\ now' = now + 1
    /\ UNCHANGED <<known, export, sent, lastSample, cursor, dashboardVars, inspectorVars>>

-----------------------------------------------------------------------------
(* SSE streams *)

\* A new subscription starts after the last event sent.
Connect(page) ==
    /\ ~Connected(page)
    /\ cursor' = [cursor EXCEPT ![page] = Len(sent) + 1]
    /\ UNCHANGED <<serverVars, dashboardVars, inspectorVars>>

\* The stream breaks; the browser connects again by itself.
Disconnect(page) ==
    /\ Connected(page)
    /\ cursor' = [cursor EXCEPT ![page] = 0]
    /\ missed' = (missed \/ (page = "dashboard" /\
                    \E i \in cursor[page] .. Len(sent) : sent[i] = "peer_seen"))
    /\ UNCHANGED <<serverVars, shown, fetch, overtaken, inspectorVars>>

\* Events the channel still holds start here.
Oldest == IF Len(sent) > Capacity THEN Len(sent) - Capacity + 1 ELSE 1

\* RecvError::Lagged: the receiver skips to the oldest event, and the stream
\* yields nothing for the ones it skipped.
Lag(page) ==
    /\ Connected(page)
    /\ cursor[page] < Oldest
    /\ cursor' = [cursor EXCEPT ![page] = Oldest]
    /\ missed' = (missed \/ (page = "dashboard" /\
                    \E i \in cursor[page] .. Oldest - 1 : sent[i] = "peer_seen"))
    /\ UNCHANGED <<serverVars, shown, fetch, overtaken, inspectorVars>>

\* The page's stream yields this event next.
Yields(page, event) ==
    /\ Connected(page)
    /\ cursor[page] \in Oldest .. Len(sent)
    /\ sent[cursor[page]] = event
    /\ cursor' = [cursor EXCEPT ![page] = @ + 1]

\* An event the page has no listener for.
Ignore ==
    /\ \/ Yields("dashboard", "trace_sampled")
       \/ Yields("inspector", "peer_seen")
    /\ UNCHANGED <<serverVars, dashboardVars, inspectorVars>>

-----------------------------------------------------------------------------
(* The dashboard *)

\* The page is rendered with the count; its script subscribes later (Connect).
\* Answers to the old page's requests go nowhere.
Load ==
    /\ cursor' = [cursor EXCEPT !["dashboard"] = 0]
    /\ shown' = Cardinality(known)
    /\ fetch' = [i \in DOMAIN fetch |-> IF fetch[i] = Unsent THEN Unsent ELSE Over(0)]
    /\ missed' = FALSE
    /\ overtaken' = FALSE
    /\ UNCHANGED <<serverVars, inspectorVars>>

\* Mutant: no second request while one is under way.
Notice_Debounced ==
    /\ Yields("dashboard", "peer_seen")
    /\ fetch' = IF \E i \in DOMAIN fetch : fetch[i].step \in {"asked", "answered"} THEN fetch
                ELSE [fetch EXCEPT ![cursor["dashboard"]] = Asked]
    /\ missed' = FALSE
    /\ UNCHANGED <<serverVars, shown, overtaken, inspectorVars>>
\* updateCounter sends its request, whose answer will count all that was missed.
Notice ==
    /\ Yields("dashboard", "peer_seen")
    /\ fetch' = [fetch EXCEPT ![cursor["dashboard"]] = Asked]
    /\ missed' = FALSE
    /\ UNCHANGED <<serverVars, shown, overtaken, inspectorVars>>

\* The handler of the list request reads the registry.
Answer(i) ==
    /\ fetch[i].step = "asked"
    /\ fetch' = [fetch EXCEPT ![i] = Answered(Cardinality(known))]
    /\ UNCHANGED <<serverVars, cursor, shown, missed, overtaken, inspectorVars>>

\* Mutant: the counter is incremented.
Display_Increments(i) ==
    /\ fetch[i].step = "answered"
    /\ shown' = shown + 1
    /\ overtaken' = \E j \in DOMAIN fetch :
                       fetch[j].step = "over" /\ fetch[j].order > fetch[i].order
    /\ fetch' = [fetch EXCEPT ![i] = Over(@.order)]
    /\ UNCHANGED <<serverVars, cursor, missed, inspectorVars>>
\* Answers are shown as they come, in whatever order.
Display(i) ==
    /\ fetch[i].step = "answered"
    /\ shown' = fetch[i].count
    /\ overtaken' = \E j \in DOMAIN fetch :
                       fetch[j].step = "over" /\ fetch[j].order > fetch[i].order
    /\ fetch' = [fetch EXCEPT ![i] = Over(@.order)]
    /\ UNCHANGED <<serverVars, cursor, missed, inspectorVars>>

\* A failed request is ignored; another one may still be answered.
Fail(i) ==
    /\ fetch[i].step \in {"asked", "answered"}
    /\ fetch' = [fetch EXCEPT ![i] = Over(0)]
    /\ missed' = (missed \/ \A j \in DOMAIN fetch \ {i} : fetch[j] # Asked)
    /\ UNCHANGED <<serverVars, cursor, shown, overtaken, inspectorVars>>

-----------------------------------------------------------------------------
(* The trace inspector; a trace is the position of its event *)

\* Mutant: the newest row is the one removed.
Render_TrimsNewest(table, trace) ==
    IF Len(table) < MaxRows THEN <<trace>> \o table ELSE table
\* renderTrace: in front of the others, and no more than maxRows of them.
Render(table, trace) ==
    SubSeq(<<trace>> \o table, 1, IF Len(table) < MaxRows THEN Len(table) + 1 ELSE MaxRows)

ReceiveTrace ==
    /\ Yields("inspector", "trace_sampled")
    /\ LET trace == cursor["inspector"]
       IN  /\ taken' = Append(taken, trace)
           /\ IF paused
                THEN /\ buffer' = Append(buffer, trace)
                     /\ UNCHANGED rows
                ELSE /\ rows' = Render(rows, trace)
                     /\ UNCHANGED buffer
    /\ UNCHANGED <<serverVars, dashboardVars, paused>>

Pause ==
    /\ ~paused
    /\ paused' = TRUE
    /\ UNCHANGED <<serverVars, cursor, dashboardVars, buffer, rows, taken>>

\* renderTrace of one trace after the other.
RenderAll(table, traces) ==
    LET after[n \in 0 .. Len(traces)] ==
            IF n = 0 THEN table ELSE Render(after[n - 1], traces[n])
    IN  after[Len(traces)]

\* The traces that came meanwhile are rendered in the order they came.
Resume ==
    /\ paused
    /\ paused' = FALSE
    /\ rows' = RenderAll(rows, buffer)
    /\ buffer' = <<>>
    /\ UNCHANGED <<serverVars, cursor, dashboardVars, taken>>

-----------------------------------------------------------------------------
Next ==
    \/ \E e \in Exports :
          \/ \E p \in Peers : Record(e, p)
          \/ SampleTrace(e)
          \/ SendEvent(e)
    \/ TimePasses
    \/ \E page \in Pages : Connect(page) \/ Disconnect(page) \/ Lag(page)
    \/ Ignore
    \/ Load
    \/ Notice
    \/ \E i \in DOMAIN fetch : Answer(i) \/ Display(i) \/ Fail(i)
    \/ ReceiveTrace
    \/ Pause
    \/ Resume

Spec == Init /\ [][Next]_vars

-----------------------------------------------------------------------------
(* What must hold *)

Fetches ==
    {Unsent, Asked} \cup [step : {"answered"}, count : 0 .. Cardinality(known), order : Nat]
                    \cup [step : {"over"}, order : Nat]

\* Every variable keeps its type; no count is more than what is known.
TypeOK ==
    /\ known \subseteq Peers /\ IsFiniteSet(known)
    /\ export \in [Exports -> {Idle} \cup Events]
    /\ sent \in Seq(Events)
    /\ lastSample \in 0 .. NoSample
    /\ now \in 0 .. MaxTime
    /\ cursor \in [Pages -> 0 .. MaxEvents + 1]
    /\ shown \in 0 .. Cardinality(known)
    /\ fetch \in [1 .. MaxEvents -> Fetches]
    /\ missed \in BOOLEAN /\ overtaken \in BOOLEAN /\ paused \in BOOLEAN
    /\ buffer \in Seq(1 .. MaxEvents) /\ rows \in Seq(1 .. MaxEvents) /\ taken \in Seq(1 .. MaxEvents)

\* Nothing that could still change the number is on its way to the page.
AtRest ==
    /\ Connected("dashboard") /\ cursor["dashboard"] = Len(sent) + 1
    /\ \A i \in DOMAIN fetch : fetch[i].step \in {"unsent", "over"}
    /\ \A e \in Exports : export[e] # "peer_seen"

\* Once things are quiet the number is right: the next event makes up for what a
\* late subscription, a broken stream, lag, failed requests and overtaken answers
\* have spoiled.  Wrong it stays only if no event comes after the announcement that
\* came to nothing, or if the last answer to come in is not the last one given.
CounterIsCurrentAtRest ==
    AtRest /\ ~missed /\ ~overtaken => shown = Cardinality(known)

\* One sampled trace per cooldown, however many exports ask at once.
TracesAreRare ==
    LET samples == Cardinality({i \in DOMAIN sent : sent[i] = "trace_sampled"})
                   + Cardinality({e \in Exports : export[e] = "trace_sampled"})
    IN  samples * Cooldown <= now + Cooldown

\* The table shows the latest of the traces handed to it before the pause, the
\* newest first; those that came during the pause are kept, none twice.
InspectorShowsLatest ==
    LET old == Len(taken) - Len(buffer)
    IN  /\ buffer = SubSeq(taken, old + 1, Len(taken))
        /\ buffer # <<>> => paused
        /\ Len(rows) = IF old < MaxRows THEN old ELSE MaxRows
        /\ \A i \in DOMAIN rows : rows[i] = taken[old + 1 - i]
=============================================================================
