------------------------- MODULE LiveUpdatesProofs -------------------------
(***************************************************************************)
(* Proofs about the live updates, for any peers, exports, cooldown, table  *)
(* and channel sizes, and any order of events, requests and answers.       *)
(***************************************************************************)
EXTENDS LiveUpdates, FiniteSetTheorems, SequenceTheorems, TLAPS

-----------------------------------------------------------------------------
(* Induction *)

\* A set of numbers that has 0 and with every number the next one has them all.
\* Otherwise the numbers of the set up to one that is missing could be paired with
\* those numbers but 0, which are fewer.
LEMMA AllNumbers ==
    ASSUME NEW T, 0 \in T, \A n \in Nat : n \in T => n + 1 \in T
    PROVE  Nat \subseteq T
<1> SUFFICES ASSUME NEW m \in Nat, m \notin T PROVE FALSE
  OBVIOUS
<1> DEFINE S == {n \in 0 .. m : n \in T}
           g == [n \in S |-> n + 1]
<1>1. IsFiniteSet(S)
  <2>1. IsFiniteSet(0 .. m)
    BY FS_Interval
  <2> QED
    BY <2>1, FS_Subset
<1>2. 0 \in S
  OBVIOUS
<1>3. IsFiniteSet(S \ {0}) /\ Cardinality(S \ {0}) = Cardinality(S) - 1
  BY <1>1, <1>2, FS_RemoveElement
<1>4. Cardinality(S) \in Nat
  BY <1>1, FS_CardinalityType
<1>5. g \in Injection(S, S \ {0})
  <2>1. \A n \in S : n \in Nat /\ n # m /\ n + 1 \in S /\ n + 1 # 0
    OBVIOUS
  <2>2. g \in [S -> S \ {0}]
    BY <2>1
  <2>3. ASSUME NEW a \in S, NEW b \in S, g[a] = g[b] PROVE a = b
    BY <2>1, <2>3
  <2> QED
    BY <2>2, <2>3 DEF Injection, IsInjective
<1>6. Cardinality(S) <= Cardinality(S \ {0})
  <2> HIDE DEF S, g
  <2> QED
    BY <1>3, <1>5, FS_Injection
<1> QED
  <2> HIDE DEF S
  <2> QED
    BY <1>3, <1>4, <1>6

-----------------------------------------------------------------------------
(* The inspector's table *)

\* A table shows the latest elements of a sequence, the newest first.
Shows(table, seq) ==
    /\ Len(table) = IF Len(seq) < MaxRows THEN Len(seq) ELSE MaxRows
    /\ \A i \in DOMAIN table : table[i] = seq[Len(seq) + 1 - i]

\* There is one such table.
LEMMA ShownOnce ==
    ASSUME NEW R, NEW seq \in Seq(R), NEW t \in Seq(R), NEW u \in Seq(R),
           Shows(t, seq), Shows(u, seq)
    PROVE  t = u
<1>1. Len(t) = Len(u) /\ DOMAIN t = 1 .. Len(t) /\ DOMAIN u = 1 .. Len(u)
  BY LenProperties DEF Shows
<1>2. \A i \in 1 .. Len(t) : t[i] = u[i]
  BY <1>1 DEF Shows
<1> QED
  BY <1>1, <1>2, SeqEqual

\* Rendering one more element makes the table that shows it too.
LEMMA RenderShows ==
    ASSUME NEW R, NEW seq \in Seq(R), NEW table \in Seq(R), Shows(table, seq), NEW x \in R
    PROVE  Render(table, x) \in Seq(R) /\ Shows(Render(table, x), Append(seq, x))
<1> DEFINE m == Len(table)
           n == Len(seq)
           u == <<x>> \o table
           k == IF m < MaxRows THEN m + 1 ELSE MaxRows
           s == Append(seq, x)
<1>1. /\ m \in Nat /\ n \in Nat /\ DOMAIN table = 1 .. m
      /\ m = IF n < MaxRows THEN n ELSE MaxRows
      /\ \A i \in 1 .. m : table[i] = seq[n + 1 - i]
  BY LenProperties DEF Shows
<1>2. /\ <<x>> \in Seq(R) /\ Len(<<x>>) = 1 /\ <<x>>[1] = x
  OBVIOUS
<1>3. /\ u \in Seq(R) /\ Len(u) = m + 1
      /\ u[1] = x
      /\ \A i \in 1 .. m : u[i + 1] = table[i]
  <2>1. u \in Seq(R) /\ Len(u) = 1 + m
        /\ \A i \in 1 .. 1 + m : u[i] = IF i <= 1 THEN <<x>>[i] ELSE table[i - 1]
    BY <1>2, ConcatProperties
  <2> HIDE DEF u, m, n, k, s
  <2>2. 1 \in 1 .. 1 + m /\ Len(u) = m + 1
    BY <1>1, <2>1
  <2>3. u[1] = x
    BY <1>2, <2>1, <2>2
  <2>4. ASSUME NEW i \in 1 .. m PROVE u[i + 1] = table[i]
    <3>1. i + 1 \in 1 .. 1 + m /\ ~(i + 1 <= 1) /\ (i + 1) - 1 = i
      BY <1>1
    <3> QED
      BY <2>1, <3>1
  <2> QED
    BY <2>1, <2>2, <2>3, <2>4
<1>4. s \in Seq(R) /\ Len(s) = n + 1 /\ s[n + 1] = x /\ \A i \in 1 .. n : s[i] = seq[i]
  BY AppendProperties
<1>5. k \in Nat /\ 1 <= k /\ k <= m + 1 /\ k = IF n + 1 < MaxRows THEN n + 1 ELSE MaxRows
  BY <1>1, CapacityAssumption
<1>6. Render(table, x) = SubSeq(u, 1, k)
  BY DEF Render
<1> HIDE DEF u, k, s, m, n
<1>7. /\ Render(table, x) \in Seq(R) /\ Len(Render(table, x)) = k
      /\ \A i \in 1 .. k : Render(table, x)[i] = u[i]
  <2>1. \A i \in 1 .. k : u[i] \in R
    BY <1>1, <1>3, <1>5, ElementOfSeq
  <2> QED
    BY <1>1, <1>3, <1>5, <1>6, <2>1, SubSeqProperties
<1>8. ASSUME NEW i \in 1 .. k PROVE u[i] = s[n + 2 - i]
  <2>1. CASE i = 1
    BY <1>1, <1>3, <1>4, <2>1
  <2>2. CASE i # 1
    <3>0. i \in Nat /\ 2 <= i /\ i <= m + 1 /\ m \in Nat /\ n \in Nat /\ m <= n
      BY <1>1, <1>5, <2>2
    <3>1. i - 1 \in 1 .. m /\ (i - 1) + 1 = i /\ n + 1 - (i - 1) = n + 2 - i
      BY <3>0
    <3>2. n + 2 - i \in 1 .. n
      BY <3>0
    <3> QED
      BY <1>1, <1>3, <1>4, <3>1, <3>2
  <2> QED
    BY <2>1, <2>2
<1>9. DOMAIN Render(table, x) = 1 .. k
  BY <1>7, LenProperties
<1> QED
  <2>1. \A i \in 1 .. k : Render(table, x)[i] = s[n + 2 - i] /\ (n + 1) + 1 - i = n + 2 - i
    BY <1>1, <1>5, <1>7, <1>8
  <2> QED
    BY <1>4, <1>5, <1>7, <1>9, <2>1 DEF Shows, s

\* Rendering one element after the other makes the table that shows them all.
LEMMA RenderAllShows ==
    ASSUME NEW R, NEW seq \in Seq(R), NEW table \in Seq(R), Shows(table, seq),
           NEW traces \in Seq(R)
    PROVE  /\ RenderAll(table, traces) \in Seq(R)
           /\ Shows(RenderAll(table, traces), seq \o traces)
<1> DEFINE n == Len(seq)
           l == Len(traces)
           all == seq \o traces
           First(i) == SubSeq(all, 1, n + i)
           Rows(i) == IF n + i < MaxRows THEN n + i ELSE MaxRows
           Table(i) == [j \in 1 .. Rows(i) |-> all[n + i + 1 - j]]
           g == [i \in 0 .. l |-> Table(i)]
           Solves(f) == f = [i \in 0 .. l |-> IF i = 0 THEN table
                                              ELSE Render(f[i - 1], traces[i])]
<1>1. /\ n \in Nat /\ l \in Nat /\ DOMAIN traces = 1 .. l
      /\ all \in Seq(R) /\ Len(all) = n + l
      /\ \A i \in 1 .. n + l : all[i] = IF i <= n THEN seq[i] ELSE traces[i - n]
  BY LenProperties, ConcatProperties
<1>2. RenderAll(table, traces) = (CHOOSE f : Solves(f))[l]
  BY Zenon DEF RenderAll
<1> HIDE DEF n, l, all
\* The first elements, by position.
<1>3. ASSUME NEW i \in 0 .. l
      PROVE  /\ First(i) \in Seq(R) /\ Len(First(i)) = n + i
             /\ \A j \in 1 .. n + i : First(i)[j] = all[j] /\ all[j] \in R
  <2>1. n + i \in Nat /\ n + i <= n + l
    BY <1>1
  <2>2. \A j \in 1 .. n + i : all[j] \in R
    BY <1>1, <2>1, ElementOfSeq
  <2>3. First(i) \in Seq(R)
    BY <1>1, <2>1, <2>2, SubSeqProperties
  <2>4. Len(First(i)) = n + i /\ \A j \in 1 .. n + i : First(i)[j] = all[j]
    BY <1>1, <2>1, SubSeqProperties
  <2> QED
    BY <2>2, <2>3, <2>4
\* The tables that show them.
<1>4. ASSUME NEW i \in 0 .. l
      PROVE  Table(i) \in Seq(R) /\ Shows(Table(i), First(i))
  <2>1. Rows(i) \in Nat /\ Rows(i) <= n + i
    BY <1>1, CapacityAssumption
  <2>2. \A j \in 1 .. Rows(i) : n + i + 1 - j \in 1 .. n + i
    BY <1>1, <2>1
  <2>3. Table(i) \in [1 .. Rows(i) -> R]
    BY <1>3, <2>2
  <2>4. Table(i) \in Seq(R) /\ Len(Table(i)) = Rows(i) /\ DOMAIN Table(i) = 1 .. Rows(i)
    <3> DEFINE t == Table(i)
               k == Rows(i)
    <3>1. k \in Nat /\ t \in [1 .. k -> R]
      BY <2>1, <2>3
    <3> HIDE DEF t, k
    <3>2. t \in Seq(R)
      BY <3>1, SeqDef
    <3>3. Len(t) = k /\ DOMAIN t = 1 .. k
      BY <3>1, <3>2, LenProperties
    <3> QED
      BY <3>2, <3>3 DEF t, k
  <2>5. \A j \in 1 .. Rows(i) : Table(i)[j] = First(i)[n + i + 1 - j]
    BY <1>3, <2>2
  <2> HIDE DEF Table, First
  <2>6. Len(Table(i)) = IF Len(First(i)) < MaxRows THEN Len(First(i)) ELSE MaxRows
    BY <1>3, <2>4
  <2>7. \A j \in DOMAIN Table(i) : Table(i)[j] = First(i)[Len(First(i)) + 1 - j]
    BY <1>3, <2>4, <2>5
  <2> QED
    BY <2>4, <2>6, <2>7 DEF Shows
<1>5. Table(0) = table
  <2>1. First(0) = seq
    <3>1. Len(First(0)) = Len(seq) /\ \A j \in 1 .. Len(seq) : First(0)[j] = seq[j]
      BY <1>1, <1>3 DEF n
    <3>2. First(0) \in Seq(R)
      BY <1>1, <1>3
    <3> HIDE DEF First
    <3> QED
      BY <3>1, <3>2, SeqEqual
  <2> HIDE DEF Table, First
  <2>2. Table(0) \in Seq(R) /\ Shows(Table(0), First(0))
    BY <1>1, <1>4
  <2> QED
    BY <2>1, <2>2, ShownOnce
<1>6. ASSUME NEW i \in 1 .. l PROVE Render(Table(i - 1), traces[i]) = Table(i)
  <2>1. i - 1 \in 0 .. l /\ i \in 0 .. l /\ n + i \in 1 .. n + l /\ ~(n + i <= n)
        /\ n + (i - 1) = n + i - 1 /\ (n + i) - n = i
    BY <1>1
  <2>2. all[n + i] = traces[i] /\ traces[i] \in R
    <3>1. traces[i] \in R
      BY <1>1, ElementOfSeq DEF l
    <3> QED
      BY <1>1, <2>1, <3>1
  <2>3. Append(First(i - 1), traces[i]) = First(i)
    <3> DEFINE a == First(i - 1)
               b == First(i)
               c == Append(a, traces[i])
    <3>1. a \in Seq(R) /\ Len(a) = n + i - 1 /\ \A j \in 1 .. n + i - 1 : a[j] = all[j]
      BY <1>3, <2>1
    <3>2. b \in Seq(R) /\ Len(b) = n + i /\ \A j \in 1 .. n + i : b[j] = all[j]
      BY <1>3, <2>1
    <3> HIDE DEF a, b, First
    <3>3. /\ c \in Seq(R) /\ Len(c) = Len(a) + 1
          /\ c[Len(a) + 1] = traces[i]
          /\ \A j \in 1 .. Len(a) : c[j] = a[j]
      BY <2>2, <3>1, AppendProperties
    <3> HIDE DEF c
    <3>4. Len(c) = Len(b) /\ \A j \in 1 .. Len(c) : c[j] = b[j]
      BY <1>1, <2>1, <2>2, <3>1, <3>2, <3>3
    <3> QED
      BY <3>2, <3>3, <3>4, SeqEqual DEF a, b, c
  <2>4. /\ Table(i - 1) \in Seq(R) /\ Shows(Table(i - 1), First(i - 1)) /\ First(i - 1) \in Seq(R)
        /\ Table(i) \in Seq(R) /\ Shows(Table(i), First(i)) /\ First(i) \in Seq(R)
    BY <1>3, <1>4, <2>1
  <2> HIDE DEF Table, First
  <2>5. /\ Render(Table(i - 1), traces[i]) \in Seq(R)
        /\ Shows(Render(Table(i - 1), traces[i]), First(i))
    BY <2>2, <2>3, <2>4, RenderShows
  <2> QED
    BY <2>4, <2>5, ShownOnce
\* They solve the recursion, and whatever solves it is they.
<1>7. Solves(g)
  <2>1. \A i \in 1 .. l : i - 1 \in 0 .. l
    BY <1>1
  <2> HIDE DEF Table
  <2>2. ASSUME NEW i \in 0 .. l
        PROVE  g[i] = IF i = 0 THEN table ELSE Render(g[i - 1], traces[i])
    <3>1. CASE i = 0
      BY <1>5, <3>1
    <3>2. CASE i # 0
      <4>1. i \in 1 .. l /\ i - 1 \in 0 .. l
        BY <1>1, <3>2
      <4>2. g[i] = Table(i) /\ g[i - 1] = Table(i - 1)
        BY <4>1
      <4> QED
        BY <1>6, <3>2, <4>1, <4>2
    <3> QED
      BY <3>1, <3>2
  <2> QED
    BY <2>2
<1>8. PICK f : Solves(f) /\ RenderAll(table, traces) = f[l]
  <2> HIDE DEF Solves, g
  <2>1. Solves(CHOOSE f : Solves(f))
    BY <1>7, Zenon
  <2> QED
    BY <1>2, <2>1
<1>9. f[l] = Table(l)
  <2> DEFINE T == {i \in Nat : i \in 0 .. l => f[i] = Table(i)}
  <2> HIDE DEF Table
  <2>0. \A i \in 0 .. l : f[i] = IF i = 0 THEN table ELSE Render(f[i - 1], traces[i])
    BY <1>8
  <2>1. 0 \in T
    BY <1>1, <1>5, <2>0
  <2>2. ASSUME NEW i \in Nat, i \in T PROVE i + 1 \in T
    <3>1. SUFFICES ASSUME i + 1 \in 0 .. l PROVE f[i + 1] = Table(i + 1)
      BY <2>2
    <3>2. i + 1 \in 1 .. l /\ i \in 0 .. l /\ (i + 1) - 1 = i /\ i + 1 # 0
      BY <1>1, <3>1
    <3>3. f[i] = Table(i)
      BY <2>2, <3>2
    <3>4. f[i + 1] = Render(f[(i + 1) - 1], traces[i + 1])
      BY <2>0, <3>1, <3>2
    <3>5. Render(Table((i + 1) - 1), traces[i + 1]) = Table(i + 1)
      BY <1>6, <3>2
    <3> QED
      BY <3>2, <3>3, <3>4, <3>5
  <2> HIDE DEF T
  <2>3. l \in T
    BY <1>1, <2>1, <2>2, AllNumbers
  <2> QED
    BY <1>1, <2>3 DEF T
<1>10. First(l) = all
  <2>1. First(l) \in Seq(R) /\ Len(First(l)) = Len(all)
        /\ \A j \in 1 .. Len(all) : First(l)[j] = all[j]
    BY <1>1, <1>3
  <2> HIDE DEF First
  <2> QED
    BY <1>1, <2>1, SeqEqual
<1> HIDE DEF Table, First
<1>11. Table(l) \in Seq(R) /\ Shows(Table(l), First(l))
  BY <1>1, <1>4
<1> QED
  BY <1>8, <1>9, <1>10, <1>11 DEF all

-----------------------------------------------------------------------------
(* The invariant *)

\* Subscriptions are not ahead of the events, and no request was sent for an event
\* that is still to come to the dashboard.
StreamInv ==
    /\ Len(sent) <= MaxEvents
    /\ \A page \in Pages : cursor[page] <= Len(sent) + 1
    /\ \A i \in 1 .. MaxEvents :
          i > Len(sent) \/ (Connected("dashboard") /\ i >= cursor["dashboard"])
          => fetch[i] = Unsent

\* The requests that were answered, or are over, number the answers.
Returned == {i \in DOMAIN fetch : fetch[i].step \in {"answered", "over"}}
OrderInv == \A i \in Returned : fetch[i].order <= Cardinality(Returned)

\* Everything announced has come to the dashboard, and was asked for.
Heard ==
    /\ \A e \in Exports : export[e] # "peer_seen"
    /\ Connected("dashboard") =>
          \A i \in cursor["dashboard"] .. Len(sent) : sent[i] # "peer_seen"
    /\ \A i \in DOMAIN fetch : fetch[i].step # "asked"

\* Request i has the last answer, the page does not show it yet, and it is right.
RightAnswer(i) ==
    /\ fetch[i].step = "answered" /\ fetch[i].count = Cardinality(known)
    /\ \A j \in Returned : j # i => fetch[j].order < fetch[i].order

\* The number is right, unless answers were shown out of order, and no answer that
\* would be in order can still replace it.
RightNumber ==
    /\ overtaken \/ shown = Cardinality(known)
    /\ \A i \in Returned : fetch[i].step = "answered" =>
          \E j \in Returned : fetch[j].step = "over" /\ fetch[j].order > fetch[i].order

\* If nothing got lost, what was heard of is shown or is about to be.
FreshInv == Heard /\ ~missed => RightNumber \/ \E i \in Returned : RightAnswer(i)

\* The traces sent, and those about to be.
SampledEvents == {i \in DOMAIN sent : sent[i] = "trace_sampled"}
Sampling == {e \in Exports : export[e] = "trace_sampled"}

\* Samples are a cooldown apart, up to the last.
SampleInv ==
    /\ IsFiniteSet(Sampling)
    /\ lastSample # NoSample => lastSample <= now
    /\ LET samples == Cardinality(SampledEvents) + Cardinality(Sampling)
       IN  IF lastSample = NoSample THEN samples = 0
           ELSE samples * Cooldown <= lastSample + Cooldown

LiveInv ==
    /\ TypeOK
    /\ StreamInv
    /\ OrderInv
    /\ FreshInv
    /\ SampleInv
    /\ InspectorShowsLatest

-----------------------------------------------------------------------------
(* Events *)

\* An event that a page's stream yields is one that was sent.
LEMMA YieldsSent ==
    ASSUME TypeOK, StreamInv, NEW page \in Pages, NEW event, Yields(page, event)
    PROVE  /\ cursor[page] \in 1 .. MaxEvents /\ cursor[page] \in 1 .. Len(sent)
           /\ sent[cursor[page]] = event
           /\ cursor' = [cursor EXCEPT ![page] = cursor[page] + 1]
<1>1. Len(sent) \in Nat /\ Len(sent) <= MaxEvents /\ MaxEvents \in Nat
  BY LenProperties, BoundsAssumption DEF TypeOK, StreamInv
<1>2. Oldest \in Nat /\ 1 <= Oldest
  BY <1>1, CapacityAssumption DEF Oldest
<1>3. cursor[page] \in Oldest .. Len(sent)
  BY DEF Yields
<1> QED
  BY <1>1, <1>2, <1>3 DEF Yields

\* Registry, exports, events, clock and subscriptions keep their types.
LEMMA StreamTypes ==
    ASSUME TypeOK, StreamInv, [Next]_vars
    PROVE  /\ known' \subseteq Peers /\ IsFiniteSet(known')
           /\ Cardinality(known) \in Nat /\ Cardinality(known') \in Nat
           /\ Cardinality(known) <= Cardinality(known')
           /\ export' \in [Exports -> {Idle} \cup Events]
           /\ sent' \in Seq(Events) /\ Len(sent') <= MaxEvents
           /\ lastSample' \in 0 .. NoSample /\ now' \in 0 .. MaxTime
           /\ cursor' \in [Pages -> 0 .. MaxEvents + 1]
           /\ \A page \in Pages : cursor'[page] <= Len(sent') + 1
<1> DEFINE Typed ==
             /\ known' \subseteq Peers /\ IsFiniteSet(known')
             /\ Cardinality(known) <= Cardinality(known')
             /\ export' \in [Exports -> {Idle} \cup Events]
             /\ sent' \in Seq(Events) /\ Len(sent') <= MaxEvents
             /\ lastSample' \in 0 .. NoSample /\ now' \in 0 .. MaxTime
           Placed ==
             /\ cursor' \in [Pages -> 0 .. MaxEvents + 1]
             /\ \A page \in Pages : cursor'[page] <= Len(sent') + 1
<1>0. /\ Len(sent) \in Nat /\ Len(sent) <= MaxEvents /\ MaxEvents \in Nat /\ MaxTime \in Nat
      /\ \A page \in Pages : cursor[page] \in 0 .. MaxEvents + 1 /\ cursor[page] <= Len(sent) + 1
      /\ Cardinality(known) \in Nat
  BY LenProperties, FS_CardinalityType, BoundsAssumption DEF TypeOK, StreamInv
<1>1. ASSUME UNCHANGED serverVars PROVE Typed /\ sent' = sent
  BY <1>0, <1>1 DEF TypeOK, StreamInv, serverVars
<1>2. ASSUME Typed, sent' = sent, cursor' = cursor PROVE Typed /\ Placed
  BY <1>0, <1>2 DEF TypeOK
<1>3. ASSUME NEW page \in Pages, NEW n \in 0 .. Len(sent) + 1, UNCHANGED serverVars,
             cursor' = [cursor EXCEPT ![page] = n]
      PROVE  Typed /\ Placed
  <2> HIDE DEF Typed
  <2>1. n \in 0 .. MaxEvents + 1 /\ n <= Len(sent) + 1
    BY <1>0, <1>3
  <2> QED
    BY <1>0, <1>1, <1>3, <2>1 DEF TypeOK
<1>4. Typed /\ Placed
  <2>1. ASSUME NEW e \in Exports, NEW p \in Peers, Record(e, p) PROVE Typed /\ Placed
    <3>1. IsFiniteSet(known') /\ Cardinality(known) <= Cardinality(known')
      <4>1. known' = known \cup {p} /\ IsFiniteSet(known)
        BY <2>1 DEF Record, TypeOK
      <4>2. IsFiniteSet(known \cup {p})
            /\ Cardinality(known \cup {p}) = IF p \in known THEN Cardinality(known)
                                             ELSE Cardinality(known) + 1
        BY <4>1, FS_AddElement
      <4> QED
        BY <1>0, <4>1, <4>2
    <3> QED
      BY <1>0, <1>2, <2>1, <3>1 DEF Record, TypeOK, Events
  <2>2. ASSUME NEW e \in Exports, SampleTrace(e) PROVE Typed /\ Placed
    BY <1>0, <1>2, <2>2 DEF SampleTrace, TypeOK, Events, NoSample
  <2>3. ASSUME NEW e \in Exports, SendEvent(e) PROVE Typed /\ Placed
    <3>1. export[e] \in Events /\ Len(sent) < MaxEvents /\ sent' = Append(sent, export[e])
      BY <2>3 DEF SendEvent, Send, TypeOK
    <3>2. sent' \in Seq(Events) /\ Len(sent') = Len(sent) + 1
      BY <3>1, AppendProperties DEF TypeOK
    <3>3. cursor' = cursor /\ export' = [export EXCEPT ![e] = Idle]
          /\ UNCHANGED <<known, lastSample, now>>
      BY <2>3 DEF SendEvent
    <3> QED
      BY <1>0, <3>1, <3>2, <3>3 DEF TypeOK
  <2>4. CASE TimePasses
    BY <1>0, <1>2, <2>4 DEF TimePasses, TypeOK
  <2>5. ASSUME NEW page \in Pages, Connect(page) \/ Disconnect(page) \/ Lag(page)
        PROVE  Typed /\ Placed
    <3>1. UNCHANGED serverVars
      BY <2>5 DEF Connect, Disconnect, Lag
    <3>2. Lag(page) => Oldest \in 0 .. Len(sent) + 1
      BY <1>0, CapacityAssumption DEF Oldest
    <3>3. \E n \in 0 .. Len(sent) + 1 : cursor' = [cursor EXCEPT ![page] = n]
      BY <1>0, <2>5, <3>2 DEF Connect, Disconnect, Lag
    <3> QED
      BY <1>3, <3>1, <3>3
  <2>6. CASE Ignore \/ Notice \/ ReceiveTrace
    <3>1. UNCHANGED serverVars
      BY <2>6 DEF Ignore, Notice, ReceiveTrace
    <3>2. PICK page \in Pages, event \in Events : Yields(page, event)
      BY <2>6 DEF Ignore, Notice, ReceiveTrace, Pages, Events
    <3>3. cursor[page] + 1 \in 0 .. Len(sent) + 1
          /\ cursor' = [cursor EXCEPT ![page] = cursor[page] + 1]
      BY <1>0, <3>2, YieldsSent
    <3> QED
      BY <1>3, <3>1, <3>3
  <2>7. CASE Load
    <3>1. "dashboard" \in Pages /\ 0 \in 0 .. Len(sent) + 1
      BY <1>0 DEF Pages
    <3> QED
      BY <1>3, <2>7, <3>1 DEF Load
  <2>8. CASE Pause \/ Resume \/ (\E i \in DOMAIN fetch : Answer(i) \/ Display(i) \/ Fail(i))
             \/ UNCHANGED vars
    <3>1. UNCHANGED <<serverVars, cursor>>
      BY <2>8 DEF Pause, Resume, Answer, Display, Fail, vars
    <3> QED
      BY <1>1, <1>2, <3>1
  <2> QED
    BY <2>1, <2>2, <2>3, <2>4, <2>5, <2>6, <2>7, <2>8 DEF Next
<1> QED
  BY <1>0, <1>4, FS_CardinalityType

-----------------------------------------------------------------------------
(* The inspector *)

\* Of the traces t, b are kept back and r shows the others.
Latest(t, b, r) ==
    LET old == Len(t) - Len(b)
    IN  /\ b = SubSeq(t, old + 1, Len(t))
        /\ Len(r) = IF old < MaxRows THEN old ELSE MaxRows
        /\ \A i \in DOMAIN r : r[i] = t[old + 1 - i]

\* That is so when r shows what came before b.
LEMMA LatestSplits ==
    ASSUME NEW R, NEW t \in Seq(R), NEW b \in Seq(R), NEW r \in Seq(R)
    PROVE  Latest(t, b, r) <=> \E f \in Seq(R) : t = f \o b /\ Shows(r, f)
<1> DEFINE n == Len(t)
           m == Len(b)
           k == Len(r)
           old == n - m
<1>1. /\ n \in Nat /\ m \in Nat /\ k \in Nat
      /\ DOMAIN t = 1 .. n /\ DOMAIN b = 1 .. m /\ DOMAIN r = 1 .. k
      /\ \A i \in 1 .. n : t[i] \in R
  BY LenProperties, ElementOfSeq
<1>2. ASSUME Latest(t, b, r) PROVE \E f \in Seq(R) : t = f \o b /\ Shows(r, f)
  <2>1. /\ b = SubSeq(t, old + 1, n)
        /\ k = IF old < MaxRows THEN old ELSE MaxRows
        /\ \A i \in 1 .. k : r[i] = t[old + 1 - i]
    BY <1>1, <1>2 DEF Latest
  <2> DEFINE f == SubSeq(t, 1, old)
  <2> HIDE DEF n, m, k
  <2>2. old \in Nat /\ old <= n /\ n = old + m
    BY <1>1, <2>1, CapacityAssumption
  <2> HIDE DEF old
  <2>3. /\ f \in Seq(R) /\ Len(f) = old /\ \A i \in 1 .. old : f[i] = t[i]
    <3>1. \A i \in 1 .. old : t[i] \in R
      BY <1>1, <2>2
    <3> QED
      BY <1>1, <2>2, <3>1, SubSeqProperties
  <2>4. SubSeq(t, 1, old) \o SubSeq(t, old + 1, n) = SubSeq(t, 1, n)
    <3>1. 1 \in 1 .. Len(t) + 1 /\ old \in 1 - 1 .. Len(t) /\ n \in old .. Len(t)
      BY <1>1, <2>2 DEF n
    <3> QED
      BY <3>1, ConcatAdjacentSubSeq
  <2>5. t = f \o b
    BY <2>1, <2>4, SubSeqFull DEF n
  <2>6. Shows(r, f)
    <3> HIDE DEF f
    <3>1. \A i \in 1 .. k : old + 1 - i \in 1 .. old
      BY <1>1, <2>1, <2>2, CapacityAssumption
    <3>2. Len(r) = k
      BY DEF k
    <3> QED
      BY <1>1, <2>1, <2>2, <2>3, <3>1, <3>2 DEF Shows
  <2> QED
    BY <2>3, <2>5, <2>6
<1>3. ASSUME NEW f \in Seq(R), t = f \o b, Shows(r, f) PROVE Latest(t, b, r)
  <2> DEFINE l == Len(f)
  <2>1. /\ l \in Nat /\ n = l + m
        /\ \A i \in 1 .. l + m : t[i] = IF i <= l THEN f[i] ELSE b[i - l]
    BY <1>3, LenProperties, ConcatProperties
  <2>2. k = (IF l < MaxRows THEN l ELSE MaxRows) /\ \A i \in 1 .. k : r[i] = f[l + 1 - i]
    BY <1>1, <1>3 DEF Shows
  <2> HIDE DEF n, m, k, l
  <2>3. old = l
    BY <1>1, <2>1
  <2>4. \A i \in 1 .. k : l + 1 - i \in 1 .. l /\ l + 1 - i \in 1 .. l + m /\ l + 1 - i <= l
    BY <1>1, <2>1, <2>2, CapacityAssumption
  <2>5. \A i \in 1 .. k : r[i] = t[l + 1 - i]
    BY <2>1, <2>2, <2>4
  <2>6. b = SubSeq(t, l + 1, n)
    BY <1>3, <2>1, SubSeqOfConcat2 DEF n, m, l
  <2> QED
    BY <1>1, <2>2, <2>3, <2>5, <2>6 DEF Latest, n, m, k
<1> QED
  BY <1>2, <1>3

\* Table and pause buffer keep order through arrivals, pauses and resumptions.
LEMMA InspectorStep ==
    ASSUME TypeOK, StreamInv, InspectorShowsLatest, [Next]_vars
    PROVE  /\ paused' \in BOOLEAN
           /\ buffer' \in Seq(1 .. MaxEvents) /\ rows' \in Seq(1 .. MaxEvents)
           /\ taken' \in Seq(1 .. MaxEvents)
           /\ InspectorShowsLatest'
<1> DEFINE R == 1 .. MaxEvents
           Typed == /\ paused' \in BOOLEAN
                    /\ buffer' \in Seq(R) /\ rows' \in Seq(R) /\ taken' \in Seq(R)
           Kept == buffer' # <<>> => paused'
<1>1. /\ paused \in BOOLEAN /\ buffer \in Seq(R) /\ rows \in Seq(R) /\ taken \in Seq(R)
      /\ buffer # <<>> => paused
  BY DEF TypeOK, InspectorShowsLatest
<1>2. PICK f \in Seq(R) : taken = f \o buffer /\ Shows(rows, f)
  <2>1. Latest(taken, buffer, rows)
    BY DEF InspectorShowsLatest, Latest
  <2> HIDE DEF R
  <2> QED
    BY <1>1, <2>1, LatestSplits
<1>3. SUFFICES Typed /\ Kept /\ \E g \in Seq(R) : taken' = g \o buffer' /\ Shows(rows', g)
  <2> HIDE DEF R
  <2>1. ASSUME Typed, Kept, \E g \in Seq(R) : taken' = g \o buffer' /\ Shows(rows', g)
        PROVE  InspectorShowsLatest'
    <3>1. Latest(taken', buffer', rows')
      BY <2>1, LatestSplits
    <3> QED
      BY <2>1, <3>1 DEF InspectorShowsLatest, Latest
  <2> QED
    BY <2>1 DEF R
<1> HIDE DEF R
<1>4. CASE UNCHANGED inspectorVars
  BY <1>1, <1>2, <1>4 DEF inspectorVars
<1>5. CASE ReceiveTrace
  <2> DEFINE trace == cursor["inspector"]
  <2>1. trace \in R
    BY <1>5, YieldsSent DEF ReceiveTrace, Pages, R
  <2>2. /\ taken' = Append(taken, trace) /\ paused' = paused
        /\ IF paused THEN buffer' = Append(buffer, trace) /\ rows' = rows
           ELSE rows' = Render(rows, trace) /\ buffer' = buffer
    BY <1>5 DEF ReceiveTrace
  <2> HIDE DEF trace
  <2>3. Append(taken, trace) \in Seq(R)
    BY <1>1, <2>1, AppendProperties
  <2>4. CASE paused
    <3>1. Append(buffer, trace) \in Seq(R)
      BY <1>1, <2>1, AppendProperties
    <3>2. Append(f \o buffer, trace) = f \o Append(buffer, trace)
      <4>1. <<trace>> \in Seq(R) /\ f \o buffer \in Seq(R)
        BY <1>1, <2>1, ConcatProperties
      <4>2. /\ Append(f \o buffer, trace) = (f \o buffer) \o <<trace>>
            /\ Append(buffer, trace) = buffer \o <<trace>>
        BY <1>1, <2>1, <4>1, AppendIsConcat
      <4>3. (f \o buffer) \o <<trace>> = f \o (buffer \o <<trace>>)
        BY <1>1, <4>1, ConcatAssociative
      <4> QED
        BY <4>2, <4>3
    <3> QED
      BY <1>1, <1>2, <2>2, <2>3, <2>4, <3>1, <3>2
  <2>5. CASE ~paused
    <3>1. Append(f, trace) \in Seq(R) /\ f \o <<>> = f /\ Append(f, trace) \o <<>> = Append(f, trace)
      BY <2>1, AppendProperties, ConcatEmptySeq
    <3>2. buffer = <<>> /\ taken = f
      BY <1>1, <1>2, <2>5, <3>1
    <3>3. Render(rows, trace) \in Seq(R) /\ Shows(Render(rows, trace), Append(f, trace))
      BY <1>1, <1>2, <2>1, RenderShows
    <3> QED
      BY <1>1, <2>2, <2>3, <2>5, <3>1, <3>2, <3>3
  <2> QED
    BY <2>4, <2>5
<1>6. CASE Pause
  BY <1>1, <1>2, <1>6 DEF Pause
<1>7. CASE Resume
  <2>1. /\ rows' = RenderAll(rows, buffer) /\ buffer' = <<>> /\ paused' = FALSE /\ taken' = taken
    BY <1>7 DEF Resume
  <2>2. RenderAll(rows, buffer) \in Seq(R) /\ Shows(RenderAll(rows, buffer), f \o buffer)
    BY <1>1, <1>2, RenderAllShows
  <2>3. f \o buffer \in Seq(R) /\ (f \o buffer) \o <<>> = f \o buffer /\ <<>> \in Seq(R)
    BY <1>1, ConcatProperties, ConcatEmptySeq, EmptySeq
  <2> QED
    BY <1>1, <1>2, <2>1, <2>2, <2>3
<1> QED
  BY <1>4, <1>5, <1>6, <1>7
  DEF Next, vars, Record, SampleTrace, SendEvent, TimePasses, Connect, Disconnect, Lag, Ignore,
      Load, Notice, Answer, Display, Fail

-----------------------------------------------------------------------------
(* Requests and answers *)

\* What a request is at each of its steps.
LEMMA FetchFields ==
    ASSUME TypeOK, NEW i \in DOMAIN fetch
    PROVE  /\ i \in 1 .. MaxEvents /\ DOMAIN fetch = 1 .. MaxEvents /\ fetch[i] \in Fetches
           /\ fetch[i].step \in {"unsent", "asked", "answered", "over"}
           /\ fetch[i].step = "unsent" <=> fetch[i] = Unsent
           /\ fetch[i].step \in {"answered", "over"} => fetch[i].order \in Nat
           /\ fetch[i].step = "answered" => fetch[i].count \in 0 .. Cardinality(known)
<1>1. i \in 1 .. MaxEvents /\ DOMAIN fetch = 1 .. MaxEvents /\ fetch[i] \in Fetches
  BY DEF TypeOK
<1> QED
  BY <1>1 DEF Fetches, Unsent, Asked

\* Answers are finitely many.
LEMMA ReturnedFinite ==
    ASSUME TypeOK
    PROVE  IsFiniteSet(Returned) /\ Cardinality(Returned) \in Nat
<1>1. IsFiniteSet(1 .. MaxEvents)
  BY FS_Interval, BoundsAssumption
<1>2. Returned \subseteq 1 .. MaxEvents
  BY DEF Returned, TypeOK
<1> QED
  BY <1>1, <1>2, FS_Subset, FS_CardinalityType

\* A new answer counts what is known and has the next number.
LEMMA AnswerFields ==
    ASSUME TypeOK, NEW n \in 0 .. Cardinality(known)
    PROVE  /\ Answered(n) \in Fetches
           /\ Answered(n).step = "answered" /\ Answered(n).count = n
           /\ Answered(n).order = 1 + Cardinality(Returned)
<1>1. Answered(n) = [step |-> "answered", count |-> n, order |-> 1 + Cardinality(Returned)]
  BY DEF Answered, Returned
<1>2. 1 + Cardinality(Returned) \in Nat
  BY ReturnedFinite
<1> QED
  BY <1>1, <1>2 DEF Fetches

\* What a step makes of the requests: nothing, ...
Quiet == UNCHANGED <<shown, fetch, overtaken>> /\ missed' \in BOOLEAN /\ (missed => missed')
\* ... or request i is sent, answered, shown, or given up.
Sends(i) ==
    /\ i \in DOMAIN fetch /\ fetch[i] = Unsent /\ fetch' = [fetch EXCEPT ![i] = Asked]
    /\ missed' = FALSE /\ UNCHANGED <<shown, overtaken>>

\* Requests only change in these ways, and when the page is loaded.
LEMMA RequestMoves ==
    ASSUME TypeOK, StreamInv, [Next]_vars
    PROVE  \/ Quiet
           \/ Load
           \/ Notice /\ Sends(cursor["dashboard"])
           \/ \E i \in DOMAIN fetch : Answer(i) \/ Display(i) \/ Fail(i)
<1>1. missed \in BOOLEAN
  BY DEF TypeOK
<1>2. CASE UNCHANGED dashboardVars
  BY <1>1, <1>2 DEF dashboardVars, Quiet
<1>3. ASSUME NEW e \in Exports, SendEvent(e) PROVE Quiet
  <2>1. UNCHANGED <<shown, fetch, overtaken>>
        /\ missed' = (missed \/ (export[e] = "peer_seen" /\ ~Connected("dashboard")))
    BY <1>3 DEF SendEvent
  <2> QED
    BY <1>1, <2>1 DEF Quiet
<1>4. ASSUME NEW page \in Pages, Disconnect(page) PROVE Quiet
  <2>1. UNCHANGED <<shown, fetch, overtaken>>
        /\ missed' = (missed \/ (page = "dashboard" /\
                         \E i \in cursor[page] .. Len(sent) : sent[i] = "peer_seen"))
    BY <1>4 DEF Disconnect
  <2> QED
    BY <1>1, <2>1 DEF Quiet
<1>5. ASSUME NEW page \in Pages, Lag(page) PROVE Quiet
  <2>1. UNCHANGED <<shown, fetch, overtaken>>
        /\ missed' = (missed \/ (page = "dashboard" /\
                         \E i \in cursor[page] .. Oldest - 1 : sent[i] = "peer_seen"))
    BY <1>5 DEF Lag
  <2> QED
    BY <1>1, <2>1 DEF Quiet
<1>6. CASE Notice
  <2> DEFINE i == cursor["dashboard"]
  <2>1. i \in 1 .. MaxEvents /\ i \in 1 .. Len(sent)
    BY <1>6, YieldsSent DEF Notice, Pages
  <2>2. fetch[i] = Unsent
    BY <2>1 DEF StreamInv, Connected
  <2> QED
    BY <1>6, <2>1, <2>2 DEF Notice, Sends, TypeOK
<1> QED
  BY <1>2, <1>3, <1>4, <1>5, <1>6
  DEF Next, vars, Record, SampleTrace, TimePasses, Connect, Ignore, ReceiveTrace, Pause, Resume

\* Requests keep their types, and none is sent ahead of its event.
LEMMA FetchTypes ==
    ASSUME TypeOK, StreamInv, [Next]_vars
    PROVE  /\ fetch' \in [1 .. MaxEvents -> Fetches']
           /\ shown' \in 0 .. Cardinality(known')
           /\ missed' \in BOOLEAN /\ overtaken' \in BOOLEAN
<1>1. /\ Cardinality(known) \in Nat /\ Cardinality(known') \in Nat
      /\ Cardinality(known) <= Cardinality(known')
  BY StreamTypes
<1>2. Fetches \subseteq Fetches'
  BY <1>1 DEF Fetches
<1>3. /\ fetch \in [1 .. MaxEvents -> Fetches] /\ shown \in 0 .. Cardinality(known)
      /\ missed \in BOOLEAN /\ overtaken \in BOOLEAN
  BY DEF TypeOK
<1>4. shown \in 0 .. Cardinality(known')
  BY <1>1, <1>3
<1>5. Unsent \in Fetches /\ Asked \in Fetches /\ \A n \in Nat : Over(n) \in Fetches
  BY DEF Fetches, Over
<1>6. CASE Quiet
  BY <1>2, <1>3, <1>4, <1>6 DEF Quiet
<1>7. CASE Load
  <2>1. /\ shown' = Cardinality(known) /\ missed' = FALSE /\ overtaken' = FALSE
        /\ fetch' = [i \in DOMAIN fetch |-> IF fetch[i] = Unsent THEN Unsent ELSE Over(0)]
    BY <1>7 DEF Load
  <2>2. Unsent \in Fetches' /\ Over(0) \in Fetches'
    BY <1>2, <1>5
  <2>3. DOMAIN fetch = 1 .. MaxEvents
    BY <1>3
  <2>4. fetch' \in [1 .. MaxEvents -> Fetches']
    BY <2>1, <2>2, <2>3, Zenon
  <2>5. shown' \in 0 .. Cardinality(known')
    BY <1>1, <2>1
  <2> QED
    BY <2>1, <2>4, <2>5
<1>8. CASE Sends(cursor["dashboard"])
  BY <1>2, <1>3, <1>4, <1>5, <1>8 DEF Sends
<1>9. ASSUME NEW i \in DOMAIN fetch, Answer(i) \/ Display(i) \/ Fail(i)
      PROVE  /\ fetch' \in [1 .. MaxEvents -> Fetches']
             /\ shown' \in 0 .. Cardinality(known')
             /\ missed' \in BOOLEAN /\ overtaken' \in BOOLEAN
  <2>1. CASE Answer(i)
    <3>1. fetch' = [fetch EXCEPT ![i] = Answered(Cardinality(known))]
          /\ UNCHANGED <<shown, missed, overtaken>>
      BY <2>1 DEF Answer
    <3>2. Answered(Cardinality(known)) \in Fetches
      BY <1>1, AnswerFields
    <3> QED
      BY <1>2, <1>3, <1>4, <3>1, <3>2
  <2>2. CASE Display(i)
    <3>1. /\ fetch[i].step = "answered" /\ shown' = fetch[i].count
          /\ overtaken' = \E j \in DOMAIN fetch :
                             fetch[j].step = "over" /\ fetch[j].order > fetch[i].order
          /\ fetch' = [fetch EXCEPT ![i] = Over(fetch[i].order)] /\ missed' = missed
      BY <2>2 DEF Display
    <3>2. fetch[i].order \in Nat /\ fetch[i].count \in 0 .. Cardinality(known)
      BY <3>1, FetchFields
    <3>3. overtaken' \in BOOLEAN
      BY <1>3, <3>1
    <3> QED
      BY <1>1, <1>2, <1>3, <1>5, <3>1, <3>2, <3>3
  <2>3. CASE Fail(i)
    BY <1>2, <1>3, <1>4, <1>5, <2>3 DEF Fail
  <2> QED
    BY <1>9, <2>1, <2>2, <2>3
<1> QED
  BY <1>6, <1>7, <1>8, <1>9, RequestMoves

\* Subscriptions are where the channel puts them, and requests follow the events.
LEMMA StreamStep ==
    ASSUME TypeOK, StreamInv, [Next]_vars
    PROVE  StreamInv'
<1> DEFINE c == cursor["dashboard"]
           Ahead(i) == i > Len(sent) \/ (Connected("dashboard") /\ i >= c)
<1>1. /\ Len(sent') <= MaxEvents /\ \A page \in Pages : cursor'[page] <= Len(sent') + 1
      /\ Len(sent') \in Nat
  BY StreamTypes, LenProperties
<1>2. /\ Len(sent) \in Nat /\ c \in Nat /\ c <= Len(sent) + 1 /\ "dashboard" \in Pages
      /\ cursor \in [Pages -> 0 .. MaxEvents + 1]
      /\ \A i \in 1 .. MaxEvents : Ahead(i) => fetch[i] = Unsent
  BY LenProperties, BoundsAssumption DEF TypeOK, StreamInv, Pages
<1> HIDE DEF Ahead
\* What is ahead of the events was ahead of them before.
<1>3. ASSUME NEW i \in 1 .. MaxEvents, Ahead(i)' PROVE Ahead(i)
  <2>1. CASE sent' = sent /\ cursor'["dashboard"] = c
    BY <1>3, <2>1 DEF Ahead, Connected
  <2>2. ASSUME NEW e \in Exports, SendEvent(e) PROVE Ahead(i)
    <3>1. Len(sent') = Len(sent) + 1 /\ cursor' = cursor
      BY <2>2, AppendProperties DEF SendEvent, Send, TypeOK
    <3> QED
      BY <1>2, <1>3, <3>1 DEF Ahead, Connected
  <2>3. ASSUME NEW page \in Pages, Connect(page) \/ Disconnect(page) \/ Lag(page) PROVE Ahead(i)
    <3>1. sent' = sent
      BY <2>3 DEF Connect, Disconnect, Lag, serverVars
    <3>2. CASE page # "dashboard"
      <4>1. cursor'["dashboard"] = c
        BY <1>2, <2>3, <3>2 DEF Connect, Disconnect, Lag
      <4> QED
        BY <2>1, <3>1, <4>1
    <3>3. CASE page = "dashboard"
      <4>1. \/ cursor'["dashboard"] = Len(sent) + 1
            \/ cursor'["dashboard"] = 0
            \/ Connected("dashboard") /\ c < Oldest /\ cursor'["dashboard"] = Oldest
        BY <1>2, <2>3, <3>3 DEF Connect, Disconnect, Lag
      <4>2. Oldest \in Nat
        BY <1>2, CapacityAssumption DEF Oldest
      <4> QED
        BY <1>2, <1>3, <3>1, <4>1, <4>2 DEF Ahead, Connected
    <3> QED
      BY <3>2, <3>3
  <2>4. ASSUME NEW page \in Pages, NEW event, Yields(page, event), sent' = sent PROVE Ahead(i)
    <3>1. cursor' = [cursor EXCEPT ![page] = cursor[page] + 1] /\ cursor[page] # 0
      BY <2>4 DEF Yields, Connected
    <3>2. cursor'["dashboard"] = c \/ (cursor'["dashboard"] = c + 1 /\ c # 0)
      BY <1>2, <3>1
    <3> QED
      BY <1>2, <1>3, <2>4, <3>2 DEF Ahead, Connected
  <2>5. CASE Load
    BY <1>2, <1>3, <2>5 DEF Load, serverVars, Ahead, Connected
  <2> QED
    BY <2>1, <2>2, <2>3, <2>4, <2>5
    DEF Next, vars, serverVars, Pages, Record, SampleTrace, TimePasses, Ignore, Notice, Answer,
        Display, Fail, ReceiveTrace, Pause, Resume
<1>4. ASSUME NEW i \in 1 .. MaxEvents, Ahead(i)' PROVE fetch'[i] = Unsent
  <2>1. fetch[i] = Unsent /\ fetch[i].step = "unsent" /\ i \in DOMAIN fetch
    BY <1>2, <1>3, <1>4 DEF Unsent, TypeOK
  <2>2. CASE Quiet
    BY <2>1, <2>2 DEF Quiet
  <2>3. CASE Load
    BY <2>1, <2>3 DEF Load
  <2>4. CASE Notice /\ Sends(c)
    <3>1. c \in 1 .. Len(sent) /\ cursor' = [cursor EXCEPT !["dashboard"] = c + 1] /\ sent' = sent
      BY <1>2, <2>4, YieldsSent DEF Notice, serverVars
    <3>2. i # c
      BY <1>2, <1>4, <3>1 DEF Ahead, Connected
    <3> QED
      BY <2>1, <2>4, <3>2 DEF Sends
  <2>5. ASSUME NEW j \in DOMAIN fetch, Answer(j) \/ Display(j) \/ Fail(j) PROVE fetch'[i] = Unsent
    <3>1. fetch[j].step # "unsent" /\ \E v : fetch' = [fetch EXCEPT ![j] = v]
      BY <2>5 DEF Answer, Display, Fail
    <3> QED
      BY <2>1, <3>1
  <2> QED
    BY <2>2, <2>3, <2>4, <2>5, RequestMoves
<1> QED
  BY <1>1, <1>4 DEF StreamInv, Ahead

\* Request i changes, and no other one does.
Moves(i) ==
    /\ i \in DOMAIN fetch /\ DOMAIN fetch' = DOMAIN fetch
    /\ \A j \in DOMAIN fetch : j # i => fetch'[j] = fetch[j]

\* What the requests move to.
LEMMA MovesTo ==
    ASSUME TypeOK, StreamInv, [Next]_vars, NEW i \in DOMAIN fetch
    PROVE  /\ Answer(i) =>
                 /\ Moves(i) /\ fetch[i].step = "asked" /\ fetch'[i].step = "answered"
                 /\ fetch'[i].count = Cardinality(known)
                 /\ fetch'[i].order = 1 + Cardinality(Returned)
           /\ Display(i) =>
                 /\ Moves(i) /\ fetch[i].step = "answered" /\ fetch'[i].step = "over"
                 /\ fetch'[i].order = fetch[i].order
           /\ Fail(i) => Moves(i) /\ fetch'[i].step = "over" /\ fetch'[i].order = 0
<1>1. ASSUME Answer(i)
      PROVE  /\ Moves(i) /\ fetch[i].step = "asked" /\ fetch'[i].step = "answered"
             /\ fetch'[i].count = Cardinality(known)
             /\ fetch'[i].order = 1 + Cardinality(Returned)
  <2>1. Cardinality(known) \in 0 .. Cardinality(known)
    BY FS_CardinalityType DEF TypeOK
  <2>2. fetch' = [fetch EXCEPT ![i] = Answered(Cardinality(known))] /\ fetch[i].step = "asked"
    BY <1>1 DEF Answer
  <2>3. Moves(i) /\ fetch'[i] = Answered(Cardinality(known))
    BY <2>2 DEF Moves, TypeOK
  <2> QED
    BY <2>1, <2>2, <2>3, AnswerFields
<1>2. ASSUME Display(i)
      PROVE  /\ Moves(i) /\ fetch[i].step = "answered" /\ fetch'[i].step = "over"
             /\ fetch'[i].order = fetch[i].order
  <2>1. fetch' = [fetch EXCEPT ![i] = Over(fetch[i].order)] /\ fetch[i].step = "answered"
    BY <1>2 DEF Display
  <2>2. Moves(i) /\ fetch'[i] = Over(fetch[i].order)
    BY <2>1 DEF Moves, TypeOK
  <2> QED
    BY <2>1, <2>2 DEF Over
<1>3. ASSUME Fail(i) PROVE Moves(i) /\ fetch'[i].step = "over" /\ fetch'[i].order = 0
  <2>1. fetch' = [fetch EXCEPT ![i] = Over(0)]
    BY <1>3 DEF Fail
  <2>2. Moves(i) /\ fetch'[i] = Over(0)
    BY <2>1 DEF Moves, TypeOK
  <2> QED
    BY <2>2 DEF Over
<1> QED
  BY <1>1, <1>2, <1>3

\* A request that is answered, or over, joins the others.
LEMMA Returns ==
    ASSUME TypeOK, NEW i, Moves(i), fetch'[i].step \in {"answered", "over"}
    PROVE  /\ Returned' = Returned \cup {i}
           /\ Cardinality(Returned) \in Nat /\ Cardinality(Returned') \in Nat
           /\ Cardinality(Returned) <= Cardinality(Returned')
           /\ i \notin Returned => Cardinality(Returned') = Cardinality(Returned) + 1
<1>1. Returned' = Returned \cup {i}
  BY DEF Returned, Moves
<1>2. IsFiniteSet(Returned) /\ Cardinality(Returned) \in Nat
  BY ReturnedFinite
<1>3. Cardinality(Returned') = IF i \in Returned THEN Cardinality(Returned)
                               ELSE Cardinality(Returned) + 1
  BY <1>1, <1>2, FS_AddElement
<1> QED
  BY <1>1, <1>2, <1>3

\* Answers are numbered as the server gives them.
LEMMA OrderStep ==
    ASSUME TypeOK, StreamInv, OrderInv, [Next]_vars
    PROVE  OrderInv'
<1>1. \A j \in Returned : j \in DOMAIN fetch /\ fetch[j].order \in Nat
                          /\ fetch[j].order <= Cardinality(Returned)
  BY FetchFields DEF OrderInv, Returned
<1>2. CASE Quiet
  BY <1>2 DEF OrderInv, Returned, Quiet
<1>3. CASE Load
  <2>1. IsFiniteSet(1 .. MaxEvents) /\ DOMAIN fetch = 1 .. MaxEvents
    BY FS_Interval, BoundsAssumption DEF TypeOK
  <2>2. /\ Returned' \subseteq 1 .. MaxEvents
        /\ \A j \in Returned' : fetch'[j] = Over(0)
    BY <1>3, <2>1 DEF Load, Returned, Unsent
  <2>3. Cardinality(Returned') \in Nat
    BY <2>1, <2>2, FS_Subset, FS_CardinalityType
  <2> QED
    BY <2>2, <2>3 DEF OrderInv, Over
<1>4. ASSUME NEW i, Sends(i) PROVE OrderInv'
  <2>1. Returned' = Returned /\ \A j \in Returned : fetch'[j] = fetch[j]
    BY <1>4 DEF Returned, Sends, Unsent, Asked
  <2> QED
    BY <2>1 DEF OrderInv
<1>5. ASSUME NEW i \in DOMAIN fetch, Answer(i) \/ Display(i) \/ Fail(i) PROVE OrderInv'
  <2>1. Moves(i) /\ fetch'[i].step \in {"answered", "over"}
    BY <1>5, MovesTo
  <2>2. /\ Returned' = Returned \cup {i}
        /\ Cardinality(Returned) \in Nat /\ Cardinality(Returned') \in Nat
        /\ Cardinality(Returned) <= Cardinality(Returned')
        /\ i \notin Returned => Cardinality(Returned') = Cardinality(Returned) + 1
    BY <2>1, Returns
  <2>3. fetch'[i].order <= Cardinality(Returned')
    <3>1. CASE Answer(i)
      <4>1. fetch'[i].order = 1 + Cardinality(Returned) /\ i \notin Returned
        BY <3>1, MovesTo DEF Returned
      <4> QED
        BY <2>2, <4>1
    <3>2. CASE Display(i)
      <4>1. fetch'[i].order = fetch[i].order /\ i \in Returned
        BY <3>2, MovesTo DEF Returned
      <4> QED
        BY <1>1, <2>2, <4>1
    <3>3. CASE Fail(i)
      <4>1. fetch'[i].order = 0
        BY <3>3, MovesTo
      <4> QED
        BY <2>2, <4>1
    <3> QED
      BY <1>5, <3>1, <3>2, <3>3
  <2>4. ASSUME NEW j \in Returned, j # i PROVE fetch'[j].order <= Cardinality(Returned')
    <3>1. fetch'[j].order = fetch[j].order
      BY <1>1, <2>1, <2>4 DEF Moves
    <3> QED
      BY <1>1, <2>2, <3>1
  <2> QED
    BY <2>2, <2>3, <2>4 DEF OrderInv
<1> QED
  BY <1>2, <1>3, <1>4, <1>5, RequestMoves

\* A step that sends, answers and shows nothing, and after which everything
\* announced has been heard of, did not announce anything and missed nothing.
LEMMA HeardBefore ==
    ASSUME TypeOK, StreamInv, [Next]_vars, ~Load, Quiet, Heard', ~missed'
    PROVE  Heard /\ known' = known
<1> DEFINE c == cursor["dashboard"]
<1>0. /\ "dashboard" \in Pages /\ cursor \in [Pages -> 0 .. MaxEvents + 1]
      /\ c \in Nat /\ Len(sent) \in Nat /\ c <= Len(sent) + 1
      /\ export \in [Exports -> {Idle} \cup Events] /\ missed \in BOOLEAN
  BY LenProperties, BoundsAssumption DEF TypeOK, StreamInv, Pages
<1>1. fetch' = fetch
  BY DEF Quiet
<1>2. /\ \A e \in Exports : export'[e] # "peer_seen"
      /\ Connected("dashboard")' =>
            \A i \in cursor'["dashboard"] .. Len(sent') : sent'[i] # "peer_seen"
      /\ \A i \in DOMAIN fetch : fetch[i].step # "asked"
  BY <1>1 DEF Heard
<1>3. CASE UNCHANGED <<known, export, sent, cursor>>
  BY <1>2, <1>3 DEF Heard, Connected
<1>4. ASSUME NEW e \in Exports, NEW p \in Peers, Record(e, p) PROVE FALSE
  BY <1>0, <1>2, <1>4 DEF Record
<1>5. ASSUME NEW e \in Exports, SampleTrace(e) PROVE Heard /\ known' = known
  <2>1. \A x \in Exports : export[x] # "peer_seen"
    BY <1>0, <1>2, <1>5 DEF SampleTrace, Idle
  <2> QED
    BY <1>2, <1>5, <2>1 DEF SampleTrace, Heard, Connected
<1>6. ASSUME NEW e \in Exports, SendEvent(e) PROVE Heard /\ known' = known
  <2>1. /\ sent' = Append(sent, export[e]) /\ export[e] \in Events
        /\ export' = [export EXCEPT ![e] = Idle] /\ UNCHANGED <<known, cursor>>
        /\ missed' = (missed \/ (export[e] = "peer_seen" /\ ~Connected("dashboard")))
    BY <1>0, <1>6 DEF SendEvent, Send
  <2>2. /\ Len(sent') = Len(sent) + 1 /\ sent'[Len(sent) + 1] = export[e]
        /\ \A i \in 1 .. Len(sent) : sent'[i] = sent[i]
    BY <2>1, AppendProperties DEF TypeOK
  <2>3. export[e] # "peer_seen"
    <3>1. ASSUME export[e] = "peer_seen" PROVE FALSE
      <4>1. Connected("dashboard")
        BY <2>1, <3>1
      <4>2. Connected("dashboard")' /\ Len(sent) + 1 \in cursor'["dashboard"] .. Len(sent')
        BY <1>0, <2>1, <2>2, <4>1 DEF Connected
      <4> QED
        BY <1>2, <2>2, <3>1, <4>2
    <3> QED
      BY <3>1
  <2>4. \A x \in Exports : export[x] # "peer_seen"
    BY <1>0, <1>2, <2>1, <2>3
  <2>5. ASSUME Connected("dashboard"), NEW i \in c .. Len(sent) PROVE sent[i] # "peer_seen"
    <3>1. c # 0
      BY <2>5 DEF Connected
    <3>2. i \in 1 .. Len(sent) /\ i \in cursor'["dashboard"] .. Len(sent')
      BY <1>0, <2>1, <2>2, <3>1
    <3> QED
      BY <1>2, <2>1, <2>2, <2>5, <3>2 DEF Connected
  <2> QED
    BY <1>2, <2>1, <2>4, <2>5 DEF Heard
<1>7. ASSUME NEW page \in Pages, Connect(page) \/ Disconnect(page) \/ Lag(page)
      PROVE  Heard /\ known' = known
  <2>1. UNCHANGED <<known, export, sent>>
    BY <1>7 DEF Connect, Disconnect, Lag, serverVars
  <2>2. CASE page # "dashboard"
    <3>1. cursor'["dashboard"] = c
      BY <1>0, <1>7, <2>2 DEF Connect, Disconnect, Lag
    <3> QED
      BY <1>2, <2>1, <3>1 DEF Heard, Connected
  <2>3. CASE page = "dashboard"
    <3>1. ASSUME Connected("dashboard"), NEW i \in c .. Len(sent) PROVE sent[i] # "peer_seen"
      <4>1. CASE Connect(page)
        BY <2>3, <3>1, <4>1 DEF Connect
      <4>2. CASE Disconnect(page)
        <5>1. missed' = (missed \/ (page = "dashboard" /\
                  \E k \in cursor[page] .. Len(sent) : sent[k] = "peer_seen"))
          BY <4>2 DEF Disconnect
        <5> QED
          BY <2>3, <3>1, <5>1
      <4>3. CASE Lag(page)
        <5>1. missed' = (missed \/ (page = "dashboard" /\
                  \E k \in cursor[page] .. Oldest - 1 : sent[k] = "peer_seen"))
              /\ cursor'["dashboard"] = Oldest
          BY <1>0, <2>3, <4>3 DEF Lag
        <5>2. Oldest \in Nat /\ Oldest # 0
          BY <1>0, CapacityAssumption DEF Oldest
        <5>3. i \in c .. Oldest - 1 \/ i \in Oldest .. Len(sent)
          BY <1>0, <3>1, <5>2
        <5>4. Connected("dashboard")'
          BY <5>1, <5>2 DEF Connected
        <5> QED
          BY <1>2, <2>1, <2>3, <5>1, <5>3, <5>4
      <4> QED
        BY <1>7, <4>1, <4>2, <4>3
    <3> QED
      BY <1>2, <2>1, <3>1 DEF Heard
  <2> QED
    BY <2>2, <2>3
<1>8. ASSUME NEW page \in Pages, NEW event, event # "peer_seen" \/ page # "dashboard",
             Yields(page, event), UNCHANGED serverVars
      PROVE  Heard /\ known' = known
  <2>1. /\ cursor' = [cursor EXCEPT ![page] = cursor[page] + 1]
        /\ cursor[page] # 0 /\ sent[cursor[page]] = event
    BY <1>8 DEF Yields, Connected
  <2>2. UNCHANGED <<known, export, sent>>
    BY <1>8 DEF serverVars
  <2>3. CASE page # "dashboard"
    <3>1. cursor'["dashboard"] = c
      BY <1>0, <2>1, <2>3
    <3> QED
      BY <1>2, <2>2, <3>1 DEF Heard, Connected
  <2>4. CASE page = "dashboard"
    <3>1. cursor'["dashboard"] = c + 1 /\ c # 0 /\ sent[c] # "peer_seen"
      BY <1>0, <1>8, <2>1, <2>4
    <3>2. \A i \in c .. Len(sent) : i = c \/ i \in c + 1 .. Len(sent)
      BY <1>0
    <3>3. Connected("dashboard")'
      BY <1>0, <3>1 DEF Connected
    <3> QED
      BY <1>2, <2>2, <3>1, <3>2, <3>3 DEF Heard
  <2> QED
    BY <2>3, <2>4
<1>9. CASE Notice
  <2>1. cursor["dashboard"] \in 1 .. MaxEvents
    BY <1>9, YieldsSent DEF Notice, Pages
  <2>2. fetch'[c] = Asked /\ c \in DOMAIN fetch
    BY <1>9, <2>1 DEF Notice, TypeOK
  <2> QED
    BY <1>1, <1>2, <2>2 DEF Asked
<1> QED
  BY <1>3, <1>4, <1>5, <1>6, <1>7, <1>8, <1>9
  DEF Next, vars, serverVars, Pages, TimePasses, Ignore, ReceiveTrace, Pause, Resume,
      Answer, Display, Fail

\* Everything heard of is on the page or on its way there, whatever the order of
\* requests and answers.
LEMMA FreshStep ==
    ASSUME TypeOK, StreamInv, OrderInv, FreshInv, [Next]_vars
    PROVE  FreshInv'
<1> DEFINE Fresh == RightNumber \/ \E i \in Returned : RightAnswer(i)
<1>1. SUFFICES ASSUME Heard', ~missed' PROVE Fresh'
  BY DEF FreshInv
<1>2. /\ DOMAIN fetch = 1 .. MaxEvents
      /\ \A j \in Returned : j \in DOMAIN fetch /\ fetch[j].order \in Nat
                             /\ fetch[j].order <= Cardinality(Returned)
      /\ missed \in BOOLEAN /\ overtaken \in BOOLEAN /\ Cardinality(Returned) \in Nat
  BY FetchFields, ReturnedFinite DEF OrderInv, Returned, TypeOK
<1>3. \A j \in DOMAIN fetch' : fetch'[j].step # "asked"
  BY <1>1 DEF Heard
<1>4. CASE Load
  <2>1. /\ shown' = Cardinality(known) /\ known' = known
        /\ \A j \in DOMAIN fetch' : fetch'[j] \in {Unsent, Over(0)}
    BY <1>4 DEF Load, serverVars
  <2>2. \A j \in Returned' : fetch'[j].step # "answered"
    BY <2>1 DEF Returned, Unsent, Over
  <2> QED
    BY <2>1, <2>2 DEF RightNumber
<1>5. CASE Quiet /\ ~Load
  <2>1. Heard /\ known' = known
    BY <1>1, <1>5, HeardBefore
  <2>2. ~missed /\ fetch' = fetch /\ shown' = shown /\ overtaken' = overtaken
    BY <1>1, <1>5 DEF Quiet
  <2>3. Fresh
    BY <2>1, <2>2 DEF FreshInv
  <2> QED
    BY <2>1, <2>2, <2>3 DEF RightNumber, RightAnswer, Returned
<1>6. ASSUME NEW i, Sends(i) PROVE FALSE
  <2>1. i \in DOMAIN fetch' /\ fetch'[i] = Asked
    BY <1>6 DEF Sends
  <2> QED
    BY <1>3, <2>1 DEF Asked
<1>7. ASSUME NEW i \in DOMAIN fetch, Answer(i) PROVE Fresh'
  <2>1. /\ Moves(i) /\ fetch[i].step = "asked" /\ fetch'[i].step = "answered"
        /\ fetch'[i].count = Cardinality(known)
        /\ fetch'[i].order = 1 + Cardinality(Returned)
    BY <1>7, MovesTo
  <2>2. known' = known
    BY <1>7 DEF Answer, serverVars
  <2>3. Returned' = Returned \cup {i}
    BY <2>1, Returns
  <2>4. ASSUME NEW j \in Returned', j # i PROVE fetch'[j].order < fetch'[i].order
    <3>1. j \in Returned /\ fetch'[j] = fetch[j]
      BY <1>2, <2>1, <2>3, <2>4 DEF Moves
    <3> QED
      BY <1>2, <2>1, <3>1
  <2> QED
    BY <2>1, <2>2, <2>3, <2>4 DEF RightAnswer
<1>8. ASSUME NEW i \in DOMAIN fetch, Display(i) PROVE Fresh'
  <2>1. /\ Moves(i) /\ fetch[i].step = "answered" /\ fetch'[i].step = "over"
        /\ fetch'[i].order = fetch[i].order
    BY <1>8, MovesTo
  <2>2. /\ shown' = fetch[i].count /\ missed' = missed
        /\ UNCHANGED <<known, export, sent, cursor>>
        /\ overtaken' = \E j \in DOMAIN fetch :
                           fetch[j].step = "over" /\ fetch[j].order > fetch[i].order
    BY <1>8 DEF Display, serverVars
  <2>3. i \in Returned /\ Returned' = Returned
    <3>1. i \in Returned
      BY <2>1 DEF Returned
    <3> QED
      BY <2>1, <3>1, Returns
  <2>4. \A j \in Returned : j # i => fetch'[j] = fetch[j]
    BY <1>2, <2>1 DEF Moves
  <2>5. Fresh
    <3>1. \A j \in DOMAIN fetch : fetch[j].step # "asked"
      BY <1>3, <2>1 DEF Moves
    <3>2. Heard
      BY <1>1, <2>2, <3>1 DEF Heard, Connected
    <3> QED
      BY <1>1, <2>2, <3>2 DEF FreshInv
\* The right answer is shown.
  <2>6. CASE RightAnswer(i)
    <3>1. shown' = Cardinality(known')
      BY <2>2, <2>6 DEF RightAnswer
    <3>2. ASSUME NEW j \in Returned', fetch'[j].step = "answered"
          PROVE  fetch'[i].order > fetch'[j].order
      <4>1. j \in Returned /\ j # i
        BY <2>1, <2>3, <3>2
      <4>2. fetch[j].order < fetch[i].order /\ fetch'[j] = fetch[j]
        BY <2>4, <2>6, <4>1 DEF RightAnswer
      <4> QED
        BY <1>2, <2>1, <2>3, <4>1, <4>2
    <3>3. RightNumber'
      BY <2>1, <2>3, <3>1, <3>2 DEF RightNumber
    <3> QED
      BY <3>3
\* Another one is, before the right one.
  <2>7. ASSUME NEW k \in Returned, k # i, RightAnswer(k) PROVE Fresh'
    <3>1. /\ k \in Returned' /\ fetch'[k] = fetch[k]
          /\ fetch[k].step = "answered" /\ fetch[k].count = Cardinality(known)
          /\ \A j \in Returned : j # k => fetch[j].order < fetch[k].order
      BY <2>3, <2>4, <2>7 DEF RightAnswer
    <3>2. ASSUME NEW j \in Returned', j # k PROVE fetch'[j].order < fetch'[k].order
      <4>1. j \in Returned /\ fetch'[j].order = fetch[j].order
        BY <2>1, <2>3, <2>4, <3>2
      <4> QED
        BY <3>1, <3>2, <4>1
    <3> QED
      BY <2>2, <3>1, <3>2 DEF RightAnswer
\* An older one replaces the right number.
  <2>8. CASE RightNumber
    <3>1. overtaken'
      <4>1. \E j \in Returned : fetch[j].step = "over" /\ fetch[j].order > fetch[i].order
        BY <2>1, <2>3, <2>8 DEF RightNumber
      <4> QED
        BY <1>2, <2>2, <4>1
    <3>2. ASSUME NEW j \in Returned', fetch'[j].step = "answered"
          PROVE  \E k \in Returned' : fetch'[k].step = "over" /\ fetch'[k].order > fetch'[j].order
      <4>1. j \in Returned /\ j # i /\ fetch'[j] = fetch[j]
        BY <2>1, <2>3, <2>4, <3>2
      <4>2. PICK k \in Returned : fetch[k].step = "over" /\ fetch[k].order > fetch[j].order
        BY <2>8, <3>2, <4>1 DEF RightNumber
      <4>3. k # i
        BY <2>1, <4>2
      <4>4. fetch'[k] = fetch[k] /\ k \in Returned'
        BY <2>3, <2>4, <4>2, <4>3
      <4> QED
        BY <4>1, <4>2, <4>4
    <3>3. RightNumber'
      BY <3>1, <3>2 DEF RightNumber
    <3> QED
      BY <3>3
  <2> QED
    BY <2>5, <2>6, <2>7, <2>8
<1>9. ASSUME NEW i \in DOMAIN fetch, Fail(i) PROVE FALSE
  <2>1. PICK j \in DOMAIN fetch \ {i} : fetch[j] = Asked
    BY <1>1, <1>9 DEF Fail
  <2>2. fetch'[j] = Asked /\ j \in DOMAIN fetch'
    BY <1>9, <2>1 DEF Fail
  <2> QED
    BY <1>3, <2>2 DEF Asked
<1> QED
  BY <1>4, <1>5, <1>6, <1>7, <1>8, <1>9, RequestMoves

-----------------------------------------------------------------------------
(* Samples *)

\* The traces sent, and those about to be, are finitely many.
LEMMA SampledFinite ==
    ASSUME TypeOK
    PROVE  /\ IsFiniteSet(SampledEvents) /\ Cardinality(SampledEvents) \in Nat
           /\ SampledEvents \subseteq 1 .. Len(sent)
<1>1. DOMAIN sent = 1 .. Len(sent) /\ Len(sent) \in Nat
  BY LenProperties DEF TypeOK
<1>2. IsFiniteSet(1 .. Len(sent)) /\ SampledEvents \subseteq 1 .. Len(sent)
  BY <1>1, FS_Interval DEF SampledEvents
<1> QED
  BY <1>2, FS_Subset, FS_CardinalityType

\* A sample is taken a cooldown after the last one; sending it does not count again.
LEMMA SampleStep ==
    ASSUME TypeOK, SampleInv, [Next]_vars
    PROVE  SampleInv'
<1> DEFINE n == Cardinality(SampledEvents)
           m == Cardinality(Sampling)
<1>1. /\ n \in Nat /\ m \in Nat /\ IsFiniteSet(Sampling) /\ IsFiniteSet(SampledEvents)
      /\ SampledEvents \subseteq 1 .. Len(sent)
  BY SampledFinite, FS_CardinalityType DEF SampleInv
<1>2. /\ now \in 0 .. MaxTime /\ lastSample \in 0 .. MaxTime + 1 /\ NoSample = MaxTime + 1
      /\ MaxTime \in Nat /\ Cooldown \in Nat /\ Cooldown # 0
      /\ export \in [Exports -> {Idle} \cup Events]
      /\ sent \in Seq(Events) /\ Len(sent) \in Nat /\ DOMAIN sent = 1 .. Len(sent)
  BY BoundsAssumption, LenProperties DEF TypeOK, NoSample
<1>3. /\ lastSample # NoSample => lastSample <= now
      /\ lastSample = NoSample => n + m = 0
      /\ lastSample # NoSample => (n + m) * Cooldown <= lastSample + Cooldown
  BY DEF SampleInv
<1> HIDE DEF n, m
\* Nothing is sampled or sent.
<1>4. ASSUME Sampling' = Sampling, SampledEvents' = SampledEvents, lastSample' = lastSample,
             now' \in Nat, now <= now'
      PROVE  SampleInv'
  <2>1. n' = n /\ m' = m
    BY <1>4 DEF n, m
  <2>2. lastSample' # NoSample' => lastSample' <= now'
    BY <1>2, <1>3, <1>4 DEF NoSample
  <2> QED
    BY <1>1, <1>3, <1>4, <2>1, <2>2 DEF SampleInv, n, m, NoSample
<1>5. ASSUME NEW e \in Exports, NEW p \in Peers, Record(e, p) PROVE SampleInv'
  <2>1. /\ export[e] = Idle /\ export' = [export EXCEPT ![e] = "peer_seen"]
        /\ UNCHANGED <<sent, lastSample, now>>
    BY <1>5 DEF Record
  <2>2. Sampling' = Sampling
    BY <1>2, <2>1 DEF Sampling, Idle
  <2>3. SampledEvents' = SampledEvents
    BY <2>1 DEF SampledEvents
  <2> QED
    BY <1>2, <1>4, <2>1, <2>2, <2>3
<1>6. ASSUME NEW e \in Exports, SampleTrace(e) PROVE SampleInv'
  <2>1. /\ export[e] = Idle /\ export' = [export EXCEPT ![e] = "trace_sampled"]
        /\ lastSample' = now /\ UNCHANGED <<sent, now>>
        /\ lastSample = NoSample \/ now - lastSample >= Cooldown
    BY <1>6 DEF SampleTrace
  <2>2. Sampling' = Sampling \cup {e} /\ e \notin Sampling
    BY <1>2, <2>1 DEF Sampling, Idle
  <2>3. IsFiniteSet(Sampling') /\ m' = m + 1
    BY <1>1, <2>2, FS_AddElement DEF m
  <2>4. n' = n
    BY <2>1 DEF n, SampledEvents
  <2>5. (n + (m + 1)) * Cooldown = (n + m) * Cooldown + Cooldown
    BY <1>1, <1>2
  <2>6. (n + (m + 1)) * Cooldown <= now + Cooldown
    <3>1. CASE lastSample = NoSample
      <4>1. (n + m) * Cooldown = 0
        BY <1>2, <1>3, <3>1
      <4> QED
        BY <1>2, <2>5, <4>1
    <3>2. CASE lastSample # NoSample
      <4> DEFINE q == (n + m) * Cooldown
      <4>1. q \in Nat /\ q <= lastSample + Cooldown /\ (n + (m + 1)) * Cooldown = q + Cooldown
        BY <1>1, <1>2, <1>3, <2>5, <3>2
      <4>2. now - lastSample >= Cooldown
        BY <2>1, <3>2
      <4> HIDE DEF q
      <4> QED
        BY <1>2, <4>1, <4>2
    <3> QED
      BY <3>1, <3>2
  <2>7. lastSample' # NoSample' /\ lastSample' <= now'
    BY <1>2, <2>1 DEF NoSample
  <2> QED
    BY <2>1, <2>3, <2>4, <2>6, <2>7 DEF SampleInv, n, m
<1>7. ASSUME NEW e \in Exports, SendEvent(e) PROVE SampleInv'
  <2>1. /\ export[e] \in Events /\ export' = [export EXCEPT ![e] = Idle]
        /\ sent' = Append(sent, export[e]) /\ UNCHANGED <<lastSample, now>>
    BY <1>2, <1>7 DEF SendEvent, Send
  <2>2. /\ Len(sent') = Len(sent) + 1 /\ DOMAIN sent' = 1 .. Len(sent) + 1
        /\ sent'[Len(sent) + 1] = export[e]
        /\ \A i \in 1 .. Len(sent) : sent'[i] = sent[i]
    BY <1>2, <2>1, AppendProperties, LenProperties
  <2>3. CASE export[e] = "trace_sampled"
    <3>1. /\ Sampling' = Sampling \ {e} /\ e \in Sampling
          /\ SampledEvents' = SampledEvents \cup {Len(sent) + 1}
          /\ Len(sent) + 1 \notin SampledEvents
      BY <1>1, <1>2, <2>1, <2>2, <2>3 DEF Sampling, SampledEvents, Idle
    <3>2. IsFiniteSet(Sampling') /\ m' = m - 1
      BY <1>1, <3>1, FS_RemoveElement DEF m
    <3>3. n' = n + 1
      BY <1>1, <3>1, FS_AddElement DEF n
    <3>4. n' + m' = n + m
      BY <1>1, <3>2, <3>3
    <3> QED
      BY <1>3, <2>1, <3>2, <3>4 DEF SampleInv, n, m, NoSample
  <2>4. CASE export[e] # "trace_sampled"
    <3>1. Sampling' = Sampling
      BY <1>2, <2>1, <2>4 DEF Sampling, Idle
    <3>2. SampledEvents' = SampledEvents
      BY <1>2, <2>2, <2>4 DEF SampledEvents
    <3> QED
      BY <1>2, <1>4, <2>1, <3>1, <3>2
  <2> QED
    BY <2>3, <2>4
<1>8. CASE TimePasses \/ UNCHANGED serverVars
  <2>1. Sampling' = Sampling /\ SampledEvents' = SampledEvents
    BY <1>8 DEF TimePasses, serverVars, Sampling, SampledEvents
  <2>2. lastSample' = lastSample /\ now' \in Nat /\ now <= now'
    BY <1>2, <1>8 DEF TimePasses, serverVars
  <2> QED
    BY <1>4, <2>1, <2>2
<1> QED
  BY <1>5, <1>6, <1>7, <1>8
  DEF Next, vars, Connect, Disconnect, Lag, Ignore, Load, Notice, Answer, Display, Fail,
      ReceiveTrace, Pause, Resume

-----------------------------------------------------------------------------
(* The theorems *)

\* The invariant holds when the server has started and no page is open ...
LEMMA LiveInit == Init => LiveInv
<1> SUFFICES ASSUME Init PROVE LiveInv
  OBVIOUS
<1>1. /\ MaxEvents \in Nat /\ MaxTime \in Nat /\ MaxRows \in Nat /\ MaxRows # 0
      /\ IsFiniteSet({}) /\ Cardinality({}) = 0
  BY CapacityAssumption, BoundsAssumption, FS_EmptySet
<1>2. /\ known = {} /\ export = [e \in Exports |-> Idle] /\ sent = <<>>
      /\ lastSample = NoSample /\ now = 0 /\ cursor = [page \in Pages |-> 0] /\ shown = 0
      /\ fetch = [i \in 1 .. MaxEvents |-> Unsent] /\ missed = FALSE /\ overtaken = FALSE
      /\ paused = FALSE /\ buffer = <<>> /\ rows = <<>> /\ taken = <<>>
  BY DEF Init
<1>3. Len(<<>>) = 0 /\ \A R : <<>> \in Seq(R)
  BY EmptySeq
<1>4. TypeOK
  <2>1. known \subseteq Peers /\ IsFiniteSet(known) /\ shown \in 0 .. Cardinality(known)
    BY <1>1, <1>2
  <2>2. fetch \in [1 .. MaxEvents -> Fetches]
    BY <1>2 DEF Fetches
  <2>3. lastSample \in 0 .. NoSample /\ now \in 0 .. MaxTime
        /\ cursor \in [Pages -> 0 .. MaxEvents + 1]
        /\ export \in [Exports -> {Idle} \cup Events]
    BY <1>1, <1>2 DEF NoSample
  <2> QED
    BY <1>2, <1>3, <2>1, <2>2, <2>3 DEF TypeOK
<1>5. StreamInv
  BY <1>1, <1>2, <1>3 DEF StreamInv, Pages, Connected
<1>6. Returned = {}
  BY <1>2 DEF Returned, Unsent
<1>7. OrderInv
  BY <1>6 DEF OrderInv
<1>8. FreshInv
  BY <1>1, <1>2, <1>6 DEF FreshInv, RightNumber
<1>9. SampleInv
  <2>1. SampledEvents = {} /\ Sampling = {}
    BY <1>2, <1>3 DEF SampledEvents, Sampling, Idle
  <2> QED
    BY <1>1, <1>2, <2>1 DEF SampleInv
<1>10. InspectorShowsLatest
  <2>1. Latest(<<>>, <<>>, <<>>)
    <3>1. <<>> \in Seq(Nat) /\ <<>> \o <<>> = <<>> /\ Shows(<<>>, <<>>)
      BY <1>1, <1>3 DEF Shows
    <3> QED
      BY <3>1, LatestSplits
  <2> QED
    BY <1>2, <2>1 DEF InspectorShowsLatest, Latest
<1> QED
  BY <1>4, <1>5, <1>7, <1>8, <1>9, <1>10 DEF LiveInv

\* ... and every step keeps it.
LEMMA LiveStep == LiveInv /\ [Next]_vars => LiveInv'
<1> SUFFICES ASSUME LiveInv, [Next]_vars PROVE LiveInv'
  OBVIOUS
<1>1. TypeOK /\ StreamInv /\ OrderInv /\ FreshInv /\ SampleInv /\ InspectorShowsLatest
  BY DEF LiveInv
<1>2. TypeOK'
  BY <1>1, StreamTypes, FetchTypes, InspectorStep DEF TypeOK
<1> QED
  BY <1>1, <1>2, StreamStep, OrderStep, FreshStep, SampleStep, InspectorStep DEF LiveInv

\* The invariant holds at all times.
THEOREM LiveInvariant == Spec => []LiveInv
  BY LiveInit, LiveStep, PTL DEF Spec

\* Every variable keeps its type, and neither a number shown nor an answer counts
\* more than what is known.
THEOREM TypeCorrect == Spec => []TypeOK
<1>1. LiveInv => TypeOK
  BY DEF LiveInv
<1> QED
  BY <1>1, LiveInvariant, PTL

\* Once the stream is read and the answers are in, the counter is right, whatever
\* was missed or overtaken before the last event: fetching again on every event is
\* enough, no request has to wait for another.
THEOREM CounterIsRight == Spec => []CounterIsCurrentAtRest
<1>1. LiveInv => CounterIsCurrentAtRest
  <2> SUFFICES ASSUME LiveInv, AtRest, ~missed, ~overtaken PROVE shown = Cardinality(known)
    BY DEF CounterIsCurrentAtRest
  <2>1. Len(sent) \in Nat
    BY LenProperties DEF LiveInv, TypeOK
  <2>2. Heard /\ \A i \in Returned : fetch[i].step # "answered"
    BY <2>1 DEF AtRest, Heard, Returned
  <2> QED
    BY <2>2 DEF LiveInv, FreshInv, RightNumber, RightAnswer
<1> QED
  BY <1>1, LiveInvariant, PTL

\* However many exports ask at once, traces are sampled no faster than one per
\* cooldown.
THEOREM SamplesAreRare == Spec => []TracesAreRare
<1>1. LiveInv => TracesAreRare
  <2> SUFFICES ASSUME LiveInv PROVE TracesAreRare
    OBVIOUS
  <2> DEFINE q == Cardinality(SampledEvents) + Cardinality(Sampling)
  <2>1. q \in Nat
    BY SampledFinite, FS_CardinalityType DEF LiveInv, SampleInv
  <2>2. /\ lastSample # NoSample => lastSample <= now
        /\ lastSample = NoSample => q = 0
        /\ lastSample # NoSample => q * Cooldown <= lastSample + Cooldown
    BY DEF LiveInv, SampleInv
  <2>3. TracesAreRare <=> q * Cooldown <= now + Cooldown
    BY DEF TracesAreRare, SampledEvents, Sampling
  <2>4. now \in Nat /\ lastSample \in Nat /\ Cooldown \in Nat
    BY BoundsAssumption DEF LiveInv, TypeOK, NoSample
  <2> HIDE DEF q
  <2>5. q * Cooldown <= now + Cooldown
    <3>1. CASE q = 0
      BY <2>4, <3>1
    <3>2. CASE lastSample # NoSample
      <4>1. q * Cooldown \in Nat
        BY <2>1, <2>4
      <4> QED
        BY <2>2, <2>4, <3>2, <4>1
    <3> QED
      BY <2>2, <3>1, <3>2
  <2> QED
    BY <2>3, <2>5
<1> QED
  BY <1>1, LiveInvariant, PTL

\* Pausing and resuming neither loses nor repeats nor reorders a trace, and the
\* table keeps the newest.
THEOREM InspectorIsRight == Spec => []InspectorShowsLatest
<1>1. LiveInv => InspectorShowsLatest
  BY DEF LiveInv
<1> QED
  BY <1>1, LiveInvariant, PTL
=============================================================================
