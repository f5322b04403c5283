-------------------------- MODULE WriteBufferProofs --------------------------
(***************************************************************************)
(* Proofs about the write buffer, for any set of records, any capacity and *)
(* batch size, and any order of flushes, failures, shutdowns and crashes.  *)
(***************************************************************************)
EXTENDS WriteBuffer, SequenceTheorems, TLAPS

-----------------------------------------------------------------------------
(* Lemmas about sequences *)

\* Moving the first element of one sequence to the end of another leaves their
\* concatenation as it was.
LEMMA MoveHead ==
    ASSUME NEW S, NEW u \in Seq(S), NEW v \in Seq(S), v # <<>>
    PROVE  /\ Append(u, Head(v)) \in Seq(S)
           /\ Tail(v) \in Seq(S)
           /\ Append(u, Head(v)) \o Tail(v) = u \o v
<1>1. /\ Head(v) \in S
      /\ Tail(v) \in Seq(S)
      /\ Len(Tail(v)) = Len(v) - 1
      /\ \A i \in 1 .. Len(Tail(v)) : Tail(v)[i] = v[i + 1]
      /\ Head(v) = v[1]
      /\ Len(v) \in Nat \ {0}
      /\ Len(u) \in Nat
  BY HeadTailProperties, EmptySeq, LenProperties
<1>2. /\ Append(u, Head(v)) \in Seq(S)
      /\ Len(Append(u, Head(v))) = Len(u) + 1
      /\ \A i \in 1 .. Len(u) : Append(u, Head(v))[i] = u[i]
      /\ Append(u, Head(v))[Len(u) + 1] = v[1]
  BY <1>1, AppendProperties
<1> DEFINE left == Append(u, Head(v)) \o Tail(v)
           right == u \o v
<1>3. left \in Seq(S) /\ Len(left) = Len(u) + Len(v)
  BY <1>1, <1>2, ConcatProperties
<1>4. right \in Seq(S) /\ Len(right) = Len(u) + Len(v)
  BY ConcatProperties
<1>5. ASSUME NEW i \in 1 .. Len(u) + Len(v)
      PROVE  left[i] = right[i]
  <2>1. left[i] = IF i <= Len(u) + 1 THEN Append(u, Head(v))[i] ELSE Tail(v)[i - (Len(u) + 1)]
    BY <1>1, <1>2, ConcatProperties
  <2>2. right[i] = IF i <= Len(u) THEN u[i] ELSE v[i - Len(u)]
    BY ConcatProperties
  <2>3. CASE i <= Len(u)
    BY <1>1, <1>2, <2>1, <2>2, <2>3
  <2>4. CASE i = Len(u) + 1
    BY <1>1, <1>2, <2>1, <2>2, <2>4
  <2>5. CASE i > Len(u) + 1
    <3>1. i - (Len(u) + 1) \in 1 .. Len(Tail(v))
      BY <1>1, <2>5
    <3> QED
      BY <1>1, <2>1, <2>2, <2>5, <3>1
  <2> QED
    BY <1>1, <2>3, <2>4, <2>5
<1>6. left = right
  BY <1>3, <1>4, <1>5, SeqEqual
<1> QED
  BY <1>1, <1>2, <1>6

\* Appending a new element to a duplicate-free sequence keeps it so.
LEMMA AppendNew ==
    ASSUME NEW S, NEW u \in Seq(S), NEW e \in S, IsInjective(u), e \notin Range(u)
    PROVE  IsInjective(Append(u, e)) /\ Range(Append(u, e)) = Range(u) \cup {e}
<1>1. /\ Append(u, e) \in Seq(S)
      /\ Len(Append(u, e)) = Len(u) + 1
      /\ \A i \in 1 .. Len(u) : Append(u, e)[i] = u[i]
      /\ Append(u, e)[Len(u) + 1] = e
  BY AppendProperties
<1>2. Len(u) \in Nat /\ DOMAIN u = 1 .. Len(u) /\ DOMAIN Append(u, e) = 1 .. Len(u) + 1
  BY <1>1, LenProperties
<1>3. \A i \in 1 .. Len(u) : u[i] # e
  BY <1>2 DEF Range
<1>4. ASSUME NEW i \in 1 .. Len(u) + 1, NEW j \in 1 .. Len(u) + 1,
             Append(u, e)[i] = Append(u, e)[j]
      PROVE  i = j
  BY <1>1, <1>2, <1>3, <1>4 DEF IsInjective
<1>5. IsInjective(Append(u, e))
  BY <1>2, <1>4 DEF IsInjective
<1>6. Range(Append(u, e)) = Range(u) \cup {e}
  <2>1. \A i \in 1 .. Len(u) + 1 : i \in 1 .. Len(u) \/ i = Len(u) + 1
    BY <1>2
  <2> QED
    BY <1>1, <1>2, <2>1 DEF Range
<1> QED
  BY <1>5, <1>6

\* Cutting the middle out of a duplicate-free sequence leaves a duplicate-free
\* sequence that shares nothing with what was cut out.
LEMMA CutMiddle ==
    ASSUME NEW S, NEW a \in Seq(S), NEW b \in Seq(S), NEW c \in Seq(S),
           IsInjective(a \o (b \o c))
    PROVE  /\ IsInjective(a \o c)
           /\ Range(b) \cap Range(a \o c) = {}
           /\ Range(a \o c) = Range(a) \cup Range(c)
           /\ Range(a \o (b \o c)) = Range(a) \cup Range(b) \cup Range(c)
<1> DEFINE bc == b \o c
           abc == a \o bc
           ac == a \o c
<1>1. Len(a) \in Nat /\ Len(b) \in Nat /\ Len(c) \in Nat
  BY LenProperties
<1>2. /\ bc \in Seq(S)
      /\ Len(bc) = Len(b) + Len(c)
      /\ \A i \in 1 .. Len(b) + Len(c) :
            bc[i] = IF i <= Len(b) THEN b[i] ELSE c[i - Len(b)]
  BY ConcatProperties
<1>3. /\ abc \in Seq(S)
      /\ Len(abc) = Len(a) + Len(b) + Len(c)
      /\ \A i \in 1 .. Len(a) + Len(b) + Len(c) :
            abc[i] = IF i <= Len(a) THEN a[i] ELSE bc[i - Len(a)]
  BY <1>1, <1>2, ConcatProperties
<1>4. /\ ac \in Seq(S)
      /\ Len(ac) = Len(a) + Len(c)
      /\ \A i \in 1 .. Len(a) + Len(c) :
            ac[i] = IF i <= Len(a) THEN a[i] ELSE c[i - Len(a)]
  BY ConcatProperties
<1>5. /\ DOMAIN abc = 1 .. Len(a) + Len(b) + Len(c)
      /\ DOMAIN ac = 1 .. Len(a) + Len(c)
      /\ DOMAIN b = 1 .. Len(b)
  BY <1>1, <1>3, <1>4, LenProperties
\* where an index of the short sequence was in the long one
<1> DEFINE at(i) == IF i <= Len(a) THEN i ELSE i + Len(b)
<1>6. \A i \in 1 .. Len(a) + Len(c) :
         at(i) \in 1 .. Len(a) + Len(b) + Len(c) /\ abc[at(i)] = ac[i]
  <2> TAKE i \in 1 .. Len(a) + Len(c)
  <2>1. CASE i <= Len(a)
    BY <1>1, <1>3, <1>4, <2>1
  <2>2. CASE i > Len(a)
    <3>1. at(i) = i + Len(b) /\ ~(at(i) <= Len(a)) /\ at(i) \in 1 .. Len(a) + Len(b) + Len(c)
      BY <1>1, <2>2
    <3>2. abc[at(i)] = bc[i + Len(b) - Len(a)]
      BY <1>3, <3>1
    <3>3. i + Len(b) - Len(a) \in 1 .. Len(b) + Len(c) /\ ~(i + Len(b) - Len(a) <= Len(b))
      BY <1>1, <2>2
    <3>4. bc[i + Len(b) - Len(a)] = c[i + Len(b) - Len(a) - Len(b)]
      BY <1>2, <3>3
    <3>5. i + Len(b) - Len(a) - Len(b) = i - Len(a)
      BY <1>1
    <3> QED
      BY <1>4, <2>2, <3>1, <3>2, <3>4, <3>5
  <2> QED
    BY <1>1, <2>1, <2>2
<1>7. \A j \in 1 .. Len(b) :
         Len(a) + j \in 1 .. Len(a) + Len(b) + Len(c) /\ abc[Len(a) + j] = b[j]
  <2> TAKE j \in 1 .. Len(b)
  <2>1. Len(a) + j \in 1 .. Len(a) + Len(b) + Len(c) /\ ~(Len(a) + j <= Len(a))
    BY <1>1
  <2>2. abc[Len(a) + j] = bc[Len(a) + j - Len(a)]
    BY <1>3, <2>1
  <2>3. Len(a) + j - Len(a) = j /\ j \in 1 .. Len(b) + Len(c) /\ j <= Len(b)
    BY <1>1
  <2> QED
    BY <1>2, <2>1, <2>2, <2>3
<1>8. IsInjective(ac)
  <2> SUFFICES ASSUME NEW i \in 1 .. Len(a) + Len(c), NEW j \in 1 .. Len(a) + Len(c),
                      ac[i] = ac[j]
               PROVE  i = j
    BY <1>5 DEF IsInjective
  <2>1. at(i) = at(j)
    BY <1>5, <1>6 DEF IsInjective
  <2> QED
    BY <1>1, <2>1
<1>9. Range(b) \cap Range(ac) = {}
  <2> SUFFICES ASSUME NEW i \in 1 .. Len(a) + Len(c), NEW j \in 1 .. Len(b), ac[i] = b[j]
               PROVE  FALSE
    BY <1>5 DEF Range
  <2>1. at(i) = Len(a) + j
    BY <1>5, <1>6, <1>7 DEF IsInjective
  <2> QED
    BY <1>1, <2>1
<1>10. /\ Range(ac) = Range(a) \cup Range(c)
       /\ Range(abc) = Range(a) \cup Range(bc)
       /\ Range(bc) = Range(b) \cup Range(c)
  <2>1. Range(ac) = Range(a) \cup Range(c)
    BY RangeConcatenation
  <2>2. Range(bc) = Range(b) \cup Range(c)
    BY RangeConcatenation
  <2>3. ASSUME NEW d \in Seq(S) PROVE Range(a \o d) = Range(a) \cup Range(d)
    BY RangeConcatenation
  <2>4. Range(abc) = Range(a) \cup Range(bc)
    BY <1>2, <2>3
  <2> QED
    BY <2>1, <2>2, <2>4
<1> QED
  BY <1>8, <1>9, <1>10

\* Likewise for cutting off the end.
LEMMA CutEnd ==
    ASSUME NEW S, NEW a \in Seq(S), NEW b \in Seq(S), IsInjective(a \o b)
    PROVE  IsInjective(a) /\ Range(b) \cap Range(a) = {}
<1>1. <<>> \in Seq(S) /\ b \o <<>> = b /\ a \o <<>> = a
  BY EmptySeq, ConcatEmptySeq
<1> DEFINE e == <<>>
<1>2. e \in Seq(S) /\ IsInjective(a \o (b \o e)) /\ a \o e = a
  BY <1>1
<1> HIDE DEF e
<1>3. IsInjective(a \o e) /\ Range(b) \cap Range(a \o e) = {}
  BY <1>2, CutMiddle
<1> QED
  BY <1>2, <1>3

\* Appending to the second of two sequences appends to their concatenation.
LEMMA AppendConcat ==
    ASSUME NEW S, NEW u \in Seq(S), NEW v \in Seq(S), NEW e \in S
    PROVE  Append(u \o v, e) = u \o Append(v, e)
<1> DEFINE w == u \o v
           x == <<e>>
<1>1. w \in Seq(S)
  BY ConcatProperties
<1>2. x \in Seq(S)
  OBVIOUS
<1>3. Append(v, e) = v \o x
  BY AppendIsConcat
<1>4. (u \o v) \o x = u \o (v \o x)
  <2> HIDE DEF x
  <2> QED
    BY <1>2, ConcatAssociative
<1>5. Append(w, e) = w \o x
  <2> HIDE DEF w
  <2> QED
    BY <1>1, AppendIsConcat
<1> QED
  BY <1>3, <1>4, <1>5

-----------------------------------------------------------------------------
(* Type correctness and bounds *)

\* Every step of the buffer and of the process keeps the types.
LEMMA TypeStep ==
    ASSUME TypeOK, [Next]_vars
    PROVE  TypeOK'
<1> USE DEF TypeOK
<1>1. Range(batch) \subseteq Records /\ Range(channel) \subseteq Records
  BY RangeOfSeq
<1>2. ASSUME NEW r \in Records, Enqueue(r) \/ Refuse(r)
      PROVE  TypeOK'
  BY <1>2, AppendProperties DEF Enqueue, Refuse
<1>3. CASE TaskStart
  BY <1>1, <1>3, EmptySeq DEF TaskStart
<1>4. CASE Receive
  BY <1>4, MoveHead DEF Receive
<1>5. CASE Tick \/ FlushBegin
  BY <1>5 DEF Tick, FlushBegin
<1>6. CASE FlushCommit
  BY <1>6, ConcatProperties, EmptySeq DEF FlushCommit
<1>7. CASE FlushFail
  BY <1>1, <1>7, EmptySeq DEF FlushFail
<1>8. CASE Shutdown \/ Start
  BY <1>8 DEF Shutdown, Start
<1>9. CASE Gone
  BY <1>1, <1>9, EmptySeq DEF Gone
<1>10. CASE UNCHANGED vars
  BY <1>10 DEF vars
<1> QED
  BY <1>2, <1>3, <1>4, <1>5, <1>6, <1>7, <1>8, <1>9, <1>10 DEF Next, Flush, Exit, Crash

\* Every variable keeps its type, through crashes and restarts.
THEOREM TypeCorrect == Spec => []TypeOK
<1>1. Init => TypeOK
  BY DEF Init, TypeOK
<1> QED
  BY <1>1, TypeStep, PTL DEF Spec

\* The batch is empty when the task is not in its loop.
IdleBatchEmpty == task \in {"starting", "dead"} => batch = <<>>

BoundInv == BufferBounded /\ IdleBatchEmpty

\* Every step of the flush loop and of the senders keeps both queues bounded.
LEMMA BoundInvStep ==
    ASSUME TypeOK, BoundInv, [Next]_vars
    PROVE  BoundInv'
<1> USE BufferAssumption DEF BoundInv, BufferBounded, IdleBatchEmpty, TypeOK
<1>1. Len(batch) \in Nat /\ Len(channel) \in Nat /\ Len(<<>>) = 0
  BY LenProperties, EmptySeq
<1>2. ASSUME NEW r \in Records, Enqueue(r)
      PROVE  BoundInv'
  <2>1. Len(channel') = Len(channel) + 1
    BY <1>2, AppendProperties DEF Enqueue
  <2> QED
    BY <1>1, <1>2, <2>1 DEF Enqueue
<1>3. ASSUME NEW r \in Records, Refuse(r)
      PROVE  BoundInv'
  BY <1>3 DEF Refuse
<1>4. CASE TaskStart
  BY <1>1, <1>4 DEF TaskStart
<1>5. CASE Receive
  <2>1. Head(channel) \in Records /\ Len(channel') = Len(channel) - 1
    BY <1>5, HeadTailProperties DEF Receive
  <2>2. batch' # <<>> /\ Len(batch') = Len(batch) + 1
    BY <1>5, <2>1, AppendProperties DEF Receive
  <2> QED
    BY <1>1, <1>5, <2>1, <2>2 DEF Receive
<1>6. CASE Tick \/ FlushBegin
  BY <1>1, <1>6 DEF Tick, FlushBegin
<1>7. CASE FlushCommit \/ FlushFail
  BY <1>1, <1>7 DEF FlushCommit, FlushFail
<1>8. CASE Shutdown \/ Start
  BY <1>8 DEF Shutdown, Start
<1>9. CASE Gone
  BY <1>1, <1>9 DEF Gone
<1>10. CASE UNCHANGED vars
  BY <1>10 DEF vars
<1> QED
  BY <1>2, <1>3, <1>4, <1>5, <1>6, <1>7, <1>8, <1>9, <1>10 DEF Next, Flush, Exit, Crash

\* Memory stays bounded: at most write_buffer_size records in the channel and
\* batch_size in the batch, for every choice of the two.
THEOREM Bounded == Spec => []BufferBounded
<1>1. Init => BoundInv
  BY BufferAssumption, EmptySeq DEF Init, BoundInv, BufferBounded, IdleBatchEmpty
<1>2. TypeOK /\ BoundInv /\ [Next]_vars => BoundInv'
  BY BoundInvStep
<1>3. BoundInv => BufferBounded
  BY DEF BoundInv
<1> QED
  BY <1>1, <1>2, <1>3, TypeCorrect, PTL DEF Spec

-----------------------------------------------------------------------------
(* Each record once *)

\* Every step keeps a record in one place: a move from channel to batch or from
\* batch to table, a loss, and a refusal are exclusive.
LEMMA EachRecordOnceStep ==
    ASSUME TypeOK, BoundInv, EachRecordOnce, [Next]_vars
    PROVE  EachRecordOnce'
<1> USE DEF TypeOK
<1>1. /\ stored \in Seq(Records) /\ batch \in Seq(Records) /\ channel \in Seq(Records)
      /\ batch \o channel \in Seq(Records)
      /\ Kept \in Seq(Records)
  BY ConcatProperties DEF Kept, Pending
<1>2. IsInjective(stored \o (batch \o channel))
  BY DEF EachRecordOnce, Kept, Pending
<1>3. /\ IsInjective(stored \o channel)
      /\ Range(batch) \cap Range(stored \o channel) = {}
      /\ Range(stored \o channel) = Range(stored) \cup Range(channel)
      /\ Range(Kept) = Range(stored) \cup Range(batch) \cup Range(channel)
  BY <1>2, CutMiddle DEF Kept, Pending
<1>4. ASSUME NEW r \in Records, Fresh(r), Enqueue(r)
      PROVE  EachRecordOnce'
  <2>1. Kept' = Append(Kept, r)
    <3>1. batch \o Append(channel, r) = Append(batch \o channel, r)
      BY AppendConcat
    <3> DEFINE p == batch \o channel
    <3>2. p \in Seq(Records)
      BY <1>1
    <3>3. stored \o Append(p, r) = Append(stored \o p, r)
      <4> HIDE DEF p
      <4> QED
        BY <3>2, AppendConcat
    <3> QED
      BY <1>4, <3>1, <3>3 DEF Kept, Pending, Enqueue
  <2>2. r \notin Range(Kept)
    BY <1>4 DEF Fresh
  <2>3. IsInjective(Kept') /\ Range(Kept') = Range(Kept) \cup {r}
    BY <1>1, <2>1, <2>2, AppendNew DEF EachRecordOnce
  <2> QED
    BY <1>4, <2>3 DEF EachRecordOnce, Fresh, Enqueue
<1>5. ASSUME NEW r \in Records, Fresh(r), Refuse(r)
      PROVE  EachRecordOnce'
  <2>1. Kept' = Kept
    BY <1>5 DEF Refuse, Kept, Pending
  <2> QED
    BY <1>5, <2>1 DEF EachRecordOnce, Fresh, Refuse
<1>6. CASE Receive
  <2>1. Append(batch, Head(channel)) \o Tail(channel) = batch \o channel
    BY <1>6, MoveHead DEF Receive
  <2>2. Kept' = Kept
    BY <1>6, <2>1 DEF Receive, Kept, Pending
  <2> QED
    BY <1>6, <2>2 DEF EachRecordOnce, Receive
<1>7. CASE FlushCommit
  <2>1. Kept' = Kept
    <3>1. stored \o batch \in Seq(Records) /\ <<>> \o channel = channel
      BY ConcatProperties, ConcatEmptySeq
    <3>2. (stored \o batch) \o channel = stored \o (batch \o channel)
      BY ConcatAssociative
    <3> QED
      BY <1>7, <3>1, <3>2 DEF FlushCommit, Kept, Pending
  <2> QED
    BY <1>7, <2>1 DEF EachRecordOnce, FlushCommit
<1>8. CASE FlushFail
  <2>1. Kept' = stored \o channel
    BY <1>8, ConcatEmptySeq DEF FlushFail, Kept, Pending
  <2> QED
    BY <1>3, <1>8, <2>1 DEF EachRecordOnce, FlushFail
<1>9. CASE TaskStart
  <2>1. CASE FlushInterval > 0
    <3>1. Kept' = Kept
      BY <1>9, <2>1 DEF TaskStart, Kept, Pending
    <3> QED
      BY <1>9, <2>1, <3>1 DEF EachRecordOnce, TaskStart
  <2>2. CASE ~(FlushInterval > 0)
    <3>1. batch = <<>>
      BY <1>9 DEF TaskStart, BoundInv, IdleBatchEmpty
    <3>2. <<>> \in Seq(Records) /\ stored \o <<>> = stored /\ batch \o channel = channel
      BY <3>1, EmptySeq, ConcatEmptySeq
    <3>3. Kept' = stored
      BY <1>9, <2>2, <3>1, <3>2, ConcatEmptySeq DEF TaskStart, Kept, Pending
    <3>4. IsInjective(stored) /\ Range(channel) \cap Range(stored) = {}
      <4>1. IsInjective(stored \o channel)
        BY <1>2, <3>2
      <4> QED
        BY <4>1, CutEnd
    <3> QED
      BY <1>3, <1>9, <2>2, <3>3, <3>4 DEF EachRecordOnce, TaskStart
  <2> QED
    BY <2>1, <2>2
<1>10. CASE Gone
  <2>1. Kept' = stored
    BY <1>10, EmptySeq, ConcatEmptySeq DEF Gone, Kept, Pending
  <2>2. IsInjective(stored) /\ Range(batch \o channel) \cap Range(stored) = {}
    <3> DEFINE p == batch \o channel
    <3>1. p \in Seq(Records)
      BY <1>1
    <3>2. IsInjective(stored \o p)
      BY <1>2
    <3>3. IsInjective(stored) /\ Range(p) \cap Range(stored) = {}
      <4> HIDE DEF p
      <4> QED
        BY <3>1, <3>2, CutEnd
    <3> QED
      BY <3>3
  <2>3. Range(batch \o channel) = Range(batch) \cup Range(channel)
    BY RangeConcatenation
  <2> QED
    BY <1>3, <1>10, <2>1, <2>2, <2>3 DEF EachRecordOnce, Gone
<1>11. CASE Tick \/ FlushBegin \/ Shutdown \/ Start \/ UNCHANGED vars
  <2>1. UNCHANGED <<stored, batch, channel, lost, refused>>
    BY <1>11 DEF Tick, FlushBegin, Shutdown, Start, vars
  <2> QED
    BY <2>1 DEF EachRecordOnce, Kept, Pending
<1> QED
  BY <1>4, <1>5, <1>6, <1>7, <1>8, <1>9, <1>10, <1>11 DEF Next, Flush, Exit, Crash

\* No record is ever stored twice, stored and lost, or stored after being
\* refused, in whatever order batches fill, flush, fail and are cut short.
THEOREM NeverTwice == Spec => []EachRecordOnce
<1>1. Init => EachRecordOnce
  <2> SUFFICES ASSUME Init PROVE EachRecordOnce
    OBVIOUS
  <2>1. Kept = <<>> /\ <<>> \in Seq(Records) /\ Len(<<>>) = 0
    BY EmptySeq, ConcatEmptySeq DEF Init, Kept, Pending
  <2>2. IsInjective(<<>>) /\ Range(<<>>) = {}
    BY DEF IsInjective, Range
  <2> QED
    BY <2>1, <2>2 DEF Init, EachRecordOnce
<1>2. Init => BoundInv
  BY BufferAssumption, EmptySeq DEF Init, BoundInv, BufferBounded, IdleBatchEmpty
<1>3. TypeOK /\ BoundInv /\ [Next]_vars => BoundInv'
  BY BoundInvStep
<1>4. TypeOK /\ BoundInv /\ EachRecordOnce /\ [Next]_vars => EachRecordOnce'
  BY EachRecordOnceStep
<1> QED
  BY <1>1, <1>2, <1>3, <1>4, TypeCorrect, PTL DEF Spec

-----------------------------------------------------------------------------
(* The buffer implements best-effort ordered storage *)

\* The first part of a concatenation, and what follows it.
LEMMA SplitConcat ==
    ASSUME NEW S, NEW u \in Seq(S), NEW v \in Seq(S)
    PROVE  /\ Len(u \o v) = Len(u) + Len(v)
           /\ SubSeq(u \o v, 1, Len(u)) = u
           /\ SubSeq(u \o v, Len(u) + 1, Len(u \o v)) = v
<1> DEFINE w == u \o v
<1>1. /\ w \in Seq(S)
      /\ Len(w) = Len(u) + Len(v)
      /\ \A i \in 1 .. Len(u) + Len(v) : w[i] = IF i <= Len(u) THEN u[i] ELSE v[i - Len(u)]
      /\ Len(u) \in Nat /\ Len(v) \in Nat
  BY ConcatProperties, LenProperties
<1> HIDE DEF w
<1>2. \A i \in 1 .. Len(w) : w[i] \in S
  BY <1>1, ElementOfSeq
<1>3. /\ SubSeq(w, 1, Len(u)) \in Seq(S)
      /\ Len(SubSeq(w, 1, Len(u))) = Len(u)
      /\ \A i \in 1 .. Len(u) : SubSeq(w, 1, Len(u))[i] = u[i]
  <2>1. \A i \in 1 .. Len(u) : w[i] \in S
    BY <1>1, <1>2
  <2> QED
    BY <1>1, <2>1, SubSeqProperties
<1>4. /\ SubSeq(w, Len(u) + 1, Len(w)) \in Seq(S)
      /\ Len(SubSeq(w, Len(u) + 1, Len(w))) = Len(v)
      /\ \A i \in 1 .. Len(v) : SubSeq(w, Len(u) + 1, Len(w))[i] = v[i]
  <2>1. \A i \in Len(u) + 1 .. Len(w) : w[i] \in S
    BY <1>1, <1>2
  <2>2. /\ SubSeq(w, Len(u) + 1, Len(w)) \in Seq(S)
        /\ Len(SubSeq(w, Len(u) + 1, Len(w))) = Len(v)
        /\ \A i \in 1 .. Len(v) : SubSeq(w, Len(u) + 1, Len(w))[i] = w[Len(u) + 1 + i - 1]
    BY <1>1, <2>1, SubSeqProperties
  <2>3. ASSUME NEW i \in 1 .. Len(v) PROVE w[Len(u) + 1 + i - 1] = v[i]
    <3>1. Len(u) + 1 + i - 1 \in 1 .. Len(u) + Len(v) /\ ~(Len(u) + 1 + i - 1 <= Len(u))
      BY <1>1
    <3>2. Len(u) + 1 + i - 1 - Len(u) = i
      <4>1. Len(u) \in Nat /\ i \in Nat
        BY LenProperties
      <4> QED
        BY <4>1
    <3> QED
      BY <1>1, <3>1, <3>2
  <2> QED
    BY <2>2, <2>3
<1>5. SubSeq(w, 1, Len(u)) = u /\ SubSeq(w, Len(u) + 1, Len(w)) = v
  BY <1>1, <1>3, <1>4, SeqEqual
<1> QED
  BY <1>1, <1>5 DEF w

\* The flush task dies only of a zero interval.
DeadOnlyOfZero == task = "dead" => FlushInterval = 0

\* Only the first poll of the task can kill it, and only at a zero interval.
LEMMA DeadOnlyOfZeroStep ==
    ASSUME DeadOnlyOfZero, [Next]_vars
    PROVE  DeadOnlyOfZero'
  BY IntervalAssumption
     DEF DeadOnlyOfZero, Next, vars, Enqueue, Refuse, TaskStart, Receive, Tick, Flush,
         FlushBegin, FlushCommit, FlushFail, Shutdown, Exit, Crash, Gone, Start

\* Every step of the buffer is a step of TelemetryStore or leaves its view of
\* the buffer unchanged.
LEMMA RefinementStep ==
    ASSUME TypeOK, BoundInv, DeadOnlyOfZero, [Next]_vars
    PROVE  [Store!Next]_Store!vars
<1> USE DEF TypeOK
<1>0. \A f : Store!Range(f) = Range(f)
  BY DEF Range, Store!Range
<1>1. /\ Len(batch) \in Nat /\ Len(channel) \in Nat
      /\ Len(Pending) = Len(batch) + Len(channel)
      /\ Pending \in Seq(Records)
      /\ Range(Pending) = Range(batch) \cup Range(channel)
      /\ Range(Kept) = Range(stored) \cup Range(Pending)
  <2>1. Pending \in Seq(Records) /\ Len(Pending) = Len(batch) + Len(channel)
    BY ConcatProperties DEF Pending
  <2>2. Range(Pending) = Range(batch) \cup Range(channel)
    BY RangeConcatenation DEF Pending
  <2>3. Range(Kept) = Range(stored) \cup Range(Pending)
    BY <2>1, RangeConcatenation DEF Kept
  <2> QED
    BY <2>1, <2>2, <2>3, LenProperties
<1>2. ASSUME NEW r \in Records, Fresh(r), Enqueue(r)
      PROVE  Store!Accept(r)
  <2>1. Pending' = Append(Pending, r)
    BY <1>2, AppendConcat DEF Enqueue, Pending
  <2>2. Len(Pending) < BufferSize + BatchSize
    BY <1>1, <1>2, BufferAssumption DEF Enqueue, BoundInv, BufferBounded
  <2> QED
    BY <1>0, <1>1, <1>2, <2>1, <2>2 DEF Store!Accept, Store!Known, Fresh, Enqueue
<1>3. ASSUME NEW r \in Records, Fresh(r), Refuse(r)
      PROVE  Store!Refuse(r)
  <2>1. Pending' = Pending
    BY <1>3 DEF Refuse, Pending
  <2>2. Len(Pending) >= IF FlushInterval > 0 THEN BufferSize ELSE 0
    BY <1>1, <1>3, BufferAssumption, IntervalAssumption DEF Refuse, DeadOnlyOfZero
  <2> QED
    BY <1>0, <1>1, <1>3, <2>1, <2>2 DEF Store!Refuse, Store!Known, Fresh, Refuse
<1>4. CASE FlushCommit \/ FlushFail
  <2>1. Len(batch) \in 1 .. BatchSize /\ Len(batch) <= Len(Pending)
    <3>1. batch # <<>> /\ Len(batch) <= BatchSize
      BY <1>4 DEF FlushCommit, FlushFail, BoundInv, BufferBounded
    <3> QED
      BY <1>1, <3>1, EmptySeq, BufferAssumption
  <2>2. /\ SubSeq(Pending, 1, Len(batch)) = batch
        /\ SubSeq(Pending, Len(batch) + 1, Len(Pending)) = channel
    BY SplitConcat DEF Pending
  <2>3. Pending' = channel
    BY <1>4, ConcatEmptySeq DEF FlushCommit, FlushFail, Pending
  <2>4. CASE FlushCommit
    <3>1. Store!Store(Len(batch))
      BY <2>1, <2>2, <2>3, <2>4 DEF Store!Store, FlushCommit
    <3> QED
      BY <2>1, <3>1 DEF Store!Next
  <2>5. CASE FlushFail
    <3>1. Store!Lose(Len(batch))
      BY <1>0, <2>1, <2>2, <2>3, <2>5 DEF Store!Lose, FlushFail
    <3> QED
      BY <2>1, <3>1 DEF Store!Next
  <2> QED
    BY <1>4, <2>4, <2>5
<1>5. CASE Gone
  <2>1. Pending' = <<>>
    BY <1>5, EmptySeq, ConcatEmptySeq DEF Gone, Pending
  <2> QED
    BY <1>0, <1>1, <1>5, <2>1 DEF Gone, Store!Next, Store!LoseAll
<1>6. CASE TaskStart
  <2>1. batch = <<>> /\ Pending = channel
    BY <1>6, ConcatEmptySeq DEF TaskStart, BoundInv, IdleBatchEmpty, Pending
  <2>2. CASE FlushInterval > 0
    BY <1>6, <2>2 DEF TaskStart, Pending, Store!vars
  <2>3. CASE ~(FlushInterval > 0)
    <3>1. Pending' = <<>>
      BY <1>6, <2>1, <2>3, EmptySeq, ConcatEmptySeq DEF TaskStart, Pending
    <3> QED
      BY <1>0, <1>6, <2>1, <2>3, <3>1 DEF TaskStart, Store!Next, Store!LoseAll
  <2> QED
    BY <2>2, <2>3
<1>7. CASE Receive
  <2>1. Append(batch, Head(channel)) \o Tail(channel) = batch \o channel
    BY <1>7, MoveHead DEF Receive
  <2> QED
    BY <1>7, <2>1 DEF Receive, Pending, Store!vars
<1>8. CASE Tick \/ FlushBegin \/ Shutdown \/ Start \/ UNCHANGED vars
  BY <1>8 DEF Tick, FlushBegin, Shutdown, Start, vars, Pending, Store!vars
<1> QED
  BY <1>2, <1>3, <1>4, <1>5, <1>6, <1>7, <1>8
     DEF Next, Flush, Exit, Crash, Store!Next

\* For every capacity, batch size and flush interval the buffer is a best-effort
\* ordered store: batches are stored or lost whole, in the order their records
\* were accepted, and a live flush task refuses a record only when
\* write_buffer_size records are waiting.
THEOREM Refinement == Spec => IsBestEffortStore
<1>1. Init => Store!Init
  BY EmptySeq, ConcatEmptySeq DEF Init, Store!Init, Pending
<1>2. Init => BoundInv /\ DeadOnlyOfZero
  BY BufferAssumption, EmptySeq
     DEF Init, BoundInv, BufferBounded, IdleBatchEmpty, DeadOnlyOfZero
<1>3. TypeOK /\ BoundInv /\ [Next]_vars => BoundInv'
  BY BoundInvStep
<1>4. DeadOnlyOfZero /\ [Next]_vars => DeadOnlyOfZero'
  BY DeadOnlyOfZeroStep
<1>5. TypeOK /\ BoundInv /\ DeadOnlyOfZero /\ [Next]_vars => [Store!Next]_Store!vars
  BY RefinementStep
<1> QED
  BY <1>1, <1>2, <1>3, <1>4, <1>5, TypeCorrect, PTL DEF Spec, Store!Spec, IsBestEffortStore

\* What the documentation of try_send says, wherever it holds: under a timer
\* that can be built the only thing that turns a record away is a channel of
\* exactly write_buffer_size records.  A timer of zero is the only exception.
THEOREM RefusesWhenFull ==
  ASSUME FlushInterval # 0
  PROVE  Spec => RefusedOnlyWhenFull
<1>1. Init => BoundInv /\ DeadOnlyOfZero
  BY BufferAssumption, EmptySeq
     DEF Init, BoundInv, BufferBounded, IdleBatchEmpty, DeadOnlyOfZero
<1>2. TypeOK /\ BoundInv /\ [Next]_vars => BoundInv'
  BY BoundInvStep
<1>3. DeadOnlyOfZero /\ [Next]_vars => DeadOnlyOfZero'
  BY DeadOnlyOfZeroStep
<1>4. ASSUME TypeOK, BoundInv, DeadOnlyOfZero, [Next]_vars
      PROVE  [refused' # refused => Len(channel) = BufferSize]_vars
  <2>1. ASSUME NEW r \in Records, Refuse(r)
        PROVE  Len(channel) = BufferSize
    <3>1. task # "dead"
      BY <1>4, IntervalAssumption DEF DeadOnlyOfZero
    <3>2. Len(channel) >= BufferSize /\ Len(channel) <= BufferSize
      BY <1>4, <2>1, <3>1 DEF Refuse, BoundInv, BufferBounded
    <3>3. Len(channel) \in Nat
      BY <1>4, LenProperties DEF TypeOK
    <3> QED
      BY <3>2, <3>3, BufferAssumption
  <2>2. CASE \E r \in Records : Fresh(r) /\ Refuse(r)
    BY <2>1, <2>2
  <2>3. CASE ~ \E r \in Records : Fresh(r) /\ Refuse(r)
    <3>1. refused' = refused
      BY <1>4, <2>3
         DEF Next, Enqueue, TaskStart, Receive, Tick, Flush, FlushBegin,
             FlushCommit, FlushFail, Shutdown, Exit, Crash, Gone, Start, vars
    <3> QED
      BY <3>1
  <2> QED
    BY <2>2, <2>3
<1> QED
  BY <1>1, <1>2, <1>3, <1>4, TypeCorrect, PTL DEF Spec, RefusedOnlyWhenFull
=============================================================================
