------------------------ MODULE DepthProviderProofs ------------------------
(***************************************************************************)
(* What DepthProvider guarantees for any services, answers, limits and     *)
(* times: when the circuit breaker lets requests through, what a stored    *)
(* flow holds behind the native edges, and what resolution leaves alone.   *)
(***************************************************************************)
EXTENDS DepthProvider, FiniteSetTheorems, SequenceTheorems,
        WellFoundedInduction, TLAPS

\* The failures in a row up to now.
Row == FailedInARow(Len(history) + 1)

\* Those that the counter counts: the last ones of the row.  The circuit has been
\* open and closed again since the others, so that they are a cooldown ago.
Counted(G) ==
    /\ Cardinality(G) = failures
    /\ \A k \in Row \ G : now - history[k].at >= Cooldown /\ \A l \in G : k < l

IsSequence(q) == \E S : q \in Seq(S)

Timed == \A i \in DOMAIN history : history[i].at \in 0..now

OpenCircuitInv ==
    openedAt # NotOpen =>
        /\ session = NoSession
        /\ openedAt = [at |-> openedAt.at]
        /\ Cardinality(Row) >= Threshold
        /\ \A k \in Row : history[k].at <= openedAt.at
        /\ \E k \in Row : history[k].at = openedAt.at

ClosedCircuitInv ==
    openedAt = NotOpen => failures < Threshold /\ \E G \in SUBSET Row : Counted(G)

CircuitInv ==
    /\ TypeOK
    /\ IsSequence(history) /\ IsSequence(cache)
    /\ session # NoSession => Len(history) < MaxRequests
    /\ Timed
    /\ OpenCircuitInv
    /\ ClosedCircuitInv
    /\ CircuitBreaks

\* An appended element comes after all others and changes none.
LEMMA Appended ==
    ASSUME NEW q, IsSequence(q), NEW e
    PROVE  /\ IsSequence(Append(q, e))
           /\ Len(q) \in Nat /\ Len(Append(q, e)) = Len(q) + 1
           /\ DOMAIN q = 1..Len(q) /\ DOMAIN Append(q, e) = 1..(Len(q) + 1)
           /\ \A i \in 1..Len(q) : Append(q, e)[i] = q[i]
           /\ Append(q, e)[Len(q) + 1] = e
  <1>1. PICK S : q \in Seq(S)
    BY DEF IsSequence
  <1>2. q \in Seq(S \cup {e}) /\ e \in S \cup {e}
    BY <1>1
  <1>3. Append(q, e) \in Seq(S \cup {e})
    BY <1>2
  <1> QED
    BY <1>2, <1>3 DEF IsSequence

\* How one more request changes the failures in a row.
LEMMA RowGrows ==
    ASSUME IsSequence(history), NEW h, history' = Append(history, h)
    PROVE  /\ \A i \in 1..(Len(history) + 1) : FailedInARow(i)' = FailedInARow(i)
           /\ h.what = "answered" => Row' = {}
           /\ h.what = "failed" => Row' = Row \cup {Len(history) + 1}
           /\ h.what \notin {"answered", "failed"} => Row' = Row
  <1> DEFINE n == Len(history)
  <1>1. /\ n \in Nat /\ Len(history') = n + 1
        /\ \A i \in 1..n : history'[i] = history[i]
        /\ history'[n + 1] = h
    BY Appended
  <1> HIDE DEF n
  <1>2. ASSUME NEW i \in 1..(n + 1) PROVE FailedInARow(i)' = FailedInARow(i)
    <2>1. i \in Nat /\ \A j \in 1..(i - 1) : \A k \in j..(i - 1) : k \in 1..n
      BY <1>1
    <2>2. \A j \in 1..(i - 1) : j \in 1..n
      BY <1>1
    <2> QED
      BY <1>1, <2>1, <2>2 DEF FailedInARow
  <1>3. Row' = {j \in 1..(n + 1) : /\ history'[j].what = "failed"
                                   /\ \A k \in j..(n + 1) : history'[k].what # "answered"}
    <2>1. (n + 1) + 1 - 1 = n + 1
      BY <1>1
    <2> QED
      BY <1>1, <2>1 DEF Row, FailedInARow
  <1>4. Row = {j \in 1..n : /\ history[j].what = "failed"
                            /\ \A k \in j..n : history[k].what # "answered"}
    <2>1. n + 1 - 1 = n
      BY <1>1
    <2> QED
      BY <2>1 DEF Row, FailedInARow, n
  <1>5. ASSUME NEW j \in 1..n
        PROVE  j \in Row' <=> j \in Row /\ h.what # "answered"
    <2>1. \A k : k \in j..(n + 1) <=> k \in j..n \/ k = n + 1
      BY <1>1
    <2>2. \A k \in j..n : k \in 1..n
      BY <1>1
    <2> QED
      BY <1>1, <1>3, <1>4, <2>1, <2>2
  <1>6. n + 1 \in Row' <=> h.what = "failed"
    <2>1. \A k \in (n + 1)..(n + 1) : k = n + 1
      BY <1>1
    <2> QED
      BY <1>1, <1>3, <2>1
  <1>7. \A j \in Row' : j \in 1..n \/ j = n + 1
    BY <1>1, <1>3
  <1>8. Row \subseteq 1..n
    BY <1>4
  <1> QED
    BY <1>2, <1>5, <1>6, <1>7, <1>8 DEF n

LEMMA RowFinite ==
    ASSUME IsSequence(history)
    PROVE  /\ Len(history) \in Nat
           /\ Row \subseteq 1..Len(history) /\ IsFiniteSet(Row) /\ Cardinality(Row) \in Nat
           /\ \A G \in SUBSET Row : IsFiniteSet(G) /\ Cardinality(G) \in Nat
                                    /\ Cardinality(G) <= Cardinality(Row)
  <1>1. Len(history) \in Nat /\ Len(history) + 1 - 1 = Len(history)
    BY Appended
  <1>2. Row \subseteq 1..Len(history)
    BY <1>1 DEF Row, FailedInARow
  <1>3. IsFiniteSet(1..Len(history))
    BY <1>1, FS_Interval
  <1>4. IsFiniteSet(Row)
    BY <1>2, <1>3, FS_Subset
  <1> QED
    BY <1>1, <1>2, <1>4, FS_Subset, FS_CardinalityType

-----------------------------------------------------------------------------
(* The end of a request, in each way.                                       *)

\* The property of one entry of the history.
Breaks(i) ==
    /\ history[i].what = "failed" =>
           \A j \in FailedInARow(i) :
               Cardinality({k \in FailedInARow(i) : k >= j}) = Threshold =>
                   history[i].at - history[j].at >= Cooldown
    /\ history[i].what = "skipped" =>
           /\ Cardinality(FailedInARow(i)) >= Threshold
           /\ \E j \in FailedInARow(i) : history[i].at - history[j].at < Cooldown

\* Earlier entries keep the property; the new one has it if it breaks no rule.
LEMMA BreaksAppended ==
    ASSUME CircuitBreaks, IsSequence(history), NEW h, history' = Append(history, h),
           h.what = "failed" =>
               \A j \in Row : Cardinality({k \in Row : k >= j}) = Threshold =>
                   h.at - history[j].at >= Cooldown,
           h.what = "skipped" =>
               /\ Cardinality(Row) >= Threshold
               /\ \E j \in Row : h.at - history[j].at < Cooldown
    PROVE  CircuitBreaks'
  <1>0. PICK n : n = Len(history)
    OBVIOUS
  <1>1. /\ n \in Nat /\ DOMAIN history = 1..n /\ DOMAIN history' = 1..(n + 1)
        /\ \A i \in 1..n : history'[i] = history[i]
        /\ history'[n + 1] = h
    BY <1>0, Appended
  <1>2. \A i \in 1..(n + 1) : FailedInARow(i)' = FailedInARow(i)
    BY <1>0, RowGrows
  <1>3. \A i \in 1..(n + 1) : FailedInARow(i) \subseteq 1..n
    BY <1>1 DEF FailedInARow
  <1>4. Row = FailedInARow(n + 1)
    BY <1>0 DEF Row
  <1>5. ASSUME NEW i \in 1..n PROVE Breaks(i)'
    <2>1. Breaks(i)
      BY <1>1, <1>5 DEF CircuitBreaks, Breaks
    <2>2. i \in 1..(n + 1)
      BY <1>1
    <2>3. /\ FailedInARow(i)' = FailedInARow(i) /\ FailedInARow(i) \subseteq 1..n
          /\ history'[i] = history[i]
      BY <1>1, <1>2, <1>3, <2>2
    <2> QED
      BY <1>1, <2>1, <2>3 DEF Breaks
  <1>6. Breaks(n + 1)'
    <2>1. n + 1 \in 1..(n + 1)
      BY <1>1
    <2>2. FailedInARow(n + 1)' = Row /\ Row \subseteq 1..n
      BY <1>2, <1>3, <1>4, <2>1
    <2> QED
      BY <1>1, <2>2 DEF Breaks
  <1>7. \A i \in DOMAIN history' : Breaks(i)'
    BY <1>1, <1>5, <1>6
  <1> QED
    BY <1>7 DEF CircuitBreaks, Breaks

-----------------------------------------------------------------------------
(* The steps.                                                               *)

LEMMA Limits ==
    /\ MaxEdges \in Nat \ {0} /\ CacheEntries \in Nat \ {0} /\ Threshold \in Nat \ {0}
    /\ Cooldown \in Nat \ {0} /\ MaxRequests \in Nat /\ MaxTime \in Nat
  BY LimitsAssumption

LEMMA InitInv == Init => CircuitInv
  <1> SUFFICES ASSUME Init PROVE CircuitInv
    OBVIOUS
  <1>1. history = <<>> /\ cache = <<>> /\ Len(history) = 0 /\ Len(cache) = 0
    BY DEF Init
  <1>2. <<>> \in Seq({})
    OBVIOUS
  <1>3. IsSequence(history) /\ IsSequence(cache)
    BY <1>1, <1>2 DEF IsSequence
  <1>4. Row = {}
    BY <1>1 DEF Row, FailedInARow
  <1>5. Cardinality({}) = 0
    BY FS_EmptySet
  <1>6. TypeOK
    BY <1>1, Limits DEF Init, TypeOK
  <1>7. Counted({})
    BY <1>4, <1>5 DEF Init, Counted
  <1>8. ClosedCircuitInv
    BY <1>7, Limits DEF ClosedCircuitInv, Init
  <1>9. Timed /\ CircuitBreaks
    BY <1>1 DEF Timed, CircuitBreaks
  <1> QED
    BY <1>3, <1>6, <1>8, <1>9 DEF Init, CircuitInv, OpenCircuitInv

\* A request that the circuit lets through finds it closed, and what is not counted
\* any more is a cooldown ago.
LEMMA CircuitRead ==
    ASSUME CircuitInv, ~CircuitHolds, ReadCircuit
    PROVE  /\ openedAt' = NotOpen /\ failures' \in 0..Threshold /\ failures' < Threshold
           /\ \E G \in SUBSET Row :
                 /\ Cardinality(G) = failures'
                 /\ \A k \in Row \ G : now - history[k].at >= Cooldown /\ \A l \in G : k < l
  <1>1. openedAt' = NotOpen
    BY DEF ReadCircuit
  <1>2. CASE openedAt = NotOpen
    <2>1. failures' = failures /\ failures \in 0..Threshold
      BY <1>2 DEF ReadCircuit, CircuitInv, TypeOK
    <2> QED
      BY <1>1, <1>2, <2>1 DEF CircuitInv, ClosedCircuitInv, Counted
  <1>3. CASE openedAt # NotOpen
    <2>1. failures' = 0
      BY <1>3 DEF ReadCircuit
    <2>2. /\ openedAt.at \in 0..now /\ now \in Nat /\ ~(now - openedAt.at < Cooldown)
          /\ \A k \in Row : history[k].at <= openedAt.at
      BY <1>3, Limits DEF CircuitInv, TypeOK, OpenCircuitInv, CircuitHolds
    <2>3. \A k \in Row : history[k].at \in 0..now
      <3>1. DOMAIN history = 1..Len(history)
        BY Appended DEF CircuitInv
      <3> QED
        BY <3>1, RowFinite DEF CircuitInv, Timed
    <2>4. \A k \in Row : now - history[k].at >= Cooldown
      BY <2>2, <2>3, Limits
    <2>5. Cardinality({}) = 0
      BY FS_EmptySet
    <2>6. \E G \in SUBSET Row :
             /\ Cardinality(G) = 0
             /\ \A k \in Row \ G : now - history[k].at >= Cooldown /\ \A l \in G : k < l
      BY <2>4, <2>5
    <2> QED
      BY <1>1, <2>1, <2>6, Limits
  <1> QED
    BY <1>2, <1>3

\* A step that ends no request.
LEMMA QuietStep ==
    ASSUME CircuitInv, UNCHANGED <<mode, analysis, cache, history, status>>,
           now' \in now..MaxTime,
           session' # NoSession => Len(history) < MaxRequests,
           \/ /\ UNCHANGED <<openedAt, failures>>
              /\ session # NoSession \/ session' = NoSession
           \/ ~CircuitHolds /\ ReadCircuit /\ now' = now
    PROVE  CircuitInv'
  <1>1. Row' = Row /\ \A i : FailedInARow(i)' = FailedInARow(i)
    BY DEF Row, FailedInARow
  <1>2. now \in Nat /\ MaxTime \in Nat /\ now' \in 0..MaxTime /\ now <= now'
    BY Limits DEF CircuitInv, TypeOK
  <1>3. DOMAIN history = 1..Len(history) /\ Row \subseteq 1..Len(history)
    BY Appended, RowFinite DEF CircuitInv
  <1>4. \A i \in DOMAIN history : history[i].at \in 0..now
    BY DEF CircuitInv, Timed
  <1>5. Timed'
    BY <1>2, <1>4 DEF Timed
  <1>6. CircuitBreaks'
    BY <1>1 DEF CircuitInv, CircuitBreaks
  <1>7. \A k \in Row : now - history[k].at >= Cooldown => now' - history[k].at >= Cooldown
    BY <1>2, <1>3, <1>4, Limits
  <1>8. OpenCircuitInv' /\ ClosedCircuitInv' /\ TypeOK'
    <2>1. CASE UNCHANGED <<openedAt, failures>> /\ (session # NoSession \/ session' = NoSession)
      <3>1. OpenCircuitInv'
        BY <1>1, <2>1 DEF CircuitInv, OpenCircuitInv
      <3>2. ASSUME NEW G \in SUBSET Row, Counted(G) PROVE Counted(G)'
        BY <1>1, <1>7, <2>1, <3>2 DEF Counted
      <3>3. ClosedCircuitInv'
        BY <1>1, <2>1, <3>2 DEF CircuitInv, ClosedCircuitInv
      <3>4. openedAt # NotOpen => openedAt.at \in 0..now'
        BY <1>2 DEF CircuitInv, TypeOK
      <3> QED
        BY <1>2, <2>1, <3>1, <3>3, <3>4 DEF CircuitInv, TypeOK
    <2>2. CASE ~CircuitHolds /\ ReadCircuit /\ now' = now
      <3>1. /\ openedAt' = NotOpen /\ failures' \in 0..Threshold /\ failures' < Threshold
            /\ \E G \in SUBSET Row :
                  /\ Cardinality(G) = failures'
                  /\ \A k \in Row \ G : now - history[k].at >= Cooldown /\ \A l \in G : k < l
        BY <2>2, CircuitRead
      <3>2. \E G \in SUBSET Row' : Counted(G)'
        BY <1>1, <2>2, <3>1 DEF Counted
      <3> QED
        BY <1>2, <3>1, <3>2 DEF CircuitInv, TypeOK, OpenCircuitInv, ClosedCircuitInv
    <2> QED
      BY <2>1, <2>2
  <1> QED
    BY <1>5, <1>6, <1>8 DEF CircuitInv

\* What every end of a request adds to the history.
LEMMA EndStep ==
    ASSUME CircuitInv, NEW what, NEW r, NEW heard, Ends(what, r, heard), now' = now,
           Len(history) < MaxRequests
    PROVE  /\ IsSequence(history') /\ Len(history') <= MaxRequests /\ Timed'
           /\ \E h : history' = Append(history, h) /\ h.what = what /\ h.at = now
  <1> DEFINE h == [what |-> what, root |-> r, at |-> now, heard |-> heard]
  <1>1. history' = Append(history, h) /\ h.what = what /\ h.at = now
    BY DEF Ends
  <1>2. /\ IsSequence(history') /\ Len(history) \in Nat /\ Len(history') = Len(history) + 1
        /\ DOMAIN history = 1..Len(history) /\ DOMAIN history' = 1..(Len(history) + 1)
        /\ \A i \in 1..Len(history) : history'[i] = history[i]
        /\ history'[Len(history) + 1].at = now
    BY <1>1, Appended DEF CircuitInv
  <1>3. now \in 0..now
    BY Limits DEF CircuitInv, TypeOK
  <1>4. ASSUME NEW i \in DOMAIN history' PROVE history'[i].at \in 0..now
    <2>1. i \in 1..Len(history) \/ i = Len(history) + 1
      BY <1>2
    <2> QED
      BY <1>2, <1>3, <2>1 DEF CircuitInv, Timed
  <1>5. Timed'
    BY <1>4 DEF Timed
  <1>6. Len(history') <= MaxRequests
    BY <1>2, Limits
  <1> HIDE DEF h
  <1> QED
    BY <1>1, <1>2, <1>5, <1>6

\* A request that the circuit or the cache answers is no failure.
LEMMA PassedOver ==
    ASSUME CircuitInv, NEW r, SkipRequest(r) \/ HitCache(r)
    PROVE  CircuitInv'
  <1>0. /\ Len(history) < MaxRequests /\ session = NoSession
        /\ UNCHANGED <<mode, analysis, now, cache, session, status>>
    BY DEF SkipRequest, HitCache, May
  <1>1. PICK what \in {"skipped", "hit"} :
           /\ Ends(what, r, <<>>)
           /\ what = "skipped" => CircuitHolds /\ UNCHANGED <<failures, openedAt>>
           /\ what = "hit" => ~CircuitHolds /\ ReadCircuit
    BY DEF SkipRequest, HitCache
  <1>2. PICK h : history' = Append(history, h) /\ h.what = what /\ h.at = now
    BY <1>0, <1>1, EndStep
  <1>3. IsSequence(history') /\ Len(history') <= MaxRequests /\ Timed'
    BY <1>0, <1>1, EndStep
  <1>4. Row' = Row
    BY <1>2, RowGrows DEF CircuitInv
  <1>5. \A k \in Row : history'[k] = history[k]
    BY <1>2, Appended, RowFinite DEF CircuitInv
  <1>6. CASE what = "skipped"
    <2>1. openedAt # NotOpen /\ now - openedAt.at < Cooldown
      BY <1>1, <1>6 DEF CircuitHolds
    <2>2. Cardinality(Row) >= Threshold /\ \E k \in Row : history[k].at = openedAt.at
      BY <2>1 DEF CircuitInv, OpenCircuitInv
    <2>3. \E k \in Row : h.at - history[k].at < Cooldown
      BY <1>2, <2>1, <2>2
    <2>4. CircuitBreaks'
      BY <1>2, <1>6, <2>2, <2>3, BreaksAppended DEF CircuitInv
    <2>5. OpenCircuitInv' /\ ClosedCircuitInv'
      BY <1>0, <1>1, <1>4, <1>5, <1>6, <2>1 DEF CircuitInv, OpenCircuitInv, ClosedCircuitInv
    <2> QED
      BY <1>0, <1>1, <1>3, <1>6, <2>4, <2>5 DEF CircuitInv, TypeOK
  <1>7. CASE what = "hit"
    <2>1. /\ openedAt' = NotOpen /\ failures' \in 0..Threshold /\ failures' < Threshold
          /\ \E G \in SUBSET Row :
                /\ Cardinality(G) = failures'
                /\ \A k \in Row \ G : now - history[k].at >= Cooldown /\ \A l \in G : k < l
      BY <1>1, <1>7, CircuitRead
    <2>2. \E G \in SUBSET Row' : Counted(G)'
      BY <1>0, <1>4, <1>5, <2>1 DEF Counted
    <2>3. CircuitBreaks'
      BY <1>2, <1>7, BreaksAppended DEF CircuitInv
    <2> QED
      BY <1>0, <1>3, <2>1, <2>2, <2>3
      DEF CircuitInv, TypeOK, OpenCircuitInv, ClosedCircuitInv
  <1> QED
    BY <1>6, <1>7

\* The cache makes room for what it takes.
LEMMA KeptFits ==
    ASSUME IsSequence(cache), Len(cache) <= CacheEntries, NEW entry
    PROVE  IsSequence(Kept(entry)) /\ Len(Kept(entry)) <= CacheEntries
  <1>1. PICK S : cache \in Seq(S)
    BY DEF IsSequence
  <1>2. Len(cache) \in Nat
    BY <1>1
  <1>3. CASE Len(cache) >= CacheEntries
    <2>1. cache # <<>>
      BY <1>1, <1>3, Limits
    <2>2. Tail(cache) \in Seq(S) /\ Len(Tail(cache)) = Len(cache) - 1
      BY <1>1, <2>1
    <2>3. IsSequence(Append(Tail(cache), entry))
          /\ Len(Append(Tail(cache), entry)) = Len(Tail(cache)) + 1
      BY <2>2, Appended DEF IsSequence
    <2> QED
      BY <1>2, <1>3, <2>2, <2>3 DEF Kept
  <1>4. CASE ~(Len(cache) >= CacheEntries)
    <2>1. IsSequence(Append(cache, entry)) /\ Len(Append(cache, entry)) = Len(cache) + 1
      BY Appended
    <2> QED
      BY <1>2, <1>4, <2>1, Limits DEF Kept
  <1> QED
    BY <1>3, <1>4

\* A success ends the row of failures, and the counter begins again.
LEMMA Completed ==
    ASSUME CircuitInv, CompleteSession
    PROVE  CircuitInv'
  <1>0. /\ session # NoSession /\ session' = NoSession /\ failures' = 0
        /\ UNCHANGED <<mode, analysis, now, openedAt, status>>
        /\ Ends("answered", session.root, session.heard)
    BY DEF CompleteSession
  <1>1. Len(history) < MaxRequests /\ openedAt = NotOpen
    BY <1>0 DEF CircuitInv, OpenCircuitInv
  <1>2. PICK h : history' = Append(history, h) /\ h.what = "answered"
    BY <1>0, <1>1, EndStep
  <1>3. IsSequence(history') /\ Len(history') <= MaxRequests /\ Timed'
    BY <1>0, <1>1, EndStep
  <1>4. Row' = {}
    BY <1>2, RowGrows DEF CircuitInv
  <1>5. CircuitBreaks'
    BY <1>2, BreaksAppended DEF CircuitInv
  <1>6. Cardinality({}) = 0
    BY FS_EmptySet
  <1>7. Counted({})'
    BY <1>0, <1>4, <1>6 DEF Counted
  <1>8. IsSequence(cache') /\ Len(cache') <= CacheEntries
    BY KeptFits DEF CompleteSession, CircuitInv, TypeOK
  <1>9. ClosedCircuitInv' /\ OpenCircuitInv'
    BY <1>0, <1>1, <1>7, Limits DEF ClosedCircuitInv, OpenCircuitInv
  <1> QED
    BY <1>0, <1>1, <1>3, <1>5, <1>8, <1>9, Limits DEF CircuitInv, TypeOK

\* A failure is counted, and with enough of them the circuit opens.
LEMMA Failed ==
    ASSUME CircuitInv, FailSession
    PROVE  CircuitInv'
  <1> DEFINE n == Len(history)
  <1>0. /\ session # NoSession /\ session' = NoSession /\ failures' = failures + 1
        /\ UNCHANGED <<mode, analysis, now, cache>>
        /\ status' \in {"indexing", "failed"}
        /\ openedAt' = IF failures + 1 >= Threshold THEN [at |-> now] ELSE openedAt
        /\ Ends("failed", session.root, session.heard)
    BY DEF FailSession, OpenCircuit, Degrade, CircuitInv, TypeOK
  <1>1. Len(history) < MaxRequests /\ openedAt = NotOpen
    BY <1>0 DEF CircuitInv, OpenCircuitInv
  <1>2. PICK G \in SUBSET Row : Counted(G)
    BY <1>1 DEF CircuitInv, ClosedCircuitInv
  <1>3. failures \in Nat /\ failures < Threshold /\ now \in Nat /\ n \in Nat
    BY <1>1, RowFinite, Limits DEF CircuitInv, TypeOK, ClosedCircuitInv
  <1>4. PICK h : history' = Append(history, h) /\ h.what = "failed" /\ h.at = now
    BY <1>0, <1>1, EndStep
  <1>5. IsSequence(history') /\ Len(history') <= MaxRequests /\ Timed'
    BY <1>0, <1>1, EndStep
  <1>6. Row' = Row \cup {n + 1}
    BY <1>4, RowGrows DEF CircuitInv
  <1>7. /\ \A k \in Row : history'[k] = history[k] /\ k \in 1..n
        /\ history'[n + 1] = h
    BY <1>4, Appended, RowFinite DEF CircuitInv
  <1>8. /\ IsFiniteSet(G) /\ Cardinality(G) = failures /\ G \subseteq 1..n
        /\ \A k \in Row \ G : now - history[k].at >= Cooldown /\ \A l \in G : k < l
    BY <1>2, RowFinite DEF CircuitInv, Counted
  <1>9. n + 1 \notin Row /\ n + 1 \notin G
    BY <1>3, <1>7, <1>8
  <1>10. \A k \in Row : history[k].at \in 0..now
    <2>1. DOMAIN history = 1..n
      BY Appended DEF CircuitInv
    <2> QED
      BY <1>7, <2>1 DEF CircuitInv, Timed
  <1>11. CircuitBreaks'
    <2>1. ASSUME NEW j \in Row, Cardinality({k \in Row : k >= j}) = Threshold
          PROVE  h.at - history[j].at >= Cooldown
      <3>1. j \notin G
        <4> SUFFICES ASSUME j \in G PROVE FALSE
          OBVIOUS
        <4>1. {k \in Row : k >= j} \subseteq G
          <5> SUFFICES ASSUME NEW k \in Row \ G, k >= j PROVE FALSE
            OBVIOUS
          <5>1. k < j /\ k \in Nat /\ j \in Nat
            BY <1>7, <1>8
          <5> QED
            BY <5>1
        <4>2. Cardinality({k \in Row : k >= j}) <= failures
          BY <1>8, <4>1, FS_Subset
        <4> QED
          BY <1>3, <2>1, <4>2, Limits
      <3> QED
        BY <1>4, <1>8, <3>1
    <2> QED
      BY <1>4, <2>1, BreaksAppended DEF CircuitInv
  <1>12. Cardinality(G \cup {n + 1}) = failures + 1
    BY <1>8, <1>9, FS_AddElement
  <1>13. CASE failures + 1 >= Threshold
    <2>1. openedAt' = [at |-> now] /\ openedAt'.at = now
      BY <1>0, <1>13
    <2>2. Cardinality(Row') >= Threshold
      <3>1. IsFiniteSet(Row') /\ G \cup {n + 1} \subseteq Row'
        BY <1>6, RowFinite, FS_AddElement DEF CircuitInv
      <3>2. Cardinality(G \cup {n + 1}) <= Cardinality(Row') /\ Cardinality(Row') \in Nat
        BY <3>1, FS_Subset, FS_CardinalityType
      <3> QED
        BY <1>3, <1>12, <1>13, <3>2, Limits
    <2>3. \A k \in Row' : history'[k].at <= now
      BY <1>3, <1>4, <1>6, <1>7, <1>10
    <2>4. \E k \in Row' : history'[k].at = now
      BY <1>4, <1>6, <1>7
    <2>5. openedAt' # NotOpen
      BY <2>1 DEF NotOpen
    <2>6. OpenCircuitInv' /\ ClosedCircuitInv'
      BY <1>0, <2>1, <2>2, <2>3, <2>4, <2>5 DEF OpenCircuitInv, ClosedCircuitInv
    <2>7. now \in 0..now /\ failures + 1 \in 0..Threshold
      BY <1>3, Limits
    <2> QED
      BY <1>0, <1>5, <1>11, <2>1, <2>6, <2>7 DEF CircuitInv, TypeOK
  <1>14. CASE ~(failures + 1 >= Threshold)
    <2>1. openedAt' = NotOpen
      BY <1>0, <1>1, <1>14
    <2>2. \A k \in Row' \ (G \cup {n + 1}) :
              /\ now - history'[k].at >= Cooldown
              /\ \A l \in G \cup {n + 1} : k < l
      <3> SUFFICES ASSUME NEW k \in Row \ G
                   PROVE  /\ now - history'[k].at >= Cooldown
                          /\ \A l \in G \cup {n + 1} : k < l
        BY <1>6
      <3>1. k \in 1..n /\ history'[k] = history[k]
        BY <1>7
      <3>2. k < n + 1
        BY <1>3, <3>1
      <3> QED
        BY <1>8, <3>1, <3>2
    <2>3. PICK F : F = G \cup {n + 1}
      OBVIOUS
    <2>4. F \in SUBSET Row' /\ Counted(F)'
      BY <1>0, <1>6, <1>12, <2>2, <2>3 DEF Counted
    <2>5. failures + 1 \in 0..Threshold /\ failures + 1 < Threshold
      BY <1>3, <1>14, Limits
    <2> QED
      BY <1>0, <1>5, <1>11, <2>1, <2>4, <2>5
      DEF CircuitInv, TypeOK, OpenCircuitInv, ClosedCircuitInv
  <1> QED
    BY <1>13, <1>14

LEMMA NextInv == CircuitInv /\ [Next]_vars => CircuitInv'
  <1> SUFFICES ASSUME CircuitInv, [Next]_vars PROVE CircuitInv'
    OBVIOUS
  <1>0. now \in now..MaxTime /\ now + 1 \in Nat /\ now \in Nat
    BY Limits DEF CircuitInv, TypeOK
  <1>1. ASSUME NEW r \in Roots, SkipRequest(r) \/ HitCache(r) PROVE CircuitInv'
    BY <1>1, PassedOver
  <1>2. ASSUME NEW r \in Roots, StartSession(r) PROVE CircuitInv'
    BY <1>0, <1>2, QuietStep DEF StartSession, May
  <1>3. ASSUME NEW payload, Answer(payload) PROVE CircuitInv'
    BY <1>0, <1>3, QuietStep DEF Answer, Asks, CircuitInv
  <1>4. CASE CompleteSession
    BY <1>4, Completed
  <1>5. CASE FailSession
    BY <1>5, Failed
  <1>6. CASE Tick
    <2>1. now' \in now..MaxTime
      BY <1>0, <1>6, Limits DEF Tick
    <2> QED
      BY <1>6, <2>1, QuietStep DEF Tick, CircuitInv
  <1>7. CASE UNCHANGED vars
    BY <1>0, <1>7, QuietStep DEF vars, CircuitInv
  <1> QED
    BY <1>1, <1>2, <1>3, <1>4, <1>5, <1>6, <1>7 DEF Next

LEMMA Invariant == Spec => []CircuitInv
  BY InitInv, NextInv, PTL DEF Spec

-----------------------------------------------------------------------------
(* Theorems.                                                                *)

\* Type correctness, and with it the bounds: the cache never holds more answers than
\* it may, and no more failures are counted than open the circuit (depth.py, enrich).
THEOREM TypeCorrect == Spec => []TypeOK
  <1>1. CircuitInv => TypeOK
    BY DEF CircuitInv
  <1> QED
    BY <1>1, Invariant, PTL

\* For any threshold and cooldown, however sessions fail, answer and hang: more failures
\* in a row than the threshold are a cooldown apart, and a service is passed over only
\* within a cooldown of as many (depth.py, enrich and _circuit_is_open).
THEOREM CircuitAlwaysBreaks == Spec => []CircuitBreaks
  <1>1. CircuitInv => CircuitBreaks
    BY DEF CircuitInv
  <1> QED
    BY <1>1, Invariant, PTL

-----------------------------------------------------------------------------
(* What is stored.                                                          *)

\* A function on the first numbers is a sequence of as many elements.
LEMMA ListOf ==
    ASSUME NEW n \in Nat, NEW q, q = [i \in 1..n |-> q[i]]
    PROVE  IsSequence(q) /\ Len(q) = n
  <1> DEFINE T == {q[i] : i \in 1..n}
  <1>1. q \in [1..n -> T]
    OBVIOUS
  <1>2. q \in Seq(T)
    BY <1>1, SeqDef
  <1>3. DOMAIN q = 1..n /\ DOMAIN q = 1..Len(q) /\ Len(q) \in Nat
    BY <1>1, <1>2, LenProperties
  <1>4. IsSequence(q)
    BY <1>2 DEF IsSequence
  <1>5. \A i \in Nat : i \in 1..n <=> i \in 1..Len(q)
    BY <1>3
  <1>6. Len(q) = n
    <2>1. n <= Len(q)
      BY <1>3, <1>5
    <2>2. Len(q) <= n
      BY <1>3, <1>5
    <2> QED BY <1>3, <2>1, <2>2
  <1> QED
    BY <1>4, <1>6

\* As many elements as places are picked.
LEMMA AmongList ==
    ASSUME NEW n \in Nat, NEW q, NEW places \in SUBSET (1..n)
    PROVE  IsSequence(Among(q, places)) /\ Len(Among(q, places)) \in Nat
  <1> DEFINE c == Cardinality(places)
             list == Among(q, places)
  <1>1. IsFiniteSet(1..n)
    BY FS_Interval
  <1>2. c \in Nat
    BY <1>1, FS_Subset, FS_CardinalityType
  <1>3. list = [k \in 1..c |-> list[k]]
    BY DEF Among
  <1> HIDE DEF c, list
  <1> QED
    BY <1>2, <1>3, ListOf DEF list

LEMMA SymbolsCount ==
    ASSUME TypeOK, NEW r \in Roots
    PROVE  Len(Symbols(r)) \in Nat
  <1> DEFINE entries == analysis[r].entrypoints
             n == Len(entries)
             places == {i \in DOMAIN entries : \A j \in 1..(i - 1) : entries[j] # entries[i]}
  <1>1. IsAnalysis(analysis[r])
    BY AnalysesAssumption DEF TypeOK
  <1>2. n \in Nat /\ entries \in Seq({entries[i] : i \in 1..n})
    BY <1>1 DEF IsAnalysis, IsSequenceOf
  <1>3. DOMAIN entries = 1..n
    BY <1>2, LenProperties
  <1>4. places \in SUBSET (1..n)
    BY <1>3
  <1>5. Symbols(r) = Among(entries, places)
    BY DEF Symbols
  <1> HIDE DEF entries, n, places
  <1> QED
    BY <1>2, <1>4, <1>5, AmongList

LEMMA ValidEdgesList ==
    ASSUME NEW a \in Answers, NEW symbol
    PROVE  /\ IsSequence(ValidEdges(a.items, symbol))
           /\ Len(ValidEdges(a.items, symbol)) \in Nat
  <1> DEFINE items == a.items
             n == Len(items)
             places == {i \in DOMAIN items : IsEdge(items[i])}
             valid == Among(items, places)
             edges == ValidEdges(items, symbol)
  <1>1. n \in Nat /\ items \in Seq({items[i] : i \in 1..n})
    BY AnalysesAssumption DEF IsSequenceOf
  <1>2. DOMAIN items = 1..n
    BY <1>1, LenProperties
  <1>3. places \in SUBSET (1..n)
    BY <1>2
  <1>4. IsSequence(valid) /\ Len(valid) \in Nat
    <2> HIDE DEF n, places, items
    <2> QED
      BY <1>1, <1>3, AmongList
  <1>5. DOMAIN valid = 1..Len(valid)
    <2> HIDE DEF valid
    <2> QED
      BY <1>4, Appended
  <1>6. edges = [i \in DOMAIN valid |-> edges[i]]
    BY DEF ValidEdges
  <1> HIDE DEF valid, edges
  <1> QED
    BY <1>4, <1>5, <1>6, ListOf DEF edges

\* Two sequences one behind the other.
LEMMA Joined ==
    ASSUME NEW p, NEW q, IsSequence(p), IsSequence(q)
    PROVE  /\ Len(p) \in Nat /\ Len(q) \in Nat
           /\ IsSequence(p \o q) /\ Len(p \o q) = Len(p) + Len(q)
           /\ \A k \in 1..Len(p) : (p \o q)[k] = p[k]
           /\ \A k \in 1..Len(q) : (p \o q)[Len(p) + k] = q[k]
           /\ Behind(p, p \o q) = q
  <1>1. PICK S : p \in Seq(S)
    BY DEF IsSequence
  <1>2. PICK T : q \in Seq(T)
    BY DEF IsSequence
  <1> DEFINE U == S \cup T
  <1>3. p \in Seq(U) /\ q \in Seq(U)
    BY <1>1, <1>2
  <1> HIDE DEF U
  <1>4. /\ Len(p) \in Nat /\ Len(q) \in Nat
        /\ p \o q \in Seq(U) /\ Len(p \o q) = Len(p) + Len(q)
        /\ \A k \in 1..Len(p) : (p \o q)[k] = p[k]
        /\ \A k \in 1..Len(q) : (p \o q)[Len(p) + k] = q[k]
    BY <1>3
  <1>5. Behind(p, p \o q) = q
    <2> DEFINE b == SubSeq(p \o q, Len(p) + 1, Len(p \o q))
    <2>1. /\ b \in Seq(U) /\ Len(b) = Len(q)
          /\ \A k \in 1..Len(b) : b[k] = (p \o q)[Len(p) + k]
      BY <1>4, SubSeqProperties
    <2>2. b = q
      <3> HIDE DEF b
      <3> QED
        BY <1>3, <1>4, <2>1, SeqEqual
    <2> QED
      BY <2>2 DEF Behind
  <1> QED
    BY <1>4, <1>5 DEF IsSequence

\* One more answer, cut at the budget that is left, keeps the edges those of the
\* answers.
LEMMA AnswerAdded ==
    ASSUME NEW edges, IsSequence(edges), Len(edges) < MaxEdges,
           NEW heard, IsSequence(heard), NEW symbols, Enriches(edges, symbols, heard),
           NEW a \in Answers
    PROVE  LET more == ParseEdges(a.items, symbols[Len(heard) + 1], MaxEdges - Len(edges))
           IN  /\ IsSequence(edges \o more) /\ Len(edges \o more) <= MaxEdges
               /\ Enriches(edges \o more, symbols, Append(heard, a.items))
  <1> DEFINE n == Len(heard)
             valid == ValidEdges(a.items, symbols[n + 1])
             m == Least(Len(valid), MaxEdges - Len(edges))
             more == SubSeq(valid, 1, m)
             all == edges \o more
             now2 == Append(heard, a.items)
  <1>1. /\ n \in Nat /\ Len(now2) = n + 1 /\ now2[n + 1] = a.items
        /\ \A i \in 1..n : now2[i] = heard[i]
    BY Appended
  <1>2. Len(edges) \in Nat /\ MaxEdges \in Nat
    BY Appended, Limits
  <1>3. IsSequence(valid) /\ Len(valid) \in Nat
    BY ValidEdgesList
  <1>4. m \in 0..Len(valid) /\ m <= MaxEdges - Len(edges)
    <2> HIDE DEF valid
    <2> QED
      BY <1>2, <1>3 DEF Least
  <1>5. IsSequence(more) /\ Len(more) = m /\ \A k \in 1..m : more[k] = valid[k]
    <2>1. PICK T : valid \in Seq(T)
      BY <1>3 DEF IsSequence
    <2> HIDE DEF valid, m
    <2>2. more \in Seq(T) /\ Len(more) = m /\ \A k \in 1..m : more[k] = valid[k]
      BY <1>3, <1>4, <2>1, SubSeqProperties
    <2> QED
      BY <2>2 DEF IsSequence
  <1>6. /\ IsSequence(all) /\ Len(all) = Len(edges) + m
        /\ \A k \in 1..Len(edges) : all[k] = edges[k]
        /\ \A k \in 1..m : all[Len(edges) + k] = valid[k]
    <2> HIDE DEF valid, m, more
    <2> QED
      BY <1>5, Joined
  <1>7. Len(edges) + m = Least(Len(edges) + Len(valid), MaxEdges)
    <2> HIDE DEF valid
    <2> QED
      BY <1>2, <1>3 DEF Least
  <1>8. PICK ends \in [0..n -> 0..Len(edges)] :
           /\ ends[0] = 0 /\ ends[n] = Len(edges)
           /\ \A i \in 1..n :
                  LET v == ValidEdges(heard[i], symbols[i])
                      before == ends[i - 1]
                  IN  /\ ends[i] = Least(before + Len(v), MaxEdges)
                      /\ \A k \in (before + 1)..ends[i] : edges[k] = v[k - before]
    BY DEF Enriches
  <1> DEFINE longer == [i \in 0..(n + 1) |-> IF i <= n THEN ends[i] ELSE Len(edges) + m]
  <1>9. /\ longer \in [0..(n + 1) -> 0..(Len(edges) + m)]
        /\ longer[0] = 0 /\ longer[n + 1] = Len(edges) + m
        /\ \A i \in 0..n : longer[i] = ends[i]
    <2> HIDE DEF n, m, valid
    <2> QED
      BY <1>1, <1>2, <1>3, <1>4, <1>8
  <1>10. ASSUME NEW i \in 1..(n + 1)
         PROVE  LET v == ValidEdges(now2[i], symbols[i])
                    before == longer[i - 1]
                IN  /\ longer[i] = Least(before + Len(v), MaxEdges)
                    /\ \A k \in (before + 1)..longer[i] : all[k] = v[k - before]
    <2>1. CASE i \in 1..n
      <3>1. i - 1 \in 0..n /\ i \in 0..n /\ now2[i] = heard[i]
        BY <1>1, <2>1
      <3>2. longer[i - 1] = ends[i - 1] /\ longer[i] = ends[i]
        BY <1>9, <3>1
      <3>3. ends[i - 1] \in 0..Len(edges) /\ ends[i] \in 0..Len(edges)
        BY <1>8, <3>1
      <3>4. \A k \in (ends[i - 1] + 1)..ends[i] : all[k] = edges[k]
        <4>1. (ends[i - 1] + 1)..ends[i] \subseteq 1..Len(edges)
          BY <1>2, <3>3
        <4> QED
          BY <1>6, <4>1
      <3> HIDE DEF longer, all, now2, n
      <3> QED
        BY <1>8, <2>1, <3>1, <3>2, <3>4
    <2>2. CASE i = n + 1
      <3>1. /\ i - 1 = n /\ n \in 0..n /\ now2[i] = a.items
            /\ longer[i - 1] = Len(edges) /\ longer[i] = Len(edges) + m
        BY <1>1, <1>8, <1>9, <2>2
      <3>2. ASSUME NEW k \in (Len(edges) + 1)..(Len(edges) + m)
            PROVE  all[k] = valid[k - Len(edges)]
        <4>1. k - Len(edges) \in 1..m /\ Len(edges) + (k - Len(edges)) = k
          BY <1>2, <1>3, <1>4
        <4> HIDE DEF all, valid, m
        <4> QED
          BY <1>6, <4>1
      <3>3. valid = ValidEdges(now2[i], symbols[i])
        BY <2>2, <3>1
      <3> HIDE DEF longer, all, now2, n, valid, m
      <3> QED
        BY <1>7, <3>1, <3>2, <3>3
    <2>3. i \in 1..n \/ i = n + 1
      BY <1>1
    <2> HIDE DEF longer, all, now2, n, m, valid
    <2> QED
      BY <2>1, <2>2, <2>3
  <1>11. Enriches(all, symbols, now2)
    <2> HIDE DEF longer, all, now2, n, m, valid
    <2>1. /\ longer \in [0..Len(now2) -> 0..Len(all)]
          /\ longer[0] = 0 /\ longer[Len(now2)] = Len(all)
      BY <1>1, <1>6, <1>9
    <2>2. \A i \in 1..Len(now2) :
             LET v == ValidEdges(now2[i], symbols[i])
                 before == longer[i - 1]
             IN  /\ longer[i] = Least(before + Len(v), MaxEdges)
                 /\ \A k \in (before + 1)..longer[i] : all[k] = v[k - before]
      BY <1>1, <1>10
    <2> QED
      BY <2>1, <2>2 DEF Enriches
  <1>12. more = ParseEdges(a.items, symbols[n + 1], MaxEdges - Len(edges))
    BY DEF ParseEdges
  <1>13. Len(all) <= MaxEdges
    <2> HIDE DEF m
    <2> QED
      BY <1>2, <1>4, <1>6
  <1> HIDE DEF more, all, now2, m, valid
  <1> QED
    BY <1>6, <1>11, <1>12, <1>13 DEF all, now2

\* What a service was given by a session that ended well.
Given(r, edges) ==
    /\ IsSequence(edges)
    /\ \E j \in DOMAIN history : history[j].root = r /\ Answered(j, edges)

SessionInv ==
    session # NoSession =>
        /\ status = "indexing"
        /\ session.root \in Roots
        /\ session = [root |-> session.root, since |-> session.since,
                      edges |-> session.edges, heard |-> session.heard]
        /\ IsSequence(session.edges) /\ Len(session.edges) <= MaxEdges
        /\ IsSequence(session.heard)
        /\ Len(session.heard) <= Len(Symbols(session.root))
        /\ Enriches(session.edges, Symbols(session.root), session.heard)

CacheInv ==
    \A c \in DOMAIN cache :
        \E r \in Roots : cache[c].key = Key(r) /\ Given(r, cache[c].edges)

FlowInv ==
    /\ IsSequence(flows) /\ FlowsEnrichedWholly
    /\ SessionInv /\ CacheInv

LEMMA InitFlow == Init => FlowInv
  <1> SUFFICES ASSUME Init PROVE FlowInv
    OBVIOUS
  <1>1. history = <<>> /\ cache = <<>> /\ flows = <<>> /\ session = NoSession
    BY DEF Init
  <1>2. IsSequence(flows)
    <2>1. <<>> \in Seq({})
      OBVIOUS
    <2> QED
      BY <1>1, <2>1 DEF IsSequence
  <1> QED
    BY <1>1, <1>2 DEF FlowInv, SessionInv, CacheInv, FlowsEnrichedWholly, Stored

\* Nothing changes what a service has to ask about.
LEMMA SameSymbols ==
    ASSUME analysis' = analysis, NEW r
    PROVE  Symbols(r)' = Symbols(r) /\ Key(r)' = Key(r)
  BY DEF Symbols, Key

\* A request that ends leaves what earlier ones added and were given as it is.
LEMMA StillAdded ==
    ASSUME IsSequence(history), NEW h, history' = Append(history, h), analysis' = analysis,
           NEW edges
    PROVE  /\ \A i \in DOMAIN history : AddedBy(i, edges) => AddedBy(i, edges)'
           /\ \A r : Given(r, edges) => Given(r, edges)'
  <1>1. /\ DOMAIN history = 1..Len(history) /\ Len(history) \in Nat
        /\ DOMAIN history' = 1..(Len(history) + 1)
        /\ \A i \in 1..Len(history) : history'[i] = history[i]
    BY Appended
  <1>2. \A i \in DOMAIN history : Answered(i, edges)' = Answered(i, edges)
    BY <1>1, SameSymbols DEF Answered
  <1>3. ASSUME NEW i \in DOMAIN history, AddedBy(i, edges) PROVE AddedBy(i, edges)'
    <2>1. 1..(i - 1) \subseteq DOMAIN history /\ history'[i] = history[i]
      BY <1>1
    <2> QED
      BY <1>2, <1>3, <2>1, <1>1 DEF AddedBy
  <1>4. ASSUME NEW r, Given(r, edges) PROVE Given(r, edges)'
    BY <1>1, <1>2, <1>4 DEF Given
  <1> QED
    BY <1>3, <1>4

\* As long as the command goes on, every request has stored a flow.
LEMMA AllStored ==
    ASSUME CircuitInv, FlowInv, status = "indexing"
    PROVE  /\ Stored = 1..Len(history) /\ DOMAIN flows = 1..Len(flows)
           /\ Len(flows) = Len(history) /\ Len(history) \in Nat
           /\ mode = "require" => \A i \in 1..Len(history) : history[i].what # "failed"
  <1>1. /\ DOMAIN history = 1..Len(history) /\ Len(history) \in Nat
        /\ DOMAIN flows = 1..Len(flows) /\ Len(flows) \in Nat
    BY Appended DEF CircuitInv, FlowInv
  <1>2. mode = "require" => \A i \in 1..Len(history) : history[i].what # "failed"
    BY <1>1 DEF FlowInv, FlowsEnrichedWholly
  <1>3. Stored = 1..Len(history)
    BY <1>1, <1>2 DEF Stored, CircuitInv, TypeOK
  <1>4. 1..Len(flows) = 1..Len(history)
    BY <1>1, <1>3 DEF FlowInv, FlowsEnrichedWholly
  <1>5. Len(flows) = Len(history)
    <2>1. \A k, l \in Nat : 1..k = 1..l => k <= l
      <3> SUFFICES ASSUME NEW k \in Nat, NEW l \in Nat, 1..k = 1..l, ~(k <= l) PROVE FALSE
        OBVIOUS
      <3>1. k \in 1..k /\ k \notin 1..l
        OBVIOUS
      <3> QED
        BY <3>1
    <2>2. Len(flows) <= Len(history) /\ Len(history) <= Len(flows)
      BY <1>1, <1>4, <2>1
    <2>3. \A k, l \in Nat : k <= l /\ l <= k => k = l
      OBVIOUS
    <2>4. Len(flows) \in Nat /\ Len(history) \in Nat
      BY <1>1
    <2> QED
      BY <2>2, <2>3, <2>4, Zenon
  <1> QED
    BY <1>1, <1>2, <1>3, <1>5

LEMMA NativeList ==
    ASSUME TypeOK, NEW r \in Roots
    PROVE  IsSequence(ResolvedEdges(analysis[r]))
  <1> DEFINE a == analysis[r]
             n == Len(a.edges)
             native == ResolvedEdges(a)
  <1>1. IsAnalysis(a)
    BY AnalysesAssumption DEF TypeOK
  <1>2. n \in Nat /\ a.edges \in Seq({a.edges[i] : i \in 1..n})
    BY <1>1 DEF IsAnalysis, IsSequenceOf
  <1>3. DOMAIN a.edges = 1..n
    BY <1>2, LenProperties
  <1>4. native = [i \in 1..n |-> native[i]]
    BY <1>3 DEF ResolvedEdges
  <1> HIDE DEF native, n
  <1> QED
    BY <1>2, <1>4, ListOf DEF native

\* A request that ends and stores a flow.
LEMMA StoreStep ==
    ASSUME CircuitInv, FlowInv, UNCHANGED <<mode, analysis>>, status = "indexing",
           NEW r \in Roots, NEW what, NEW heard, NEW edges, IsSequence(edges),
           Store(r, edges), Ends(what, r, heard),
           what # "failed" \/ mode = "augment",
           what = "answered" => WholeEnrichment(edges, Symbols(r), heard),
           what = "hit" => Given(r, edges),
           what \notin {"answered", "hit"} => edges = <<>>
    PROVE  IsSequence(flows') /\ FlowsEnrichedWholly'
  <1>0. PICK n : n = Len(history)
    OBVIOUS
  <1> DEFINE native == ResolvedEdges(analysis[r])
             h == [what |-> what, root |-> r, at |-> now, heard |-> heard]
             f == [root |-> r, edges |-> native \o edges]
  <1>1. /\ history' = Append(history, h) /\ flows' = Append(flows, f)
        /\ IsSequence(history) /\ IsSequence(flows)
    BY DEF Ends, Store, CircuitInv, FlowInv
  <1>2. /\ n \in Nat /\ DOMAIN history = 1..n /\ DOMAIN history' = 1..(n + 1)
        /\ \A i \in 1..n : history'[i] = history[i]
        /\ history'[n + 1] = h
    <2> HIDE DEF h
    <2> QED
      BY <1>0, <1>1, Appended
  <1>3. /\ Stored = 1..n /\ Len(flows) = n
        /\ mode = "require" => \A i \in 1..n : history[i].what # "failed"
    BY <1>0, AllStored
  <1>4. /\ IsSequence(flows') /\ DOMAIN flows' = 1..(n + 1)
        /\ \A i \in 1..n : flows'[i] = flows[i]
        /\ flows'[n + 1] = f
    <2> HIDE DEF f
    <2> QED
      BY <1>1, <1>3, Appended
  <1>5. \A i \in 1..(n + 1) : i \in 1..n \/ i = n + 1
    BY <1>2
  <1>6. mode = "require" => \A i \in 1..(n + 1) : history'[i].what # "failed"
    BY <1>2, <1>3, <1>5
  <1>7. Stored' = 1..(n + 1)
    <2>1. mode' \in {"augment", "require"} /\ mode' = mode
      BY DEF CircuitInv, TypeOK
    <2> QED
      BY <1>2, <1>6, <2>1 DEF Stored
  <1> DEFINE StoredWell(i) ==
                /\ flows[i].root = history[i].root
                /\ flows[i].edges =
                       ResolvedEdges(analysis[history[i].root])
                           \o Behind(ResolvedEdges(analysis[history[i].root]), flows[i].edges)
                /\ AddedBy(i, Behind(ResolvedEdges(analysis[history[i].root]), flows[i].edges))
  <1>8. ASSUME NEW i \in 1..n PROVE StoredWell(i)'
    <2>1. StoredWell(i)
      BY <1>3 DEF FlowInv, FlowsEnrichedWholly
    <2>2. PICK added : added = Behind(ResolvedEdges(analysis[history[i].root]), flows[i].edges)
      OBVIOUS
    <2>3. AddedBy(i, added)'
      <3>1. AddedBy(i, added)
        BY <2>1, <2>2
      <3> HIDE DEF h
      <3> QED
        BY <1>1, <1>2, <3>1, StillAdded
    <2>4. history'[i] = history[i] /\ flows'[i] = flows[i] /\ analysis' = analysis
      BY <1>2, <1>4
    <2> QED
      BY <2>1, <2>2, <2>3, <2>4
  <1>9. StoredWell(n + 1)'
    <2>1. IsSequence(native)
      BY NativeList DEF CircuitInv
    <2>2. Behind(native, native \o edges) = edges
      <3> HIDE DEF native
      <3> QED
        BY <2>1, Joined
    <2>3. AddedBy(n + 1, edges)'
      <3>1. n + 1 \in Nat /\ (n + 1) - 1 = n
        BY <1>2
      <3>2. Symbols(r)' = Symbols(r)
        BY SameSymbols
      <3>3. CASE what = "answered"
        BY <1>2, <3>2, <3>3 DEF AddedBy, Answered
      <3>4. CASE what = "hit"
        <4>1. PICK j \in 1..n : history[j].root = r /\ Answered(j, edges)
          BY <1>2, <3>4 DEF Given
        <4>2. history'[j].root = r /\ Answered(j, edges)'
          BY <1>2, <3>2, <4>1 DEF Answered
        <4> QED
          BY <1>2, <3>1, <3>4, <4>2 DEF AddedBy
      <3>5. CASE what \notin {"answered", "hit"}
        BY <1>2, <3>5 DEF AddedBy
      <3> QED
        BY <3>3, <3>4, <3>5
    <2> QED
      BY <1>2, <1>4, <2>2, <2>3
  <1> HIDE DEF h, f, native, StoredWell
  <1>10. \A i \in 1..(n + 1) : StoredWell(i)'
    BY <1>5, <1>8, <1>9
  <1> QED
    BY <1>2, <1>4, <1>6, <1>7, <1>10 DEF FlowsEnrichedWholly, StoredWell

\* A step that ends no request.
LEMMA QuietFlow ==
    ASSUME FlowInv, UNCHANGED <<mode, analysis, cache, flows, status, history>>, SessionInv'
    PROVE  FlowInv'
  <1>1. \A r : Key(r)' = Key(r) /\ Symbols(r)' = Symbols(r)
    BY SameSymbols
  <1>2. CacheInv'
    BY <1>1 DEF FlowInv, CacheInv, Given, Answered
  <1>3. FlowsEnrichedWholly'
    BY <1>1 DEF FlowInv, FlowsEnrichedWholly, Stored, AddedBy, Answered
  <1> QED
    BY <1>2, <1>3 DEF FlowInv

\* A request that the circuit answers, or that fails, leaves the cache as it is.
LEMMA CacheStays ==
    ASSUME CircuitInv, FlowInv, UNCHANGED <<analysis, cache>>,
           NEW h, history' = Append(history, h)
    PROVE  CacheInv'
  <1>1. ASSUME NEW c \in DOMAIN cache
        PROVE  \E r \in Roots : cache[c].key = Key(r)' /\ Given(r, cache[c].edges)'
    <2>1. PICK r \in Roots : cache[c].key = Key(r) /\ Given(r, cache[c].edges)
      BY DEF FlowInv, CacheInv
    <2>2. PICK edges : edges = cache[c].edges
      OBVIOUS
    <2>3. Given(r, edges)'
      BY <2>1, <2>2, StillAdded DEF CircuitInv
    <2>4. Key(r)' = Key(r)
      BY SameSymbols
    <2>5. edges = cache'[c].edges
      BY <2>2
    <2> QED
      BY <2>1, <2>3, <2>4, <2>5 DEF Given
  <1> QED
    BY <1>1 DEF CacheInv

LEMMA SkippedFlow ==
    ASSUME CircuitInv, FlowInv, NEW r \in Roots, SkipRequest(r)
    PROVE  FlowInv'
  <1>1. /\ status = "indexing" /\ Store(r, <<>>) /\ Ends("skipped", r, <<>>)
        /\ UNCHANGED <<mode, analysis, cache, session, status>> /\ session = NoSession
    BY DEF SkipRequest, May
  <1>2. IsSequence(<<>>)
    <2>1. <<>> \in Seq({})
      OBVIOUS
    <2> QED
      BY <2>1 DEF IsSequence
  <1>3. IsSequence(flows') /\ FlowsEnrichedWholly'
    BY <1>1, <1>2, StoreStep
  <1>4. CacheInv'
    BY <1>1, CacheStays DEF Ends
  <1> QED
    BY <1>1, <1>3, <1>4 DEF FlowInv, SessionInv

LEMMA HitFlow ==
    ASSUME CircuitInv, FlowInv, NEW r \in Roots, HitCache(r)
    PROVE  FlowInv'
  <1>1. /\ status = "indexing" /\ Store(r, Cached(Key(r))) /\ Ends("hit", r, <<>>)
        /\ UNCHANGED <<mode, analysis, cache, session, status>> /\ session = NoSession
        /\ Key(r) \in CacheKeys
    BY DEF HitCache, May
  <1>2. PICK c \in DOMAIN cache : cache[c].key = Key(r) /\ Cached(Key(r)) = cache[c].edges
    BY <1>1 DEF CacheKeys, Cached
  <1>3. PICK s \in Roots : cache[c].key = Key(s) /\ Given(s, cache[c].edges)
    BY DEF FlowInv, CacheInv
  <1>4. r = s
    BY <1>2, <1>3 DEF Key
  <1>5. PICK edges : edges = Cached(Key(r))
    OBVIOUS
  <1>6. Given(r, edges) /\ IsSequence(edges) /\ Store(r, edges)
    BY <1>1, <1>2, <1>3, <1>4, <1>5 DEF Given
  <1>7. IsSequence(flows') /\ FlowsEnrichedWholly'
    BY <1>1, <1>6, StoreStep
  <1>8. CacheInv'
    BY <1>1, CacheStays DEF Ends
  <1> QED
    BY <1>1, <1>7, <1>8 DEF FlowInv, SessionInv

LEMMA StartFlow ==
    ASSUME CircuitInv, FlowInv, NEW r \in Roots, StartSession(r)
    PROVE  FlowInv'
  <1>1. /\ status = "indexing"
        /\ session' = [root |-> r, since |-> now, edges |-> <<>>, heard |-> <<>>]
        /\ UNCHANGED <<mode, analysis, cache, flows, status, history>>
    BY DEF StartSession, May
  <1>2. IsSequence(<<>>) /\ Len(<<>>) = 0
    <2>1. <<>> \in Seq({})
      OBVIOUS
    <2> QED
      BY <2>1 DEF IsSequence
  <1>3. Len(Symbols(r)) \in Nat /\ Symbols(r)' = Symbols(r)
    BY <1>1, SymbolsCount, SameSymbols DEF CircuitInv
  <1>4. Enriches(<<>>, Symbols(r), <<>>)
    <2> DEFINE ends == [i \in 0..0 |-> 0]
    <2>1. ends \in [0..0 -> 0..0] /\ ends[0] = 0
      OBVIOUS
    <2>2. 1..0 = {}
      OBVIOUS
    <2> HIDE DEF ends
    <2> QED
      BY <1>2, <2>1, <2>2 DEF Enriches
  <1>5. SessionInv'
    BY <1>1, <1>2, <1>3, <1>4, Limits DEF SessionInv
  <1> QED
    BY <1>1, <1>5, QuietFlow

LEMMA AnswerFlow ==
    ASSUME CircuitInv, FlowInv, NEW a \in Answers, Answer(a.items)
    PROVE  FlowInv'
  <1> DEFINE r == session.root
             n == Len(session.heard)
             more == ParseEdges(a.items, Symbols(r)[n + 1], MaxEdges - Len(session.edges))
             edges == session.edges \o more
             heard == Append(session.heard, a.items)
  <1>1. /\ session # NoSession /\ n < Len(Symbols(r)) /\ Len(session.edges) < MaxEdges
        /\ UNCHANGED <<mode, analysis, cache, flows, status, history>>
    BY DEF Answer, Asks
  <1>2. /\ status = "indexing" /\ r \in Roots
        /\ session = [root |-> r, since |-> session.since,
                      edges |-> session.edges, heard |-> session.heard]
        /\ IsSequence(session.edges) /\ IsSequence(session.heard)
        /\ Enriches(session.edges, Symbols(r), session.heard)
    BY <1>1 DEF FlowInv, SessionInv
  <1>3. session' = [root |-> r, since |-> session.since, edges |-> edges, heard |-> heard]
    <2>1. session' = [session EXCEPT !.edges = edges, !.heard = heard]
      BY DEF Answer, NextSymbol, Budget
    <2> HIDE DEF edges, heard
    <2> QED
      BY <1>2, <2>1
  <1>4. IsSequence(edges) /\ Len(edges) <= MaxEdges /\ Enriches(edges, Symbols(r), heard)
    <2>1. PICK es, hs, syms :
             es = session.edges /\ hs = session.heard /\ syms = Symbols(r)
      OBVIOUS
    <2>2. PICK m : m = ParseEdges(a.items, syms[Len(hs) + 1], MaxEdges - Len(es))
      OBVIOUS
    <2>3. /\ IsSequence(es \o m) /\ Len(es \o m) <= MaxEdges
          /\ Enriches(es \o m, syms, Append(hs, a.items))
      BY <1>1, <1>2, <2>1, <2>2, AnswerAdded
    <2>4. edges = es \o m /\ heard = Append(hs, a.items)
      BY <2>1, <2>2
    <2> HIDE DEF edges, heard
    <2> QED
      BY <2>1, <2>3, <2>4
  <1>5. Len(Symbols(r)) \in Nat
    BY <1>2, SymbolsCount DEF CircuitInv
  <1>6. IsSequence(heard) /\ Len(heard) = n + 1 /\ n \in Nat
    BY <1>2, Appended
  <1>7. Len(heard) <= Len(Symbols(r))
    <2> HIDE DEF heard, n
    <2> QED
      BY <1>1, <1>5, <1>6
  <1>8. SessionInv'
    <2>1. /\ session'.root = r /\ session'.since = session.since
          /\ session'.edges = edges /\ session'.heard = heard
      BY <1>3
    <2>2. Symbols(session.root)' = Symbols(r)
      BY <1>3, <1>1 DEF Symbols
    <2> HIDE DEF edges, heard, n, more
    <2> QED
      BY <1>1, <1>2, <1>3, <1>4, <1>6, <1>7, <2>1, <2>2 DEF SessionInv
  <1> QED
    BY <1>1, <1>8, QuietFlow

\* What is kept was there, or is the new entry.
LEMMA KeptElements ==
    ASSUME IsSequence(cache), Len(cache) <= CacheEntries, NEW entry,
           NEW c \in DOMAIN Kept(entry)
    PROVE  Kept(entry)[c] = entry \/ \E d \in DOMAIN cache : Kept(entry)[c] = cache[d]
  <1>1. PICK S : cache \in Seq(S)
    BY DEF IsSequence
  <1>2. Len(cache) \in Nat /\ DOMAIN cache = 1..Len(cache)
    BY <1>1, LenProperties
  <1>3. ASSUME NEW q, IsSequence(q), Kept(entry) = Append(q, entry),
               \A i \in 1..Len(q) : \E d \in DOMAIN cache : q[i] = cache[d]
        PROVE  Kept(entry)[c] = entry \/ \E d \in DOMAIN cache : Kept(entry)[c] = cache[d]
    <2>1. c \in 1..(Len(q) + 1) /\ Len(q) \in Nat
      BY <1>3, Appended
    <2>2. c \in 1..Len(q) \/ c = Len(q) + 1
      BY <2>1
    <2> QED
      BY <1>3, <2>2, Appended
  <1>4. CASE Len(cache) >= CacheEntries
    <2>1. cache # <<>>
      BY <1>1, <1>4, Limits
    <2>2. /\ Tail(cache) \in Seq(S) /\ Len(Tail(cache)) = Len(cache) - 1
          /\ \A i \in 1..(Len(cache) - 1) : Tail(cache)[i] = cache[i + 1]
      BY <1>1, <2>1, HeadTailProperties
    <2>3. \A i \in 1..Len(Tail(cache)) : i + 1 \in DOMAIN cache /\ Tail(cache)[i] = cache[i + 1]
      BY <1>2, <2>2
    <2> QED
      BY <1>3, <1>4, <2>2, <2>3 DEF Kept, IsSequence
  <1>5. CASE ~(Len(cache) >= CacheEntries)
    BY <1>2, <1>3, <1>5 DEF Kept
  <1> QED
    BY <1>4, <1>5

LEMMA CompletedFlow ==
    ASSUME CircuitInv, FlowInv, CompleteSession
    PROVE  FlowInv'
  <1> DEFINE entry == [key |-> Key(session.root), edges |-> session.edges]
             h == [what |-> "answered", root |-> session.root, at |-> now,
                   heard |-> session.heard]
  <1>1. /\ session # NoSession /\ ~Asks /\ session' = NoSession
        /\ cache' = Kept(entry)
        /\ Store(session.root, session.edges)
        /\ Ends("answered", session.root, session.heard)
        /\ UNCHANGED <<mode, analysis, status>>
    BY DEF CompleteSession
  <1>2. PICK r, edges, heard :
           r = session.root /\ edges = session.edges /\ heard = session.heard
    OBVIOUS
  <1>3. /\ status = "indexing" /\ r \in Roots
        /\ IsSequence(edges) /\ Len(edges) <= MaxEdges /\ IsSequence(heard)
        /\ Len(heard) <= Len(Symbols(r)) /\ Enriches(edges, Symbols(r), heard)
    BY <1>1, <1>2 DEF FlowInv, SessionInv
  <1>4. Len(Symbols(r)) \in Nat /\ Len(heard) \in Nat /\ Len(edges) \in Nat
    BY <1>3, SymbolsCount, Appended DEF CircuitInv
  <1>5. WholeEnrichment(edges, Symbols(r), heard)
    <2>1. ~(Len(heard) < Len(Symbols(r))) \/ ~(Len(edges) < MaxEdges)
      BY <1>1, <1>2 DEF Asks
    <2>2. Len(heard) = Len(Symbols(r)) \/ Len(edges) = MaxEdges
      BY <1>3, <1>4, <2>1, Limits
    <2> QED
      BY <1>3, <2>2 DEF WholeEnrichment
  <1>6. IsSequence(flows') /\ FlowsEnrichedWholly'
    BY <1>1, <1>2, <1>3, <1>5, StoreStep
  <1>7. history' = Append(history, h)
    BY <1>1 DEF Ends
  <1>8. /\ Len(history) \in Nat /\ DOMAIN history' = 1..(Len(history) + 1)
        /\ history'[Len(history) + 1] = h
    <2> HIDE DEF h
    <2> QED
      BY <1>7, Appended DEF CircuitInv
  <1>9. Given(r, edges)'
    <2>1. PICK j : j = Len(history) + 1
      OBVIOUS
    <2>2. /\ j \in DOMAIN history' /\ history'[j].root = r /\ history'[j].heard = heard
          /\ history'[j].what = "answered"
      BY <1>2, <1>8, <2>1
    <2>3. Symbols(r)' = Symbols(r)
      BY <1>1, SameSymbols
    <2>4. Answered(j, edges)'
      BY <1>5, <2>2, <2>3 DEF Answered
    <2> QED
      BY <1>3, <2>2, <2>4 DEF Given
  <1>10. \A r2 : Key(r2)' = Key(r2)
    BY <1>1, SameSymbols
  <1>11. ASSUME NEW c \in DOMAIN cache'
         PROVE  \E r2 \in Roots : (cache[c].key = Key(r2) /\ Given(r2, cache[c].edges))'
    <2>1. cache'[c] = entry \/ \E d \in DOMAIN cache : cache'[c] = cache[d]
      <3> HIDE DEF entry
      <3> QED
        BY <1>1, KeptElements DEF CircuitInv, TypeOK
    <2>2. CASE cache'[c] = entry
      <3>1. cache'[c].key = Key(r) /\ cache'[c].edges = edges
        BY <1>2, <2>2
      <3> QED
        BY <1>3, <1>9, <1>10, <3>1 DEF Given
    <2>3. ASSUME NEW d \in DOMAIN cache, cache'[c] = cache[d]
          PROVE  \E r2 \in Roots : (cache[c].key = Key(r2) /\ Given(r2, cache[c].edges))'
      <3>1. PICK s \in Roots : cache[d].key = Key(s) /\ Given(s, cache[d].edges)
        BY DEF FlowInv, CacheInv
      <3>2. PICK old : old = cache[d].edges
        OBVIOUS
      <3>3. Given(s, old)'
        <4> HIDE DEF h
        <4> QED
          BY <1>1, <1>7, <3>1, <3>2, StillAdded DEF CircuitInv
      <3> QED
        BY <1>10, <2>3, <3>1, <3>2, <3>3 DEF Given
    <2> QED
      BY <2>1, <2>2, <2>3
  <1>12. CacheInv'
    BY <1>11 DEF CacheInv
  <1> QED
    BY <1>1, <1>6, <1>12 DEF FlowInv, SessionInv

LEMMA FailedFlow ==
    ASSUME CircuitInv, FlowInv, FailSession
    PROVE  FlowInv'
  <1>1. /\ session # NoSession /\ session' = NoSession /\ Degrade
        /\ Ends("failed", session.root, session.heard)
        /\ UNCHANGED <<mode, analysis, cache>>
    BY DEF FailSession
  <1>2. PICK r, heard : r = session.root /\ heard = session.heard
    OBVIOUS
  <1>3. status = "indexing" /\ r \in Roots
    BY <1>1, <1>2 DEF FlowInv, SessionInv
  <1>4. CacheInv'
    BY <1>1, CacheStays DEF Ends
  <1>5. IsSequence(flows') /\ FlowsEnrichedWholly'
    <2>1. CASE mode # "require"
      <3>1. mode = "augment"
        BY <2>1 DEF CircuitInv, TypeOK
      <3>2. IsSequence(<<>>)
        <4>1. <<>> \in Seq({})
          OBVIOUS
        <4> QED
          BY <4>1 DEF IsSequence
      <3>3. Store(r, <<>>) /\ Ends("failed", r, heard)
        BY <1>1, <1>2, <2>1 DEF Degrade
      <3> QED
        BY <1>1, <1>3, <3>1, <3>2, <3>3, StoreStep
    <2>2. CASE mode = "require"
      <3> DEFINE h == [what |-> "failed", root |-> session.root, at |-> now,
                       heard |-> session.heard]
      <3>1. status' = "failed" /\ flows' = flows /\ history' = Append(history, h)
        BY <1>1, <2>2 DEF Degrade, Ends
      <3>0. PICK n : n = Len(history)
        OBVIOUS
      <3>2. /\ n \in Nat /\ DOMAIN history = 1..n /\ DOMAIN history' = 1..(n + 1)
            /\ Len(history') = n + 1
            /\ \A i \in 1..n : history'[i] = history[i]
            /\ history'[n + 1].what = "failed"
        <4>1. h.what = "failed"
          OBVIOUS
        <4> HIDE DEF h
        <4> QED
          BY <3>0, <3>1, <4>1, Appended DEF CircuitInv
      <3>3. Stored = 1..n /\ \A i \in 1..n : history[i].what # "failed"
        BY <1>3, <2>2, <3>0, AllStored
      <3>4. \A i \in 1..(n + 1) : i \in 1..n \/ i = n + 1
        BY <3>2
      <3>5. Stored' = 1..n
        <4>1. n + 1 \notin 1..n /\ 1..n \subseteq 1..(n + 1)
          BY <3>2
        <4> QED
          BY <1>1, <2>2, <3>2, <3>3, <3>4, <4>1 DEF Stored
      <3> DEFINE Native(i) == ResolvedEdges(analysis[history[i].root])
      <3>6. ASSUME NEW i \in 1..n
            PROVE  /\ flows'[i].root = history'[i].root
                   /\ flows'[i].edges = Native(i)' \o Behind(Native(i)', flows'[i].edges)
                   /\ AddedBy(i, Behind(Native(i), flows[i].edges))'
        <4>1. /\ flows[i].root = history[i].root
              /\ flows[i].edges = Native(i) \o Behind(Native(i), flows[i].edges)
              /\ AddedBy(i, Behind(Native(i), flows[i].edges))
          BY <3>3 DEF FlowInv, FlowsEnrichedWholly
        <4>2. PICK added : added = Behind(Native(i), flows[i].edges)
          OBVIOUS
        <4>3. AddedBy(i, added)'
          <5>1. AddedBy(i, added)
            BY <4>1, <4>2
          <5> HIDE DEF h
          <5> QED
            BY <1>1, <3>1, <3>2, <5>1, StillAdded DEF CircuitInv
        <4>4. history'[i] = history[i] /\ flows'[i] = flows[i] /\ analysis' = analysis
          BY <1>1, <3>1, <3>2
        <4> QED
          BY <4>1, <4>2, <4>3, <4>4
      <3>7. DOMAIN flows' = Stored'
        BY <3>1, <3>3, <3>5 DEF FlowInv, FlowsEnrichedWholly
      <3>8. \A i \in DOMAIN history' :
               history'[i].what = "failed" => i = Len(history') /\ status' = "failed"
        BY <3>1, <3>2, <3>3, <3>4
      <3> HIDE DEF h
      <3> QED
        BY <3>1, <3>5, <3>6, <3>7, <3>8 DEF FlowInv, FlowsEnrichedWholly
    <2> QED
      BY <2>1, <2>2
  <1> QED
    BY <1>1, <1>4, <1>5 DEF FlowInv, SessionInv

LEMMA NextFlow == CircuitInv /\ FlowInv /\ [Next]_vars => FlowInv'
  <1> SUFFICES ASSUME CircuitInv, FlowInv, [Next]_vars PROVE FlowInv'
    OBVIOUS
  <1>1. ASSUME NEW r \in Roots, SkipRequest(r) PROVE FlowInv'
    BY <1>1, SkippedFlow
  <1>2. ASSUME NEW r \in Roots, HitCache(r) PROVE FlowInv'
    BY <1>2, HitFlow
  <1>3. ASSUME NEW r \in Roots, StartSession(r) PROVE FlowInv'
    BY <1>3, StartFlow
  <1>4. ASSUME NEW a \in Answers, Answer(a.items) PROVE FlowInv'
    BY <1>4, AnswerFlow
  <1>5. CASE CompleteSession
    BY <1>5, CompletedFlow
  <1>6. CASE FailSession
    BY <1>6, FailedFlow
  <1>7. CASE Tick \/ UNCHANGED vars
    <2>1. UNCHANGED <<mode, analysis, cache, flows, status, history, session>>
      BY <1>7 DEF Tick, vars
    <2>2. SessionInv'
      BY <2>1 DEF FlowInv, SessionInv, Symbols
    <2> QED
      BY <2>1, <2>2, QuietFlow
  <1> QED
    BY <1>1, <1>2, <1>3, <1>4, <1>5, <1>6, <1>7 DEF Next

\* Whatever answers, failures, hits and skips a process sees, for any payloads and any
\* budget: a stored flow is the native result with a whole bounded answer behind it or
\* with nothing, and in require mode a failure is the last thing (depth.py, enrich).
THEOREM FlowsAlwaysEnrichedWholly == Spec => []FlowsEnrichedWholly
  <1>1. FlowInv => FlowsEnrichedWholly
    BY DEF FlowInv
  <1> QED
    BY <1>1, Invariant, InitFlow, NextFlow, PTL DEF Spec

-----------------------------------------------------------------------------
(* A callable that has nothing to do with a call.                           *)

LEMMA GreatestNumber ==
    ASSUME NEW n \in Nat, NEW S \in SUBSET (1..n), S # {}
    PROVE  \E m \in S : \A d \in S : d <= m
  <1> DEFINE T == {n - i : i \in S}
             R == OpToRel(<, Nat)
  <1>1. T \in SUBSET Nat /\ T # {}
    <2>1. \A i \in S : i \in Nat /\ i <= n
      OBVIOUS
    <2>2. \A i \in S : n - i \in Nat
      BY <2>1
    <2>3. PICK i \in S : TRUE
      OBVIOUS
    <2>4. n - i \in T
      BY <2>3
    <2> QED
      BY <2>2, <2>4
  <1>2. IsWellFoundedOn(R, Nat)
    BY NatLessThanWellFounded
  <1>3. \A d, e \in Nat : d < e => <<d, e>> \in R
    BY DEF OpToRel
  <1> HIDE DEF R
  <1>4. PICK t \in T : \A d \in T : ~ (<<d, t>> \in R)
    BY <1>1, <1>2, WFMin
  <1>5. PICK m \in S : t = n - m
    BY <1>4
  <1>6. ASSUME NEW d \in S PROVE d <= m
    <2>1. n - d \in T /\ n - d \in Nat /\ n - m \in Nat /\ ~(n - d < n - m)
      BY <1>1, <1>3, <1>4, <1>5
    <2> QED
      BY <2>1
  <1> QED
    BY <1>6

\* The latest of some rows is one of them.
LEMMA LatestRow ==
    ASSUME NEW n \in Nat, NEW at \in SUBSET (1..n), at # {}
    PROVE  \E m \in at : \A rows : Latest(rows, at) = rows[m]
  <1>1. \E m \in at : \A j \in at : j <= m
    BY GreatestNumber
  <1> QED
    BY <1>1 DEF Latest

\* A member's owner is what it is a member of.
LEMMA OwnerOfMember ==
    ASSUME NEW q, IsSequence(q), NEW x
    PROVE  Owner(q \o <<x>>) = q
  <1>1. PICK S : q \in Seq(S)
    BY DEF IsSequence
  <1>2. q \in Seq(S \cup {x}) /\ <<x>> \in Seq(S \cup {x}) /\ Len(q) \in Nat /\ Len(<<x>>) = 1
    BY <1>1
  <1>3. /\ q \o <<x>> \in Seq(S \cup {x})
        /\ Len(q \o <<x>>) = Len(q) + 1
        /\ \A i \in 1..Len(q) : (q \o <<x>>)[i] = q[i]
    BY <1>2, ConcatProperties
  <1>4. Owner(q \o <<x>>) = SubSeq(q \o <<x>>, 1, Len(q))
    BY <1>2, <1>3 DEF Owner, Front
  <1>5. /\ Len(SubSeq(q \o <<x>>, 1, Len(q))) = Len(q)
        /\ \A i \in 1..Len(q) : SubSeq(q \o <<x>>, 1, Len(q))[i] = (q \o <<x>>)[i]
        /\ SubSeq(q \o <<x>>, 1, Len(q)) \in Seq(S \cup {x})
    BY <1>2, <1>3, SubSeqProperties
  <1> QED
    BY <1>2, <1>3, <1>4, <1>5, SeqEqual

LEMMA NameIsSequence ==
    ASSUME NEW name, IsName(name)
    PROVE  IsSequence(name) /\ IsSequence(Owner(name))
  <1>1. PICK S : name \in Seq(S)
    BY DEF IsName, IsSequenceOf
  <1>2. Owner(name) \in Seq(S)
    <2>1. Len(name) \in Nat /\ name # <<>>
      BY <1>1 DEF IsName
    <2>2. Owner(name) = SubSeq(name, 1, Len(name) - 1)
      BY DEF Owner, Front
    <2>3. Len(name) - 1 \in 0..Len(name)
      BY <1>1, <2>1
    <2> QED
      BY <1>1, <2>1, <2>2, <2>3, SubSeqProperties
  <1> QED
    BY <1>1, <1>2 DEF IsSequence

\* The analysis with one more callable of a name it does not have.
With(a, s) == [a EXCEPT !.symbols = Append(@, s)]

LEMMA WithSymbol ==
    ASSUME NEW a, IsAnalysis(a), NEW s, s.name \notin Known(a)
    PROVE  /\ With(a, s).injections = a.injections /\ With(a, s).edges = a.edges
           /\ Known(With(a, s)) = Known(a) \cup {s.name}
           /\ \A name \in Known(a) : SymbolNamed(With(a, s), name) = SymbolNamed(a, name)
           /\ SymbolNamed(With(a, s), s.name) = s
  <1> DEFINE b == With(a, s)
             n == Len(a.symbols)
  <1>1. DOMAIN a = {"symbols", "injections", "edges", "entrypoints"} /\ IsSequence(a.symbols)
    BY DEF IsAnalysis, IsSequenceOf, IsSequence
  <1>2. b.injections = a.injections /\ b.edges = a.edges /\ b.symbols = Append(a.symbols, s)
    BY <1>1 DEF With
  <1>3. /\ n \in Nat /\ DOMAIN a.symbols = 1..n /\ DOMAIN b.symbols = 1..(n + 1)
        /\ \A i \in 1..n : b.symbols[i] = a.symbols[i]
        /\ b.symbols[n + 1] = s
    BY <1>1, <1>2, Appended
  <1> HIDE DEF b, n
  <1>4. \A i : i \in 1..(n + 1) <=> i \in 1..n \/ i = n + 1
    BY <1>3
  <1>5. Known(b) = Known(a) \cup {s.name}
    BY <1>3, <1>4 DEF Known
  <1>6. ASSUME NEW name \in Known(a) PROVE SymbolNamed(b, name) = SymbolNamed(a, name)
    <2> DEFINE at == {i \in 1..n : a.symbols[i].name = name}
    <2>1. at \in SUBSET (1..n) /\ at # {}
      BY <1>3 DEF Known
    <2>2. {i \in DOMAIN b.symbols : b.symbols[i].name = name} = at
      BY <1>3, <1>4
    <2>3. {i \in DOMAIN a.symbols : a.symbols[i].name = name} = at
      BY <1>3
    <2> HIDE DEF at
    <2>4. PICK m \in at : \A rows : Latest(rows, at) = rows[m]
      BY <1>3, <2>1, LatestRow
    <2> QED
      BY <1>3, <2>1, <2>2, <2>3, <2>4 DEF SymbolNamed
  <1>7. SymbolNamed(b, s.name) = s
    <2> DEFINE at == {n + 1}
    <2>1. {i \in DOMAIN b.symbols : b.symbols[i].name = s.name} = at
      BY <1>3, <1>4 DEF Known
    <2>2. at \in SUBSET (1..(n + 1)) /\ at # {} /\ n + 1 \in Nat
      BY <1>3
    <2>3. PICK m \in at : \A rows : Latest(rows, at) = rows[m]
      BY <2>2, LatestRow
    <2> QED
      BY <1>3, <2>1, <2>3 DEF SymbolNamed
  <1> QED
    BY <1>2, <1>5, <1>6, <1>7 DEF b

\* What a receiver is injected with is a dotted name, or nothing.
LEMMA ContractIsSequence ==
    ASSUME NEW a, IsAnalysis(a), NEW edge
    PROVE  IsSequence(Contract(a, edge))
  <1>0. <<>> \in Seq({})
    OBVIOUS
  <1>1. IsSequence(NoContract)
    BY <1>0 DEF NoContract, IsSequence
  <1>2. ASSUME NEW consumer PROVE IsSequence(InjectedType(a, consumer))
    <2>1. /\ Len(a.injections) \in Nat /\ DOMAIN a.injections = 1..Len(a.injections)
          /\ \A i \in 1..Len(a.injections) : IsName(a.injections[i].contract)
          /\ Len(a.edges) \in Nat /\ DOMAIN a.edges = 1..Len(a.edges)
          /\ \A i \in 1..Len(a.edges) : IsName(a.edges[i].target)
      BY DEF IsAnalysis, IsSequenceOf
    <2>2. CASE Injections(a, consumer) # {}
      <3>1. Injections(a, consumer) \in SUBSET (1..Len(a.injections))
        BY <2>1 DEF Injections
      <3>2. PICK m \in Injections(a, consumer) :
                \A rows : Latest(rows, Injections(a, consumer)) = rows[m]
        BY <2>1, <2>2, <3>1, LatestRow
      <3>3. InjectedType(a, consumer) = a.injections[m].contract
        BY <2>2, <3>2 DEF InjectedType
      <3> QED
        BY <2>1, <3>1, <3>3, NameIsSequence
    <2>3. CASE Injections(a, consumer) = {} /\ InjectsEdges(a, consumer) # {}
      <3>1. InjectsEdges(a, consumer) \in SUBSET (1..Len(a.edges))
        BY <2>1 DEF InjectsEdges
      <3>2. PICK m \in InjectsEdges(a, consumer) :
                \A rows : Latest(rows, InjectsEdges(a, consumer)) = rows[m]
        BY <2>1, <2>3, <3>1, LatestRow
      <3>3. InjectedType(a, consumer) = a.edges[m].target
        BY <2>3, <3>2 DEF InjectedType
      <3> QED
        BY <2>1, <3>1, <3>3, NameIsSequence
    <2>4. CASE Injections(a, consumer) = {} /\ InjectsEdges(a, consumer) = {}
      BY <1>1, <2>4 DEF InjectedType
    <2> QED
      BY <2>2, <2>3, <2>4
  <1> QED
    BY <1>1, <1>2 DEF Contract

\* No rule leads the call to the callable, and each leads where it did.
LEMMA SameEvidence ==
    ASSUME NEW a, IsAnalysis(a), NEW edge, NEW s, IsName(s.name), Unrelated(a, edge, s)
    PROVE  ByEvidence(With(a, s), edge) = ByEvidence(a, edge)
  <1> DEFINE b == With(a, s)
             C == Contract(a, edge)
  <1>1. s.name \notin Known(a) /\ C \notin s.implements /\ Owner(s.name) # C
        /\ \A name \in Known(a) : Owner(name) # Owner(s.name)
    BY DEF Unrelated
  <1>2. /\ b.injections = a.injections /\ b.edges = a.edges
        /\ Known(b) = Known(a) \cup {s.name}
        /\ \A name \in Known(a) : SymbolNamed(b, name) = SymbolNamed(a, name)
        /\ SymbolNamed(b, s.name) = s
    BY <1>1, WithSymbol
  <1>3. \A consumer : /\ InjectedType(b, consumer) = InjectedType(a, consumer)
                      /\ Qualifier(b, consumer) = Qualifier(a, consumer)
    BY <1>2 DEF InjectedType, Qualifier, Injections, InjectsEdges
  <1>4. Contract(b, edge) = C
    BY <1>3 DEF Contract
  <1>5. Imported(b, edge) = Imported(a, edge)
    BY DEF Unrelated, With
  <1> HIDE DEF b
  <1>6. ASSUME NEW q, IsSequence(q), Owner(s.name) # q PROVE q \o Method(edge) # s.name
    BY <1>6, OwnerOfMember DEF Method
  <1>7. IsSequence(C)
    BY ContractIsSequence
  <1> HIDE DEF C
  <1>8. InjectedCallable(b, edge) = InjectedCallable(a, edge)
    BY <1>1, <1>2, <1>4, <1>6, <1>7 DEF InjectedCallable, C
  <1>9. Implementing(b, edge) = Implementing(a, edge)
    <2> DEFINE known == {n \in Known(a) : C \in SymbolNamed(a, n).implements}
               types == {Owner(n) : n \in known}
    <2>1. {n \in Known(b) : Contract(b, edge) \in SymbolNamed(b, n).implements} = known
      BY <1>1, <1>2, <1>4
    <2>2. ASSUME NEW type \in types PROVE type \o Method(edge) # s.name
      <3>1. PICK n \in Known(a) : type = Owner(n)
        OBVIOUS
      <3>2. IsName(n)
        <4>1. \A i \in DOMAIN a.symbols : IsName(a.symbols[i].name)
          <5>1. /\ a.symbols \in Seq({a.symbols[i] : i \in 1..Len(a.symbols)})
                /\ \A i \in 1..Len(a.symbols) : IsName(a.symbols[i].name)
            BY DEF IsAnalysis, IsSequenceOf
          <5>2. DOMAIN a.symbols = 1..Len(a.symbols)
            BY <5>1, LenProperties
          <5> QED BY <5>1, <5>2
        <4>2. PICK i \in DOMAIN a.symbols : n = a.symbols[i].name
          BY DEF Known
        <4> QED BY <4>1, <4>2
      <3> QED
        BY <1>1, <1>6, <3>1, <3>2, NameIsSequence
    <2>3. Implementing(b, edge) = {type \o Method(edge) : type \in types} \cap Known(b)
      BY <2>1 DEF Implementing
    <2>4. Implementing(a, edge) = {type \o Method(edge) : type \in types} \cap Known(a)
      BY DEF Implementing, C
    <2> HIDE DEF types
    <2> QED
      BY <1>2, <2>2, <2>3, <2>4
  <1>10. Implementing(a, edge) \subseteq Known(a)
    BY DEF Implementing
  <1>11. Qualified(b, edge) = Qualified(a, edge) /\ Primary(b, edge) = Primary(a, edge)
    BY <1>2, <1>3, <1>9, <1>10 DEF Qualified, Primary
  <1> QED
    BY <1>5, <1>8, <1>9, <1>11 DEF ByEvidence, b

\* Whatever a service declares: one more callable that is unrelated to a call with a
\* receiver, of the same method name for one, leads the call nowhere new
\* (resolution.py, BoundedFlowResolver).
THEOREM UnrelatedAlwaysIgnored == Spec => []UnrelatedSymbolsIgnored
  <1>1. ASSUME NEW a \in AllAnalyses PROVE a \in IgnoringUnrelated
    <2> SUFFICES ASSUME NEW e \in ToSet(a.edges), NEW s \in AllSymbols,
                        HasReceiver(e), Unrelated(a, e, s)
                 PROVE  ResolveEdge(With(a, s), e) = ResolveEdge(a, e)
      BY DEF IgnoringUnrelated, With
    <2>1. IsAnalysis(a)
      BY AnalysesAssumption
    <2>2. IsName(s.name)
      <3>1. PICK c \in AllAnalyses : s \in ToSet(c.symbols)
        BY DEF AllSymbols
      <3>2. IsSequenceOf(c.symbols, LAMBDA sym : IsName(sym.name))
        BY AnalysesAssumption DEF IsAnalysis
      <3>3. PICK j \in DOMAIN c.symbols : s = c.symbols[j]
        BY <3>1 DEF ToSet
      <3>4. DOMAIN c.symbols = 1..Len(c.symbols)
        BY <3>2 DEF IsSequenceOf
      <3> QED
        BY <3>2, <3>3, <3>4 DEF IsSequenceOf
    <2>3. ByEvidence(With(a, s), e) = ByEvidence(a, e)
      BY <2>1, <2>2, SameEvidence
    <2>4. Settled(With(a, s), e) <=> Settled(a, e)
      BY <2>1, WithSymbol DEF Unrelated, Settled
    <2>5. SameMember(With(a, s), e) = SameMember(a, e)
      BY DEF SameMember
    <2> QED
      BY <2>3, <2>4, <2>5 DEF ResolveEdge
  <1>2. TypeOK => UnrelatedSymbolsIgnored
    BY <1>1 DEF TypeOK, UnrelatedSymbolsIgnored
  <1> QED
    BY <1>2, TypeCorrect, PTL

=============================================================================
