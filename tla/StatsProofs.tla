----------------------------- MODULE StatsProofs -----------------------------
(***************************************************************************)
(* Proofs about Stats: its types, that no reset falls into a snapshot,     *)
(* that what a snapshot says of a key adds up before the first reset, and  *)
(* how far it is off at most after one. The three recordings every action  *)
(* is made of are described first: what they do to one goroutine, and that *)
(* they only add to the measurers.                                         *)
(***************************************************************************)
EXTENDS Stats, TLAPS, FiniteSetTheorems, SequenceTheorems

Numbers == [Counters -> Nat]

Place(n) == [step: Steps, key: Keys \union {None}, m: 1..n \union {None}]

\* Steps of a goroutine that has a key, and of one that has measurers as well.
Holding == Steps \ {"off", "idle"}
Writing == {"waiting", "working", "counting"}

\* Who is at which step: only a worker goes through a ticket; whoever is about
\* to write has looked up where.
Placed ==
  \A g \in Goroutines :
    /\ at[g].step \in Holding => at[g].key \in Keys
    /\ at[g].step \in Writing => at[g].m \in 1..Len(measurers)
    /\ g \notin Workers => at[g].step \in {"idle", "counting"}

\* What a snapshot has still to read is in the map, and what it has read has
\* only grown since.
SeenCurrent ==
  reading # None =>
    \A k \in Keys :
      /\ k \in reading.todo => byKey[k] # None
      /\ reading.seen[k] # None =>
           /\ byKey[k] # None
           /\ \A c \in Counters : reading.seen[k][c] <= measurers[byKey[k]][c]

-----------------------------------------------------------------------------
\* Recording.

LEMMA NewIsNumbers == NewMeasurers \in Numbers
BY DEF NewMeasurers, Numbers

\* ByKey sends one goroutine to its next step with measurers of its key, which
\* may be new ones; nobody else's measurers change.
LEMMA ByKeyFacts ==
  ASSUME TypeOK, NEW g \in Goroutines, NEW k \in Keys, NEW s \in Steps,
         ByKey(g, k, s)
  PROVE  /\ reading = None
         /\ measurers' \in Seq(Numbers)
         /\ Len(measurers) \in Nat /\ Len(measurers') \in Nat
         /\ Len(measurers) <= Len(measurers')
         /\ \A i \in 1..Len(measurers) : measurers'[i] = measurers[i]
         /\ byKey' \in [Keys -> 1..Len(measurers') \union {None}]
         /\ byKey'[k] \in 1..Len(measurers')
         /\ \A q \in Keys \ {k} : byKey'[q] = byKey[q]
         /\ byKey[k] # None => byKey'[k] = byKey[k]
         /\ byKey[k] = None => /\ byKey'[k] = Len(measurers) + 1
                               /\ measurers'[byKey'[k]] = NewMeasurers
         /\ at' \in [Goroutines -> Place(Len(measurers'))]
         /\ at'[g] = [step |-> s, key |-> k, m |-> byKey'[k]]
         /\ \A h \in Goroutines \ {g} : at'[h] = at[h]
<1>1. /\ measurers \in Seq(Numbers) /\ Len(measurers) \in Nat
      /\ byKey \in [Keys -> 1..Len(measurers) \union {None}]
      /\ at \in [Goroutines -> Place(Len(measurers))]
  BY LenProperties DEF TypeOK, Numbers, Place
<1>2. None \notin Nat
  BY NoneAssumption
<1>3. CASE byKey[k] = None
  <2>1. measurers' = Append(measurers, NewMeasurers)
    BY <1>3 DEF ByKey
  <2>2. /\ measurers' \in Seq(Numbers)
        /\ Len(measurers') = Len(measurers) + 1
        /\ \A i \in 1..Len(measurers) : measurers'[i] = measurers[i]
        /\ measurers'[Len(measurers) + 1] = NewMeasurers
    BY <2>1, <1>1, NewIsNumbers, AppendProperties
  <2>3. byKey' = [byKey EXCEPT ![k] = Len(measurers) + 1]
    BY <1>1, <1>3 DEF ByKey
  <2>4. byKey' \in [Keys -> 1..Len(measurers') \union {None}]
    BY <2>2, <2>3, <1>1
  <2>5. byKey'[k] = Len(measurers) + 1
    BY <2>3, <1>1
  <2>6. at' = [at EXCEPT ![g] = [step |-> s, key |-> k, m |-> byKey'[k]]]
    BY DEF ByKey
  <2>7. at' \in [Goroutines -> Place(Len(measurers'))]
    BY <2>2, <2>5, <2>6, <1>1 DEF Place
  <2> QED BY <2>2, <2>3, <2>4, <2>5, <2>6, <2>7, <1>1, <1>3 DEF ByKey, Writable
<1>4. CASE byKey[k] # None
  <2>1. measurers' = measurers /\ byKey' = byKey /\ byKey[k] \in 1..Len(measurers)
    BY <1>1, <1>4 DEF ByKey
  <2>2. at' = [at EXCEPT ![g] = [step |-> s, key |-> k, m |-> byKey'[k]]]
    BY DEF ByKey
  <2>4. at' \in [Goroutines -> Place(Len(measurers'))]
    BY <2>1, <2>2, <1>1 DEF Place
  <2> QED BY <2>1, <2>2, <2>4, <1>1, <1>4 DEF ByKey, Writable
<1> QED BY <1>3, <1>4

\* Recording adds to the measurers of one goroutine and sends it on.
LEMMA RecordedFacts ==
  ASSUME TypeOK, NEW g \in Goroutines, NEW new \in Numbers, NEW s \in Steps,
         at[g].m \in 1..Len(measurers), Recorded(g, new, s)
  PROVE  /\ measurers' \in Seq(Numbers)
         /\ Len(measurers') = Len(measurers)
         /\ measurers'[at[g].m] = new
         /\ \A i \in 1..Len(measurers) : i # at[g].m => measurers'[i] = measurers[i]
         /\ byKey' = byKey
         /\ at' \in [Goroutines -> Place(Len(measurers'))]
         /\ at'[g].step = s
         /\ at'[g].key = IF s = "idle" THEN None ELSE at[g].key
         /\ \A h \in Goroutines \ {g} : at'[h] = at[h]
<1>1. measurers \in Seq(Numbers) /\ Len(measurers) \in Nat
  BY LenProperties DEF TypeOK, Numbers
<1>3. at \in [Goroutines -> Place(Len(measurers))]
  BY DEF TypeOK, Place
<1>4. measurers' = [measurers EXCEPT ![at[g].m] = new]
  BY DEF Recorded
<1>5. /\ measurers' \in Seq(Numbers)
      /\ Len(measurers') = Len(measurers)
      /\ \A j \in 1..Len(measurers) :
           measurers'[j] = IF j = at[g].m THEN new ELSE measurers[j]
  BY <1>1, <1>4, ExceptSeq
<1>6. /\ at' \in [Goroutines -> Place(Len(measurers))]
      /\ at'[g].step = s
      /\ at'[g].key = IF s = "idle" THEN None ELSE at[g].key
      /\ \A h \in Goroutines \ {g} : at'[h] = at[h]
  BY <1>3 DEF Recorded, Place
<1> QED BY <1>5, <1>6 DEF Recorded

\* The forms the steps of Next take: what a goroutine looks up, what it records,
\* and where it goes without either.
LEMMA LookUpKeeps ==
  ASSUME TypeOK, Placed, SeenCurrent,
         NEW g \in Goroutines, NEW k \in Keys, NEW s \in Writing, ByKey(g, k, s),
         g \notin Workers => s = "counting",
         income' \in [Keys -> Nat], {polls, counts, resets}' \subseteq Nat,
         reading' = reading
  PROVE  TypeOK' /\ Placed' /\ SeenCurrent'
<1>1. s \in Steps
  BY DEF Writing, Steps
<1>2. TypeOK'
  BY <1>1, ByKeyFacts DEF TypeOK, Place, Numbers
<1>3. Placed'
  <2> SUFFICES ASSUME NEW h \in Goroutines
               PROVE  /\ at'[h].step \in Holding => at'[h].key \in Keys
                      /\ at'[h].step \in Writing => at'[h].m \in 1..Len(measurers')
                      /\ h \notin Workers => at'[h].step \in {"idle", "counting"}
    BY DEF Placed
  <2>1. CASE h = g
    <3>1. /\ at'[g] = [step |-> s, key |-> k, m |-> byKey'[k]]
          /\ byKey'[k] \in 1..Len(measurers')
      BY <1>1, ByKeyFacts
    <3>2. at'[g].step = s /\ at'[g].key = k /\ at'[g].m \in 1..Len(measurers')
      BY <3>1
    <3> QED BY <2>1, <3>2 DEF Writing
  <2>2. CASE h # g
    <3>1. /\ at'[h] = at[h]
          /\ Len(measurers) \in Nat /\ Len(measurers') \in Nat
          /\ Len(measurers) <= Len(measurers')
      BY <1>1, <2>2, ByKeyFacts
    <3> QED BY <3>1 DEF Placed
  <2> QED BY <2>1, <2>2
<1>4. SeenCurrent'
  BY <1>1, ByKeyFacts DEF SeenCurrent
<1> QED BY <1>2, <1>3, <1>4

LEMMA RecordKeeps ==
  ASSUME TypeOK, Placed, SeenCurrent,
         NEW g \in Goroutines, NEW new \in Numbers, NEW s \in Steps \ Writing,
         at[g].step \in Writing, Recorded(g, new, s),
         \A c \in Counters : Mine(g)[c] <= new[c],
         g \notin Workers => s = "idle",
         income' \in [Keys -> Nat], {polls, counts, resets}' \subseteq Nat,
         reading' = reading
  PROVE  TypeOK' /\ Placed' /\ SeenCurrent'
<1>1. at[g].m \in 1..Len(measurers) /\ s \in Steps
  BY DEF Placed
<1>2. TypeOK'
  BY <1>1, RecordedFacts DEF TypeOK, Place, Numbers
<1>3. Placed'
  <2> SUFFICES ASSUME NEW h \in Goroutines
               PROVE  /\ at'[h].step \in Holding => at'[h].key \in Keys
                      /\ at'[h].step \in Writing => at'[h].m \in 1..Len(measurers')
                      /\ h \notin Workers => at'[h].step \in {"idle", "counting"}
    BY DEF Placed
  <2>1. CASE h = g
    <3>1. at'[g].step = s /\ at'[g].key = IF s = "idle" THEN None ELSE at[g].key
      BY <1>1, RecordedFacts
    <3>2. at[g].key \in Keys
      BY DEF Placed, Writing, Holding, Steps
    <3> QED BY <2>1, <3>1, <3>2 DEF Holding
  <2>2. CASE h # g
    <3>1. at'[h] = at[h] /\ Len(measurers') = Len(measurers)
      BY <1>1, <2>2, RecordedFacts
    <3> QED BY <3>1 DEF Placed
  <2> QED BY <2>1, <2>2
<1>4. \A i \in 1..Len(measurers), c \in Counters :
        measurers[i][c] \in Nat /\ measurers'[i][c] \in Nat
  <2>1. measurers \in Seq(Numbers) /\ measurers' \in Seq(Numbers)
        /\ Len(measurers') = Len(measurers)
    BY <1>1, RecordedFacts DEF TypeOK, Numbers
  <2> QED BY <2>1, ElementOfSeq DEF Numbers
<1>5. \A i \in 1..Len(measurers), c \in Counters : measurers[i][c] <= measurers'[i][c]
  <2> SUFFICES ASSUME NEW i \in 1..Len(measurers), NEW c \in Counters
               PROVE  measurers[i][c] <= measurers'[i][c]
    OBVIOUS
  <2>1. measurers[i][c] \in Nat
    BY <1>4
  <2>2. CASE i = at[g].m
    <3>1. measurers'[i] = new
      BY <1>1, <2>2, RecordedFacts
    <3> QED BY <2>2, <3>1 DEF Mine
  <2>3. CASE i # at[g].m
    <3>1. measurers'[i] = measurers[i]
      BY <1>1, <2>3, RecordedFacts
    <3> QED BY <2>1, <3>1
  <2> QED BY <2>2, <2>3
<1>6. SeenCurrent'
  <2> SUFFICES ASSUME reading # None, NEW k \in Keys, reading.seen[k] # None
               PROVE  \A c \in Counters : reading.seen[k][c] <= measurers'[byKey[k]][c]
    BY <1>1, RecordedFacts DEF SeenCurrent
  <2>1. byKey[k] \in 1..Len(measurers)
    BY DEF SeenCurrent, TypeOK
  <2>2. \A c \in Counters : reading.seen[k][c] \in Nat
    BY DEF TypeOK
  <2>3. \A c \in Counters : reading.seen[k][c] <= measurers[byKey[k]][c]
    BY DEF SeenCurrent
  <2>4. ASSUME NEW c \in Counters PROVE reading.seen[k][c] <= measurers'[byKey[k]][c]
    <3> DEFINE i == byKey[k]
    <3>1. /\ measurers[i][c] \in Nat /\ measurers'[i][c] \in Nat
          /\ measurers[i][c] <= measurers'[i][c]
      BY <1>4, <1>5, <2>1
    <3> QED BY <2>2, <2>3, <3>1
  <2> QED BY <2>4
<1> QED BY <1>2, <1>3, <1>6

LEMMA MoveKeeps ==
  ASSUME TypeOK, Placed, SeenCurrent,
         NEW w \in Workers, NEW s \in Steps \ Writing, NEW k \in Keys \union {None},
         s \in Holding => k \in Keys,
         at' = [at EXCEPT ![w].step = s, ![w].key = k],
         UNCHANGED <<byKey, measurers, reading>>,
         income' \in [Keys -> Nat], {polls, counts, resets}' \subseteq Nat
  PROVE  TypeOK' /\ Placed' /\ SeenCurrent'
<1>1. /\ at' \in [Goroutines -> Place(Len(measurers))]
      /\ at'[w].step = s /\ at'[w].key = k
      /\ \A h \in Goroutines \ {w} : at'[h] = at[h]
  BY DEF TypeOK, Place, Goroutines
<1>2. TypeOK'
  BY <1>1 DEF TypeOK, Place
<1>3. Placed'
  BY <1>1 DEF Placed
<1>4. SeenCurrent'
  BY DEF SeenCurrent
<1> QED BY <1>2, <1>3, <1>4

-----------------------------------------------------------------------------
\* Types, and snapshots that stay current.

IInv == TypeOK /\ Placed /\ SeenCurrent

LEMMA InvInit == Init => IInv
<1> SUFFICES ASSUME Init PROVE IInv
  OBVIOUS
<1>1. measurers \in Seq([Counters -> Nat])
  BY DEF Init
<1>2. TypeOK
  BY <1>1 DEF Init, TypeOK, Nobody, Steps
<1>3. Placed
  BY DEF Init, Placed, Nobody, Holding, Writing, Goroutines
<1>4. SeenCurrent
  BY DEF Init, SeenCurrent
<1> QED BY <1>2, <1>3, <1>4 DEF IInv

LEMMA MineType ==
  ASSUME TypeOK, Placed, NEW g \in Goroutines, at[g].step \in Writing
  PROVE  Mine(g) \in Numbers /\ \A c \in Counters : Mine(g)[c] \in Nat
<1>1. measurers \in Seq(Numbers) /\ at[g].m \in 1..Len(measurers)
  BY DEF TypeOK, Placed, Numbers
<1>2. Mine(g) \in Numbers
  BY <1>1, ElementOfSeq DEF Mine
<1> QED BY <1>2 DEF Numbers

LEMMA InvStep == IInv /\ [Next]_vars => IInv'
<1> SUFFICES ASSUME IInv, [Next]_vars PROVE IInv'
  OBVIOUS
<1> USE DEF IInv
<1>0. /\ Workers \subseteq Goroutines /\ Callers \subseteq Goroutines /\ Poller \in Goroutines
      /\ Poller \notin Workers /\ \A c \in Callers : c \notin Workers
  BY GoroutinesAssumption DEF Goroutines
<1>1. ASSUME NEW k \in Keys, PollerLooksUp(k) PROVE IInv'
  <2>1. polls' \in Nat
    BY <1>1 DEF PollerLooksUp, TypeOK
  <2> QED BY <1>0, <1>1, <2>1, LookUpKeeps DEF PollerLooksUp, Writing, TypeOK
<1>2. CASE PollerCounts
  <2> DEFINE new == [Mine(Poller) EXCEPT !.polled = @ + 1]
  <2>1. Mine(Poller) \in Numbers /\ \A c \in Counters : Mine(Poller)[c] \in Nat
    BY <1>0, <1>2, MineType DEF PollerCounts, Writing
  <2>2. new \in Numbers /\ \A c \in Counters : Mine(Poller)[c] <= new[c]
    BY <2>1 DEF Numbers, Counters
  <2>3. at[Poller].key \in Keys
    BY <1>0, <1>2 DEF PollerCounts, Placed, Holding, Steps
  <2>4. income' \in [Keys -> Nat]
    BY <1>2, <2>3 DEF PollerCounts, TypeOK
  <2>5. "idle" \in Steps \ Writing /\ at[Poller].step \in Writing
    BY <1>2 DEF PollerCounts, Steps, Writing
  <2> QED BY <1>0, <1>2, <2>2, <2>4, <2>5, RecordKeeps DEF PollerCounts, TypeOK, Bounds
<1>3. ASSUME NEW w \in Workers, WorkerStarts(w) \/ WorkerStops(w) \/ HandlerPanics(w)
      PROVE  IInv'
  <2>1. PICK s \in {"idle", "off"} : Goes(w, s) /\ at[w].key \in Keys \union {None}
    BY <1>0, <1>3 DEF WorkerStarts, WorkerStops, HandlerPanics, TypeOK
  <2> DEFINE k == IF s = "idle" THEN None ELSE at[w].key
  <2>2. at' = [at EXCEPT ![w].step = s, ![w].key = k]
    BY <1>0, <2>1 DEF Goes, TypeOK
  <2>3. s \in Steps \ Writing /\ s \notin Holding /\ k \in Keys \union {None}
    BY <2>1 DEF Steps, Writing, Holding
  <2>4. UNCHANGED <<byKey, measurers, reading, income, polls, counts, resets>>
    BY <1>3, <2>1 DEF WorkerStarts, WorkerStops, HandlerPanics, Goes, Bounds
  <2>5. income' \in [Keys -> Nat] /\ {polls, counts, resets}' \subseteq Nat
    BY <2>4 DEF TypeOK
  <2> HIDE DEF k
  <2>6. TypeOK' /\ Placed' /\ SeenCurrent'
    BY <2>2, <2>3, <2>4, <2>5, MoveKeeps
  <2> QED BY <2>6
<1>4. ASSUME NEW w \in Workers, NEW k \in Keys, WorkerTakes(w, k) PROVE IInv'
  <2>1. income' \in [Keys -> Nat]
    BY <1>4 DEF WorkerTakes, TypeOK
  <2>2. "wait" \in Steps \ Writing
    BY DEF Steps, Writing
  <2>3. /\ at' = [at EXCEPT ![w].step = "wait", ![w].key = k]
        /\ UNCHANGED <<byKey, measurers, reading>>
        /\ {polls, counts, resets}' \subseteq Nat
    BY <1>4 DEF WorkerTakes, TypeOK, Bounds
  <2>4. k \in Keys \union {None}
    OBVIOUS
  <2>5. TypeOK' /\ Placed' /\ SeenCurrent'
    BY <2>1, <2>2, <2>3, <2>4, MoveKeeps
  <2> QED BY <2>5
<1>5. ASSUME NEW w \in Workers, WaitLooksUp(w) \/ HandlerReturns(w) \/ ProcessLooksUp(w)
      PROVE  IInv'
  <2>1. at[w].key \in Keys
    BY <1>0, <1>5 DEF WaitLooksUp, HandlerReturns, ProcessLooksUp, Placed, Holding, Steps
  <2>2. PICK s \in Writing : ByKey(w, at[w].key, s)
    BY <1>5 DEF WaitLooksUp, HandlerReturns, ProcessLooksUp, Writing
  <2>3. UNCHANGED <<income, reading, polls, counts, resets>>
    BY <1>5 DEF WaitLooksUp, HandlerReturns, ProcessLooksUp, Bounds
  <2> QED BY <1>0, <2>1, <2>2, <2>3, LookUpKeeps DEF TypeOK
<1>6. ASSUME NEW w \in Workers, WaitRecorded(w) \/ WorkRecorded(w) \/ ProcessCounted(w)
      PROVE  IInv'
  <2>1. at[w].step \in Writing
    BY <1>6 DEF WaitRecorded, WorkRecorded, ProcessCounted, Writing
  <2>2. Mine(w) \in Numbers /\ \A c \in Counters : Mine(w)[c] \in Nat
    BY <1>0, <2>1, MineType
  <2>3. PICK s \in {"handle", "idle", "worked"}, new \in Numbers :
          /\ Recorded(w, new, s)
          /\ \A c \in Counters : Mine(w)[c] <= new[c]
    <3>1. CASE WaitRecorded(w)
      <4>1. PICK n \in {0, 1} : Recorded(w, [Mine(w) EXCEPT !.waits = @ + n], "handle")
        BY <3>1 DEF WaitRecorded
      <4>2. /\ [Mine(w) EXCEPT !.waits = @ + n] \in Numbers
            /\ \A c \in Counters : Mine(w)[c] <= [Mine(w) EXCEPT !.waits = @ + n][c]
        BY <2>2 DEF Numbers, Counters
      <4> QED BY <4>1, <4>2
    <3>2. CASE WorkRecorded(w)
      <4>1. PICK s \in {"idle", "worked"} :
              Recorded(w, [Mine(w) EXCEPT !.works = @ + 1], s)
        BY <3>2 DEF WorkRecorded
      <4>2. /\ [Mine(w) EXCEPT !.works = @ + 1] \in Numbers
            /\ \A c \in Counters : Mine(w)[c] <= [Mine(w) EXCEPT !.works = @ + 1][c]
        BY <2>2 DEF Numbers, Counters
      <4> QED BY <4>1, <4>2
    <3>3. CASE ProcessCounted(w)
      <4>1. /\ [Mine(w) EXCEPT !.processed = @ + 1] \in Numbers
            /\ \A c \in Counters : Mine(w)[c] <= [Mine(w) EXCEPT !.processed = @ + 1][c]
        BY <2>2 DEF Numbers, Counters
      <4> QED BY <3>3, <4>1 DEF ProcessCounted
    <3> QED BY <1>6, <3>1, <3>2, <3>3
  <2>4. UNCHANGED <<income, reading, polls, counts, resets>>
    BY <1>6 DEF WaitRecorded, WorkRecorded, ProcessCounted, Bounds
  <2>5. s \in Steps \ Writing
    BY <2>3 DEF Steps, Writing
  <2> QED BY <1>0, <2>1, <2>3, <2>4, <2>5, RecordKeeps DEF TypeOK
<1>7. ASSUME NEW c \in Callers, NEW k \in Keys, CallerLooksUp(c, k) PROVE IInv'
  <2>1. counts' \in Nat
    BY <1>7 DEF CallerLooksUp, TypeOK
  <2> QED BY <1>0, <1>7, <2>1, LookUpKeeps DEF CallerLooksUp, Writing, TypeOK
<1>8. ASSUME NEW c \in Callers, CallerCounts(c) PROVE IInv'
  <2> DEFINE new == [Mine(c) EXCEPT !.others = @ + 1]
  <2>1. Mine(c) \in Numbers /\ \A d \in Counters : Mine(c)[d] \in Nat
    BY <1>0, <1>8, MineType DEF CallerCounts, Writing
  <2>2. new \in Numbers /\ \A d \in Counters : Mine(c)[d] <= new[d]
    BY <2>1 DEF Numbers, Counters
  <2>3. "idle" \in Steps \ Writing /\ at[c].step \in Writing
    BY <1>8 DEF CallerCounts, Steps, Writing
  <2> QED BY <1>0, <1>8, <2>2, <2>3, RecordKeeps DEF CallerCounts, TypeOK, Bounds
<1>9. CASE StartSnapshot
  BY <1>9 DEF StartSnapshot, TypeOK, Placed, SeenCurrent, Bounds
<1>10. ASSUME NEW k \in Keys, SnapshotKey(k) PROVE IInv'
  <2>1. byKey[k] \in 1..Len(measurers) /\ reading # None
    BY <1>10 DEF SnapshotKey, SeenCurrent, TypeOK
  <2>2. measurers[byKey[k]] \in [Counters -> Nat]
    BY <2>1, ElementOfSeq DEF TypeOK
  <2>3. reading \in [todo: SUBSET Keys, seen: [Keys -> [Counters -> Nat] \union {None}]]
    BY <2>1 DEF TypeOK
  <2>4. /\ reading'.todo = reading.todo \ {k}
        /\ reading'.seen = [reading.seen EXCEPT ![k] = measurers[byKey[k]]]
        /\ reading' \in [todo: SUBSET Keys, seen: [Keys -> [Counters -> Nat] \union {None}]]
    BY <1>10, <2>2, <2>3 DEF SnapshotKey
  <2>5. TypeOK' /\ Placed'
    BY <1>10, <2>4 DEF SnapshotKey, TypeOK, Placed, Bounds
  <2>6. SeenCurrent'
    <3> SUFFICES ASSUME NEW q \in Keys
                 PROVE  /\ q \in reading'.todo => byKey[q] # None
                        /\ reading'.seen[q] # None =>
                             /\ byKey[q] # None
                             /\ \A c \in Counters :
                                  reading'.seen[q][c] <= measurers[byKey[q]][c]
      BY <1>10 DEF SnapshotKey, SeenCurrent
    <3>1. CASE q = k
      <4>1. reading'.seen[q] = measurers[byKey[k]] /\ q \notin reading'.todo
        BY <2>3, <2>4, <3>1
      <4>2. \A c \in Counters : measurers[byKey[k]][c] <= measurers[byKey[k]][c]
        BY <2>2
      <4>3. byKey[k] # None
        BY <1>10 DEF SnapshotKey, SeenCurrent
      <4> QED BY <3>1, <4>1, <4>2, <4>3
    <3>2. CASE q # k
      BY <2>1, <2>3, <2>4, <3>2 DEF SeenCurrent
    <3> QED BY <3>1, <3>2
  <2> QED BY <2>5, <2>6
<1>11. CASE EndSnapshot
  BY <1>11 DEF EndSnapshot, TypeOK, Placed, SeenCurrent, Bounds
<1>12. CASE Reset
  BY <1>12 DEF Reset, Writable, TypeOK, Placed, SeenCurrent
<1>13. CASE UNCHANGED vars
  BY <1>13 DEF vars, TypeOK, Placed, SeenCurrent
<1> QED
  BY <1>1, <1>2, <1>3, <1>4, <1>5, <1>6, <1>7, <1>8, <1>9, <1>10, <1>11, <1>12, <1>13
  DEF Next

LEMMA InvAlways == Spec => []IInv
BY InvInit, InvStep, PTL DEF Spec

\* What the statistics hold is well-formed, and every pointer points to
\* measurers that exist (measurers outlive a Reset).
THEOREM StatsTypeCorrect == Spec => []TypeOK
<1>1. IInv => TypeOK
  BY DEF IInv
<1> QED BY <1>1, InvAlways, PTL

\* Counters never run backwards during a Snapshot, and no Reset falls into it.
THEOREM SnapshotCurrentCorrect == Spec => []SnapshotCurrent
<1>1. IInv => SnapshotCurrent
  BY DEF IInv, SeenCurrent, SnapshotCurrent, Read
<1> QED BY <1>1, InvAlways, PTL

-----------------------------------------------------------------------------
\* The flow of tickets before the first reset. Every ticket polled is counted,
\* queued or with a worker, and the counts never exceed what is left.

Before == {"wait", "waiting", "handle", "working"}   \* not timed yet
Queue  == {"wait", "waiting"}                        \* its wait is not recorded
After  == {"worked", "counting"}                     \* timed, not counted yet

At(k, T) == {w \in Workers : at[w].key = k /\ at[w].step \in T}
Number(k, T) == Cardinality(At(k, T))

Total(k, c) == IF byKey[k] = None THEN 0 ELSE measurers[byKey[k]][c]

FlowOf(k) ==
  /\ Total(k, "works") + income[k] + Number(k, Before) <= Total(k, "polled")
  /\ Total(k, "waits") + income[k] + Number(k, Queue) <= Total(k, "polled")
  /\ Total(k, "processed") + Number(k, After) <= Total(k, "works")

\* No two keys share measurers, and nobody writes to replaced ones.
Pointers ==
  /\ \A k, q \in Keys : byKey[k] # None /\ byKey[k] = byKey[q] => k = q
  /\ \A g \in Goroutines : at[g].step \in Writing => at[g].m = byKey[at[g].key]

FlowInv ==
  resets = 0 => Pointers /\ (\A k \in Keys : FlowOf(k)) /\ FlowUnbroken

LEMMA NumberType ==
  ASSUME NEW k, NEW T
  PROVE  Number(k, T) \in Nat /\ Number(k, T)' \in Nat
<1>1. IsFiniteSet(Workers) /\ At(k, T) \in SUBSET Workers /\ At(k, T)' \in SUBSET Workers
  BY GoroutinesAssumption DEF At
<1>2. IsFiniteSet(At(k, T)) /\ IsFiniteSet(At(k, T)')
  BY <1>1, FS_Subset
<1> QED BY <1>2, FS_CardinalityType DEF Number

LEMMA TotalType ==
  ASSUME TypeOK, NEW k \in Keys, NEW c \in Counters
  PROVE  Total(k, c) \in Nat
<1>1. CASE byKey[k] = None
  BY <1>1 DEF Total
<1>2. CASE byKey[k] # None
  <2>1. byKey[k] \in 1..Len(measurers) /\ measurers \in Seq([Counters -> Nat])
    BY <1>2 DEF TypeOK
  <2>2. measurers[byKey[k]] \in [Counters -> Nat]
    BY <2>1, ElementOfSeq
  <2> QED BY <1>2, <2>2 DEF Total
<1> QED BY <1>1, <1>2

\* Nobody entered or left.
LEMMA SameNumber ==
  ASSUME NEW k, NEW T,
         \A w \in Workers : w \in At(k, T)' <=> w \in At(k, T)
  PROVE  Number(k, T)' = Number(k, T)
<1>1. At(k, T)' = At(k, T)
  BY DEF At
<1> QED BY <1>1 DEF Number

\* What worker w contributes.
Here(w, k, T) == IF at[w].key = k /\ at[w].step \in T THEN 1 ELSE 0

\* One worker moved.
LEMMA MovedNumber ==
  ASSUME NEW k, NEW T, NEW w \in Workers,
         \A v \in Workers \ {w} : at'[v] = at[v]
  PROVE  Number(k, T)' = Number(k, T) + Here(w, k, T)' - Here(w, k, T)
<1> DEFINE Others == At(k, T) \ {w}
<1>1. IsFiniteSet(At(k, T)) /\ IsFiniteSet(At(k, T)')
  <2>1. IsFiniteSet(Workers) /\ At(k, T) \in SUBSET Workers /\ At(k, T)' \in SUBSET Workers
    BY GoroutinesAssumption DEF At
  <2> QED BY <2>1, FS_Subset
<1>2. /\ IsFiniteSet(Others)
      /\ Cardinality(Others) = Number(k, T) - Here(w, k, T)
  <2>1. w \in At(k, T) <=> at[w].key = k /\ at[w].step \in T
    BY DEF At
  <2> QED BY <1>1, <2>1, FS_RemoveElement, NumberType DEF Number, Here
<1>3. At(k, T)' = IF at'[w].key = k /\ at'[w].step \in T THEN Others \union {w} ELSE Others
  BY DEF At
<1>4. Cardinality(Others \union {w}) = Cardinality(Others) + 1
  BY <1>2, FS_AddElement
<1>5. Cardinality(Others) \in Nat
  BY <1>2, FS_CardinalityType
<1>6. Number(k, T)' = Cardinality(Others) + Here(w, k, T)'
  BY <1>3, <1>4, <1>5 DEF Number, Here
<1> QED BY <1>2, <1>5, <1>6, NumberType DEF Here

\* A look-up keeps all totals: new measurers are empty, and were not counted.
LEMMA LookUpFlow ==
  ASSUME TypeOK, Placed, Pointers,
         NEW g \in Goroutines, NEW k \in Keys, NEW s \in Writing, ByKey(g, k, s)
  PROVE  /\ Pointers'
         /\ \A q \in Keys, c \in Counters : Total(q, c)' = Total(q, c)
<1>1. s \in Steps /\ None \notin Nat
  BY NoneAssumption DEF Writing, Steps
<1>2. /\ Len(measurers) \in Nat
      /\ \A i \in 1..Len(measurers) : measurers'[i] = measurers[i]
      /\ \A q \in Keys \ {k} : byKey'[q] = byKey[q]
      /\ byKey[k] # None => byKey'[k] = byKey[k]
      /\ byKey[k] = None => /\ byKey'[k] = Len(measurers) + 1
                            /\ measurers'[byKey'[k]] = NewMeasurers
      /\ at'[g] = [step |-> s, key |-> k, m |-> byKey'[k]]
      /\ \A h \in Goroutines \ {g} : at'[h] = at[h]
  BY <1>1, ByKeyFacts
<1>3. \A q \in Keys : byKey[q] # None => byKey[q] \in 1..Len(measurers) /\ byKey'[q] = byKey[q]
  BY <1>2 DEF TypeOK
<1>4. \A q, r \in Keys : byKey'[q] # None /\ byKey'[q] = byKey'[r] => q = r
  BY <1>1, <1>2, <1>3 DEF Pointers
<1>5. ASSUME NEW h \in Goroutines, at'[h].step \in Writing
      PROVE  at'[h].m = byKey'[at'[h].key]
  <2>1. CASE h = g
    BY <1>2, <2>1
  <2>2. CASE h # g
    <3>1. at'[h] = at[h] /\ at[h].key \in Keys /\ at[h].m \in 1..Len(measurers)
      BY <1>2, <1>5, <2>2 DEF Placed, Writing, Holding, Steps
    <3>2. at[h].m = byKey[at[h].key]
      BY <1>5, <3>1 DEF Pointers
    <3>3. byKey[at[h].key] # None
      BY <1>1, <1>2, <3>1, <3>2
    <3> QED BY <1>3, <3>1, <3>2, <3>3
  <2> QED BY <2>1, <2>2
<1>6. ASSUME NEW q \in Keys, NEW c \in Counters PROVE Total(q, c)' = Total(q, c)
  <2>1. CASE byKey[q] # None
    <3>1. byKey'[q] = byKey[q] /\ measurers'[byKey'[q]] = measurers[byKey[q]]
      BY <1>2, <1>3, <2>1
    <3> QED BY <2>1, <3>1 DEF Total
  <2>2. CASE byKey[q] = None /\ q # k
    BY <1>2, <2>2 DEF Total
  <2>3. CASE byKey[q] = None /\ q = k
    <3>1. byKey'[q] # None /\ measurers'[byKey'[q]][c] = 0
      BY <1>1, <1>2, <2>3 DEF NewMeasurers
    <3> QED BY <2>3, <3>1 DEF Total
  <2> QED BY <2>1, <2>2, <2>3
<1> QED BY <1>4, <1>5, <1>6 DEF Pointers

\* What a goroutine records is added to the totals of its key, and of no other.
LEMMA RecordFlow ==
  ASSUME TypeOK, Placed, Pointers,
         NEW g \in Goroutines, NEW new \in Numbers, NEW s \in Steps \ Writing,
         at[g].step \in Writing, Recorded(g, new, s)
  PROVE  /\ Pointers'
         /\ at[g].key \in Keys
         /\ \A q \in Keys, c \in Counters :
              IF q = at[g].key THEN Total(q, c) = Mine(g)[c] /\ Total(q, c)' = new[c]
                               ELSE Total(q, c)' = Total(q, c)
<1>1. at[g].m \in 1..Len(measurers) /\ s \in Steps /\ at[g].key \in Keys /\ None \notin Nat
  BY NoneAssumption DEF Placed, Writing, Holding, Steps
<1>2. /\ measurers'[at[g].m] = new
      /\ \A i \in 1..Len(measurers) : i # at[g].m => measurers'[i] = measurers[i]
      /\ byKey' = byKey
      /\ at'[g].step = s
      /\ \A h \in Goroutines \ {g} : at'[h] = at[h]
  BY <1>1, RecordedFacts
<1>3. Len(measurers) \in Nat
  BY LenProperties DEF TypeOK
<1>4. byKey[at[g].key] = at[g].m /\ byKey[at[g].key] # None
  BY <1>1, <1>3 DEF Pointers
<1>5. Pointers'
  BY <1>2 DEF Pointers
<1>6. ASSUME NEW q \in Keys \ {at[g].key}, NEW c \in Counters
      PROVE  Total(q, c)' = Total(q, c)
  <2>1. CASE byKey[q] = None
    BY <1>2, <2>1 DEF Total
  <2>2. CASE byKey[q] # None
    <3>1. byKey[q] \in 1..Len(measurers) /\ byKey[q] # at[g].m
      BY <1>1, <1>4, <2>2 DEF TypeOK, Pointers
    <3>2. byKey'[q] = byKey[q] /\ measurers'[byKey'[q]] = measurers[byKey[q]]
      BY <1>2, <3>1
    <3> QED BY <2>2, <3>2 DEF Total
  <2> QED BY <2>1, <2>2
<1>7. byKey'[at[g].key] # None /\ measurers'[byKey'[at[g].key]] = new
  BY <1>1, <1>2, <1>4
<1> QED BY <1>1, <1>4, <1>5, <1>6, <1>7, <1>5, <1>6 DEF Total, Mine

\* The flow of a key when nobody comes or goes and nothing is counted for it.
LEMMA SameFlow ==
  ASSUME NEW k \in Keys, FlowOf(k), income'[k] = income[k],
         \A w \in Workers : at'[w] = at[w],
         \A c \in {"polled", "waits", "works", "processed"} : Total(k, c)' = Total(k, c)
  PROVE  FlowOf(k)'
<1>1. \A T : Number(k, T)' = Number(k, T)
  BY SameNumber DEF At
<1> QED BY <1>1 DEF FlowOf

\* A worker that looks up measurers stays where it is counted.
LEMMA LookUpKeepsFlow ==
  ASSUME IInv, Pointers, NEW k \in Keys, FlowOf(k), NEW w \in Workers,
         UNCHANGED income,
         \/ at[w].step = "wait" /\ ByKey(w, at[w].key, "waiting")
         \/ at[w].step = "handle" /\ ByKey(w, at[w].key, "working")
         \/ at[w].step = "worked" /\ ByKey(w, at[w].key, "counting")
  PROVE  Pointers' /\ FlowOf(k)'
<1> USE DEF IInv
<1>1. w \in Goroutines /\ at[w].key \in Keys
  BY DEF Goroutines, Placed, Holding, Steps
<1>2. PICK s \in Writing :
        /\ ByKey(w, at[w].key, s)
        /\ \A T \in {Before, Queue, After} : s \in T <=> at[w].step \in T
  BY DEF Writing, Before, Queue, After
<1>3. Pointers' /\ \A c \in Counters : Total(k, c)' = Total(k, c)
  BY <1>1, <1>2, LookUpFlow
<1>4. /\ at'[w].step = s /\ at'[w].key = at[w].key
      /\ \A v \in Workers \ {w} : at'[v] = at[v]
  <2>1. s \in Steps
    BY DEF Writing, Steps
  <2>2. /\ at'[w] = [step |-> s, key |-> at[w].key, m |-> byKey'[at[w].key]]
        /\ \A v \in Goroutines \ {w} : at'[v] = at[v]
    BY <1>1, <1>2, <2>1, ByKeyFacts
  <2> QED BY <2>2 DEF Goroutines
<1>5. ASSUME NEW T \in {Before, Queue, After} PROVE Number(k, T)' = Number(k, T)
  BY <1>2, <1>4, SameNumber DEF At
<1> QED BY <1>3, <1>5 DEF FlowOf, Counters

\* A worker goes where it is no longer counted, or to the queue.
LEMMA MoveKeepsFlow ==
  ASSUME IInv, IInv', Pointers, NEW k \in Keys, FlowOf(k), NEW w \in Workers,
         UNCHANGED <<byKey, measurers>>,
         \/ /\ at[w].step \notin After
            /\ at'[w].step \in {"idle", "off"}
            /\ UNCHANGED income
         \/ \E q \in Keys :
              /\ at[w].step = "idle"
              /\ at'[w].step = "wait" /\ at'[w].key = q
              /\ income' = [income EXCEPT ![q] = @ - 1],
         \A g \in Goroutines \ {w} : at'[g] = at[g]
  PROVE  Pointers' /\ FlowOf(k)'
<1>1. Pointers'
  BY DEF Pointers, Writing
<1>2. \A c \in Counters : Total(k, c)' = Total(k, c) /\ Total(k, c) \in Nat
  BY TotalType DEF Total, IInv
<1>3. \A T : /\ Number(k, T)' = Number(k, T) + Here(w, k, T)' - Here(w, k, T)
             /\ Number(k, T) \in Nat
  BY MovedNumber, NumberType DEF Goroutines
<1>4. income[k] \in Nat /\ income'[k] \in Nat
  BY DEF IInv, TypeOK
<1>5. CASE /\ at[w].step \notin After
           /\ at'[w].step \in {"idle", "off"}
           /\ UNCHANGED income
  <2>1. /\ Here(w, k, Before)' = 0 /\ Here(w, k, Queue)' = 0 /\ Here(w, k, After)' = 0
        /\ Here(w, k, Before) \in Nat /\ Here(w, k, Queue) \in Nat
        /\ Here(w, k, After) = 0
    BY <1>5 DEF Here, Before, Queue, After
  <2> QED BY <1>1, <1>2, <1>3, <1>4, <1>5, <2>1 DEF FlowOf, Counters
<1>6. ASSUME NEW q \in Keys,
             at[w].step = "idle", at'[w].step = "wait", at'[w].key = q,
             income' = [income EXCEPT ![q] = @ - 1]
      PROVE  FlowOf(k)'
  <2>1. /\ Here(w, k, Before) = 0 /\ Here(w, k, Queue) = 0 /\ Here(w, k, After) = 0
        /\ Here(w, k, After)' = 0
        /\ Here(w, k, Before)' = (IF q = k THEN 1 ELSE 0)
        /\ Here(w, k, Queue)' = (IF q = k THEN 1 ELSE 0)
    BY <1>6 DEF Here, Before, Queue, After
  <2>2. income'[k] = income[k] - (IF q = k THEN 1 ELSE 0)
    BY <1>4, <1>6 DEF IInv, TypeOK
  <2> QED BY <1>2, <1>3, <1>4, <2>1, <2>2 DEF FlowOf, Counters
<1> QED BY <1>1, <1>5, <1>6

\* A worker records the wait or the work of its ticket, or counts it.
LEMMA RecordKeepsFlow ==
  ASSUME IInv, IInv', Pointers, NEW k \in Keys, FlowOf(k), NEW w \in Workers,
         WaitRecorded(w) \/ WorkRecorded(w) \/ ProcessCounted(w)
  PROVE  Pointers' /\ FlowOf(k)'
<1> USE DEF IInv
<1>1. w \in Goroutines /\ at[w].step \in Writing /\ income'[k] = income[k] /\ income[k] \in Nat
  BY DEF Goroutines, WaitRecorded, WorkRecorded, ProcessCounted, Writing, TypeOK
<1>2. Mine(w) \in Numbers /\ \A c \in Counters : Mine(w)[c] \in Nat
  BY <1>1, MineType
<1>3. \A T : Number(k, T) \in Nat
  BY NumberType
<1>4. \A c \in Counters : Total(k, c) \in Nat
  BY TotalType
<1> DEFINE Left(s, new) ==
      /\ Pointers'
      /\ at'[w].step = s
      /\ s # "idle" => at'[w].key = at[w].key
      /\ \A T : Number(k, T)' = Number(k, T) + Here(w, k, T)' - Here(w, k, T)
      /\ \A c \in Counters :
           IF k = at[w].key THEN Total(k, c) = Mine(w)[c] /\ Total(k, c)' = new[c]
                            ELSE Total(k, c)' = Total(k, c)
<1>5. ASSUME NEW s \in Steps \ Writing, NEW new \in Numbers, Recorded(w, new, s)
      PROVE  Left(s, new)
  <2>1. /\ Pointers'
        /\ \A c \in Counters :
             IF k = at[w].key THEN Total(k, c) = Mine(w)[c] /\ Total(k, c)' = new[c]
                              ELSE Total(k, c)' = Total(k, c)
    BY <1>1, <1>5, RecordFlow
  <2>2. /\ at'[w].step = s
        /\ at'[w].key = IF s = "idle" THEN None ELSE at[w].key
        /\ \A g \in Goroutines \ {w} : at'[g] = at[g]
    BY <1>1, <1>5, RecordedFacts DEF Placed
  <2>3. \A T : Number(k, T)' = Number(k, T) + Here(w, k, T)' - Here(w, k, T)
    BY <2>2, MovedNumber DEF Goroutines
  <2> QED BY <2>1, <2>2, <2>3
<1>6. CASE WaitRecorded(w)
  <2>1. PICK n \in {0, 1} : Recorded(w, [Mine(w) EXCEPT !.waits = @ + n], "handle")
    BY <1>6 DEF WaitRecorded
  <2> DEFINE new == [Mine(w) EXCEPT !.waits = @ + n]
  <2>2. /\ new \in Numbers
        /\ new["waits"] = Mine(w)["waits"] + n
        /\ \A c \in Counters \ {"waits"} : new[c] = Mine(w)[c]
    BY <1>2 DEF Numbers, Counters
  <2> HIDE DEF new
  <2>3. Left("handle", new)
    BY <1>5, <2>1, <2>2 DEF Steps, Writing, new
  <2>4. /\ Here(w, k, Before)' = Here(w, k, Before)
        /\ Here(w, k, Queue) = (IF k = at[w].key THEN 1 ELSE 0) /\ Here(w, k, Queue)' = 0
        /\ Here(w, k, After)' = 0 /\ Here(w, k, After) = 0
    BY <1>6, <2>3 DEF WaitRecorded, Here, Before, Queue, After
  <2>5. /\ Total(k, "polled")' = Total(k, "polled")
        /\ Total(k, "waits")' = Total(k, "waits") + (IF k = at[w].key THEN n ELSE 0)
        /\ Total(k, "works")' = Total(k, "works")
        /\ Total(k, "processed")' = Total(k, "processed")
    <3>1. CASE k = at[w].key
      BY <1>2, <2>2, <2>3, <3>1 DEF Counters
    <3>2. CASE k # at[w].key
      <4>1. \A c \in Counters : Total(k, c)' = Total(k, c)
        BY <2>3, <3>2
      <4>2. \A c \in Counters : Total(k, c) \in Nat
        BY <1>4
      <4> QED BY <3>2, <4>1, <4>2 DEF Counters
    <3> QED BY <3>1, <3>2
  <2>6. /\ Number(k, Before)' = Number(k, Before) + Here(w, k, Before)' - Here(w, k, Before)
        /\ Number(k, Queue)' = Number(k, Queue) + Here(w, k, Queue)' - Here(w, k, Queue)
        /\ Number(k, After)' = Number(k, After) + Here(w, k, After)' - Here(w, k, After)
    BY <2>3
  <2>7. /\ Total(k, "polled") \in Nat /\ Total(k, "waits") \in Nat
        /\ Total(k, "works") \in Nat /\ Total(k, "processed") \in Nat
        /\ Number(k, Before) \in Nat /\ Number(k, Queue) \in Nat /\ Number(k, After) \in Nat
        /\ Here(w, k, Before) \in Nat
    BY <1>3, <1>4 DEF Counters, Here
  <2> QED BY <1>1, <2>3, <2>4, <2>5, <2>6, <2>7 DEF FlowOf
<1>7. CASE WorkRecorded(w)
  <2>1. PICK s \in {"idle", "worked"} : Recorded(w, [Mine(w) EXCEPT !.works = @ + 1], s)
    BY <1>7 DEF WorkRecorded
  <2> DEFINE new == [Mine(w) EXCEPT !.works = @ + 1]
  <2>2. /\ new \in Numbers
        /\ new["works"] = Mine(w)["works"] + 1
        /\ \A c \in Counters \ {"works"} : new[c] = Mine(w)[c]
    BY <1>2 DEF Numbers, Counters
  <2> HIDE DEF new
  <2>3. Left(s, new)
    BY <1>5, <2>1, <2>2 DEF Steps, Writing, new
  <2>4. /\ Here(w, k, Before) = (IF k = at[w].key THEN 1 ELSE 0) /\ Here(w, k, Before)' = 0
        /\ Here(w, k, Queue)' = 0 /\ Here(w, k, Queue) = 0
        /\ Here(w, k, After) = 0
        /\ Here(w, k, After)' = 0 \/ (k = at[w].key /\ Here(w, k, After)' = 1)
    <3>1. /\ at[w].step = "working" /\ at'[w].step = s
          /\ s # "idle" => at'[w].key = at[w].key
      BY <1>7, <2>3 DEF WorkRecorded
    <3>2. CASE s = "idle"
      BY <3>1, <3>2 DEF Here, Before, Queue, After
    <3>3. CASE s = "worked"
      BY <3>1, <3>3 DEF Here, Before, Queue, After
    <3> QED BY <2>1, <3>2, <3>3
  <2>5. /\ Total(k, "polled")' = Total(k, "polled")
        /\ Total(k, "waits")' = Total(k, "waits")
        /\ Total(k, "works")' = Total(k, "works") + (IF k = at[w].key THEN 1 ELSE 0)
        /\ Total(k, "processed")' = Total(k, "processed")
    <3>1. CASE k = at[w].key
      BY <1>2, <2>2, <2>3, <3>1 DEF Counters
    <3>2. CASE k # at[w].key
      <4>1. \A c \in Counters : Total(k, c)' = Total(k, c)
        BY <2>3, <3>2
      <4>2. \A c \in Counters : Total(k, c) \in Nat
        BY <1>4
      <4> QED BY <3>2, <4>1, <4>2 DEF Counters
    <3> QED BY <3>1, <3>2
  <2>6. /\ Number(k, Before)' = Number(k, Before) + Here(w, k, Before)' - Here(w, k, Before)
        /\ Number(k, Queue)' = Number(k, Queue) + Here(w, k, Queue)' - Here(w, k, Queue)
        /\ Number(k, After)' = Number(k, After) + Here(w, k, After)' - Here(w, k, After)
    BY <2>3
  <2>7. /\ Total(k, "polled") \in Nat /\ Total(k, "waits") \in Nat
        /\ Total(k, "works") \in Nat /\ Total(k, "processed") \in Nat
        /\ Number(k, Before) \in Nat /\ Number(k, Queue) \in Nat /\ Number(k, After) \in Nat
        /\ Here(w, k, Before) \in Nat
    BY <1>3, <1>4 DEF Counters, Here
  <2> QED BY <1>1, <2>3, <2>4, <2>5, <2>6, <2>7 DEF FlowOf
<1>8. CASE ProcessCounted(w)
  <2> DEFINE new == [Mine(w) EXCEPT !.processed = @ + 1]
  <2>2. /\ new \in Numbers
        /\ new["processed"] = Mine(w)["processed"] + 1
        /\ \A c \in Counters \ {"processed"} : new[c] = Mine(w)[c]
    BY <1>2 DEF Numbers, Counters
  <2> HIDE DEF new
  <2>3. Left("idle", new)
    BY <1>5, <1>8, <2>2 DEF ProcessCounted, Steps, Writing, new
  <2>4. /\ Here(w, k, Before) = 0 /\ Here(w, k, Before)' = 0
        /\ Here(w, k, Queue)' = 0 /\ Here(w, k, Queue) = 0
        /\ Here(w, k, After) = (IF k = at[w].key THEN 1 ELSE 0) /\ Here(w, k, After)' = 0
    BY <1>8, <2>3 DEF ProcessCounted, Here, Before, Queue, After
  <2> QED BY <1>1, <1>2, <1>3, <1>4, <2>2, <2>3, <2>4 DEF FlowOf, Counters
<1> QED BY <1>6, <1>7, <1>8

\* The poller, and who counts other operations, are in none of the numbers.
LEMMA OthersKeepFlow ==
  ASSUME IInv, IInv', Pointers, NEW k \in Keys, FlowOf(k),
         NEW g \in Goroutines \ Workers,
         at[g].step = "counting",
         \/ /\ Recorded(g, [Mine(g) EXCEPT !.polled = @ + 1], "idle")
            /\ \/ income' = [income EXCEPT ![at[g].key] = @ + 1]
               \/ UNCHANGED income
         \/ /\ Recorded(g, [Mine(g) EXCEPT !.others = @ + 1], "idle")
            /\ UNCHANGED income
  PROVE  Pointers' /\ FlowOf(k)'
<1> USE DEF IInv
<1>1. /\ at[g].step \in Writing /\ "idle" \in Steps \ Writing
      /\ at[g].m \in 1..Len(measurers) /\ at[g].key \in Keys
  BY DEF Writing, Steps, Placed, Holding
<1>2. Mine(g) \in Numbers /\ \A c \in Counters : Mine(g)[c] \in Nat
  BY <1>1, MineType
<1>3. PICK new \in Numbers :
        /\ Recorded(g, new, "idle")
        /\ \A c \in {"waits", "works", "processed"} : new[c] = Mine(g)[c]
        /\ \/ new["polled"] = Mine(g)["polled"] + 1
           \/ new["polled"] = Mine(g)["polled"] /\ UNCHANGED income
  <2>1. /\ [Mine(g) EXCEPT !.polled = @ + 1] \in Numbers
        /\ [Mine(g) EXCEPT !.others = @ + 1] \in Numbers
    BY <1>2 DEF Numbers, Counters
  <2>2. /\ \A c \in {"waits", "works", "processed"} :
             /\ [Mine(g) EXCEPT !.polled = @ + 1][c] = Mine(g)[c]
             /\ [Mine(g) EXCEPT !.others = @ + 1][c] = Mine(g)[c]
        /\ [Mine(g) EXCEPT !.polled = @ + 1]["polled"] = Mine(g)["polled"] + 1
        /\ [Mine(g) EXCEPT !.others = @ + 1]["polled"] = Mine(g)["polled"]
    BY <1>2 DEF Numbers, Counters
  <2> QED BY <2>1, <2>2
<1>4. /\ Pointers'
      /\ \A c \in Counters :
           IF k = at[g].key THEN Total(k, c) = Mine(g)[c] /\ Total(k, c)' = new[c]
                            ELSE Total(k, c)' = Total(k, c)
  BY <1>1, <1>3, RecordFlow
<1>5. \A w \in Workers : at'[w] = at[w]
  BY <1>1, <1>3, RecordedFacts DEF Goroutines
<1>6. \A T : Number(k, T)' = Number(k, T) /\ Number(k, T) \in Nat
  BY <1>5, SameNumber, NumberType DEF At
<1>7. \A c \in Counters : Total(k, c) \in Nat
  BY TotalType
<1>8. income[k] \in Nat
  BY DEF TypeOK
<1>9. CASE k = at[g].key
  <2>1. /\ Total(k, "waits")' = Total(k, "waits")
        /\ Total(k, "works")' = Total(k, "works")
        /\ Total(k, "processed")' = Total(k, "processed")
        /\ \/ Total(k, "polled")' = Total(k, "polled") + 1
           \/ Total(k, "polled")' = Total(k, "polled") /\ UNCHANGED income
    BY <1>3, <1>4, <1>9 DEF Counters
  <2>2. income'[k] \in {income[k], income[k] + 1}
    BY <1>9 DEF TypeOK
  <2> QED BY <1>4, <1>6, <1>7, <1>8, <2>1, <2>2 DEF FlowOf, Counters
<1>10. CASE k # at[g].key
  <2>1. income'[k] = income[k]
    BY <1>1, <1>10 DEF TypeOK
  <2>2. \A c \in {"polled", "waits", "works", "processed"} : Total(k, c)' = Total(k, c)
    BY <1>4, <1>10 DEF Counters
  <2> QED BY <1>4, <1>5, <2>1, <2>2, SameFlow
<1> QED BY <1>9, <1>10

\* Resets are never taken back.
LEMMA NoReset ==
  ASSUME IInv, [Next]_vars, resets' = 0
  PROVE  resets = 0
<1>1. resets \in Nat
  BY DEF IInv, TypeOK
<1>2. resets' = resets \/ Reset
  BY DEF Next, vars, PollerLooksUp, SnapshotKey, PollerCounts, WorkerStarts,
         WorkerStops, WorkerTakes, WaitLooksUp, WaitRecorded, HandlerPanics, HandlerReturns,
         WorkRecorded, ProcessLooksUp, ProcessCounted, CallerLooksUp, CallerCounts,
         StartSnapshot, EndSnapshot, Bounds
<1> QED BY <1>1, <1>2 DEF Reset

\* What a snapshot reads of a key is its totals.
LEMMA SeenFlow ==
  ASSUME IInv, \A k \in Keys : FlowOf(k), FlowUnbroken, [Next]_vars, resets' = 0
  PROVE  FlowUnbroken'
<1>1. resets = 0
  BY NoReset
<1>2. ASSUME NEW k \in Keys, SnapshotKey(k) PROVE FlowUnbroken'
  <2>1. /\ byKey[k] # None
        /\ reading \in [todo: SUBSET Keys, seen: [Keys -> [Counters -> Nat] \union {None}]]
    BY <1>2 DEF SnapshotKey, IInv, SeenCurrent, TypeOK
  <2>2. \A q \in Keys : reading'.seen[q] = IF q = k THEN measurers[byKey[k]]
                                                    ELSE reading.seen[q]
    BY <1>2, <2>1 DEF SnapshotKey
  <2>3. FlowOf(k) /\ income[k] \in Nat /\ \A T : Number(k, T) \in Nat
    BY NumberType DEF IInv, TypeOK
  <2>4. \A c \in Counters : Total(k, c) = measurers[byKey[k]][c] /\ Total(k, c) \in Nat
    BY <2>1, TotalType DEF Total, IInv
  <2>5. /\ measurers[byKey[k]].processed <= measurers[byKey[k]].works
        /\ measurers[byKey[k]].works <= measurers[byKey[k]].polled
        /\ measurers[byKey[k]].waits <= measurers[byKey[k]].polled
    BY <2>3, <2>4 DEF FlowOf, Counters
  <2>6. \A q \in Keys : q # k /\ Read(q)' => Read(q)
    BY <1>2, <2>2 DEF SnapshotKey, Read
  <2> QED BY <1>1, <2>2, <2>5, <2>6 DEF FlowUnbroken
<1>3. CASE StartSnapshot \/ EndSnapshot
  BY <1>3 DEF StartSnapshot, EndSnapshot, FlowUnbroken, Read
<1>4. CASE UNCHANGED reading
  BY <1>1, <1>4 DEF FlowUnbroken, Read
<1>5. \/ UNCHANGED reading
      \/ StartSnapshot \/ EndSnapshot
      \/ \E k \in Keys : SnapshotKey(k)
  BY DEF Next, vars, PollerLooksUp, PollerCounts, WorkerStarts,
         WorkerStops, WorkerTakes, WaitLooksUp, WaitRecorded, HandlerPanics, HandlerReturns,
         WorkRecorded, ProcessLooksUp, ProcessCounted, CallerLooksUp, CallerCounts, Reset
<1> QED BY <1>2, <1>3, <1>4, <1>5

LEMMA FlowStep == IInv /\ IInv' /\ FlowInv /\ [Next]_vars => FlowInv'
<1> SUFFICES ASSUME IInv, IInv', FlowInv, [Next]_vars, resets' = 0
             PROVE  Pointers' /\ (\A k \in Keys : FlowOf(k)') /\ FlowUnbroken'
  BY DEF FlowInv
<1>0. resets = 0
  BY NoReset
<1>1. Pointers /\ (\A k \in Keys : FlowOf(k)) /\ FlowUnbroken
  BY <1>0 DEF FlowInv
<1>2. /\ \A w \in Workers : w \in Goroutines
      /\ \A c \in Callers : c \in Goroutines \ Workers
      /\ Poller \in Goroutines \ Workers
  BY GoroutinesAssumption DEF Goroutines
<1>3. TypeOK /\ Placed
  BY DEF IInv
<1>4. ASSUME NEW k \in Keys PROVE Pointers' /\ FlowOf(k)'
  <2>0. FlowOf(k)
    BY <1>1
  <2>1. ASSUME NEW g \in Goroutines \ Workers, NEW q \in Keys,
               ByKey(g, q, "counting"), UNCHANGED income
        PROVE  Pointers' /\ FlowOf(k)'
    <3>1. Pointers' /\ \A c \in Counters : Total(k, c)' = Total(k, c)
      BY <1>1, <1>3, <2>1, LookUpFlow DEF Writing
    <3>2. \A w \in Workers : at'[w] = at[w]
      <4>1. "counting" \in Steps
        BY DEF Steps
      <4>2. \A h \in Goroutines \ {g} : at'[h] = at[h]
        BY <1>3, <2>1, <4>1, ByKeyFacts
      <4> QED BY <1>2, <4>2
    <3>3. \A c \in {"polled", "waits", "works", "processed"} : Total(k, c)' = Total(k, c)
      BY <3>1 DEF Counters
    <3>4. income'[k] = income[k]
      BY <2>1
    <3> QED BY <2>0, <3>1, <3>2, <3>3, <3>4, SameFlow
  <2>2. ASSUME UNCHANGED <<byKey, measurers, at, income>>
        PROVE  Pointers' /\ FlowOf(k)'
    <3>1. Pointers'
      BY <1>1, <2>2 DEF Pointers
    <3>2. \A c \in {"polled", "waits", "works", "processed"} : Total(k, c)' = Total(k, c)
      BY <2>2 DEF Total
    <3>3. income'[k] = income[k] /\ \A w \in Workers : at'[w] = at[w]
      BY <2>2
    <3> QED BY <2>0, <3>1, <3>2, <3>3, SameFlow
  <2>3. ASSUME NEW q \in Keys, PollerLooksUp(q) PROVE Pointers' /\ FlowOf(k)'
    BY <1>2, <2>1, <2>3 DEF PollerLooksUp
  <2>4. ASSUME NEW c \in Callers, NEW q \in Keys, CallerLooksUp(c, q)
        PROVE  Pointers' /\ FlowOf(k)'
    BY <1>2, <2>1, <2>4 DEF CallerLooksUp
  <2>5. CASE PollerCounts
    BY <1>1, <1>2, <2>0, <2>5, OthersKeepFlow DEF PollerCounts
  <2>6. ASSUME NEW c \in Callers, CallerCounts(c) PROVE Pointers' /\ FlowOf(k)'
    BY <1>1, <1>2, <2>0, <2>6, OthersKeepFlow DEF CallerCounts
  <2>7. ASSUME NEW w \in Workers,
               \/ WorkerStarts(w) \/ WorkerStops(w) \/ HandlerPanics(w)
               \/ \E q \in Keys : WorkerTakes(w, q)
        PROVE  Pointers' /\ FlowOf(k)'
    <3>1. at \in [Goroutines -> Place(Len(measurers))]
      BY <1>3 DEF TypeOK, Place
    <3>2. CASE WorkerStarts(w) \/ WorkerStops(w) \/ HandlerPanics(w)
      <4>1. PICK s \in {"idle", "off"} : Goes(w, s) /\ at[w].step \notin After /\ UNCHANGED income
        BY <3>2 DEF WorkerStarts, WorkerStops, HandlerPanics, After
      <4>2. /\ at'[w].step = s
            /\ \A g \in Goroutines \ {w} : at'[g] = at[g]
            /\ UNCHANGED <<byKey, measurers>>
        BY <1>2, <3>1, <4>1 DEF Goes, Place
      <4> QED BY <1>1, <2>0, <4>1, <4>2, MoveKeepsFlow
    <3>3. ASSUME NEW q \in Keys, WorkerTakes(w, q) PROVE Pointers' /\ FlowOf(k)'
      <4>1. /\ at[w].step = "idle"
            /\ at'[w].step = "wait" /\ at'[w].key = q
            /\ income' = [income EXCEPT ![q] = @ - 1]
            /\ \A g \in Goroutines \ {w} : at'[g] = at[g]
            /\ UNCHANGED <<byKey, measurers>>
        BY <1>2, <3>1, <3>3 DEF WorkerTakes, Place
      <4> QED BY <1>1, <2>0, <4>1, MoveKeepsFlow
    <3> QED BY <2>7, <3>2, <3>3
  <2>8. ASSUME NEW w \in Workers, WaitLooksUp(w) \/ HandlerReturns(w) \/ ProcessLooksUp(w)
        PROVE  Pointers' /\ FlowOf(k)'
    BY <1>1, <2>0, <2>8, LookUpKeepsFlow DEF WaitLooksUp, HandlerReturns, ProcessLooksUp
  <2>9. ASSUME NEW w \in Workers, WaitRecorded(w) \/ WorkRecorded(w) \/ ProcessCounted(w)
        PROVE  Pointers' /\ FlowOf(k)'
    BY <1>1, <2>0, <2>9, RecordKeepsFlow
  <2>10. ASSUME \/ StartSnapshot \/ EndSnapshot \/ UNCHANGED vars
                \/ \E q \in Keys : SnapshotKey(q)
         PROVE  Pointers' /\ FlowOf(k)'
    BY <2>2, <2>10 DEF StartSnapshot, EndSnapshot, SnapshotKey, vars
  <2>11. ~Reset
    BY <1>0 DEF Reset
  <2> QED
    BY <2>3, <2>4, <2>5, <2>6, <2>7, <2>8, <2>9, <2>10, <2>11 DEF Next
<1>5. Keys = {} => Pointers'
  BY DEF Pointers, IInv, Placed, Writing, Holding, Steps
<1> QED BY <1>1, <1>4, <1>5, SeenFlow

LEMMA FlowInit == Init => FlowInv
<1> SUFFICES ASSUME Init PROVE FlowInv
  OBVIOUS
<1>1. Pointers
  BY DEF Init, Pointers, Nobody, Writing
<1>2. ASSUME NEW k \in Keys PROVE FlowOf(k)
  <2>1. \A c \in Counters : Total(k, c) = 0
    BY DEF Init, Total
  <2>2. ASSUME NEW T \in {Before, Queue, After} PROVE Number(k, T) = 0
    <3>1. At(k, T) = {}
      BY DEF Init, At, Nobody, Before, Queue, After, Goroutines
    <3> QED BY <3>1, FS_EmptySet DEF Number
  <2>3. income[k] = 0
    BY DEF Init
  <2> QED BY <2>1, <2>2, <2>3 DEF FlowOf, Counters
<1>3. FlowUnbroken
  BY DEF Init, FlowUnbroken, Read
<1> QED BY <1>1, <1>2, <1>3 DEF FlowInv

\* Before the first Reset a Snapshot adds up, however it falls between the
\* recordings of tickets on their way: processed, timed, polled.
THEOREM FlowUnbrokenCorrect == Spec => []FlowUnbroken
<1>1. IInv /\ FlowInv => FlowUnbroken
  BY DEF FlowInv, FlowUnbroken
<1> QED BY <1>1, InvAlways, FlowInit, FlowStep, PTL DEF Spec

-----------------------------------------------------------------------------
\* The flow after resets. A worker whose work was recorded in replaced
\* measurers may still count its ticket in the current ones; each does it once,
\* unless another reset takes back what it counted too.

\* Measurers in the map belong to one key, whoever else still holds them.
Owners ==
  /\ \A k, q \in Keys : byKey[k] # None /\ byKey[k] = byKey[q] => k = q
  /\ \A g \in Goroutines, q \in Keys :
       at[g].step \in Writing /\ byKey[q] # None /\ at[g].m = byKey[q] => at[g].key = q

\* A worker that may count a ticket of k as processed and not as timed.
AtRisk(w, k) == /\ at[w].key = k
                /\ \/ at[w].step = "worked"
                   \/ at[w].step = "counting" /\ at[w].m = byKey[k]
                   \/ at[w].step = "working" /\ at[w].m # byKey[k]
Risk(k) == {w \in Workers : AtRisk(w, k)}

OrderedOf(k) ==
  Total(k, "processed") + Cardinality(Risk(k)) <= Total(k, "works") + Cardinality(Workers)

SeenOrdered ==
  \A k \in Keys : Read(k) =>
    reading.seen[k].processed <= reading.seen[k].works + Cardinality(Workers)

OrderedInv == Owners /\ (\A k \in Keys : OrderedOf(k)) /\ SeenOrdered

LEMMA RiskType ==
  ASSUME NEW S \in SUBSET Workers
  PROVE  /\ IsFiniteSet(S) /\ Cardinality(S) \in Nat /\ Cardinality(Workers) \in Nat
         /\ Cardinality(S) <= Cardinality(Workers)
BY GoroutinesAssumption, FS_Subset, FS_CardinalityType

\* The number of workers of two sets that differ in one worker.
LEMMA OneMoved ==
  ASSUME NEW S \in SUBSET Workers, NEW T \in SUBSET Workers, NEW w, S \ {w} = T \ {w}
  PROVE  Cardinality(T) = Cardinality(S) + (IF w \in T THEN 1 ELSE 0) - (IF w \in S THEN 1 ELSE 0)
<1> DEFINE R == S \ {w}
<1>1. IsFiniteSet(S) /\ IsFiniteSet(R) /\ Cardinality(R) \in Nat /\ w \notin R /\ R \in SUBSET Workers
  BY RiskType
<1>2. Cardinality(R \union {w}) = Cardinality(R) + 1
  BY <1>1, FS_AddElement
<1>3. /\ w \in S => S = R \union {w}
      /\ w \notin S => S = R
      /\ w \in T => T = R \union {w}
      /\ w \notin T => T = R
  OBVIOUS
<1> HIDE DEF R
<1>4. Cardinality(S) = Cardinality(R) + (IF w \in S THEN 1 ELSE 0)
  <2>1. CASE w \in S
    BY <1>2, <1>3, <2>1
  <2>2. CASE w \notin S
    BY <1>1, <1>3, <2>2
  <2> QED BY <2>1, <2>2
<1>5. Cardinality(T) = Cardinality(R) + (IF w \in T THEN 1 ELSE 0)
  <2>1. CASE w \in T
    BY <1>2, <1>3, <2>1
  <2>2. CASE w \notin T
    BY <1>1, <1>3, <2>2
  <2> QED BY <2>1, <2>2
<1> QED BY <1>1, <1>4, <1>5

\* A look-up makes nobody write elsewhere: new measurers were nobody's.
LEMMA LookUpOrdered ==
  ASSUME TypeOK, Placed, Owners,
         NEW g \in Goroutines, NEW k \in Keys, NEW s \in Writing, ByKey(g, k, s)
  PROVE  /\ Owners'
         /\ \A q \in Keys, c \in Counters : Total(q, c)' = Total(q, c)
         /\ at'[g] = [step |-> s, key |-> k, m |-> byKey'[k]]
         /\ \A q \in Keys, w \in Workers \ {g} : AtRisk(w, q)' <=> AtRisk(w, q)
<1>1. s \in Steps /\ None \notin Nat
  BY NoneAssumption DEF Writing, Steps
<1>2. /\ Len(measurers) \in Nat
      /\ \A i \in 1..Len(measurers) : measurers'[i] = measurers[i]
      /\ \A q \in Keys \ {k} : byKey'[q] = byKey[q]
      /\ byKey[k] # None => byKey'[k] = byKey[k]
      /\ byKey[k] = None => /\ byKey'[k] = Len(measurers) + 1
                            /\ measurers'[byKey'[k]] = NewMeasurers
      /\ at'[g] = [step |-> s, key |-> k, m |-> byKey'[k]]
      /\ \A h \in Goroutines \ {g} : at'[h] = at[h]
  BY <1>1, ByKeyFacts
<1>3. \A q \in Keys : byKey[q] # None => byKey[q] \in 1..Len(measurers) /\ byKey'[q] = byKey[q]
  BY <1>2 DEF TypeOK
<1>4. \A q \in Keys : byKey'[q] # None =>
        \/ byKey'[q] = byKey[q] /\ byKey[q] \in 1..Len(measurers)
        \/ q = k /\ byKey'[q] = Len(measurers) + 1
  BY <1>2, <1>3
<1>5. \A q, r \in Keys : byKey'[q] # None /\ byKey'[q] = byKey'[r] => q = r
  BY <1>2, <1>4 DEF Owners
<1>6. \A h \in Goroutines : at[h].step \in Writing => at[h].m \in 1..Len(measurers)
  BY DEF Placed
<1>7. ASSUME NEW h \in Goroutines, NEW q \in Keys,
             at'[h].step \in Writing, byKey'[q] # None, at'[h].m = byKey'[q]
      PROVE  at'[h].key = q
  <2>1. CASE h = g
    BY <1>2, <1>5, <1>7, <2>1
  <2>2. CASE h # g
    BY <1>2, <1>4, <1>6, <1>7, <2>2 DEF Owners
  <2> QED BY <2>1, <2>2
<1>8. ASSUME NEW q \in Keys, NEW c \in Counters PROVE Total(q, c)' = Total(q, c)
  <2>1. CASE byKey[q] # None
    <3>1. byKey'[q] = byKey[q] /\ measurers'[byKey'[q]] = measurers[byKey[q]]
      BY <1>2, <1>3, <2>1
    <3> QED BY <2>1, <3>1 DEF Total
  <2>2. CASE byKey[q] = None /\ q # k
    BY <1>2, <2>2 DEF Total
  <2>3. CASE byKey[q] = None /\ q = k
    <3>1. byKey'[q] # None /\ measurers'[byKey'[q]][c] = 0
      BY <1>1, <1>2, <2>3 DEF NewMeasurers
    <3> QED BY <2>3, <3>1 DEF Total
  <2> QED BY <2>1, <2>2, <2>3
<1>9. ASSUME NEW q \in Keys, NEW w \in Workers \ {g} PROVE AtRisk(w, q)' <=> AtRisk(w, q)
  <2>1. at'[w] = at[w]
    BY <1>2 DEF Goroutines
  <2>2. at[w].step \in {"working", "counting"} => at[w].m \in 1..Len(measurers)
    BY <1>6 DEF Goroutines, Writing
  <2>3. at[w].step \in {"working", "counting"} => (at[w].m = byKey'[q] <=> at[w].m = byKey[q])
    BY <1>1, <1>2, <1>3, <2>2
  <2> QED BY <2>1, <2>3 DEF AtRisk
<1> QED BY <1>2, <1>5, <1>7, <1>8, <1>9 DEF Owners

\* What a goroutine records counts for its key, unless its measurers were
\* replaced: then it counts for no key.
LEMMA RecordOrdered ==
  ASSUME TypeOK, Placed, Owners,
         NEW g \in Goroutines, NEW new \in Numbers, NEW s \in Steps \ Writing,
         at[g].step \in Writing, Recorded(g, new, s)
  PROVE  /\ Owners' /\ byKey' = byKey
         /\ at[g].key \in Keys
         /\ at'[g].step = s /\ at'[g].key = IF s = "idle" THEN None ELSE at[g].key
         /\ \A q \in Keys, c \in Counters :
              IF at[g].m = byKey[q] THEN /\ q = at[g].key
                                         /\ Total(q, c) = Mine(g)[c] /\ Total(q, c)' = new[c]
                                    ELSE Total(q, c)' = Total(q, c)
         /\ \A q \in Keys, w \in Workers \ {g} : AtRisk(w, q)' <=> AtRisk(w, q)
<1>1. at[g].m \in 1..Len(measurers) /\ s \in Steps /\ at[g].key \in Keys /\ None \notin Nat
  BY NoneAssumption DEF Placed, Writing, Holding, Steps
<1>2. /\ measurers'[at[g].m] = new
      /\ \A i \in 1..Len(measurers) : i # at[g].m => measurers'[i] = measurers[i]
      /\ byKey' = byKey
      /\ at'[g].step = s /\ at'[g].key = IF s = "idle" THEN None ELSE at[g].key
      /\ \A h \in Goroutines \ {g} : at'[h] = at[h]
  BY <1>1, RecordedFacts
<1>3. Len(measurers) \in Nat
  BY LenProperties DEF TypeOK
<1>4. Owners'
  <2>1. \A h \in Goroutines : at'[h].step \in Writing => at'[h] = at[h]
    BY <1>2
  <2> QED BY <1>2, <2>1 DEF Owners
<1>5. ASSUME NEW q \in Keys, NEW c \in Counters, at[g].m # byKey[q]
      PROVE  Total(q, c)' = Total(q, c)
  <2>1. CASE byKey[q] = None
    BY <1>2, <2>1 DEF Total
  <2>2. CASE byKey[q] # None
    <3>1. byKey[q] \in 1..Len(measurers)
      BY <2>2 DEF TypeOK
    <3>2. byKey'[q] = byKey[q] /\ measurers'[byKey'[q]] = measurers[byKey[q]]
      BY <1>2, <1>5, <3>1
    <3> QED BY <2>2, <3>2 DEF Total
  <2> QED BY <2>1, <2>2
<1>6. ASSUME NEW q \in Keys, NEW c \in Counters, at[g].m = byKey[q]
      PROVE  q = at[g].key /\ Total(q, c) = Mine(g)[c] /\ Total(q, c)' = new[c]
  <2>1. byKey[q] # None /\ byKey'[q] # None /\ byKey'[q] = at[g].m
    BY <1>1, <1>2, <1>3, <1>6
  <2> QED BY <1>2, <1>6, <2>1 DEF Owners, Total, Mine
<1>7. ASSUME NEW q \in Keys, NEW w \in Workers \ {g} PROVE AtRisk(w, q)' <=> AtRisk(w, q)
  BY <1>2 DEF AtRisk, Goroutines
<1> QED BY <1>1, <1>2, <1>4, <1>5, <1>6, <1>7

\* The same workers at risk and the same totals.
LEMMA SameOrdered ==
  ASSUME NEW k \in Keys, OrderedOf(k),
         \A w \in Workers : AtRisk(w, k)' <=> AtRisk(w, k),
         \A c \in {"works", "processed"} : Total(k, c)' = Total(k, c)
  PROVE  OrderedOf(k)'
<1>1. Risk(k)' = Risk(k)
  BY DEF Risk
<1> QED BY <1>1 DEF OrderedOf

\* A worker that looks up measurers is at risk after it if it was before.
LEMMA LookUpKeepsOrdered ==
  ASSUME IInv, Owners, NEW k \in Keys, OrderedOf(k),
         NEW g \in Goroutines, NEW q \in Keys, NEW s \in Writing, ByKey(g, q, s),
         \/ g \notin Workers
         \/ /\ q = at[g].key
            /\ \/ at[g].step = "wait" /\ s = "waiting"
               \/ at[g].step = "handle" /\ s = "working"
               \/ at[g].step = "worked" /\ s = "counting"
  PROVE  Owners' /\ OrderedOf(k)'
<1>1. /\ Owners'
      /\ \A c \in Counters : Total(k, c)' = Total(k, c)
      /\ at'[g] = [step |-> s, key |-> q, m |-> byKey'[q]]
      /\ \A w \in Workers \ {g} : AtRisk(w, k)' <=> AtRisk(w, k)
  BY LookUpOrdered DEF IInv
<1>2. ASSUME g \in Workers PROVE AtRisk(g, k)' <=> AtRisk(g, k)
  <2>1. at'[g].step = s /\ at'[g].key = q /\ at'[g].m = byKey'[q]
    BY <1>1
  <2>2. CASE at[g].step = "wait" /\ s = "waiting"
    BY <2>1, <2>2 DEF AtRisk
  <2>3. CASE at[g].step = "handle" /\ s = "working"
    BY <2>1, <2>3 DEF AtRisk
  <2>4. CASE at[g].step = "worked" /\ s = "counting" /\ q = at[g].key
    BY <2>1, <2>4 DEF AtRisk
  <2> QED BY <1>2, <2>2, <2>3, <2>4
<1>3. \A w \in Workers : AtRisk(w, k)' <=> AtRisk(w, k)
  BY <1>1, <1>2
<1> QED BY <1>1, <1>3, SameOrdered DEF Counters

\* Recording work puts a worker at risk, counting its ticket ends it.
LEMMA RecordKeepsOrdered ==
  ASSUME IInv, Owners, NEW k \in Keys, OrderedOf(k), NEW w \in Workers,
         WaitRecorded(w) \/ WorkRecorded(w) \/ ProcessCounted(w)
  PROVE  Owners' /\ OrderedOf(k)'
<1> USE DEF IInv
<1>1. w \in Goroutines /\ at[w].step \in Writing
  BY DEF Goroutines, WaitRecorded, WorkRecorded, ProcessCounted, Writing
<1>2. Mine(w) \in Numbers /\ \A c \in Counters : Mine(w)[c] \in Nat
  BY <1>1, MineType
<1>3. PICK s \in {"handle", "worked", "idle"}, new \in Numbers :
        /\ Recorded(w, new, s)
        /\ \/ /\ at[w].step = "waiting" /\ s = "handle"
              /\ new["works"] = Mine(w)["works"] /\ new["processed"] = Mine(w)["processed"]
           \/ /\ at[w].step = "working" /\ s \in {"idle", "worked"}
              /\ new["works"] = Mine(w)["works"] + 1 /\ new["processed"] = Mine(w)["processed"]
           \/ /\ at[w].step = "counting" /\ s = "idle"
              /\ new["works"] = Mine(w)["works"] /\ new["processed"] = Mine(w)["processed"] + 1
  <2>1. CASE WaitRecorded(w)
    <3>1. PICK n \in {0, 1} : Recorded(w, [Mine(w) EXCEPT !.waits = @ + n], "handle")
      BY <2>1 DEF WaitRecorded
    <3>2. /\ [Mine(w) EXCEPT !.waits = @ + n] \in Numbers
          /\ [Mine(w) EXCEPT !.waits = @ + n]["works"] = Mine(w)["works"]
          /\ [Mine(w) EXCEPT !.waits = @ + n]["processed"] = Mine(w)["processed"]
      BY <1>2 DEF Numbers, Counters
    <3> QED BY <2>1, <3>1, <3>2 DEF WaitRecorded
  <2>2. CASE WorkRecorded(w)
    <3>1. PICK s \in {"idle", "worked"} : Recorded(w, [Mine(w) EXCEPT !.works = @ + 1], s)
      BY <2>2 DEF WorkRecorded
    <3>2. /\ [Mine(w) EXCEPT !.works = @ + 1] \in Numbers
          /\ [Mine(w) EXCEPT !.works = @ + 1]["works"] = Mine(w)["works"] + 1
          /\ [Mine(w) EXCEPT !.works = @ + 1]["processed"] = Mine(w)["processed"]
      BY <1>2 DEF Numbers, Counters
    <3> QED BY <2>2, <3>1, <3>2 DEF WorkRecorded
  <2>3. CASE ProcessCounted(w)
    <3>1. /\ [Mine(w) EXCEPT !.processed = @ + 1] \in Numbers
          /\ [Mine(w) EXCEPT !.processed = @ + 1]["works"] = Mine(w)["works"]
          /\ [Mine(w) EXCEPT !.processed = @ + 1]["processed"] = Mine(w)["processed"] + 1
      BY <1>2 DEF Numbers, Counters
    <3> QED BY <2>3, <3>1 DEF ProcessCounted
  <2> QED BY <2>1, <2>2, <2>3
<1>4. s \in Steps \ Writing
  BY DEF Steps, Writing
<1>5. /\ Owners' /\ byKey' = byKey
      /\ at'[w].step = s /\ at'[w].key = IF s = "idle" THEN None ELSE at[w].key
      /\ \A c \in Counters :
           IF at[w].m = byKey[k] THEN /\ k = at[w].key
                                      /\ Total(k, c) = Mine(w)[c] /\ Total(k, c)' = new[c]
                                 ELSE Total(k, c)' = Total(k, c)
      /\ \A v \in Workers \ {w} : AtRisk(v, k)' <=> AtRisk(v, k)
  BY <1>1, <1>3, <1>4, RecordOrdered
<1> DEFINE P == Total(k, "processed")
           Q == Total(k, "works")
<1>6. P \in Nat /\ Q \in Nat /\ Cardinality(Risk(k)) \in Nat /\ Cardinality(Workers) \in Nat
  BY TotalType, RiskType DEF Counters, Risk
<1>7. Cardinality(Risk(k)') = Cardinality(Risk(k)) + (IF w \in Risk(k)' THEN 1 ELSE 0)
                                                   - (IF w \in Risk(k) THEN 1 ELSE 0)
  <2>1. Risk(k) \in SUBSET Workers /\ Risk(k)' \in SUBSET Workers
    BY DEF Risk
  <2>2. Risk(k) \ {w} = Risk(k)' \ {w}
    BY <1>5 DEF Risk
  <2> QED BY <2>1, <2>2, OneMoved
<1>8. (w \in Risk(k) <=> AtRisk(w, k)) /\ (w \in Risk(k)' <=> AtRisk(w, k)')
  BY DEF Risk
<1>9. Total(k, "processed")' + Cardinality(Risk(k)') <= Total(k, "works")' + Cardinality(Workers)
  <2>0. P + Cardinality(Risk(k)) <= Q + Cardinality(Workers)
    BY DEF OrderedOf
  <2>1. CASE at[w].m = byKey[k]
    <3>1. /\ k = at[w].key
          /\ P = Mine(w)["processed"] /\ Q = Mine(w)["works"]
          /\ Total(k, "processed")' = new["processed"] /\ Total(k, "works")' = new["works"]
      BY <1>5, <2>1 DEF Counters
    <3> HIDE DEF P, Q
    <3>2. CASE at[w].step = "waiting" /\ s = "handle"
      <4>1. w \notin Risk(k) /\ w \notin Risk(k)'
        BY <1>5, <1>8, <3>2 DEF AtRisk
      <4> QED BY <1>3, <1>6, <1>7, <2>0, <3>1, <3>2, <4>1
    <3>3. CASE at[w].step = "working" /\ s \in {"idle", "worked"}
      <4>1. w \notin Risk(k)
        BY <1>8, <2>1, <3>3 DEF AtRisk
      <4>2. /\ Total(k, "processed")' = P /\ Total(k, "works")' = Q + 1
            /\ Cardinality(Risk(k)') \in {Cardinality(Risk(k)), Cardinality(Risk(k)) + 1}
        BY <1>3, <1>6, <1>7, <3>1, <3>3, <4>1
      <4> QED BY <1>6, <2>0, <4>2
    <3>4. CASE at[w].step = "counting" /\ s = "idle"
      <4>1. w \in Risk(k) /\ w \notin Risk(k)'
        BY <1>5, <1>8, <2>1, <3>1, <3>4 DEF AtRisk
      <4>2. /\ Total(k, "processed")' = P + 1 /\ Total(k, "works")' = Q
            /\ Cardinality(Risk(k)') = Cardinality(Risk(k)) - 1
        BY <1>3, <1>6, <1>7, <3>1, <3>4, <4>1
      <4> QED BY <1>6, <2>0, <4>2
    <3> QED BY <1>3, <3>2, <3>3, <3>4
  <2>2. CASE at[w].m # byKey[k]
    <3>1. Total(k, "processed")' = P /\ Total(k, "works")' = Q
      BY <1>5, <2>2 DEF Counters
    <3>2. w \in Risk(k)' => w \in Risk(k)
      <4>1. ASSUME AtRisk(w, k)' PROVE AtRisk(w, k)
        <5>1. s = "worked" /\ at'[w].key = at[w].key /\ at'[w].key = k
          BY <1>5, <4>1 DEF AtRisk
        <5> QED BY <1>3, <2>2, <5>1 DEF AtRisk
      <4> QED BY <1>8, <4>1
    <3> HIDE DEF P, Q
    <3>3. Cardinality(Risk(k)') \in {Cardinality(Risk(k)), Cardinality(Risk(k)) - 1}
      BY <1>6, <1>7, <3>2
    <3> QED BY <1>6, <2>0, <3>1, <3>3
  <2> QED BY <2>1, <2>2
<1> QED BY <1>5, <1>9 DEF OrderedOf

\* The poller, and who counts other operations, put nobody at risk.
LEMMA OthersKeepOrdered ==
  ASSUME IInv, Owners, NEW k \in Keys, OrderedOf(k), NEW g \in Goroutines \ Workers,
         at[g].step = "counting",
         \/ Recorded(g, [Mine(g) EXCEPT !.polled = @ + 1], "idle")
         \/ Recorded(g, [Mine(g) EXCEPT !.others = @ + 1], "idle")
  PROVE  Owners' /\ OrderedOf(k)'
<1> USE DEF IInv
<1>1. at[g].step \in Writing /\ "idle" \in Steps \ Writing
  BY DEF Writing, Steps
<1>2. Mine(g) \in Numbers
  BY <1>1, MineType
<1>3. PICK new \in Numbers :
        /\ Recorded(g, new, "idle")
        /\ \A c \in {"works", "processed"} : new[c] = Mine(g)[c]
  <2>1. /\ [Mine(g) EXCEPT !.polled = @ + 1] \in Numbers
        /\ [Mine(g) EXCEPT !.others = @ + 1] \in Numbers
        /\ \A c \in {"works", "processed"} :
             /\ [Mine(g) EXCEPT !.polled = @ + 1][c] = Mine(g)[c]
             /\ [Mine(g) EXCEPT !.others = @ + 1][c] = Mine(g)[c]
    BY <1>2 DEF Numbers, Counters
  <2> QED BY <2>1
<1>4. /\ Owners'
      /\ \A c \in Counters :
           IF at[g].m = byKey[k] THEN Total(k, c) = Mine(g)[c] /\ Total(k, c)' = new[c]
                                 ELSE Total(k, c)' = Total(k, c)
      /\ \A w \in Workers \ {g} : AtRisk(w, k)' <=> AtRisk(w, k)
  BY <1>1, <1>3, RecordOrdered
<1>5. \A c \in {"works", "processed"} : Total(k, c)' = Total(k, c)
  BY <1>3, <1>4 DEF Counters
<1> QED BY <1>4, <1>5, SameOrdered

\* A worker that starts, stops, gives up or takes a ticket has none to count.
LEMMA MoveKeepsOrdered ==
  ASSUME Owners, NEW k \in Keys, OrderedOf(k), NEW w \in Workers,
         at[w].step \in {"off", "idle", "handle"},
         at'[w].step \in {"off", "idle", "wait"},
         \A g \in Goroutines \ {w} : at'[g] = at[g],
         UNCHANGED <<byKey, measurers>>
  PROVE  Owners' /\ OrderedOf(k)'
<1>1. Owners'
  <2>1. \A g \in Goroutines : at'[g].step \in Writing => at'[g] = at[g]
    BY DEF Writing
  <2> QED BY <2>1 DEF Owners
<1>2. \A v \in Workers : AtRisk(v, k)' <=> AtRisk(v, k)
  BY DEF AtRisk, Goroutines
<1>3. \A c \in {"works", "processed"} : Total(k, c)' = Total(k, c)
  BY DEF Total
<1> QED BY <1>1, <1>2, <1>3, SameOrdered

\* A reset takes back all that was counted.
LEMMA ResetOrders ==
  ASSUME NEW k \in Keys, Reset
  PROVE  Owners' /\ OrderedOf(k)'
<1>1. \A q \in Keys : byKey'[q] = None
  BY DEF Reset
<1>2. Owners'
  BY <1>1 DEF Owners
<1>3. Total(k, "processed")' = 0 /\ Total(k, "works")' = 0
  BY <1>1 DEF Total
<1>4. Risk(k)' \in SUBSET Workers
  BY DEF Risk
<1> QED BY <1>2, <1>3, <1>4, RiskType DEF OrderedOf

\* What a snapshot reads of a key is its totals, after resets as before.
LEMMA SeenStaysOrdered ==
  ASSUME IInv, \A k \in Keys : OrderedOf(k), SeenOrdered, [Next]_vars
  PROVE  SeenOrdered'
<1>1. ASSUME NEW k \in Keys, SnapshotKey(k) PROVE SeenOrdered'
  <2>1. /\ byKey[k] # None
        /\ reading \in [todo: SUBSET Keys, seen: [Keys -> [Counters -> Nat] \union {None}]]
    BY <1>1 DEF SnapshotKey, IInv, SeenCurrent, TypeOK
  <2>2. \A q \in Keys : reading'.seen[q] = IF q = k THEN measurers[byKey[k]]
                                                    ELSE reading.seen[q]
    BY <1>1, <2>1 DEF SnapshotKey
  <2>3. OrderedOf(k) /\ Cardinality(Risk(k)) \in Nat /\ Cardinality(Workers) \in Nat
    BY RiskType DEF Risk
  <2>4. \A c \in Counters : Total(k, c) = measurers[byKey[k]][c] /\ Total(k, c) \in Nat
    BY <2>1, TotalType DEF Total, IInv
  <2>5. measurers[byKey[k]].processed <= measurers[byKey[k]].works + Cardinality(Workers)
    BY <2>3, <2>4 DEF OrderedOf, Counters
  <2>6. \A q \in Keys : q # k /\ Read(q)' => Read(q)
    BY <1>1, <2>2 DEF SnapshotKey, Read
  <2> QED BY <2>2, <2>5, <2>6 DEF SeenOrdered
<1>2. CASE StartSnapshot \/ EndSnapshot
  BY <1>2 DEF StartSnapshot, EndSnapshot, SeenOrdered, Read
<1>3. CASE UNCHANGED reading
  BY <1>3 DEF SeenOrdered, Read
<1>4. \/ UNCHANGED reading
      \/ StartSnapshot \/ EndSnapshot
      \/ \E k \in Keys : SnapshotKey(k)
  BY DEF Next, vars, PollerLooksUp, PollerCounts, WorkerStarts,
         WorkerStops, WorkerTakes, WaitLooksUp, WaitRecorded, HandlerPanics, HandlerReturns,
         WorkRecorded, ProcessLooksUp, ProcessCounted, CallerLooksUp, CallerCounts, Reset
<1> QED BY <1>1, <1>2, <1>3, <1>4

LEMMA OrderedStep == IInv /\ OrderedInv /\ [Next]_vars => OrderedInv'
<1> SUFFICES ASSUME IInv, OrderedInv, [Next]_vars
             PROVE  Owners' /\ (\A k \in Keys : OrderedOf(k)') /\ SeenOrdered'
  BY DEF OrderedInv
<1>1. Owners /\ (\A k \in Keys : OrderedOf(k)) /\ SeenOrdered
  BY DEF OrderedInv
<1>2. /\ \A w \in Workers : w \in Goroutines
      /\ \A c \in Callers : c \in Goroutines \ Workers
      /\ Poller \in Goroutines \ Workers
  BY GoroutinesAssumption DEF Goroutines
<1>3. at \in [Goroutines -> Place(Len(measurers))] /\ Placed
  BY DEF IInv, TypeOK, Place
<1>4. ASSUME NEW k \in Keys PROVE Owners' /\ OrderedOf(k)'
  <2>0. OrderedOf(k)
    BY <1>1
  <2>1. ASSUME NEW q \in Keys, PollerLooksUp(q) PROVE Owners' /\ OrderedOf(k)'
    BY <1>1, <1>2, <2>0, <2>1, LookUpKeepsOrdered DEF PollerLooksUp, Writing
  <2>2. ASSUME NEW c \in Callers, NEW q \in Keys, CallerLooksUp(c, q)
        PROVE  Owners' /\ OrderedOf(k)'
    BY <1>1, <1>2, <2>0, <2>2, LookUpKeepsOrdered DEF CallerLooksUp, Writing
  <2>3. CASE PollerCounts
    BY <1>1, <1>2, <2>0, <2>3, OthersKeepOrdered DEF PollerCounts
  <2>4. ASSUME NEW c \in Callers, CallerCounts(c) PROVE Owners' /\ OrderedOf(k)'
    BY <1>1, <1>2, <2>0, <2>4, OthersKeepOrdered DEF CallerCounts
  <2>5. ASSUME NEW w \in Workers, WorkerStarts(w) \/ WorkerStops(w) \/ HandlerPanics(w)
        PROVE  Owners' /\ OrderedOf(k)'
    <3>1. PICK s \in {"idle", "off"} : Goes(w, s) /\ at[w].step \in {"off", "idle", "handle"}
      BY <2>5 DEF WorkerStarts, WorkerStops, HandlerPanics
    <3>2. /\ at'[w].step = s
          /\ \A g \in Goroutines \ {w} : at'[g] = at[g]
          /\ UNCHANGED <<byKey, measurers>>
      BY <1>2, <1>3, <3>1 DEF Goes, Place
    <3> QED BY <1>1, <2>0, <3>1, <3>2, MoveKeepsOrdered
  <2>6. ASSUME NEW w \in Workers, NEW q \in Keys, WorkerTakes(w, q)
        PROVE  Owners' /\ OrderedOf(k)'
    <3>1. /\ at[w].step = "idle" /\ at'[w].step = "wait"
          /\ \A g \in Goroutines \ {w} : at'[g] = at[g]
          /\ UNCHANGED <<byKey, measurers>>
      BY <1>2, <1>3, <2>6 DEF WorkerTakes, Place
    <3> QED BY <1>1, <2>0, <3>1, MoveKeepsOrdered
  <2>7. ASSUME NEW w \in Workers, WaitLooksUp(w) \/ HandlerReturns(w) \/ ProcessLooksUp(w)
        PROVE  Owners' /\ OrderedOf(k)'
    <3>1. at[w].key \in Keys
      BY <1>2, <1>3, <2>7 DEF WaitLooksUp, HandlerReturns, ProcessLooksUp, Placed, Holding, Steps
    <3>2. PICK s \in Writing :
            /\ ByKey(w, at[w].key, s)
            /\ \/ at[w].step = "wait" /\ s = "waiting"
               \/ at[w].step = "handle" /\ s = "working"
               \/ at[w].step = "worked" /\ s = "counting"
      BY <2>7 DEF WaitLooksUp, HandlerReturns, ProcessLooksUp, Writing
    <3> QED BY <1>1, <1>2, <2>0, <3>1, <3>2, LookUpKeepsOrdered
  <2>8. ASSUME NEW w \in Workers, WaitRecorded(w) \/ WorkRecorded(w) \/ ProcessCounted(w)
        PROVE  Owners' /\ OrderedOf(k)'
    BY <1>1, <2>0, <2>8, RecordKeepsOrdered
  <2>9. CASE \/ StartSnapshot \/ EndSnapshot \/ UNCHANGED vars
             \/ \E q \in Keys : SnapshotKey(q)
    <3>1. UNCHANGED <<byKey, measurers, at>>
      BY <2>9 DEF StartSnapshot, EndSnapshot, SnapshotKey, vars
    <3>2. Owners' /\ \A w \in Workers : AtRisk(w, k)' <=> AtRisk(w, k)
      BY <1>1, <3>1 DEF Owners, AtRisk
    <3>3. \A c \in {"works", "processed"} : Total(k, c)' = Total(k, c)
      BY <3>1 DEF Total
    <3> QED BY <2>0, <3>2, <3>3, SameOrdered
  <2>10. CASE Reset
    BY <2>10, ResetOrders
  <2> QED
    BY <2>1, <2>2, <2>3, <2>4, <2>5, <2>6, <2>7, <2>8, <2>9, <2>10 DEF Next
<1>5. Keys = {} => Owners'
  BY DEF Owners
<1> QED BY <1>1, <1>4, <1>5, SeenStaysOrdered

LEMMA OrderedInit == Init => OrderedInv
<1> SUFFICES ASSUME Init PROVE OrderedInv
  OBVIOUS
<1>1. Owners
  BY DEF Init, Owners
<1>2. ASSUME NEW k \in Keys PROVE OrderedOf(k)
  <2>1. Total(k, "processed") = 0 /\ Total(k, "works") = 0
    BY DEF Init, Total
  <2>2. Risk(k) \in SUBSET Workers
    BY DEF Risk
  <2> QED BY <2>1, <2>2, RiskType DEF OrderedOf
<1>3. SeenOrdered
  BY DEF Init, SeenOrdered, Read
<1> QED BY <1>1, <1>2, <1>3 DEF OrderedInv

\* A Reset can come between the recordings of a ticket. What a Snapshot then
\* says to be processed and not timed is at most one ticket per worker, however
\* many resets there were.
THEOREM FlowOrderedCorrect == Spec => []FlowOrdered
<1>1. OrderedInv /\ FlowUnbroken => FlowOrdered
  BY DEF OrderedInv, SeenOrdered, FlowOrdered
<1> QED BY <1>1, InvAlways, OrderedInit, OrderedStep, FlowUnbrokenCorrect, PTL DEF Spec
=============================================================================
