-------------------------------- MODULE Stats --------------------------------
(***************************************************************************)
(* The statistics (stats/stats.go) and those who feed them: the poller,    *)
(* the workers, and every goroutine that counts what a store has done      *)
(* (observable.go, the flushes). Recording takes two locks one after the   *)
(* other: ByKey finds the measurers of a key under rw, and Inc or Record   *)
(* writes to them under their own mutex. A Reset may come in between: it   *)
(* replaces the map, and what is then written to the old measurers is lost.*)
(*                                                                         *)
(* A snapshot holds rw for reading as long as it lasts and visits the keys *)
(* one by one, so it stops ByKey and Reset but not those who already have  *)
(* the measurers they write to. A histogram is written under the mutex of  *)
(* its measurers and counts as one value here; Histogram.tla says which.   *)
(***************************************************************************)
EXTENDS Integers, Sequences, FiniteSets

CONSTANTS
  Keys,         \* pairs of ticket type and tube
  Workers, Callers, Poller,   \* goroutines
  None,         \* an absent pointer
  MaxPolls,     \* bound: tickets polled
  MaxCounts,    \* bound: other operations counted
  MaxResets     \* bound: resets

ASSUME NoneAssumption == None \notin Nat \union Keys
ASSUME GoroutinesAssumption ==
  /\ IsFiniteSet(Workers)
  /\ Workers \intersect Callers = {}
  /\ Poller \notin Workers \union Callers
ASSUME BoundsAssumption == {MaxPolls, MaxCounts, MaxResets} \subseteq Nat

VARIABLES
  byKey,      \* the map: a pointer to the measurers of each key, or None
  measurers,  \* all measurers ever made
  at,         \* what each goroutine is about to do
  income,     \* tickets of each key polled and not yet taken by a worker
  reading,    \* the snapshot being taken, or None
  polls, counts, resets   \* what the bounds count

vars == <<byKey, measurers, at, income, reading, polls, counts, resets>>

Goroutines == Workers \union Callers \union {Poller}

\* What is counted for a key. Two of the ten counters are told apart, the
\* others are counted alike; of the histograms only their count.
Counters == {"polled", "processed", "others", "waits", "works"}

NewMeasurers == [c \in Counters |-> 0]

Steps == {"off", "idle", "wait", "waiting", "handle", "working", "worked", "counting"}

Nobody == [step |-> "idle", key |-> None, m |-> None]

TypeOK ==
  /\ byKey \in [Keys -> 1..Len(measurers) \union {None}]
  /\ measurers \in Seq([Counters -> Nat])
  /\ at \in [Goroutines -> [step: Steps, key: Keys \union {None},
                            m: 1..Len(measurers) \union {None}]]
  /\ income \in [Keys -> Nat]
  /\ {polls, counts, resets} \subseteq Nat
  /\ \/ reading = None
     \/ reading \in [todo: SUBSET Keys, seen: [Keys -> [Counters -> Nat] \union {None}]]

Init == /\ byKey = [k \in Keys |-> None]
        /\ measurers = <<>>
        /\ at = [g \in Goroutines |->
                   IF g \in Workers THEN [Nobody EXCEPT !.step = "off"] ELSE Nobody]
        /\ income = [k \in Keys |-> 0]
        /\ reading = None
        /\ polls = 0 /\ counts = 0 /\ resets = 0

-----------------------------------------------------------------------------
\* Recording.

\* The write side of rw, free when nobody takes a snapshot.
Writable == reading = None

\* ByKey: goroutine g goes to step s with the measurers of key k.
ByKey(g, k, s) ==
  /\ Writable
  /\ measurers' = IF byKey[k] = None THEN Append(measurers, NewMeasurers) ELSE measurers
  /\ byKey' = [byKey EXCEPT ![k] = IF @ = None THEN Len(measurers) + 1 ELSE @]
  /\ at' = [at EXCEPT ![g] = [step |-> s, key |-> k, m |-> byKey'[k]]]

\* Goroutine g leaves its measurers as new and goes to step s.
Recorded(g, new, s) ==
  /\ measurers' = [measurers EXCEPT ![at[g].m] = new]
  /\ at' = [at EXCEPT ![g].step = s, ![g].m = None,
                      ![g].key = IF s = "idle" THEN None ELSE @]
  /\ UNCHANGED byKey

Goes(g, s) ==
  /\ at' = [at EXCEPT ![g].step = s, ![g].key = IF s = "idle" THEN None ELSE @]
  /\ UNCHANGED <<byKey, measurers>>

\* What goroutine g writes to.
Mine(g) == measurers[at[g].m]

Bounds == <<polls, counts, resets>>

-----------------------------------------------------------------------------
\* The poller counts a ticket, and then sends it to the workers or, if its tube
\* is no longer subscribed, gives it back.

PollerLooksUp(k) ==
  /\ at[Poller].step = "idle" /\ polls < MaxPolls
  /\ ByKey(Poller, k, "counting")
  /\ polls' = polls + 1
  /\ UNCHANGED <<income, reading, counts, resets>>

PollerCounts ==
  /\ at[Poller].step = "counting"
  /\ Recorded(Poller, [Mine(Poller) EXCEPT !.polled = @ + 1], "idle")
  /\ \/ income' = [income EXCEPT ![at[Poller].key] = @ + 1]
     \/ UNCHANGED income
  /\ UNCHANGED <<reading, Bounds>>

-----------------------------------------------------------------------------
\* A worker's way through processTicket.

WorkerStarts(w) ==
  /\ at[w].step = "off"
  /\ Writable
  /\ Goes(w, "idle")
  /\ UNCHANGED <<income, reading, Bounds>>

WorkerStops(w) ==
  /\ at[w].step = "idle"
  /\ Writable
  /\ Goes(w, "off")
  /\ UNCHANGED <<income, reading, Bounds>>

WorkerTakes(w, k) ==
  /\ at[w].step = "idle" /\ income[k] > 0
  /\ income' = [income EXCEPT ![k] = @ - 1]
  /\ at' = [at EXCEPT ![w].step = "wait", ![w].key = k]
  /\ UNCHANGED <<byKey, measurers, reading, Bounds>>

WaitLooksUp(w) ==
  /\ at[w].step = "wait"
  /\ ByKey(w, at[w].key, "waiting")
  /\ UNCHANGED <<income, reading, Bounds>>

\* A negative wait, of clocks that disagree, is not recorded.
WaitRecorded(w) ==
  /\ at[w].step = "waiting"
  /\ \E n \in {0, 1} : Recorded(w, [Mine(w) EXCEPT !.waits = @ + n], "handle")
  /\ UNCHANGED <<income, reading, Bounds>>

HandlerPanics(w) ==
  /\ at[w].step = "handle"
  /\ Goes(w, "idle")
  /\ UNCHANGED <<income, reading, Bounds>>

\* Mutant: a ticket counts as processed before its time is recorded.
HandlerReturnsCounting(w) ==
  /\ at[w].step = "handle"
  /\ Writable
  /\ byKey[at[w].key] # None
  /\ measurers' = [measurers EXCEPT ![byKey[at[w].key]].processed = @ + 1]
  /\ at' = [at EXCEPT ![w].step = "working", ![w].m = byKey[at[w].key]]
  /\ UNCHANGED <<byKey, income, reading, Bounds>>

\* Mutant: the measurers made first are kept, through every reset.
HandlerReturnsCached(w) ==
  /\ at[w].step = "handle"
  /\ Writable
  /\ at' = [at EXCEPT ![w].step = "working", ![w].m = 1]
  /\ UNCHANGED <<byKey, measurers, income, reading, Bounds>>

HandlerReturns(w) ==
  /\ at[w].step = "handle"
  /\ ByKey(w, at[w].key, "working")
  /\ UNCHANGED <<income, reading, Bounds>>

\* After an error the ticket does not count as processed.
WorkRecorded(w) ==
  /\ at[w].step = "working"
  /\ \E s \in {"idle", "worked"} :
       Recorded(w, [Mine(w) EXCEPT !.works = @ + 1], s)
  /\ UNCHANGED <<income, reading, Bounds>>

ProcessLooksUp(w) ==
  /\ at[w].step = "worked"
  /\ ByKey(w, at[w].key, "counting")
  /\ UNCHANGED <<income, reading, Bounds>>

ProcessCounted(w) ==
  /\ at[w].step = "counting"
  /\ Recorded(w, [Mine(w) EXCEPT !.processed = @ + 1], "idle")
  /\ UNCHANGED <<income, reading, Bounds>>

-----------------------------------------------------------------------------
\* Whoever counts an operation of the store: Add after a Put, Expire after an
\* ExpireTickets, the intents of a flush.

CallerLooksUp(c, k) ==
  /\ at[c].step = "idle" /\ counts < MaxCounts
  /\ ByKey(c, k, "counting")
  /\ counts' = counts + 1
  /\ UNCHANGED <<income, reading, polls, resets>>

CallerCounts(c) ==
  /\ at[c].step = "counting"
  /\ Recorded(c, [Mine(c) EXCEPT !.others = @ + 1], "idle")
  /\ UNCHANGED <<income, reading, Bounds>>

-----------------------------------------------------------------------------
\* Snapshot and Reset.

StartSnapshot ==
  /\ reading = None
  /\ reading' = [todo |-> {k \in Keys : byKey[k] # None}, seen |-> [k \in Keys |-> None]]
  /\ UNCHANGED <<byKey, measurers, at, income, Bounds>>

\* The measurers of a key are read at one moment, under their mutex.
SnapshotKey(k) ==
  /\ reading # None
  /\ k \in reading.todo
  /\ reading' = [reading EXCEPT !.todo = @ \ {k}, !.seen[k] = measurers[byKey[k]]]
  /\ UNCHANGED <<byKey, measurers, at, income, Bounds>>

EndSnapshot ==
  /\ reading # None
  /\ reading.todo = {}
  /\ reading' = None
  /\ UNCHANGED <<byKey, measurers, at, income, Bounds>>

\* Mutant: a reset empties the measurers and does not wait for a snapshot.
ResetInPlace ==
  /\ resets < MaxResets
  /\ resets' = resets + 1
  /\ measurers' = [m \in DOMAIN measurers |-> NewMeasurers]
  /\ UNCHANGED <<byKey, at, income, reading, polls, counts>>

\* Mutant: a reset drops measurers that goroutines still write to.
ResetDropping ==
  /\ Writable
  /\ resets < MaxResets
  /\ resets' = resets + 1
  /\ byKey' = [k \in Keys |-> None]
  /\ measurers' = <<>>
  /\ UNCHANGED <<at, income, reading, polls, counts>>

Reset ==
  /\ Writable
  /\ resets < MaxResets
  /\ resets' = resets + 1
  /\ byKey' = [k \in Keys |-> None]
  /\ UNCHANGED <<measurers, at, income, reading, polls, counts>>

-----------------------------------------------------------------------------

Next ==
  \/ \E k \in Keys : PollerLooksUp(k) \/ SnapshotKey(k)
  \/ PollerCounts
  \/ \E w \in Workers :
       \/ WorkerStarts(w)
       \/ WorkerStops(w)
       \/ \E k \in Keys : WorkerTakes(w, k)
       \/ WaitLooksUp(w)
       \/ WaitRecorded(w)
       \/ HandlerPanics(w)
       \/ HandlerReturns(w)
       \/ WorkRecorded(w)
       \/ ProcessLooksUp(w)
       \/ ProcessCounted(w)
  \/ \E c \in Callers :
       \/ \E k \in Keys : CallerLooksUp(c, k)
       \/ CallerCounts(c)
  \/ StartSnapshot
  \/ EndSnapshot
  \/ Reset

Spec == Init /\ [][Next]_vars

-----------------------------------------------------------------------------
(* Properties. *)

Read(k) == reading # None /\ reading.seen[k] # None

\* Before the first reset, what a snapshot says of a key adds up whenever it is
\* taken: nothing is processed that was not timed, and nothing timed that was
\* not polled.
FlowUnbroken ==
  resets = 0 =>
    \A k \in Keys : Read(k) =>
      /\ reading.seen[k].processed <= reading.seen[k].works
      /\ reading.seen[k].works <= reading.seen[k].polled
      /\ reading.seen[k].waits <= reading.seen[k].polled

\* A reset can come between the recordings of a ticket, and then what is missing
\* is at most one ticket per worker.
FlowOrdered ==
  /\ FlowUnbroken
  /\ \A k \in Keys : Read(k) =>
       reading.seen[k].processed <= reading.seen[k].works + Cardinality(Workers)

\* No reset falls into a snapshot: what it has read of a key so far is still
\* counted when it ends, and so all it returns was counted since one reset.
SnapshotCurrent ==
  \A k \in Keys : Read(k) =>
    /\ byKey[k] # None
    /\ \A c \in Counters : reading.seen[k][c] <= measurers[byKey[k]][c]
=============================================================================
