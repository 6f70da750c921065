----------------------------- MODULE MemoryStore -----------------------------
(***************************************************************************)
(* The in-memory store (store/memory/memory.go). Every operation runs      *)
(* under one mutex, so every operation is one action, except UpdateBatch:  *)
(* its loop over the updates is a sequence of steps taken while the caller *)
(* holds the mutex, because it can stop halfway.                           *)
(*                                                                         *)
(* Get and CountPendingInGroup only read. PutAfterGroup on an existing id, *)
(* Update on a missing one and a poll without tubes return early: they     *)
(* change nothing and are stuttering steps.                                *)
(***************************************************************************)
EXTENDS Tickets, Sequences

CONSTANTS
  Callers,      \* goroutines that may hold the mutex during an UpdateBatch
  Submissions,  \* the tickets that Put and PutAfterGroup are called with
  Batches,      \* the arguments UpdateBatch is called with
  FnUpdates,    \* the callbacks of Update; None is an error they return
  PollDelays,   \* delay of each attempt plus the time-to-run, set by a poll
  Limit,        \* PollRequest.Limit
  ExpireLimit   \* the limit of ExpireTickets

ASSUME SubmissionsAssumption == Submissions \subseteq Ticket
ASSUME BatchesAssumption == Batches \subseteq Seq(UpdateSet)
ASSUME FnUpdatesAssumption == FnUpdates \subseteq [Ticket -> Ticket \union {None}]
ASSUME PollDelaysAssumption == PollDelays \in Backoffs
ASSUME LimitAssumption == Limit \in Nat \ {0} /\ ExpireLimit \in Nat
ASSUME CallersAssumption == None \notin Callers

VARIABLES
  data,     \* the ticket stored under each id, or None
  deps,     \* the ids that block each ticket
  mu,       \* the caller inside UpdateBatch, or None when the mutex is free
  batch,    \* the updates that caller has still to apply
  polled    \* the tickets returned by the poll just made, None for the others

storeVars == <<data, deps, mu, batch, polled>>

NobodyPolled == [t \in Tickets |-> None]

TypeOK ==
  /\ data \in [Tickets -> Ticket \union {None}]
  /\ deps \in [Tickets -> SUBSET Tickets]
  /\ mu \in Callers \union {None}
  /\ batch \in Seq(UpdateSet)
  /\ polled \in [Tickets -> Ticket \union {None}]

Init == /\ data = [t \in Tickets |-> None]
        /\ deps = [t \in Tickets |-> {}]
        /\ mu = None
        /\ batch = <<>>
        /\ polled = NobodyPolled

-----------------------------------------------------------------------------
\* State functions.

Present(id) == data[id] # None
Pending(id) == Present(id) /\ data[id].status = "pending"
InGroup(id, g) == Pending(id) /\ data[id].group = g

AtMost(n, s) == IF Cardinality(s) < n THEN Cardinality(s) ELSE n

\* Mutant: who waits for a removed ticket goes on waiting.
RemoveOwnDep(s) == [t \in Tickets |-> IF t \in s THEN {} ELSE deps[t]]

\* The dependencies after the ids of s were removed from every dependency set
\* and lost their own.
RemoveDep(s) == [t \in Tickets |-> IF t \in s THEN {} ELSE deps[t] \ s]

CountPendingInGroup(g) == Cardinality({id \in Tickets : InGroup(id, g)})

-----------------------------------------------------------------------------
\* Operations. Those that are not UpdateBatch need the mutex to be free.

Unlocked == mu = None /\ mu' = mu /\ batch' = batch

Submitted(t) == [t EXCEPT !.status = "pending"]

Put(id, t) ==
  /\ Unlocked
  /\ data' = [data EXCEPT ![id] = Submitted(t)]
  /\ polled' = NobodyPolled
  /\ UNCHANGED deps

\* Mutant: a finalizer submitted twice is wired twice.
PutAfterGroupAgain(id, t, g) ==
  /\ Unlocked
  /\ data' = [data EXCEPT ![id] = Submitted(t)]
  /\ deps' = [deps EXCEPT ![id] = @ \union {m \in Tickets \ {id} : InGroup(m, g)}]
  /\ polled' = NobodyPolled

\* Mutant: the finalizer waits for whoever is pending, in the group or not.
PutAfterEverybody(id, t, g) ==
  /\ Unlocked
  /\ ~Present(id)
  /\ data' = [data EXCEPT ![id] = Submitted(t)]
  /\ deps' = [deps EXCEPT ![id] = @ \union {m \in Tickets \ {id} : Pending(m)}]
  /\ polled' = NobodyPolled

PutAfterGroup(id, t, g) ==
  /\ Unlocked
  /\ ~Present(id)
  /\ data' = [data EXCEPT ![id] = Submitted(t)]
  /\ deps' = [deps EXCEPT ![id] = @ \union {m \in Tickets \ {id} : InGroup(m, g)}]
  /\ polled' = NobodyPolled

Delete(id) ==
  /\ Unlocked
  /\ data' = [data EXCEPT ![id] = None]
  /\ deps' = RemoveDep({id})
  /\ polled' = NobodyPolled

DeleteBatch(ids) ==
  /\ Unlocked
  /\ data' = [id \in Tickets |-> IF id \in ids THEN None ELSE data[id]]
  /\ deps' = RemoveDep({id \in ids : Present(id)})
  /\ polled' = NobodyPolled

UpdateBatch(c, updates) ==
  /\ mu = None
  /\ updates # <<>>
  /\ mu' = c
  /\ batch' = updates
  /\ polled' = NobodyPolled
  /\ UNCHANGED <<data, deps>>

\* Mutant: only a ticket that is done releases its finalizers.
ReleaseWhenDone(id, t) ==
  [f \in Tickets |-> IF t.status = "done" THEN deps[f] \ {id} ELSE deps[f]]

\* The dependencies once the ticket id became t.
Release(id, t) ==
  [f \in Tickets |-> IF t.status \in Terminal THEN deps[f] \ {id} ELSE deps[f]]

\* The next update of the batch applies; the last one returns.
UpdateFound ==
  /\ mu # None
  /\ batch # <<>>
  /\ LET us == Head(batch)
         t  == UpdateOne(data[us.id], us)
     IN  /\ Present(us.id)
         /\ data' = [data EXCEPT ![us.id] = t]
         /\ deps' = Release(us.id, t)
  /\ batch' = Tail(batch)
  /\ mu' = IF batch' = <<>> THEN None ELSE mu
  /\ polled' = NobodyPolled

\* The next update names a missing ticket: the call fails, the rest is lost.
UpdateMissing ==
  /\ mu # None
  /\ batch # <<>>
  /\ ~Present(Head(batch).id)
  /\ batch' = <<>>
  /\ mu' = None
  /\ UNCHANGED <<data, deps, polled>>

Update(id, fn) ==
  /\ Unlocked
  /\ Present(id)
  /\ fn[data[id]] # None
  /\ data' = [data EXCEPT ![id] = fn[@]]
  /\ polled' = NobodyPolled
  /\ UNCHANGED deps

Ready(tubes) == {id \in Tickets : /\ Pending(id)
                                  /\ data[id].runat <= 0
                                  /\ data[id].tube \in tubes
                                  /\ deps[id] = {}}

\* The prefixes of length Limit that sorting the ready tickets can give.
MostUrgent(ready) ==
  {s \in SUBSET ready : /\ Cardinality(s) = AtMost(Limit, ready)
                        /\ \A t \in s, u \in ready \ s : ~Before(data[u], data[t])}

Bumped(t) == [t EXCEPT !.runat = PollDelays[t.attempts],
                       !.attempts = NextAttempt(@)]

\* The tickets returned are those read, not those written back.
PollPending(tubes) ==
  /\ Unlocked
  /\ \E taken \in MostUrgent(Ready(tubes)) :
       /\ data' = [id \in Tickets |-> IF id \in taken THEN Bumped(data[id]) ELSE data[id]]
       /\ polled' = [id \in Tickets |-> IF id \in taken THEN data[id] ELSE None]
  /\ UNCHANGED deps

Expired == {id \in Tickets : Present(id) /\ ~Pending(id) /\ data[id].runat <= 0}

ExpireTickets ==
  /\ Unlocked
  /\ \E gone \in SUBSET Expired :
       /\ Cardinality(gone) = AtMost(ExpireLimit, Expired)
       /\ data' = [id \in Tickets |-> IF id \in gone THEN None ELSE data[id]]
  /\ polled' = NobodyPolled
  /\ UNCHANGED deps

\* Time passes, though never while somebody holds the mutex.
Tick ==
  /\ Unlocked
  /\ data' = [id \in Tickets |-> IF Present(id) THEN Aged(data[id]) ELSE None]
  /\ polled' = NobodyPolled
  /\ UNCHANGED deps

-----------------------------------------------------------------------------

\* Everything but Update, whose callback may write whatever it likes. The
\* program registers no finalizer that is a member of its own group (Put).
Operation ==
  \/ \E id \in Tickets, t \in Submissions : Put(id, t)
  \/ \E id \in Tickets, t \in Submissions, g \in Groups :
       t.group # g /\ PutAfterGroup(id, t, g)
  \/ \E id \in Tickets : Delete(id)
  \/ \E ids \in SUBSET Tickets : DeleteBatch(ids)
  \/ \E c \in Callers, updates \in Batches : UpdateBatch(c, updates)
  \/ UpdateFound
  \/ UpdateMissing
  \/ \E tubes \in SUBSET Tubes : PollPending(tubes)
  \/ ExpireTickets
  \/ Tick

Next == Operation \/ \E id \in Tickets, fn \in FnUpdates : Update(id, fn)

Spec == Init /\ [][Next]_storeVars

-----------------------------------------------------------------------------
(* Properties. *)

\* Whoever blocks a finalizer is stored and still pending, so that something
\* will still release the finalizer: the update that finishes the blocker
\* (UpdateBatch) or its deletion. The documentation promises the release once
\* every member has finished. Update (WithUpdate) does not keep the promise: it
\* writes what the callback made of the ticket and looks at no dependency.
BlockersPending ==
  \A f \in Tickets : \A m \in deps[f] : Pending(m)
=============================================================================
