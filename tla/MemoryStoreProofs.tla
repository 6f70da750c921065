-------------------------- MODULE MemoryStoreProofs --------------------------
(***************************************************************************)
(* Proofs about MemoryStore and its history, for every set of tickets,     *)
(* batches, callbacks, delays and limits.                                  *)
(***************************************************************************)
EXTENDS StoreHistory, TicketsProofs

\* A poll gives a well-formed ticket.
LEMMA BumpedType ==
  ASSUME NEW t \in Ticket
  PROVE  Bumped(t) \in Ticket /\ Bumped(t).status = t.status /\ Bumped(t).group = t.group
<1>1. t.attempts \in 0..MaxAttempts
  BY DEF Ticket
<1>2. PollDelays[t.attempts] \in Times
  BY <1>1, PollDelaysAssumption DEF Backoffs
<1>3. NextAttempt(t.attempts) \in 0..MaxAttempts
  BY <1>1, MaxAttemptsAssumption DEF NextAttempt
<1> QED BY <1>2, <1>3 DEF Bumped, Ticket

LEMMA SubmittedType ==
  ASSUME NEW t \in Submissions
  PROVE  Submitted(t) \in Ticket /\ Submitted(t).status = "pending" /\ Submitted(t) # None
<1>1. t \in Ticket
  BY SubmissionsAssumption
<1>2. Submitted(t) \in Ticket
  BY <1>1 DEF Submitted, Ticket, Status
<1> QED BY <1>1, <1>2, NoneAssumption DEF Submitted, Ticket

\* The state is well-formed: every operation writes whole tickets.
LEMMA TypeInit == Init => TypeOK
BY DEF Init, TypeOK, NobodyPolled

LEMMA TypeStep ==
  ASSUME TypeOK, [Next]_storeVars
  PROVE  TypeOK'
<1> USE DEF TypeOK
<1>1. ASSUME NEW id \in Tickets, NEW t \in Submissions, Put(id, t)
      PROVE  TypeOK'
  BY <1>1, SubmittedType DEF Put, Unlocked, NobodyPolled
<1>2. ASSUME NEW id \in Tickets, NEW t \in Submissions, NEW g \in Groups, PutAfterGroup(id, t, g)
      PROVE  TypeOK'
  BY <1>2, SubmittedType DEF PutAfterGroup, Unlocked, NobodyPolled
<1>3. ASSUME NEW id \in Tickets, Delete(id)
      PROVE  TypeOK'
  BY <1>3 DEF Delete, RemoveDep, Unlocked, NobodyPolled
<1>4. ASSUME NEW ids \in SUBSET Tickets, DeleteBatch(ids)
      PROVE  TypeOK'
  BY <1>4 DEF DeleteBatch, RemoveDep, Unlocked, NobodyPolled
<1>5. ASSUME NEW c \in Callers, NEW updates \in Batches, UpdateBatch(c, updates)
      PROVE  TypeOK'
  BY <1>5, BatchesAssumption DEF UpdateBatch, NobodyPolled
<1>6. CASE UpdateFound
  <2> DEFINE us == Head(batch)
             t  == UpdateOne(data[us.id], us)
  <2>1. us \in UpdateSet /\ Tail(batch) \in Seq(UpdateSet)
    BY <1>6 DEF UpdateFound
  <2>2. us.id \in Tickets
    BY <2>1 DEF UpdateSet
  <2>3. t \in Ticket
    BY <1>6, <2>1, <2>2, UpdateOneType DEF UpdateFound, Present
  <2>4. data' \in [Tickets -> Ticket \union {None}]
    BY <1>6, <2>3 DEF UpdateFound
  <2>5. deps' \in [Tickets -> SUBSET Tickets]
    BY <1>6 DEF UpdateFound, Release
  <2> QED BY <1>6, <2>1, <2>4, <2>5 DEF UpdateFound, NobodyPolled
<1>7. CASE UpdateMissing
  BY <1>7 DEF UpdateMissing
<1>8. ASSUME NEW id \in Tickets, NEW fn \in FnUpdates, Update(id, fn)
      PROVE  TypeOK'
  <2>1. data[id] \in Ticket
    BY <1>8 DEF Update, Present
  <2>2. fn[data[id]] \in Ticket \union {None}
    BY <2>1, FnUpdatesAssumption
  <2> QED BY <1>8, <2>2 DEF Update, Unlocked, NobodyPolled
<1>9. ASSUME NEW tubes \in SUBSET Tubes, PollPending(tubes)
      PROVE  TypeOK'
  <2>1. PICK taken \in MostUrgent(Ready(tubes)) :
          /\ data' = [id \in Tickets |-> IF id \in taken THEN Bumped(data[id]) ELSE data[id]]
          /\ polled' = [id \in Tickets |-> IF id \in taken THEN data[id] ELSE None]
    BY <1>9 DEF PollPending
  <2>2. \A id \in taken : data[id] \in Ticket
    BY DEF MostUrgent, Ready, Pending, Present
  <2>3. \A id \in taken : Bumped(data[id]) \in Ticket
    BY <2>2, BumpedType
  <2> QED BY <1>9, <2>1, <2>2, <2>3 DEF PollPending, Unlocked
<1>10. CASE ExpireTickets
  BY <1>10 DEF ExpireTickets, Unlocked, NobodyPolled
<1>11. CASE Tick
  BY <1>11, AgedType DEF Tick, Unlocked, Present, NobodyPolled
<1>12. CASE UNCHANGED storeVars
  BY <1>12 DEF storeVars
<1> QED BY <1>1, <1>2, <1>3, <1>4, <1>5, <1>6, <1>7, <1>8, <1>9, <1>10, <1>11, <1>12 DEF Next, Operation

\* TypeOK holds in every reachable state.
THEOREM TypeCorrect == Spec => []TypeOK
<1>1. Init => TypeOK
  BY TypeInit
<1>2. TypeOK /\ [Next]_storeVars => TypeOK'
  BY TypeStep
<1> QED BY <1>1, <1>2, PTL DEF Spec

-----------------------------------------------------------------------------
(* The history: what was left behind is part of the dependencies.           *)

KeptOK == /\ kept \in [Tickets -> SUBSET Tickets]
          /\ \A f \in Tickets : kept[f] \subseteq deps[f]

\* What an operation that is not Update does to it.
KeptAlong == kept' = [f \in Tickets |-> kept[f] \intersect deps'[f]]

LEMMA HistStep == [HistNext]_histVars => [Next]_storeVars
BY DEF HistNext, histVars, Next

LEMMA KeptStep ==
  ASSUME TypeOK, KeptOK, [HistNext]_histVars
  PROVE  KeptOK'
<1>1. CASE KeptAlong
  BY <1>1 DEF KeptAlong, KeptOK
<1>2. ASSUME NEW id \in Tickets, NEW fn \in FnUpdates, Update(id, fn),
             kept' = [f \in Tickets |-> IF Finishes(id, fn)
                                          THEN kept[f] \union (deps[f] \intersect {id})
                                          ELSE kept[f]]
      PROVE  KeptOK'
  <2>1. deps' = deps
    BY <1>2 DEF Update
  <2> QED BY <1>2, <2>1 DEF KeptOK
<1>3. CASE UNCHANGED histVars
  BY <1>3 DEF histVars, storeVars, KeptOK
<1> QED BY <1>1, <1>2, <1>3 DEF HistNext, KeptAlong

LEMMA HistTyped == HistSpec => [](TypeOK /\ KeptOK)
<1>1. HistInit => TypeOK /\ KeptOK
  BY TypeInit DEF HistInit, Init, KeptOK
<1>2. TypeOK /\ KeptOK /\ [HistNext]_histVars => (TypeOK /\ KeptOK)'
  BY HistStep, TypeStep, KeptStep
<1> QED BY <1>1, <1>2, PTL DEF HistSpec

-----------------------------------------------------------------------------
(* Blockers. No operation but Update finishes a ticket without releasing   *)
(* whoever waits for it, so BlockersPendingOrKept is inductive.            *)

\* A step that takes done out of the dependencies, and keeps the pending
\* tickets outside of done pending, is safe.
LEMMA BlockersReleased ==
  ASSUME TypeOK, BlockersPendingOrKept, KeptAlong, NEW done \in SUBSET Tickets,
         \A m \in Tickets \ done : Pending(m) => Pending(m)',
         \A f \in Tickets : deps'[f] \subseteq deps[f] \ done
  PROVE  BlockersPendingOrKept'
<1> SUFFICES ASSUME NEW f \in Tickets, NEW m \in Awaited(f)' PROVE Pending(m)'
  BY DEF BlockersPendingOrKept
<1>1. m \in deps'[f] /\ m \notin kept'[f] /\ kept'[f] = kept[f] \intersect deps'[f]
  BY DEF Awaited, KeptAlong
<1>2. m \in Awaited(f) /\ m \in Tickets \ done
  BY <1>1 DEF Awaited, TypeOK
<1> QED BY <1>2 DEF BlockersPendingOrKept

LEMMA BlockersStep ==
  ASSUME TypeOK, KeptOK, BlockersPendingOrKept, [HistNext]_histVars
  PROVE  BlockersPendingOrKept'
<1>0. ASSUME KeptAlong, \A m \in Tickets : Pending(m) => Pending(m)',
             \A f \in Tickets : deps'[f] \subseteq deps[f]
      PROVE  BlockersPendingOrKept'
  <2>1. /\ \A m \in Tickets \ {} : Pending(m) => Pending(m)'
        /\ \A f \in Tickets : deps'[f] \subseteq deps[f] \ {}
    BY <1>0
  <2> QED BY <1>0, <2>1, BlockersReleased
<1>1. ASSUME KeptAlong, NEW id \in Tickets, NEW t \in Submissions, Put(id, t)
      PROVE  BlockersPendingOrKept'
  <2>1. \A m \in Tickets : Pending(m) => Pending(m)'
    BY <1>1, SubmittedType DEF Put, Pending, Present, TypeOK
  <2> QED BY <1>0, <1>1, <2>1 DEF Put
<1>2. ASSUME KeptAlong, NEW id \in Tickets, NEW t \in Submissions, NEW g \in Groups,
             PutAfterGroup(id, t, g)
      PROVE  BlockersPendingOrKept'
  <2>1. \A m \in Tickets : Pending(m) => Pending(m)'
    BY <1>2, SubmittedType DEF PutAfterGroup, Pending, Present, TypeOK
  <2>2. \A f \in Tickets : \A m \in deps'[f] \ deps[f] : Pending(m)
    BY <1>2 DEF PutAfterGroup, InGroup, TypeOK
  <2>3. \A f \in Tickets : kept'[f] = kept[f] \intersect deps'[f]
    BY <1>2 DEF KeptAlong
  <2>4. \A f \in Tickets : deps'[f] \in SUBSET Tickets
    BY <1>2, HistStep, TypeStep DEF TypeOK
  <2>5. \A f \in Tickets : \A m \in Awaited(f)' : m \in Tickets /\ (m \in Awaited(f) \/ m \in deps'[f] \ deps[f])
    BY <2>3, <2>4 DEF Awaited
  <2> QED BY <2>1, <2>2, <2>5 DEF BlockersPendingOrKept
<1>3. ASSUME KeptAlong, NEW id \in Tickets, Delete(id)
      PROVE  BlockersPendingOrKept'
  <2>1. \A m \in Tickets \ {id} : Pending(m) => Pending(m)'
    BY <1>3 DEF Delete, Pending, Present, TypeOK
  <2>2. \A f \in Tickets : deps'[f] \subseteq deps[f] \ {id}
    BY <1>3 DEF Delete, RemoveDep
  <2>3. {id} \in SUBSET Tickets
    OBVIOUS
  <2> QED BY <1>3, <2>1, <2>2, <2>3, BlockersReleased
<1>4. ASSUME KeptAlong, NEW ids \in SUBSET Tickets, DeleteBatch(ids)
      PROVE  BlockersPendingOrKept'
  <2>0. PICK gone \in SUBSET Tickets : gone = {i \in ids : Present(i)}
    OBVIOUS
  <2>1. \A m \in Tickets \ gone : Pending(m) => Pending(m)'
    BY <1>4, <2>0 DEF DeleteBatch, Pending, Present, TypeOK
  <2>2. \A f \in Tickets : deps'[f] \subseteq deps[f] \ gone
    BY <1>4, <2>0 DEF DeleteBatch, RemoveDep
  <2> QED BY <1>4, <2>1, <2>2, BlockersReleased
<1>5. ASSUME KeptAlong, NEW c \in Callers, NEW updates \in Batches, UpdateBatch(c, updates)
      PROVE  BlockersPendingOrKept'
  BY <1>0, <1>5 DEF UpdateBatch, Pending, Present
<1>6. CASE KeptAlong /\ UpdateFound
  <2> DEFINE us == Head(batch)
             t  == UpdateOne(data[us.id], us)
  <2>0. us \in UpdateSet
    BY <1>6 DEF UpdateFound, TypeOK
  <2>1. us.id \in Tickets
    BY <2>0 DEF UpdateSet
  <2>2. t \in Ticket /\ t # None
    BY <1>6, <2>0, <2>1, UpdateOneType, NoneAssumption DEF UpdateFound, Present, TypeOK
  <2>3. data' = [data EXCEPT ![us.id] = t] /\ deps' = Release(us.id, t)
    BY <1>6 DEF UpdateFound
  <2>4. \A m \in Tickets \ {us.id} : Pending(m) => Pending(m)'
    BY <2>3 DEF Pending, Present, TypeOK
  <2>5. CASE t.status \in Terminal
    <3>1. \A f \in Tickets : deps'[f] \subseteq deps[f] \ {us.id}
      BY <2>3, <2>5 DEF Release
    <3>2. {us.id} \in SUBSET Tickets
      BY <2>1
    <3> QED BY <1>6, <2>4, <3>1, <3>2, BlockersReleased
  <2>6. CASE t.status \notin Terminal
    <3>1. t.status = "pending"
      BY <2>2, <2>6 DEF Ticket, Status
    <3>2. \A m \in Tickets : m = us.id => Pending(m)'
      BY <2>1, <2>2, <2>3, <3>1 DEF Pending, Present, TypeOK
    <3>3. \A f \in Tickets : deps'[f] = deps[f]
      BY <2>3, <2>6 DEF Release
    <3>4. \A m \in Tickets : Pending(m) => Pending(m)'
      BY <2>4, <3>2
    <3> QED BY <1>0, <1>6, <3>3, <3>4
  <2> QED BY <2>5, <2>6
<1>7. CASE KeptAlong /\ UpdateMissing
  BY <1>0, <1>7 DEF UpdateMissing, Pending, Present
<1>8. ASSUME NEW id \in Tickets, NEW fn \in FnUpdates, Update(id, fn),
             kept' = [f \in Tickets |-> IF Finishes(id, fn)
                                          THEN kept[f] \union (deps[f] \intersect {id})
                                          ELSE kept[f]]
      PROVE  BlockersPendingOrKept'
  <2> SUFFICES ASSUME NEW f \in Tickets, NEW m \in Awaited(f)' PROVE Pending(m)'
    BY DEF BlockersPendingOrKept
  <2>1. deps' = deps /\ data' = [data EXCEPT ![id] = fn[@]] /\ fn[data[id]] # None
    BY <1>8 DEF Update
  <2>2. m \in Awaited(f) /\ m \in Tickets /\ ~(m = id /\ Finishes(id, fn))
    BY <1>8, <2>1 DEF Awaited, TypeOK
  <2>3. Pending(m)
    BY <2>2 DEF BlockersPendingOrKept
  <2>4. CASE m = id
    <3>1. fn[data[id]].status = "pending"
      BY <2>2, <2>3, <2>4 DEF Finishes
    <3> QED BY <2>1, <2>4, <3>1 DEF Pending, Present, TypeOK
  <2>5. CASE m # id
    BY <2>1, <2>2, <2>3, <2>5 DEF Pending, Present, TypeOK
  <2> QED BY <2>4, <2>5
<1>9. ASSUME KeptAlong, NEW tubes \in SUBSET Tubes, PollPending(tubes)
      PROVE  BlockersPendingOrKept'
  <2>1. PICK taken \in MostUrgent(Ready(tubes)) :
          data' = [id \in Tickets |-> IF id \in taken THEN Bumped(data[id]) ELSE data[id]]
    BY <1>9 DEF PollPending
  <2>2. \A m \in Tickets : Pending(m) => data[m] \in Ticket
    BY DEF Pending, Present, TypeOK
  <2>3. \A m \in Tickets : Pending(m) =>
          Bumped(data[m]) # None /\ Bumped(data[m]).status = "pending"
    BY <2>2, BumpedType, NoneAssumption DEF Pending
  <2>4. \A m \in Tickets : Pending(m) => Pending(m)'
    BY <2>1, <2>3 DEF Pending, Present
  <2> QED BY <1>0, <1>9, <2>4 DEF PollPending
<1>10. CASE KeptAlong /\ ExpireTickets
  <2>1. PICK gone \in SUBSET Expired :
          data' = [id \in Tickets |-> IF id \in gone THEN None ELSE data[id]]
    BY <1>10 DEF ExpireTickets
  <2>2. \A m \in Tickets : Pending(m) => Pending(m)'
    BY <2>1 DEF Expired, Pending, Present
  <2> QED BY <1>0, <1>10, <2>2 DEF ExpireTickets
<1>11. CASE KeptAlong /\ Tick
  <2>1. \A m \in Tickets : Pending(m) =>
          Aged(data[m]) # None /\ Aged(data[m]).status = "pending"
    BY AgedType, NoneAssumption DEF Pending, Present, TypeOK
  <2>2. \A m \in Tickets : Pending(m) => Pending(m)'
    BY <1>11, <2>1 DEF Tick, Pending, Present
  <2> QED BY <1>0, <1>11, <2>2 DEF Tick
<1>12. CASE UNCHANGED histVars
  BY <1>12 DEF histVars, storeVars, BlockersPendingOrKept, Awaited, Pending, Present
<1>13. CASE Operation /\ KeptAlong
  BY <1>1, <1>2, <1>3, <1>4, <1>5, <1>6, <1>7, <1>9, <1>10, <1>11, <1>13 DEF Operation
<1> QED BY <1>8, <1>12, <1>13 DEF HistNext, KeptAlong

\* Every blocker of a finalizer is stored and pending, in every reachable
\* state, but for those that an Update finished.
THEOREM BlockersCorrect == HistSpec => []BlockersPendingOrKept
<1>1. HistInit => BlockersPendingOrKept
  BY DEF HistInit, Init, BlockersPendingOrKept, Awaited
<1>2. BlockersPendingOrKept /\ TypeOK /\ KeptOK /\ [HistNext]_histVars => BlockersPendingOrKept'
  BY BlockersStep
<1> QED BY <1>1, <1>2, HistTyped, PTL DEF HistSpec

-----------------------------------------------------------------------------
(* Circles. Only PutAfterGroup adds dependencies, all of them from a ticket *)
(* that was absent: by BlockersPendingOrKept nobody awaits it.             *)

LEMMA FewerWaits ==
  ASSUME NoMutualWait, \A f \in Tickets : Awaited(f)' \subseteq Awaited(f)
  PROVE  NoMutualWait'
<1> SUFFICES ASSUME NEW S \in (SUBSET Tickets) \ {{}}
             PROVE  \E t \in S : Awaited(t)' \intersect S = {}
  BY DEF NoMutualWait
<1>1. PICK t \in S : Awaited(t) \intersect S = {}
  BY DEF NoMutualWait
<1> QED BY <1>1

LEMMA FreshWaiter ==
  ASSUME TypeOK, BlockersPendingOrKept, NoMutualWait, KeptAlong,
         NEW id \in Tickets, NEW members \in SUBSET (Tickets \ {id}),
         ~Present(id), deps' = [deps EXCEPT ![id] = @ \union members]
  PROVE  NoMutualWait'
<1>1. \A f \in Tickets : id \notin Awaited(f)
  BY DEF BlockersPendingOrKept, Pending
<1>2. id \notin Awaited(id)' /\ \A f \in Tickets \ {id} : Awaited(f)' = Awaited(f)
  BY <1>1 DEF TypeOK, KeptAlong, Awaited
<1> SUFFICES ASSUME NEW S \in (SUBSET Tickets) \ {{}}
             PROVE  \E t \in S : Awaited(t)' \intersect S = {}
  BY DEF NoMutualWait
<1>3. CASE S \ {id} = {}
  <2>1. \A t \in S : t = id
    BY <1>3
  <2>2. S # {}
    OBVIOUS
  <2>3. id \in S
    BY <2>1, <2>2
  <2> QED BY <1>2, <2>1, <2>3
<1>4. CASE S \ {id} # {}
  <2>1. PICK t \in S \ {id} : Awaited(t) \intersect (S \ {id}) = {}
    BY <1>4 DEF NoMutualWait
  <2>2. id \notin Awaited(t) /\ Awaited(t)' = Awaited(t)
    BY <1>1, <1>2, <2>1
  <2> QED BY <2>1, <2>2
<1> QED BY <1>3, <1>4

LEMMA MutualWaitStep ==
  ASSUME TypeOK, KeptOK, BlockersPendingOrKept, NoMutualWait, [HistNext]_histVars
  PROVE  NoMutualWait'
<1>0. ASSUME KeptAlong, \A f \in Tickets : deps'[f] \subseteq deps[f]
      PROVE  NoMutualWait'
  <2>1. \A f \in Tickets : Awaited(f)' \subseteq Awaited(f)
    BY <1>0 DEF KeptAlong, Awaited
  <2> QED BY <2>1, FewerWaits
<1>1. ASSUME KeptAlong, NEW id \in Tickets, NEW t \in Submissions, NEW g \in Groups,
             PutAfterGroup(id, t, g)
      PROVE  NoMutualWait'
  <2> DEFINE members == {m \in Tickets \ {id} : InGroup(m, g)}
  <2>1. members \in SUBSET (Tickets \ {id})
    OBVIOUS
  <2>2. ~Present(id) /\ deps' = [deps EXCEPT ![id] = @ \union members]
    BY <1>1 DEF PutAfterGroup
  <2> HIDE DEF members
  <2> QED BY <1>1, <2>1, <2>2, FreshWaiter
<1>2. ASSUME KeptAlong, NEW id \in Tickets, Delete(id)
      PROVE  NoMutualWait'
  <2>1. \A f \in Tickets : deps'[f] \subseteq deps[f]
    BY <1>2 DEF Delete, RemoveDep
  <2> QED BY <1>0, <1>2, <2>1
<1>3. ASSUME KeptAlong, NEW ids \in SUBSET Tickets, DeleteBatch(ids)
      PROVE  NoMutualWait'
  <2>1. \A f \in Tickets : deps'[f] \subseteq deps[f]
    BY <1>3 DEF DeleteBatch, RemoveDep
  <2> QED BY <1>0, <1>3, <2>1
<1>4. CASE KeptAlong /\ UpdateFound
  <2>1. \A f \in Tickets : deps'[f] \subseteq deps[f]
    BY <1>4 DEF UpdateFound, Release
  <2> QED BY <1>0, <1>4, <2>1
<1>5. CASE KeptAlong /\ UNCHANGED deps
  BY <1>0, <1>5
<1>6. ASSUME UNCHANGED deps, \A f \in Tickets : kept[f] \subseteq kept'[f]
      PROVE  NoMutualWait'
  <2>1. \A f \in Tickets : Awaited(f)' \subseteq Awaited(f)
    BY <1>6 DEF Awaited
  <2> QED BY <2>1, FewerWaits
<1>7. CASE Operation /\ KeptAlong
  BY <1>1, <1>2, <1>3, <1>4, <1>5, <1>7
     DEF Operation, Put, UpdateBatch, UpdateMissing, PollPending, ExpireTickets, Tick
<1>8. CASE UNCHANGED histVars
  BY <1>6, <1>8 DEF histVars, storeVars
<1>9. ASSUME NEW id \in Tickets, NEW fn \in FnUpdates, Update(id, fn),
             kept' = [f \in Tickets |-> IF Finishes(id, fn)
                                          THEN kept[f] \union (deps[f] \intersect {id})
                                          ELSE kept[f]]
      PROVE  NoMutualWait'
  BY <1>6, <1>9 DEF Update
<1> QED BY <1>7, <1>8, <1>9 DEF HistNext, KeptAlong

\* No set of tickets waits for itself, whatever the callbacks do: a circle of
\* finalizers always passes through a dependency that an Update left behind.
THEOREM NoMutualWaitCorrect == HistSpec => []NoMutualWait
<1>1. HistInit => NoMutualWait
  <2> SUFFICES ASSUME HistInit, NEW S \in (SUBSET Tickets) \ {{}}
               PROVE  \E t \in S : Awaited(t) \intersect S = {}
    BY DEF NoMutualWait
  <2>1. S # {} /\ S \subseteq Tickets
    OBVIOUS
  <2>2. PICK t : t \in S
    BY <2>1
  <2> QED BY <2>1, <2>2 DEF HistInit, Init, Awaited
<1>2. NoMutualWait /\ BlockersPendingOrKept /\ TypeOK /\ KeptOK /\ [HistNext]_histVars => NoMutualWait'
  BY MutualWaitStep
<1> QED BY <1>1, <1>2, BlockersCorrect, HistTyped, PTL DEF HistSpec

-----------------------------------------------------------------------------
(* Refinement: every step of the store is a step of the gate or a stutter.  *)

Pool == {id \in Tickets : Pending(id)}
GroupOf == [id \in Tickets |-> IF Pending(id) THEN data[id].group ELSE None]
Out == {id \in Tickets : polled[id] # None}

\* An operation that takes done out of the pending tickets and the
\* dependencies, and forgets those it removed.
LEMMA FinishStep ==
  ASSUME KeptOK, KeptAlong, Out' = {},
         NEW done \in SUBSET Tickets, NEW removed \in SUBSET done,
         Pool' = Pool \ done,
         GroupOf' = [t \in Tickets |-> IF t \in done THEN None ELSE GroupOf[t]],
         deps' = [t \in Tickets |-> IF t \in removed THEN {} ELSE deps[t] \ done]
  PROVE  Gate!GateNext
<1>1. kept' = [t \in Tickets |-> IF t \in removed THEN {} ELSE kept[t] \ done]
  BY DEF KeptAlong, KeptOK
<1>2. Gate!Finish(done, removed)
  BY <1>1 DEF Gate!Finish, Pool, GroupOf, Out
<1> QED BY <1>2 DEF Gate!GateNext

\* A ticket that is pending afterwards, and nothing else changed.
LEMMA SubmitStep ==
  ASSUME KeptOK, NEW id \in Tickets, NEW t \in Ticket, t.status = "pending",
         data \in [Tickets -> Ticket \union {None}],
         data' = [data EXCEPT ![id] = t],
         UNCHANGED <<deps, kept>>, Out' = {}
  PROVE  Gate!GateNext
<1>1. t # None /\ t.group \in Groups \union {None}
  BY NoneAssumption DEF Ticket
<1>2. Pool' = Pool \union {id}
  BY <1>1 DEF Pool, Pending, Present
<1>3. GroupOf' = [GroupOf EXCEPT ![id] = t.group]
  BY <1>1 DEF GroupOf, Pending, Present
<1>4. Gate!Submit(id, t.group)
  BY <1>2, <1>3 DEF Gate!Submit, Pool, GroupOf, Out
<1> QED BY <1>1, <1>4 DEF Gate!GateNext

\* Steps that change neither the pending tickets nor the dependencies.
LEMMA QuietStep ==
  ASSUME TypeOK, KeptOK, UNCHANGED <<Pool, GroupOf, deps, kept>>, Out' = {}
  PROVE  Gate!GateNext
<1>1. /\ Pool' = Pool \ {}
      /\ GroupOf' = [t \in Tickets |-> IF t \in {} THEN None ELSE GroupOf[t]]
  BY DEF GroupOf
<1>2. /\ deps' = [t \in Tickets |-> IF t \in {} THEN {} ELSE deps[t] \ {}]
      /\ kept' = [t \in Tickets |-> IF t \in {} THEN {} ELSE kept[t] \ {}]
  BY DEF TypeOK, KeptOK
<1>3. {} \in SUBSET Tickets /\ {} \subseteq {}
  OBVIOUS
<1>4. Gate!Finish({}, {})
  BY <1>1, <1>2, <1>3 DEF Gate!Finish, Pool, GroupOf, Out
<1> QED BY <1>3, <1>4 DEF Gate!GateNext

LEMMA UnchangedDeps ==
  ASSUME KeptOK, KeptAlong, UNCHANGED deps
  PROVE  UNCHANGED kept
BY DEF KeptOK, KeptAlong

\* What is left of the tickets after a removal.
LEMMA RemovedTickets ==
  ASSUME data \in [Tickets -> Ticket \union {None}], NEW gone \in SUBSET Tickets,
         data' = [id \in Tickets |-> IF id \in gone THEN None ELSE data[id]]
  PROVE  /\ Pool' = Pool \ gone
         /\ GroupOf' = [t \in Tickets |-> IF t \in gone THEN None ELSE GroupOf[t]]
<1>1. \A id \in Tickets : Pending(id)' <=> Pending(id) /\ id \notin gone
  BY DEF Pending, Present
<1>2. \A id \in Tickets : id \notin gone => data'[id] = data[id]
  OBVIOUS
<1> QED BY <1>1, <1>2 DEF Pool, GroupOf

LEMMA GateStep ==
  ASSUME TypeOK, KeptOK, [HistNext]_histVars
  PROVE  [Gate!GateNext]_(Gate!gateVars)
<1>0. ASSUME polled' = NobodyPolled PROVE Out' = {}
  BY <1>0 DEF NobodyPolled, Out
<1> USE DEF TypeOK
<1>1. ASSUME KeptAlong, NEW id \in Tickets, NEW t \in Submissions, Put(id, t)
      PROVE  Gate!GateNext
  <2>1. UNCHANGED deps /\ polled' = NobodyPolled /\ data' = [data EXCEPT ![id] = Submitted(t)]
    BY <1>1 DEF Put
  <2> QED BY <1>0, <1>1, <2>1, UnchangedDeps, SubmitStep, SubmittedType
<1>2. ASSUME KeptAlong, NEW id \in Tickets, NEW t \in Submissions, NEW g \in Groups,
             PutAfterGroup(id, t, g)
      PROVE  Gate!GateNext
  <2>1. PICK new \in Ticket : new = Submitted(t) /\ new.status = "pending" /\ new # None
    BY SubmittedType
  <2>2. /\ data' = [data EXCEPT ![id] = new] /\ polled' = NobodyPolled /\ ~Present(id)
        /\ deps' = [deps EXCEPT ![id] = @ \union {m \in Tickets \ {id} : InGroup(m, g)}]
    BY <1>2, <2>1 DEF PutAfterGroup
  <2>3. Pool' = Pool \union {id} /\ GroupOf' = [GroupOf EXCEPT ![id] = new.group]
    BY <2>1, <2>2 DEF Pool, GroupOf, Pending, Present
  <2>4. id \notin Pool /\ new.group \in Groups \union {None}
    BY <2>1, <2>2 DEF Pool, Pending, Ticket
  <2>5. {m \in Tickets \ {id} : InGroup(m, g)} = {m \in Pool : GroupOf[m] = g}
    BY <2>2 DEF Pool, GroupOf, InGroup, Pending
  <2>6. kept' = kept
    BY <1>2, <2>2 DEF KeptAlong, KeptOK
  <2>7. Gate!Register(id, new.group, g)
    BY <1>0, <2>2, <2>3, <2>4, <2>5, <2>6 DEF Gate!Register, Pool, GroupOf, Out
  <2> QED BY <2>4, <2>7 DEF Gate!GateNext
<1>3. ASSUME KeptAlong, NEW id \in Tickets, Delete(id)
      PROVE  Gate!GateNext
  <2>1. PICK gone \in SUBSET Tickets : gone = {id}
    OBVIOUS
  <2>2. /\ data' = [i \in Tickets |-> IF i \in gone THEN None ELSE data[i]]
        /\ deps' = [t \in Tickets |-> IF t \in gone THEN {} ELSE deps[t] \ gone]
        /\ polled' = NobodyPolled
    BY <1>3, <2>1 DEF Delete, RemoveDep
  <2>3. gone \in SUBSET gone
    OBVIOUS
  <2> QED BY <1>0, <1>3, <2>2, <2>3, RemovedTickets, FinishStep
<1>4. ASSUME KeptAlong, NEW ids \in SUBSET Tickets, DeleteBatch(ids)
      PROVE  Gate!GateNext
  <2>1. PICK gone \in SUBSET Tickets : gone = {i \in ids : Present(i)}
    OBVIOUS
  <2>2. /\ data' = [i \in Tickets |-> IF i \in gone THEN None ELSE data[i]]
        /\ deps' = [t \in Tickets |-> IF t \in gone THEN {} ELSE deps[t] \ gone]
        /\ polled' = NobodyPolled
    BY <1>4, <2>1 DEF DeleteBatch, RemoveDep, Present
  <2>3. gone \in SUBSET gone
    OBVIOUS
  <2> QED BY <1>0, <1>4, <2>2, <2>3, RemovedTickets, FinishStep
<1>5. ASSUME KeptAlong, NEW c \in Callers, NEW updates \in Batches, UpdateBatch(c, updates)
      PROVE  Gate!GateNext
  BY <1>0, <1>5, UnchangedDeps, QuietStep DEF UpdateBatch, Pool, GroupOf, Pending, Present
<1>6. CASE KeptAlong /\ UpdateFound
  <2> DEFINE us == Head(batch)
             t  == UpdateOne(data[us.id], us)
  <2>0. us \in UpdateSet
    BY <1>6 DEF UpdateFound
  <2>1. PICK id \in Tickets : id = us.id
    BY <2>0 DEF UpdateSet
  <2>2. t \in Ticket /\ t # None
    BY <1>6, <2>0, <2>1, UpdateOneType, NoneAssumption DEF UpdateFound, Present
  <2>3. PICK new \in Ticket : new = t /\ new # None
    BY <2>2
  <2>4. data' = [data EXCEPT ![id] = new] /\ deps' = Release(id, new) /\ polled' = NobodyPolled
    BY <1>6, <2>1, <2>3 DEF UpdateFound
  <2> HIDE DEF us, t
  <2>5. CASE new.status \in Terminal
    <3>1. new.status # "pending"
      BY <2>5 DEF Terminal
    <3>2. PICK done, none \in SUBSET Tickets : done = {id} /\ none = {}
      OBVIOUS
    <3>3. /\ Pool' = Pool \ done
          /\ GroupOf' = [i \in Tickets |-> IF i \in done THEN None ELSE GroupOf[i]]
      BY <2>4, <3>1, <3>2 DEF Pool, GroupOf, Pending, Present
    <3>4. deps' = [f \in Tickets |-> IF f \in none THEN {} ELSE deps[f] \ done]
      BY <2>4, <2>5, <3>2 DEF Release
    <3>5. none \in SUBSET done
      BY <3>2
    <3> QED BY <1>0, <1>6, <2>4, <3>3, <3>4, <3>5, FinishStep
  <2>6. CASE new.status \notin Terminal
    <3>1. new.status = "pending"
      BY <2>6 DEF Ticket, Status
    <3>2. deps' = deps
      BY <2>4, <2>6 DEF Release
    <3> QED BY <1>0, <1>6, <2>4, <3>1, <3>2, UnchangedDeps, SubmitStep
  <2> QED BY <2>5, <2>6
<1>7. CASE KeptAlong /\ UpdateMissing
  <2>1. UNCHANGED <<data, deps, polled, kept>>
    BY <1>7, UnchangedDeps DEF UpdateMissing
  <2> QED BY <2>1 DEF Gate!gateVars, Pending, Present
<1>8. ASSUME NEW id \in Tickets, NEW fn \in FnUpdates, Update(id, fn),
             kept' = [f \in Tickets |-> IF Finishes(id, fn)
                                          THEN kept[f] \union (deps[f] \intersect {id})
                                          ELSE kept[f]]
      PROVE  Gate!GateNext
  <2>1. PICK new : new = fn[data[id]]
    OBVIOUS
  <2>2. data[id] \in Ticket
    BY <1>8 DEF Update, Present
  <2>3. new \in Ticket /\ new # None
    BY <1>8, <2>1, <2>2, FnUpdatesAssumption DEF Update
  <2>4. data' = [data EXCEPT ![id] = new] /\ deps' = deps /\ polled' = NobodyPolled
    BY <1>8, <2>1 DEF Update
  <2>5. CASE new.status = "pending"
    <3>1. kept' = kept
      BY <1>8, <2>1, <2>5 DEF Finishes, KeptOK
    <3> QED BY <1>0, <2>3, <2>4, <2>5, <3>1, SubmitStep
  <2>6. CASE new.status # "pending" /\ ~Pending(id)
    <3>1. kept' = kept
      BY <1>8, <2>6 DEF Finishes, KeptOK
    <3>2. UNCHANGED <<Pool, GroupOf>>
      BY <2>4, <2>6 DEF Pool, GroupOf, Pending, Present
    <3> QED BY <1>0, <2>4, <3>1, <3>2, QuietStep
  <2>7. CASE new.status # "pending" /\ Pending(id)
    <3>1. kept' = [f \in Tickets |-> kept[f] \union (deps[f] \intersect {id})]
      BY <1>8, <2>1, <2>7 DEF Finishes
    <3>2. Pool' = Pool \ {id} /\ GroupOf' = [GroupOf EXCEPT ![id] = None] /\ id \in Pool
      BY <2>4, <2>7 DEF Pool, GroupOf, Pending, Present
    <3>3. Gate!Slip(id)
      BY <1>0, <2>4, <3>1, <3>2 DEF Gate!Slip, Pool, GroupOf, Out
    <3> QED BY <3>3 DEF Gate!GateNext
  <2> QED BY <2>5, <2>6, <2>7
<1>9. ASSUME KeptAlong, NEW tubes \in SUBSET Tubes, PollPending(tubes)
      PROVE  Gate!GateNext
  <2>1. PICK taken \in MostUrgent(Ready(tubes)) :
          /\ data' = [id \in Tickets |-> IF id \in taken THEN Bumped(data[id]) ELSE data[id]]
          /\ polled' = [id \in Tickets |-> IF id \in taken THEN data[id] ELSE None]
    BY <1>9 DEF PollPending
  <2>2. \A id \in taken : Pending(id) /\ deps[id] = {} /\ id \in Tickets
    BY DEF MostUrgent, Ready
  <2>3. \A id \in taken : data[id] \in Ticket
    BY <2>2 DEF Pending, Present
  <2>4. \A id \in taken : /\ Bumped(data[id]) # None /\ Bumped(data[id]).status = "pending"
                          /\ Bumped(data[id]).group = data[id].group
    BY <2>2, <2>3, BumpedType, NoneAssumption DEF Pending
  <2>5. \A id \in Tickets : /\ Pending(id)' <=> Pending(id)
                            /\ Pending(id) => data'[id].group = data[id].group
    BY <2>1, <2>2, <2>4 DEF Pending, Present
  <2>6. UNCHANGED <<Pool, GroupOf>>
    BY <2>5 DEF Pool, GroupOf
  <2>7. Out' = taken
    BY <2>1, <2>2 DEF Pending, Present, Out
  <2>8. UNCHANGED <<deps, kept>>
    BY <1>9, UnchangedDeps DEF PollPending
  <2>9. Gate!HandOut(taken)
    BY <2>2, <2>6, <2>7, <2>8 DEF Gate!HandOut, Pool, GroupOf, Out
  <2>10. taken \in SUBSET Tickets
    BY <2>2
  <2> QED BY <2>9, <2>10 DEF Gate!GateNext
<1>10. CASE KeptAlong /\ ExpireTickets
  <2>1. PICK gone \in SUBSET Expired :
          data' = [id \in Tickets |-> IF id \in gone THEN None ELSE data[id]]
    BY <1>10 DEF ExpireTickets
  <2>2. \A id \in Tickets : Pending(id)' <=> Pending(id)
    BY <2>1 DEF Expired, Pending, Present
  <2>3. \A id \in Tickets : Pending(id) => data'[id] = data[id]
    BY <2>1 DEF Expired
  <2>4. UNCHANGED <<Pool, GroupOf>>
    BY <2>2, <2>3 DEF Pool, GroupOf
  <2> QED BY <1>0, <1>10, <2>4, UnchangedDeps, QuietStep DEF ExpireTickets
<1>11. CASE KeptAlong /\ Tick
  <2>1. \A m \in Tickets : Present(m) => /\ Aged(data[m]) # None
                                         /\ Aged(data[m]).status = data[m].status
                                         /\ Aged(data[m]).group = data[m].group
    BY AgedType, NoneAssumption DEF Present, Aged, Ticket
  <2>2. \A id \in Tickets : /\ Pending(id)' <=> Pending(id)
                            /\ Pending(id) => data'[id].group = data[id].group
    BY <1>11, <2>1 DEF Tick, Pending, Present
  <2>3. UNCHANGED <<Pool, GroupOf>>
    BY <2>2 DEF Pool, GroupOf
  <2> QED BY <1>0, <1>11, <2>3, UnchangedDeps, QuietStep DEF Tick
<1>12. CASE UNCHANGED histVars
  BY <1>12 DEF histVars, storeVars, Gate!gateVars, Pending, Present
<1>13. CASE Operation /\ KeptAlong
  BY <1>1, <1>2, <1>3, <1>4, <1>5, <1>6, <1>7, <1>9, <1>10, <1>11, <1>13 DEF Operation
<1> QED BY <1>8, <1>12, <1>13 DEF HistNext, KeptAlong

\* The store keeps the promise of FinalizerGate, for every instance and all
\* callbacks: exact snapshots, a release by whatever finishes a ticket but
\* Update, and no hand-out while somebody is waited for.
THEOREM GateCorrect == HistSpec => ImplementsGate
<1>1. HistInit => Gate!GateInit
  BY DEF HistInit, Init, NobodyPolled, Gate!GateInit, Pending, Present
<1>2. TypeOK /\ KeptOK /\ [HistNext]_histVars => [Gate!GateNext]_(Gate!gateVars)
  BY GateStep
<1> QED BY <1>1, <1>2, HistTyped, PTL DEF HistSpec, ImplementsGate, Gate!GateSpec
=============================================================================
