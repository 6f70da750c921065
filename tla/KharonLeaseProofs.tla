------------------------- MODULE KharonLeaseProofs -------------------------
(***************************************************************************)
(* Proofs about Kharon, for any number of workers, flushers and tickets:   *)
(* what the answers on their way to the store can do to a ticket when they *)
(* arrive late, and that no two handlers share a lease.                    *)
(***************************************************************************)
EXTENDS KharonProofs

-----------------------------------------------------------------------------
\* Finished tickets.

\* Finished means that it stays.
Kept(t) == t.status \in Terminal => t.runat = Forever

\* What the theorem asks of the calls, at the end of their options. A call that
\* finishes a ticket gives it no time to live; one that leaves the status alone
\* (Retry) leaves the run time alone too; Restart may have any delay, since it
\* makes the ticket pending. The function passed WithUpdate, which may write
\* both, does the same. Excluded is therefore Done with a time to live, which
\* asks for the expiration, and every Retry with a delay, which does not: the
\* engine does lose a finished ticket to a Retry that comes late.
CallsKeepFinished ==
  \A call \in Calls :
    LET o == CallOpts(call)
    IN  o.keep =>
          /\ \/ o.status = "pending"
             \/ o.status \in Terminal /\ o.delay = FixedDelay(Forever)
             \/ o.status = None /\ o.delay = NoDelay
          /\ o.update # None =>
               \A t \in Ticket : Kept(t) /\ o.update[t] # None => Kept(o.update[t])

\* An answer that keeps what was finished forever.
KeepsFinished ==
  {us \in UpdateSet :
     \/ us.status = "pending"
     \/ us.backoff = None /\ us.runat = IF us.status = None THEN None ELSE Forever}

LEMMA StatusFacts ==
  /\ None \notin Status /\ None \notin Times
  /\ "pending" \in Status /\ "pending" \notin Terminal /\ "pending" # None
  /\ Terminal \subseteq Status /\ Forever \in Times /\ Sooner(Forever) = Forever
BY NoneAssumption, HorizonAssumption, MaxAgeAssumption
   DEF Status, Terminal, Times, Forever, Sooner

LEMMA DelayFacts == /\ NoDelay.fixed = None /\ NoDelay.exponential = None /\ NoDelay.jittered = None
                    /\ FixedDelay(Forever).fixed = Forever /\ Forever # None
                    /\ FixedDelay(Forever).exponential = None /\ FixedDelay(Forever).jittered = None
BY StatusFacts DEF NoDelay, FixedDelay

LEMMA FinishedAnswers == CallsKeepFinished => Answers(KeepsFinished)
<1> SUFFICES ASSUME CallsKeepFinished PROVE Answers(KeepsFinished)
  OBVIOUS
<1>1. ASSUME NEW us \in KeepsFinished PROVE AgedUpdate(us) \in KeepsFinished
  <2>1. us \in UpdateSet /\ AgedUpdate(us) \in UpdateSet /\ AgedUpdate(us).status = us.status
    BY AgedUpdateType DEF KeepsFinished
  <2>2. CASE us.runat = None
    BY <2>2 DEF AgedUpdate
  <2>3. CASE us.runat # None
    <3>1. AgedUpdate(us).backoff = us.backoff /\ AgedUpdate(us).runat = Sooner(us.runat)
      BY <2>1, <2>3 DEF AgedUpdate, Aged, UpdateSet
    <3> QED BY <2>1, <2>3, <3>1, StatusFacts DEF KeepsFinished
  <2> QED BY <2>2, <2>3
<1>2. ASSUME NEW id \in Tickets, NEW call \in Calls, CallOpts(call).keep
      PROVE  SaveSet(id, CallOpts(call)) \in KeepsFinished
  <2>0. PICK o \in Opts : o = CallOpts(call)
    BY CallsAreCalls, CallOptsType
  <2>1. SaveSet(id, o) \in UpdateSet
    BY SaveSetType
  <2>2. \/ o.status = "pending"
        \/ o.status \in Terminal /\ o.delay = FixedDelay(Forever)
        \/ o.status = None /\ o.delay = NoDelay
    BY <1>2, <2>0 DEF CallsKeepFinished
  <2>3. SaveSet(id, o).status = o.status /\ SaveSet(id, o).runat = o.delay.fixed
        /\ SaveSet(id, o).backoff = o.delay.jittered
    BY DEF SaveSet
  <2>4. ASSUME o.status = "pending" PROVE SaveSet(id, o) \in KeepsFinished
    BY <2>1, <2>3, <2>4 DEF KeepsFinished
  <2>5. ASSUME o.status \in Terminal, o.delay = FixedDelay(Forever)
        PROVE  SaveSet(id, o) \in KeepsFinished
    BY <2>1, <2>3, <2>5, StatusFacts, DelayFacts DEF KeepsFinished
  <2>6. ASSUME o.status = None, o.delay = NoDelay PROVE SaveSet(id, o) \in KeepsFinished
    BY <2>1, <2>3, <2>6, StatusFacts, DelayFacts DEF KeepsFinished
  <2> QED BY <2>0, <2>2, <2>4, <2>5, <2>6
<1> QED BY <1>1, <1>2 DEF Answers, KeepsFinished

\* A call WithUpdate keeps what was finished.
LEMMA SavedKept ==
  ASSUME CallsKeepFinished, NEW call \in Calls, CallOpts(call).keep, NEW t \in Ticket, Kept(t),
         Saved(t, call) # None
  PROVE  Kept(Saved(t, call))
<1>1. PICK o \in Opts : o = CallOpts(call)
  BY CallsAreCalls, CallOptsType
<1>2. \/ o.status = "pending"
      \/ o.status \in Terminal /\ o.delay = FixedDelay(Forever)
      \/ o.status = None /\ o.delay = NoDelay
  BY <1>1 DEF CallsKeepFinished
<1>3. PICK p \in Ticket : p = Patched(t, o)
  BY PatchedType
<1>4. /\ p.status = Coalesce(o.status, t.status)
      /\ o.delay.exponential = None
           => p.runat = IF o.delay.fixed # None THEN o.delay.fixed ELSE t.runat
  BY <1>3 DEF Patched, Ticket
<1>5. Kept(p)
  <2>1. CASE o.status = "pending"
    BY <1>4, <2>1, StatusFacts DEF Kept, Coalesce
  <2>2. CASE o.status \in Terminal /\ o.delay = FixedDelay(Forever)
    BY <1>4, <2>2, DelayFacts DEF Kept
  <2>3. CASE o.status = None /\ o.delay = NoDelay
    BY <1>4, <2>3, DelayFacts DEF Kept, Coalesce
  <2> QED BY <1>2, <2>1, <2>2, <2>3
<1>6. Saved(t, call) = IF o.update = None THEN p ELSE o.update[p]
  BY <1>1, <1>3 DEF Saved, BeforeUpdate
<1>7. o.update # None => (o.update[p] # None => Kept(o.update[p]))
  BY <1>1, <1>5 DEF CallsKeepFinished
<1> QED BY <1>5, <1>6, <1>7

\* Without tubes nothing is put back, so whoever updates the store is a flush.
FinishedInv == /\ Typed /\ IInv /\ FinishedStay
               /\ Messages(KeepsFinished)

LEMMA FinishedInit == Init => FinishedInv
<1> SUFFICES ASSUME Init PROVE FinishedInv
  OBVIOUS
<1>1. FinishedStay
  BY DEF Init, Store!Init, FinishedStay, Store!Present
<1>2. Messages(KeepsFinished)
  BY EmptySeq DEF Init, Store!Init, NoFlush, Messages
<1> QED BY <1>1, <1>2, TypedInit, QuietInit DEF FinishedInv

LEMMA FinishedStep ==
  ASSUME ~TubesOn, CallsKeepFinished, FinishedInv, [Next]_vars
  PROVE  FinishedInv'
<1>1. Typed' /\ IInv' /\ Messages(KeepsFinished)'
  BY TypedStep, QuietStep, MessagesStep, FinishedAnswers DEF FinishedInv
<1>2. \A id \in Tickets : DataStep(id)
  BY DataSteps DEF FinishedInv
<1>3. ASSUME NEW id \in Tickets, Store!Present(id)', data'[id].status \in Terminal
      PROVE  data'[id].runat = Forever
  <2>1. /\ data[id] \in Ticket \union {None}
        /\ Store!Present(id) => data[id] \in Ticket
        /\ Store!Present(id) /\ data[id].status \in Terminal => data[id].runat = Forever
    BY TypeFacts DEF FinishedInv, Typed, FinishedStay, Store!Present
  <2>2. ASSUME NEW t \in Submissions, data'[id] = Store!Submitted(t) PROVE FALSE
    BY <1>3, <2>2, StatusFacts, TicketAssumption DEF Store!Submitted, Ticket
  <2>3. ASSUME NEW call \in Calls, CallOpts(call).keep, Store!Present(id),
               data'[id] = Saved(data[id], call), data'[id] # None
        PROVE  data'[id].runat = Forever
    <3>1. Kept(data[id])
      BY <2>1, <2>3 DEF Kept
    <3> QED BY <1>3, <2>1, <2>3, <3>1, SavedKept DEF Kept
  <2>4. ASSUME StoreUpdates, Store!UpdateFound, id = Head(batch).id,
               data'[id] = UpdateOne(data[id], Head(batch))
        PROVE  data'[id].runat = Forever
    <3>1. mu \in AllFlushers
      BY <2>4 DEF FinishedInv, IInv, Held, Typed, Stages, Store!UpdateFound
    <3>2. Head(batch) \in KeepsFinished /\ Store!Present(id)
      BY <2>4, <3>1, QueueFacts DEF FinishedInv, Messages, Store!UpdateFound
    <3>3. PICK us \in KeepsFinished : us = Head(batch)
      BY <3>2
    <3>4. /\ data'[id].status = Coalesce(us.status, data[id].status)
          /\ us.backoff = None => data'[id].runat = Coalesce(us.runat, data[id].runat)
      BY <2>1, <2>4, <3>2, <3>3 DEF UpdateOne, Ticket
    <3>5. CASE us.status = "pending"
      BY <1>3, <3>4, <3>5, StatusFacts DEF Coalesce
    <3>6. CASE us.status # "pending"
      <4>1. us.backoff = None /\ us.runat = IF us.status = None THEN None ELSE Forever
        BY <3>3, <3>6 DEF KeepsFinished
      <4>2. CASE us.status = None
        BY <1>3, <2>1, <3>2, <3>4, <4>1, <4>2 DEF Coalesce
      <4>3. CASE us.status # None
        BY <3>4, <4>1, <4>3, StatusFacts DEF Coalesce
      <4> QED BY <4>2, <4>3
    <3> QED BY <3>5, <3>6
  <2>5. ASSUME id \in Store!Ready(tubes), data'[id] = Store!Bumped(data[id])
        PROVE  FALSE
    BY <1>3, <2>1, <2>5, BumpedType, StatusFacts DEF Store!Ready, Store!Pending
  <2>6. ASSUME Store!Present(id), data'[id] = Aged(data[id])
        PROVE  data'[id].runat = Forever
    <3>1. data'[id].status = data[id].status /\ data'[id].runat = Sooner(data[id].runat)
      BY <2>1, <2>6 DEF Aged, Ticket
    <3> QED BY <1>3, <2>1, <2>6, <3>1, StatusFacts
  <2>7. CASE data'[id] = data[id]
    BY <1>3, <2>1, <2>7 DEF Store!Present
  <2>8. data'[id] # None /\ DataStep(id)
    BY <1>2, <1>3 DEF Store!Present
  <2> QED BY <2>2, <2>3, <2>4, <2>5, <2>6, <2>7, <2>8 DEF DataStep
<1>4. FinishedStay'
  BY <1>3 DEF FinishedStay
<1> QED BY <1>1, <1>4 DEF FinishedInv

\* A finished ticket never expires, if tubes are off, no call that finishes one
\* gives it a time to live and no Retry has a delay: through polls, restarts
\* and late answers in whatever batches, through updates at once and through
\* however many Runs (save and UpdateBatch). Both restrictions are needed: with
\* tubes the put-back revives the run time, and so does a late Retry.
THEOREM FinishedStayCorrect ==
  ASSUME ~TubesOn, CallsKeepFinished
  PROVE  Spec => []FinishedStay
<1>1. FinishedInv /\ [Next]_vars => FinishedInv'
  BY FinishedStep
<1>2. FinishedInv => FinishedStay
  BY DEF FinishedInv
<1> QED BY <1>1, <1>2, FinishedInit, PTL DEF Spec

-----------------------------------------------------------------------------
\* Leases.

\* No call reschedules a ticket: a late Retry or Restart would make it due
\* while the next handler has its lease already. Nor does a function passed
\* WithUpdate make it pending again.
CallsFinish ==
  \A call \in Calls :
    /\ call.op \notin {"restart", "retry"}
    /\ call.update # None =>
         \A t \in Ticket : t.status \in Terminal /\ call.update[t] # None
                           => call.update[t].status \in Terminal

\* An answer that finishes its ticket.
Finishing == {us \in UpdateSet : us.status \in Terminal}

\* A live copy of a ticket in the channel, or with a worker.
InIncome(id, i) == i \in DOMAIN income /\ income[i].id = id /\ income[i].lease > 0
InJob(id, w) == w \in Workers /\ job[w] # None /\ job[w].id = id /\ job[w].lease > 0
Elsewhere(id) == (\E i \in DOMAIN income : InIncome(id, i)) \/ (\E w \in Workers : InJob(id, w))

\* A copy, live or not, with the poller.
Fetched(id) == \E i \in DOMAIN poller.fetched : poller.fetched[i].id = id

\* The poller holds copies of distinct tickets, of which nobody else has a
\* live copy; of the others there is at most one.
Alone ==
  /\ DistinctIds(poller.fetched)
  /\ \A i \in DOMAIN poller.fetched : ~Elsewhere(poller.fetched[i].id)
  /\ \A id \in Tickets :
       /\ \A i, j \in DOMAIN income : InIncome(id, i) /\ InIncome(id, j) => i = j
       /\ \A v, w \in Workers : InJob(id, v) /\ InJob(id, w) => v = w
       /\ \A i \in DOMAIN income, w \in Workers : ~(InIncome(id, i) /\ InJob(id, w))

\* A copy whose lease ends no later than its ticket is due again, if it is
\* still pending.
Leased(c) == /\ c.id \in submitted
             /\ c.lease > 0 /\ Store!Pending(c.id) => c.lease <= data[c.id].runat

Covered == /\ \A id \in Tickets : Store!Present(id) => id \in submitted
           /\ \A i \in DOMAIN poller.fetched : Leased(poller.fetched[i])
           /\ \A i \in DOMAIN income : Leased(income[i])
           /\ \A w \in Workers : job[w] # None => Leased(job[w])

\* What the poller gives back has no live copy any more, and is not finished
\* or reopened by it.
Returned(us) == us.status = None /\ ~Elsewhere(us.id) /\ ~Fetched(us.id)
GivenBack == /\ \A i \in DOMAIN poller.putBack : Returned(poller.putBack[i])
             /\ mu = Poller => \A i \in DOMAIN batch : Returned(batch[i])

LeaseInv == /\ Typed /\ IInv
            /\ Messages(Finishing)
            /\ Alone /\ Covered /\ GivenBack

LEMMA CallsFinishTheirs ==
  ASSUME CallsFinish, NEW call \in Calls
  PROVE  CallOpts(call).status \in Terminal
<1>1. call \in Call /\ call.op \in {"ack", "done", "cancel", "fail"}
  BY CallsAreCalls DEF CallsFinish, Call, Ops
<1>2. DefaultOpts(call.op).status \in Terminal
  BY <1>1 DEF DefaultOpts, NoOpts, Terminal
<1>3. DefaultOpts(call.op) \in Opts
  BY <1>1, DefaultOptsType DEF Call
<1> QED BY <1>2, <1>3 DEF CallOpts, Opts

LEMMA SavedFinished ==
  ASSUME CallsFinish, NEW call \in Calls, NEW t \in Ticket, Saved(t, call) # None
  PROVE  Saved(t, call).status \in Terminal
<1>1. PICK o \in Opts : o = CallOpts(call)
  BY CallsAreCalls, CallOptsType
<1>2. o.status \in Terminal /\ o.update = call.update
  <2>1. DefaultOpts(call.op) \in Opts
    BY CallsAreCalls, DefaultOptsType DEF Call
  <2> QED BY <1>1, <2>1, CallsFinishTheirs DEF CallOpts, Opts
<1>3. PICK p \in Ticket : p = Patched(t, o)
  BY PatchedType
<1>4. p.status \in Terminal
  BY <1>2, <1>3, StatusFacts DEF Patched, Coalesce, Ticket
<1>5. Saved(t, call) = IF o.update = None THEN p ELSE o.update[p]
  BY <1>1, <1>3 DEF Saved, BeforeUpdate
<1>6. o.update # None => (o.update[p] # None => o.update[p].status \in Terminal)
  BY <1>2, <1>4 DEF CallsFinish
<1> QED BY <1>4, <1>5, <1>6

LEMMA FinishingAnswers == CallsFinish => Answers(Finishing)
<1> SUFFICES ASSUME CallsFinish PROVE Answers(Finishing)
  OBVIOUS
<1>1. ASSUME NEW us \in Finishing PROVE AgedUpdate(us) \in Finishing
  BY AgedUpdateType DEF Finishing
<1>2. ASSUME NEW id \in Tickets, NEW call \in Calls PROVE SaveSet(id, CallOpts(call)) \in Finishing
  <2>1. SaveSet(id, CallOpts(call)) \in UpdateSet
    BY CallsAreCalls, CallOptsType, SaveSetType
  <2> QED BY <2>1, CallsFinishTheirs DEF SaveSet, Finishing
<1> QED BY <1>1, <1>2 DEF Answers, Finishing

LEMMA LeaseInit == Init => LeaseInv
<1> SUFFICES ASSUME Init PROVE LeaseInv
  OBVIOUS
<1>1. Messages(Finishing)
  BY EmptySeq DEF Init, Store!Init, NoFlush, Messages
<1>2. DOMAIN poller.fetched = {} /\ DOMAIN poller.putBack = {} /\ DOMAIN income = {}
  BY DEF Init, NoWork
<1>3. Alone
  BY <1>2 DEF Init, Alone, DistinctIds, InJob
<1>4. Covered /\ GivenBack
  BY <1>2 DEF Init, Store!Init, Covered, GivenBack, Store!Present
<1> QED BY <1>1, <1>3, <1>4, TypedInit, QuietInit DEF LeaseInv

\* Copies only move in five kinds of steps; the others may only drop some.
CopiesStay == /\ income' = income
              /\ \A w \in Workers : job'[w] \in {job[w], None}
              /\ poller'.fetched \in {poller.fetched, <<>>}

LEMMA CopiesStep ==
  ASSUME Typed, [Next]_vars
  PROVE  CopiesStay \/ Poll \/ Filter \/ Dispatch \/ Tick \/ \E w \in Workers : TakeJob(w)
<1> USE DEF CopiesStay
<1>0. /\ poller \in PollerType /\ poller.fetched \in Seq(Copy)
      /\ job \in [Workers -> Copy \union {None}]
  BY DEF Typed, TypeOK, PollerType
<1>1. CASE Client
  BY <1>1 DEF Client, ClientPut, ClientPutAfterGroup, ClientCall, ClientDelete, Subscribe,
              Unsubscribe, engineVars
<1>2. CASE Run \/ CancelRun \/ RunReturns \/ UNCHANGED vars \/ Expire
  BY <1>2 DEF Run, CancelRun, RunReturns, vars, engineVars, Expire, NoWork
<1>3. CASE PollerNext
  <2>1. CASE PollerWakes \/ Abandon
    <3>1. poller'.fetched = <<>>
      BY <2>1 DEF PollerWakes, Abandon, NoWork
    <3> QED BY <2>1, <3>1 DEF PollerWakes, Abandon, PollerMoves
  <2>2. CASE PutBack
    <3>1. poller'.fetched = poller.fetched
      BY <1>0, <2>2 DEF PutBack, PollerType
    <3> QED BY <2>2, <3>1 DEF PutBack, PollerMoves
  <2> QED BY <1>3, <2>1, <2>2 DEF PollerNext
<1>4. ASSUME NEW w \in Workers, WorkerNext(w) PROVE CopiesStay \/ TakeJob(w)
  BY <1>0, <1>4 DEF WorkerNext, HandlerAnswers, HandlerCall, HandlerReturn, WorkerExits, WorkerMoves
<1>5. CASE PusherNext
  BY <1>5 DEF PusherNext, PusherReceives, PusherTicks, PusherStops, PusherExits, PusherMoves
<1>6. ASSUME NEW f \in AllFlushers, FlushNext(f) PROVE CopiesStay
  BY <1>6 DEF FlushNext, FlushDeletes, FlushUpdates, PusherMoves
<1>7. CASE StoreUpdates
  BY <1>0, <1>7, SendingFacts DEF StoreUpdates
<1> QED BY <1>1, <1>2, <1>3, <1>4, <1>5, <1>6, <1>7 DEF Next

LEMMA CopiesTyped ==
  ASSUME Typed
  PROVE  /\ poller.fetched \in Seq(Copy) /\ income \in Seq(Copy)
         /\ \A i \in DOMAIN poller.fetched : poller.fetched[i] \in Copy
         /\ \A i \in DOMAIN income : income[i] \in Copy
         /\ \A w \in Workers : job[w] # None => job[w] \in Copy
BY QueueFacts, ElementOfSeq DEF Typed, TypeOK

\* A ticket that is due has no live copy.
LEMMA ReadyIsAlone ==
  ASSUME Typed, Covered, NEW id \in Store!Ready(tubes)
  PROVE  /\ \A i \in DOMAIN poller.fetched : poller.fetched[i].id = id => ~(poller.fetched[i].lease > 0)
         /\ ~Elsewhere(id)
<1>1. id \in Tickets /\ Store!Pending(id) /\ data[id].runat <= 0 /\ data[id] \in Ticket
  BY TypeFacts DEF Typed, Store!Ready, Store!Pending, Store!Present
<1>2. data[id].runat \in Int
  BY <1>1, HorizonAssumption, MaxAgeAssumption DEF Ticket, Times, Forever
<1>3. ASSUME NEW c \in Copy, Leased(c), c.id = id PROVE ~(c.lease > 0)
  <2>1. c.lease \in Int
    BY HorizonAssumption, MaxAgeAssumption DEF Copy, Times, Forever
  <2> QED BY <1>1, <1>2, <1>3, <2>1 DEF Leased
<1> QED BY <1>3, CopiesTyped DEF Covered, Elsewhere, InIncome, InJob

\* After a tick there is at most what there was before.
LEMMA LiveAfterTick ==
  ASSUME Typed, Tick
  PROVE  /\ \A id, i : InIncome(id, i)' => InIncome(id, i)
         /\ \A id, w : InJob(id, w)' => InJob(id, w)
         /\ DOMAIN poller'.fetched = DOMAIN poller.fetched
         /\ \A i \in DOMAIN poller.fetched : poller'.fetched[i].id = poller.fetched[i].id
<1>1. ASSUME NEW c \in Copy, AgedCopy(c).lease > 0
      PROVE  c.lease > 0
  BY <1>1, AgedCopyType
<1>2. /\ DOMAIN income' = DOMAIN income
      /\ \A i \in DOMAIN income : income'[i] = AgedCopy(income[i])
      /\ DOMAIN poller'.fetched = DOMAIN poller.fetched
      /\ \A i \in DOMAIN poller.fetched : poller'.fetched[i] = AgedCopy(poller.fetched[i])
  BY TickFacts
<1>3. \A w \in Workers : job'[w] = IF job[w] = None THEN None ELSE AgedCopy(job[w])
  BY DEF Tick
<1>4. ASSUME NEW id, NEW i, InIncome(id, i)' PROVE InIncome(id, i)
  <2>1. i \in DOMAIN income /\ income[i] \in Copy /\ income'[i] = AgedCopy(income[i])
    BY <1>2, <1>4, CopiesTyped DEF InIncome
  <2> QED BY <1>1, <1>4, <2>1, AgedCopyType DEF InIncome
<1>5. ASSUME NEW id, NEW w, InJob(id, w)' PROVE InJob(id, w)
  <2>1. w \in Workers /\ job[w] \in Copy /\ job[w] # None /\ job'[w] = AgedCopy(job[w])
    BY <1>3, <1>5, CopiesTyped DEF InJob
  <2> QED BY <1>1, <1>5, <2>1, AgedCopyType DEF InJob
<1>6. \A i \in DOMAIN poller.fetched : poller'.fetched[i].id = poller.fetched[i].id
  BY <1>2, CopiesTyped, AgedCopyType
<1> QED BY <1>2, <1>4, <1>5, <1>6

\* Where the elements of a queue are after one enters or leaves.
LEMMA QueueElements ==
  ASSUME NEW S, NEW s \in Seq(S)
  PROVE  /\ \A e \in S : /\ DOMAIN Append(s, e) = 1..(Len(s) + 1)
                         /\ \A i \in DOMAIN s : Append(s, e)[i] = s[i]
                         /\ Append(s, e)[Len(s) + 1] = e
         /\ s # <<>> => /\ DOMAIN Tail(s) = 1..(Len(s) - 1)
                        /\ \A i \in DOMAIN Tail(s) : Tail(s)[i] = s[i + 1]
<1>1. ASSUME NEW e \in S
      PROVE  /\ DOMAIN Append(s, e) = 1..(Len(s) + 1)
             /\ \A i \in DOMAIN s : Append(s, e)[i] = s[i]
             /\ Append(s, e)[Len(s) + 1] = e
  BY AppendProperties, LenProperties
<1>2. ASSUME s # <<>>
      PROVE  /\ DOMAIN Tail(s) = 1..(Len(s) - 1)
             /\ \A i \in DOMAIN Tail(s) : Tail(s)[i] = s[i + 1]
  BY <1>2, HeadTailProperties, LenProperties, QueueFacts
<1> QED BY <1>1, <1>2

\* The first copy enters the channel at its end.
LEMMA LiveAfterDispatch ==
  ASSUME Typed, Dispatch
  PROVE  /\ DOMAIN income' = 1..(Len(income) + 1) /\ DOMAIN income = 1..Len(income)
         /\ Len(income) \in Nat
         /\ \A i \in DOMAIN income : income'[i] = income[i]
         /\ income'[Len(income) + 1] = poller.fetched[1]
         /\ job' = job
         /\ DOMAIN poller'.fetched = 1..(Len(poller.fetched) - 1)
         /\ DOMAIN poller.fetched = 1..Len(poller.fetched)
         /\ Len(poller.fetched) \in Nat /\ 1 \in DOMAIN poller.fetched
         /\ \A i \in DOMAIN poller'.fetched : poller'.fetched[i] = poller.fetched[i + 1]
<1>1. /\ poller.fetched \in Seq(Copy) /\ poller.fetched # <<>>
      /\ income' = Append(income, poller.fetched[1])
      /\ poller' = Sending(Tail(poller.fetched))
  BY DispatchFacts
<1>2. Tail(poller.fetched) \in Seq(Copy) /\ poller'.fetched = Tail(poller.fetched)
  BY <1>1, QueueFacts, SendingFacts
<1>3. income \in Seq(Copy) /\ poller.fetched[1] \in Copy
  BY <1>1, CopiesTyped, QueueFacts
<1>4. /\ DOMAIN income' = 1..(Len(income) + 1) /\ DOMAIN income = 1..Len(income)
      /\ Len(income) \in Nat
      /\ \A i \in DOMAIN income : income'[i] = income[i]
      /\ income'[Len(income) + 1] = poller.fetched[1]
  BY <1>1, <1>3, QueueElements, QueueFacts
<1>5. /\ DOMAIN poller'.fetched = 1..(Len(poller.fetched) - 1)
      /\ \A i \in DOMAIN poller'.fetched : poller'.fetched[i] = poller.fetched[i + 1]
  <2>1. /\ DOMAIN Tail(poller.fetched) = 1..(Len(poller.fetched) - 1)
        /\ \A i \in DOMAIN Tail(poller.fetched) : Tail(poller.fetched)[i] = poller.fetched[i + 1]
    BY <1>1, QueueElements
  <2> QED BY <1>2, <2>1
<1>6. /\ DOMAIN poller.fetched = 1..Len(poller.fetched)
      /\ Len(poller.fetched) \in Nat /\ 1 \in DOMAIN poller.fetched
  BY <1>1, QueueFacts
<1>7. job' = job
  BY DEF Dispatch, PollerMoves
<1> QED BY <1>4, <1>5, <1>6, <1>7

\* The copy at the front of the channel goes to a worker.
LEMMA LiveAfterTake ==
  ASSUME Typed, NEW w \in Workers, TakeJob(w)
  PROVE  /\ DOMAIN income' = 1..(Len(income) - 1) /\ DOMAIN income = 1..Len(income)
         /\ Len(income) \in Nat /\ 1 \in DOMAIN income
         /\ \A i \in DOMAIN income' : income'[i] = income[i + 1]
         /\ job' = [job EXCEPT ![w] = income[1]]
         /\ DOMAIN job = Workers
         /\ poller' = poller
<1>1. income \in Seq(Copy) /\ income # <<>> /\ DOMAIN job = Workers
  BY DEF TakeJob, Typed, TypeOK
<1> QED BY <1>1, QueueElements, QueueFacts DEF TakeJob, WorkerMoves

LEMMA AloneStep ==
  ASSUME LeaseInv, [Next]_vars
  PROVE  Alone'
<1>0. Typed /\ Alone /\ Covered
  BY DEF LeaseInv
\* Nothing moves, or something is dropped.
<1>1. ASSUME \A id, i : InIncome(id, i)' => InIncome(id, i),
             \A id, w : InJob(id, w)' => InJob(id, w),
             DistinctIds(poller'.fetched),
             \A i \in DOMAIN poller'.fetched : ~Elsewhere(poller'.fetched[i].id)
      PROVE  Alone'
  <2>1. \A id : Elsewhere(id)' => Elsewhere(id)
    BY <1>1 DEF Elsewhere, InIncome, InJob
  <2>2. ASSUME NEW id \in Tickets, NEW i, NEW j, InIncome(id, i)', InIncome(id, j)' PROVE i = j
    BY <1>0, <1>1, <2>2 DEF Alone, InIncome
  <2>3. ASSUME NEW id \in Tickets, NEW v, NEW w, InJob(id, v)', InJob(id, w)' PROVE v = w
    BY <1>0, <1>1, <2>3 DEF Alone, InJob
  <2>4. ASSUME NEW id \in Tickets, NEW i, NEW w, InIncome(id, i)', InJob(id, w)' PROVE FALSE
    BY <1>0, <1>1, <2>4 DEF Alone, InIncome, InJob
  <2> QED BY <1>1, <2>1, <2>2, <2>3, <2>4 DEF Alone, DistinctIds
<1>2. CASE CopiesStay
  <2>1. \A id, i : InIncome(id, i)' => InIncome(id, i)
    BY <1>2 DEF CopiesStay, InIncome
  <2>2. \A id, w : InJob(id, w)' => InJob(id, w)
    BY <1>2 DEF CopiesStay, InJob
  <2>3. CASE poller'.fetched = poller.fetched
    BY <1>0, <1>1, <2>1, <2>2, <2>3 DEF Alone
  <2>4. CASE poller'.fetched = <<>>
    BY <1>1, <2>1, <2>2, <2>4 DEF DistinctIds
  <2> QED BY <1>2, <2>3, <2>4 DEF CopiesStay
<1>3. CASE Poll
  <2>1. PICK copies \in Seq(Copy) :
          /\ \/ poller' = Sending(copies)
             \/ TubesOn /\ poller' = [pc |-> "filtering", fetched |-> copies, putBack |-> <<>>]
          /\ DistinctIds(copies)
          /\ \A i \in DOMAIN copies : /\ copies[i].id \in Store!Ready(tubes)
                                      /\ copies[i].lease = data'[copies[i].id].runat
    BY <1>0, <1>3, PollFacts
  <2>2. poller'.fetched = copies
    BY <2>1, SendingFacts
  <2>3. \A i \in DOMAIN copies : ~Elsewhere(copies[i].id)
    BY <1>0, <2>1, ReadyIsAlone
  <2>4. income' = income /\ job' = job
    BY <1>3 DEF Poll, PollerMoves
  <2> QED BY <1>1, <2>1, <2>2, <2>3, <2>4 DEF InIncome, InJob
<1>4. CASE Filter
  <2>1. PICK mine \in Seq(Copy), back \in Seq(UpdateSet) :
          /\ \/ poller' = Sending(mine)
             \/ poller' = [pc |-> "giving", fetched |-> mine, putBack |-> back]
          /\ \E f \in [DOMAIN mine -> DOMAIN poller.fetched \ Foreign] :
               /\ \A j \in DOMAIN mine : mine[j] = poller.fetched[f[j]]
               /\ \A i, j \in DOMAIN mine : i # j => f[i] # f[j]
    BY <1>0, <1>4, FilterFacts
  <2>2. poller'.fetched = mine
    BY <2>1, SendingFacts
  <2>3. DistinctIds(mine) /\ \A i \in DOMAIN mine : ~Elsewhere(mine[i].id)
    BY <1>0, <2>1 DEF Alone, DistinctIds
  <2>4. income' = income /\ job' = job
    BY <1>4 DEF Filter, PollerMoves
  <2> QED BY <1>1, <2>2, <2>3, <2>4 DEF InIncome, InJob
<1>5. CASE Tick
  <2>1. /\ \A id, i : InIncome(id, i)' => InIncome(id, i)
        /\ \A id, w : InJob(id, w)' => InJob(id, w)
        /\ DOMAIN poller'.fetched = DOMAIN poller.fetched
        /\ \A i \in DOMAIN poller.fetched : poller'.fetched[i].id = poller.fetched[i].id
    BY <1>0, <1>5, LiveAfterTick
  <2> QED BY <1>0, <1>1, <2>1 DEF Alone, DistinctIds
<1>6. CASE Dispatch
  <2> DEFINE c == poller.fetched[1]
             n == Len(income) + 1
             m == Len(poller.fetched)
  <2>1. /\ DOMAIN income' = 1..n /\ DOMAIN income = 1..Len(income) /\ Len(income) \in Nat
        /\ \A i \in DOMAIN income : income'[i] = income[i]
        /\ income'[n] = c
        /\ job' = job
        /\ DOMAIN poller'.fetched = 1..(m - 1) /\ DOMAIN poller.fetched = 1..m
        /\ m \in Nat /\ 1 \in DOMAIN poller.fetched
        /\ \A i \in DOMAIN poller'.fetched : poller'.fetched[i] = poller.fetched[i + 1]
    BY <1>0, <1>6, LiveAfterDispatch
  <2>2. ~Elsewhere(c.id)
    BY <1>0, <2>1 DEF Alone
  <2> HIDE DEF c, n, m
  <2>3. ASSUME NEW id, NEW i, InIncome(id, i)'
        PROVE  (InIncome(id, i) /\ id # c.id) \/ (i = n /\ id = c.id)
    <3>1. CASE i = n
      BY <2>1, <2>3, <3>1 DEF InIncome
    <3>2. CASE i # n
      <4>1. i \in DOMAIN income
        BY <2>1, <2>3, <3>2 DEF InIncome, n
      <4> QED BY <2>1, <2>2, <2>3, <4>1 DEF InIncome, Elsewhere
    <3> QED BY <3>1, <3>2
  <2>4. ASSUME NEW id, NEW w, InJob(id, w)' PROVE InJob(id, w) /\ id # c.id
    BY <2>1, <2>2, <2>4 DEF InJob, Elsewhere
  <2>5. ASSUME NEW i \in DOMAIN poller'.fetched
        PROVE  /\ i + 1 \in DOMAIN poller.fetched /\ poller'.fetched[i] = poller.fetched[i + 1]
               /\ poller'.fetched[i].id # c.id /\ ~Elsewhere(poller'.fetched[i].id)
    <3>1. i + 1 \in DOMAIN poller.fetched /\ i + 1 # 1 /\ poller'.fetched[i] = poller.fetched[i + 1]
      BY <2>1
    <3> QED BY <1>0, <2>1, <3>1 DEF Alone, DistinctIds, c
  <2>6. DistinctIds(poller'.fetched)
    <3>1. \A i, j \in DOMAIN poller'.fetched : i # j => i + 1 # j + 1
      BY <2>1
    <3> QED BY <1>0, <2>5, <3>1 DEF Alone, DistinctIds
  <2>7. \A id : Elsewhere(id)' => Elsewhere(id) \/ id = c.id
    BY <2>3, <2>4 DEF Elsewhere, InIncome, InJob
  <2>8. ASSUME NEW id \in Tickets, NEW i, NEW j, InIncome(id, i)', InIncome(id, j)' PROVE i = j
    BY <1>0, <2>3, <2>8 DEF Alone, InIncome
  <2>9. ASSUME NEW id \in Tickets, NEW v, NEW w, InJob(id, v)', InJob(id, w)' PROVE v = w
    BY <1>0, <2>4, <2>9 DEF Alone, InJob
  <2>10. ASSUME NEW id \in Tickets, NEW i, NEW w, InIncome(id, i)', InJob(id, w)' PROVE FALSE
    BY <1>0, <2>3, <2>4, <2>10 DEF Alone, InIncome, InJob
  <2> QED BY <2>5, <2>6, <2>7, <2>8, <2>9, <2>10 DEF Alone, DistinctIds
<1>7. ASSUME NEW w \in Workers, TakeJob(w) PROVE Alone'
  <2>1. /\ DOMAIN income' = 1..(Len(income) - 1) /\ DOMAIN income = 1..Len(income)
        /\ Len(income) \in Nat /\ 1 \in DOMAIN income
        /\ \A i \in DOMAIN income' : income'[i] = income[i + 1]
        /\ job' = [job EXCEPT ![w] = income[1]]
        /\ DOMAIN job = Workers
        /\ poller' = poller
    BY <1>0, <1>7, LiveAfterTake
  <2>2. ASSUME NEW id, NEW i, InIncome(id, i)'
        PROVE  i \in Nat /\ InIncome(id, i + 1) /\ i + 1 # 1
    <3>1. i \in Nat /\ i # 0 /\ i + 1 \in DOMAIN income /\ income'[i] = income[i + 1]
      BY <2>1, <2>2 DEF InIncome
    <3> QED BY <2>2, <3>1 DEF InIncome
  <2>3. ASSUME NEW id, NEW v, InJob(id, v)'
        PROVE  (v # w /\ InJob(id, v)) \/ (v = w /\ InIncome(id, 1))
    BY <2>1, <2>3 DEF InIncome, InJob
  <2>4. ASSUME NEW id, Elsewhere(id)' PROVE Elsewhere(id)
    <3>1. CASE \E i \in DOMAIN income' : InIncome(id, i)'
      BY <2>2, <3>1 DEF Elsewhere, InIncome
    <3>2. CASE \E v \in Workers : InJob(id, v)'
      BY <2>3, <3>2 DEF Elsewhere, InIncome, InJob
    <3> QED BY <2>4, <3>1, <3>2 DEF Elsewhere
  <2>5. ASSUME NEW id \in Tickets, NEW i, NEW j, InIncome(id, i)', InIncome(id, j)' PROVE i = j
    <3>1. i \in Nat /\ j \in Nat /\ InIncome(id, i + 1) /\ InIncome(id, j + 1)
      BY <2>2, <2>5
    <3>2. i + 1 = j + 1
      BY <1>0, <3>1 DEF Alone, InIncome
    <3> QED BY <3>1, <3>2
  <2>6. ASSUME NEW id \in Tickets, NEW u, NEW v, InJob(id, u)', InJob(id, v)' PROVE u = v
    BY <1>0, <2>3, <2>6 DEF Alone, InIncome, InJob
  <2>7. ASSUME NEW id \in Tickets, NEW i, NEW v, InIncome(id, i)', InJob(id, v)' PROVE FALSE
    <3>1. InIncome(id, i + 1) /\ i + 1 # 1
      BY <2>2, <2>7
    <3> QED BY <1>0, <2>3, <2>7, <3>1 DEF Alone, InIncome, InJob
  <2> QED BY <1>0, <2>1, <2>4, <2>5, <2>6, <2>7 DEF Alone, DistinctIds
<1> QED BY <1>0, <1>2, <1>3, <1>4, <1>5, <1>6, <1>7, CopiesStep

LEMMA SubmittedStep ==
  ASSUME Typed, Covered, [Next]_vars
  PROVE  /\ submitted \subseteq submitted'
         /\ \A id \in Tickets : Store!Present(id)' => id \in submitted'
<1>1. submitted \subseteq submitted'
  BY DEF Next, Client, ClientPut, ClientPutAfterGroup, ClientCall, ClientDelete, Subscribe,
         Unsubscribe, engineVars, Run, CancelRun, RunReturns, PollerNext, PollerWakes, Poll,
         Filter, PutBack, Dispatch, Abandon, PollerMoves, WorkerNext, HandlerAnswers, HandlerCall,
         HandlerReturn, TakeJob, WorkerExits, WorkerMoves, PusherNext, PusherReceives, PusherTicks,
         PusherStops, PusherExits, PusherMoves, FlushNext, FlushDeletes, FlushUpdates,
         StoreUpdates, Expire, Tick, vars
<1>2. ASSUME NEW id \in Tickets, Store!Present(id)' PROVE id \in submitted'
  <2>1. DataStep(id) /\ data'[id] # None
    BY <1>2, DataSteps DEF Store!Present
  <2>2. CASE Store!Present(id)
    BY <1>1, <2>2 DEF Covered
  <2>3. CASE ~Store!Present(id)
    <3>1. data[id] = None
      BY <2>3 DEF Store!Present
    <3> QED BY <2>1, <2>3, <3>1 DEF DataStep, Store!Ready, Store!Pending, Store!UpdateFound
  <2> QED BY <2>2, <2>3
<1> QED BY <1>1, <1>2

\* Whatever else happens to its ticket, a copy stays covered: answers finish
\* the ticket, and what the poller gives back has no live copy.
LEMMA LeasedStep ==
  ASSUME CallsFinish, LeaseInv, [Next]_vars, ~Tick,
         NEW c \in Copy, Leased(c), c.lease > 0 => Elsewhere(c.id) \/ Fetched(c.id)
  PROVE  Leased(c)'
<1> DEFINE id == c.id
<1>1. id \in Tickets /\ id \in submitted /\ id \in submitted'
  BY SubmittedStep DEF LeaseInv, Leased, Copy
<1>2. SUFFICES ASSUME c.lease > 0, Store!Pending(id)' PROVE c.lease <= data'[id].runat
  BY <1>1 DEF Leased
<1>3. data'[id] # None /\ data'[id].status = "pending"
  BY <1>2 DEF Store!Pending, Store!Present
<1>4. Store!Present(id) => data[id] \in Ticket
  BY <1>1, TypeFacts DEF LeaseInv, Typed, Store!Present
<1>5. "pending" \notin Terminal /\ None \notin Terminal
  BY StatusFacts
<1>6. CASE data'[id] = data[id]
  <2>1. Store!Pending(id)
    BY <1>3, <1>6 DEF Store!Pending, Store!Present
  <2> QED BY <1>2, <1>6, <2>1 DEF Leased
<1>7. ASSUME NEW call \in Calls, Store!Present(id), data'[id] = Saved(data[id], call)
      PROVE  FALSE
  BY <1>3, <1>4, <1>5, <1>7, SavedFinished
<1>8. ASSUME StoreUpdates, Store!UpdateFound, id = Head(batch).id,
             data'[id] = UpdateOne(data[id], Head(batch))
      PROVE  FALSE
  <2>1. Store!Present(id) /\ mu # None /\ batch # <<>>
    BY <1>8 DEF Store!UpdateFound
  <2>2. data'[id].status = Coalesce(Head(batch).status, data[id].status)
    BY <1>4, <1>8, <2>1 DEF UpdateOne, Ticket
  <2>3. CASE mu \in AllFlushers
    <3>1. Head(batch) \in Finishing
      BY <2>1, <2>3, QueueFacts DEF LeaseInv, Messages
    <3> QED BY <1>3, <1>5, <2>2, <3>1 DEF Coalesce, Finishing
  <2>4. CASE mu = Poller
    <3>1. Head(batch) = batch[1] /\ 1 \in DOMAIN batch
      BY <2>1, QueueFacts, TypeFacts DEF LeaseInv, Typed
    <3>2. Returned(Head(batch))
      BY <2>4, <3>1 DEF LeaseInv, GivenBack
    <3> QED BY <1>2, <1>8, <3>2 DEF Returned
  <2> QED BY <2>1, <2>3, <2>4, TypeFacts DEF LeaseInv, Typed
<1>9. ASSUME Poll, id \in Store!Ready(tubes) PROVE FALSE
  <2>1. ~Elsewhere(id)
    BY <1>9, ReadyIsAlone DEF LeaseInv
  <2>2. ~Fetched(id)
    BY <1>9 DEF LeaseInv, Typed, Stages, Poll, Fetched
  <2> QED BY <1>2, <2>1, <2>2
<1>10. DataStep(id)
  BY <1>1, DataSteps DEF LeaseInv
<1> QED BY <1>1, <1>3, <1>6, <1>7, <1>8, <1>9, <1>10 DEF DataStep

LEMMA LeasedTick ==
  ASSUME Typed, Covered, Tick, [Next]_vars, NEW c \in Copy, Leased(c)
  PROVE  /\ AgedCopy(c).id \in submitted'
         /\ AgedCopy(c).lease > 0 /\ Store!Pending(AgedCopy(c).id)'
              => AgedCopy(c).lease <= data'[AgedCopy(c).id].runat
<1>1. /\ AgedCopy(c).id = c.id /\ c.id \in Tickets /\ c.id \in submitted'
      /\ AgedCopy(c).lease = IF c.lease > 0 THEN Sooner(c.lease) ELSE c.lease
      /\ c.lease \in Times
  BY AgedCopyType, SubmittedStep DEF Leased, Copy
<1>2. SUFFICES ASSUME AgedCopy(c).lease > 0, Store!Pending(c.id)'
      PROVE  AgedCopy(c).lease <= data'[c.id].runat
  BY <1>1
<1>3. c.lease > 0 /\ AgedCopy(c).lease = Sooner(c.lease)
  BY <1>1, <1>2
<1>4. data'[c.id] = IF Store!Present(c.id) THEN Aged(data[c.id]) ELSE None
  BY <1>1, SameValues DEF Tick, Store!Tick
<1>5. Store!Present(c.id) /\ data[c.id] \in Ticket /\ data'[c.id] = Aged(data[c.id])
  BY <1>1, <1>2, <1>4, TypeFacts DEF Typed, Store!Pending, Store!Present
<1>6. /\ data'[c.id].status = data[c.id].status
      /\ data'[c.id].runat = Sooner(data[c.id].runat) /\ data[c.id].runat \in Times
  BY <1>5 DEF Aged, Ticket
<1>7. c.lease <= data[c.id].runat
  BY <1>2, <1>3, <1>5, <1>6 DEF Leased, Store!Pending
<1> QED BY <1>1, <1>3, <1>6, <1>7, SoonerFacts

LEMMA CoveredStep ==
  ASSUME CallsFinish, LeaseInv, [Next]_vars
  PROVE  Covered'
<1> DEFINE NextLeased(c) ==
             /\ c.id \in submitted'
             /\ c.lease > 0 /\ data'[c.id] # None /\ data'[c.id].status = "pending"
                  => c.lease <= data'[c.id].runat
<1>0. /\ Typed /\ Covered
      /\ \A i \in DOMAIN poller.fetched : poller.fetched[i] \in Copy
      /\ \A i \in DOMAIN income : income[i] \in Copy
      /\ \A w \in Workers : job[w] # None => job[w] \in Copy
  BY CopiesTyped DEF LeaseInv
<1>1. \A id \in Tickets : Store!Present(id)' => id \in submitted'
  BY <1>0, SubmittedStep
<1>2. SUFFICES /\ \A i \in DOMAIN poller'.fetched : NextLeased(poller'.fetched[i])
               /\ \A i \in DOMAIN income' : NextLeased(income'[i])
               /\ \A w \in Workers : job'[w] # None => NextLeased(job'[w])
  BY <1>1 DEF Covered, Leased, Store!Pending, Store!Present
<1>3. ASSUME ~Tick, NEW c \in Copy, Leased(c), c.lease > 0 => Elsewhere(c.id) \/ Fetched(c.id)
      PROVE  NextLeased(c)
  <2>1. Leased(c)'
    BY <1>3, LeasedStep
  <2> QED BY <2>1 DEF Leased, Store!Pending, Store!Present
<1> HIDE DEF NextLeased
\* What was there stays covered.
<1>4. ASSUME ~Tick
      PROVE  /\ \A i \in DOMAIN poller.fetched : NextLeased(poller.fetched[i])
             /\ \A i \in DOMAIN income : NextLeased(income[i])
             /\ \A w \in Workers : job[w] # None => NextLeased(job[w])
  <2>1. ASSUME NEW i \in DOMAIN poller.fetched PROVE NextLeased(poller.fetched[i])
    BY <1>0, <1>3, <1>4 DEF Covered, Fetched
  <2>2. ASSUME NEW i \in DOMAIN income PROVE NextLeased(income[i])
    BY <1>0, <1>3, <1>4 DEF Covered, Elsewhere, InIncome
  <2>3. ASSUME NEW w \in Workers, job[w] # None PROVE NextLeased(job[w])
    BY <1>0, <1>3, <1>4, <2>3 DEF Covered, Elsewhere, InJob
  <2> QED BY <2>1, <2>2, <2>3
<1>5. CASE CopiesStay /\ ~Tick
  BY <1>4, <1>5 DEF CopiesStay
<1>6. CASE Poll /\ ~Tick
  <2>1. PICK copies \in Seq(Copy) :
          /\ \/ poller' = Sending(copies)
             \/ TubesOn /\ poller' = [pc |-> "filtering", fetched |-> copies, putBack |-> <<>>]
          /\ DistinctIds(copies)
          /\ \A i \in DOMAIN copies : /\ copies[i].id \in Store!Ready(tubes)
                                      /\ copies[i].lease = data'[copies[i].id].runat
    BY <1>0, <1>6, PollFacts
  <2>2. poller'.fetched = copies
    BY <2>1, SendingFacts
  <2>3. \A i \in DOMAIN copies : copies[i] \in Copy /\ copies[i].id \in submitted'
    BY <1>0, <2>1, SubmittedStep, QueueFacts, ElementOfSeq
       DEF Store!Ready, Store!Pending, Covered
  <2>4. \A i \in DOMAIN copies : NextLeased(copies[i])
    <3>1. ASSUME NEW c \in Copy, c.lease = data'[c.id].runat PROVE c.lease <= data'[c.id].runat
      BY <3>1, HorizonAssumption, MaxAgeAssumption DEF Copy, Times, Forever
    <3> QED BY <2>1, <2>3, <3>1 DEF NextLeased
  <2>5. income' = income /\ job' = job
    BY <1>6 DEF Poll, PollerMoves
  <2> QED BY <1>4, <1>6, <2>2, <2>4, <2>5
<1>7. CASE Filter /\ ~Tick
  <2>1. PICK mine \in Seq(Copy), back \in Seq(UpdateSet) :
          /\ \/ poller' = Sending(mine)
             \/ poller' = [pc |-> "giving", fetched |-> mine, putBack |-> back]
          /\ \E f \in [DOMAIN mine -> DOMAIN poller.fetched \ Foreign] :
               \A j \in DOMAIN mine : mine[j] = poller.fetched[f[j]]
    BY <1>0, <1>7, FilterFacts
  <2>2. poller'.fetched = mine
    BY <2>1, SendingFacts
  <2>3. income' = income /\ job' = job
    BY <1>7 DEF Filter, PollerMoves
  <2> QED BY <1>4, <1>7, <2>1, <2>2, <2>3
<1>8. CASE Dispatch /\ ~Tick
  <2>1. /\ DOMAIN income' = 1..(Len(income) + 1) /\ DOMAIN income = 1..Len(income)
        /\ Len(income) \in Nat
        /\ \A i \in DOMAIN income : income'[i] = income[i]
        /\ income'[Len(income) + 1] = poller.fetched[1]
        /\ job' = job
        /\ DOMAIN poller'.fetched = 1..(Len(poller.fetched) - 1)
        /\ DOMAIN poller.fetched = 1..Len(poller.fetched)
        /\ Len(poller.fetched) \in Nat /\ 1 \in DOMAIN poller.fetched
        /\ \A i \in DOMAIN poller'.fetched : poller'.fetched[i] = poller.fetched[i + 1]
    BY <1>0, <1>8, LiveAfterDispatch
  <2>2. \A i \in DOMAIN income' : i \in DOMAIN income \/ i = Len(income) + 1
    BY <2>1
  <2>3. \A i \in DOMAIN poller'.fetched : i + 1 \in DOMAIN poller.fetched
    BY <2>1
  <2> QED BY <1>4, <1>8, <2>1, <2>2, <2>3
<1>9. ASSUME NEW w \in Workers, TakeJob(w), ~Tick
      PROVE  /\ \A i \in DOMAIN poller'.fetched : NextLeased(poller'.fetched[i])
             /\ \A i \in DOMAIN income' : NextLeased(income'[i])
             /\ \A v \in Workers : job'[v] # None => NextLeased(job'[v])
  <2>1. /\ DOMAIN income' = 1..(Len(income) - 1) /\ DOMAIN income = 1..Len(income)
        /\ Len(income) \in Nat /\ 1 \in DOMAIN income
        /\ \A i \in DOMAIN income' : income'[i] = income[i + 1]
        /\ job' = [job EXCEPT ![w] = income[1]]
        /\ DOMAIN job = Workers
        /\ poller' = poller
    BY <1>0, <1>9, LiveAfterTake
  <2>2. \A i \in DOMAIN income' : i + 1 \in DOMAIN income
    BY <2>1
  <2> QED BY <1>4, <1>9, <2>1, <2>2
<1>10. CASE Tick
  <2>1. ASSUME NEW c \in Copy, Leased(c) PROVE NextLeased(AgedCopy(c))
    BY <1>0, <1>10, <2>1, LeasedTick DEF NextLeased, Store!Pending, Store!Present
  <2>2. /\ DOMAIN income' = DOMAIN income
        /\ \A i \in DOMAIN income : income'[i] = AgedCopy(income[i])
        /\ DOMAIN poller'.fetched = DOMAIN poller.fetched
        /\ \A i \in DOMAIN poller.fetched : poller'.fetched[i] = AgedCopy(poller.fetched[i])
    BY <1>0, <1>10, TickFacts
  <2>3. \A w \in Workers : job'[w] = IF job[w] = None THEN None ELSE AgedCopy(job[w])
    BY <1>10 DEF Tick
  <2> QED BY <1>0, <2>1, <2>2, <2>3 DEF Covered
<1> QED BY <1>0, <1>5, <1>6, <1>7, <1>8, <1>9, <1>10, CopiesStep

\* Only a poll brings a copy of a ticket of which there was none.
LEMMA NoNewCopies ==
  ASSUME Typed, [Next]_vars, ~Poll, NEW id, Elsewhere(id)' \/ Fetched(id)'
  PROVE  Elsewhere(id) \/ Fetched(id)
<1>1. CASE CopiesStay
  BY <1>1 DEF CopiesStay, Elsewhere, Fetched, InIncome, InJob
<1>2. CASE Filter
  <2>1. PICK mine \in Seq(Copy), back \in Seq(UpdateSet) :
          /\ \/ poller' = Sending(mine)
             \/ poller' = [pc |-> "giving", fetched |-> mine, putBack |-> back]
          /\ \E f \in [DOMAIN mine -> DOMAIN poller.fetched \ Foreign] :
               \A j \in DOMAIN mine : mine[j] = poller.fetched[f[j]]
    BY <1>2, FilterFacts
  <2>2. poller'.fetched = mine
    BY <2>1, SendingFacts
  <2>0. income' = income /\ job' = job
    BY <1>2 DEF Filter, PollerMoves
  <2>3. \A j \in DOMAIN mine : \E i \in DOMAIN poller.fetched : mine[j] = poller.fetched[i]
    BY <2>1
  <2>4. Fetched(id)' => Fetched(id)
    BY <2>2, <2>3 DEF Fetched
  <2>5. Elsewhere(id)' => Elsewhere(id)
    BY <2>0 DEF Elsewhere, InIncome, InJob
  <2> QED BY <2>4, <2>5
<1>3. CASE Dispatch
  <2>1. /\ DOMAIN income' = 1..(Len(income) + 1) /\ DOMAIN income = 1..Len(income)
        /\ Len(income) \in Nat
        /\ \A i \in DOMAIN income : income'[i] = income[i]
        /\ income'[Len(income) + 1] = poller.fetched[1]
        /\ job' = job
        /\ DOMAIN poller'.fetched = 1..(Len(poller.fetched) - 1)
        /\ DOMAIN poller.fetched = 1..Len(poller.fetched)
        /\ Len(poller.fetched) \in Nat /\ 1 \in DOMAIN poller.fetched
        /\ \A i \in DOMAIN poller'.fetched : poller'.fetched[i] = poller.fetched[i + 1]
    BY <1>3, LiveAfterDispatch
  <2>2. \A i \in DOMAIN income' : i \in DOMAIN income \/ i = Len(income) + 1
    BY <2>1
  <2>3. \A i \in DOMAIN poller'.fetched : i + 1 \in DOMAIN poller.fetched
    BY <2>1
  <2>4. Fetched(id)' => Fetched(id)
    BY <2>1, <2>3 DEF Fetched
  <2>5. Elsewhere(id)' => Elsewhere(id) \/ Fetched(id)
    BY <2>1, <2>2 DEF Elsewhere, Fetched, InIncome, InJob
  <2> QED BY <2>4, <2>5
<1>4. ASSUME NEW w \in Workers, TakeJob(w) PROVE Elsewhere(id) \/ Fetched(id)
  <2>1. /\ DOMAIN income' = 1..(Len(income) - 1) /\ DOMAIN income = 1..Len(income)
        /\ Len(income) \in Nat /\ 1 \in DOMAIN income
        /\ \A i \in DOMAIN income' : income'[i] = income[i + 1]
        /\ job' = [job EXCEPT ![w] = income[1]]
        /\ DOMAIN job = Workers
        /\ poller' = poller
    BY <1>4, LiveAfterTake
  <2>2. \A i \in DOMAIN income' : i + 1 \in DOMAIN income
    BY <2>1
  <2>3. Fetched(id)' => Fetched(id)
    BY <2>1 DEF Fetched
  <2>4. Elsewhere(id)' => Elsewhere(id)
    BY <2>1, <2>2 DEF Elsewhere, InIncome, InJob
  <2> QED BY <2>3, <2>4
<1>5. CASE Tick
  BY <1>5, LiveAfterTick DEF Elsewhere, Fetched, InIncome, InJob
<1> QED BY <1>1, <1>2, <1>3, <1>4, <1>5, CopiesStep

\* Who is in the store for the poller, and what it has still to give back.
LEMMA PutBackStep ==
  ASSUME Typed, IInv, [Next]_vars, ~Filter, ~Tick
  PROVE  /\ poller'.putBack \in {poller.putBack, <<>>}
         /\ mu' = Poller => \/ mu = Poller /\ batch' \in {batch, Tail(batch)} /\ batch # <<>>
                            \/ mu = Poller /\ batch' = batch
                            \/ batch' = poller.putBack
<1> DEFINE Same == mu' = mu /\ batch' = batch
<1>0. poller \in PollerType /\ poller.fetched \in Seq(Copy)
  BY DEF Typed, TypeOK, PollerType
<1>1. CASE Client
  <2>1. poller' = poller
    BY <1>1 DEF Client, ClientPut, ClientPutAfterGroup, ClientCall, ClientDelete, Subscribe,
                Unsubscribe, engineVars
  <2>2. ASSUME NEW id \in Tickets, NEW call \in ClientCalls, ClientCall(id, call) PROVE Same
    <3>1. call \in Calls
      BY DEF Calls
    <3> QED BY <2>2, <3>1, CallData DEF ClientCall, Typed
  <2>3. CASE ~ \E id \in Tickets, call \in ClientCalls : ClientCall(id, call)
    BY <1>1, <2>1, <2>3 DEF Client, ClientPut, ClientPutAfterGroup, ClientDelete, Subscribe, Unsubscribe,
                      NoStoreCall, Store!Put, Store!PutAfterGroup, Store!Delete, Store!Unlocked
  <2> QED BY <2>1, <2>2, <2>3
<1>2. CASE Run \/ CancelRun \/ RunReturns \/ UNCHANGED vars \/ Expire
  BY <1>2 DEF Run, CancelRun, RunReturns, vars, engineVars, NoWork, NoStoreCall, Expire,
              Store!ExpireTickets, Store!Unlocked
<1>3. CASE PollerNext
  <2>1. CASE PollerWakes \/ Abandon
    <3>1. poller'.putBack = <<>>
      BY <2>1 DEF PollerWakes, Abandon, NoWork
    <3> QED BY <2>1, <3>1 DEF PollerWakes, Abandon, NoStoreCall
  <2>2. CASE Poll
    <3>1. \E copies \in Seq(Copy) :
            \/ poller' = Sending(copies)
            \/ poller' = [pc |-> "filtering", fetched |-> copies, putBack |-> <<>>]
      BY <2>2, PollFacts
    <3>2. poller'.putBack = <<>>
      BY <3>1, SendingFacts
    <3> QED BY <2>2, <3>2 DEF Poll, Store!PollPending, Store!Unlocked
  <2>3. CASE PutBack
    <3>1. poller'.putBack = <<>>
      BY <1>0, <2>3 DEF PutBack, PollerType
    <3> QED BY <2>3, <3>1 DEF PutBack, Store!UpdateBatch
  <2>4. CASE Dispatch
    <3>1. poller'.putBack = <<>>
      BY <2>4, DispatchFacts, QueueFacts, SendingFacts
    <3> QED BY <2>4, <3>1 DEF Dispatch, NoStoreCall
  <2> QED BY <1>3, <2>1, <2>2, <2>3, <2>4 DEF PollerNext
<1>4. ASSUME NEW w \in Workers, WorkerNext(w) PROVE Same /\ poller' = poller
  <2>1. CASE \E call \in HandlerCalls : HandlerCall(w, call)
    <3>1. PICK call \in HandlerCalls : HandlerCall(w, call)
      BY <2>1
    <3>2. call \in Calls /\ job[w].id \in Tickets
      BY <3>1 DEF HandlerCall, Calls, Typed, Busy, Copy
    <3> QED BY <3>1, <3>2, CallData DEF HandlerCall, WorkerMoves, Typed
  <2>2. CASE ~ \E call \in HandlerCalls : HandlerCall(w, call)
    BY <1>4, <2>2 DEF WorkerNext, HandlerAnswers, HandlerReturn, TakeJob, WorkerExits,
                      NoStoreCall, WorkerMoves
  <2> QED BY <2>1, <2>2
<1>5. CASE PusherNext
  BY <1>5 DEF PusherNext, PusherReceives, PusherTicks, PusherStops, PusherExits, PusherMoves,
              NoStoreCall
<1>6. ASSUME NEW f \in AllFlushers, FlushNext(f)
      PROVE  poller' = poller /\ (Same \/ mu' # Poller)
  <2>1. f # Poller
    BY CallerAssumption DEF AllFlushers
  <2> QED BY <1>6, <2>1 DEF FlushNext, FlushDeletes, FlushUpdates, PusherMoves,
                            Store!DeleteBatch, Store!UpdateBatch, Store!Unlocked
<1>7. CASE StoreUpdates
  <2>1. poller'.putBack \in {poller.putBack, <<>>}
    BY <1>0, <1>7, SendingFacts DEF StoreUpdates
  <2>2. ASSUME mu' = Poller PROVE mu = Poller /\ batch' = Tail(batch) /\ batch # <<>>
    BY <1>7, <2>2, CallerAssumption DEF StoreUpdates, Store!UpdateFound, Store!UpdateMissing
  <2> QED BY <2>1, <2>2
<1> QED BY <1>1, <1>2, <1>3, <1>4, <1>5, <1>6, <1>7 DEF Next

LEMMA GivenBackStep ==
  ASSUME LeaseInv, [Next]_vars
  PROVE  GivenBack'
<1> DEFINE Gone == {id \in Tickets : ~Elsewhere(id)' /\ ~Fetched(id)'}
           Back(us) == us.status = None /\ us.id \in Gone
<1>0. /\ Typed /\ IInv /\ Alone /\ GivenBack
      /\ poller.fetched \in Seq(Copy) /\ poller.putBack \in Seq(UpdateSet)
      /\ batch \in Seq(UpdateSet)
  BY TypeFacts DEF LeaseInv, Typed, TypeOK
<1>1. ASSUME ~Poll, NEW us \in UpdateSet, Returned(us) PROVE Back(us)
  BY <1>0, <1>1, NoNewCopies DEF Returned, UpdateSet
<1>2. SUFFICES /\ \A i \in DOMAIN poller'.putBack : Back(poller'.putBack[i])
               /\ mu' = Poller => \A i \in DOMAIN batch' : Back(batch'[i])
  BY DEF GivenBack, Returned, Elsewhere, Fetched, InIncome, InJob
<1> HIDE DEF Gone
<1>3. CASE Poll
  <2>1. mu' = None
    BY <1>3 DEF Poll, Store!PollPending, Store!Unlocked
  <2>2. \E copies \in Seq(Copy) :
          \/ poller' = Sending(copies)
          \/ poller' = [pc |-> "filtering", fetched |-> copies, putBack |-> <<>>]
    BY <1>0, <1>3, PollFacts
  <2> QED BY <2>1, <2>2, SendingFacts, CallerAssumption
<1>4. CASE Filter
  <2>1. PICK mine \in Seq(Copy), back \in Seq(UpdateSet) :
          /\ \/ poller' = Sending(mine)
             \/ poller' = [pc |-> "giving", fetched |-> mine, putBack |-> back]
          /\ \E f \in [DOMAIN mine -> DOMAIN poller.fetched \ Foreign] :
               \A j \in DOMAIN mine : mine[j] = poller.fetched[f[j]]
          /\ \E g \in [DOMAIN back -> Foreign] :
               \A j \in DOMAIN back : back[j] = GiveBack(poller.fetched[g[j]])
    BY <1>0, <1>4, FilterFacts
  <2>2. poller'.fetched = mine /\ poller'.putBack \in {back, <<>>}
    BY <2>1, SendingFacts
  <2>3. income' = income /\ job' = job /\ mu' # Poller
    BY <1>0, <1>4, CallerAssumption DEF Filter, PollerMoves, NoStoreCall, IInv, Held, AllFlushers
  <2>4. ASSUME NEW i \in Foreign PROVE Back(GiveBack(poller.fetched[i]))
    <3> DEFINE us == GiveBack(poller.fetched[i])
    <3>1. i \in DOMAIN poller.fetched /\ us.id = poller.fetched[i].id /\ us.status = None
      BY <1>0, CopiesTyped, GiveBackType DEF Foreign
    <3>2. ~Elsewhere(poller.fetched[i].id)
      BY <1>0, <3>1 DEF Alone
    <3>3. \A j \in DOMAIN mine : mine[j].id # poller.fetched[i].id
      BY <1>0, <2>1, <3>1 DEF Alone, DistinctIds
    <3> HIDE DEF us
    <3>4. ASSUME NEW id \in Tickets, ~Elsewhere(id), \A j \in DOMAIN mine : mine[j].id # id
          PROVE  id \in Gone
      <4>1. ~Elsewhere(id)'
        BY <2>3, <3>4 DEF Elsewhere, InIncome, InJob
      <4>2. ~Fetched(id)'
        BY <2>2, <3>4 DEF Fetched
      <4> QED BY <4>1, <4>2 DEF Gone
    <3>5. us.id \in Gone
      BY <1>0, <3>1, <3>2, <3>3, <3>4, CopiesTyped DEF Copy
    <3> QED BY <3>1, <3>5 DEF us
  <2>5. \A j \in DOMAIN back : Back(back[j])
    BY <2>1, <2>4
  <2> QED BY <2>2, <2>3, <2>5
<1>5. CASE Tick
  <2>1. mu' = None
    BY <1>5 DEF Tick, Store!Tick, Store!Unlocked
  <2>2. /\ DOMAIN poller'.putBack = DOMAIN poller.putBack
        /\ \A i \in DOMAIN poller.putBack : poller'.putBack[i] = AgedUpdate(poller.putBack[i])
    BY <1>0, <1>5, TickFacts
  <2>3. ~Poll
    <3>1. poller'.pc = poller.pc
      BY <1>0, <1>5, TickFacts
    <3>2. Poll => poller'.pc \in {"idle", "sending", "filtering"}
      BY <1>0, PollFacts, SendingFacts
    <3> QED BY <3>1, <3>2 DEF Poll
  <2>4. ASSUME NEW i \in DOMAIN poller.putBack PROVE Back(AgedUpdate(poller.putBack[i]))
    <3>1. poller.putBack[i] \in UpdateSet /\ Back(poller.putBack[i])
      BY <1>0, <1>1, <2>3, QueueFacts, ElementOfSeq DEF GivenBack
    <3> QED BY <3>1, AgedUpdateType
  <2> QED BY <2>1, <2>2, <2>4, CallerAssumption
<1>6. CASE ~Poll /\ ~Filter /\ ~Tick
  <2>1. \A i \in DOMAIN poller.putBack : Back(poller.putBack[i])
    BY <1>0, <1>1, <1>6, QueueFacts, ElementOfSeq DEF GivenBack
  <2>2. mu = Poller => \A i \in DOMAIN batch : Back(batch[i])
    BY <1>0, <1>1, <1>6, QueueFacts, ElementOfSeq DEF GivenBack
  <2>3. ASSUME batch # <<>>, mu = Poller PROVE \A i \in DOMAIN Tail(batch) : Back(Tail(batch)[i])
    <3>1. /\ DOMAIN batch = 1..Len(batch) /\ Len(batch) \in Nat
          /\ DOMAIN Tail(batch) = 1..(Len(batch) - 1)
          /\ \A i \in DOMAIN Tail(batch) : Tail(batch)[i] = batch[i + 1]
      BY <1>0, <2>3, QueueElements, QueueFacts
    <3>2. \A i \in DOMAIN Tail(batch) : i + 1 \in DOMAIN batch
      BY <3>1
    <3> QED BY <2>2, <2>3, <3>1, <3>2
  <2>4. /\ poller'.putBack \in {poller.putBack, <<>>}
        /\ mu' = Poller => \/ mu = Poller /\ batch' \in {batch, Tail(batch)} /\ batch # <<>>
                           \/ mu = Poller /\ batch' = batch
                           \/ batch' = poller.putBack
    BY <1>0, <1>6, PutBackStep
  <2> HIDE DEF Back
  <2>5. \A i \in DOMAIN poller'.putBack : Back(poller'.putBack[i])
    BY <2>1, <2>4
  <2>6. mu' = Poller => \A i \in DOMAIN batch' : Back(batch'[i])
    BY <2>1, <2>2, <2>3, <2>4
  <2> QED BY <2>5, <2>6
<1> QED BY <1>3, <1>4, <1>5, <1>6

LEMMA LeaseStep ==
  ASSUME CallsFinish, LeaseInv, [Next]_vars
  PROVE  LeaseInv'
<1>1. Typed' /\ IInv' /\ Messages(Finishing)'
  BY TypedStep, QuietStep, MessagesStep, FinishingAnswers DEF LeaseInv
<1> QED BY <1>1, AloneStep, CoveredStep, GivenBackStep DEF LeaseInv

LEMMA LeaseImplied ==
  ASSUME LeaseInv
  PROVE  LeaseExclusion
<1>0. Typed /\ Alone
  BY DEF LeaseInv
<1> SUFFICES ASSUME NEW id \in Tickets PROVE Cardinality(LiveCopies(id)) <= 1
  BY DEF LeaseExclusion
<1>1. ASSUME NEW p \in LiveCopies(id), NEW q \in LiveCopies(id) PROVE p = q
  <2> DEFINE InPoller(i) == /\ i \in DOMAIN poller.fetched
                            /\ poller.fetched[i].id = id /\ poller.fetched[i].lease > 0
  <2>1. \A r \in LiveCopies(id) : \/ \E i : r = <<"poller", i>> /\ InPoller(i)
                                  \/ \E i : r = <<"income", i>> /\ InIncome(id, i)
                                  \/ \E w : r = <<"worker", w>> /\ InJob(id, w)
    BY DEF LiveCopies, InIncome, InJob
  <2>2. \A i, j : InPoller(i) /\ InPoller(j) => i = j
    BY <1>0 DEF Alone, DistinctIds
  <2>3. \A i : InPoller(i) => ~Elsewhere(id)
    BY <1>0 DEF Alone
  <2>4. \A i : InPoller(i) => /\ \A j : ~InIncome(id, j)
                             /\ \A w : ~InJob(id, w)
    BY <2>3 DEF Elsewhere, InIncome, InJob
  <2>5. /\ \A i, j : InIncome(id, i) /\ InIncome(id, j) => i = j
        /\ \A v, w : InJob(id, v) /\ InJob(id, w) => v = w
        /\ \A i, w : ~(InIncome(id, i) /\ InJob(id, w))
    BY <1>0 DEF Alone, InIncome, InJob
  <2> HIDE DEF InPoller
  <2> QED BY <2>1, <2>2, <2>4, <2>5
<1>2. CASE LiveCopies(id) = {}
  BY <1>2, FS_EmptySet
<1>3. CASE LiveCopies(id) # {}
  <2>1. PICK p : p \in LiveCopies(id)
    BY <1>3
  <2>2. LiveCopies(id) = {p}
    BY <1>1, <2>1
  <2>3. Cardinality({p}) = 1
    BY FS_Singleton
  <2> QED BY <2>2, <2>3
<1> QED BY <1>2, <1>3

\* While the lease of a copy lasts, no other copy of its ticket is under way to
\* a handler, through channels, put-backs, late answers, flushes in any order
\* and Runs that are stopped and started again (PollPending and Push): as long
\* as calls finish their ticket and do not reschedule it.
THEOREM LeaseExclusionCorrect ==
  ASSUME CallsFinish
  PROVE  Spec => []LeaseExclusion
<1>1. LeaseInv /\ [Next]_vars => LeaseInv'
  BY LeaseStep
<1>2. LeaseInv => LeaseExclusion
  BY LeaseImplied
<1> QED BY <1>1, <1>2, LeaseInit, PTL DEF Spec
=============================================================================
