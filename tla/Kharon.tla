------------------------------- MODULE Kharon -------------------------------
(***************************************************************************)
(* The engine (kharon.go) on the in-memory store: Run starts a poller, the *)
(* workers, a pusher and an expiration worker.                             *)
(*                                                                         *)
(*   PollPending -> poller -> income -> workers -> outcome -> pusher       *)
(*                -> flushers -> DeleteBatch, UpdateBatch                  *)
(*                                                                         *)
(* A poll leases a ticket to the engine: its run time moves into the       *)
(* future, and unless an answer reaches the store before, it is polled     *)
(* again. Each copy of a ticket that travels through the engine carries    *)
(* what remains of its lease, which the code does not: the properties are  *)
(* about it.                                                               *)
(***************************************************************************)
EXTENDS Tickets, Sequences

CONSTANTS
  Workers,       \* worker goroutines; income holds as many tickets
  Flushers,      \* bound: flushes in flight (unbounded goroutines in the code)
  Poller,        \* the poller, as a caller of the store
  Pusher,        \* the pusher, flushing on its own when it stops
  BatchCap,      \* capacity of the pusher's batch (2 * workers)
  OutcomeCap,    \* capacity of outcome (10 * workers)
  TubesOn,       \* whether tubes are enabled
  InitialTubes,  \* the tubes subscribed to at first
  Submissions,   \* the tickets that clients put, once per id
  HandlerCalls,  \* what handlers may call on their ticket
  ClientCalls,   \* what others may call on any submitted ticket
  PollDelays, Limit, ExpireLimit,
  MayStop,       \* whether Run is ever cancelled
  MayDelete      \* whether clients delete tickets

ASSUME CapacityAssumption == {BatchCap, OutcomeCap} \subseteq Nat \ {0}
ASSUME SwitchAssumption == {TubesOn, MayStop, MayDelete} \subseteq BOOLEAN
ASSUME TubesAssumption == InitialTubes \subseteq Tubes
ASSUME FiniteAssumption == IsFiniteSet(Workers) /\ IsFiniteSet(Tickets)
ASSUME TicketAssumption == Submissions \subseteq Ticket
ASSUME PollAssumption == /\ PollDelays \in Backoffs
                         /\ Limit \in Nat \ {0} /\ ExpireLimit \in Nat
ASSUME CallerAssumption == /\ Poller # Pusher
                           /\ {Poller, Pusher} \intersect Flushers = {}
                           /\ None \notin Flushers \union {Poller, Pusher}

VARIABLES
  data, deps, mu, batch, polled,  \* the store, see MemoryStore
  submitted,  \* the ids that clients have put
  tubes,      \* the tubes subscribed to
  running,    \* whether Run has been called and has not returned
  cancelled,  \* whether the context of this Run is cancelled
  poller,     \* where the poller is, the copies it dispatches and those it gives back
  income,     \* the channel to the workers
  worker,     \* whether each worker is off, idle or busy
  job,        \* the copy each busy worker processes
  outcome,    \* the channel to the pusher
  pusher,     \* whether the pusher is off, on or waiting for its flushes
  unflushed,  \* the pusher's batch
  flush       \* what each flush has still to do

engineVars == <<submitted, tubes, running, cancelled, poller, income, worker,
                job, outcome, pusher, unflushed, flush>>
vars == <<data, deps, mu, batch, polled, engineVars>>

AllFlushers == Flushers \union {Pusher}

Store == INSTANCE MemoryStore
           WITH Callers <- AllFlushers \union {Poller}, Batches <- {}, FnUpdates <- {}

\* A step that does not call the store; the reply to a poll is gone by then.
NoStoreCall == /\ UNCHANGED <<data, deps, mu, batch>>
               /\ polled' = Store!NobodyPolled

-----------------------------------------------------------------------------
\* Values.

Copy == [id: Tickets, tube: Tubes, runat: Times, lease: Times]
Message == [id: Tickets, upd: UpdateSet \union {None}]

\* The elements of s at the indices I, in their order: what is left of s by a
\* loop that appends some of its elements to a new slice.
Increasing(I) ==
  {f \in [1..Cardinality(I) -> I] : \A i, j \in DOMAIN f : i < j => f[i] < f[j]}
Picked(s, I) ==
  LET f == CHOOSE f \in Increasing(I) : TRUE IN [j \in DOMAIN f |-> s[f[j]]]

NoWork == [pc |-> "idle", fetched |-> <<>>, putBack |-> <<>>]
NoFlush == [phase |-> "done", dels |-> {}, upds |-> <<>>]

Ops == {"ack", "done", "cancel", "fail", "restart", "retry"}
\* A call with its options; None and FALSE stand for those that are not given.
Call == [op: Ops, delay: DelayStrategy \union {None}, keep: BOOLEAN,
         nice: Nices \union {None}, resetAttempts: BOOLEAN,
         tube: Tubes \union {None}, group: Groups \union {None},
         update: {None} \union UpdateFuncs]
\* A handler that returns an error, panics, or just returns.
NoCall == None

ASSUME CallAssumption == /\ HandlerCalls \subseteq Call \union {NoCall}
                         /\ ClientCalls \subseteq Call

TypeOK ==
  /\ Store!TypeOK
  /\ submitted \subseteq Tickets
  /\ tubes \subseteq Tubes
  /\ {running, cancelled} \subseteq BOOLEAN
  /\ poller \in [pc: {"off", "idle", "polling", "filtering", "giving", "given", "sending"},
                 fetched: Seq(Copy), putBack: Seq(UpdateSet)]
  /\ income \in Seq(Copy) /\ Len(income) <= Cardinality(Workers)
  /\ worker \in [Workers -> {"off", "idle", "busy"}]
  /\ job \in [Workers -> Copy \union {None}]
  /\ outcome \in Seq(Message) /\ Len(outcome) <= OutcomeCap
  /\ pusher \in {"off", "on", "waiting"}
  /\ unflushed \in Seq(Message) /\ Len(unflushed) < BatchCap
  /\ flush \in [AllFlushers -> [phase: {"done", "delete", "update", "updating"},
                                dels: SUBSET Tickets, upds: Seq(UpdateSet)]]

Init == /\ Store!Init
        /\ submitted = {}
        /\ tubes = InitialTubes
        /\ running = FALSE
        /\ cancelled = FALSE
        /\ poller = [NoWork EXCEPT !.pc = "off"]
        /\ income = <<>>
        /\ worker = [w \in Workers |-> "off"]
        /\ job = [w \in Workers |-> None]
        /\ outcome = <<>>
        /\ pusher = "off"
        /\ unflushed = <<>>
        /\ flush = [f \in AllFlushers |-> NoFlush]

-----------------------------------------------------------------------------
\* Clients.

\* Put of a new ticket, with the options already applied to it.
ClientPut(id, t) ==
  /\ id \notin submitted
  /\ Store!Put(id, t)
  /\ submitted' = submitted \union {id}
  /\ UNCHANGED <<tubes, running, cancelled, poller, income, worker, job,
                 outcome, pusher, unflushed, flush>>

\* Put of a finalizer.
ClientPutAfterGroup(id, t, g) ==
  /\ id \notin submitted
  /\ t.group # g
  /\ Store!PutAfterGroup(id, t, g)
  /\ submitted' = submitted \union {id}
  /\ UNCHANGED <<tubes, running, cancelled, poller, income, worker, job,
                 outcome, pusher, unflushed, flush>>

\* The options each call starts from.
DefaultOpts(op) ==
  CASE op = "ack"     -> [NoOpts EXCEPT !.status = "done", !.delay = FixedDelay(Forever)]
    [] op = "done"    -> [NoOpts EXCEPT !.keep = TRUE, !.status = "done",
                                        !.delay = FixedDelay(Forever)]
    [] op = "cancel"  -> [NoOpts EXCEPT !.status = "cancelled", !.delay = FixedDelay(Forever)]
    [] op = "fail"    -> [NoOpts EXCEPT !.keep = TRUE, !.status = "failed",
                                        !.delay = FixedDelay(Forever)]
    [] op = "restart" -> [NoOpts EXCEPT !.keep = TRUE, !.status = "pending",
                                        !.delay = FixedDelay(0), !.resetAttempts = TRUE]
    [] op = "retry"   -> [NoOpts EXCEPT !.keep = TRUE]

\* Those the call is made with come on top.
CallOpts(call) ==
  [DefaultOpts(call.op) EXCEPT
     !.delay = Coalesce(call.delay, @), !.keep = @ \/ call.keep, !.nice = call.nice,
     !.resetAttempts = @ \/ call.resetAttempts,
     !.tube = call.tube, !.group = call.group, !.update = call.update]

\* A call that is queued: save without WithUpdate, or delete.
Queued(call) == ~(CallOpts(call).keep /\ call.update # None)

Answer(id, call) ==
  [id |-> id,
   upd |-> IF CallOpts(call).keep THEN SaveSet(id, CallOpts(call)) ELSE None]

Send(id, call) ==
  /\ Queued(call)
  /\ Len(outcome) < OutcomeCap
  /\ outcome' = Append(outcome, Answer(id, call))
  /\ NoStoreCall

\* What a call WithUpdate makes of a ticket, or an error.
Saved(t, call) == BeforeUpdate(t, CallOpts(call))

\* A call WithUpdate goes to the store at once; a missing ticket is an error,
\* and so is whatever the function returns as one.
UpdateNow(id, call) ==
  /\ ~Queued(call)
  /\ IF Store!Present(id) /\ Saved(data[id], call) # None
     THEN Store!Update(id, [t \in {data[id]} |-> Saved(t, call)])
     ELSE mu = None /\ NoStoreCall
  /\ UNCHANGED outcome

ClientCall(id, call) ==
  /\ id \in submitted
  /\ Send(id, call) \/ UpdateNow(id, call)
  /\ UNCHANGED <<submitted, tubes, running, cancelled, poller, income, worker,
                 job, pusher, unflushed, flush>>

ClientDelete(id) ==
  /\ MayDelete
  /\ id \in submitted
  /\ Store!Delete(id)
  /\ UNCHANGED engineVars

Subscribe(ts) ==
  /\ TubesOn
  /\ tubes' = tubes \union ts
  /\ NoStoreCall
  /\ UNCHANGED <<submitted, running, cancelled, poller, income, worker, job,
                 outcome, pusher, unflushed, flush>>

Unsubscribe(ts) ==
  /\ TubesOn
  /\ tubes' = tubes \ ts
  /\ NoStoreCall
  /\ UNCHANGED <<submitted, running, cancelled, poller, income, worker, job,
                 outcome, pusher, unflushed, flush>>

-----------------------------------------------------------------------------
\* Run and Stop. What is left in income and outcome outlives a Run.

Run ==
  /\ ~running
  /\ running' = TRUE
  /\ cancelled' = FALSE
  /\ poller' = NoWork
  /\ worker' = [w \in Workers |-> "idle"]
  /\ pusher' = "on"
  /\ NoStoreCall
  /\ UNCHANGED <<submitted, tubes, income, job, outcome, unflushed, flush>>

\* Stop, or the caller's context.
CancelRun ==
  /\ MayStop
  /\ running
  /\ cancelled' = TRUE
  /\ NoStoreCall
  /\ UNCHANGED <<submitted, tubes, running, poller, income, worker, job,
                 outcome, pusher, unflushed, flush>>

RunReturns ==
  /\ running
  /\ poller.pc = "off" /\ pusher = "off" /\ \A w \in Workers : worker[w] = "off"
  /\ running' = FALSE
  /\ NoStoreCall
  /\ UNCHANGED <<submitted, tubes, cancelled, poller, income, worker, job,
                 outcome, pusher, unflushed, flush>>

-----------------------------------------------------------------------------
\* The poller.

PollerMoves == UNCHANGED <<submitted, tubes, running, cancelled, worker, job,
                           outcome, pusher, unflushed, flush>>

\* The top of the loop: stop, or decide to poll.
PollerWakes ==
  /\ poller.pc = "idle"
  /\ poller' = [NoWork EXCEPT !.pc = IF cancelled THEN "off" ELSE "polling"]
  /\ NoStoreCall
  /\ UNCHANGED income
  /\ PollerMoves

Sending(copies) ==
  IF copies = <<>> THEN NoWork ELSE [NoWork EXCEPT !.pc = "sending", !.fetched = copies]

\* The orders in which a poll may return ids.
Arrangements(ids) ==
  {s \in [1..Cardinality(ids) -> ids] :
     \A i, j \in DOMAIN s : i < j => s[i] # s[j] /\ ~Before(polled'[s[j]], polled'[s[i]])}

\* In a copy, runat is both Runat and ReadyAt: the in-memory store returns the
\* run time it read, not the one it wrote. The lease is the one it wrote.
CopyOf(id) == [id |-> id, tube |-> polled'[id].tube,
               runat |-> polled'[id].runat, lease |-> data'[id].runat]

\* The subscriptions are read just before; a change of them commutes with the
\* poll, so reading them is part of it.
Poll ==
  /\ poller.pc = "polling"
  /\ Store!PollPending(tubes)
  /\ \E order \in Arrangements({id \in Tickets : polled'[id] # None}) :
       LET copies == [i \in DOMAIN order |-> CopyOf(order[i])]
       IN  poller' = IF TubesOn /\ copies # <<>>
                     THEN [NoWork EXCEPT !.pc = "filtering", !.fetched = copies]
                     ELSE Sending(copies)
  /\ UNCHANGED income
  /\ PollerMoves

GiveBack(copy) ==
  [id |-> copy.id, status |-> None, tube |-> None, group |-> None,
   nice |-> None, runat |-> copy.runat, backoff |-> None]

\* The tickets fetched whose tube is not subscribed to any more.
Foreign == {i \in DOMAIN poller.fetched : poller.fetched[i].tube \notin tubes}

\* Mutant: the tickets given back are dispatched all the same.
FilterKeepsAll ==
  /\ poller.pc = "filtering"
  /\ LET others == Picked(poller.fetched, Foreign)
     IN  poller' = IF Foreign = {} THEN Sending(poller.fetched)
                   ELSE [pc |-> "giving", fetched |-> poller.fetched,
                         putBack |-> [i \in DOMAIN others |-> GiveBack(others[i])]]
  /\ NoStoreCall
  /\ UNCHANGED income
  /\ PollerMoves

\* Tickets of tubes that are no longer subscribed to are not dispatched.
Filter ==
  /\ poller.pc = "filtering"
  /\ LET mine   == Picked(poller.fetched, (DOMAIN poller.fetched) \ Foreign)
         others == Picked(poller.fetched, Foreign)
     IN  poller' = IF Foreign = {} THEN Sending(mine)
                   ELSE [pc |-> "giving", fetched |-> mine,
                         putBack |-> [i \in DOMAIN others |-> GiveBack(others[i])]]
  /\ NoStoreCall
  /\ UNCHANGED income
  /\ PollerMoves

PutBack ==
  /\ poller.pc = "giving"
  /\ Store!UpdateBatch(Poller, poller.putBack)
  /\ poller' = [poller EXCEPT !.pc = "given", !.putBack = <<>>]
  /\ UNCHANGED income
  /\ PollerMoves

Dispatch ==
  /\ poller.pc = "sending"
  /\ Len(income) < Cardinality(Workers)
  /\ income' = Append(income, Head(poller.fetched))
  /\ poller' = Sending(Tail(poller.fetched))
  /\ NoStoreCall
  /\ PollerMoves

\* Cancelled while it dispatches, the poller drops what it still holds.
Abandon ==
  /\ poller.pc = "sending"
  /\ cancelled
  /\ poller' = [NoWork EXCEPT !.pc = "off"]
  /\ NoStoreCall
  /\ UNCHANGED income
  /\ PollerMoves

-----------------------------------------------------------------------------
\* The workers.

WorkerMoves == UNCHANGED <<submitted, tubes, running, cancelled, poller,
                           pusher, unflushed, flush>>

TakeJob(w) ==
  /\ worker[w] = "idle"
  /\ income # <<>>
  /\ income' = Tail(income)
  /\ worker' = [worker EXCEPT ![w] = "busy"]
  /\ job' = [job EXCEPT ![w] = Head(income)]
  /\ NoStoreCall
  /\ UNCHANGED outcome
  /\ WorkerMoves

\* The handler makes its call and returns.
HandlerCall(w, call) ==
  /\ worker[w] = "busy"
  /\ call # NoCall
  /\ Send(job[w].id, call) \/ UpdateNow(job[w].id, call)
  /\ worker' = [worker EXCEPT ![w] = "idle"]
  /\ job' = [job EXCEPT ![w] = None]
  /\ UNCHANGED income
  /\ WorkerMoves

\* Mutant: the panic of a handler takes its worker down.
HandlerKillsWorker(w) ==
  /\ worker[w] = "busy"
  /\ NoCall \in HandlerCalls
  /\ worker' = [worker EXCEPT ![w] = "off"]
  /\ job' = [job EXCEPT ![w] = None]
  /\ NoStoreCall
  /\ UNCHANGED <<income, outcome>>
  /\ WorkerMoves

\* The handler returns, fails or panics without having called anything.
HandlerReturn(w) ==
  /\ worker[w] = "busy"
  /\ NoCall \in HandlerCalls
  /\ worker' = [worker EXCEPT ![w] = "idle"]
  /\ job' = [job EXCEPT ![w] = None]
  /\ NoStoreCall
  /\ UNCHANGED <<income, outcome>>
  /\ WorkerMoves

WorkerExits(w) ==
  /\ worker[w] = "idle"
  /\ cancelled
  /\ worker' = [worker EXCEPT ![w] = "off"]
  /\ NoStoreCall
  /\ UNCHANGED <<income, job, outcome>>
  /\ WorkerMoves

-----------------------------------------------------------------------------
\* The pusher and its flushes.

PusherMoves == UNCHANGED <<submitted, tubes, running, cancelled, poller, income,
                           worker, job>>

Deletes(msgs) == {msgs[i].id : i \in {i \in DOMAIN msgs : msgs[i].upd = None}}
Updates(msgs) ==
  LET saves == Picked(msgs, {i \in DOMAIN msgs : msgs[i].upd # None})
  IN  [i \in DOMAIN saves |-> saves[i].upd]

\* A flush of msgs by f: the deletions first, then the updates.
StartFlush(f, msgs) ==
  /\ flush[f].phase = "done"
  /\ flush' = [flush EXCEPT ![f] = [phase |-> IF Deletes(msgs) = {} THEN "update" ELSE "delete",
                                    dels |-> Deletes(msgs), upds |-> Updates(msgs)]]

\* Mutant: the batch is flushed once it is over its capacity.
PusherReceivesMore ==
  /\ pusher = "on"
  /\ outcome # <<>>
  /\ outcome' = Tail(outcome)
  /\ LET msgs == Append(unflushed, Head(outcome))
     IN  IF Len(msgs) > BatchCap
         THEN unflushed' = <<>> /\ \E f \in Flushers : StartFlush(f, msgs)
         ELSE unflushed' = msgs /\ UNCHANGED flush
  /\ NoStoreCall
  /\ UNCHANGED pusher
  /\ PusherMoves

PusherReceives ==
  /\ pusher = "on"
  /\ outcome # <<>>
  /\ outcome' = Tail(outcome)
  /\ LET msgs == Append(unflushed, Head(outcome))
     IN  IF Len(msgs) >= BatchCap
         THEN unflushed' = <<>> /\ \E f \in Flushers : StartFlush(f, msgs)
         ELSE unflushed' = msgs /\ UNCHANGED flush
  /\ NoStoreCall
  /\ UNCHANGED pusher
  /\ PusherMoves

PusherTicks ==
  /\ pusher = "on"
  /\ unflushed # <<>>
  /\ unflushed' = <<>>
  /\ \E f \in Flushers : StartFlush(f, unflushed)
  /\ NoStoreCall
  /\ UNCHANGED <<pusher, outcome>>
  /\ PusherMoves

\* The last flush covers the batch, whatever outcome still holds.
PusherStops ==
  /\ pusher = "on"
  /\ cancelled
  /\ pusher' = "waiting"
  /\ unflushed' = <<>>
  /\ IF unflushed = <<>> THEN UNCHANGED flush ELSE StartFlush(Pusher, unflushed)
  /\ NoStoreCall
  /\ UNCHANGED outcome
  /\ PusherMoves

\* Mutant: the pusher does not wait for the flushes it started.
PusherLeaves ==
  /\ pusher = "waiting"
  /\ flush[Pusher].phase = "done"
  /\ pusher' = "off"
  /\ NoStoreCall
  /\ UNCHANGED <<outcome, unflushed, flush>>
  /\ PusherMoves

PusherExits ==
  /\ pusher = "waiting"
  /\ \A f \in AllFlushers : flush[f].phase = "done"
  /\ pusher' = "off"
  /\ NoStoreCall
  /\ UNCHANGED <<outcome, unflushed, flush>>
  /\ PusherMoves

FlushDeletes(f) ==
  /\ flush[f].phase = "delete"
  /\ Store!DeleteBatch(flush[f].dels)
  /\ flush' = [flush EXCEPT ![f] = IF @.upds = <<>> THEN NoFlush
                                   ELSE [@ EXCEPT !.phase = "update", !.dels = {}]]
  /\ UNCHANGED <<pusher, outcome, unflushed>>
  /\ PusherMoves

FlushUpdates(f) ==
  /\ flush[f].phase = "update"
  /\ Store!UpdateBatch(f, flush[f].upds)
  /\ flush' = [flush EXCEPT ![f] = [NoFlush EXCEPT !.phase = "updating"]]
  /\ UNCHANGED <<pusher, outcome, unflushed>>
  /\ PusherMoves

\* The store inside UpdateBatch, for a flush or for the poller.
StoreUpdates ==
  /\ Store!UpdateFound \/ Store!UpdateMissing
  /\ flush' = [f \in AllFlushers |-> IF f = mu /\ mu' = None THEN NoFlush ELSE flush[f]]
  /\ poller' = IF mu = Poller /\ mu' = None THEN Sending(poller.fetched) ELSE poller
  /\ UNCHANGED <<submitted, tubes, running, cancelled, income, worker, job,
                 outcome, pusher, unflushed>>

-----------------------------------------------------------------------------
\* The expiration worker, and time.

Expire ==
  /\ running
  /\ Store!ExpireTickets
  /\ UNCHANGED engineVars

AgedCopy(c) == [Aged(c) EXCEPT !.lease = IF @ > 0 THEN Sooner(@) ELSE @]
AgedMessage(m) == IF m.upd = None THEN m ELSE [m EXCEPT !.upd = AgedUpdate(@)]

Tick ==
  /\ Store!Tick
  /\ poller' = [poller EXCEPT !.fetched = [i \in DOMAIN @ |-> AgedCopy(@[i])],
                              !.putBack = [i \in DOMAIN @ |-> AgedUpdate(@[i])]]
  /\ income' = [i \in DOMAIN income |-> AgedCopy(income[i])]
  /\ job' = [w \in Workers |-> IF job[w] = None THEN None ELSE AgedCopy(job[w])]
  /\ outcome' = [i \in DOMAIN outcome |-> AgedMessage(outcome[i])]
  /\ unflushed' = [i \in DOMAIN unflushed |-> AgedMessage(unflushed[i])]
  /\ flush' = [f \in AllFlushers |->
                 [flush[f] EXCEPT !.upds = [i \in DOMAIN @ |-> AgedUpdate(@[i])]]]
  /\ UNCHANGED <<submitted, tubes, running, cancelled, worker, pusher>>

-----------------------------------------------------------------------------

Client ==
  \/ \E id \in Tickets, t \in Submissions : ClientPut(id, t)
  \/ \E id \in Tickets, t \in Submissions, g \in Groups : ClientPutAfterGroup(id, t, g)
  \/ \E id \in Tickets, call \in ClientCalls : ClientCall(id, call)
  \/ \E id \in Tickets : ClientDelete(id)
  \/ \E ts \in (SUBSET Tubes) \ {{}} : Subscribe(ts) \/ Unsubscribe(ts)

PollerNext == PollerWakes \/ Poll \/ Filter \/ PutBack \/ Dispatch \/ Abandon

HandlerAnswers(w) == \/ \E call \in HandlerCalls : HandlerCall(w, call)
                     \/ HandlerReturn(w)

WorkerNext(w) == TakeJob(w) \/ HandlerAnswers(w) \/ WorkerExits(w)

PusherNext == PusherReceives \/ PusherTicks \/ PusherStops \/ PusherExits

FlushNext(f) == FlushDeletes(f) \/ FlushUpdates(f)

Next == \/ Client
        \/ Run \/ CancelRun \/ RunReturns
        \/ PollerNext
        \/ \E w \in Workers : WorkerNext(w)
        \/ PusherNext
        \/ \E f \in AllFlushers : FlushNext(f)
        \/ StoreUpdates
        \/ Expire
        \/ Tick

Spec == Init /\ [][Next]_vars

\* Every goroutine is scheduled, handlers return and time passes. Strong
\* fairness, because a goroutine that waits for the store's mutex or for room
\* in a channel is blocked and unblocked again; Go serves both in turn.
Fairness ==
  /\ WF_vars(Run \/ RunReturns)
  /\ SF_vars(PollerNext)
  /\ \A w \in Workers : SF_vars(WorkerNext(w))
  /\ SF_vars(PusherNext)
  /\ \A f \in AllFlushers : SF_vars(FlushNext(f))
  /\ WF_vars(StoreUpdates)
  /\ SF_vars(Tick)

FairSpec == Spec /\ Fairness

-----------------------------------------------------------------------------
(* Properties. *)

\* The copies of a ticket on their way to a handler, or with one, whose lease
\* has not run out.
LiveCopies(id) ==
  {<<"poller", i>> : i \in {i \in DOMAIN poller.fetched :
                             poller.fetched[i].id = id /\ poller.fetched[i].lease > 0}}
  \union
  {<<"income", i>> : i \in {i \in DOMAIN income : income[i].id = id /\ income[i].lease > 0}}
  \union
  {<<"worker", w>> : w \in {w \in Workers : job[w] # None /\ job[w].id = id
                                                        /\ job[w].lease > 0}}

\* A ticket is protected from double processing while its lease lasts
\* (processTime, settings.go), through channels, late answers, flushes in any
\* order and Runs that are stopped and started again.
LeaseExclusion ==
  \A id \in Tickets : Cardinality(LiveCopies(id)) <= 1

\* When Run has returned nothing of it is left behind: the batch is flushed,
\* no flush is under way, nobody is inside the store (the comment of Run).
QuietAfterRun ==
  ~running => /\ unflushed = <<>>
              /\ \A f \in AllFlushers : flush[f].phase = "done"
              /\ mu = None
              /\ \A w \in Workers : job[w] = None

\* A ticket that was finished and kept without a time to live is never due for
\* expiration, whatever else happens to it on the way.
FinishedStay ==
  \A id \in Tickets :
    Store!Present(id) /\ data[id].status \in Terminal => data[id].runat = Forever

\* UpdateBatch modifies the tickets it is given (store.go): an update of a
\* ticket that is stored is not dropped.
NoUpdateDropped ==
  [][Store!UpdateMissing => \A i \in DOMAIN batch : ~Store!Present(batch[i].id)]_vars

Served(id) == \E w \in Workers : job[w] # None /\ job[w].id = id

\* At least once: as long as a ticket is pending and waits for nobody, sooner
\* or later a handler gets it (again), crashed handlers and lost answers
\* included.
EveryTicketServed ==
  \A id \in Tickets :
    Store!Pending(id) /\ deps[id] = {} ~> Served(id) \/ ~Store!Pending(id)

\* A worker whose handlers can answer again and again sees one that does.
HandlersSucceed ==
  \A w \in Workers : SF_vars(\E call \in HandlerCalls : HandlerCall(w, call))

\* If handlers do not fail forever every ticket gets finished, a finalizer too,
\* whichever member crashed, was retried or answered in which batch.
EveryTicketFinished ==
  HandlersSucceed => \A id \in Tickets : Store!Pending(id) ~> ~Store!Pending(id)

\* Stop cancels a Run and the Run returns (the comments of Run and Stop).
CancelledRunReturns == cancelled ~> ~running
=============================================================================
