# Lymbo in TLA+

Lymbo is a Go library for scheduled tasks ("tickets"): clients put tickets into
a store, an engine (`Kharon`) polls the tickets that are due, hands them to
handlers, and writes the outcome back in batches. This directory holds TLA+
models of it, TLC configurations that check small instances, and TLAPS proofs.
All paths below are relative to the repository (`src/`).

## 1. Inventory

| Component | State | Operations | Talks to |
|---|---|---|---|
| Tickets, updates, options (`ticket.go`, `store.go`, `options.go`, `status/`) | none | the effect of an option set or of an `UpdateSet` on a ticket | used by the engine and the stores |
| In-memory store (`store/memory`) | `data`, `deps`, a mutex | Get, Put, PutAfterGroup, Delete, DeleteBatch, UpdateBatch, Update (callback), PollPending, CountPendingInGroup, ExpireTickets | called by clients, poller, flushes, expiration worker |
| PostgreSQL store (`store/postgres`) | two tables, foreign keys, row locks | the same interface, each operation one or more statements under READ COMMITTED | the same callers, in several processes |
| Engine (`kharon.go`) | `income`, `outcome`, the pusher's batch, subscriptions, the running flag | Put, Delete, Ack, Done, Cancel, Fail, Restart, Retry, Subscribe, Unsubscribe, Run, Stop; poller, workers, pusher, flushes, expiration worker | store, router |
| Router (`router.go`) | routing table, not-found handler, RWMutex | Handle, NotFound, Handler | called by workers |
| Settings (`settings.go`) | values and the tube slice | With... setters, normalisation | read by the engine |
| Groups (`group.go`) | a handle | PendingCount | store |
| Statistics (`stats/`, `observable.go`) | counters and histograms per ticket type and tube, two levels of mutexes | increments, durations, snapshot, reset | engine, Prometheus collector |
| Prometheus collector (`prometheus/`) | none | the classic buckets of a snapshot | statistics |
| Marshalling, errors, examples | none that matters | - | - |

What is hard in this code, and what makes each component correct:

* **Store.** Every method holds one mutex, so the hazards are sequences of legal
  calls: dependency sets that outlive their finalizer or their blocker, circles
  of finalizers, a batch that stops halfway, the copy a poll returns. Correct
  means: a finalizer waits for exactly the members pending when it was put, is
  released when the last of them finishes, and is never handed out before. The code keeps
  this in every operation but two, see the findings.
* **Engine.** A poller, a pusher, an expiration worker, the workers and any number
  of flushes run concurrently, with two bounded channels, leases that run out,
  handlers that crash or answer late, tubes that are unsubscribed in the middle of a poll, Runs that are cancelled
  and started again with what is left in the channels. Correct means: nobody
  processes a ticket twice within one lease, every due ticket is served, no
  finished ticket is lost, and a cancelled Run ends and leaves nothing behind.
* **Router.** A read lock taken twice while a registration waits for it. Correct
  means: every lookup returns, and holds no lock when it has.
* **PostgreSQL store.** Snapshots that go stale before the statement that uses
  them, batches that hold locks and may be aborted, an upsert that revives a deleted
  row, the foreign keys; delays computed with whole seconds. Correct means: the same
  as in memory, from several sessions.
* **Statistics.** Bucket arithmetic at the limits, `Reset` against concurrent
  increments, a snapshot that takes one mutex per key. Correct means: what a snapshot says adds
  up, and a histogram says what was recorded, in every form it is converted to.
* **Settings.** A slice of tubes shared by a caller and several engines.

`PROJECT.json` lists every hazard at its line with the properties that cover it.

## 2. Modules

| Module | What it is |
|---|---|
| `Tickets` | the data: ticket, `UpdateSet`, options, what they do to a ticket, relative time |
| `FinalizerGate` | the abstract specification of finalizers: groups, exact snapshots at registration, releases, and the one operation that may leave somebody waiting (`Slip`) |
| `MemoryStore` | `store/memory/memory.go`, one action per operation |
| `StoreHistory` | `MemoryStore` with a history variable, what `Update` left behind; its properties and the refinement of `FinalizerGate` |
| `PgStore` | `store/postgres`, one action per statement, two for a statement others can interleave with |
| `Backoff` | the delays of both stores as arithmetic |
| `Kharon` | `kharon.go`, composed with `MemoryStore` (`Store == INSTANCE MemoryStore`) |
| `Stats` | `stats/stats.go` and those who feed it |
| `Histogram` | `stats/hist.go` and its conversions to Prometheus's histograms |
| `Router` | `router.go` over Go's read-write mutex |
| `TicketsProofs`, `MemoryStoreProofs`, `PgStoreProofs`, `KharonProofs`, `KharonLeaseProofs`, `StatsProofs`, `ArithmeticProofs`, `RouterProofs` | TLAPS proofs |
| `MCMemoryStore`, `MCKharon`, `MCPgStore`, `MCStats`, `MCRouter` | small instances for TLC |

Definitions that are commented "Mutant:" are deliberately wrong variants of the
definition they precede. No specification uses them; each is a plausible bug
that the property of some run would notice (`PROJECT.json`, "mutants").

### Time

The code compares instants with `time.Now()`. The models keep every instant
relative to the present: a run time is a countdown, due at or below 0, and
`Tick` lowers every countdown in the store *and in every copy on its way
through the engine*. `Forever` (`InfinityDelay`, a hundred years) never runs
down. Nothing ticks while the store's mutex is held: the clock is read once per
operation there.

### MemoryStore and the code

`data` and `deps` are the two maps. `mu` and `batch` are the mutex and the rest
of the loop of `UpdateBatch`: that loop can stop at a missing ticket, so each
iteration is a step (`UpdateFound`, `UpdateMissing`), taken while the caller
holds the mutex and everyone else is blocked (`Unlocked`). The other methods are
one action each, their loops over maps being set expressions; the orders a Go
map may be ranged in, and the unstable sort of `PollPending`, are the choices of
`MostUrgent` and `ExpireTickets`. `polled` is the return value of the poll just
made: the tickets *as they were read*, which is what the code returns.

`Update` takes its callback as a parameter, and a callback may do to a ticket what it
likes, finish it too; one that returns an error is a function to `None`.
`Update` looks at no dependency, so finishing a ticket through it leaves its finalizers
waiting. `StoreHistory` adds `kept`, per ticket the dependencies left behind in this way;
it reads the store and never restrains it (`HistSpec` has the behaviours of `Spec`). What a
finalizer is rightly waiting for is then `Awaited`, its dependencies without those.

`FinalizerGate` speaks of pending tickets, the group each is in, who waits for whom, and
`kept`. A registration adds exactly the pending members of the group, a finish takes the finished ones out of every
set, and only `Slip`, which stands for `Update`, may finish without that; it puts on record
whom it left waiting. An id may be registered while its set is not empty, because `ExpireTickets` leaves
sets of deleted tickets.

Operations that return early change nothing and are
stuttering steps; the engine models the error replies it can get.

### Kharon and the code

| State | Code |
|---|---|
| `poller` | `runPoller`, `poll`: where it is, the tickets fetched and still to be sent, those to be given back |
| `income`, `outcome` | the buffered channels; sending is guarded by the room left |
| `worker`, `job` | `runWorker`, `processTicket` |
| `pusher`, `unflushed` | `runPusher` and its batch |
| `flush` | the goroutines `flush` starts: delete phase, then update phase |
| `running`, `cancelled` | `Run`'s `running` flag, its context |
| `submitted` | (model) ids already put, see the bounds |

A copy carries `lease`, what remains of the run time the poll wrote. The code has
no such field; no guard reads it; the properties do.
A lifecycle call (`Ack`, `Done`, `Cancel`, `Fail`, `Restart`, `Retry`) is a record
with all its options: delay (fixed, or a backoff with and without jitter), keep, priority, reset of the attempts,
tube, group, and the function passed WithUpdate; `CallOpts` puts them in the order of `options.go`. It either sends a message to `outcome` (blocking while that
is full) or, WithUpdate and keeping the ticket, goes to the store at once (`Saved`: the options, then the function,
which may fail). A backoff is delayed differently on the two ways: `beforeUpdate` (`kharon.go`, 116) drops the jitter that
the store adds to an update in a batch (`memory.go`, 136), and so `BeforeUpdate` uses other delays than `SaveSet`. A
handler makes at most one call and then returns, fails or panics; that an
`income` copy is sometimes taken by a worker after cancellation is the `select`
of the code, which picks either ready case.

The loops that append some elements of a slice to another (the deletions and updates of a
batch, the tickets of tubes still subscribed) are `Picked(s, I)`: the elements of `s` at the
indices `I`, in their order. It says what the loop leaves without a recursion, so that it can be proved about.

### PgStore and the code

`rows` and `deps` are the two tables as committed. `tx` says what each session, a
connection of the pool, is in the middle of. The reader should know PostgreSQL's
READ COMMITTED:

* A statement sees the rows committed when it started. `PollPending`, `PutAfterGroup`
  and `ExpireTickets` choose rows in that snapshot (`StartPoll`, ...), and act on
  the rows of a later moment (`FinishPoll`, ...). `FOR UPDATE SKIP LOCKED` passes over
  rows held by others and checks the conditions of the others again (`Lockable`);
  the sub-select of `expire` is not checked again; a foreign key is checked against
  what is committed when the row is inserted.
* pgx sends a batch as one implicit transaction: its statements commit together, and
  the rows it wrote and the dependency rows it deleted stay locked until then
  (`Locked`, `Deletable`). A statement that waits for a lock is a disabled action, and
  a session can be aborted at any time, which is also how the deadlock detector
  ends a circle of batches.
* `Update` is two statements with a callback between them. Its query does not read the
  tube and the group; the upsert keeps the group of the row it finds and writes the
  tube it did not read, unless the callback sets one.
* `Put`, `Delete` and `DeleteBatch` act on given ids, in one action. A `Delete` that a dependency row refers to is refused by the
  foreign key, and so is a `DeleteBatch` when a finalizer is registered on one of its tickets while it waits for its locks: both
  change nothing, and are stuttering steps.
* A statement of a batch takes its snapshot when it starts. If another batch holds its row it waits
  (`StatementWaits`), and then writes the row as it has become, or skips it if it was deleted meanwhile. But the
  part of the statement that deletes dependency rows (`del_deps`) goes by the snapshot from before the wait: it
  misses the finalizers registered since (`Waiters`).

`Backoff` is a machine of its own: `asked` are the settings and the number of attempts a
delay is computed for, raised attempt by attempt. The jitter, or the time-to-run of a lease, is any integer of
milliseconds: `BackoffDelay` refuses no negative jitter, which memory adds as it is (`memory.go`, 136) and the
server replaces by zero (`GREATEST($4, 0)`, `template.go`, 123). `MCPgStore` runs it beside `PgStore`,
as alternatives from the start and never interleaved: they share no state.

Statements that do nothing (a missing ticket, an id in use, a refused foreign
key) are stuttering steps. Time passes between statements and while a callback runs.

### Stats, Histogram and the code

Recording takes two locks one after the other, so it is two steps: `ByKey` finds the
measurers of a key under `rw` (`...LooksUp`, `HandlerReturns`), and the counter is increased
under the measurers' own mutex (`...Counts`, `...Recorded`). `measurers` keeps all that were ever made, because a
goroutine may hold a pointer to measurers a `Reset` has replaced. A snapshot is a step per
key; it keeps `ByKey` and `Reset` out, but not the second half of a recording.
`income` is the channel between poller and workers, without its bound.

In `Histogram` a duration is a number of ticks, a fixed fraction of a second, and
the bucket of `d` is the `k` with `2^k <= d^4 < 2^(k+1)`, which is `floor(4 * log2(d))`
without logarithms. `IncBucket` grows the slice of counts as the code does. `AddBucket` is the code's two loops
over the non-empty buckets taken one bucket at a time: it lengthens the last span or begins the next. `MCStats` runs `Stats` and one histogram side by side and never interleaves
them: they share no state.

### Router and the code

A writer announces itself (`Lock`), after which new readers wait; it writes when the
readers before it have left; as it leaves, all waiting readers enter. That is Go's
`sync.RWMutex`. `Handler` without a route calls `NotFoundHandler` and so takes the read lock again.
Each function releases what it took by a deferred `RUnlock`: `NotFoundHandler` as it returns (to `found`), then
`Handler` (`Return`).

## 3. Runs

| Run | Expect | Shows |
|---|---|---|
| `store_safety` | pass | 3 tickets, one group, every operation in every order, batches of one and two updates, callbacks that finish, postpone or fail: types, `BlockersPendingOrKept`, `NoMutualWait`, and the store implements `FinalizerGate` |
| `engine_leases` | pass | 1 ticket, 2 workers, tubes on, handlers that finish through the batch or WithUpdate or crash, clients that delete and cancel, Runs cancelled and restarted: `LeaseExclusion`, `QuietAfterRun`, types (capacities included) |
| `engine_progress` | pass | a member and a finalizer, handlers that crash: `EveryTicketServed`, `EveryTicketFinished` |
| `pg_safety` | pass | 2 sessions, 2 tickets and 2 groups in PostgreSQL, all statements interleaved, batches of one and two updates, aborts: `HandedOut`, `ReleasedByFinish`, `NoMutualWait`, types; both stores' delays: `RetryDelaysAgree`, `LeaseLongEnough` |
| `statistics` | pass | a poller, a worker and a caller count two keys during snapshots and resets, with one ticket more than the bound of `FlowOrdered` after a reset lets go: `FlowOrdered`, `SnapshotCurrent`, types; five durations in every order: `HistogramExact`, `NativeExact`, `ClassicExact` |
| `store_bypass` | violation | in memory, a member finished WithUpdate goes on blocking its finalizer (`BlockersPending`) |
| `engine_dropped_updates` | violation | in memory, an update of a ticket that is gone drops the updates behind it |
| `engine_put_back` | violation | a put-back after `Unsubscribe` makes a finished ticket expire |
| `engine_stop` | violation | a worker that sends to a full `outcome` after the pusher has left never exits, so `Run` and `Stop` never return |
| `pg_stale_group` | violation | in PostgreSQL, a member that finishes while `PutAfterGroup` runs blocks the finalizer for good |
| `pg_expire` | violation | in PostgreSQL, a ticket restarted while `ExpireTickets` runs is deleted although it is pending |
| `router_deadlock` | violation | a registration between the two read locks of a lookup stops both, and whoever comes after |

### What the passing properties rest on

* `BlockersPendingOrKept` and `NoMutualWait` in memory hold whatever callbacks do, but they leave out the dependencies
  that an `Update` left behind (`kept`). Without that they are false: `store_bypass`, and a circle of five steps. `Done` WithUpdate and a time to live
  finishes m, for which f waits; `ExpireTickets` deletes m; f, still pending, is a member of a second group;
  `PutAfterGroup(m, that group)` makes m wait for f. Now f and m wait for each other for good. Of the two
  dependencies only m's is rightly waited for, f's is in `kept`.
* `NoMutualWait` in PostgreSQL leaves nothing out, because the foreign keys keep m stored while f waits for it. That
  blockers are pending does not hold there, for two reasons: `Update`, as in memory, and `pg_stale_group`.
* `ImplementsGate`: the gate promises exact snapshots as additions, and exact releases by every operation
  but `Slip`. It does not promise that an expired finalizer's set is empty when its name is used again.
* `LeaseExclusion` holds for answers that finish the ticket (Ack, Done, Cancel,
  WithUpdate or not, and crashes). An answer that reschedules it at once, late, breaks it.
* `FinishedStay` does not hold: `engine_put_back` shows one way to break it, a late `Retry` with a delay (below) is another; a time to live
  is the third, and asks for it. That there is no fourth is proved, see section 6.
* `EveryTicketServed` and `EveryTicketFinished` are about an engine that is not
  cancelled; `EveryTicketFinished` supposes that handlers do not fail forever
  (`HandlersSucceed`).
* `RetryDelaysAgree` is about jitters of whole seconds, negative ones too, of which it says that PostgreSQL drops them: for them the two
  stores differ by the jitter. The server infers the type of the parameter `$4` from the integer 0 beside it (`GREATEST($4, 0)`), which may
  cut or refuse a fraction of a second; that is out of the model's sight and so out of the property.
* `LeaseLongEnough` is about bases of at least one, a maximal delay of at least a second and a time-to-run that is not negative, as the default settings
  have them. With a base below one the cut of milliseconds can make a lease
  shorter than the time-to-run, by less than a second.
* `FlowOrdered` allows for resets: a recording that straddles one is lost, at most one per worker.

### Findings

Each violating run checks a sentence of the documentation or of a comment;
`PROJECT.json` quotes it next to the line of the code.

Noticed while modelling, and part of the models or plain from the code, but not
given a run of their own:

In memory and in the engine:

* `ExpireTickets` deletes a ticket and leaves its dependency set (`memory.go`, 310), which the
  next ticket of that name inherits: a finalizer that was finished while it waited, expired, and is put again waits
  although its group may be empty, where `README.md` (251) says it is eligible at once.
* `Retry` sets no status (`kharon.go`, 275): a failed or done ticket stays terminal, with
  a run time at which it expires, where `README.md` (130) says it is rescheduled as pending.
* `PollPending` returns the tickets as they were before the bump (`memory.go`, 262), so the deadline of
  a handler's context (`kharon.go`, 792) has passed when the handler starts; the
  PostgreSQL store returns the bumped ones.
* `Restart` queued through the batch does not reset the attempts: `UpdateSet` has no such field.
* A backoff asked for WithUpdate has no jitter (`kharon.go`, 116), the same one through the batch has (`memory.go`, 136).
* An answer names the ticket and not the lease: the late `Retry` of a handler that
  outlived its lease reschedules the ticket under another worker.
* The counters of a flush are matched to the updates by position (`kharon.go`, 544), but
  the PostgreSQL store returns no information for rows it did not find: what follows is counted as the wrong operation.
* `WithOnlyTubes` sorts and compacts its argument in place, and an engine shares the resulting slice
  with its settings (`settings.go`, 144; `NewKharon`): two engines made from the same settings or the same list
  change each other's subscriptions in `Subscribe` and `Unsubscribe`, under different mutexes.
* `WithGroup` says it is ignored by Ack, Done and so on (`options.go`, 154); `save` and
  `beforeUpdate` apply it.

In PostgreSQL:

* `Update` upserts what its callback made of a ticket and deletes no dependency row (`postgres.go`, 305): a member finished WithUpdate
  goes on blocking its finalizers, as in memory (`store_bypass`).
* A batch that waits for a row does not release the finalizers registered on it meanwhile; with `pg_stale_group` a
  second way to a finalizer that waits for good.
* A negative jitter is dropped (`template.go`, 123), where memory shortens the delay by it.
* `Update` may overwrite what others wrote between its two statements, and inserts the ticket again if it was
  deleted meanwhile, without its group.
* `Update` writes the tube of a ticket whose tube was not read (`postgres.go`, 320): the
  empty name, which no poll can ask for.
* The foreign keys make `Delete` and `ExpireTickets` fail while a dependency row mentions
  the ticket; one such ticket stops the expiration of all chosen with it.
* A poll of more than 10 tubes fails (`postgres.go`, 473); `Subscribe` accepts any number.
* `Put` of an existing ticket keeps its old group; in memory the new one is stored.

In the statistics:

* A duration on a bucket's bound is counted above it (`hist.go`, 78); Prometheus counts
  it below. The classic buckets leave out the durations that are zero, which the total includes.

## 4. Bounds

| Bound | Value | Why it is enough |
|---|---|---|
| `Horizon` | 1 | longest delay that runs out: leases, times to live and retries of one tick. A delay matters by whether it has run out when something else happens, and any number of steps fits into a tick |
| `MaxAge` | 0 | how overdue a ticket is only orders a poll; overdue tickets compare either way once their age is forgotten, so more orders are explored than occur |
| `MaxAttempts` | 0 | attempts saturate where the capped backoff no longer grows; no state property tells them apart, and `Backoff` has them up to 8 |
| `Flushers` | 1, and the pusher's own last flush | flushes in flight; two of them can overlap and arrive out of order |
| `BatchCap` | 2 | the code has 2 * workers: two answers share a flush, the case of mixed deletions and updates |
| `OutcomeCap` | 1 or 2; 10 in `engine_stop` | the smaller, the sooner `outcome` is full. `engine_stop` uses the code's ratio (one worker: 10 and 2) so that its counterexample is one of the real capacities |
| tickets | 1 to 3 | three tickets are a member, a finalizer and a finalizer of the finalizer |
| `Limit`, `ExpireLimit` | 1 or 2 | below and at the number of tickets |
| one put per id | engine runs | putting a pending ticket again resets its run time, which takes its lease away on purpose; the store run puts ids again |
| one call per handling | engine runs | calls of others (`ClientCalls` of `engine_leases`) cover a second answer to the same ticket |
| `pg_*`: tickets, sessions, groups | 2, 2, 2 | a member and a finalizer of another group, or two tickets of one batch; every race of the code is one of two sessions over a row or a dependency. Proved for any number |
| `Limit`, `ExpireLimit` in `pg_*` | 1 | below the number of tickets: a poll or an expiration has to choose |
| `Bases`, `Durations`, `Extras`, `MostAttempts` | bases 1/2 to 5/2, 0 to 5 s in steps below a second, -1.5 to 3 s, 8 | shrinking, constant and growing powers, around whole seconds, zero, and around the exact powers 1.5^3 = 3.375 and 2; the powers pass every duration tried within 8 attempts |
| `Workers`, `MaxPolls`, `MaxCounts`, `MaxResets` | 1, 2, 1, 2 | one ticket more than there are workers, so that more could be lost to a reset than the bound allows; the poller, another recording and the snapshot run beside it. Proved for any number of workers |
| `TicksLog2`, `Samples`, `MaxSamples` | 1, {-1, 0, 1, 2, 3, 9}, 5 | half seconds: the ignored and the zero duration, and buckets -4, 0, 2 and 8, so that the counts grow to both sides and over gaps of one and several |
| `Lookups`, `Registrars`, `Types` | 2, 1, 2 | one lookup with a route or without, another that waits, and the registration between |

Tickets, workers, flushers and sessions are symmetric in the passing safety runs with more than one of them; the
liveness runs use no symmetry. Handlers and clients of the engine runs finish, cancel or crash, and the store runs
add updates that restart and retry; all other calls and options are in the definitions and in the proofs only. The priority of tickets is carried through, but
exercised with one value only: it orders a poll, and no property depends on that order.

Deadlock is checked in every run but `router_deadlock`, whose property is about it, though `Tick` leaves little for it to find: that
goroutines wait for each other is a matter of `EveryTicketServed`,
`EveryTicketFinished` and `CancelledRunReturns`.

## 5. Fairness

`FairSpec` assumes weak fairness of starting and leaving Run and of a store call
under way, and strong fairness per goroutine (poller, each worker, pusher, each
flush) and of time. Strong, because a goroutine waiting for the mutex or for room
in a channel is enabled and disabled again by others; Go's mutex hands over to a
starving waiter after a millisecond, and channels serve waiting senders and
receivers first in first out. Handlers return: a worker with a job is a process
that takes a step. Nothing is assumed of clients, of cancellation, or of the
expiration worker. In
`Router` a lookup or registration under way is weakly fair, step by step, and nothing
is assumed of new ones; the counterexample stops them all.

## 6. Proofs

All theorems hold for all values of the constants that satisfy their assumptions.

`MemoryStoreProofs`:

* `TypeCorrect`: `Spec => []TypeOK`. Needs that an update applied to a ticket gives a
  ticket, a lemma about `UpdateOne`, and that a tick keeps instants in range.
* `BlockersCorrect`: `HistSpec => []BlockersPendingOrKept`, for any callbacks.
  With `TypeOK` it is inductive: an operation that unmakes a pending ticket
  (`Release`, `RemoveDep`) removes it from every set, `Update` puts on record whom it leaves waiting, and `PutAfterGroup` adds
  pending tickets only. `ExpireTickets` removes tickets without touching `deps`,
  which is harmless to those who wait for them rightly, because what it removes is not pending.
* `NoMutualWaitCorrect`: `HistSpec => []NoMutualWait`. Nothing in `PutAfterGroup` looks for
  cycles. The argument: only an absent id gets new dependencies, and by
  `BlockersPendingOrKept` an absent id is in nobody's `Awaited`. So in any set of tickets, either
  the new finalizer is not a member and the old witness serves, or the set
  without the new finalizer has a witness, which does not wait for the new one either.
* `GateCorrect`: the store refines `FinalizerGate` under the mapping pending
  tickets with their groups, `deps`, `kept`, tickets just returned by a poll; each action maps to one gate action
  or to a stutter, `Update` to `Slip`, `Submit` or a stutter, as its callback does. It uses `BlockersPendingOrKept`: an
  expiration must take nothing from anybody.

`PgStoreProofs`:

* `PgTypeCorrect`, `DepsStoredCorrect`, `PgNoMutualWaitCorrect`, `HandedOutCorrect` and
  `ReleasedByFinishCorrect`, all from one inductive invariant `IInv`: `TypeOK`, `BatchesFree`
  (an open batch has freed a member, or a waiting statement seen it freed, only for an update that finishes it), `SeenEligible`
  (what a poll has seen is still stored and waits for nobody), `DepsStored` and
  `NoMutualWait`.
* Circles. In memory the argument was that blockers are pending; here they need not
  be. The foreign keys take the place of that: only an absent id gets dependencies, and by `DepsStored`
  nobody waits for an absent id.
* A poll. A ticket that waited for nobody when it was seen waits for nobody later, since
  only a new ticket is ever wired; and a row deleted and put again is not the row that was seen (`Forget`).
* A release. The commit removes exactly what the statements of the batch have freed, so what
  `BatchesFree` says of them is what `ReleasedByFinish` needs.

`KharonProofs`, for any number of workers, flushers and tickets, any capacities, and whatever
handlers and clients call:

* `KharonTypeCorrect`: `Spec => []TypeOK`, with the capacities of `income`, `outcome` and the
  pusher's batch. An element of a channel must be a whole ticket or update wherever it comes from, so the proof
  needs that the options of every call give an update (`CallOptsType`), that a poll and the copies it
  makes are well-formed, and that `Picked` gives a sequence of the elements picked: that there
  is an increasing enumeration of every finite set of indices is proved by induction on its size.
* `QuietAfterRunCorrect`. The engine shares the store's mutex with its own
  flushes, so the property needs to know who is inside the store. The invariant has three parts besides shapes: whoever
  holds the mutex is the poller giving tickets back or a flush in its update phase (`Held`);
  only a busy worker has a job, only a pusher that is on has a batch, and it is off only
  when every flush is done; and without a Run everybody is off (`Leaving`). That the mutex is free when
  Run returns then follows from the pusher having waited for *all* flushes, those of earlier batches too.

`KharonLeaseProofs`, about answers that arrive late:

* `FinishedStayCorrect`, assuming tubes are off and `CallsKeepFinished`: what a call keeps it either makes pending, or finishes without a time
  to live, or leaves both status and run time alone; a function passed WithUpdate keeps a ticket that is finished for good as such. All
  of it is needed: with tubes the put-back of an earlier copy overwrites the run time
  (`engine_put_back`), with a time to live the ticket expires on purpose, and a `Retry` with a delay, its ordinary
  use, gives a finished ticket a run time (`kharon.go`, 275). So the theorem does not say that a finished ticket is
  safe in this engine; it says that nothing besides these three endangers it. The invariant says of every update on its way - in `outcome`,
  the batch, a flush, or the store's own batch - that it keeps what is finished forever (`KeepsFinished`), because the
  property depends on updates sent long before they are applied.
* `LeaseExclusionCorrect`, assuming `CallsFinish`: calls finish their ticket. It is needed too: TLC finds the late
  `Retry` that makes a ticket due while another worker has its lease. The invariant `LeaseInv` has, besides types and
  what `QuietAfterRunCorrect` needs, `Messages(Finishing)`, every update on its way finishes its ticket;
  `Alone`, of all copies of a ticket in the poller's hands, in `income` and with workers at most one has a lease left;
  `Covered`, the lease of a copy ends no later than its ticket becomes due again, if the ticket is
  still pending, and every stored ticket was submitted; and `GivenBack`, what the poller puts back has no other live
  copy, so the earlier run time it writes takes nobody's lease away. A poll takes only due tickets, `Covered` says that
  those have no live copy, and a lease counts down in the same step as the run time it was written with.

`StatsProofs`:

* `StatsTypeCorrect` and `SnapshotCurrentCorrect`. Measurers only grow, and while a snapshot
  is taken no key changes its measurers.
* `FlowUnbrokenCorrect`: the part of `FlowOrdered` about the time before the first reset. What a
  snapshot compares was counted by several goroutines at several moments, so the inequalities
  are not inductive by themselves. The invariant (`FlowOf`) adds to the counts of a
  key what is still on its way: the tickets in `income` and the workers that have not recorded their wait or
  work, up to the tickets polled; the workers between timing and counting, up to the works timed.
  It needs that goroutines write to the measurers the map has for their key (`Pointers`), which is what a reset breaks,
  and that there are finitely many workers (`GoroutinesAssumption`).
* `FlowOrderedCorrect`: the bound after resets, for any number of them. A worker can count one ticket as processed that its
  key's current measurers do not have as timed. Which workers may still do so (`AtRisk`) depends on where they are
  and on whether a reset has replaced the measurers they hold; the invariant (`OrderedOf`) is that
  processed plus workers at risk is at most timed plus workers. It is stronger than the property, and
  needs that measurers in the map are written to for one key only (`Owners`), which unlike `Pointers` survives a reset.

`ArithmeticProofs`, about `Backoff`, for every base (a positive fraction), duration, jitter and number of attempts, under the premises named in section 3:

* `RetryDelaysAgreeCorrect` (jitters of whole seconds, PostgreSQL's delay being that of memory without a negative jitter) and `LeaseLongEnoughCorrect`. Both rest on `ClampIsFirst`, the clamped
  exponent is the first whose power reaches the maximal delay, and on powers of a fraction above one growing
  (`FractionGrows`, stated with products, since quotients are rounded); so beyond the clamp every power
  is cut to the maximal delay anyway. `Pow` is a recursive function: that it exists and what it satisfies
  (`PowFacts`) is proved from its partial functions on 0..n.
* `ReachAssumption` and `NoClampAssumption` say that the bound `MostAttempts` is large enough: within it the powers
  pass every maximal delay, and it is below `math.MaxInt32`. They are about the bound, not about the program.

and about `Histogram`, for any durations, in any number and order, and any resolution of the clock:

* `HistogramExactCorrect`. The property speaks of positions in the slice, which move when the slice grows to the left;
  the invariant (`Tells`) says of *every* bucket, inside the slice or not, how many durations lie in it, so that
  growing changes nothing (`SliceGrowsLeft`, `SliceGrowsRight`) and one bucket counts one more (`IncBucketFacts`). That
  a duration has exactly one bucket needs that the powers of two pass its fourth power (`FourthPowerBound`, `IndexType`).
* `ClassicExactCorrect`: by induction over the slice, the running sum up to a bound counts the durations below it. It
  needs that no duration lies left of the slice (`RecordedIsCounted`).
* `NativeExactCorrect`. A reader knows spans and deltas only, so the argument is about what it makes of them:
  adding a bucket leaves what was read and adds that bucket (`AddBucketReads`), whether it lengthens a span or begins
  one. The invariant of the loop (`Laid`) is that the spans stand for as many buckets as there are deltas, the
  deltas add up to the last count, and the last span ends at the last bucket.
* `RunningSum`, the powers of two and the loop of `NonEmptyBuckets` are recursive functions: `RecursionExists` gives
  such a function on 0..n for any starting value and steps within a set, and the values follow by induction.

`RouterProofs`: `LocksBalancedCorrect`, a lookup holds as many read locks as its place in the code says. Every lock and
unlock adds or takes one, a writer that leaves lets the waiting ones in, and what a lookup holds when it has
returned is what these steps add up to: none. So a lookup that has returned never keeps a registration waiting, and the deadlock
needs a lookup between its two locks.

Induction. The library states induction with an operator as a parameter, which the
provers cannot instantiate. Where it is needed it is stated about sets (`SetInduction`, `Induction`) and derived from
the natural numbers being well-founded, or from the pigeonhole principle.

Only model-checked: liveness (`EveryTicketServed`, `EveryTicketFinished`, and the temporal properties that section 3 shows violated), which is out
of the prover's reach. Every invariant of the passing runs is proved, `LeaseExclusion`
under the assumption named above. `FinishedStay` and `LocksBalanced` are proved and in no passing run.

## 7. Not modelled

* Payloads, types, creation and modification times, error reasons: no decision
  reads them. Logging.
* Settings: setters, and a normalisation that bounds single values.
* Store errors and timeouts in the engine: the in-memory store returns none
  besides a missing ticket. `Stop`'s own context, and a second `Run` while one is
  running (refused by the code).
* The engine over the PostgreSQL store, and two engines on one store: `Kharon` is composed with `MemoryStore`,
  and what differs in PostgreSQL is stated about `PgStore` alone.
* The callback a caller may pass to `Put`, and negative fixed delays.
* In PostgreSQL: jitters with fractions of a second (above), `Migrate`, the parsing of ids, the copying of columns, and the
  16-bit priority.
* Floating point: powers and logarithms are exact. A quotient of logarithms that should be whole may
  be rounded up, which counts one attempt more and changes no delay.
* Marshalling and the examples are stateless glue.
