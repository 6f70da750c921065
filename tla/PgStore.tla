------------------------------- MODULE PgStore -------------------------------
(***************************************************************************)
(* The PostgreSQL store (store/postgres). Its tables are what is committed;*)
(* a statement that others can interleave with is an action that takes its *)
(* snapshot and an action that commits, under READ COMMITTED:              *)
(*   - UpdateBatch is one implicit transaction of many statements, which   *)
(*     holds a row lock on every row it wrote until it commits;            *)
(*   - Update reads without a lock, runs the callback, and then upserts;   *)
(*   - PutAfterGroup, PollPending and ExpireTickets choose rows in a       *)
(*     snapshot and act on the rows of a later moment.                     *)
(* The other operations are single statements on given ids, one action     *)
(* each. A statement that waits for a lock is a disabled action; that of a *)
(* batch takes its snapshot before it waits, which the model keeps.        *)
(*                                                                         *)
(* Get and CountPendingInGroup only read. A callback that fails, an Update *)
(* of a missing ticket and a poll without tubes return early: stuttering   *)
(* steps, as is a statement refused by a foreign key: a Delete, and a      *)
(* DeleteBatch while whose wait a finalizer is registered on its tickets.  *)
(***************************************************************************)
EXTENDS Tickets, Sequences

CONSTANTS
  Sessions,     \* connections of the pool, each running one statement or batch
  DefaultTube,  \* the tube of a ticket put without one
  NoTube,       \* the empty tube name, which no poll may ask for
  Submissions,  \* the tickets that Put and PutAfterGroup are called with
  Batches,      \* the arguments UpdateBatch is called with
  FnUpdates,    \* the callbacks of Update; None is an error they return
  PollDelays,   \* delay of each attempt plus the time-to-run, set by a poll
  Limit,        \* PollRequest.Limit
  ExpireLimit   \* the limit of ExpireTickets

ASSUME TubesAssumption == {DefaultTube, NoTube} \subseteq Tubes
ASSUME SubmissionsAssumption == Submissions \subseteq Ticket
ASSUME BatchesAssumption == Batches \subseteq Seq(UpdateSet) \ {<<>>}
ASSUME FnUpdatesAssumption == FnUpdates \subseteq [Ticket -> Ticket \union {None}]
ASSUME PollDelaysAssumption == PollDelays \in Backoffs
ASSUME LimitAssumption == Limit \in Nat \ {0} /\ ExpireLimit \in Nat

VARIABLES
  rows,     \* the ticket table: the committed row of each id, or None
  deps,     \* the dependency table: the committed blocked_by of each ticket_id
  tx,       \* what each session is in the middle of
  polled    \* the tickets returned by the poll just made, None for the others

pgVars == <<rows, deps, tx, polled>>

NobodyPolled == [t \in Tickets |-> None]

Row == Ticket \union {None}

Idle == [op |-> "idle"]

\* What a statement of a batch remembers while it waits for its row: whether
\* the row is deleted, and the finalizers its snapshot shows waiting for it.
View == {None} \union [gone: BOOLEAN, waiters: SUBSET Tickets]

Transaction ==
  {Idle}
  \union [op: {"batch"}, updates: Seq(UpdateSet), next: Nat, writes: [Tickets -> Row],
          freed: [Tickets -> SUBSET Tickets], view: View]
  \union [op: {"update"}, id: Tickets, new: Ticket]
  \union [op: {"register"}, id: Tickets, new: Ticket, members: SUBSET Tickets]
  \union [op: {"poll"}, tubes: SUBSET Tubes, seen: [Tickets -> Row]]
  \union [op: {"expire"}, victims: SUBSET Tickets]

TypeOK ==
  /\ rows \in [Tickets -> Row]
  /\ deps \in [Tickets -> SUBSET Tickets]
  /\ tx \in [Sessions -> Transaction]
  /\ polled \in [Tickets -> Row]

Init == /\ rows = [t \in Tickets |-> None]
        /\ deps = [t \in Tickets |-> {}]
        /\ tx = [s \in Sessions |-> Idle]
        /\ polled = NobodyPolled

-----------------------------------------------------------------------------
\* State functions.

Present(id) == rows[id] # None
Pending(id) == Present(id) /\ rows[id].status = "pending"
InGroup(id, g) == Pending(id) /\ rows[id].group = g

CountPendingInGroup(g) == Cardinality({id \in Tickets : InGroup(id, g)})

\* A batch keeps the rows it wrote, and the dependency rows it deleted, locked.
Wrote(s, id) == tx[s].op = "batch" /\ tx[s].writes[id] # None
Freed(s, f)  == IF tx[s].op = "batch" THEN tx[s].freed[f] ELSE {}

Locked(id) == \E s \in Sessions : Wrote(s, id)

\* Tickets that can be deleted without waiting for a batch to end.
Deletable(ids) == \A id \in ids : ~Locked(id) /\ \A s \in Sessions : Freed(s, id) = {}

\* The foreign keys of the dependency table refer to the ticket.
Referenced(id) == deps[id] # {} \/ \E f \in Tickets : id \in deps[f]

AtMost(n, s) == IF Cardinality(s) < n THEN Cardinality(s) ELSE n

-----------------------------------------------------------------------------
\* Single statements.

\* The update whose turn it is.
Current(s) == tx[s].updates[tx[s].next]

\* Rows deleted by a statement are gone from the snapshots of the statements
\* under way: a row put again under the same id is another row.
Forget(ids) ==
  [s \in Sessions |->
     CASE tx[s].op = "poll" ->
            [tx[s] EXCEPT !.seen = [t \in Tickets |-> IF t \in ids THEN None ELSE @[t]]]
       [] tx[s].op = "expire" -> [tx[s] EXCEPT !.victims = @ \ ids]
       [] tx[s].op = "batch" /\ tx[s].view # None ->
            [tx[s] EXCEPT !.view =
               [gone    |-> @.gone \/ Current(s).id \in ids,
                waiters |-> IF Current(s).id \in ids THEN {} ELSE @.waiters \ ids]]
       [] OTHER -> tx[s]]

InTube(t) == IF t.tube = NoTube THEN [t EXCEPT !.tube = DefaultTube] ELSE t

\* INSERT ... ON CONFLICT DO UPDATE of every column but the group.
Upserted(id, t) == IF Present(id) THEN [t EXCEPT !.group = rows[id].group] ELSE t

Put(id, t) ==
  /\ ~Locked(id)
  /\ rows' = [rows EXCEPT ![id] = Upserted(id, InTube(t))]
  /\ polled' = NobodyPolled
  /\ UNCHANGED <<deps, tx>>

Delete(id) ==
  /\ Deletable({id})
  /\ Present(id)
  /\ ~Referenced(id)
  /\ rows' = [rows EXCEPT ![id] = None]
  /\ tx' = Forget({id})
  /\ polled' = NobodyPolled
  /\ UNCHANGED deps

\* The dependency rows of both roles go first, in the same statement.
DeleteBatch(ids) ==
  /\ ids # {}
  /\ Deletable(ids)
  /\ rows' = [id \in Tickets |-> IF id \in ids THEN None ELSE rows[id]]
  /\ deps' = [f \in Tickets |-> IF f \in ids THEN {} ELSE deps[f] \ ids]
  /\ tx' = Forget(ids)
  /\ polled' = NobodyPolled

-----------------------------------------------------------------------------
\* Sessions. Begin and End move one session and reset what was polled.

Begin(s, record) ==
  /\ tx[s] = Idle
  /\ tx' = [tx EXCEPT ![s] = record]
  /\ polled' = NobodyPolled
  /\ UNCHANGED <<rows, deps>>

End(s) == tx' = [tx EXCEPT ![s] = Idle]

\* The connection is lost, the context ends, or the deadlock detector chose it.
Abort(s) ==
  /\ tx[s] # Idle
  /\ End(s)
  /\ polled' = NobodyPolled
  /\ UNCHANGED <<rows, deps>>

-----------------------------------------------------------------------------
\* UpdateBatch.

UpdateBatch(s, updates) ==
  Begin(s, [op |-> "batch", updates |-> updates, next |-> 1,
            writes |-> [t \in Tickets |-> None], freed |-> [t \in Tickets |-> {}],
            view |-> None])

\* The row as a statement of session s sees it.
Visible(s, id) == IF tx[s].writes[id] # None THEN tx[s].writes[id] ELSE rows[id]

\* The finalizers that the snapshot of its current statement shows waiting.
Waiters(s) == IF tx[s].view = None THEN {f \in Tickets : Current(s).id \in deps[f]}
              ELSE tx[s].view.waiters
Gone(s) == tx[s].view # None /\ tx[s].view.gone

\* The writes and the deleted dependency rows of the batch after update us: a
\* missing row is skipped, and a terminal status frees those who wait.
WritesAfter(s, us) ==
  IF Gone(s) \/ Visible(s, us.id) = None THEN tx[s].writes
  ELSE [tx[s].writes EXCEPT ![us.id] = UpdateOne(Visible(s, us.id), us)]

\* Mutant: the dependency rows are deleted whatever the status.
FreedAnyhow(s, us) ==
  [f \in Tickets |-> IF f \in Waiters(s)
                     THEN tx[s].freed[f] \union {us.id} ELSE tx[s].freed[f]]

FreedAfter(s, us) ==
  [f \in Tickets |-> IF us.status \in Terminal /\ f \in Waiters(s)
                     THEN tx[s].freed[f] \union {us.id} ELSE tx[s].freed[f]]

\* The row that the current statement updates is free, or another batch has it.
StatementReady(s) ==
  /\ tx[s].op = "batch"
  /\ \A r \in Sessions \ {s} : ~Wrote(r, Current(s).id)

\* The main UPDATE waits for the row; the sub-statement that deletes from the
\* dependency table runs after it, with the snapshot taken before.
StatementWaits(s) ==
  /\ tx[s].op = "batch"
  /\ ~StatementReady(s)
  /\ tx[s].view = None
  /\ tx' = [tx EXCEPT ![s].view = [gone |-> FALSE, waiters |-> Waiters(s)]]
  /\ polled' = NobodyPolled
  /\ UNCHANGED <<rows, deps>>

\* A statement that is not the last one.
UpdateStatement(s) ==
  /\ StatementReady(s)
  /\ tx[s].next < Len(tx[s].updates)
  /\ tx' = [tx EXCEPT ![s].next   = @ + 1,
                      ![s].writes = WritesAfter(s, Current(s)),
                      ![s].freed  = FreedAfter(s, Current(s)),
                      ![s].view   = None]
  /\ polled' = NobodyPolled
  /\ UNCHANGED <<rows, deps>>

\* The last statement, and with it the commit.
CommitBatch(s) ==
  /\ StatementReady(s)
  /\ tx[s].next = Len(tx[s].updates)
  /\ rows' = [t \in Tickets |-> Coalesce(WritesAfter(s, Current(s))[t], rows[t])]
  /\ deps' = [t \in Tickets |-> deps[t] \ FreedAfter(s, Current(s))[t]]
  /\ End(s)
  /\ polled' = NobodyPolled

-----------------------------------------------------------------------------
\* Update. The query reads neither the tube nor the group.

Read(id) == [rows[id] EXCEPT !.tube = NoTube, !.group = None]

StartUpdate(s, id, fn) ==
  /\ Present(id)
  /\ fn[Read(id)] # None
  /\ Begin(s, [op |-> "update", id |-> id, new |-> fn[Read(id)]])

FinishUpdate(s) ==
  /\ tx[s].op = "update"
  /\ ~Locked(tx[s].id)
  /\ rows' = [rows EXCEPT ![tx[s].id] =
                Upserted(tx[s].id, [tx[s].new EXCEPT !.group = None])]
  /\ End(s)
  /\ polled' = NobodyPolled
  /\ UNCHANGED deps

-----------------------------------------------------------------------------
\* PutAfterGroup: the members are those of the snapshot, the id must be new
\* and the foreign keys must hold when the rows are inserted.

StartPutAfterGroup(s, id, t, g) ==
  Begin(s, [op |-> "register", id |-> id, new |-> InTube(t),
            members |-> {m \in Tickets \ {id} : InGroup(m, g)}])

\* Mutant: an id in use is wired to the group all the same.
FinishPutAfterGroupAgain(s) ==
  /\ tx[s].op = "register"
  /\ ~Locked(tx[s].id)
  /\ \A m \in tx[s].members : Present(m)
  /\ rows' = [rows EXCEPT ![tx[s].id] = Upserted(tx[s].id, tx[s].new)]
  /\ deps' = [deps EXCEPT ![tx[s].id] = @ \union tx[s].members]
  /\ End(s)
  /\ polled' = NobodyPolled

FinishPutAfterGroup(s) ==
  /\ tx[s].op = "register"
  /\ ~Present(tx[s].id)
  /\ \A m \in tx[s].members : Present(m)
  /\ rows' = [rows EXCEPT ![tx[s].id] = tx[s].new]
  /\ deps' = [deps EXCEPT ![tx[s].id] = tx[s].members]
  /\ End(s)
  /\ polled' = NobodyPolled

-----------------------------------------------------------------------------
\* PollPending.

Due(t, tubes) == /\ t # None
                 /\ t.status = "pending"
                 /\ t.runat <= 0
                 /\ t.tube \in tubes

\* setTubes refuses an empty name.
StartPoll(s, tubes) ==
  /\ NoTube \notin tubes
  /\ Begin(s, [op |-> "poll", tubes |-> tubes,
               seen |-> [t \in Tickets |-> IF Due(rows[t], tubes) /\ deps[t] = {}
                                           THEN rows[t] ELSE None]])

\* Mutant: the rows are taken as the snapshot had them.
LockableUnchecked(s) == {t \in Tickets : tx[s].seen[t] # None /\ ~Locked(t)}

\* FOR UPDATE SKIP LOCKED: the rows of the snapshot that nobody holds and
\* that still meet the conditions.
Lockable(s) == {t \in Tickets : /\ tx[s].seen[t] # None
                                /\ ~Locked(t)
                                /\ Due(rows[t], tx[s].tubes)}

\* The first Limit of them, in the order they had in the snapshot.
Taken(s) ==
  {c \in SUBSET Lockable(s) :
     /\ Cardinality(c) = AtMost(Limit, Lockable(s))
     /\ \A t \in c, u \in Lockable(s) \ c : ~Before(tx[s].seen[u], tx[s].seen[t])}

Bumped(t) == [t EXCEPT !.runat = PollDelays[t.attempts],
                       !.attempts = NextAttempt(@)]

\* The tickets returned are those written.
FinishPoll(s) ==
  /\ tx[s].op = "poll"
  /\ \E c \in Taken(s) :
       /\ rows' = [t \in Tickets |-> IF t \in c THEN Bumped(rows[t]) ELSE rows[t]]
       /\ polled' = [t \in Tickets |-> IF t \in c THEN Bumped(rows[t]) ELSE None]
  /\ End(s)
  /\ UNCHANGED deps

-----------------------------------------------------------------------------
\* ExpireTickets. The sub-select is not evaluated again when a row it chose
\* has changed: the row is deleted whatever became of it.

Expired == {id \in Tickets : Present(id) /\ ~Pending(id) /\ rows[id].runat <= 0}

StartExpire(s) ==
  \E gone \in SUBSET Expired :
    /\ Cardinality(gone) = AtMost(ExpireLimit, Expired)
    /\ Begin(s, [op |-> "expire", victims |-> gone])

FinishExpire(s) ==
  /\ tx[s].op = "expire"
  /\ Deletable(tx[s].victims)
  /\ \A id \in tx[s].victims : ~Referenced(id)
  /\ rows' = [id \in Tickets |-> IF id \in tx[s].victims THEN None ELSE rows[id]]
  /\ tx' = [Forget(tx[s].victims) EXCEPT ![s] = Idle]
  /\ polled' = NobodyPolled
  /\ UNCHANGED deps

-----------------------------------------------------------------------------

\* Statements are short: time passes between them, and during a callback.
Tick ==
  /\ \A s \in Sessions : tx[s].op \in {"idle", "update"}
  /\ rows' = [id \in Tickets |-> IF Present(id) THEN Aged(rows[id]) ELSE None]
  /\ tx' = [s \in Sessions |-> IF tx[s].op = "update"
                               THEN [tx[s] EXCEPT !.new = Aged(@)] ELSE tx[s]]
  /\ polled' = NobodyPolled
  /\ UNCHANGED deps

Next ==
  \/ \E id \in Tickets, t \in Submissions : Put(id, t)
  \/ \E id \in Tickets : Delete(id)
  \/ \E ids \in SUBSET Tickets : DeleteBatch(ids)
  \/ Tick
  \/ \E s \in Sessions :
       \/ \E updates \in Batches : UpdateBatch(s, updates)
       \/ StatementWaits(s)
       \/ UpdateStatement(s)
       \/ CommitBatch(s)
       \/ \E id \in Tickets, fn \in FnUpdates : StartUpdate(s, id, fn)
       \/ FinishUpdate(s)
       \/ \E id \in Tickets, t \in Submissions, g \in Groups :
            t.group # g /\ StartPutAfterGroup(s, id, t, g)
       \/ FinishPutAfterGroup(s)
       \/ \E tubes \in SUBSET Tubes : StartPoll(s, tubes)
       \/ FinishPoll(s)
       \/ StartExpire(s)
       \/ FinishExpire(s)
       \/ Abort(s)

Spec == Init /\ [][Next]_pgVars

-----------------------------------------------------------------------------
(* Properties. *)

\* The foreign keys of the dependency table: who waits and who is waited for
\* are stored.
DepsStored ==
  \A f \in Tickets : deps[f] # {} => Present(f) /\ \A m \in deps[f] : Present(m)

\* Finalizers never wait for each other in a circle, however registrations,
\* deletions and re-submissions interleave: in every set of tickets there is
\* one that waits for nobody of the set. No query looks for cycles; it is
\* "ON CONFLICT DO NOTHING" with "EXISTS (SELECT 1 FROM inserted)", and the
\* foreign keys, that exclude them.
NoMutualWait ==
  \A S \in (SUBSET Tickets) \ {{}} : \E t \in S : deps[t] \intersect S = {}

\* A batch is at one of its updates, and what it has freed so far it freed for
\* one that finishes the member.
BatchesFree ==
  \A s \in Sessions : tx[s].op = "batch" =>
    /\ tx[s].next \in DOMAIN tx[s].updates
    /\ \A f \in Tickets : \A m \in tx[s].freed[f] :
         \E i \in DOMAIN tx[s].updates :
           tx[s].updates[i].id = m /\ tx[s].updates[i].status \in Terminal

\* What a poll has seen is still stored and still waits for nobody: only a
\* ticket that is new is ever registered to wait.
SeenEligible ==
  \A s \in Sessions : tx[s].op = "poll" =>
    \A t \in Tickets : tx[s].seen[t] # None => Present(t) /\ deps[t] = {}

\* A poll hands out only tickets that, when it commits, are pending, due,
\* held by no batch and waiting for nobody, and gives each a new lease that
\* nobody else has: two polls whose snapshots overlap share no ticket.
HandedOut ==
  [][\A id \in Tickets : polled'[id] # None =>
       /\ Pending(id) /\ rows[id].runat <= 0
       /\ ~Locked(id)
       /\ deps[id] = {}
       /\ rows'[id] = polled'[id]]_pgVars

\* A finalizer stops waiting for a member only in the commit of a batch that
\* finishes the member, or when one of the two is deleted: an abort, an
\* earlier statement of the batch, or the end of another member releases
\* nobody (the del_deps clauses of update and backoff).
ReleasedByFinish ==
  [][\A f \in Tickets : \A m \in deps[f] \ deps'[f] :
       \/ rows'[f] = None
       \/ rows'[m] = None
       \/ \E s \in Sessions :
            /\ tx[s].op = "batch" /\ tx'[s] = Idle
            /\ \E i \in DOMAIN tx[s].updates :
                 tx[s].updates[i].id = m /\ tx[s].updates[i].status \in Terminal]_pgVars

\* Whoever blocks a finalizer is still pending: PutAfterGroup wires a
\* finalizer atomically to the members that are pending.
BlockersPending ==
  \A f \in Tickets : \A m \in deps[f] : Pending(m)

\* ExpireTickets only removes tickets that are not pending.
ExpireOnlyTerminal ==
  [][\A s \in Sessions : tx[s].op = "expire" /\ FinishExpire(s) =>
       \A id \in tx[s].victims : ~Pending(id)]_pgVars
=============================================================================
