---------------------------- MODULE PgStoreProofs ----------------------------
(***************************************************************************)
(* Proofs about PgStore, for every set of tickets, sessions, batches,      *)
(* callbacks, delays and limits.                                           *)
(***************************************************************************)
EXTENDS PgStore, TicketsProofs

-----------------------------------------------------------------------------
(* Types. *)

Batch == [op: {"batch"}, updates: Seq(UpdateSet), next: Nat, writes: [Tickets -> Row],
          freed: [Tickets -> SUBSET Tickets], view: View]

\* The operation of a session tells the fields of its record.
LEMMA TransactionKinds ==
  ASSUME TypeOK, NEW s \in Sessions
  PROVE  /\ tx[s].op = "batch" => tx[s] \in Batch
         /\ tx[s].op = "update" => tx[s] \in [op: {"update"}, id: Tickets, new: Ticket]
         /\ tx[s].op = "register" =>
              tx[s] \in [op: {"register"}, id: Tickets, new: Ticket, members: SUBSET Tickets]
         /\ tx[s].op = "poll" =>
              tx[s] \in [op: {"poll"}, tubes: SUBSET Tubes, seen: [Tickets -> Row]]
         /\ tx[s].op = "expire" => tx[s] \in [op: {"expire"}, victims: SUBSET Tickets]
<1>1. tx[s] \in Transaction
  BY DEF TypeOK
<1> QED BY <1>1 DEF Transaction, Idle, Batch

\* Every state a session may be in is a transaction.
LEMMA IsTransaction ==
  /\ Idle \in Transaction
  /\ Batch \subseteq Transaction
  /\ \A id \in Tickets, t \in Ticket : [op |-> "update", id |-> id, new |-> t] \in Transaction
  /\ \A id \in Tickets, t \in Ticket, m \in SUBSET Tickets :
       [op |-> "register", id |-> id, new |-> t, members |-> m] \in Transaction
  /\ \A T \in SUBSET Tubes, seen \in [Tickets -> Row] :
       [op |-> "poll", tubes |-> T, seen |-> seen] \in Transaction
  /\ \A v \in SUBSET Tickets : [op |-> "expire", victims |-> v] \in Transaction
BY DEF Transaction, Batch

\* Forgetting rows keeps every session what it is.
LEMMA ForgetType ==
  ASSUME TypeOK, NEW ids \in SUBSET Tickets
  PROVE  Forget(ids) \in [Sessions -> Transaction]
<1> SUFFICES ASSUME NEW s \in Sessions
             PROVE  Forget(ids)[s] \in Transaction
  BY DEF Forget
<1>1. CASE tx[s].op = "poll"
  <2> DEFINE seen == [t \in Tickets |-> IF t \in ids THEN None ELSE tx[s].seen[t]]
  <2>1. tx[s] \in [op: {"poll"}, tubes: SUBSET Tubes, seen: [Tickets -> Row]]
    BY <1>1, TransactionKinds
  <2>2. seen \in [Tickets -> Row]
    BY <2>1 DEF Row
  <2>3. Forget(ids)[s] = [tx[s] EXCEPT !.seen = seen]
    BY <1>1 DEF Forget
  <2> HIDE DEF seen
  <2>4. Forget(ids)[s] \in [op: {"poll"}, tubes: SUBSET Tubes, seen: [Tickets -> Row]]
    BY <2>1, <2>2, <2>3
  <2> QED BY <2>4 DEF Transaction
<1>2. CASE tx[s].op = "expire"
  <2>1. tx[s] \in [op: {"expire"}, victims: SUBSET Tickets]
    BY <1>2, TransactionKinds
  <2>2. Forget(ids)[s] = [tx[s] EXCEPT !.victims = @ \ ids]
    BY <1>2 DEF Forget
  <2>3. Forget(ids)[s] \in [op: {"expire"}, victims: SUBSET Tickets]
    BY <2>1, <2>2
  <2> QED BY <2>3 DEF Transaction
<1>3. CASE tx[s].op = "batch" /\ tx[s].view # None
  <2>1. tx[s] \in Batch
    BY <1>3, TransactionKinds
  <2>2. tx[s].view \in [gone: BOOLEAN, waiters: SUBSET Tickets]
    BY <1>3, <2>1 DEF Batch, View
  <2> DEFINE v == [gone    |-> tx[s].view.gone \/ Current(s).id \in ids,
                   waiters |-> IF Current(s).id \in ids THEN {} ELSE tx[s].view.waiters \ ids]
  <2>3. v \in View
    BY <2>2 DEF View
  <2>4. Forget(ids)[s] = [tx[s] EXCEPT !.view = v]
    <3>1. tx[s].op \notin {"poll", "expire"}
      BY <1>3
    <3> QED BY <1>3, <3>1 DEF Forget
  <2> HIDE DEF v
  <2>5. Forget(ids)[s] \in Batch
    BY <2>1, <2>3, <2>4 DEF Batch
  <2> QED BY <2>5, IsTransaction
<1>4. CASE tx[s].op \notin {"poll", "expire"} /\ ~(tx[s].op = "batch" /\ tx[s].view # None)
  BY <1>4 DEF Forget, TypeOK
<1> QED BY <1>1, <1>2, <1>3, <1>4

\* A poll writes well-formed tickets.
LEMMA BumpedType ==
  ASSUME NEW t \in Ticket
  PROVE  Bumped(t) \in Ticket
<1>1. t.attempts \in 0..MaxAttempts
  BY DEF Ticket
<1>2. PollDelays[t.attempts] \in Times
  BY <1>1, PollDelaysAssumption DEF Backoffs
<1>3. NextAttempt(t.attempts) \in 0..MaxAttempts
  BY <1>1, MaxAttemptsAssumption DEF NextAttempt
<1> QED BY <1>2, <1>3 DEF Bumped, Ticket

\* So does an insertion or an upsert.
LEMMA UpsertedType ==
  ASSUME TypeOK, NEW id \in Tickets, NEW t \in Ticket
  PROVE  /\ InTube(t) \in Ticket
         /\ Upserted(id, t) \in Ticket
         /\ [t EXCEPT !.group = None] \in Ticket
<1>1. InTube(t) \in Ticket
  BY TubesAssumption DEF InTube, Ticket
<1>2. [t EXCEPT !.group = None] \in Ticket
  BY DEF Ticket
<1>3. CASE Present(id)
  <2>1. rows[id].group \in Groups \union {None}
    BY <1>3 DEF TypeOK, Row, Present, Ticket
  <2> QED BY <1>1, <1>2, <1>3, <2>1 DEF Upserted, Ticket
<1>4. CASE ~Present(id)
  BY <1>1, <1>2, <1>4 DEF Upserted
<1> QED BY <1>3, <1>4

\* What a statement of a batch leaves in the batch.
LEMMA StatementType ==
  ASSUME TypeOK, NEW s \in Sessions, tx[s].op = "batch",
         tx[s].next \in DOMAIN tx[s].updates
  PROVE  /\ Current(s) \in UpdateSet
         /\ WritesAfter(s, Current(s)) \in [Tickets -> Row]
         /\ FreedAfter(s, Current(s)) \in [Tickets -> SUBSET Tickets]
<1>1. tx[s] \in Batch
  BY TransactionKinds
<1>2. PICK us \in UpdateSet : us = Current(s)
  BY <1>1 DEF Current, Batch
<1>3. us.id \in Tickets
  BY DEF UpdateSet
<1>4. Visible(s, us.id) \in Row
  BY <1>1, <1>3 DEF Visible, TypeOK, Batch
<1>5. WritesAfter(s, us) \in [Tickets -> Row]
  <2>1. CASE Gone(s) \/ Visible(s, us.id) = None
    BY <1>1, <2>1 DEF WritesAfter, Batch
  <2>2. CASE ~(Gone(s) \/ Visible(s, us.id) = None)
    <3>1. UpdateOne(Visible(s, us.id), us) \in Ticket
      BY <1>4, <2>2, UpdateOneType DEF Row
    <3> QED BY <1>1, <2>2, <3>1 DEF WritesAfter, Row, Batch
  <2> QED BY <2>1, <2>2
<1>6. FreedAfter(s, us) \in [Tickets -> SUBSET Tickets]
  BY <1>1, <1>3 DEF FreedAfter, Batch
<1> QED BY <1>2, <1>5, <1>6

\* What it remembers of its snapshot while it waits.
LEMMA WaitsType ==
  ASSUME TypeOK, NEW s \in Sessions, StatementWaits(s)
  PROVE  \E b \in Batch, v \in View :
           b = tx[s] /\ [b EXCEPT !.view = v] \in Batch
             /\ tx' = [tx EXCEPT ![s] = [b EXCEPT !.view = v]]
<1>1. PICK b \in Batch : b = tx[s]
  BY TransactionKinds DEF StatementWaits
<1>2. Waiters(s) \in SUBSET Tickets
  BY DEF StatementWaits, Waiters
<1>3. PICK v \in View : v = [gone |-> FALSE, waiters |-> Waiters(s)]
  BY <1>2 DEF View
<1>4. [b EXCEPT !.view = v] \in Batch
  BY DEF Batch
<1> QED BY <1>1, <1>3, <1>4 DEF StatementWaits

\* The state is well-formed, and every batch is at one of its updates.
LEMMA TypeStep ==
  ASSUME TypeOK, BatchesFree, [Next]_pgVars
  PROVE  TypeOK'
<1>0. NobodyPolled \in [Tickets -> Row] /\ Idle \in Transaction
  BY IsTransaction DEF NobodyPolled, Row
<1> USE DEF TypeOK
<1>1. ASSUME NEW id \in Tickets, NEW t \in Submissions, Put(id, t)
      PROVE  TypeOK'
  <2>1. InTube(t) \in Ticket
    BY SubmissionsAssumption, UpsertedType
  <2>2. Upserted(id, InTube(t)) \in Row
    BY <2>1, UpsertedType DEF Row
  <2> QED BY <1>0, <1>1, <2>2 DEF Put
<1>2. ASSUME NEW id \in Tickets, Delete(id)
      PROVE  TypeOK'
  <2>1. tx' \in [Sessions -> Transaction]
    BY <1>2, ForgetType DEF Delete
  <2>2. rows' \in [Tickets -> Row]
    BY <1>2 DEF Delete, Row
  <2> QED BY <1>0, <1>2, <2>1, <2>2 DEF Delete
<1>3. ASSUME NEW ids \in SUBSET Tickets, DeleteBatch(ids)
      PROVE  TypeOK'
  <2>1. tx' \in [Sessions -> Transaction]
    BY <1>3, ForgetType DEF DeleteBatch
  <2>2. rows' \in [Tickets -> Row] /\ deps' \in [Tickets -> SUBSET Tickets]
    BY <1>3 DEF DeleteBatch, Row
  <2> QED BY <1>0, <1>3, <2>1, <2>2 DEF DeleteBatch
<1>4. CASE Tick
  <2>1. rows' \in [Tickets -> Row]
    BY <1>4, AgedType DEF Tick, Present, Row
  <2>2. ASSUME NEW s \in Sessions PROVE tx'[s] \in Transaction
    <3>1. CASE tx[s].op = "update"
      <4>1. tx[s] \in [op: {"update"}, id: Tickets, new: Ticket]
        BY <3>1, TransactionKinds
      <4>2. PICK t \in Ticket : t = Aged(tx[s].new)
        BY <4>1, AgedType
      <4>3. tx'[s] = [tx[s] EXCEPT !.new = t]
        BY <1>4, <3>1, <4>2 DEF Tick
      <4>4. tx'[s] \in [op: {"update"}, id: Tickets, new: Ticket]
        BY <4>1, <4>2, <4>3
      <4> QED BY <4>4 DEF Transaction
    <3>2. CASE tx[s].op # "update"
      BY <1>4, <3>2 DEF Tick
    <3> QED BY <3>1, <3>2
  <2>3. tx' \in [Sessions -> Transaction]
    BY <1>4, <2>2 DEF Tick
  <2> QED BY <1>0, <1>4, <2>1, <2>3 DEF Tick
<1>b. ASSUME NEW s \in Sessions, NEW r \in Transaction, Begin(s, r)
      PROVE  TypeOK'
  BY <1>0, <1>b DEF Begin
<1>5. ASSUME NEW s \in Sessions, NEW updates \in Batches, UpdateBatch(s, updates)
      PROVE  TypeOK'
  <2>1. updates \in Seq(UpdateSet)
    BY BatchesAssumption
  <2>2. [t \in Tickets |-> None] \in [Tickets -> Row] /\ [t \in Tickets |-> {}] \in [Tickets -> SUBSET Tickets]
    BY DEF Row
  <2>3. [op |-> "batch", updates |-> updates, next |-> 1,
         writes |-> [t \in Tickets |-> None], freed |-> [t \in Tickets |-> {}],
         view |-> None] \in Transaction
    BY <2>1, <2>2, IsTransaction DEF Batch, View
  <2> QED BY <1>5, <1>b, <2>3 DEF UpdateBatch
<1>6. ASSUME NEW s \in Sessions, UpdateStatement(s)
      PROVE  TypeOK'
  <2>0. tx[s].op = "batch" /\ tx[s].next \in DOMAIN tx[s].updates
    BY <1>6 DEF UpdateStatement, StatementReady, BatchesFree
  <2>1. PICK r \in Batch : r = tx[s]
    BY <2>0, TransactionKinds
  <2>2. PICK w \in [Tickets -> Row] : w = WritesAfter(s, Current(s))
    BY <2>0, StatementType
  <2>3. PICK fr \in [Tickets -> SUBSET Tickets] : fr = FreedAfter(s, Current(s))
    BY <2>0, StatementType
  <2>4. PICK n \in Nat : n = r.next + 1
    BY DEF Batch
  <2>5. tx' = [tx EXCEPT ![s] = [r EXCEPT !.next = n, !.writes = w, !.freed = fr, !.view = None]]
    BY <1>6, <2>1, <2>2, <2>3, <2>4 DEF UpdateStatement
  <2>6. [r EXCEPT !.next = n, !.writes = w, !.freed = fr, !.view = None] \in Batch
    BY DEF Batch, View
  <2>7. tx' \in [Sessions -> Transaction]
    BY <2>5, <2>6, IsTransaction
  <2> QED BY <1>0, <1>6, <2>7 DEF UpdateStatement
<1>7. ASSUME NEW s \in Sessions, CommitBatch(s)
      PROVE  TypeOK'
  <2>0. tx[s].op = "batch" /\ tx[s].next \in DOMAIN tx[s].updates
    BY <1>7 DEF CommitBatch, StatementReady, BatchesFree
  <2>2. PICK w \in [Tickets -> Row] : w = WritesAfter(s, Current(s))
    BY <2>0, StatementType
  <2>3. rows' \in [Tickets -> Row]
    BY <1>7, <2>2 DEF CommitBatch, Coalesce, Row
  <2>4. deps' \in [Tickets -> SUBSET Tickets]
    BY <1>7 DEF CommitBatch
  <2> QED BY <1>0, <1>7, <2>3, <2>4 DEF CommitBatch, End
<1>8. ASSUME NEW s \in Sessions, NEW id \in Tickets, NEW fn \in FnUpdates, StartUpdate(s, id, fn)
      PROVE  TypeOK'
  <2>1. Read(id) \in Ticket
    BY <1>8, TubesAssumption DEF StartUpdate, Present, Read, Row, Ticket
  <2>2. fn[Read(id)] \in Ticket
    BY <1>8, <2>1, FnUpdatesAssumption DEF StartUpdate
  <2>3. [op |-> "update", id |-> id, new |-> fn[Read(id)]] \in Transaction
    BY <2>2, IsTransaction
  <2> QED BY <1>8, <1>b, <2>3 DEF StartUpdate
<1>9. ASSUME NEW s \in Sessions, FinishUpdate(s)
      PROVE  TypeOK'
  <2>1. tx[s].id \in Tickets /\ tx[s].new \in Ticket
    BY <1>9, TransactionKinds DEF FinishUpdate
  <2>2. Upserted(tx[s].id, [tx[s].new EXCEPT !.group = None]) \in Row
    BY <2>1, UpsertedType DEF Row
  <2>3. rows' \in [Tickets -> Row]
    BY <1>9, <2>2 DEF FinishUpdate
  <2> QED BY <1>0, <1>9, <2>3 DEF FinishUpdate, End
<1>10. ASSUME NEW s \in Sessions, NEW id \in Tickets, NEW t \in Submissions, NEW g \in Groups,
              StartPutAfterGroup(s, id, t, g)
      PROVE  TypeOK'
  <2>1. InTube(t) \in Ticket
    BY SubmissionsAssumption, UpsertedType
  <2>2. PICK members \in SUBSET Tickets : members = {m \in Tickets \ {id} : InGroup(m, g)}
    OBVIOUS
  <2>3. [op |-> "register", id |-> id, new |-> InTube(t), members |-> members] \in Transaction
    BY <2>1, IsTransaction
  <2> QED BY <1>10, <1>b, <2>2, <2>3 DEF StartPutAfterGroup
<1>11. ASSUME NEW s \in Sessions, FinishPutAfterGroup(s)
      PROVE  TypeOK'
  <2>1. tx[s].id \in Tickets /\ tx[s].new \in Ticket /\ tx[s].members \in SUBSET Tickets
    BY <1>11, TransactionKinds DEF FinishPutAfterGroup
  <2>2. rows' \in [Tickets -> Row] /\ deps' \in [Tickets -> SUBSET Tickets]
    BY <1>11, <2>1 DEF FinishPutAfterGroup, Row
  <2> QED BY <1>0, <1>11, <2>2 DEF FinishPutAfterGroup, End
<1>12. ASSUME NEW s \in Sessions, NEW tubes \in SUBSET Tubes, StartPoll(s, tubes)
      PROVE  TypeOK'
  <2>1. PICK seen : seen = [t \in Tickets |-> IF Due(rows[t], tubes) /\ deps[t] = {}
                                              THEN rows[t] ELSE None]
    OBVIOUS
  <2>2. seen \in [Tickets -> Row]
    BY <2>1 DEF Row
  <2>3. [op |-> "poll", tubes |-> tubes, seen |-> seen] \in Transaction
    BY <2>2, IsTransaction
  <2> QED BY <1>12, <1>b, <2>1, <2>3 DEF StartPoll
<1>13. ASSUME NEW s \in Sessions, FinishPoll(s)
      PROVE  TypeOK'
  <2>1. PICK c \in Taken(s) :
          /\ rows' = [t \in Tickets |-> IF t \in c THEN Bumped(rows[t]) ELSE rows[t]]
          /\ polled' = [t \in Tickets |-> IF t \in c THEN Bumped(rows[t]) ELSE None]
    BY <1>13 DEF FinishPoll
  <2>2. \A t \in c : rows[t] \in Ticket
    BY DEF Taken, Lockable, Due, Row
  <2>3. \A t \in c : Bumped(rows[t]) \in Ticket
    BY <2>2, BumpedType
  <2>4. rows' \in [Tickets -> Row] /\ polled' \in [Tickets -> Row]
    BY <2>1, <2>3 DEF Row
  <2> QED BY <1>0, <1>13, <2>4 DEF FinishPoll, End
<1>14. ASSUME NEW s \in Sessions, StartExpire(s)
      PROVE  TypeOK'
  <2>1. PICK gone \in SUBSET Expired : Begin(s, [op |-> "expire", victims |-> gone])
    BY <1>14 DEF StartExpire
  <2>2. [op |-> "expire", victims |-> gone] \in Transaction
    BY IsTransaction DEF Expired
  <2> QED BY <1>b, <2>1, <2>2
<1>15. ASSUME NEW s \in Sessions, FinishExpire(s)
      PROVE  TypeOK'
  <2>1. tx[s].victims \in SUBSET Tickets
    BY <1>15, TransactionKinds DEF FinishExpire
  <2>2. tx' \in [Sessions -> Transaction]
    BY <1>0, <1>15, <2>1, ForgetType DEF FinishExpire
  <2>3. rows' \in [Tickets -> Row]
    BY <1>15 DEF FinishExpire, Row
  <2> QED BY <1>0, <1>15, <2>2, <2>3 DEF FinishExpire
<1>16. ASSUME NEW s \in Sessions, Abort(s)
      PROVE  TypeOK'
  BY <1>0, <1>16 DEF Abort, End
<1>17. CASE UNCHANGED pgVars
  BY <1>17 DEF pgVars
<1>18. ASSUME NEW s \in Sessions, StatementWaits(s)
       PROVE  TypeOK'
  <2>1. tx' \in [Sessions -> Transaction]
    BY <1>18, WaitsType, IsTransaction
  <2> QED BY <1>0, <1>18, <2>1 DEF StatementWaits
<1> QED
  BY <1>1, <1>2, <1>3, <1>4, <1>5, <1>6, <1>7, <1>8, <1>9, <1>10, <1>11, <1>12, <1>13, <1>14,
     <1>15, <1>16, <1>17, <1>18 DEF Next

\* Most steps leave the batches alone, up to what their statements remember.
SameBatch(b, c) == b.updates = c.updates /\ b.next = c.next /\ b.freed = c.freed

LEMMA SameBatches ==
  ASSUME BatchesFree,
         \A s \in Sessions : tx'[s].op = "batch" => tx[s].op = "batch" /\ SameBatch(tx'[s], tx[s])
  PROVE  BatchesFree'
BY DEF BatchesFree, SameBatch

\* What Forget, Begin and End do to the sessions.
LEMMA ForgetSessions ==
  ASSUME TypeOK, NEW ids \in SUBSET Tickets, NEW s \in Sessions
  PROVE  /\ Forget(ids)[s].op = tx[s].op
         /\ tx[s].op = "batch" => SameBatch(Forget(ids)[s], tx[s])
         /\ tx[s].op \notin {"poll", "expire", "batch"} => Forget(ids)[s] = tx[s]
         /\ tx[s].op = "poll" =>
              Forget(ids)[s].seen = [t \in Tickets |-> IF t \in ids THEN None ELSE tx[s].seen[t]]
<1>1. CASE tx[s].op = "poll"
  <2>1. PICK r \in [op: {"poll"}, tubes: SUBSET Tubes, seen: [Tickets -> Row]] : r = tx[s]
    BY <1>1, TransactionKinds
  <2>2. Forget(ids)[s] = [r EXCEPT !.seen = [t \in Tickets |-> IF t \in ids THEN None ELSE @[t]]]
    BY <1>1, <2>1 DEF Forget
  <2> QED BY <1>1, <2>1, <2>2
<1>2. CASE tx[s].op = "expire"
  <2>1. PICK r \in [op: {"expire"}, victims: SUBSET Tickets] : r = tx[s]
    BY <1>2, TransactionKinds
  <2>2. Forget(ids)[s] = [r EXCEPT !.victims = @ \ ids]
    BY <1>2, <2>1 DEF Forget
  <2> QED BY <1>2, <2>1, <2>2
<1>3. CASE tx[s].op = "batch"
  <2>1. PICK b \in Batch : b = tx[s]
    BY <1>3, TransactionKinds
  <2>2. \/ Forget(ids)[s] = b
        \/ \E v : Forget(ids)[s] = [b EXCEPT !.view = v]
    BY <1>3, <2>1 DEF Forget
  <2> QED BY <1>3, <2>1, <2>2 DEF Batch, SameBatch
<1>4. CASE tx[s].op \notin {"poll", "expire", "batch"}
  BY <1>4 DEF Forget
<1> QED BY <1>1, <1>2, <1>3, <1>4

\* A tick ages the ticket an Update is about to write, and no other session.
LEMMA TickSessions ==
  ASSUME TypeOK, Tick, NEW s \in Sessions
  PROVE  tx'[s].op = tx[s].op /\ tx[s].op \in {"idle", "update"}
<1>1. tx[s].op \in {"idle", "update"}
  BY DEF Tick
<1>2. CASE tx[s].op = "update"
  <2>1. PICK r \in [op: {"update"}, id: Tickets, new: Ticket] : r = tx[s]
    BY <1>2, TransactionKinds
  <2>2. tx'[s] = [r EXCEPT !.new = Aged(@)]
    BY <1>2, <2>1 DEF Tick
  <2> QED BY <1>2, <2>1, <2>2
<1>3. CASE tx[s].op # "update"
  BY <1>1, <1>3 DEF Tick
<1> QED BY <1>1, <1>2, <1>3

\* A statement frees a finalizer from a member it finishes, or from nobody.
LEMMA FreedBy ==
  ASSUME TypeOK, BatchesFree, NEW s \in Sessions, tx[s].op = "batch",
         NEW f \in Tickets, NEW m \in FreedAfter(s, Current(s))[f]
  PROVE  \E i \in DOMAIN tx[s].updates :
           tx[s].updates[i].id = m /\ tx[s].updates[i].status \in Terminal
<1>1. tx[s].next \in DOMAIN tx[s].updates
  BY DEF BatchesFree
<1>2. CASE m \in tx[s].freed[f]
  BY <1>2 DEF BatchesFree
<1>3. CASE m \notin tx[s].freed[f]
  <2>1. Current(s).status \in Terminal /\ m = Current(s).id
    BY <1>3 DEF FreedAfter
  <2> QED BY <1>1, <2>1 DEF Current
<1> QED BY <1>2, <1>3

LEMMA BatchesStep ==
  ASSUME TypeOK, BatchesFree, [Next]_pgVars
  PROVE  BatchesFree'
<1>0. Idle.op = "idle"
  BY DEF Idle
<1>b. ASSUME NEW s \in Sessions, NEW r, r.op # "batch", Begin(s, r)
      PROVE  BatchesFree'
  BY <1>b, SameBatches DEF Begin, TypeOK, SameBatch
<1>e. ASSUME NEW s \in Sessions, End(s)
      PROVE  BatchesFree'
  BY <1>0, <1>e, SameBatches DEF End, TypeOK, SameBatch
<1>1. ASSUME NEW id \in Tickets, Delete(id)
      PROVE  BatchesFree'
  <2>1. {id} \in SUBSET Tickets /\ tx' = Forget({id})
    BY <1>1 DEF Delete
  <2> QED BY <2>1, ForgetSessions, SameBatches
<1>2. ASSUME NEW ids \in SUBSET Tickets, DeleteBatch(ids)
      PROVE  BatchesFree'
  BY <1>2, ForgetSessions, SameBatches DEF DeleteBatch
<1>3. CASE Tick
  BY <1>3, TickSessions, SameBatches DEF Tick, SameBatch
<1>4. ASSUME NEW s \in Sessions, NEW updates \in Batches, UpdateBatch(s, updates)
      PROVE  BatchesFree'
  <2>1. updates \in Seq(UpdateSet) /\ updates # <<>>
    BY BatchesAssumption
  <2>2. 1 \in DOMAIN updates
    BY <2>1
  <2>3. tx' = [tx EXCEPT ![s] = [op |-> "batch", updates |-> updates, next |-> 1,
                                 writes |-> [t \in Tickets |-> None],
                                 freed |-> [t \in Tickets |-> {}], view |-> None]]
    BY <1>4 DEF UpdateBatch, Begin
  <2>4. \A q \in Sessions \ {s} : tx'[q] = tx[q]
    BY <2>3 DEF TypeOK
  <2>5. /\ tx'[s].updates = updates /\ tx'[s].next = 1
        /\ tx'[s].freed = [t \in Tickets |-> {}]
    BY <2>3 DEF TypeOK
  <2> QED BY <2>2, <2>4, <2>5 DEF BatchesFree
<1>5. ASSUME NEW s \in Sessions, UpdateStatement(s)
      PROVE  BatchesFree'
  <2>0. tx[s].op = "batch" /\ tx[s].next \in DOMAIN tx[s].updates /\ tx[s].next < Len(tx[s].updates)
    BY <1>5 DEF UpdateStatement, StatementReady, BatchesFree
  <2>1. PICK r \in Batch : r = tx[s]
    BY <2>0, TransactionKinds
  <2>2. PICK w, fr : w = WritesAfter(s, Current(s)) /\ fr = FreedAfter(s, Current(s))
    OBVIOUS
  <2>3. tx' = [tx EXCEPT ![s] = [r EXCEPT !.next = @ + 1, !.writes = w, !.freed = fr, !.view = None]]
    BY <1>5, <2>1, <2>2 DEF UpdateStatement
  <2>4. \A q \in Sessions \ {s} : tx'[q] = tx[q]
    BY <2>3 DEF TypeOK
  <2>5. tx'[s].updates = r.updates /\ tx'[s].next = r.next + 1 /\ tx'[s].freed = fr
    BY <2>1, <2>3 DEF TypeOK, Batch
  <2>6. r.next + 1 \in DOMAIN r.updates
    BY <2>0, <2>1 DEF Batch
  <2>7. \A f \in Tickets : \A m \in fr[f] :
          \E i \in DOMAIN r.updates : r.updates[i].id = m /\ r.updates[i].status \in Terminal
    BY <2>0, <2>1, <2>2, FreedBy
  <2>8. /\ tx'[s].next \in DOMAIN tx'[s].updates
        /\ \A f \in Tickets : \A m \in tx'[s].freed[f] :
             \E i \in DOMAIN tx'[s].updates :
               tx'[s].updates[i].id = m /\ tx'[s].updates[i].status \in Terminal
    BY <2>5, <2>6, <2>7
  <2> QED BY <2>4, <2>8 DEF BatchesFree
<1>6. ASSUME NEW s \in Sessions, FinishExpire(s)
      PROVE  BatchesFree'
  <2>1. PICK v \in SUBSET Tickets : v = tx[s].victims
    BY <1>6, TransactionKinds DEF FinishExpire
  <2>2. \A q \in Sessions : tx'[q] = IF q = s THEN Idle ELSE Forget(v)[q]
    BY <1>6, <2>1, ForgetType DEF FinishExpire
  <2>3. ASSUME NEW q \in Sessions, tx'[q].op = "batch"
        PROVE  tx[q].op = "batch" /\ SameBatch(tx'[q], tx[q])
    <3>1. tx'[q] = Forget(v)[q]
      BY <1>0, <2>2, <2>3
    <3> QED BY <2>3, <3>1, ForgetSessions
  <2> QED BY <2>3, SameBatches
<1>7. ASSUME NEW s \in Sessions,
             CommitBatch(s) \/ FinishUpdate(s) \/ FinishPutAfterGroup(s) \/ FinishPoll(s) \/ Abort(s)
      PROVE  BatchesFree'
  BY <1>7, <1>e DEF CommitBatch, FinishUpdate, FinishPutAfterGroup, FinishPoll, Abort
<1>8. ASSUME NEW s \in Sessions, NEW id \in Tickets, NEW fn \in FnUpdates, StartUpdate(s, id, fn)
      PROVE  BatchesFree'
  BY <1>8, <1>b DEF StartUpdate
<1>9. ASSUME NEW s \in Sessions, NEW id \in Tickets, NEW t \in Submissions, NEW g \in Groups,
             StartPutAfterGroup(s, id, t, g)
      PROVE  BatchesFree'
  BY <1>9, <1>b DEF StartPutAfterGroup
<1>10. ASSUME NEW s \in Sessions, NEW tubes \in SUBSET Tubes, StartPoll(s, tubes)
       PROVE  BatchesFree'
  BY <1>10, <1>b DEF StartPoll
<1>11. ASSUME NEW s \in Sessions, StartExpire(s)
       PROVE  BatchesFree'
  BY <1>11, <1>b DEF StartExpire
<1>12. CASE UNCHANGED tx
  BY <1>12, SameBatches DEF SameBatch
<1>13. ASSUME NEW s \in Sessions, StatementWaits(s)
       PROVE  BatchesFree'
  <2>1. PICK b \in Batch, v \in View : b = tx[s] /\ tx' = [tx EXCEPT ![s] = [b EXCEPT !.view = v]]
    BY <1>13, WaitsType
  <2>2. SameBatch([b EXCEPT !.view = v], b) /\ b.op = "batch"
    BY DEF SameBatch, Batch
  <2>3. \A q \in Sessions : tx'[q].op = "batch" => tx[q].op = "batch" /\ SameBatch(tx'[q], tx[q])
    BY <2>1, <2>2 DEF TypeOK, SameBatch
  <2> QED BY <2>3, SameBatches
<1> QED
  BY <1>1, <1>2, <1>3, <1>4, <1>5, <1>6, <1>7, <1>8, <1>9, <1>10, <1>11, <1>12, <1>13
     DEF Next, Put, pgVars

-----------------------------------------------------------------------------
(* Rows and dependencies: when they appear and when they go. *)

\* A row is deleted by three operations only.
LEMMA Removals ==
  ASSUME TypeOK, BatchesFree, [Next]_pgVars, NEW id \in Tickets, Present(id), ~Present(id)'
  PROVE  \/ Delete(id)
         \/ \E ids \in SUBSET Tickets : DeleteBatch(ids) /\ id \in ids
         \/ \E s \in Sessions : FinishExpire(s) /\ id \in tx[s].victims
<1> USE DEF Present
<1>1. ASSUME NEW i \in Tickets, NEW t \in Submissions, Put(i, t)
      PROVE  FALSE
  <2>1. InTube(t) \in Ticket
    BY SubmissionsAssumption, UpsertedType
  <2>2. Upserted(i, InTube(t)) # None
    BY <2>1, UpsertedType, NoneAssumption
  <2> QED BY <1>1, <2>2 DEF Put, TypeOK
<1>2. CASE Tick
  <2>1. Aged(rows[id]) # None
    BY AgedType, NoneAssumption DEF TypeOK, Row
  <2> QED BY <1>2, <2>1 DEF Tick
<1>3. ASSUME NEW s \in Sessions, CommitBatch(s)
      PROVE  FALSE
  BY <1>3 DEF CommitBatch, Coalesce
<1>4. ASSUME NEW s \in Sessions, FinishUpdate(s)
      PROVE  FALSE
  <2>1. tx[s].id \in Tickets /\ tx[s].new \in Ticket
    BY <1>4, TransactionKinds DEF FinishUpdate
  <2>2. Upserted(tx[s].id, [tx[s].new EXCEPT !.group = None]) # None
    BY <2>1, UpsertedType, NoneAssumption
  <2> QED BY <1>4, <2>2 DEF FinishUpdate, TypeOK
<1>5. ASSUME NEW s \in Sessions, FinishPutAfterGroup(s)
      PROVE  FALSE
  <2>1. tx[s].new \in Ticket
    BY <1>5, TransactionKinds DEF FinishPutAfterGroup
  <2> QED BY <1>5, <2>1, NoneAssumption DEF FinishPutAfterGroup, TypeOK
<1>6. ASSUME NEW s \in Sessions, FinishPoll(s)
      PROVE  FALSE
  <2>1. PICK c \in Taken(s) :
          rows' = [t \in Tickets |-> IF t \in c THEN Bumped(rows[t]) ELSE rows[t]]
    BY <1>6 DEF FinishPoll
  <2>2. Bumped(rows[id]) # None
    BY BumpedType, NoneAssumption DEF TypeOK, Row
  <2> QED BY <2>1, <2>2
<1>7. ASSUME NEW i \in Tickets, Delete(i)
      PROVE  Delete(id)
  <2>1. i = id
    BY <1>7 DEF Delete, TypeOK
  <2> QED BY <1>7, <2>1
<1>8. ASSUME NEW ids \in SUBSET Tickets, DeleteBatch(ids)
      PROVE  id \in ids
  BY <1>8 DEF DeleteBatch
<1>9. ASSUME NEW s \in Sessions, FinishExpire(s)
      PROVE  id \in tx[s].victims
  BY <1>9 DEF FinishExpire
<1>10. CASE UNCHANGED rows
  BY <1>10
<1> QED
  BY <1>1, <1>2, <1>3, <1>4, <1>5, <1>6, <1>7, <1>8, <1>9, <1>10
     DEF Next, UpdateBatch, StatementWaits, UpdateStatement, StartUpdate, StartPutAfterGroup, StartPoll,
         StartExpire, Begin, Abort, pgVars

\* A ticket starts to wait only when it is registered.
LEMMA NewWaits ==
  ASSUME TypeOK, [Next]_pgVars, NEW f \in Tickets, NEW m \in deps'[f], m \notin deps[f]
  PROVE  \E s \in Sessions : FinishPutAfterGroup(s) /\ f = tx[s].id /\ m \in tx[s].members
<1>1. ASSUME NEW ids \in SUBSET Tickets, DeleteBatch(ids)
      PROVE  FALSE
  BY <1>1 DEF DeleteBatch
<1>2. ASSUME NEW s \in Sessions, CommitBatch(s)
      PROVE  FALSE
  BY <1>2 DEF CommitBatch
<1>3. ASSUME NEW s \in Sessions, FinishPutAfterGroup(s)
      PROVE  f = tx[s].id /\ m \in tx[s].members
  BY <1>3 DEF FinishPutAfterGroup, TypeOK
<1>4. CASE UNCHANGED deps
  BY <1>4
<1> QED
  BY <1>1, <1>2, <1>3, <1>4
     DEF Next, Put, Delete, Tick, UpdateBatch, StatementWaits, UpdateStatement, StartUpdate, FinishUpdate,
         StartPutAfterGroup, StartPoll, FinishPoll, StartExpire, FinishExpire, Begin, Abort, pgVars

LEMMA DepsStep ==
  ASSUME TypeOK, BatchesFree, DepsStored, [Next]_pgVars
  PROVE  DepsStored'
<1> SUFFICES ASSUME NEW f \in Tickets, NEW m \in deps'[f]
             PROVE  Present(f)' /\ Present(m)'
  BY DEF DepsStored
<1>1. m \in Tickets
  BY TypeStep DEF TypeOK
<1>2. ASSUME NEW s \in Sessions, FinishPutAfterGroup(s), f = tx[s].id, m \in tx[s].members
      PROVE  Present(f)' /\ Present(m)'
  <2>1. tx[s].id \in Tickets /\ tx[s].new \in Ticket
    BY <1>2, TransactionKinds DEF FinishPutAfterGroup
  <2> QED BY <1>1, <1>2, <2>1, NoneAssumption DEF FinishPutAfterGroup, TypeOK, Present
<1>3. CASE m \in deps[f]
  <2>1. ASSUME NEW id \in {f, m} PROVE Present(id)'
    <3>0. id \in Tickets /\ Present(id) /\ Referenced(id)
      BY <1>1, <1>3 DEF DepsStored, Referenced
    <3>1. ~Delete(id)
      BY <3>0 DEF Delete
    <3>2. ASSUME NEW ids \in SUBSET Tickets, DeleteBatch(ids), id \in ids PROVE FALSE
      BY <3>2 DEF DeleteBatch
    <3>3. ASSUME NEW s \in Sessions, FinishExpire(s), id \in tx[s].victims PROVE FALSE
      BY <3>0, <3>3 DEF FinishExpire
    <3> QED BY <3>0, <3>1, <3>2, <3>3, Removals
  <2> QED BY <2>1
<1> QED BY <1>2, <1>3, NewWaits

\* What a poll has seen and has not forgotten it saw before, unless it starts.
LEMMA SeenBefore ==
  ASSUME TypeOK, [Next]_pgVars, NEW s \in Sessions, NEW t \in Tickets,
         tx'[s].op = "poll", tx'[s].seen[t] # None
  PROVE  \/ Present(t) /\ deps[t] = {} /\ UNCHANGED <<rows, deps>>
         \/ tx[s].op = "poll" /\ tx[s].seen[t] # None
<1>0. Idle.op = "idle"
  BY DEF Idle
<1>q. tx'[s] = tx[s] => tx[s].op = "poll" /\ tx[s].seen[t] # None
  OBVIOUS
<1>b. ASSUME NEW q \in Sessions, NEW r, r.op # "poll", Begin(q, r)
      PROVE  tx'[s] = tx[s]
  BY <1>b DEF Begin, TypeOK
<1>e. ASSUME NEW q \in Sessions, End(q)
      PROVE  tx'[s] = tx[s]
  BY <1>0, <1>e DEF End, TypeOK
<1>f. ASSUME NEW ids \in SUBSET Tickets, tx'[s] = Forget(ids)[s]
      PROVE  tx[s].op = "poll" /\ tx[s].seen[t] # None
  <2>1. tx[s].op = "poll"
    BY <1>f, ForgetSessions
  <2>2. tx'[s].seen = [u \in Tickets |-> IF u \in ids THEN None ELSE tx[s].seen[u]]
    BY <1>f, <2>1, ForgetSessions
  <2> QED BY <2>1, <2>2
<1>1. ASSUME NEW id \in Tickets, Delete(id)
      PROVE  tx[s].op = "poll" /\ tx[s].seen[t] # None
  BY <1>1, <1>f DEF Delete
<1>2. ASSUME NEW ids \in SUBSET Tickets, DeleteBatch(ids)
      PROVE  tx[s].op = "poll" /\ tx[s].seen[t] # None
  BY <1>2, <1>f DEF DeleteBatch
<1>3. CASE Tick
  BY <1>3, TickSessions
<1>4. ASSUME NEW q \in Sessions, UpdateStatement(q)
      PROVE  tx'[s] = tx[s]
  <2>0. tx[q].op = "batch"
    BY <1>4 DEF UpdateStatement, StatementReady
  <2>1. PICK r \in Batch : r = tx[q]
    BY <2>0, TransactionKinds
  <2>2. PICK w, fr : tx' = [tx EXCEPT ![q] = [r EXCEPT !.next = @ + 1, !.writes = w, !.freed = fr,
                                                       !.view = None]]
    BY <1>4, <2>1 DEF UpdateStatement
  <2>3. s = q => tx'[s].op = "batch"
    BY <2>1, <2>2 DEF TypeOK, Batch
  <2> QED BY <2>2, <2>3 DEF TypeOK
<1>5. ASSUME NEW q \in Sessions, NEW tubes \in SUBSET Tubes, StartPoll(q, tubes)
      PROVE  \/ Present(t) /\ deps[t] = {} /\ UNCHANGED <<rows, deps>>
             \/ tx'[s] = tx[s]
  <2>1. PICK seen : /\ seen = [u \in Tickets |-> IF Due(rows[u], tubes) /\ deps[u] = {}
                                                 THEN rows[u] ELSE None]
                    /\ tx' = [tx EXCEPT ![q] = [op |-> "poll", tubes |-> tubes, seen |-> seen]]
                    /\ UNCHANGED <<rows, deps>>
    BY <1>5 DEF StartPoll, Begin
  <2>2. s = q => tx'[s].seen = seen
    BY <2>1 DEF TypeOK
  <2>3. s = q => Present(t) /\ deps[t] = {}
    BY <2>1, <2>2 DEF Present, Due
  <2> QED BY <2>1, <2>3 DEF TypeOK
<1>6. ASSUME NEW q \in Sessions, FinishExpire(q)
      PROVE  tx[s].op = "poll" /\ tx[s].seen[t] # None
  <2>1. PICK v \in SUBSET Tickets : v = tx[q].victims
    BY <1>6, TransactionKinds DEF FinishExpire
  <2>2. tx'[s] = IF s = q THEN Idle ELSE Forget(v)[s]
    BY <1>6, <2>1, ForgetType DEF FinishExpire
  <2> QED BY <1>0, <1>f, <2>2
<1>7. ASSUME NEW q \in Sessions,
             CommitBatch(q) \/ FinishUpdate(q) \/ FinishPutAfterGroup(q) \/ FinishPoll(q) \/ Abort(q)
      PROVE  tx'[s] = tx[s]
  BY <1>7, <1>e DEF CommitBatch, FinishUpdate, FinishPutAfterGroup, FinishPoll, Abort
<1>8. ASSUME NEW q \in Sessions, NEW updates \in Batches, UpdateBatch(q, updates)
      PROVE  tx'[s] = tx[s]
  BY <1>8, <1>b DEF UpdateBatch
<1>9. ASSUME NEW q \in Sessions, NEW id \in Tickets, NEW fn \in FnUpdates, StartUpdate(q, id, fn)
      PROVE  tx'[s] = tx[s]
  BY <1>9, <1>b DEF StartUpdate
<1>10. ASSUME NEW q \in Sessions, NEW id \in Tickets, NEW n \in Submissions, NEW g \in Groups,
              StartPutAfterGroup(q, id, n, g)
       PROVE  tx'[s] = tx[s]
  BY <1>10, <1>b DEF StartPutAfterGroup
<1>11. ASSUME NEW q \in Sessions, StartExpire(q)
       PROVE  tx'[s] = tx[s]
  BY <1>11, <1>b DEF StartExpire
<1>12. CASE UNCHANGED tx
  BY <1>12
<1>13. ASSUME NEW q \in Sessions, StatementWaits(q)
       PROVE  tx'[s] = tx[s]
  <2>1. PICK c \in Batch : tx' = [tx EXCEPT ![q] = c]
    BY <1>13, WaitsType
  <2>2. c.op = "batch"
    BY DEF Batch
  <2> QED BY <2>1, <2>2 DEF TypeOK
<1> QED
  BY <1>q, <1>1, <1>2, <1>3, <1>4, <1>5, <1>6, <1>7, <1>8, <1>9, <1>10, <1>11, <1>12, <1>13
     DEF Next, Put, pgVars

\* What a poll has seen stays stored and waits for nobody: a deletion makes it
\* forget the row, and a registration needs a row that is absent.
LEMMA SeenStep ==
  ASSUME TypeOK, BatchesFree, SeenEligible, [Next]_pgVars
  PROVE  SeenEligible'
<1> SUFFICES ASSUME NEW s \in Sessions, NEW t \in Tickets,
                    tx'[s].op = "poll", tx'[s].seen[t] # None
             PROVE  Present(t)' /\ deps'[t] = {}
  BY DEF SeenEligible
<1>1. CASE Present(t) /\ deps[t] = {} /\ UNCHANGED <<rows, deps>>
  BY <1>1 DEF Present
<1>2. CASE tx[s].op = "poll" /\ tx[s].seen[t] # None
  <2>1. Present(t) /\ deps[t] = {}
    BY <1>2 DEF SeenEligible
  <2>2. ASSUME NEW ids \in SUBSET Tickets, t \in ids PROVE tx'[s] # Forget(ids)[s]
    <3>1. Forget(ids)[s].seen = [u \in Tickets |-> IF u \in ids THEN None ELSE tx[s].seen[u]]
      BY <1>2, ForgetSessions
    <3>2. Forget(ids)[s].seen[t] = None
      BY <2>2, <3>1
    <3> QED BY <3>2
  <2>3. ~Delete(t)
    BY <2>2 DEF Delete
  <2>4. ASSUME NEW ids \in SUBSET Tickets, DeleteBatch(ids), t \in ids PROVE FALSE
    BY <2>2, <2>4 DEF DeleteBatch
  <2>5. ASSUME NEW q \in Sessions, FinishExpire(q), t \in tx[q].victims PROVE FALSE
    <3>1. PICK v \in SUBSET Tickets : v = tx[q].victims
      BY <2>5, TransactionKinds DEF FinishExpire
    <3>2. q # s
      BY <1>2, <2>5 DEF FinishExpire
    <3>3. tx'[s] = Forget(v)[s]
      BY <2>5, <3>1, <3>2, ForgetType DEF FinishExpire
    <3> QED BY <2>2, <2>5, <3>1, <3>3
  <2>6. Present(t)'
    BY <2>1, <2>3, <2>4, <2>5, Removals
  <2>7. ASSUME NEW q \in Sessions, FinishPutAfterGroup(q), t = tx[q].id PROVE FALSE
    BY <2>1, <2>7 DEF FinishPutAfterGroup
  <2>8. deps'[t] = {}
    BY <2>1, <2>7, NewWaits
  <2> QED BY <2>6, <2>8
<1> QED BY <1>1, <1>2, SeenBefore

-----------------------------------------------------------------------------
(* Cycles. A ticket that starts to wait is new: by DepsStored nobody waits  *)
(* for it, and the members it waits for are stored already.                *)

LEMMA MutualWaitStep ==
  ASSUME TypeOK, DepsStored, NoMutualWait, [Next]_pgVars
  PROVE  NoMutualWait'
<1> SUFFICES ASSUME NEW S \in (SUBSET Tickets) \ {{}}
             PROVE  \E t \in S : deps'[t] \intersect S = {}
  BY DEF NoMutualWait
<1>1. CASE \A f \in Tickets : deps'[f] \subseteq deps[f]
  <2>1. PICK t \in S : deps[t] \intersect S = {}
    BY DEF NoMutualWait
  <2> QED BY <1>1, <2>1
<1>2. ASSUME NEW s \in Sessions, FinishPutAfterGroup(s)
      PROVE  \E t \in S : deps'[t] \intersect S = {}
  <2>1. PICK id \in Tickets, members \in SUBSET Tickets : id = tx[s].id /\ members = tx[s].members
    BY <1>2, TransactionKinds DEF FinishPutAfterGroup
  <2>2. ~Present(id) /\ deps' = [deps EXCEPT ![id] = members] /\ \A m \in members : Present(m)
    BY <1>2, <2>1 DEF FinishPutAfterGroup
  <2>3. \A f \in Tickets : id \notin deps[f]
    BY <2>2 DEF DepsStored
  <2>4. id \notin deps'[id] /\ \A f \in Tickets \ {id} : deps'[f] = deps[f]
    BY <2>2 DEF TypeOK
  <2>5. CASE S \ {id} = {}
    <3>1. S # {} /\ \A t \in S : t = id
      BY <2>5
    <3>2. id \in S
      BY <3>1
    <3> QED BY <2>4, <3>1, <3>2
  <2>6. CASE S \ {id} # {}
    <3>1. PICK t \in S \ {id} : deps[t] \intersect (S \ {id}) = {}
      BY <2>6 DEF NoMutualWait
    <3>2. id \notin deps[t] /\ deps'[t] = deps[t]
      BY <2>3, <2>4, <3>1
    <3> QED BY <3>1, <3>2
  <2> QED BY <2>5, <2>6
<1> QED BY <1>1, <1>2, NewWaits

-----------------------------------------------------------------------------
(* Theorems. *)

\* The invariant that holds them together.
IInv == TypeOK /\ BatchesFree /\ DepsStored /\ NoMutualWait /\ SeenEligible

LEMMA InvInit == Init => IInv
<1> SUFFICES ASSUME Init PROVE IInv
  OBVIOUS
<1>1. TypeOK
  BY IsTransaction DEF Init, TypeOK, NobodyPolled, Row
<1>2. \A s \in Sessions : tx[s].op = "idle"
  BY DEF Init, Idle
<1>3. NoMutualWait
  <2> SUFFICES ASSUME NEW S \in (SUBSET Tickets) \ {{}}
               PROVE  \E t \in S : deps[t] \intersect S = {}
    BY DEF NoMutualWait
  <2>1. S # {} /\ S \subseteq Tickets
    OBVIOUS
  <2>2. PICK t : t \in S
    BY <2>1
  <2> QED BY <2>1, <2>2 DEF Init
<1>4. DepsStored
  BY DEF Init, DepsStored
<1> QED BY <1>1, <1>2, <1>3, <1>4 DEF IInv, BatchesFree, SeenEligible

LEMMA InvStep == IInv /\ [Next]_pgVars => IInv'
BY TypeStep, BatchesStep, DepsStep, MutualWaitStep, SeenStep DEF IInv

LEMMA InvCorrect == Spec => []IInv
BY InvInit, InvStep, PTL DEF Spec

\* TypeOK holds in every reachable state.
THEOREM PgTypeCorrect == Spec => []TypeOK
<1>1. IInv => TypeOK
  BY DEF IInv
<1> QED BY <1>1, InvCorrect, PTL

\* The dependency table always refers to stored tickets: each statement that
\* writes or deletes rows keeps its foreign keys.
THEOREM DepsStoredCorrect == Spec => []DepsStored
<1>1. IInv => DepsStored
  BY DEF IInv
<1> QED BY <1>1, InvCorrect, PTL

\* No set of tickets ever waits for itself, for any number of tickets and
\* sessions, although no query looks for cycles.
THEOREM PgNoMutualWaitCorrect == Spec => []NoMutualWait
<1>1. IInv => NoMutualWait
  BY DEF IInv
<1> QED BY <1>1, InvCorrect, PTL

\* A poll hands out only what is eligible when it commits, although it chose
\* it in an older snapshot.
THEOREM HandedOutCorrect == Spec => HandedOut
<1> DEFINE Act == \A id \in Tickets : polled'[id] # None =>
                    /\ Pending(id) /\ rows[id].runat <= 0
                    /\ ~Locked(id)
                    /\ deps[id] = {}
                    /\ rows'[id] = polled'[id]
<1>1. ASSUME IInv, [Next]_pgVars PROVE [Act]_pgVars
  <2>1. ASSUME NEW s \in Sessions, FinishPoll(s)
        PROVE  Act
    <3>1. PICK c \in Taken(s) :
            /\ rows' = [t \in Tickets |-> IF t \in c THEN Bumped(rows[t]) ELSE rows[t]]
            /\ polled' = [t \in Tickets |-> IF t \in c THEN Bumped(rows[t]) ELSE None]
      BY <2>1 DEF FinishPoll
    <3>2. \A t \in c : t \in Tickets /\ tx[s].seen[t] # None /\ ~Locked(t) /\ Due(rows[t], tx[s].tubes)
      BY DEF Taken, Lockable
    <3>3. \A t \in c : deps[t] = {}
      BY <1>1, <2>1, <3>2 DEF FinishPoll, IInv, SeenEligible
    <3> QED BY <3>1, <3>2, <3>3 DEF Due, Pending, Present
  <2>2. ASSUME polled' = NobodyPolled PROVE Act
    BY <2>2 DEF NobodyPolled
  <2>3. CASE UNCHANGED pgVars
    BY <2>3
  <2> HIDE DEF Act
  <2> QED
    BY <1>1, <2>1, <2>2, <2>3
       DEF Next, Put, Delete, DeleteBatch, Tick, UpdateBatch, StatementWaits, UpdateStatement, CommitBatch,
           StartUpdate, FinishUpdate, StartPutAfterGroup, FinishPutAfterGroup, StartPoll,
           StartExpire, FinishExpire, Begin, Abort
<1> QED BY <1>1, InvCorrect, PTL DEF Spec, HandedOut

\* A finalizer is released from a member by the commit of a batch that
\* finishes the member, or by a deletion, and by nothing else.
THEOREM ReleasedByFinishCorrect == Spec => ReleasedByFinish
<1> DEFINE Freed0(f, m) ==
             \/ rows'[f] = None
             \/ rows'[m] = None
             \/ \E s \in Sessions :
                  /\ tx[s].op = "batch" /\ tx'[s] = Idle
                  /\ \E i \in DOMAIN tx[s].updates :
                       tx[s].updates[i].id = m /\ tx[s].updates[i].status \in Terminal
           Act == \A f \in Tickets : \A m \in deps[f] \ deps'[f] : Freed0(f, m)
<1>1. ASSUME IInv, [Next]_pgVars PROVE [Act]_pgVars
  <2>0. TypeOK /\ BatchesFree
    BY <1>1 DEF IInv
  <2>1. ASSUME NEW ids \in SUBSET Tickets, DeleteBatch(ids), NEW f \in Tickets,
               NEW m \in deps[f] \ deps'[f]
        PROVE  Freed0(f, m)
    <3>1. m \in Tickets
      BY <2>0 DEF TypeOK
    <3>2. f \in ids \/ m \in ids
      BY <2>1 DEF DeleteBatch
    <3> QED BY <2>1, <3>1, <3>2 DEF DeleteBatch
  <2>2. ASSUME NEW s \in Sessions, CommitBatch(s), NEW f \in Tickets,
               NEW m \in deps[f] \ deps'[f]
        PROVE  Freed0(f, m)
    <3>1. tx[s].op = "batch" /\ m \in FreedAfter(s, Current(s))[f]
      BY <2>2 DEF CommitBatch, StatementReady
    <3>2. tx'[s] = Idle
      BY <2>0, <2>2 DEF CommitBatch, End, TypeOK
    <3>3. \E i \in DOMAIN tx[s].updates :
            tx[s].updates[i].id = m /\ tx[s].updates[i].status \in Terminal
      BY <2>0, <3>1, FreedBy
    <3> QED BY <3>1, <3>2, <3>3
  <2>3. ASSUME NEW s \in Sessions, FinishPutAfterGroup(s), NEW f \in Tickets,
               NEW m \in deps[f] \ deps'[f]
        PROVE  FALSE
    <3>1. f = tx[s].id
      BY <2>0, <2>3 DEF FinishPutAfterGroup, TypeOK
    <3>2. Present(f)
      BY <1>1 DEF IInv, DepsStored
    <3> QED BY <2>3, <3>1, <3>2 DEF FinishPutAfterGroup
  <2>4. CASE UNCHANGED deps
    BY <2>4
  <2> HIDE DEF Freed0
  <2> QED
    BY <1>1, <2>1, <2>2, <2>3, <2>4
       DEF Next, Put, Delete, Tick, UpdateBatch, StatementWaits, UpdateStatement, StartUpdate, FinishUpdate,
           StartPutAfterGroup, StartPoll, FinishPoll, StartExpire, FinishExpire, Begin, Abort, pgVars
<1> QED BY <1>1, InvCorrect, PTL DEF Spec, ReleasedByFinish
=============================================================================
