----------------------------- MODULE StoreHistory -----------------------------
(***************************************************************************)
(* The in-memory store with a history variable: the dependencies that an   *)
(* Update left behind when its callback finished the ticket they name. The *)
(* properties of the finalizers hold of all the others, whatever the       *)
(* callbacks do.                                                           *)
(***************************************************************************)
EXTENDS MemoryStore

VARIABLE kept   \* per ticket, the dependencies on tickets an Update finished

histVars == <<storeVars, kept>>

HistInit == Init /\ kept = [f \in Tickets |-> {}]

\* The callback of Update finishes a pending ticket.
Finishes(id, fn) == Pending(id) /\ fn[data[id]].status # "pending"

HistNext ==
  \/ /\ Operation
     /\ kept' = [f \in Tickets |-> kept[f] \intersect deps'[f]]
  \/ \E id \in Tickets, fn \in FnUpdates :
       /\ Update(id, fn)
       /\ kept' = [f \in Tickets |-> IF Finishes(id, fn)
                                       THEN kept[f] \union (deps[f] \intersect {id})
                                       ELSE kept[f]]

HistSpec == HistInit /\ [][HistNext]_histVars

-----------------------------------------------------------------------------
(* Properties. *)

\* Whom f waits for, what an Update left behind aside.
Awaited(f) == deps[f] \ kept[f]

\* Whoever blocks a finalizer is stored and still pending, unless an Update
\* finished it: UpdateBatch, Delete and DeleteBatch finish nobody without
\* releasing those who wait, and expiration removes nobody they wait for. So a
\* finalizer that waits for somebody gone is always the work of a WithUpdate.
BlockersPendingOrKept ==
  \A f \in Tickets : \A m \in Awaited(f) : Pending(m)

\* Finalizers may wait for finalizers (one may be a member of another group),
\* but never in a circle, unless the circle passes through a dependency an
\* Update left behind: in every set of tickets there is one that waits for
\* nobody of the set but for such reasons. Nothing in PutAfterGroup looks for
\* circles; it is the refusal of ids in use that excludes them.
NoMutualWait ==
  \A S \in (SUBSET Tickets) \ {{}} : \E t \in S : Awaited(t) \intersect S = {}

\* The store implements the gate: snapshots at registration, releases by
\* UpdateBatch and the deletions, and PollPending's len(deps) check add up to
\* what FinalizerGate promises.
Gate == INSTANCE FinalizerGate
          WITH pending <- {id \in Tickets : Pending(id)},
               group   <- [id \in Tickets |-> IF Pending(id) THEN data[id].group ELSE None],
               waits   <- deps,
               handed  <- {id \in Tickets : polled[id] # None}
ImplementsGate == Gate!GateSpec
=============================================================================
