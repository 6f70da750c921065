---------------------------- MODULE MCMemoryStore ----------------------------
(* Small instances of StoreHistory, and of MemoryStore, for TLC. *)
EXTENDS StoreHistory, TLC

CONSTANTS t1, t2, t3, tube, group

Symmetry == Permutations(Tickets)

\* Tickets due at once, in the group or outside of it.
MCSubmissions ==
  {[status |-> "pending", tube |-> tube, group |-> g, runat |-> 0,
    nice |-> 0, attempts |-> 0] : g \in {group, None}}

NoUpdate(id) ==
  [id |-> id, status |-> None, tube |-> None, group |-> None,
   nice |-> None, runat |-> None, backoff |-> None]

\* Cancel keeping the ticket for one tick, Restart, and Retry that moves the
\* ticket into the group.
Finished(id) == [NoUpdate(id) EXCEPT !.status = "cancelled", !.runat = 1]
Outcomes(id) ==
  {Finished(id),
   [NoUpdate(id) EXCEPT !.status = "pending", !.runat = 0],
   [NoUpdate(id) EXCEPT !.backoff = [n \in 0..MaxAttempts |-> 1], !.group = group]}

\* Batches of one update, and of two of which the first finishes a ticket.
MCBatches ==
  LET U == UNION {Outcomes(id) : id \in Tickets}
  IN  {<<u>> : u \in U} \union {<<Finished(id), v>> : id \in Tickets, v \in U}

\* Callbacks: Done(WithUpdate) with a time to live finishes the ticket,
\* Retry(WithUpdate) postpones it, and one fails.
MCCallbacks ==
  {[t \in Ticket |-> BeforeUpdate(t, [NoOpts EXCEPT !.status = "done", !.delay = FixedDelay(1)])],
   [t \in Ticket |-> BeforeUpdate(t, [NoOpts EXCEPT !.delay = FixedDelay(1)])],
   [t \in Ticket |-> None]}

MCPollDelays == [n \in 0..MaxAttempts |-> 1]
MCTubes == {tube}
MCGroups == {group}
MCNices == {0}
=============================================================================
