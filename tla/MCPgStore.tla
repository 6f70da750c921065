------------------------------ MODULE MCPgStore ------------------------------
(* Small instances of PgStore for TLC, and of the arithmetic of its delays,  *)
(* which shares no state with it: TLC takes steps of the one or of the other.*)
EXTENDS PgStore, Backoff, TLC

CONSTANTS t1, t2, s1, s2, tube, g1, g2

MCInit == Init /\ InitBackoff

MCNext == \/ InitBackoff /\ Next /\ UNCHANGED asked
          \/ Init /\ NextBackoff /\ UNCHANGED pgVars

MCSpec == MCInit /\ [][MCNext]_<<pgVars, asked>>

Symmetry == Permutations(Tickets) \union Permutations(Sessions) \union Permutations(Groups)

\* Tickets due at once, in either group: a finalizer of one waits for the other.
MCSubmissions ==
  {[status |-> "pending", tube |-> NoTube, group |-> g, runat |-> 0,
    nice |-> 0, attempts |-> 0] : g \in Groups}

NoUpdate(id) ==
  [id |-> id, status |-> None, tube |-> None, group |-> None,
   nice |-> None, runat |-> None, backoff |-> None]

\* Done keeping the ticket, Restart, and Retry with a backoff.
Done(id) == [NoUpdate(id) EXCEPT !.status = "done", !.runat = 0]
Restart(id) == [NoUpdate(id) EXCEPT !.status = "pending", !.runat = 0]
Retry(id) == [NoUpdate(id) EXCEPT !.backoff = [n \in 0..MaxAttempts |-> 1]]

\* Batches of one update, and of two that finish both tickets, or finish one
\* and restart one, the same or the other.
MCBatches ==
  {<<u>> : u \in UNION {{Done(id), Restart(id), Retry(id)} : id \in Tickets}}
  \union {<<Done(i), Done(j)>> : <<i, j>> \in {p \in Tickets \X Tickets : p[1] # p[2]}}
  \union {<<Done(i), Restart(j)>> : i, j \in Tickets}

\* The callbacks run by Done WithUpdate, with a time to live, and by Retry.
Finishes ==
  {[t \in Ticket |-> BeforeUpdate(t, [NoOpts EXCEPT !.status = "done", !.delay = FixedDelay(1)])]}
Postpones ==
  {[t \in Ticket |-> BeforeUpdate(t, [NoOpts EXCEPT !.delay = FixedDelay(1)])]}

\* Shrinking, constant, the default, and growing bases.
MCBases == {<<1, 2>>, <<1, 1>>, <<3, 2>>, <<2, 1>>, <<5, 2>>}
MCDurations == {0, 100, 500, 999, 1000, 1500, 2000, 3375, 5000}
MCExtras == {-1500, -1000, -1, 0, 100, 999, 1000, 1500, 3000}

MCPollDelays == [n \in 0..MaxAttempts |-> 1]
MCTubes == {tube, NoTube}
MCGroups == {g1, g2}
MCNices == {0}
=============================================================================
