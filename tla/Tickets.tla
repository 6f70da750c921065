------------------------------ MODULE Tickets ------------------------------
(***************************************************************************)
(* The data a ticket queue handles: tickets, the updates sent to a store,  *)
(* and the options of the lifecycle calls.                                 *)
(*                                                                         *)
(* Instants are kept relative to the present: a run time of 0 is due now,  *)
(* a negative one is overdue, and a Tick brings every run time one closer. *)
(* Forever is InfinityDelay (a hundred years), which no Tick reduces.      *)
(* Payloads, types, creation times and error reasons are left out: no      *)
(* decision of the program reads them.                                     *)
(***************************************************************************)
EXTENDS Integers, FiniteSets

CONSTANTS
  Tickets,      \* ticket identifiers
  Tubes,        \* tube names
  Groups,       \* group identifiers
  Nices,        \* priorities, a lower one first
  None,         \* a nil pointer, an absent ticket, an error
  Horizon,      \* bound: the longest delay that ever elapses
  MaxAge,       \* bound: how long a ticket is overdue before its age is lost
  MaxAttempts   \* bound: attempts beyond it delay no further (backoff is capped)

ASSUME HorizonAssumption == Horizon \in Nat \ {0}
ASSUME MaxAgeAssumption == MaxAge \in Nat
ASSUME MaxAttemptsAssumption == MaxAttempts \in Nat
ASSUME NicesAssumption == Nices \subseteq Int

-----------------------------------------------------------------------------
\* Relative instants.

Forever == Horizon + 1
Delays  == 0..Forever
Times   == (-MaxAge)..Forever

\* A run time seen one tick later.
Sooner(t) == IF t = Forever \/ t = -MaxAge THEN t ELSE t - 1

\* The delay of each attempt: base^attempts capped by the maximal delay, with
\* or without a jitter, which may be negative.
Backoffs == [0..MaxAttempts -> Times]

-----------------------------------------------------------------------------
\* Tickets, updates and options.

Terminal == {"done", "failed", "cancelled"}
Status   == {"pending"} \union Terminal

Ticket == [status: Status, tube: Tubes, group: Groups \union {None},
           runat: Times, nice: Nices, attempts: 0..MaxAttempts]

ASSUME NoneAssumption == None \notin Ticket \union Status \union Times

UpdateSet == [id: Tickets, status: Status \union {None},
              tube: Tubes \union {None}, group: Groups \union {None},
              nice: Nices \union {None}, runat: Times \union {None},
              backoff: Backoffs \union {None}]

\* How long a call delays its ticket: a fixed time, or a backoff given by its
\* delays without and with the jitter.
DelayStrategy == [fixed: Delays \union {None}, exponential: Backoffs \union {None},
                  jittered: Backoffs \union {None}]

NoDelay == [fixed |-> None, exponential |-> None, jittered |-> None]
FixedDelay(d) == [NoDelay EXCEPT !.fixed = d]
BackoffDelay(plain, jittered) == [NoDelay EXCEPT !.exponential = plain, !.jittered = jittered]

\* The functions passed to WithUpdate; None is an error they return.
UpdateFuncs == [Ticket -> Ticket \union {None}]

Opts == [delay: DelayStrategy, status: Status \union {None}, keep: BOOLEAN,
         nice: Nices \union {None}, resetAttempts: BOOLEAN,
         tube: Tubes \union {None}, group: Groups \union {None},
         update: {None} \union UpdateFuncs]

NoOpts == [delay |-> NoDelay, status |-> None, keep |-> FALSE, nice |-> None,
           resetAttempts |-> FALSE, tube |-> None, group |-> None, update |-> None]

\* A field that is not nil replaces the value it patches.
Coalesce(new, old) == IF new = None THEN old ELSE new

\* One more attempt, counted as far as the delays can tell.
NextAttempt(n) == IF n < MaxAttempts THEN n + 1 ELSE n

\* Mutant: the status is written without looking whether there is one.
UpdateOneAlways(t, us) ==
  [t EXCEPT !.status = us.status,
            !.runat  = Coalesce(us.runat, @)]

\* What a store does with one UpdateSet: a backoff prevails over a run time,
\* and the attempts are never written.
UpdateOne(t, us) ==
  [t EXCEPT !.status = Coalesce(us.status, @),
            !.nice   = Coalesce(us.nice, @),
            !.runat  = IF us.backoff # None THEN us.backoff[t.attempts]
                                            ELSE Coalesce(us.runat, @),
            !.tube   = Coalesce(us.tube, @),
            !.group  = Coalesce(us.group, @)]

\* The ticket with the options applied. A backoff is taken without its jitter.
Patched(t, o) ==
  [t EXCEPT !.runat = IF o.delay.fixed # None THEN o.delay.fixed
                      ELSE IF o.delay.exponential # None THEN o.delay.exponential[t.attempts]
                      ELSE @,
            !.status   = Coalesce(o.status, @),
            !.nice     = Coalesce(o.nice, @),
            !.attempts = IF o.resetAttempts THEN 0 ELSE @,
            !.tube     = Coalesce(o.tube, @),
            !.group    = Coalesce(o.group, @)]

\* What Put and a call WithUpdate make of the ticket; None is an error.
BeforeUpdate(t, o) ==
  IF o.update = None THEN Patched(t, o) ELSE o.update[Patched(t, o)]

\* The UpdateSet that save sends for the same options, with the jitter.
SaveSet(id, o) ==
  [id |-> id, status |-> o.status, tube |-> o.tube, group |-> o.group,
   nice |-> o.nice, runat |-> o.delay.fixed, backoff |-> o.delay.jittered]

\* The order of a poll: run time, then priority. Two tickets older than
\* MaxAge compare either way, since the model forgot which one is older.
Before(t, u) ==
  \/ t.runat < u.runat
  \/ t.runat = u.runat /\ t.runat > -MaxAge /\ t.nice < u.nice

\* One tick later. An update carries an instant too, a backoff only delays.
Aged(t) == [t EXCEPT !.runat = Sooner(@)]
AgedUpdate(us) == IF us.runat = None THEN us ELSE Aged(us)
=============================================================================
