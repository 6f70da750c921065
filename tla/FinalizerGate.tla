---------------------------- MODULE FinalizerGate ----------------------------
(***************************************************************************)
(* What a store promises about finalizers (AfterGroup), whatever it keeps  *)
(* in its tables. A finalizer waits for exactly the tickets that are       *)
(* pending in the group when it is registered, tickets that join the group *)
(* later are none of its business, it is released from each one by the     *)
(* operation that finishes or removes that one, and it is never handed to  *)
(* a worker while it waits for somebody.                                   *)
(*                                                                         *)
(* One operation may finish a ticket and release nobody (Slip): the update *)
(* in place that WithUpdate asks for. What it leaves behind is on record   *)
(* in kept, so no other operation can do the same.                         *)
(***************************************************************************)
CONSTANTS Tickets, Groups, None

VARIABLES
  pending,  \* the tickets that are still to be done
  group,    \* the group each pending ticket is in, or None
  waits,    \* who waits for whom: a set of tickets per ticket
  kept,     \* the part of waits that a Slip left behind
  handed    \* the tickets given out by the step just taken

gateVars == <<pending, group, waits, kept, handed>>

GateInit == /\ pending = {}
            /\ group = [t \in Tickets |-> None]
            /\ waits = [t \in Tickets |-> {}]
            /\ kept = [t \in Tickets |-> {}]
            /\ handed = {}

\* A ticket becomes pending, or moves to another group while it is.
Submit(t, own) ==
  /\ pending' = pending \union {t}
  /\ group' = [group EXCEPT ![t] = own]
  /\ handed' = {}
  /\ UNCHANGED <<waits, kept>>

\* A new ticket becomes pending and waits for the pending members of a group.
Register(t, own, g) ==
  /\ t \notin pending
  /\ pending' = pending \union {t}
  /\ group' = [group EXCEPT ![t] = own]
  /\ waits' = [waits EXCEPT ![t] = @ \union {m \in pending : group[m] = g}]
  /\ handed' = {}
  /\ UNCHANGED kept

\* Tickets finish, and nobody waits for them any longer. Those removed for
\* good are forgotten together with what they waited for.
Finish(done, removed) ==
  /\ removed \subseteq done
  /\ pending' = pending \ done
  /\ group' = [t \in Tickets |-> IF t \in done THEN None ELSE group[t]]
  /\ waits' = [t \in Tickets |-> IF t \in removed THEN {} ELSE waits[t] \ done]
  /\ kept' = [t \in Tickets |-> IF t \in removed THEN {} ELSE kept[t] \ done]
  /\ handed' = {}

\* A pending ticket is finished in place: who waits for it goes on waiting.
Slip(t) ==
  /\ t \in pending
  /\ pending' = pending \ {t}
  /\ group' = [group EXCEPT ![t] = None]
  /\ kept' = [f \in Tickets |-> kept[f] \union (waits[f] \intersect {t})]
  /\ handed' = {}
  /\ UNCHANGED waits

\* Pending tickets that wait for nobody are given to workers.
HandOut(ts) == /\ ts \subseteq {t \in pending : waits[t] = {}}
               /\ handed' = ts
               /\ UNCHANGED <<pending, group, waits, kept>>

GateNext ==
  \/ \E t \in Tickets, own \in Groups \union {None} : Submit(t, own)
  \/ \E t \in Tickets, own \in Groups \union {None}, g \in Groups : Register(t, own, g)
  \/ \E done, removed \in SUBSET Tickets : Finish(done, removed)
  \/ \E t \in Tickets : Slip(t)
  \/ \E ts \in SUBSET Tickets : HandOut(ts)

GateSpec == GateInit /\ [][GateNext]_gateVars
=============================================================================
