---------------------------- MODULE TicketsProofs ----------------------------
(* Lemmas about the operators on tickets, for the proofs of the stores and the *)
(* engine, and an induction principle.                                         *)
EXTENDS Tickets, TLAPS, WellFoundedInduction

\* An update gives a well-formed ticket.
LEMMA UpdateOneType ==
  ASSUME NEW t \in Ticket, NEW us \in UpdateSet
  PROVE  UpdateOne(t, us) \in Ticket
<1>1. Coalesce(us.status, t.status) \in Status
  BY DEF Coalesce, UpdateSet, Ticket
<1>2. Coalesce(us.tube, t.tube) \in Tubes
  BY DEF Coalesce, UpdateSet, Ticket
<1>3. Coalesce(us.group, t.group) \in Groups \union {None}
  BY DEF Coalesce, UpdateSet, Ticket
<1>4. Coalesce(us.nice, t.nice) \in Nices
  BY DEF Coalesce, UpdateSet, Ticket
<1>5. (IF us.backoff # None THEN us.backoff[t.attempts]
                           ELSE Coalesce(us.runat, t.runat)) \in Times
  <2>1. CASE us.backoff # None
    <3>1. us.backoff \in [0..MaxAttempts -> Times] /\ t.attempts \in 0..MaxAttempts
      BY <2>1 DEF UpdateSet, Ticket, Backoffs
    <3>2. us.backoff[t.attempts] \in Times
      BY <3>1
    <3> QED BY <2>1, <3>2
  <2>2. CASE us.backoff = None
    BY <2>2 DEF Coalesce, UpdateSet, Ticket
  <2> QED BY <2>1, <2>2
<1> QED BY <1>1, <1>2, <1>3, <1>4, <1>5 DEF UpdateOne, Ticket

\* So does a tick, and it leaves the status alone.
LEMMA AgedType ==
  ASSUME NEW t \in Ticket
  PROVE  Aged(t) \in Ticket /\ Aged(t).status = t.status
<1>1. t.runat \in Times
  BY DEF Ticket
<1>2. Sooner(t.runat) \in Times
  BY <1>1, HorizonAssumption, MaxAgeAssumption DEF Sooner, Times, Forever
<1> QED BY <1>2 DEF Aged, Ticket

\* The clock never reverses the order of two instants.
LEMMA SoonerFacts ==
  /\ \A t \in Times : Sooner(t) \in Times /\ Sooner(t) <= t
  /\ \A t, u \in Times : t <= u => Sooner(t) <= Sooner(u)
BY HorizonAssumption, MaxAgeAssumption DEF Sooner, Times, Forever

LEMMA DelaysAreTimes == Delays \subseteq Times
BY HorizonAssumption, MaxAgeAssumption DEF Delays, Times, Forever

LEMMA AgedUpdateType ==
  ASSUME NEW us \in UpdateSet
  PROVE  /\ AgedUpdate(us) \in UpdateSet
         /\ AgedUpdate(us).id = us.id /\ AgedUpdate(us).status = us.status
<1>1. CASE us.runat = None
  BY <1>1 DEF AgedUpdate
<1>2. CASE us.runat # None
  <2>1. us.runat \in Times
    BY <1>2 DEF UpdateSet
  <2>2. Sooner(us.runat) \in Times
    BY <2>1, SoonerFacts
  <2> QED BY <1>2, <2>2 DEF AgedUpdate, Aged, UpdateSet
<1> QED BY <1>1, <1>2

LEMMA SaveSetType ==
  ASSUME NEW id \in Tickets, NEW o \in Opts
  PROVE  SaveSet(id, o) \in UpdateSet /\ SaveSet(id, o).id = id
<1>1. /\ o.delay.fixed \in Times \union {None}
      /\ o.delay.jittered \in Backoffs \union {None}
  BY DelaysAreTimes DEF Opts, DelayStrategy
<1> QED BY <1>1 DEF SaveSet, Opts, UpdateSet

\* The options make a ticket of a ticket,
LEMMA PatchedType ==
  ASSUME NEW t \in Ticket, NEW o \in Opts
  PROVE  Patched(t, o) \in Ticket
<1>1. /\ Coalesce(o.status, t.status) \in Status
      /\ Coalesce(o.nice, t.nice) \in Nices
  BY DEF Coalesce, Opts, Ticket
<1>2. /\ Coalesce(o.tube, t.tube) \in Tubes
      /\ Coalesce(o.group, t.group) \in Groups \union {None}
  BY DEF Coalesce, Opts, Ticket
<1>3. (IF o.resetAttempts THEN 0 ELSE t.attempts) \in 0..MaxAttempts
  BY MaxAttemptsAssumption DEF Ticket
<1>4. PICK d \in DelayStrategy : d = o.delay
  BY DEF Opts
<1>5. (IF d.fixed # None THEN d.fixed
       ELSE IF d.exponential # None THEN d.exponential[t.attempts] ELSE t.runat) \in Times
  <2>1. CASE d.fixed # None
    BY <2>1, DelaysAreTimes DEF DelayStrategy
  <2>2. CASE d.fixed = None /\ d.exponential # None
    <3>1. d.exponential \in [0..MaxAttempts -> Times] /\ t.attempts \in 0..MaxAttempts
      BY <2>2 DEF DelayStrategy, Ticket, Backoffs
    <3>2. d.exponential[t.attempts] \in Times
      BY <3>1
    <3> QED BY <2>2, <3>2
  <2>3. CASE d.fixed = None /\ d.exponential = None
    BY <2>3 DEF Ticket
  <2> QED BY <2>1, <2>2, <2>3
<1> QED BY <1>1, <1>2, <1>3, <1>4, <1>5 DEF Patched, Ticket

\* and so does the function passed WithUpdate, unless it fails.
LEMMA BeforeUpdateType ==
  ASSUME NEW t \in Ticket, NEW o \in Opts
  PROVE  BeforeUpdate(t, o) \in Ticket \union {None}
<1>1. Patched(t, o) \in Ticket
  BY PatchedType
<1>2. CASE o.update = None
  BY <1>1, <1>2 DEF BeforeUpdate
<1>3. CASE o.update # None
  <2>1. o.update \in [Ticket -> Ticket \union {None}]
    BY <1>3 DEF Opts, UpdateFuncs
  <2>2. o.update[Patched(t, o)] \in Ticket \union {None}
    BY <1>1, <2>1
  <2> QED BY <1>3, <2>2 DEF BeforeUpdate
<1> QED BY <1>2, <1>3

-----------------------------------------------------------------------------
\* Induction, from the order of the natural numbers being well-founded: stated
\* with sets, since the library states it with predicates.

LEMMA SmallestExists ==
  ASSUME NEW T \in SUBSET Nat, T # {}
  PROVE  \E x \in T : \A y \in T : x <= y
<1> DEFINE R == OpToRel(<, Nat)
<1>1. IsWellFoundedOn(R, Nat)
  BY NatLessThanWellFounded
<1>2. \A x, y \in T : y < x => <<y, x>> \in R
  BY DEF OpToRel
<1> HIDE DEF R
<1>3. PICK x \in T : \A y \in T : ~(<<y, x>> \in R)
  BY <1>1, WFMin
<1>4. ASSUME NEW y \in T PROVE x <= y
  <2>1. ~(y < x)
    BY <1>2, <1>3
  <2>2. x \in Nat /\ y \in Nat
    OBVIOUS
  <2> QED BY <2>1, <2>2
<1> QED BY <1>4

LEMMA SetInduction ==
  ASSUME NEW S \in SUBSET Nat, 0 \in S, \A n \in S : n + 1 \in S
  PROVE  S = Nat
<1>1. SUFFICES ASSUME Nat \ S # {} PROVE FALSE
  OBVIOUS
<1>2. PICK x \in Nat \ S : \A y \in Nat \ S : x <= y
  BY <1>1, SmallestExists
<1>3. x # 0 /\ x - 1 \in S
  BY <1>2
<1> QED BY <1>2, <1>3
=============================================================================
