---------------------------- MODULE RouterProofs ----------------------------
(* Proofs about Router: whatever the numbers of lookups and registrations,  *)
(* the read locks are balanced.                                             *)
EXTENDS Router, TLAPS

\* Where a lookup may be.
Place == [step: {"idle", "wait", "look", "waitAgain", "default", "found"},
          type: Types \union {None},
          handler: Handlers \union {None, Default}]

\* A lookup under way looks for a type.
TypeKnown == \A l \in Lookups : lookup[l].step # "idle" => lookup[l].type \in Types

IInv == TypeOK /\ TypeKnown /\ LocksBalanced

LEMMA InvInit == Init => IInv
BY DEF Init, IInv, TypeOK, TypeKnown, LocksBalanced, Idle

\* Taking the lock moves a lookup to a place that holds one lock more, or to
\* one where it waits.
LEMMA RLockKeeps ==
  ASSUME IInv, NEW l \in Lookups, NEW type \in Types,
         NEW in \in {"look", "default"}, NEW out \in {"wait", "waitAgain"},
         \/ lookup[l].step = "idle" /\ in = "look" /\ out = "wait"
         \/ lookup[l].step = "look" /\ in = "default" /\ out = "waitAgain",
         RLock(l, in, out, type),
         UNCHANGED <<routingTable, notFoundHandler, writer>>
  PROVE  IInv'
<1>1. CASE writer = None
  <2>1. readers[l] \in {0, 1} /\ readers' = [readers EXCEPT ![l] = @ + 1]
    BY <1>1 DEF IInv, TypeOK, LocksBalanced, RLock
  <2>2. /\ lookup' \in [Lookups -> Place]
        /\ lookup'[l].step = in /\ lookup'[l].type = type
        /\ \A k \in Lookups \ {l} : lookup'[k] = lookup[k]
    BY <1>1 DEF IInv, TypeOK, RLock, Place
  <2>3. TypeOK'
    <3>1. readers' \in [Lookups -> 0..2]
      BY <2>1 DEF IInv, TypeOK
    <3> QED BY <3>1, <2>2 DEF IInv, TypeOK, Place
  <2>4. LocksBalanced'
    BY <2>1, <2>2 DEF IInv, TypeOK, LocksBalanced
  <2>5. TypeKnown'
    BY <2>2 DEF IInv, TypeOK, TypeKnown
  <2> QED BY <2>3, <2>4, <2>5 DEF IInv
<1>2. CASE writer # None
  <2>1. readers' = readers
    BY <1>2 DEF IInv, TypeOK, RLock, Place
  <2>2. /\ lookup' \in [Lookups -> Place]
        /\ lookup'[l].step = out /\ lookup'[l].type = type
        /\ \A k \in Lookups \ {l} : lookup'[k] = lookup[k]
    BY <1>2 DEF IInv, TypeOK, RLock, Place
  <2>3. TypeOK'
    BY <2>1, <2>2 DEF IInv, TypeOK, Place
  <2>4. LocksBalanced'
    BY <2>1, <2>2 DEF IInv, TypeOK, LocksBalanced
  <2>5. TypeKnown'
    BY <2>2 DEF IInv, TypeOK, TypeKnown
  <2> QED BY <2>3, <2>4, <2>5 DEF IInv
<1> QED BY <1>1, <1>2

\* Releasing a lock moves a lookup to a place that holds one lock less.
LEMMA RUnlockKeeps ==
  ASSUME IInv, NEW l \in Lookups, NEW h \in Handlers \union {None, Default},
         NEW to \in {"found", "idle"},
         \/ lookup[l].step = "default" /\ to = "found"
         \/ lookup[l].step \in {"look", "found"} /\ to = "idle",
         RUnlock(l, to, h), UNCHANGED <<routingTable, notFoundHandler, writer>>
  PROVE  IInv'
<1>1. /\ lookup' \in [Lookups -> Place]
      /\ lookup'[l].step = to /\ lookup'[l].type = lookup[l].type
      /\ \A k \in Lookups \ {l} : lookup'[k] = lookup[k]
  BY DEF IInv, TypeOK, RUnlock, Place
<1>2. readers[l] \in {1, 2} /\ readers' = [readers EXCEPT ![l] = @ - 1]
  BY DEF IInv, TypeOK, LocksBalanced, RUnlock
<1>3. TypeOK'
  <2>1. readers' \in [Lookups -> 0..2]
    BY <1>2 DEF IInv, TypeOK
  <2> QED BY <1>1, <2>1 DEF IInv, TypeOK, Place
<1>4. LocksBalanced'
  BY <1>1, <1>2 DEF IInv, TypeOK, LocksBalanced
<1>5. TypeKnown'
  BY <1>1 DEF IInv, TypeOK, TypeKnown
<1> QED BY <1>3, <1>4, <1>5 DEF IInv

\* A writer that is alone finds nobody inside, so whoever waits holds no lock
\* yet, and nobody can wait for the second one.
LEMMA UnlockKeeps ==
  ASSUME IInv, NEW r \in Registrars, Alone(r), Unlock,
         routingTable' \in [Types -> Handlers \union {None}],
         notFoundHandler' \in Handlers \union {None}
  PROVE  IInv'
<1>1. \A l \in Lookups : lookup[l].step \in {"idle", "wait"}
  BY DEF IInv, TypeOK, LocksBalanced, Alone
<1>2. readers' \in [Lookups -> 0..2]
  BY <1>1 DEF IInv, TypeOK, LocksBalanced, Unlock
<1>3. lookup' \in [Lookups -> Place]
  BY <1>1 DEF IInv, TypeOK, Unlock, Place
<1>4. LocksBalanced'
  BY <1>1 DEF IInv, TypeOK, LocksBalanced, Unlock
<1>5. TypeKnown'
  BY <1>1 DEF IInv, TypeOK, TypeKnown, Unlock
<1> QED
  BY <1>2, <1>3, <1>4, <1>5 DEF IInv, TypeOK, Unlock, Place

LEMMA InvStep == IInv /\ [Next]_vars => IInv'
<1> SUFFICES ASSUME IInv, [Next]_vars PROVE IInv'
  OBVIOUS
<1>1. ASSUME NEW l \in Lookups, NEW type \in Types, Handler(l, type) PROVE IInv'
  BY <1>1, RLockKeeps DEF Handler
<1>2. ASSUME NEW l \in Lookups, Look(l) PROVE IInv'
  <2> DEFINE type == lookup[l].type
  <2>1. type \in Types
    BY <1>2 DEF Look, IInv, TypeOK, TypeKnown
  <2>2. CASE routingTable[type] # None
    BY <1>2, <2>1, <2>2, RUnlockKeeps DEF Look, IInv, TypeOK
  <2>3. CASE routingTable[type] = None
    BY <1>2, <2>1, <2>3, RLockKeeps DEF Look
  <2> QED BY <2>2, <2>3
<1>3. ASSUME NEW l \in Lookups, NotFoundHandler(l) PROVE IInv'
  BY <1>3, RUnlockKeeps DEF NotFoundHandler, IInv, TypeOK
<1>4. ASSUME NEW l \in Lookups, Return(l) PROVE IInv'
  BY <1>4, RUnlockKeeps DEF Return, IInv, TypeOK
<1>5. ASSUME NEW r \in Registrars, Lock(r) PROVE IInv'
  BY <1>5 DEF Lock, IInv, TypeOK, TypeKnown, LocksBalanced
<1>6. ASSUME NEW r \in Registrars, Register(r) PROVE IInv'
  BY <1>6, UnlockKeeps DEF Register, IInv, TypeOK
<1>7. ASSUME NEW r \in Registrars, NotFound(r) PROVE IInv'
  BY <1>7, UnlockKeeps DEF NotFound, IInv, TypeOK
<1>8. CASE UNCHANGED vars
  BY <1>8 DEF vars, IInv, TypeOK, TypeKnown, LocksBalanced
<1> QED
  BY <1>1, <1>2, <1>3, <1>4, <1>5, <1>6, <1>7, <1>8 DEF Next, LookupStep, RegistrarStep

\* Every lookup holds the read locks its place says, and none once it has
\* returned (the deferred RUnlock of NotFoundHandler, and then that of Handler).
THEOREM LocksBalancedCorrect == Spec => []LocksBalanced
<1>1. IInv => LocksBalanced
  BY DEF IInv
<1> QED
  BY <1>1, InvInit, InvStep, PTL DEF Spec
=============================================================================
