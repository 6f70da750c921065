------------------------------- MODULE Router -------------------------------
(***************************************************************************)
(* The router (router.go): workers look up the handler of a ticket's type  *)
(* while the program may still register handlers. A read-write mutex       *)
(* guards the table. It is Go's: a writer first announces itself, after    *)
(* which new readers wait, and writes when the readers before it are gone; *)
(* as it leaves, the readers that waited go in.                            *)
(***************************************************************************)
EXTENDS Integers

CONSTANTS
  Lookups, Registrars,   \* goroutines: workers, and whoever registers
  Types,                 \* ticket types
  Handlers,              \* registered handlers
  Default,               \* NotFoundHandler() of the package
  None                   \* no handler, nobody

VARIABLES
  routingTable, notFoundHandler,
  writer,    \* who has announced to write, or None
  readers,   \* how many read locks each lookup holds
  lookup     \* where each lookup is, for which type, and what it returned

vars == <<routingTable, notFoundHandler, writer, readers, lookup>>

Idle == [step |-> "idle", type |-> None, handler |-> None]

TypeOK ==
  /\ routingTable \in [Types -> Handlers \union {None}]
  /\ notFoundHandler \in Handlers \union {None}
  /\ writer \in Registrars \union {None}
  /\ readers \in [Lookups -> 0..2]
  /\ lookup \in [Lookups -> [step: {"idle", "wait", "look", "waitAgain", "default", "found"},
                             type: Types \union {None},
                             handler: Handlers \union {None, Default}]]

Init == /\ routingTable = [t \in Types |-> None]
        /\ notFoundHandler = None
        /\ writer = None
        /\ readers = [l \in Lookups |-> 0]
        /\ lookup = [l \in Lookups |-> Idle]

-----------------------------------------------------------------------------
\* Handler and NotFoundHandler.

\* RLock: lookup l goes to step in, or waits behind a writer in step out.
RLock(l, in, out, type) ==
  /\ lookup' = [lookup EXCEPT ![l].step = IF writer = None THEN in ELSE out,
                              ![l].type = type]
  /\ readers' = [readers EXCEPT ![l] = IF writer = None THEN @ + 1 ELSE @]

\* The deferred RUnlock of either function, as it returns a handler.
RUnlock(l, to, handler) ==
  /\ lookup' = [lookup EXCEPT ![l].step = to, ![l].handler = handler]
  /\ readers' = [readers EXCEPT ![l] = @ - 1]

Handler(l, type) ==
  /\ lookup[l].step = "idle"
  /\ RLock(l, "look", "wait", type)
  /\ UNCHANGED <<routingTable, notFoundHandler, writer>>

\* Without a route the not-found handler is asked for, which locks once more.
Look(l) ==
  LET type == lookup[l].type
  IN  /\ lookup[l].step = "look"
      /\ IF routingTable[type] # None THEN RUnlock(l, "idle", routingTable[type])
                                      ELSE RLock(l, "default", "waitAgain", type)
      /\ UNCHANGED <<routingTable, notFoundHandler, writer>>

NotFoundHandler(l) ==
  /\ lookup[l].step = "default"
  /\ RUnlock(l, "found", IF notFoundHandler # None THEN notFoundHandler ELSE Default)
  /\ UNCHANGED <<routingTable, notFoundHandler, writer>>

\* Handler returns what NotFoundHandler did.
Return(l) ==
  /\ lookup[l].step = "found"
  /\ RUnlock(l, "idle", lookup[l].handler)
  /\ UNCHANGED <<routingTable, notFoundHandler, writer>>

-----------------------------------------------------------------------------
\* register, NotFound and NotFoundFunc.

Lock(r) ==
  /\ writer = None
  /\ writer' = r
  /\ UNCHANGED <<routingTable, notFoundHandler, readers, lookup>>

\* Writer r is alone. It unlocks, and the readers that wait hold the lock.
Alone(r) == writer = r /\ \A l \in Lookups : readers[l] = 0

Unlock ==
  /\ writer' = None
  /\ readers' = [l \in Lookups |-> IF lookup[l].step \in {"wait", "waitAgain"}
                                   THEN readers[l] + 1 ELSE readers[l]]
  /\ lookup' = [l \in Lookups |->
                  [lookup[l] EXCEPT !.step = IF @ = "wait" THEN "look"
                                             ELSE IF @ = "waitAgain" THEN "default" ELSE @]]

\* A route that is registered already is left as it is: an error.
Register(r) ==
  /\ Alone(r)
  /\ \E t \in Types, h \in Handlers :
       routingTable' = [routingTable EXCEPT ![t] = IF @ = None THEN h ELSE @]
  /\ Unlock
  /\ UNCHANGED notFoundHandler

NotFound(r) ==
  /\ Alone(r)
  /\ notFoundHandler' \in Handlers
  /\ Unlock
  /\ UNCHANGED routingTable

-----------------------------------------------------------------------------

LookupStep(l) == Look(l) \/ NotFoundHandler(l) \/ Return(l)
RegistrarStep(r) == Register(r) \/ NotFound(r)

Next == \/ \E l \in Lookups : (\E t \in Types : Handler(l, t)) \/ LookupStep(l)
        \/ \E r \in Registrars : Lock(r) \/ RegistrarStep(r)

Spec == Init /\ [][Next]_vars

\* The Go scheduler lets every goroutine that can take a step take one; that a
\* new lookup or a registration begins is not promised.
Fairness == /\ \A l \in Lookups : WF_vars(LookupStep(l))
            /\ \A r \in Registrars : WF_vars(RegistrarStep(r))

FairSpec == Spec /\ Fairness

-----------------------------------------------------------------------------
(* Properties. *)

\* A lookup holds as many read locks as its place in the code says, and none
\* when both deferred unlocks have run: a registration waits only for lookups
\* under way, and enters when the last of them leaves, also after others waited
\* behind it and were let in by it.
LocksBalanced ==
  \A l \in Lookups :
    readers[l] = CASE lookup[l].step \in {"idle", "wait"} -> 0
                   [] lookup[l].step \in {"look", "waitAgain", "found"} -> 1
                   [] lookup[l].step = "default" -> 2

\* A lookup returns the handler of the ticket's type, or the not-found handler
\* (the comment of Handler), whoever registers what meanwhile.
LookupReturns ==
  \A l \in Lookups : lookup[l].step # "idle" ~> lookup[l].step = "idle"
=============================================================================
