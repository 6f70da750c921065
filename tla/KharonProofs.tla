---------------------------- MODULE KharonProofs ----------------------------
(***************************************************************************)
(* Proofs about Kharon, for any number of workers, flushers and tickets,   *)
(* any capacities and anything that handlers and clients call: every state *)
(* is well-formed, and a Run that has returned has left nothing behind.    *)
(* The lemmas of the first part say what each step does to the store, to   *)
(* the messages and to the copies; KharonLeaseProofs uses them too.        *)
(***************************************************************************)
EXTENDS Kharon, TicketsProofs, SequenceTheorems, FiniteSetTheorems

-----------------------------------------------------------------------------
\* Slices built by loops that append.

\* Every finite set of indices can be counted off in increasing order.
LEMMA IncreasingExists ==
  ASSUME NEW n \in Nat, NEW I \in SUBSET (1..n)
  PROVE  IsFiniteSet(I) /\ Increasing(I) # {}
<1> DEFINE S == {m \in Nat : \A J \in SUBSET (1..m) : IsFiniteSet(J) /\ Increasing(J) # {}}
<1>1. 0 \in S
  <2>1. ASSUME NEW J \in SUBSET (1..0) PROVE IsFiniteSet(J) /\ Increasing(J) # {}
    <3>0. J = {}
      OBVIOUS
    <3>1. J = {} /\ Cardinality(J) = 0 /\ IsFiniteSet(J)
      BY <3>0, FS_EmptySet
    <3>2. 1..Cardinality(J) = {}
      BY <3>1
    <3>3. <<>> \in Increasing(J)
      BY <3>1, <3>2 DEF Increasing
    <3> QED BY <3>1, <3>3
  <2> QED BY <2>1
<1>2. ASSUME NEW m \in S PROVE m + 1 \in S
  <2>1. ASSUME NEW J \in SUBSET (1..(m + 1)) PROVE IsFiniteSet(J) /\ Increasing(J) # {}
    <3>1. CASE m + 1 \notin J
      BY <3>1, J \in SUBSET (1..m)
    <3>2. CASE m + 1 \in J
      <4> DEFINE K == J \ {m + 1}
      <4>1. IsFiniteSet(K) /\ Increasing(K) # {}
        BY K \in SUBSET (1..m)
      <4>2. K \in SUBSET (1..m) /\ m \in Nat /\ J = K \union {m + 1} /\ m + 1 \notin K
        BY <3>2
      <4> HIDE DEF K
      <4> DEFINE c == Cardinality(K)
      <4>3. IsFiniteSet(K \union {m + 1}) /\ Cardinality(K \union {m + 1}) = c + 1
        BY <4>1, <4>2, FS_AddElement
      <4>4. IsFiniteSet(J) /\ c \in Nat /\ Cardinality(J) = c + 1
        BY <4>1, <4>2, <4>3, FS_CardinalityType
      <4>5. PICK f \in [1..c -> K] : \A i, j \in 1..c : i < j => f[i] < f[j]
        BY <4>1 DEF Increasing
      <4> HIDE DEF c
      <4> DEFINE g == [i \in 1..(c + 1) |-> IF i = c + 1 THEN m + 1 ELSE f[i]]
      <4>6. ASSUME NEW i \in 1..(c + 1)
            PROVE  \/ i = c + 1
                   \/ i \in 1..c /\ i # c + 1 /\ f[i] \in K /\ f[i] < m + 1
        <5>1. i = c + 1 \/ (i \in 1..c /\ i # c + 1)
          BY <4>4
        <5>2. ASSUME i \in 1..c PROVE f[i] \in K /\ f[i] < m + 1
          <6>1. f[i] \in K
            BY <4>5, <5>2
          <6>2. f[i] \in 1..m /\ m \in Nat
            BY <4>2, <6>1
          <6> QED BY <6>1, <6>2
        <5> QED BY <5>1, <5>2
      <4>7. g \in [1..(c + 1) -> J]
        BY <4>2, <4>6
      <4>8. ASSUME NEW i \in 1..(c + 1), NEW j \in 1..(c + 1), i < j PROVE g[i] < g[j]
        <5>1. i \in 1..c /\ i # c + 1 /\ f[i] < m + 1
          BY <4>4, <4>6, <4>8
        <5>2. CASE j = c + 1
          BY <5>1, <5>2
        <5>3. CASE j # c + 1
          <6>1. j \in 1..c
            BY <4>6, <5>3
          <6>2. f[i] < f[j]
            BY <4>5, <4>8, <5>1, <6>1
          <6> QED BY <5>1, <5>3, <6>2
        <5> QED BY <5>2, <5>3
      <4> HIDE DEF g
      <4>9. g \in Increasing(J)
        BY <4>4, <4>7, <4>8 DEF Increasing
      <4> QED BY <4>4, <4>9
    <3> QED BY <3>1, <3>2
  <2> QED BY <2>1
<1>3. n \in S
  <2>1. S \in SUBSET Nat
    OBVIOUS
  <2> HIDE DEF S
  <2> QED BY <1>1, <1>2, <2>1, SetInduction
<1> QED BY <1>3

\* What is picked from s are elements of s, each index at most once.
LEMMA PickedFacts ==
  ASSUME NEW S, NEW s \in Seq(S), NEW I \in SUBSET DOMAIN s
  PROVE  /\ Picked(s, I) \in Seq(S)
         /\ Picked(s, I) = <<>> <=> I = {}
         /\ \E f \in [DOMAIN Picked(s, I) -> I] :
              /\ \A j \in DOMAIN Picked(s, I) : Picked(s, I)[j] = s[f[j]]
              /\ \A i, j \in DOMAIN Picked(s, I) : i # j => f[i] # f[j]
<1>1. IsFiniteSet(I) /\ Increasing(I) # {}
  BY IncreasingExists, LenProperties
<1> DEFINE f == CHOOSE g \in Increasing(I) : TRUE
           n == Cardinality(I)
<1>2. f \in Increasing(I)
  BY <1>1
<1>3. n \in Nat /\ (n = 0 <=> I = {})
  BY <1>1, FS_CardinalityType, FS_EmptySet
<1>4. Picked(s, I) = [j \in DOMAIN f |-> s[f[j]]]
  BY DEF Picked
<1> HIDE DEF f
<1>5. f \in [1..n -> I] /\ \A i, j \in 1..n : i < j => f[i] < f[j]
  BY <1>2 DEF Increasing
<1> HIDE DEF n
<1>6. I \subseteq Nat
  BY LenProperties
<1>7. \A i, j \in 1..n : i # j => f[i] # f[j]
  BY <1>3, <1>5, <1>6
<1>8. \A j \in 1..n : s[f[j]] \in S
  BY <1>5, ElementOfSeq, LenProperties
<1>9. Picked(s, I) \in [1..n -> S]
  BY <1>4, <1>5, <1>8
<1>10. Picked(s, I) \in Seq(S)
  BY <1>3, <1>9, SeqDef
<1>11. Picked(s, I) = <<>> <=> I = {}
  BY <1>3, <1>9, <1>10, EmptySeq, LenProperties
<1>12. DOMAIN Picked(s, I) = 1..n /\ \A j \in 1..n : Picked(s, I)[j] = s[f[j]]
  BY <1>4, <1>5
<1> QED BY <1>5, <1>7, <1>10, <1>11, <1>12
\* A slice of the length of another one.
LEMMA SameLength ==
  ASSUME NEW S, NEW T, NEW s \in Seq(S), NEW t \in [DOMAIN s -> T]
  PROVE  t \in Seq(T) /\ Len(t) = Len(s) /\ DOMAIN t = DOMAIN s
<1>1. Len(s) \in Nat /\ t \in [1..Len(s) -> T]
  BY LenProperties
<1>2. t \in Seq(T)
  BY <1>1, SeqDef
<1> QED BY <1>1, <1>2, LenProperties

\* The head leaves a queue, or a new element enters it.
LEMMA QueueFacts ==
  ASSUME NEW S, NEW s \in Seq(S)
  PROVE  /\ Len(s) \in Nat /\ DOMAIN s = 1..Len(s)
         /\ \A e \in S : Append(s, e) \in Seq(S) /\ Len(Append(s, e)) = Len(s) + 1
         /\ s # <<>> => /\ Head(s) \in S /\ Head(s) = s[1] /\ 1 \in DOMAIN s
                        /\ Tail(s) \in Seq(S) /\ Len(Tail(s)) = Len(s) - 1
BY LenProperties, AppendProperties, HeadTailProperties, EmptySeq

-----------------------------------------------------------------------------
\* Values.

\* The store and the engine mean the same by a ticket and by an update.
LEMMA SameValues ==
  /\ Store!Ticket = Ticket /\ Store!UpdateSet = UpdateSet /\ Store!Terminal = Terminal
  /\ \A t, us : Store!UpdateOne(t, us) = UpdateOne(t, us)
  /\ \A t : Store!Aged(t) = Aged(t)
  /\ \A n : Store!NextAttempt(n) = NextAttempt(n)
<1>1. Store!Times = Times /\ Store!Delays = Delays /\ Store!Status = Status
  BY DEF Store!Times, Times, Store!Forever, Forever, Store!Delays, Delays,
         Store!Status, Status, Store!Terminal, Terminal
<1>2. Store!Ticket = Ticket
  BY <1>1 DEF Store!Ticket, Ticket
<1>3. Store!UpdateSet = UpdateSet
  BY <1>1 DEF Store!UpdateSet, UpdateSet, Store!Backoffs, Backoffs
<1>4. \A new, old : Store!Coalesce(new, old) = Coalesce(new, old)
  BY DEF Store!Coalesce, Coalesce
<1>5. \A t, us : Store!UpdateOne(t, us) = UpdateOne(t, us)
  BY <1>4 DEF Store!UpdateOne, UpdateOne
<1>6. \A t : Store!Sooner(t) = Sooner(t)
  BY DEF Store!Sooner, Sooner, Store!Forever, Forever
<1>7. \A t : Store!Aged(t) = Aged(t)
  BY <1>6 DEF Store!Aged, Aged
<1> QED
  BY <1>2, <1>3, <1>5, <1>7 DEF Store!Terminal, Terminal, Store!NextAttempt, NextAttempt

\* What handlers and clients may call.
Calls == (HandlerCalls \ {NoCall}) \union ClientCalls

LEMMA CallsAreCalls == Calls \subseteq Call
BY CallAssumption DEF Calls

LEMMA DefaultOptsType ==
  ASSUME NEW op \in Ops
  PROVE  DefaultOpts(op) \in Opts
<1>1. /\ "done" \in Status /\ "cancelled" \in Status /\ "failed" \in Status
      /\ "pending" \in Status /\ Forever \in Delays /\ 0 \in Delays
  BY HorizonAssumption DEF Delays, Forever, Status, Terminal
<1>2. NoDelay \in DelayStrategy /\ FixedDelay(Forever) \in DelayStrategy
      /\ FixedDelay(0) \in DelayStrategy
  BY <1>1 DEF NoDelay, FixedDelay, DelayStrategy
<1>3. NoOpts \in Opts
  BY <1>2 DEF NoOpts, Opts
<1>4. CASE op = "ack"
  BY <1>1, <1>2, <1>3, <1>4 DEF DefaultOpts, Opts
<1>5. CASE op = "done"
  BY <1>1, <1>2, <1>3, <1>5 DEF DefaultOpts, Opts
<1>6. CASE op = "cancel"
  BY <1>1, <1>2, <1>3, <1>6 DEF DefaultOpts, Opts
<1>7. CASE op = "fail"
  BY <1>1, <1>2, <1>3, <1>7 DEF DefaultOpts, Opts
<1>8. CASE op = "restart"
  BY <1>1, <1>2, <1>3, <1>8 DEF DefaultOpts, Opts
<1>9. CASE op = "retry"
  BY <1>1, <1>2, <1>3, <1>9 DEF DefaultOpts, Opts
<1> QED BY <1>4, <1>5, <1>6, <1>7, <1>8, <1>9 DEF Ops

LEMMA CallOptsType ==
  ASSUME NEW call \in Call
  PROVE  CallOpts(call) \in Opts
<1>1. DefaultOpts(call.op) \in Opts
  BY DefaultOptsType DEF Call
<1>2. call.delay \in DelayStrategy \union {None} /\ call.update \in {None} \union UpdateFuncs
  BY DEF Call
<1>3. Coalesce(call.delay, DefaultOpts(call.op).delay) \in DelayStrategy
  BY <1>1, <1>2 DEF Coalesce, Opts
<1>4. /\ call.nice \in Nices \union {None} /\ call.tube \in Tubes \union {None}
      /\ call.group \in Groups \union {None}
  BY DEF Call
<1>5. PICK o \in Opts : o = DefaultOpts(call.op)
  BY <1>1
<1>6. PICK d \in DelayStrategy : d = Coalesce(call.delay, o.delay)
  BY <1>3, <1>5
<1>7. PICK k, r \in BOOLEAN : k = (o.keep \/ call.keep) /\ r = (o.resetAttempts \/ call.resetAttempts)
  OBVIOUS
<1>8. CallOpts(call) = [o EXCEPT !.delay = d, !.keep = k, !.nice = call.nice, !.resetAttempts = r,
                                 !.tube = call.tube, !.group = call.group, !.update = call.update]
  BY <1>5, <1>6, <1>7 DEF CallOpts
<1>9. [o EXCEPT !.delay = d, !.keep = k, !.nice = call.nice, !.resetAttempts = r,
                !.tube = call.tube, !.group = call.group, !.update = call.update] \in Opts
  BY <1>2, <1>4 DEF Opts
<1> QED BY <1>8, <1>9

\* An answer carries what save sends, or deletes.
LEMMA AnswerType ==
  ASSUME NEW id \in Tickets, NEW call \in Call
  PROVE  Answer(id, call) \in Message
<1>1. SaveSet(id, CallOpts(call)) \in UpdateSet
  BY CallOptsType, SaveSetType
<1> QED BY <1>1 DEF Answer, Message

LEMMA AgedCopyType ==
  ASSUME NEW c \in Copy
  PROVE  /\ AgedCopy(c) \in Copy /\ AgedCopy(c).id = c.id /\ AgedCopy(c).tube = c.tube
         /\ AgedCopy(c).lease = IF c.lease > 0 THEN Sooner(c.lease) ELSE c.lease
BY SoonerFacts DEF AgedCopy, Aged, Copy

LEMMA GiveBackType ==
  ASSUME NEW c \in Copy
  PROVE  GiveBack(c) \in UpdateSet /\ GiveBack(c).id = c.id /\ GiveBack(c).status = None
BY DEF GiveBack, Copy, UpdateSet

LEMMA BumpedType ==
  ASSUME NEW t \in Ticket
  PROVE  Store!Bumped(t) \in Ticket /\ Store!Bumped(t).status = t.status
<1>1. t.attempts \in 0..MaxAttempts
  BY DEF Ticket
<1>2. PollDelays[t.attempts] \in Times
  BY <1>1, PollAssumption DEF Backoffs
<1>3. NextAttempt(t.attempts) \in 0..MaxAttempts
  BY <1>1, MaxAttemptsAssumption DEF NextAttempt
<1> QED BY <1>2, <1>3, SameValues DEF Store!Bumped, Ticket

LEMMA SubmittedType ==
  ASSUME NEW t \in Submissions
  PROVE  Store!Submitted(t) \in Ticket
BY TicketAssumption DEF Store!Submitted, Ticket, Status
-----------------------------------------------------------------------------
\* What a step does to the store.

\* What the callers of the store have in common: the store's types, and who
\* may change a ticket and how.
DataStep(id) ==
  \/ data'[id] = data[id]
  \/ data'[id] = None
  \/ /\ id \notin submitted /\ id \in submitted'
     /\ \E t \in Submissions : data'[id] = Store!Submitted(t)
  \/ /\ Store!Present(id)
     /\ \E call \in Calls : /\ CallOpts(call).keep
                            /\ data'[id] = Saved(data[id], call) /\ data'[id] # None
  \/ /\ StoreUpdates /\ Store!UpdateFound /\ id = Head(batch).id
     /\ data'[id] = UpdateOne(data[id], Head(batch))
  \/ /\ Poll /\ id \in Store!Ready(tubes)
     /\ polled'[id] = data[id] /\ data'[id] = Store!Bumped(data[id])
  \/ Tick /\ Store!Present(id) /\ data'[id] = Aged(data[id])

Tables == /\ data = [id \in Tickets |-> data[id]]
          /\ deps \in [Tickets -> SUBSET Tickets]
          /\ polled \in [Tickets -> Ticket \union {None}]

\* A worker that is busy has a ticket; the poller has copies when it sends and
\* updates when it gives back, which it does only when tubes are enabled.
Busy == \A w \in Workers : worker[w] = "busy" => job[w] \in Copy
Stages == /\ poller.pc \in {"off", "idle", "polling"} => poller.fetched = <<>>
          /\ poller.pc = "sending" => poller.fetched # <<>>
          /\ poller.pc # "giving" => poller.putBack = <<>>
          /\ poller.pc \in {"filtering", "giving", "given"} => TubesOn
Typed == TypeOK /\ Busy /\ Stages

LEMMA TypeFacts ==
  ASSUME TypeOK
  PROVE  /\ Tables
         /\ data \in [Tickets -> Ticket \union {None}]
         /\ mu \in AllFlushers \union {Poller, None}
         /\ batch \in Seq(UpdateSet)
BY SameValues DEF TypeOK, Store!TypeOK, Tables, AllFlushers

LEMMA NobodyType == Store!NobodyPolled \in [Tickets -> Ticket \union {None}]
BY DEF Store!NobodyPolled

\* A lifecycle call of a handler or of a client changes its own ticket only.
LEMMA CallData ==
  ASSUME TypeOK, NEW id \in Tickets, NEW call \in Calls, Send(id, call) \/ UpdateNow(id, call)
  PROVE  /\ Tables'
         /\ UNCHANGED <<mu, batch>>
         /\ \A j \in Tickets :
              \/ data'[j] = data[j]
              \/ /\ Store!Present(j) /\ CallOpts(call).keep
                 /\ data'[j] = Saved(data[j], call) /\ data'[j] # None
<1>1. CASE NoStoreCall
  BY <1>1, NobodyType, TypeFacts DEF NoStoreCall, Tables
<1>2. CASE ~NoStoreCall
  <2>1. /\ Store!Present(id) /\ ~Queued(call) /\ Saved(data[id], call) # None
        /\ Store!Update(id, [t \in {data[id]} |-> Saved(t, call)])
    BY <1>2 DEF Send, UpdateNow
  <2>2. /\ data' = [data EXCEPT ![id] = Saved(data[id], call)]
        /\ UNCHANGED <<mu, batch, deps>> /\ polled' = Store!NobodyPolled
    BY <2>1 DEF Store!Update, Store!Unlocked
  <2> QED BY <2>1, <2>2, NobodyType, TypeFacts DEF Tables, Queued
<1> QED BY <1>1, <1>2

LEMMA DataSteps ==
  ASSUME Typed, [Next]_vars
  PROVE  Tables' /\ \A id \in Tickets : DataStep(id)
<1> USE DEF DataStep
<1>0. Tables /\ Store!NobodyPolled \in [Tickets -> Ticket \union {None}]
  BY TypeFacts, NobodyType DEF Typed
<1>1. CASE Client
  <2>1. ASSUME NEW id \in Tickets, NEW t \in Submissions, ClientPut(id, t)
        PROVE  Tables' /\ \A j \in Tickets : DataStep(j)
    BY <1>0, <2>1 DEF ClientPut, Store!Put, Tables
  <2>2. ASSUME NEW id \in Tickets, NEW t \in Submissions, NEW g \in Groups,
               ClientPutAfterGroup(id, t, g)
        PROVE  Tables' /\ \A j \in Tickets : DataStep(j)
    BY <1>0, <2>2 DEF ClientPutAfterGroup, Store!PutAfterGroup, Tables
  <2>3. ASSUME NEW id \in Tickets, NEW call \in ClientCalls, ClientCall(id, call)
        PROVE  Tables' /\ \A j \in Tickets : DataStep(j)
    <3>1. call \in Calls
      BY DEF Calls
    <3> QED BY <2>3, <3>1, CallData DEF ClientCall, Typed
  <2>4. ASSUME NEW id \in Tickets, ClientDelete(id)
        PROVE  Tables' /\ \A j \in Tickets : DataStep(j)
    BY <1>0, <2>4 DEF ClientDelete, Store!Delete, Store!RemoveDep, Tables
  <2>5. ASSUME NEW ts \in (SUBSET Tubes) \ {{}}, Subscribe(ts) \/ Unsubscribe(ts)
        PROVE  Tables' /\ \A j \in Tickets : DataStep(j)
    BY <1>0, <2>5 DEF Subscribe, Unsubscribe, NoStoreCall, Tables
  <2> QED BY <1>1, <2>1, <2>2, <2>3, <2>4, <2>5 DEF Client
<1>2. CASE Run \/ CancelRun \/ RunReturns \/ UNCHANGED vars
  BY <1>0, <1>2 DEF Run, CancelRun, RunReturns, NoStoreCall, Tables, vars
<1>3. CASE PollerNext
  <2>1. CASE Poll
    <3>1. PICK taken \in SUBSET Store!Ready(tubes) :
            /\ data' = [id \in Tickets |-> IF id \in taken THEN Store!Bumped(data[id])
                                                          ELSE data[id]]
            /\ polled' = [id \in Tickets |-> IF id \in taken THEN data[id] ELSE None]
            /\ UNCHANGED deps
      BY <2>1 DEF Poll, Store!PollPending, Store!MostUrgent
    <3>2. Tables'
      BY <1>0, <3>1, TypeFacts DEF Tables, Typed
    <3> QED BY <2>1, <3>1, <3>2
  <2>2. CASE PutBack
    BY <1>0, <2>2 DEF PutBack, Store!UpdateBatch, Tables
  <2> QED BY <1>0, <1>3, <2>1, <2>2
          DEF PollerNext, PollerWakes, Filter, Dispatch, Abandon, NoStoreCall, Tables
<1>4. ASSUME NEW w \in Workers, WorkerNext(w)
      PROVE  Tables' /\ \A j \in Tickets : DataStep(j)
  <2>1. CASE NoStoreCall
    BY <1>0, <2>1 DEF NoStoreCall, Tables
  <2>2. CASE ~NoStoreCall
    <3>1. PICK call \in HandlerCalls : HandlerCall(w, call)
      BY <1>4, <2>2 DEF WorkerNext, HandlerAnswers, HandlerReturn, TakeJob, WorkerExits
    <3>2. call \in Calls /\ job[w].id \in Tickets
      BY <3>1 DEF HandlerCall, Calls, Typed, Busy, Copy
    <3> QED BY <3>1, <3>2, CallData DEF HandlerCall, Typed
  <2> QED BY <2>1, <2>2
<1>5. CASE PusherNext
  BY <1>0, <1>5 DEF PusherNext, PusherReceives, PusherTicks, PusherStops, PusherExits,
                    NoStoreCall, Tables
<1>6. ASSUME NEW f \in AllFlushers, FlushNext(f)
      PROVE  Tables' /\ \A j \in Tickets : DataStep(j)
  BY <1>0, <1>6 DEF FlushNext, FlushDeletes, FlushUpdates, Store!DeleteBatch, Store!RemoveDep,
                    Store!UpdateBatch, Tables
<1>7. CASE StoreUpdates
  <2>1. CASE Store!UpdateFound
    <3>1. /\ data' = [data EXCEPT ![Head(batch).id] = UpdateOne(data[Head(batch).id], Head(batch))]
          /\ \E t : deps' = Store!Release(Head(batch).id, t)
          /\ polled' = Store!NobodyPolled
      BY <2>1, SameValues DEF Store!UpdateFound
    <3>2. Tables'
      BY <1>0, <3>1 DEF Store!Release, Tables
    <3> QED BY <1>0, <1>7, <2>1, <3>1, <3>2 DEF Tables
  <2>2. CASE Store!UpdateMissing
    BY <1>0, <2>2 DEF Store!UpdateMissing, Tables
  <2> QED BY <1>7, <2>1, <2>2 DEF StoreUpdates
<1>8. CASE Expire
  BY <1>0, <1>8 DEF Expire, Store!ExpireTickets, Tables
<1>9. CASE Tick
  BY <1>0, <1>9, SameValues DEF Tick, Store!Tick, Store!Present, Tables
<1> QED BY <1>1, <1>2, <1>3, <1>4, <1>5, <1>6, <1>7, <1>8, <1>9 DEF Next
-----------------------------------------------------------------------------
\* Messages. Theorems about what is written ask what the answers on their way
\* to the store may be: all of them are in some set G, if every call makes one
\* of G and time leaves it in G.

Carried(G) == [id: Tickets, upd: G \union {None}]

Messages(G) ==
  /\ outcome \in Seq(Carried(G))
  /\ unflushed \in Seq(Carried(G))
  /\ \A f \in AllFlushers : flush[f].upds \in Seq(G)
  /\ mu \in AllFlushers => batch \in Seq(G)

\* What holds of the answers that calls make, and of G.
Answers(G) ==
  /\ G \subseteq UpdateSet
  /\ \A us \in G : AgedUpdate(us) \in G
  /\ \A id \in Tickets, call \in Calls :
       CallOpts(call).keep => SaveSet(id, CallOpts(call)) \in G

LEMMA AnswersCarried ==
  ASSUME NEW G, Answers(G), NEW id \in Tickets, NEW call \in Calls
  PROVE  Answer(id, call) \in Carried(G)
BY DEF Answers, Answer, Carried

\* A flush starts with what the batch carries.
LEMMA UpdatesCarried ==
  ASSUME NEW G, NEW msgs \in Seq(Carried(G))
  PROVE  Updates(msgs) \in Seq(G) /\ Deletes(msgs) \in SUBSET Tickets
<1> DEFINE I == {i \in DOMAIN msgs : msgs[i].upd # None}
           saves == Picked(msgs, I)
<1>1. DOMAIN msgs = 1..Len(msgs) /\ \A i \in DOMAIN msgs : msgs[i] \in Carried(G)
  BY QueueFacts, ElementOfSeq
<1>2. Deletes(msgs) \in SUBSET Tickets
  BY <1>1 DEF Deletes, Carried
<1>3. \A i \in I : msgs[i].upd \in G
  BY <1>1 DEF Carried
<1>4. I \in SUBSET DOMAIN msgs /\ Updates(msgs) = [j \in DOMAIN saves |-> saves[j].upd]
  BY DEF Updates
<1> HIDE DEF I
<1>5. /\ Picked(msgs, I) \in Seq(Carried(G))
      /\ \E f \in [DOMAIN Picked(msgs, I) -> I] : \A j \in DOMAIN f : Picked(msgs, I)[j] = msgs[f[j]]
  BY <1>4, PickedFacts
<1> HIDE DEF saves
<1>6. saves \in Seq(Carried(G)) /\ \A j \in DOMAIN saves : saves[j].upd \in G
  BY <1>3, <1>5 DEF saves
<1>7. [j \in DOMAIN saves |-> saves[j].upd] \in [DOMAIN saves -> G]
  BY <1>6
<1>8. [j \in DOMAIN saves |-> saves[j].upd] \in Seq(G)
  BY <1>6, <1>7, SameLength
<1> QED BY <1>2, <1>4, <1>8

\* One tick later the answers are still in G.
LEMMA AgedCarried ==
  ASSUME NEW G, Answers(G), NEW msgs \in Seq(Carried(G))
  PROVE  [i \in DOMAIN msgs |-> AgedMessage(msgs[i])] \in Seq(Carried(G))
<1>1. \A i \in DOMAIN msgs : msgs[i] \in Carried(G)
  BY QueueFacts, ElementOfSeq
<1>2. \A m \in Carried(G) : AgedMessage(m) \in Carried(G)
  BY DEF AgedMessage, Carried, Answers
<1>3. [i \in DOMAIN msgs |-> AgedMessage(msgs[i])] \in [DOMAIN msgs -> Carried(G)]
  BY <1>1, <1>2
<1> QED BY <1>3, SameLength

LEMMA AgedUpdatesIn ==
  ASSUME NEW G, \A us \in G : AgedUpdate(us) \in G, NEW upds \in Seq(G)
  PROVE  [i \in DOMAIN upds |-> AgedUpdate(upds[i])] \in Seq(G)
<1>1. \A i \in DOMAIN upds : upds[i] \in G
  BY QueueFacts, ElementOfSeq
<1>2. [i \in DOMAIN upds |-> AgedUpdate(upds[i])] \in [DOMAIN upds -> G]
  BY <1>1
<1> QED BY <1>2, SameLength

LEMMA MessagesStep ==
  ASSUME NEW G, Answers(G), Typed, Messages(G), [Next]_vars
  PROVE  Messages(G)'
<1>1. ASSUME UNCHANGED <<outcome, unflushed, flush>>,
             mu' \notin AllFlushers \/ UNCHANGED <<mu, batch>>
      PROVE  Messages(G)'
  BY <1>1 DEF Messages
<1>2. ASSUME NEW id \in Tickets, NEW call \in Calls, Send(id, call) \/ UpdateNow(id, call),
             UNCHANGED <<unflushed, flush>>
      PROVE  Messages(G)'
  <2>1. outcome' \in Seq(Carried(G))
    BY <1>2, AnswersCarried, QueueFacts DEF Send, UpdateNow, Messages
  <2>2. UNCHANGED <<mu, batch>>
    BY <1>2, CallData DEF Typed
  <2> QED BY <1>2, <2>1, <2>2 DEF Messages
<1>3. CASE Client
  <2>1. ASSUME NEW id \in Tickets, NEW call \in ClientCalls, ClientCall(id, call)
        PROVE  Messages(G)'
    BY <1>2, <2>1 DEF ClientCall, Calls
  <2>2. ASSUME ~ \E id \in Tickets, call \in ClientCalls : ClientCall(id, call)
        PROVE  UNCHANGED <<outcome, unflushed, flush, mu, batch>>
    BY <1>3, <2>2 DEF Client, ClientPut, ClientPutAfterGroup, ClientDelete, Subscribe,
                      Unsubscribe, NoStoreCall, Store!Put, Store!PutAfterGroup,
                      Store!Delete, Store!Unlocked, engineVars
  <2> QED BY <1>1, <2>1, <2>2
<1>4. CASE Run \/ CancelRun \/ RunReturns \/ UNCHANGED vars \/ Expire
  BY <1>1, <1>4 DEF Run, CancelRun, RunReturns, vars, engineVars, NoStoreCall, Expire,
                    Store!ExpireTickets, Store!Unlocked
<1>5. CASE PollerNext
  <2>1. PollerMoves /\ (UNCHANGED <<mu, batch>> \/ mu' = Poller)
    BY <1>5 DEF PollerNext, PollerWakes, Poll, Filter, PutBack, Dispatch, Abandon, NoStoreCall,
                Store!PollPending, Store!UpdateBatch, Store!Unlocked
  <2> QED BY <1>1, <2>1, CallerAssumption DEF PollerMoves, AllFlushers
<1>6. ASSUME NEW w \in Workers, WorkerNext(w) PROVE Messages(G)'
  <2>1. CASE \E call \in HandlerCalls : HandlerCall(w, call)
    <3>1. PICK call \in HandlerCalls : HandlerCall(w, call)
      BY <2>1
    <3>2. call \in Calls /\ job[w].id \in Tickets
      BY <3>1 DEF HandlerCall, Calls, Typed, Busy, Copy
    <3> QED BY <1>2, <3>1, <3>2 DEF HandlerCall, WorkerMoves
  <2>2. CASE ~ \E call \in HandlerCalls : HandlerCall(w, call)
    BY <1>1, <1>6, <2>2 DEF WorkerNext, HandlerAnswers, HandlerReturn, TakeJob, WorkerExits,
                            NoStoreCall, WorkerMoves
  <2> QED BY <2>1, <2>2
<1>7. CASE PusherNext
  <2>1. UNCHANGED <<mu, batch>>
    BY <1>7 DEF PusherNext, PusherReceives, PusherTicks, PusherStops, PusherExits, NoStoreCall
  <2>2. ASSUME NEW f \in AllFlushers, NEW msgs \in Seq(Carried(G)), StartFlush(f, msgs)
        PROVE  \A g \in AllFlushers : flush'[g].upds \in Seq(G)
    <3>1. DOMAIN flush = AllFlushers
      BY DEF Typed, TypeOK
    <3> QED BY <2>2, <3>1, UpdatesCarried DEF StartFlush, Messages
  <2>3. outcome # <<>> => /\ Tail(outcome) \in Seq(Carried(G))
                          /\ Append(unflushed, Head(outcome)) \in Seq(Carried(G))
    BY QueueFacts DEF Messages
  <2>4. <<>> \in Seq(Carried(G))
    BY EmptySeq
  <2>5. CASE PusherReceives
    <3>1. CASE UNCHANGED flush
      BY <2>1, <2>3, <2>4, <2>5, <3>1 DEF PusherReceives, Messages
    <3>2. CASE \E f \in Flushers : StartFlush(f, Append(unflushed, Head(outcome)))
      <4>1. \A g \in AllFlushers : flush'[g].upds \in Seq(G)
        BY <2>2, <2>3, <2>5, <3>2 DEF PusherReceives, AllFlushers
      <4> QED BY <2>1, <2>3, <2>4, <2>5, <4>1 DEF PusherReceives, Messages
    <3> QED BY <2>5, <3>1, <3>2 DEF PusherReceives
  <2>6. CASE PusherTicks
    <3>1. \A g \in AllFlushers : flush'[g].upds \in Seq(G)
      BY <2>2, <2>6 DEF PusherTicks, AllFlushers, Messages
    <3> QED BY <2>1, <2>4, <2>6, <3>1 DEF PusherTicks, Messages
  <2>7. CASE PusherStops
    <3>1. \A g \in AllFlushers : flush'[g].upds \in Seq(G)
      BY <2>2, <2>7 DEF PusherStops, AllFlushers, Messages
    <3> QED BY <2>1, <2>4, <2>7, <3>1 DEF PusherStops, Messages
  <2>8. CASE PusherExits
    BY <2>1, <2>8 DEF PusherExits, Messages
  <2> QED BY <1>7, <2>5, <2>6, <2>7, <2>8 DEF PusherNext
<1>8. ASSUME NEW f \in AllFlushers, FlushNext(f) PROVE Messages(G)'
  <2>1. flush \in [AllFlushers -> [phase: {"done", "delete", "update", "updating"},
                                   dels: SUBSET Tickets, upds: Seq(UpdateSet)]]
    BY DEF Typed, TypeOK
  <2>2. \A g \in AllFlushers : flush'[g].upds \in Seq(G)
    <3>1. /\ \A g \in AllFlushers : g # f => flush'[g] = flush[g]
          /\ flush'[f].upds \in {<<>>, flush[f].upds}
      <4>1. CASE FlushDeletes(f) /\ flush[f].upds # <<>>
        <5>1. flush' = [flush EXCEPT ![f] = [flush[f] EXCEPT !.phase = "update", !.dels = {}]]
          BY <4>1 DEF FlushDeletes
        <5> QED BY <2>1, <5>1
      <4>2. CASE FlushDeletes(f) /\ flush[f].upds = <<>>
        BY <2>1, <4>2 DEF FlushDeletes, NoFlush
      <4>3. CASE FlushUpdates(f)
        <5>1. flush' = [flush EXCEPT ![f] = [NoFlush EXCEPT !.phase = "updating"]]
          BY <4>3 DEF FlushUpdates
        <5> QED BY <2>1, <5>1 DEF NoFlush
      <4> QED BY <1>8, <4>1, <4>2, <4>3 DEF FlushNext
    <3> QED BY <3>1, EmptySeq DEF Messages
  <2>3. CASE FlushDeletes(f)
    BY <2>2, <2>3 DEF FlushDeletes, Store!DeleteBatch, Store!Unlocked, Messages, PusherMoves
  <2>4. CASE FlushUpdates(f)
    BY <2>2, <2>4 DEF FlushUpdates, Store!UpdateBatch, Messages, PusherMoves
  <2> QED BY <1>8, <2>3, <2>4 DEF FlushNext
<1>9. CASE StoreUpdates
  <2>1. \A g \in AllFlushers : flush'[g].upds \in Seq(G)
    BY <1>9, EmptySeq DEF StoreUpdates, NoFlush, Messages
  <2>2. mu' \in AllFlushers => batch' \in Seq(G)
    <3>1. ASSUME mu' \in AllFlushers
          PROVE  mu \in AllFlushers /\ batch # <<>> /\ batch' = Tail(batch)
      BY <1>9, <3>1, CallerAssumption
         DEF StoreUpdates, Store!UpdateFound, Store!UpdateMissing, AllFlushers
    <3>2. ASSUME mu' \in AllFlushers PROVE batch' \in Seq(G)
      BY <3>1, <3>2, QueueFacts DEF Messages
    <3> QED BY <3>2
  <2> QED BY <1>9, <2>1, <2>2 DEF StoreUpdates, Messages
<1>10. CASE Tick
  <2>1. \A g \in AllFlushers : flush'[g].upds \in Seq(G)
    <3>1. \A g \in AllFlushers :
            flush'[g].upds = [i \in DOMAIN flush[g].upds |-> AgedUpdate(flush[g].upds[i])]
      BY <1>10 DEF Tick, Typed, TypeOK
    <3> QED BY <3>1, AgedUpdatesIn DEF Answers, Messages
  <2>2. UNCHANGED <<mu, batch>>
    BY <1>10 DEF Tick, Store!Tick, Store!Unlocked
  <2> QED BY <1>10, <2>1, <2>2, AgedCarried DEF Tick, Messages
<1> QED BY <1>3, <1>4, <1>5, <1>6, <1>7, <1>8, <1>9, <1>10 DEF Next
-----------------------------------------------------------------------------
\* What the poller holds.

PollerType == [pc: {"off", "idle", "polling", "filtering", "giving", "given", "sending"},
               fetched: Seq(Copy), putBack: Seq(UpdateSet)]

\* Distinct tickets.
DistinctIds(copies) ==
  \A i, j \in DOMAIN copies : i # j => copies[i].id # copies[j].id

LEMMA SendingFacts ==
  ASSUME NEW copies \in Seq(Copy)
  PROVE  /\ Sending(copies) \in PollerType
         /\ Sending(copies).fetched = copies /\ Sending(copies).putBack = <<>>
         /\ Sending(copies).pc \in {"idle", "sending"}
<1>1. <<>> \in Seq(Copy) /\ <<>> \in Seq(UpdateSet)
  BY EmptySeq
<1>2. CASE copies = <<>>
  BY <1>1, <1>2 DEF Sending, NoWork, PollerType
<1>3. CASE copies # <<>>
  <2>1. Sending(copies) = [pc |-> "sending", fetched |-> copies, putBack |-> <<>>]
    BY <1>3 DEF Sending, NoWork
  <2> QED BY <1>1, <2>1 DEF PollerType
<1> QED BY <1>2, <1>3

LEMMA NoWorkFacts ==
  /\ NoWork \in PollerType
  /\ \A pc \in {"off", "idle", "polling"} : [NoWork EXCEPT !.pc = pc] \in PollerType
BY EmptySeq DEF NoWork, PollerType

\* A poll fetches copies of distinct tickets that were due, with the lease
\* their tickets got.
LEMMA PollFacts ==
  ASSUME Typed, Poll
  PROVE  \E copies \in Seq(Copy) :
           /\ \/ poller' = Sending(copies)
              \/ TubesOn /\ poller' = [pc |-> "filtering", fetched |-> copies, putBack |-> <<>>]
           /\ DistinctIds(copies)
           /\ \A i \in DOMAIN copies : /\ copies[i].id \in Store!Ready(tubes)
                                       /\ copies[i].lease = data'[copies[i].id].runat
<1> DEFINE ids == {id \in Tickets : polled'[id] # None}
<1>1. PICK taken \in SUBSET Store!Ready(tubes) :
        /\ data' = [id \in Tickets |-> IF id \in taken THEN Store!Bumped(data[id])
                                                      ELSE data[id]]
        /\ polled' = [id \in Tickets |-> IF id \in taken THEN data[id] ELSE None]
  BY DEF Poll, Store!PollPending, Store!MostUrgent
<1>2. ids \in SUBSET taken
  BY <1>1
<1>3. \A id \in ids : data[id] \in Ticket /\ polled'[id] = data[id] /\ data'[id] = Store!Bumped(data[id])
  BY <1>1, <1>2, TypeFacts DEF Typed
<1>4. \A id \in ids : CopyOf(id) \in Copy /\ CopyOf(id).id = id /\ CopyOf(id).lease = data'[id].runat
  BY <1>3, BumpedType DEF CopyOf, Copy, Ticket
<1>5. Cardinality(ids) \in Nat
  <2>1. IsFiniteSet(ids)
    BY FiniteAssumption, FS_Subset
  <2> QED BY <2>1, FS_CardinalityType
<1>6. PICK order \in Arrangements(ids) :
        LET copies == [i \in DOMAIN order |-> CopyOf(order[i])]
        IN  poller' = IF TubesOn /\ copies # <<>>
                      THEN [NoWork EXCEPT !.pc = "filtering", !.fetched = copies]
                      ELSE Sending(copies)
  BY DEF Poll
<1> DEFINE copies == [i \in DOMAIN order |-> CopyOf(order[i])]
           n == Cardinality(ids)
<1> HIDE DEF ids
<1>7. order \in [1..n -> ids] /\ \A i, j \in 1..n : i < j => order[i] # order[j]
  BY DEF Arrangements
<1> HIDE DEF n
<1>8. n \in Nat
  BY <1>5 DEF n
<1>9. copies \in [1..n -> Copy]
  BY <1>4, <1>7
<1>10. copies \in Seq(Copy)
  BY <1>8, <1>9, SeqDef
<1>11. \A i, j \in 1..n : i # j => order[i] # order[j]
  BY <1>7, <1>8
<1>12. \A i \in 1..n : copies[i].id = order[i] /\ copies[i].lease = data'[order[i]].runat
  BY <1>4, <1>7
<1>13. \/ poller' = Sending(copies)
       \/ TubesOn /\ poller' = [pc |-> "filtering", fetched |-> copies, putBack |-> <<>>]
  BY <1>6 DEF NoWork
<1> HIDE DEF copies
<1>14. DistinctIds(copies)
  BY <1>9, <1>11, <1>12 DEF DistinctIds
<1>15. \A i \in DOMAIN copies : /\ copies[i].id \in Store!Ready(tubes)
                                /\ copies[i].lease = data'[copies[i].id].runat
  BY <1>2, <1>7, <1>9, <1>12
<1> QED BY <1>10, <1>13, <1>14, <1>15

\* Every copy fetched is kept or given back, none of them twice.
LEMMA FilterFacts ==
  ASSUME Typed, Filter
  PROVE  \E mine \in Seq(Copy), back \in Seq(UpdateSet) :
           /\ \/ poller' = Sending(mine)
              \/ poller' = [pc |-> "giving", fetched |-> mine, putBack |-> back]
           /\ \E f \in [DOMAIN mine -> DOMAIN poller.fetched \ Foreign] :
                /\ \A j \in DOMAIN mine : mine[j] = poller.fetched[f[j]]
                /\ \A i, j \in DOMAIN mine : i # j => f[i] # f[j]
           /\ \E g \in [DOMAIN back -> Foreign] :
                \A j \in DOMAIN back : back[j] = GiveBack(poller.fetched[g[j]])
<1> DEFINE kept == DOMAIN poller.fetched \ Foreign
           mine == Picked(poller.fetched, kept)
           others == Picked(poller.fetched, Foreign)
           back == [i \in DOMAIN others |-> GiveBack(others[i])]
<1>1. poller.fetched \in Seq(Copy) /\ kept \in SUBSET DOMAIN poller.fetched
      /\ Foreign \in SUBSET DOMAIN poller.fetched
  BY DEF Typed, TypeOK, Foreign
<1>2. \/ poller' = Sending(mine)
      \/ poller' = [pc |-> "giving", fetched |-> mine, putBack |-> back]
  BY DEF Filter
<1> HIDE DEF kept
<1>3. /\ Picked(poller.fetched, kept) \in Seq(Copy)
      /\ \E f \in [DOMAIN Picked(poller.fetched, kept) -> kept] :
           /\ \A j \in DOMAIN Picked(poller.fetched, kept) :
                Picked(poller.fetched, kept)[j] = poller.fetched[f[j]]
           /\ \A i, j \in DOMAIN Picked(poller.fetched, kept) : i # j => f[i] # f[j]
  BY <1>1, PickedFacts
<1>4. /\ Picked(poller.fetched, Foreign) \in Seq(Copy)
      /\ \E g \in [DOMAIN Picked(poller.fetched, Foreign) -> Foreign] :
           \A j \in DOMAIN Picked(poller.fetched, Foreign) :
             Picked(poller.fetched, Foreign)[j] = poller.fetched[g[j]]
  BY <1>1, PickedFacts
<1> HIDE DEF others, mine
<1>5. /\ others \in Seq(Copy) /\ \A i \in DOMAIN others : others[i] \in Copy
      /\ \E g \in [DOMAIN others -> Foreign] :
           \A j \in DOMAIN others : others[j] = poller.fetched[g[j]]
  BY <1>4, QueueFacts, ElementOfSeq DEF others
<1>6. back \in [DOMAIN others -> UpdateSet]
  BY <1>5, GiveBackType
<1>7. back \in Seq(UpdateSet)
  BY <1>5, <1>6, SameLength
<1>8. \E g \in [DOMAIN back -> Foreign] :
        \A j \in DOMAIN back : back[j] = GiveBack(poller.fetched[g[j]])
  BY <1>5
<1>9. /\ mine \in Seq(Copy)
      /\ \E f \in [DOMAIN mine -> kept] :
           /\ \A j \in DOMAIN mine : mine[j] = poller.fetched[f[j]]
           /\ \A i, j \in DOMAIN mine : i # j => f[i] # f[j]
  BY <1>3 DEF mine
<1> HIDE DEF back
<1> QED BY <1>2, <1>7, <1>8, <1>9 DEF kept

\* The poller sends the first copy it holds to the workers.
LEMMA DispatchFacts ==
  ASSUME Typed, Dispatch
  PROVE  /\ poller.fetched \in Seq(Copy) /\ poller.fetched # <<>>
         /\ income' = Append(income, poller.fetched[1])
         /\ poller' = Sending(Tail(poller.fetched))
BY QueueFacts DEF Typed, TypeOK, Stages, Dispatch

\* A tick brings every lease closer.
LEMMA TickFacts ==
  ASSUME Typed, Tick
  PROVE  /\ poller' \in PollerType /\ poller'.pc = poller.pc
         /\ DOMAIN poller'.fetched = DOMAIN poller.fetched
         /\ \A i \in DOMAIN poller.fetched : poller'.fetched[i] = AgedCopy(poller.fetched[i])
         /\ (poller'.fetched = <<>>) = (poller.fetched = <<>>)
         /\ DOMAIN poller'.putBack = DOMAIN poller.putBack
         /\ \A i \in DOMAIN poller.putBack : poller'.putBack[i] = AgedUpdate(poller.putBack[i])
         /\ (poller'.putBack = <<>>) = (poller.putBack = <<>>)
         /\ income' \in Seq(Copy) /\ DOMAIN income' = DOMAIN income /\ Len(income') = Len(income)
         /\ \A i \in DOMAIN income : income'[i] = AgedCopy(income[i])
<1>1. /\ poller.fetched \in Seq(Copy) /\ poller.putBack \in Seq(UpdateSet)
      /\ income \in Seq(Copy) /\ poller \in PollerType
  BY DEF Typed, TypeOK, PollerType
<1> DEFINE fetched == [i \in DOMAIN poller.fetched |-> AgedCopy(poller.fetched[i])]
           putBack == [i \in DOMAIN poller.putBack |-> AgedUpdate(poller.putBack[i])]
           sent == [i \in DOMAIN income |-> AgedCopy(income[i])]
<1>2. poller' = [poller EXCEPT !.fetched = fetched, !.putBack = putBack] /\ income' = sent
  BY DEF Tick
<1>3. fetched \in [DOMAIN poller.fetched -> Copy] /\ sent \in [DOMAIN income -> Copy]
  BY <1>1, AgedCopyType, QueueFacts, ElementOfSeq
<1>4. putBack \in [DOMAIN poller.putBack -> UpdateSet]
  BY <1>1, AgedUpdateType, QueueFacts, ElementOfSeq
<1>5. /\ fetched \in Seq(Copy) /\ Len(fetched) = Len(poller.fetched)
      /\ sent \in Seq(Copy) /\ Len(sent) = Len(income)
      /\ putBack \in Seq(UpdateSet) /\ Len(putBack) = Len(poller.putBack)
  BY <1>1, <1>3, <1>4, SameLength
<1>6. /\ DOMAIN fetched = DOMAIN poller.fetched
      /\ \A i \in DOMAIN poller.fetched : fetched[i] = AgedCopy(poller.fetched[i])
      /\ DOMAIN putBack = DOMAIN poller.putBack
      /\ \A i \in DOMAIN poller.putBack : putBack[i] = AgedUpdate(poller.putBack[i])
      /\ DOMAIN sent = DOMAIN income
      /\ \A i \in DOMAIN income : sent[i] = AgedCopy(income[i])
  OBVIOUS
<1> HIDE DEF fetched, putBack, sent
<1>7. /\ (fetched = <<>>) = (poller.fetched = <<>>)
      /\ (putBack = <<>>) = (poller.putBack = <<>>)
  BY <1>1, <1>5, EmptySeq
<1>8. /\ poller' \in PollerType /\ poller'.pc = poller.pc
      /\ poller'.fetched = fetched /\ poller'.putBack = putBack
  BY <1>1, <1>2, <1>5 DEF PollerType
<1> QED BY <1>2, <1>5, <1>6, <1>7, <1>8
-----------------------------------------------------------------------------
\* Types.

LEMMA TypedInit == Init => Typed
<1> SUFFICES ASSUME Init PROVE Typed
  OBVIOUS
<1>1. Store!TypeOK
  BY DEF Init, Store!Init, Store!TypeOK, Store!NobodyPolled
<1>2. poller \in PollerType
  BY NoWorkFacts DEF Init
<1>3. /\ income \in Seq(Copy) /\ outcome \in Seq(Message) /\ unflushed \in Seq(Message)
      /\ Len(income) <= Cardinality(Workers) /\ Len(outcome) <= OutcomeCap
      /\ Len(unflushed) < BatchCap
  BY EmptySeq, FiniteAssumption, FS_CardinalityType, CapacityAssumption DEF Init
<1>4. flush \in [AllFlushers -> [phase: {"done", "delete", "update", "updating"},
                                dels: SUBSET Tickets, upds: Seq(UpdateSet)]]
  BY EmptySeq DEF Init, NoFlush
<1>5. TypeOK
  BY <1>1, <1>2, <1>3, <1>4, TubesAssumption DEF Init, TypeOK, PollerType
<1> QED BY <1>5 DEF Init, NoWork, Typed, Busy, Stages

\* Whatever data becomes, it is tickets.
LEMMA StoreTypeStep ==
  ASSUME Typed, [Next]_vars
  PROVE  Store!TypeOK'
<1>1. Tables' /\ \A id \in Tickets : DataStep(id)
  BY DataSteps
<1>2. /\ data \in [Tickets -> Ticket \union {None}]
      /\ mu \in AllFlushers \union {Poller, None}
      /\ batch \in Seq(UpdateSet)
      /\ poller.putBack \in Seq(UpdateSet)
      /\ \A f \in AllFlushers : flush[f].upds \in Seq(UpdateSet)
  BY TypeFacts DEF Typed, TypeOK
<1>3. ASSUME NEW id \in Tickets PROVE data'[id] \in Ticket \union {None}
  <2>1. data[id] \in Ticket \union {None} /\ (Store!Present(id) => data[id] \in Ticket)
    BY <1>2 DEF Store!Present
  <2>2. ASSUME NEW call \in Calls, Store!Present(id), data'[id] = Saved(data[id], call)
        PROVE  data'[id] \in Ticket \union {None}
    BY <2>1, <2>2, CallsAreCalls, CallOptsType, BeforeUpdateType DEF Saved
  <2>3. CASE StoreUpdates /\ Store!UpdateFound /\ id = Head(batch).id
             /\ data'[id] = UpdateOne(data[id], Head(batch))
    <3>1. Head(batch) \in UpdateSet /\ Store!Present(id)
      BY <1>2, <2>3, QueueFacts DEF Store!UpdateFound
    <3> QED BY <2>1, <2>3, <3>1, UpdateOneType
  <2>4. CASE id \in Store!Ready(tubes) /\ data'[id] = Store!Bumped(data[id])
    BY <2>1, <2>4, BumpedType DEF Store!Ready, Store!Pending
  <2>5. CASE Store!Present(id) /\ data'[id] = Aged(data[id])
    BY <2>1, <2>5, AgedType
  <2>6. CASE \E t \in Submissions : data'[id] = Store!Submitted(t)
    BY <2>6, SubmittedType
  <2>7. CASE data'[id] = data[id] \/ data'[id] = None
    BY <2>1, <2>7
  <2>8. DataStep(id)
    BY <1>1
  <2> QED BY <2>2, <2>3, <2>4, <2>5, <2>6, <2>7, <2>8 DEF DataStep
<1>4. data' \in [Tickets -> Ticket \union {None}]
  <2>1. data' = [id \in Tickets |-> data'[id]]
    BY <1>1 DEF Tables
  <2> QED BY <1>3, <2>1
<1>5. /\ mu' \in AllFlushers \union {Poller, None}
      /\ batch' \in Seq(UpdateSet)
  <2>1. CASE UNCHANGED <<mu, batch>>
    BY <1>2, <2>1
  <2>2. CASE \E f \in AllFlushers : FlushUpdates(f)
    BY <1>2, <2>2 DEF FlushUpdates, Store!UpdateBatch
  <2>3. CASE PutBack
    BY <1>2, <2>3 DEF PutBack, Store!UpdateBatch
  <2>4. CASE StoreUpdates
    <3>1. mu' \in {mu, None} /\ batch # <<>> /\ batch' \in {<<>>, Tail(batch)}
      BY <2>4 DEF StoreUpdates, Store!UpdateFound, Store!UpdateMissing
    <3>2. Tail(batch) \in Seq(UpdateSet) /\ <<>> \in Seq(UpdateSet)
      BY <1>2, <3>1, QueueFacts, EmptySeq
    <3> QED BY <1>2, <3>1, <3>2
  <2>5. UNCHANGED <<mu, batch>> \/ (\E f \in AllFlushers : FlushUpdates(f)) \/ PutBack \/ StoreUpdates
    <3>1. CASE \E id \in Tickets, call \in ClientCalls : ClientCall(id, call)
      BY <3>1, CallData DEF ClientCall, Calls, Typed
    <3>2. CASE \E w \in Workers, call \in HandlerCalls : HandlerCall(w, call)
      <4>1. PICK w \in Workers, call \in HandlerCalls : HandlerCall(w, call)
        BY <3>2
      <4>2. call \in Calls /\ job[w].id \in Tickets
        BY <4>1 DEF HandlerCall, Calls, Typed, Busy, Copy
      <4> QED BY <4>1, <4>2, CallData DEF HandlerCall, Typed
    <3>3. CASE Client \/ Expire \/ Tick \/ UNCHANGED vars
      BY <3>1, <3>3 DEF Client, ClientPut, ClientPutAfterGroup, ClientDelete, Subscribe, Unsubscribe,
                   NoStoreCall, Store!Put, Store!PutAfterGroup, Store!Delete, Store!Unlocked,
                   Expire, Store!ExpireTickets, Tick, Store!Tick, vars
    <3>4. CASE Run \/ CancelRun \/ RunReturns \/ PusherNext
      BY <3>4 DEF Run, CancelRun, RunReturns, PusherNext, PusherReceives, PusherTicks,
                  PusherStops, PusherExits, NoStoreCall
    <3>5. CASE PollerNext
      BY <3>5 DEF PollerNext, PollerWakes, Poll, Filter, Dispatch, Abandon, NoStoreCall,
                  Store!PollPending, Store!Unlocked
    <3>6. CASE \E w \in Workers : WorkerNext(w)
      BY <3>2, <3>6 DEF WorkerNext, HandlerAnswers, HandlerReturn, TakeJob, WorkerExits, NoStoreCall
    <3>7. CASE \E f \in AllFlushers : FlushNext(f)
      BY <3>7 DEF FlushNext, FlushDeletes, Store!DeleteBatch, Store!Unlocked
    <3> QED BY <3>3, <3>4, <3>5, <3>6, <3>7 DEF Next
  <2> QED BY <2>1, <2>2, <2>3, <2>4, <2>5
<1> QED BY <1>1, <1>4, <1>5, SameValues DEF Store!TypeOK, Tables, AllFlushers

\* The poller and the channel to the workers.
LEMMA PollerTypeStep ==
  ASSUME Typed, [Next]_vars
  PROVE  /\ poller' \in PollerType /\ Stages'
         /\ income' \in Seq(Copy) /\ Len(income') <= Cardinality(Workers)
<1>1. /\ poller \in PollerType /\ poller.fetched \in Seq(Copy)
      /\ income \in Seq(Copy) /\ Len(income) \in Nat /\ Len(income) <= Cardinality(Workers)
      /\ Cardinality(Workers) \in Nat
  BY QueueFacts, FiniteAssumption, FS_CardinalityType DEF Typed, TypeOK, PollerType
<1>2. CASE UNCHANGED <<poller, income>>
  BY <1>1, <1>2 DEF Stages, Typed
<1>3. CASE Run \/ PollerWakes \/ Abandon
  <2>1. UNCHANGED income
    BY <1>3 DEF Run, PollerWakes, Abandon
  <2>2. \E pc \in {"off", "idle", "polling"} : poller' = [NoWork EXCEPT !.pc = pc]
    <3>1. NoWork = [NoWork EXCEPT !.pc = "idle"]
      BY DEF NoWork
    <3> QED BY <1>3, <3>1 DEF Run, PollerWakes, Abandon
  <2>3. poller'.fetched = <<>> /\ poller'.putBack = <<>> /\ poller'.pc \in {"off", "idle", "polling"}
    BY <2>2 DEF NoWork
  <2> QED BY <1>1, <2>1, <2>2, <2>3, NoWorkFacts DEF Stages
<1>4. ASSUME NEW copies \in Seq(Copy), poller' = Sending(copies) PROVE poller' \in PollerType /\ Stages'
  <2>1. copies # <<>> => Sending(copies).pc = "sending"
    BY DEF Sending, NoWork
  <2>2. copies = <<>> => Sending(copies).pc = "idle"
    BY DEF Sending, NoWork
  <2> QED BY <1>4, <2>1, <2>2, SendingFacts DEF Stages
<1>5. CASE Poll
  <2>1. PICK copies \in Seq(Copy) :
          \/ poller' = Sending(copies)
          \/ TubesOn /\ poller' = [pc |-> "filtering", fetched |-> copies, putBack |-> <<>>]
    BY <1>5, PollFacts
  <2>2. UNCHANGED income
    BY <1>5 DEF Poll
  <2>3. CASE TubesOn /\ poller' = [pc |-> "filtering", fetched |-> copies, putBack |-> <<>>]
    BY <1>1, <2>2, <2>3, EmptySeq DEF PollerType, Stages
  <2> QED BY <1>1, <1>4, <2>1, <2>2, <2>3
<1>6. CASE Filter
  <2>1. PICK mine \in Seq(Copy), back \in Seq(UpdateSet) :
          \/ poller' = Sending(mine)
          \/ poller' = [pc |-> "giving", fetched |-> mine, putBack |-> back]
    BY <1>6, FilterFacts
  <2>2. UNCHANGED income /\ TubesOn
    BY <1>6 DEF Filter, Typed, Stages
  <2>3. CASE poller' = [pc |-> "giving", fetched |-> mine, putBack |-> back]
    BY <1>1, <2>2, <2>3 DEF PollerType, Stages
  <2> QED BY <1>1, <1>4, <2>1, <2>2, <2>3
<1>7. CASE PutBack
  <2>1. UNCHANGED income /\ TubesOn
        /\ poller' = [poller EXCEPT !.pc = "given", !.putBack = <<>>]
    BY <1>7 DEF PutBack, Typed, Stages
  <2> QED BY <1>1, <2>1, EmptySeq DEF PollerType, Stages
<1>8. CASE Dispatch
  <2>1. /\ poller.fetched \in Seq(Copy) /\ poller.fetched # <<>>
        /\ income' = Append(income, poller.fetched[1])
        /\ poller' = Sending(Tail(poller.fetched))
    BY <1>8, DispatchFacts
  <2>2. Tail(poller.fetched) \in Seq(Copy) /\ poller.fetched[1] \in Copy
    BY <2>1, QueueFacts
  <2>3. Len(income) < Cardinality(Workers)
    BY <1>8 DEF Dispatch
  <2>4. income' \in Seq(Copy) /\ Len(income') = Len(income) + 1
    BY <1>1, <2>1, <2>2, QueueFacts
  <2>5. poller' \in PollerType /\ Stages'
    BY <1>4, <2>1, <2>2
  <2>6. Len(income') <= Cardinality(Workers)
    BY <1>1, <2>3, <2>4
  <2> QED BY <2>4, <2>5, <2>6
<1>9. CASE \E w \in Workers : TakeJob(w)
  <2>1. UNCHANGED poller /\ income # <<>> /\ income' = Tail(income)
    BY <1>9 DEF TakeJob, WorkerMoves
  <2>2. income' \in Seq(Copy) /\ Len(income') = Len(income) - 1
    BY <1>1, <2>1, QueueFacts
  <2> QED BY <1>1, <2>1, <2>2 DEF Stages, Typed
<1>10. CASE StoreUpdates
  BY <1>1, <1>2, <1>4, <1>10 DEF StoreUpdates
<1>11. CASE Tick
  <2>1. Len(income') <= Cardinality(Workers)
    BY <1>1, <1>11, TickFacts
  <2> QED BY <1>11, <2>1, TickFacts DEF Stages, Typed
<1>12. \/ UNCHANGED <<poller, income>>
       \/ Run \/ PollerNext \/ StoreUpdates \/ Tick
       \/ \E w \in Workers : TakeJob(w)
  <2>1. CASE Client \/ CancelRun \/ RunReturns \/ Expire \/ UNCHANGED vars
    BY <2>1 DEF Client, ClientPut, ClientPutAfterGroup, ClientCall, ClientDelete, Subscribe,
                Unsubscribe, CancelRun, RunReturns, Expire, vars, engineVars
  <2>2. CASE PusherNext \/ \E f \in AllFlushers : FlushNext(f)
    BY <2>2 DEF PusherNext, PusherReceives, PusherTicks, PusherStops, PusherExits, FlushNext,
                FlushDeletes, FlushUpdates, PusherMoves
  <2>3. CASE \E w \in Workers : WorkerNext(w)
    BY <2>3 DEF WorkerNext, HandlerAnswers, HandlerCall, HandlerReturn, WorkerExits, WorkerMoves
  <2> QED BY <2>1, <2>2, <2>3 DEF Next
<1> QED BY <1>2, <1>3, <1>5, <1>6, <1>7, <1>8, <1>9, <1>10, <1>11, <1>12 DEF PollerNext
LEMMA WorkerTypeStep ==
  ASSUME Typed, [Next]_vars
  PROVE  /\ worker' \in [Workers -> {"off", "idle", "busy"}]
         /\ job' \in [Workers -> Copy \union {None}]
         /\ Busy'
<1>1. /\ worker \in [Workers -> {"off", "idle", "busy"}]
      /\ job \in [Workers -> Copy \union {None}]
      /\ Busy /\ income \in Seq(Copy)
  BY DEF Typed, TypeOK
<1>2. CASE UNCHANGED <<worker, job>>
  BY <1>1, <1>2 DEF Busy
<1>3. CASE Run
  BY <1>1, <1>3 DEF Run, Busy
<1>4. ASSUME NEW w \in Workers, WorkerNext(w)
      PROVE  /\ worker' \in [Workers -> {"off", "idle", "busy"}]
             /\ job' \in [Workers -> Copy \union {None}]
             /\ Busy'
  <2>1. CASE TakeJob(w)
    <3>1. Head(income) \in Copy
      BY <1>1, <2>1, QueueFacts DEF TakeJob
    <3> QED BY <1>1, <2>1, <3>1 DEF TakeJob, Busy
  <2>2. CASE worker' = [worker EXCEPT ![w] = "idle"] /\ job' = [job EXCEPT ![w] = None]
    BY <1>1, <2>2 DEF Busy
  <2>3. CASE WorkerExits(w)
    BY <1>1, <2>3 DEF WorkerExits, Busy
  <2> QED BY <1>4, <2>1, <2>2, <2>3 DEF WorkerNext, HandlerAnswers, HandlerCall, HandlerReturn
<1>5. CASE Tick
  <2>1. \A w \in Workers : /\ worker'[w] = worker[w]
                           /\ job'[w] = IF job[w] = None THEN None ELSE AgedCopy(job[w])
    BY <1>5 DEF Tick
  <2>2. \A w \in Workers : job[w] \in Copy /\ job[w] # None => job'[w] \in Copy
    BY <2>1, AgedCopyType
  <2> QED BY <1>1, <1>5, <2>1, <2>2 DEF Tick, Busy
<1>6. UNCHANGED <<worker, job>> \/ Run \/ Tick \/ \E w \in Workers : WorkerNext(w)
  <2>1. CASE Client \/ CancelRun \/ RunReturns \/ Expire \/ UNCHANGED vars \/ StoreUpdates
    BY <2>1 DEF Client, ClientPut, ClientPutAfterGroup, ClientCall, ClientDelete, Subscribe,
                Unsubscribe, CancelRun, RunReturns, Expire, vars, engineVars, StoreUpdates
  <2>2. CASE PusherNext \/ \E f \in AllFlushers : FlushNext(f)
    BY <2>2 DEF PusherNext, PusherReceives, PusherTicks, PusherStops, PusherExits, FlushNext,
                FlushDeletes, FlushUpdates, PusherMoves
  <2>3. CASE PollerNext
    BY <2>3 DEF PollerNext, PollerWakes, Poll, Filter, PutBack, Dispatch, Abandon, PollerMoves
  <2> QED BY <2>1, <2>2, <2>3 DEF Next
<1> QED BY <1>2, <1>3, <1>4, <1>5, <1>6

LEMMA CarriedMessages == Carried(UpdateSet) = Message
BY DEF Carried, Message

LEMMA AllAnswers == Answers(UpdateSet)
BY AgedUpdateType, SaveSetType, CallOptsType, CallsAreCalls DEF Answers

LEMMA TypedMessages == TypeOK => Messages(UpdateSet)
BY CarriedMessages, SameValues DEF TypeOK, Store!TypeOK, Messages

\* The capacities of outcome and of the batch.
LEMMA CapacityStep ==
  ASSUME Typed, [Next]_vars
  PROVE  Len(outcome') <= OutcomeCap /\ Len(unflushed') < BatchCap
<1>1. /\ outcome \in Seq(Message) /\ Len(outcome) \in Nat /\ Len(outcome) <= OutcomeCap
      /\ unflushed \in Seq(Message) /\ Len(unflushed) \in Nat /\ Len(unflushed) < BatchCap
      /\ OutcomeCap \in Nat \ {0} /\ BatchCap \in Nat \ {0} /\ Len(<<>>) = 0
  BY QueueFacts, CapacityAssumption DEF Typed, TypeOK
<1>2. CASE UNCHANGED <<outcome, unflushed>>
  BY <1>1, <1>2
<1>3. ASSUME NEW id \in Tickets, NEW call \in Calls, Send(id, call), UNCHANGED unflushed
      PROVE  Len(outcome') <= OutcomeCap /\ Len(unflushed') < BatchCap
  <2>1. Answer(id, call) \in Message
    BY AnswerType, CallsAreCalls
  <2>2. Len(outcome') = Len(outcome) + 1 /\ Len(outcome) < OutcomeCap
    BY <1>1, <1>3, <2>1, QueueFacts DEF Send
  <2> QED BY <1>1, <1>3, <2>2
<1>4. CASE PusherNext
  <2>1. outcome # <<>> => Len(Tail(outcome)) <= OutcomeCap
    BY <1>1, QueueFacts
  <2>2. /\ outcome' = outcome \/ (outcome # <<>> /\ outcome' = Tail(outcome))
        /\ unflushed' \in {unflushed, <<>>} \/ Len(unflushed') < BatchCap
             \/ ~(Len(unflushed') >= BatchCap)
    BY <1>4 DEF PusherNext, PusherReceives, PusherTicks, PusherStops, PusherExits
  <2>3. Len(unflushed') \in Nat
    <3>1. unflushed' \in Seq(Message)
      BY CarriedMessages, AllAnswers, TypedMessages, MessagesStep DEF Typed, Messages
    <3> QED BY <3>1, QueueFacts
  <2> QED BY <1>1, <2>1, <2>2, <2>3
<1>5. CASE Tick
  <2>1. /\ outcome' \in [DOMAIN outcome -> Message] /\ unflushed' \in [DOMAIN unflushed -> Message]
    <3>1. outcome' \in Seq(Message) /\ unflushed' \in Seq(Message)
      BY CarriedMessages, AllAnswers, TypedMessages, MessagesStep DEF Typed, Messages
    <3>2. DOMAIN outcome' = DOMAIN outcome /\ DOMAIN unflushed' = DOMAIN unflushed
      BY <1>5 DEF Tick
    <3> QED BY <3>1, <3>2, LenProperties
  <2> QED BY <1>1, <2>1, SameLength
<1>6. \/ UNCHANGED <<outcome, unflushed>> \/ PusherNext \/ Tick
      \/ \E id \in Tickets, call \in Calls : Send(id, call) /\ UNCHANGED unflushed
  <2>1. CASE \E id \in Tickets, call \in ClientCalls : ClientCall(id, call)
    BY <2>1 DEF ClientCall, Calls, UpdateNow
  <2>2. CASE \E w \in Workers, call \in HandlerCalls : HandlerCall(w, call)
    <3>1. PICK w \in Workers, call \in HandlerCalls : HandlerCall(w, call)
      BY <2>2
    <3>2. call \in Calls /\ job[w].id \in Tickets
      BY <3>1 DEF HandlerCall, Calls, Typed, Busy, Copy
    <3> QED BY <3>1, <3>2 DEF HandlerCall, UpdateNow, WorkerMoves
  <2>3. CASE Client \/ Run \/ CancelRun \/ RunReturns \/ Expire \/ UNCHANGED vars \/ StoreUpdates
    BY <2>1, <2>3 DEF Client, ClientPut, ClientPutAfterGroup, ClientDelete, Subscribe,
                Unsubscribe, Run, CancelRun, RunReturns, Expire, vars, engineVars, StoreUpdates
  <2>4. CASE \E f \in AllFlushers : FlushNext(f)
    BY <2>4 DEF FlushNext, FlushDeletes, FlushUpdates
  <2>5. CASE PollerNext
    BY <2>5 DEF PollerNext, PollerWakes, Poll, Filter, PutBack, Dispatch, Abandon, PollerMoves
  <2>6. CASE \E w \in Workers : WorkerNext(w)
    BY <2>2, <2>6 DEF WorkerNext, HandlerAnswers, HandlerReturn, TakeJob, WorkerExits, WorkerMoves
  <2> QED BY <2>3, <2>4, <2>5, <2>6 DEF Next
<1> QED BY <1>2, <1>3, <1>4, <1>5, <1>6

LEMMA FlushTypeStep ==
  ASSUME Typed, [Next]_vars
  PROVE  flush' \in [AllFlushers -> [phase: {"done", "delete", "update", "updating"},
                                     dels: SUBSET Tickets, upds: Seq(UpdateSet)]]
<1> DEFINE F == [phase: {"done", "delete", "update", "updating"},
                 dels: SUBSET Tickets, upds: Seq(UpdateSet)]
<1>1. /\ flush \in [AllFlushers -> F] /\ NoFlush \in F
      /\ outcome \in Seq(Message) /\ unflushed \in Seq(Message)
  BY EmptySeq DEF Typed, TypeOK, NoFlush
<1>2. CASE UNCHANGED flush
  BY <1>1, <1>2
<1>3. ASSUME NEW f \in AllFlushers, NEW msgs \in Seq(Message), StartFlush(f, msgs)
      PROVE  flush' \in [AllFlushers -> F]
  <2>1. Updates(msgs) \in Seq(UpdateSet) /\ Deletes(msgs) \in SUBSET Tickets
    BY CarriedMessages, UpdatesCarried
  <2>2. [phase |-> IF Deletes(msgs) = {} THEN "update" ELSE "delete",
         dels |-> Deletes(msgs), upds |-> Updates(msgs)] \in F
    BY <2>1
  <2> HIDE DEF F
  <2> QED BY <1>1, <1>3, <2>2 DEF StartFlush
<1>4. CASE PusherNext
  <2>1. outcome # <<>> => Append(unflushed, Head(outcome)) \in Seq(Message)
    BY <1>1, QueueFacts
  <2>2. \/ UNCHANGED flush
        \/ \E f \in AllFlushers, msgs \in Seq(Message) : StartFlush(f, msgs)
    <3>1. CASE PusherReceives
      BY <2>1, <3>1 DEF PusherReceives, AllFlushers
    <3>2. CASE PusherTicks \/ PusherStops \/ PusherExits
      BY <1>1, <3>2 DEF PusherTicks, PusherStops, PusherExits, AllFlushers
    <3> QED BY <1>4, <3>1, <3>2 DEF PusherNext
  <2> QED BY <1>2, <1>3, <2>2
<1>5. ASSUME NEW f \in AllFlushers, FlushNext(f) PROVE flush' \in [AllFlushers -> F]
  <2>1. \E v \in F : flush' = [flush EXCEPT ![f] = v]
    <3>1. flush[f] \in F
      BY <1>1
    <3>2. CASE FlushDeletes(f)
      <4>1. [flush[f] EXCEPT !.phase = "update", !.dels = {}] \in F
        BY <3>1
      <4> QED BY <1>1, <3>2, <4>1 DEF FlushDeletes
    <3>3. CASE FlushUpdates(f)
      <4>1. [NoFlush EXCEPT !.phase = "updating"] \in F
        BY <1>1
      <4> QED BY <3>3, <4>1 DEF FlushUpdates
    <3> QED BY <1>5, <3>2, <3>3 DEF FlushNext
  <2> HIDE DEF F
  <2> QED BY <1>1, <2>1
<1>6. CASE StoreUpdates
  <2>1. /\ flush' = [f \in AllFlushers |-> flush'[f]]
        /\ \A f \in AllFlushers : flush'[f] \in {NoFlush, flush[f]}
    BY <1>6 DEF StoreUpdates
  <2>2. \A f \in AllFlushers : flush'[f] \in F
    BY <1>1, <2>1
  <2> QED BY <2>1, <2>2
<1>7. CASE Tick
  <2>1. ASSUME NEW f \in AllFlushers
        PROVE  [flush[f] EXCEPT !.upds = [i \in DOMAIN flush[f].upds |-> AgedUpdate(flush[f].upds[i])]] \in F
    <3>1. [i \in DOMAIN flush[f].upds |-> AgedUpdate(flush[f].upds[i])] \in Seq(UpdateSet)
      BY <1>1, AgedUpdateType, AgedUpdatesIn
    <3> QED BY <1>1, <3>1
  <2>2. flush' = [f \in AllFlushers |->
                   [flush[f] EXCEPT !.upds = [i \in DOMAIN flush[f].upds |-> AgedUpdate(flush[f].upds[i])]]]
    BY <1>7 DEF Tick
  <2>3. flush' = [f \in AllFlushers |-> flush'[f]] /\ \A f \in AllFlushers : flush'[f] \in F
    BY <2>1, <2>2
  <2> QED BY <2>3
<1>8. UNCHANGED flush \/ PusherNext \/ (\E f \in AllFlushers : FlushNext(f)) \/ StoreUpdates \/ Tick
  <2>1. CASE Client \/ Run \/ CancelRun \/ RunReturns \/ Expire \/ UNCHANGED vars
    BY <2>1 DEF Client, ClientPut, ClientPutAfterGroup, ClientCall, ClientDelete, Subscribe,
                Unsubscribe, Run, CancelRun, RunReturns, Expire, vars, engineVars
  <2>2. CASE PollerNext
    BY <2>2 DEF PollerNext, PollerWakes, Poll, Filter, PutBack, Dispatch, Abandon, PollerMoves
  <2>3. CASE \E w \in Workers : WorkerNext(w)
    BY <2>3 DEF WorkerNext, HandlerAnswers, HandlerCall, HandlerReturn, TakeJob, WorkerExits,
                WorkerMoves
  <2> QED BY <2>1, <2>2, <2>3 DEF Next
<1> QED BY <1>2, <1>4, <1>5, <1>6, <1>7, <1>8

LEMMA TypedStep == Typed /\ [Next]_vars => Typed'
<1> SUFFICES ASSUME Typed, [Next]_vars PROVE Typed'
  OBVIOUS
<1>1. outcome' \in Seq(Message) /\ unflushed' \in Seq(Message)
  BY CarriedMessages, AllAnswers, TypedMessages, MessagesStep DEF Typed, Messages
<1>2. /\ submitted' \subseteq Tickets /\ tubes' \subseteq Tubes
      /\ {running', cancelled'} \subseteq BOOLEAN
      /\ pusher' \in {"off", "on", "waiting"}
  <2>0. TypeOK
    BY DEF Typed
  <2>1. CASE Client
    BY <2>0, <2>1 DEF TypeOK, Client, ClientPut, ClientPutAfterGroup, ClientCall, ClientDelete,
                Subscribe, Unsubscribe, engineVars
  <2>2. CASE Run \/ CancelRun \/ RunReturns \/ Expire \/ UNCHANGED vars \/ Tick \/ StoreUpdates
    BY <2>0, <2>2 DEF TypeOK, Run, CancelRun, RunReturns, Expire, vars, engineVars, Tick,
                      StoreUpdates
  <2>3. CASE PollerNext
    BY <2>0, <2>3 DEF TypeOK, PollerNext, PollerWakes, Poll, Filter, PutBack, Dispatch, Abandon,
                      PollerMoves
  <2>4. CASE \E w \in Workers : WorkerNext(w)
    BY <2>0, <2>4 DEF TypeOK, WorkerNext, HandlerAnswers, HandlerCall, HandlerReturn, TakeJob,
                      WorkerExits, WorkerMoves
  <2>5. CASE PusherNext \/ \E f \in AllFlushers : FlushNext(f)
    BY <2>0, <2>5 DEF TypeOK, PusherNext, PusherReceives, PusherTicks, PusherStops, PusherExits,
                FlushNext, FlushDeletes, FlushUpdates, PusherMoves
  <2> QED BY <2>1, <2>2, <2>3, <2>4, <2>5 DEF Next
<1> QED
  BY <1>1, <1>2, StoreTypeStep, PollerTypeStep, WorkerTypeStep, CapacityStep, FlushTypeStep
  DEF Typed, TypeOK, PollerType

\* Every state of the engine is well-formed, for any number of workers,
\* flushers and tickets: no channel and no batch ever holds more than its
\* capacity, and what travels through them are whole tickets and updates.
THEOREM KharonTypeCorrect == Spec => []TypeOK
<1>1. Typed => TypeOK
  BY DEF Typed
<1> QED BY <1>1, TypedInit, TypedStep, PTL DEF Spec

-----------------------------------------------------------------------------
\* What a Run leaves behind.

\* Who is where. The values that travel are left open.
Shapes ==
  /\ "pc" \in DOMAIN poller
  /\ worker \in [Workers -> {"off", "idle", "busy"}]
  /\ DOMAIN job = Workers
  /\ DOMAIN flush = AllFlushers
  /\ \A f \in AllFlushers : "phase" \in DOMAIN flush[f]

\* Whoever holds the store's mutex is waiting for its UpdateBatch.
Held ==
  mu # None => \/ mu = Poller /\ poller.pc = "given"
               \/ mu \in AllFlushers /\ flush[mu].phase = "updating"

\* Only a busy worker has a job, only a pusher that is on has a batch, and it
\* is off only when no flush is under way; without a Run all of them are off.
Leaving ==
  /\ \A w \in Workers : job[w] # None => worker[w] = "busy"
  /\ pusher # "on" => unflushed = <<>>
  /\ pusher = "off" => \A f \in AllFlushers : flush[f].phase = "done"
  /\ ~running => /\ poller.pc = "off" /\ pusher = "off"
                 /\ \A w \in Workers : worker[w] = "off"

IInv == Shapes /\ Held /\ Leaving

LEMMA QuietInit == Init => IInv
BY DEF Init, Store!Init, IInv, Shapes, Held, Leaving, NoWork, NoFlush

LEMMA QuietImplied == IInv => QuietAfterRun
BY CallerAssumption DEF IInv, Held, Leaving, QuietAfterRun, AllFlushers

-----------------------------------------------------------------------------
\* The store: its mutex stays free except in UpdateBatch.

\* A step that leaves the mutex and the goroutines alone.
LEMMA OthersKeep ==
  ASSUME IInv, mu' = mu, UNCHANGED <<running, poller, worker, job, pusher, unflushed, flush>>
  PROVE  IInv'
BY DEF IInv, Shapes, Held, Leaving

LEMMA CallsKeepMutex ==
  ASSUME NEW id, NEW call, Send(id, call) \/ UpdateNow(id, call)
  PROVE  mu' = mu
BY DEF Send, UpdateNow, NoStoreCall, Store!Update, Store!Unlocked

LEMMA ClientsKeep == IInv /\ Client => IInv'
<1> SUFFICES ASSUME IInv, Client PROVE IInv'
  OBVIOUS
<1>1. ASSUME NEW id \in Tickets, NEW t \in Submissions, ClientPut(id, t) PROVE IInv'
  BY <1>1, OthersKeep DEF ClientPut, Store!Put, Store!Unlocked
<1>2. ASSUME NEW id \in Tickets, NEW t \in Submissions, NEW g \in Groups,
             ClientPutAfterGroup(id, t, g)
      PROVE  IInv'
  BY <1>2, OthersKeep DEF ClientPutAfterGroup, Store!PutAfterGroup, Store!Unlocked
<1>3. ASSUME NEW id \in Tickets, NEW call \in ClientCalls, ClientCall(id, call) PROVE IInv'
  <2>1. mu' = mu
    BY <1>3, CallsKeepMutex DEF ClientCall
  <2> QED BY <1>3, <2>1, OthersKeep DEF ClientCall
<1>4. ASSUME NEW id \in Tickets, ClientDelete(id) PROVE IInv'
  BY <1>4, OthersKeep DEF ClientDelete, Store!Delete, Store!Unlocked, engineVars
<1>5. ASSUME NEW ts \in (SUBSET Tubes) \ {{}}, Subscribe(ts) \/ Unsubscribe(ts) PROVE IInv'
  BY <1>5, OthersKeep DEF Subscribe, Unsubscribe, NoStoreCall
<1> QED BY <1>1, <1>2, <1>3, <1>4, <1>5 DEF Client

-----------------------------------------------------------------------------
\* Run, the poller and the workers.

LEMMA RunKeeps == IInv /\ (Run \/ CancelRun \/ RunReturns) => IInv'
<1> SUFFICES ASSUME IInv, Run \/ CancelRun \/ RunReturns PROVE IInv'
  OBVIOUS
<1>1. CASE Run
  <2>1. mu = None
    BY <1>1, QuietImplied DEF Run, QuietAfterRun
  <2> QED BY <1>1, <2>1 DEF Run, NoStoreCall, IInv, Shapes, Held, Leaving, NoWork
<1>2. CASE CancelRun
  BY <1>2, OthersKeep DEF CancelRun, NoStoreCall
<1>3. CASE RunReturns
  BY <1>3 DEF RunReturns, NoStoreCall, IInv, Shapes, Held, Leaving
<1> QED BY <1>1, <1>2, <1>3

\* The poller stays within its Run.
LEMMA PollerKeeps == IInv /\ PollerNext => IInv'
<1> SUFFICES ASSUME IInv, PollerNext PROVE IInv'
  OBVIOUS
<1>1. \A copies : "pc" \in DOMAIN Sending(copies)
  BY DEF Sending, NoWork
<1>2. poller.pc \notin {"off", "given"} /\ PollerMoves
  BY DEF PollerNext, PollerWakes, Poll, Filter, PutBack, Dispatch, Abandon
<1>3. CASE PutBack
  <2>1. mu = None /\ mu' = Poller /\ poller' = [poller EXCEPT !.pc = "given", !.putBack = <<>>]
    BY <1>3 DEF PutBack, Store!UpdateBatch
  <2>2. "pc" \in DOMAIN poller' /\ poller'.pc = "given"
    BY <2>1 DEF IInv, Shapes
  <2> QED BY <1>2, <2>1, <2>2 DEF PollerMoves, IInv, Shapes, Held, Leaving
<1>4. CASE ~PutBack
  <2>1. mu' = mu
    BY <1>4 DEF PollerNext, PollerWakes, Poll, Filter, Dispatch, Abandon, NoStoreCall,
                Store!PollPending, Store!Unlocked
  <2>2. "pc" \in DOMAIN poller'
    <3>1. CASE PollerWakes \/ Dispatch \/ Abandon
      BY <1>1, <3>1 DEF PollerWakes, Dispatch, Abandon, NoWork
    <3>2. CASE Poll
      <4>1. PICK copies :
              \/ poller' = [NoWork EXCEPT !.pc = "filtering", !.fetched = copies]
              \/ poller' = Sending(copies)
        BY <3>2 DEF Poll
      <4> QED BY <1>1, <4>1 DEF NoWork
    <3>3. CASE Filter
      <4>1. PICK copies, given :
              \/ poller' = Sending(copies)
              \/ poller' = [pc |-> "giving", fetched |-> copies, putBack |-> given]
        BY <3>3 DEF Filter
      <4> QED BY <1>1, <4>1
    <3> QED BY <1>4, <3>1, <3>2, <3>3 DEF PollerNext
  <2>3. mu # Poller
    BY <1>2, CallerAssumption DEF IInv, Held, AllFlushers
  <2> QED BY <1>2, <2>1, <2>2, <2>3 DEF PollerMoves, IInv, Shapes, Held, Leaving
<1> QED BY <1>3, <1>4

LEMMA WorkersKeep ==
  ASSUME IInv, NEW w \in Workers, WorkerNext(w)
  PROVE  IInv'
<1>1. worker[w] # "off" /\ WorkerMoves
  BY DEF WorkerNext, TakeJob, HandlerAnswers, HandlerCall, HandlerReturn, WorkerExits
<1>2. mu' = mu
  BY CallsKeepMutex DEF WorkerNext, TakeJob, HandlerAnswers, HandlerCall, HandlerReturn,
                        WorkerExits, NoStoreCall
<1>3. running
  BY <1>1 DEF IInv, Leaving
<1>4. PICK s \in {"off", "idle", "busy"} :
        /\ worker' = [worker EXCEPT ![w] = s]
        /\ \/ s = "busy" /\ \E j : job' = [job EXCEPT ![w] = j]
           \/ job' = [job EXCEPT ![w] = None]
           \/ worker[w] = "idle" /\ job' = job
  BY DEF WorkerNext, TakeJob, HandlerAnswers, HandlerCall, HandlerReturn, WorkerExits
<1>5. worker' \in [Workers -> {"off", "idle", "busy"}] /\ DOMAIN job' = Workers
  BY <1>4 DEF IInv, Shapes
<1>6. \A v \in Workers : job'[v] # None => worker'[v] = "busy"
  BY <1>4 DEF IInv, Shapes, Leaving
<1> QED BY <1>1, <1>2, <1>3, <1>5, <1>6 DEF WorkerMoves, IInv, Shapes, Held, Leaving

-----------------------------------------------------------------------------
\* The pusher, the flushes and the store's steps.

LEMMA StartFlushFacts ==
  ASSUME IInv, NEW f \in AllFlushers, NEW msgs, StartFlush(f, msgs)
  PROVE  /\ DOMAIN flush' = AllFlushers
         /\ \A g \in AllFlushers : "phase" \in DOMAIN flush'[g]
         /\ \A g \in AllFlushers : g # f => flush'[g] = flush[g]
         /\ flush[f].phase = "done"
BY DEF StartFlush, IInv, Shapes

\* Flushes are started while the pusher is on or as it stops.
LEMMA PusherKeeps == IInv /\ PusherNext => IInv'
<1> SUFFICES ASSUME IInv, PusherNext PROVE IInv'
  OBVIOUS
<1>1. /\ pusher # "off" /\ running
      /\ mu' = mu /\ PusherMoves
  BY DEF PusherNext, PusherReceives, PusherTicks, PusherStops, PusherExits, NoStoreCall,
         IInv, Leaving
<1>2. /\ DOMAIN flush' = AllFlushers
      /\ \A f \in AllFlushers : "phase" \in DOMAIN flush'[f]
      /\ mu \in AllFlushers /\ flush[mu].phase = "updating" => flush'[mu] = flush[mu]
  <2>1. CASE UNCHANGED flush
    BY <2>1 DEF IInv, Shapes
  <2>2. ASSUME NEW f \in AllFlushers, NEW msgs, StartFlush(f, msgs)
        PROVE  /\ DOMAIN flush' = AllFlushers
               /\ \A g \in AllFlushers : "phase" \in DOMAIN flush'[g]
               /\ mu \in AllFlushers /\ flush[mu].phase = "updating" => flush'[mu] = flush[mu]
    BY <2>2, StartFlushFacts
  <2>3. UNCHANGED flush \/ \E f \in AllFlushers : \E msgs : StartFlush(f, msgs)
    BY DEF PusherNext, PusherReceives, PusherTicks, PusherStops, PusherExits, AllFlushers
  <2> QED BY <2>1, <2>2, <2>3
<1>3. pusher' # "on" => unflushed' = <<>>
  BY DEF PusherNext, PusherReceives, PusherTicks, PusherStops, PusherExits, IInv, Leaving
<1>4. pusher' = "off" => \A f \in AllFlushers : flush'[f].phase = "done"
  BY DEF PusherNext, PusherReceives, PusherTicks, PusherStops, PusherExits
<1> QED BY <1>1, <1>2, <1>3, <1>4 DEF PusherMoves, IInv, Shapes, Held, Leaving

LEMMA FlushesKeep ==
  ASSUME IInv, NEW f \in AllFlushers, FlushNext(f)
  PROVE  IInv'
<1>1. /\ flush[f].phase # "done" /\ PusherMoves
      /\ UNCHANGED <<pusher, unflushed>>
  BY DEF FlushNext, FlushDeletes, FlushUpdates
<1>2. pusher # "off" /\ running
  BY <1>1 DEF IInv, Leaving
<1>3. CASE FlushDeletes(f)
  <2>1. mu = None /\ mu' = None
    BY <1>3 DEF FlushDeletes, Store!DeleteBatch, Store!Unlocked
  <2>2. /\ DOMAIN flush' = AllFlushers
        /\ \A g \in AllFlushers : "phase" \in DOMAIN flush'[g]
    BY <1>3 DEF FlushDeletes, NoFlush, IInv, Shapes
  <2> QED BY <1>1, <1>2, <2>1, <2>2 DEF PusherMoves, IInv, Shapes, Held, Leaving
<1>4. CASE FlushUpdates(f)
  <2>1. mu' = f
    BY <1>4 DEF FlushUpdates, Store!UpdateBatch
  <2>2. /\ DOMAIN flush' = AllFlushers
        /\ \A g \in AllFlushers : "phase" \in DOMAIN flush'[g]
        /\ flush'[f].phase = "updating"
    BY <1>4 DEF FlushUpdates, NoFlush, IInv, Shapes
  <2> QED BY <1>1, <1>2, <2>1, <2>2 DEF PusherMoves, IInv, Shapes, Held, Leaving
<1> QED BY <1>3, <1>4 DEF FlushNext

\* The caller goes on when its last update is applied.
LEMMA StoreKeeps == IInv /\ StoreUpdates => IInv'
<1> SUFFICES ASSUME IInv, StoreUpdates PROVE IInv'
  OBVIOUS
<1>1. mu # None /\ mu' \in {mu, None}
  BY DEF StoreUpdates, Store!UpdateFound, Store!UpdateMissing
<1>2. /\ DOMAIN flush' = AllFlushers
      /\ \A f \in AllFlushers : /\ "phase" \in DOMAIN flush'[f]
                                /\ flush'[f].phase \in {"done", flush[f].phase}
                                /\ mu' # None => flush'[f] = flush[f]
  BY <1>1 DEF StoreUpdates, NoFlush, IInv, Shapes
<1>3. /\ "pc" \in DOMAIN poller'
      /\ mu = Poller => running
      /\ mu # Poller \/ mu' # None => poller' = poller
  BY CallerAssumption DEF StoreUpdates, Sending, NoWork, IInv, Shapes, Held, Leaving, AllFlushers
<1> QED BY <1>1, <1>2, <1>3 DEF StoreUpdates, IInv, Shapes, Held, Leaving

LEMMA TickKeeps == IInv /\ Tick => IInv'
<1> SUFFICES ASSUME IInv, Tick PROVE IInv'
  OBVIOUS
<1>1. mu' = mu /\ UNCHANGED <<running, worker, pusher>>
  BY DEF Tick, Store!Tick, Store!Unlocked
<1>2. "pc" \in DOMAIN poller' /\ poller'.pc = poller.pc
  BY DEF Tick, IInv, Shapes
<1>3. /\ DOMAIN flush' = AllFlushers
      /\ \A f \in AllFlushers : /\ "phase" \in DOMAIN flush'[f]
                                /\ flush'[f].phase = flush[f].phase
  BY DEF Tick, IInv, Shapes
<1>4. DOMAIN job' = Workers /\ \A w \in Workers : job'[w] # None => job[w] # None
  BY DEF Tick
<1>5. unflushed = <<>> => unflushed' = <<>>
  BY DEF Tick
<1> QED BY <1>1, <1>2, <1>3, <1>4, <1>5 DEF IInv, Shapes, Held, Leaving

-----------------------------------------------------------------------------

LEMMA QuietStep == IInv /\ [Next]_vars => IInv'
<1> SUFFICES ASSUME IInv, [Next]_vars PROVE IInv'
  OBVIOUS
<1>1. CASE Expire
  BY <1>1, OthersKeep DEF Expire, Store!ExpireTickets, Store!Unlocked, engineVars
<1>2. CASE UNCHANGED vars
  BY <1>2, OthersKeep DEF vars, engineVars
<1> QED
  BY <1>1, <1>2, ClientsKeep, RunKeeps, PollerKeeps, WorkersKeep, PusherKeeps, FlushesKeep,
     StoreKeeps, TickKeeps
  DEF Next

\* Run returns only when every goroutine it started has ended and every flush
\* has been applied (Run's WaitGroup, and the pusher's wait for its flushes),
\* and nothing starts between two Runs.
THEOREM QuietAfterRunCorrect == Spec => []QuietAfterRun
BY QuietInit, QuietStep, QuietImplied, PTL DEF Spec
=============================================================================
