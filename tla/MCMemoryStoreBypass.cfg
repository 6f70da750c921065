SPECIFICATION HistSpec
SYMMETRY Symmetry
CONSTANTS
  t1 = t1
  t2 = t2
  t3 = t3
  tube = tube
  group = group
  None = None
  Tickets = {t1, t2, t3}
  Tubes <- MCTubes
  Groups <- MCGroups
  Nices <- MCNices
  Horizon = 1
  MaxAge = 0
  MaxAttempts = 0
  Callers = {flusher}
  Submissions <- MCSubmissions
  Batches <- MCBatches
  FnUpdates <- MCCallbacks
  PollDelays <- MCPollDelays
  Limit = 1
  ExpireLimit = 2
INVARIANTS
  BlockersPending
