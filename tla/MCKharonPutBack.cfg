SPECIFICATION Spec
CONSTANTS
  tube = tube
  group = group
  None = None
  Tickets = {t1}
  Tubes <- MCTubes
  Groups <- MCNoGroups
  Nices <- MCNices
  Horizon = 1
  MaxAge = 0
  MaxAttempts = 0
  Workers = {w1}
  Flushers = {f1}
  Poller = Poller
  Pusher = Pusher
  BatchCap = 2
  OutcomeCap = 2
  TubesOn = TRUE
  InitialTubes <- MCTubes
  Submissions <- MCSubmissions
  HandlerCalls <- DoneOrCrash
  ClientCalls <- MCNoCalls
  PollDelays <- MCPollDelays
  Limit = 1
  ExpireLimit = 2
  MayStop = FALSE
  MayDelete = FALSE
INVARIANT FinishedStay
