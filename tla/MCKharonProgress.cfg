SPECIFICATION FairSpec
CONSTANTS
  tube = tube
  group = group
  None = None
  Tickets = {t1, t2}
  Tubes <- MCTubes
  Groups <- MCGroups
  Nices <- MCNices
  Horizon = 1
  MaxAge = 0
  MaxAttempts = 0
  Workers = {w1}
  Flushers = {f1}
  Poller = Poller
  Pusher = Pusher
  BatchCap = 2
  OutcomeCap = 1
  TubesOn = FALSE
  InitialTubes <- MCTubes
  Submissions <- MCGroupSubmissions
  HandlerCalls <- AckOrCrash
  ClientCalls <- MCNoCalls
  PollDelays <- MCPollDelays
  Limit = 2
  ExpireLimit = 2
  MayStop = FALSE
  MayDelete = FALSE
PROPERTIES
  EveryTicketServed
  EveryTicketFinished
