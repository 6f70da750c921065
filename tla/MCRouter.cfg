SPECIFICATION FairSpec
CONSTANTS
  None = None
  Default = Default
  Lookups = {l1, l2}
  Registrars = {r1}
  Types = {known, unknown}
  Handlers = {h}
PROPERTY LookupReturns
CHECK_DEADLOCK FALSE
