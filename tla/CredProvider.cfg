SPECIFICATION LiveSpec
CONSTANTS
  MaxLogins = 3
  MaxChannels = 3
  MaxFailures = 1
  Blank = {3}
  Local = {2}
INVARIANTS
  ReferencesCounted
  SubmittedWhole
  NoThreadAfterDelete
PROPERTIES
  AgentReturns
  StoredIsSubmitted
CHECK_DEADLOCK FALSE
