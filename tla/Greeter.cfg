SPECIFICATION LiveSpec
CONSTANTS
  MaxToken = 3
  MaxMessages = 2
  MaxBusFailures = 1
INVARIANTS
  TimeoutsAccounted
PROPERTIES
  ImplementsTokenBroker
  LoginIsServed
CHECK_DEADLOCK FALSE
