SPECIFICATION LiveSpec
CONSTANTS
  Logins = {l1, l2}
  MaxThreads = 3
  MaxOrphans = 1
  MaxPosted = 2
  MaxFailures = 1
  MaxInterruptions = 2
  WinlogonVersions = {3, 4}
  Originals <- MCOriginals
  Registries <- MCRegistries
INVARIANT ListenerIsOfTheDialog
INVARIANT NegotiatedIsLoaded
PROPERTY OkIsOfItsLogin
PROPERTY LogonIsReady
CHECK_DEADLOCK FALSE
