CONSTANTS
  Threads = {app, user}
  Loop = loop
  Tasks = {t1, t2}
  Fds = {sock1, sock2}
  EventFd = eventfd
  MaxEvents = 2
SPECIFICATION FairSpec
CHECK_DEADLOCK FALSE
INVARIANTS TypeOK TaskOrder NoLostWakeup ArmedHasHandler
PROPERTIES ImplementsExecutor PostedRuns StopReturns
