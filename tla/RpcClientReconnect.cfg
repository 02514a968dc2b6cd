CONSTANTS
  Threads = {app}
  Loop = loop
  MaxSessions = 2
  MaxId = 2
  MaxTasks = 3
  MaxReplies = 1
SPECIFICATION Spec
CHECK_DEADLOCK FALSE
INVARIANT SentIsPending
