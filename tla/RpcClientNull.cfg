CONSTANTS
  Threads = {app}
  Loop = loop
  MaxSessions = 1
  MaxId = 1
  MaxTasks = 2
  MaxReplies = 2
SPECIFICATION Spec
CHECK_DEADLOCK FALSE
INVARIANT NoNullSession
