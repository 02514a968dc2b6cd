CONSTANTS
  Threads = {app}
  Loop = loop
  MaxSessions = 1
  MaxId = 2
  MaxTasks = 3
  MaxReplies = 1
SPECIFICATION FairSpec
CHECK_DEADLOCK FALSE
INVARIANTS TypeOK AnsweredOnce SentIsPending NoOrphan
 
