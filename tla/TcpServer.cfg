CONSTANTS
  Conns = {c1, c2, c3}
  MaxFd = 3
  Listener = listener
  Nobody = nobody
SPECIFICATION FairSpec
CHECK_DEADLOCK FALSE
INVARIANTS TypeOK NoEventMisdirected TableIsRight NoneForgotten
PROPERTIES Accepted StopCloses
