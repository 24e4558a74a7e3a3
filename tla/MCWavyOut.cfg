SPECIFICATION FairSpec
CONSTANTS
  Threads = {t1, t2}
  Fds = {f1}
  NoThread = nothread
  NoFd = nofd
  Calls <- MCCalls
  Room = 2
  BacklogSize = 2
  MaxBytes = 5
  MaxCommits = 3
INVARIANTS
  WatchedWhilePending
  StreamIntact
  FinalizedOnce
PROPERTIES
  EventuallyDelivered
