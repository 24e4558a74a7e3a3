SPECIFICATION Spec
CONSTANTS
  Workers = {w1, w2, w3}
  Conns = {c1}
  Listeners = {l1}
  Signals = {s1}
  OUT = out
  NoFd = nofd
  QueueLimit = 1
  BacklogSize = 2
  MaxTasks = 2
SYMMETRY Sym
INVARIANTS
  OnePoller
  EventOwnership
  HandlerPresent
  WorkAttended
  WriteEventOwnership
  EndHeard
PROPERTIES
  RefinesLifecycle
