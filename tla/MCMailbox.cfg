CONSTANTS
  Producers = {exch, other, self}
  MaxPut = 2
  ReadMax = 128
SPECIFICATION FairSpec
INVARIANTS
  NoLostWakeup
  PipeBounded
PROPERTIES
  Delivered
  QueueSpec
\* Once every producer is at its bound the worker sleeps in epoll_wait, as
\* it does whenever nobody sends.
CHECK_DEADLOCK FALSE
