\* Room for two items, so that a push or a pop may leave the deque neither
\* full nor empty while two threads of one side sleep.
SPECIFICATION Spec
CONSTANTS
  Producers = {p1, p2, p3}
  Consumers = {c1, c2, c3}
  Capacity = 2
  MaxItems = 5
INVARIANTS PoppedInOrder NoLostWakeup
