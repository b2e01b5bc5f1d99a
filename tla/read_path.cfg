SPECIFICATION ReadSpec
CONSTANTS
  Readers = {"r1"}
  Callers = {"c1", "c2"}
  Nodes = {"n1", "n2"}
  Pids = {"p1"}
  Buffers = {"b1"}
  MaxEvents = 2
  ListHead = "ListHead"
  Null = "Null"
  Poison = "Poison"
  Free = "Free"
PROPERTIES DeadHolderFreezesList ReadReturns EventsDelivered ConfigurationSettles
CHECK_DEADLOCK FALSE
