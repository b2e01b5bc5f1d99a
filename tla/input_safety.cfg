SPECIFICATION InputSpec
CONSTANTS
  q1 = q1
  q2 = q2
  Requesters = {q1, q2}
  TapDelay = 1
  StepDelay = 1
  Steps = 2
  MaxEvents = 2
  MaxChanges = 2
  MaxVibrations = 1
  MaxMonitors = 1
  MaxPlugs = 2
  Changes = {"configure", "reopen"}
SYMMETRY Symmetry
INVARIANTS EventsSafe WakesInTime ChangesSafe
CHECK_DEADLOCK FALSE
