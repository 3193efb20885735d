\* setMaxTime calls one after the other.  Times has zero, values on both sides
\* of the default and one beyond the longest delay of the runtime.
CONSTANTS
  None = None
  Times = {0, 1, 3, 5, 7}
  DefaultMax = 4
  TimerLimit = 6
  Epoch = 9
  Calls = {c1}
SPECIFICATION Spec
INVARIANTS
  RemainingTimeIsTruthful
  PendingWithinMax
  StoredIsInForce
PROPERTY CountdownSpec
