\* Two lock calls and one storage call under fairness.
CONSTANTS
  None = None
  Keys = {k1, k2}
  Passphrases = {strong1, weak}
  Strong = {strong1}
  LockCalls = {l1, l2}
  StorageCalls = {s1}
  Callers = {l1, l2, s1}
  DataKeys = {backup}
SPECIFICATION FairSpec
PROPERTIES
  EventuallyLocked
  CallsSettle
