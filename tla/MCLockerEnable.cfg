\* Two concurrent calls of enable() on a pristine wallet suffice.
CONSTANTS
  None = None
  Keys = {k1}
  Passphrases = {strong1, strong2}
  Strong = {strong1, strong2}
  LockCalls = {l1, l2}
  StorageCalls = {}
  Callers = {l1, l2}
  DataKeys = {}
SPECIFICATION Spec
PROPERTY EnableOnlyWhenDisabled
