\* Two lock calls and one storage call over one database key; three keys allow
\* two reloads of a pristine wallet, and `weak` is a wrong passphrase to try.
CONSTANTS
  None = None
  Keys = {k1, k2, k3}
  Passphrases = {strong1, strong2, weak}
  Strong = {strong1, strong2}
  LockCalls = {l1, l2}
  StorageCalls = {s1}
  Callers = {l1, l2, s1}
  DataKeys = {backup}
SYMMETRY KeySymmetry
SPECIFICATION SpecH
INVARIANTS
  NoStrandedCaller
  OneSecret
  Readable
  UnlockedIsArmed
  LockedIsUnlockable
PROPERTIES
  VaultSpec
  UnlockedByHolder
  ReplacedByHolder
