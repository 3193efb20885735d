\* One create() call overtaken by the revocation of its identity.
CONSTANTS
  None = None
  Ids = {id}
  AppIds = {app}
  SessionIds = {s1, s2}
  CreateCalls = {c1}
  MaxDestroys = 1
  Events = {"revokeDevice", "reload"}
SPECIFICATION Spec
INVARIANT NoSessionOfRevoked
