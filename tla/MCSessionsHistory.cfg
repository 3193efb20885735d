\* Every event, outages included; up to two overlapping destroy() calls of a
\* session at each wait, so that duplicates meet a later session.
CONSTANTS
  None = None
  Ids = {id}
  AppIds = {app}
  SessionIds = {s1, s2}
  CreateCalls = {c1}
  MaxDestroys = 2
  Events = {"outage", "expiry", "revokeApp", "replication", "revokeDevice",
            "removeIdentity", "reload"}
SYMMETRY SessionSymmetry
SPECIFICATION SpecH
INVARIANTS
  LiveIsStored
  DestroyedStaysDestroyed
  LiveSessionIsLinked
  ReloadRepairs
  OneSessionPerApp
  RevocationEndsSessions
PROPERTY SessionBookSpec
