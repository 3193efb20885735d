\* One call at a time on one identity, with every outside event; three devices,
\* so that what two removed or failed ones left behind meets a new one.
CONSTANTS
  None = None
  Ids = {i1}
  Devices = {d1, d2, d3}
  Callers = {c1}
  Events = {"outage", "revoke", "reload"}
SYMMETRY HashSymmetry
SPECIFICATION SpecH
INVARIANTS
  RevocationIsKnown
  EveryDescriptorLoads
  IdentityIsStored
  NothingLeftBehind
  OnlyOwnKeys
PROPERTY HoldingsSpec
