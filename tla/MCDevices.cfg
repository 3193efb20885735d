\* Three devices: one that may revoke and leave, one that is revoked, updates
\* itself and restarts, and one through which they may replicate.  Writes up to
\* time 3 make revocations and updates concurrent, tied or one after the other.
CONSTANTS
  Devices = {1, 2, 3}
  MaxTime = 3
  Revokes <- FirstRevokesSecond
  Updates <- SecondUpdatesItself
  Leavers = {1}
  Restarters = {2}
SPECIFICATION FairSpecH
INVARIANTS
  RevokedHasNoKey
  RevocationIsTold
  RevocationSticks
PROPERTIES
  RevocationReachesDevice
  MembershipSpec
CHECK_DEADLOCK FALSE
