CONSTANTS
  None = None
  Pictures = {p1, p2}
  Tasks = {t1, t2, t3}
  Calls = {c1, c2}
SYMMETRY ProfileSymmetry
SPECIFICATION SpecH
INVARIANTS
  ShowsStored
  SyncingIsInFlight
  DetailsFollow
  UrlIsServed
