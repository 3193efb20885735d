\* Two import() calls of one DID, with nothing else going on.
CONSTANTS
  None = None
  Ids = {i1}
  Devices = {d1, d2}
  Callers = {c1, c2}
  Events = {}
SPECIFICATION Spec
PROPERTY ImportRefusesExisting
