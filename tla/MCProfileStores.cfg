CONSTANTS
  None = None
  Instances = {o1, o2}
  Stores = {s1, s2}
  Calls = {c1, c2}
SYMMETRY StoreSymmetry
SPECIFICATION Spec
INVARIANT UsedIsKept
