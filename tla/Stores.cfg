SPECIFICATION Spec
CONSTANTS
  None = None
  i1 = i1
  i2 = i2
  i3 = i3
  o1 = o1
  o2 = o2
  c1 = c1
  c2 = c2
  k1 = k1
  k2 = k2
  v1 = v1
  v2 = v2
PROPERTY StoresAgree
CHECK_DEADLOCK FALSE
VIEW View
SYMMETRY Symmetry
