SPECIFICATION Spec
CONSTANTS
  m1 = m1
  m2 = m2
  m3 = m3
  m4 = m4
  SlaveMacs <- MCSlaveMacs
  Blank = Blank
  Erased = Erased
  Unknown = Unknown
  UNITS = 8
  USER_PAIR_SLAVE_MAX_NUM = 3
SYMMETRY Symmetry
PROPERTY
  AddLosesNothing
