SPECIFICATION Spec
CONSTANTS
  Threads = {t1, t2, t3}
  Objs = {o1, o2, o3, o4, o5}
  NoObj = NoObj
  SIZE = 2
  SIZE_T = 16
  MaxOut = 5
SYMMETRY Symmetry
INVARIANTS
  FreeBounded
  TypeOK
  FlagMeansOut
  NothingLostNothingDangling
PROPERTY
  ImplementsAllocator
