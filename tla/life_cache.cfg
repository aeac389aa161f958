SPECIFICATION Spec
CONSTANTS
  a = a  b = b  a1 = a1  a2 = a2  b1 = b1  b2 = b2
  Threads = {a, b}
  Vars = {a1, a2, b1, b2}
  Owner <- Owners
  Chans = {c1, c2, c3}
  CacheSize = 1
  Nil = Nil
SYMMETRY Addresses
INVARIANTS TypeOK NoDanglingHandle CachesDisjoint
CHECK_DEADLOCK FALSE
