CONSTANTS
  Procs = {p1, p2, p3}
  Keys = {k1, k2}
  Values = {v1}
  Nil = Nil
  NoHolder = NoHolder
  Usages = {{"Get", "Put", "Remove"}}
  MaxHolders = 3
SPECIFICATION Spec
CHECK_DEADLOCK FALSE
INVARIANTS
  NoPanic
