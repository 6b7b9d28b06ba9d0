SPECIFICATION Spec
CONSTANTS
  App = {a1, a2}
  Thread = {t1, t2}
  Name = {n1, n2}
  Client = {c1}
  Group = group
  Nil = nil
SYMMETRY Symmetry
INVARIANT TypeOK
INVARIANT ListsAreOwn
INVARIANT LastUsedIsOwn
INVARIANT LaunchSettles
PROPERTY IsListRegister
