\* Two sellers each save a default address at the same time.
SPECIFICATION Spec
CONSTANTS
  NULL = NULL
  la = la
  lb = lb
  Ids = {i1, i2}
  Labels = {la, lb}
  Forms <- AnyForm
  Files <- AnyFile
  Callers = {p1, p2}
SYMMETRY Symmetric
INVARIANT AlwaysOneDefault
