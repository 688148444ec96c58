SPECIFICATION Spec
CONSTANTS
  User = {u1, u2}
  k1 = k1 k2 = k2 k3 = k3
  Key = {k1, k2, k3}
  Handle = {h1, h2, h3, h4}
  NULL = NULL
  Hash <- MCHash
  InitialLength = 1
  Capacity = 2
  Charges = {1, 2}
SYMMETRY Symmetry
INVARIANTS
  HandleIsValid
  BooksAgree
  DeletedIsClosed
