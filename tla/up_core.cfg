\* Two WebSocket clients and every kind of request about two names, the power failing anywhere.
SPECIFICATION Spec
CONSTANTS
  f = f
  g = g
  c1 = c1
  c2 = c2
  a = a
  b = b
  e = e
  Name = {f, g}
  Client = {c1, c2}
  Body = {a, e}
  Size <- Sizes
  None = None
SYMMETRY Symmetric
INVARIANTS TypeOK OneClientsBytes PromisedFilesLast
PROPERTIES WholeFilesStay ImplementsBookShelf
