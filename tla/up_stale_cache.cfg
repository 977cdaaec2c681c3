\* A WebDAV MOVE or COPY over a book leaves its cache to the book that takes its name.
SPECIFICATION Spec
CONSTANTS
  f = f
  g = g
  c1 = c1
  c2 = c2
  a = a
  b = b
  e = e
  Name = {f, g}
  Client = {c1, c2}
  Body = {a, b}
  Size <- Sizes
  None = None
SYMMETRY Symmetric
INVARIANT CacheFollowsFile
