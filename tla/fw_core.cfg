\* Two updates in a row, every boot selection, the power failing between any two steps.
SPECIFICATION Spec
CONSTANTS
  short = short
  long = long
  big = big
  other = other
  torn = torn
  Image = {short, long, big, other, torn}
  Good = {short, long, big}
  Foreign = {other}
  Size <- Sizes
  PartSize = 3
  EraseBlock = 2
  MaxSeq = 3
  Erased = Erased
  Garbage = Garbage
  NoImage = NoImage
INVARIANTS TypeOK AlwaysBootable BootsOwnBoard SuccessBootsNewImage
PROPERTIES ImplementsAtomicUpdate
