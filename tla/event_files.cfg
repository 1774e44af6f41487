SPECIFICATION Spec
CONSTANTS
  a = a  b = b  c = c  r1 = r1  r2 = r2
  Files = {a, b, c}
  NoFile = NoFile
  Requests = {r1, r2}
  MaxWrites = 4
SYMMETRY Symmetry
INVARIANT EventFilesTypeOK
PROPERTY OpenEventStands
