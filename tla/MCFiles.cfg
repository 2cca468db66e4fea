\* Two files open at a time, on the supervisor's node or on one that is built,
\* killed, restarted and deleted.
CONSTANTS
  Nodes = {main, n1}
  Main = main
  Paths = {p1}
  Bytes = {0, 7}
  Handles = {h1, h2}
  MaxLen = 2
  MaxInodes = 2
SPECIFICATION Spec
SYMMETRY HandleSymmetry
CHECK_DEADLOCK FALSE
INVARIANT WriteSplices
INVARIANT PanicMeansTruncated
