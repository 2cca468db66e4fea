\* Two connections over one listener, which is killed, restarted and bound again.
CONSTANTS
  Conns = {c1, c2}
  Nodes = {s, n}
  Server = s
  Callers = {n}
  Crashing = {s}
  Writing = {"client"}
  Splitting = {}
  MaxInc = 1
  MaxSeq = 0
  MaxListen = 2
CHECK_DEADLOCK FALSE
SYMMETRY ConnSymmetry
SPECIFICATION Spec
INVARIANT IdsRegistered
INVARIANT BoundWhileOpen
INVARIANT NoCrossTalk
