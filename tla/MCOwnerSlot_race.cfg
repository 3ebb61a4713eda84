SPECIFICATION Spec
SYMMETRY Symmetry
CONSTANTS
  Pids = {p1, p2}
  Events = {"race", "leave"}
INVARIANTS
  OneOwner
