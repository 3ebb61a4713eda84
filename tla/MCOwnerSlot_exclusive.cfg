SPECIFICATION Spec
SYMMETRY Symmetry
CONSTANTS
  Pids = {p1, p2, p3}
  Events = {"leave", "io_error"}
INVARIANTS
  OneOwner
  OwnerIsNamed
PROPERTIES
  RefusedForOwner
