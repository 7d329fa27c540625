SPECIFICATION Spec
CONSTANTS
  Procs = {p, q}
  Blocks = {x, y, z}
  NULL = NULL
  MaxTag = 5
SYMMETRY Symmetry
INVARIANTS TypeOK Linked OneOwner
PROPERTY SharedBagSpec
