SPECIFICATION Spec
CONSTANTS
  Procs = {p1, p2}
  Apps = {a1}
  Handles = {h1, h2}
  Stores <- Databases
  MaxCounter = 2
  MaxClock = 1
SYMMETRY Interchangeable
INVARIANTS
  NeverSignedTwice
