SPECIFICATION HostSpec
SYMMETRY Symmetry
CONSTANTS
  Consumers = {c1, c2}
  Sizes = {1, 2}
  Patterns = {p1, p2}
  Addresses = {a1, a2, a3, a4, a5, a6}
  MaxRebuilds = 3
  Null = Null
  Junk = Junk
INVARIANTS
  SampledAsBuilt
