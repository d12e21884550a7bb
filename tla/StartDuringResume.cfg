SPECIFICATION Spec
CONSTANTS
  NEngines = 2
  i1 = i1  i2 = i2  i3 = i3
  Instances = {i1, i2, i3}
  Fewer = {i1, i2, i3}
  NoInst = NoInst
  MaxRetries = 2
  MaxCrashes = 1
  Worlds = {{"start", "resume"}}
SYMMETRY Sym
INVARIANT OneGroupTicks
