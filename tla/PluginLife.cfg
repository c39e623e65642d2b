SPECIFICATION Spec
CONSTANTS
  Instances = {i1, i2}
  NoInstance = NoInstance
  MaxHeld = 2
  Tables <- SomeTables
  Values = {f1, f2}
  Blank = Blank
  Void = Void
  MaxSets = 2
INVARIANTS ReferencesCounted   
SYMMETRY HandlerSymmetry
CHECK_DEADLOCK FALSE
