CONSTANTS
  a = a  b = b  Unset = Unset
  IP = {a, b}  HoursPerDay = 3
  MaxGap = 2  MaxTime = 6  Steps <- AnyStep  MaxSteps = 1
  HashBits = 4  P = 1  Hash <- SharedRegister
SPECIFICATION SketchSpec
INVARIANTS WindowExact WindowHeals SketchesRepresent MergeRepresents
