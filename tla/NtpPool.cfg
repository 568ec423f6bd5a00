SPECIFICATION Spec
CONSTANTS
  Missing = Missing
  Garbage = Garbage
  Id = {1, 3, 4}
  Monitors <- ThreeMonitors
  Entries <- SomeEntries
  OverallAnswers <- SomeAnswers
  MaxEntries = 3
  MaxChanges = 2
INVARIANTS
  GaugesTellHistory
PROPERTY
  Recovers
