SPECIFICATION Spec
CONSTANTS
  Families <- MCFamilies
  Absent = Absent
  Unset = Unset
  NoTask = NoTask
INVARIANTS
  TypeOK
  LoadedIsComputed
  HeuristicIsAdmissible
  HeuristicsAreOrdered
