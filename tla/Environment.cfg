SPECIFICATION Spec
CONSTANTS
  Classes = {c1}
  Absent = {absent}
  m1 = m1
  m2 = m2
  Methods = {m1, m2}
  T = T
  U = U
  Types = {T, U}
  Ref <- MCRef
  Deps <- MCDeps
  r1 = r1
  r2 = r2
  Records = {r1, r2}
  RecType <- MCRecType
  Tasks = {k1}
  MaxTx = 3
  MaxItems = 2
  MaxSaves = 2
  MaxClears = 1
INVARIANTS
  TypeOK
  RegistryDescribesRules
  TasksAreScheduled
  JobsHaveTasks
  ClassesHaveTheirRules
  
CHECK_DEADLOCK FALSE
