SPECIFICATION Spec
CONSTANTS
  Records = {1, 2}
  PageSize = 1
  p1 = p1
  p2 = p2
  a1 = a1
  SearchPanel <- MCSearchPanel
  FilterProps = {p2}
  Args = {a1}
  NoArg = NoArg
  Meets <- MCMeets
  TableIds = {1, 2}
  NoTable = 0
  MaxClicks = 3
  MaxChanges = 1
  None = None
INVARIANTS
  TypeOK
  ScreenAgreesWithCriteria
  SettledPageExists
  QuietNameIsTheSelections
PROPERTIES
  SelectionGetsItsName
  ImplementsReferenceField
CHECK_DEADLOCK FALSE
