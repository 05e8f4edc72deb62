SPECIFICATION Spec
CONSTANTS
  Client  = {c1, c2, c3}
  Event   = {e}
  Counter = {k}
  NsName  = {A, B}
  NsObj   = {o1, o2, o3, o4, o5}
  None    = None
  Absent  = Absent
SYMMETRY Symmetric
INVARIANTS
  TypeOK
  ListsExact
  OneNamespacePerName
  TrackersCurrent
  TableBounded
PROPERTIES
  ImplementsBroker
CHECK_DEADLOCK TRUE
