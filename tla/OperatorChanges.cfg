\* Three requests of any kind over two settings, two devices with two fields
\* each, one of them summarised in events, and two credentials.
SPECIFICATION Spec
CONSTANTS
  Requests = {r1, r2, r3}
  NoRequest = NoRequest
  LastKey = 2
  Values = {v1, v2}
  Default = v1
  NoRow = NoRow
  Unread = Unread
  Devices = {d1, d2}
  NoDevice = NoDevice
  Fields = {f1, f2}
  Summarised = {f2}
  Names = {n1, n2}
  NoName = NoName
  MaxId = 2
  MaxRow = 2
SYMMETRY Symmetry
INVARIANT TypeOK
PROPERTIES
  SavesAreWhole
  SavesAreRecorded
  EditLogIsTrue
  AssignmentsLeaveATrace
CHECK_DEADLOCK FALSE
