\* Two scans of overlapping ranges, a ping and a removal.
SPECIFICATION Spec
CONSTANTS
  i1 = i1
  i2 = i2
  Ids = {d1, d2, d3}
  NoId = NoId
  Ips = {i1, i2}
  NoIp = NoIp
  Macs = {m1, m2}
  NoMac = NoMac
  Networks <- TwoNetworks
  Scans = {s1, s2}
  NoScan = NoScan
  Pings = {p1}
  Removals = {q1}
SYMMETRY Symmetry
INVARIANTS
  TypeOK
  IdentityIsUnique
  NeverPresentAndAbsent
CHECK_DEADLOCK FALSE
PROPERTIES
  RowsKeepTheirMac
  ScanAccountsForRange
  RemovalSticks
