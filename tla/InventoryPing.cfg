\* Two scans and a ping of a device that the second does not see.
SPECIFICATION Spec
CONSTANTS
  i1 = i1
  i2 = i2
  Ids = {d1, d2}
  NoId = NoId
  Ips = {i1, i2}
  NoIp = NoIp
  Macs = {m1}
  NoMac = NoMac
  Networks <- TwoNetworks
  Scans = {s1, s2}
  NoScan = NoScan
  Pings = {p1}
  Removals = {}
SYMMETRY Symmetry
PROPERTIES
  AnswersBringBack
CHECK_DEADLOCK FALSE
