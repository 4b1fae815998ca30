\* Three reviews, two revocations and an action while the device changes keys.
SPECIFICATION Spec
CONSTANTS
  ed1 = ed1
  ed2 = ed2
  rsa1 = rsa1
  ed25519 = ed25519
  rsa = rsa
  Keys = {ed1, ed2, rsa1}
  NoKey = NoKey
  Types = {ed25519, rsa}
  KeyType <- MCKeyType
  Rows = {i1, i2}
  NoRow = NoRow
  Reviews = {v1, v2, v3}
  Revocations = {f1, f2}
  Actions = {a1}
  MaxRebuilds = 1
SYMMETRY Symmetry
INVARIANTS
  KeysWereReviewed
  CommandsReachReviewedHosts
PROPERTIES
  KeysStayTrusted
  LedgerSpec
CHECK_DEADLOCK FALSE
