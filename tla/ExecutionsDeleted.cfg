\* One execution whose definition may be deleted while it runs; no crash, no fault.
SPECIFICATION Spec
CONSTANTS
  Requests = {r1}
  Edits = {e1}
  MaxId = 1
  MaxNames = 1
  MaxCrashes = 0
  Faults = {}
PROPERTIES
  DeletionErasesNoRecord
CHECK_DEADLOCK FALSE
