CONSTANTS
  Keys = {1, 2}
  Vals = {v1, v2}
  NoVal = NoVal
  Junk = Junk
  NoFile = NoFile
  Readers = {}
  Faults <- SafeFaults
SPECIFICATION Spec
PROPERTY AtomicStore
