CONSTANTS
  Keys = {1, 2}
  Vals = {v1, v2}
  NoVal = NoVal
  Junk = Junk
  NoFile = NoFile
  Readers = {init}
  Faults <- AllFaults
SPECIFICATION Spec
INVARIANTS TypeOK NeverTorn TmpIsWhole
PROPERTY LossyStore
