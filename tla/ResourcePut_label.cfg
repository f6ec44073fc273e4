CONSTANTS
  Label = Label
  lat = lat
  Geo <- OneGeo
  Values = {v1, v2}
  Blank = Blank
  Dash = Dash
  NoVal = NoVal
  Junk = v1
  Failing = FALSE
  Default <- NoPosition
  QueueSize = 2
SPECIFICATION Spec
INVARIANT LabelConverges
