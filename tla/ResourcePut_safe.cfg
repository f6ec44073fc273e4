CONSTANTS
  Label = Label
  lat = lat
  Geo <- OneGeo
  Values = {v1}
  Blank = Blank
  Dash = Dash
  NoVal = NoVal
  Junk = v1
  Failing = TRUE
  Default <- NoPosition
  QueueSize = 1
SPECIFICATION FairSpec
INVARIANTS TypeOK GeoConverges LabelAgrees
PROPERTY GeoPutStored
