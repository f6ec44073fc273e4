CONSTANTS
  ssid = ssid
  encryption = encryption
  Options <- MCOptions
  Defaults <- MCDefaults
  Faults <- FaultKinds
SPECIFICATION FairSpec
INVARIANTS TypeOK FactoryResetWhole CertsResettable
PROPERTY OptionsTakeEffect
