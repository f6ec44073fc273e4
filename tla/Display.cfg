CONSTANTS
  Statuses <- MCStatuses
  UpdatePeriod = 180
  PagingPeriod = 600
  Total = 3
  Word = 512
SPECIFICATION FairSpec
INVARIANTS TypeOK NoUpdateLost ProgressShown BarFits InstallShown
PROPERTY EverySensorShown
