CONSTANTS
  NetErrors = TRUE
  PromptInit = TRUE
  MaxDownloads = 2
  MaxAfterError = 1
  MaxEvents = 12
SPECIFICATION FairSpec
INVARIANTS TypeOK DownloadQuiet TimersTracked InstallGuarded InstallUndisturbed RegisteredIsFlagged RequestsKept
PROPERTIES InstallHappens SensorsResume
