CONSTANTS
  NetErrors = TRUE
  PromptInit = TRUE
  MaxDownloads = 1
  MaxAfterError = 1
  MaxEvents = 12
SPECIFICATION Spec
INVARIANT DownloadUndisturbed
