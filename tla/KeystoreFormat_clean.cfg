CONSTANTS
  KeyTexts <- TwoLetterKeys
  ValTexts <- ValuesWithEquals
  MaxEntries = 3
SPECIFICATION TextSpec
INVARIANTS AlwaysReadable CleanEntriesKept CutAtEquals
