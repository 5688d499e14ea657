SPECIFICATION Spec
CONSTANTS
  HIST_MAX = 2
  LINE_MAX = 5
  TERM_COLS = 4
  PROMPT = 1
  Garbled = Garbled
  MaxHist = 3
  Chars <- MCChars
  Refused <- MCRefused
  Names <- MCNames
  KeysName <- MCKeysName
  StopNames <- MCStopNames
  NoText <- MCNoText
  Texts <- MCTexts
PROPERTY RecallShowsHistory
CHECK_DEADLOCK FALSE
