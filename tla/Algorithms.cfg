SPECIFICATION Spec
CONSTANTS
  MaxFrame = 4
  FirstRoom = 2
  Payloads <- WsPayloads
  Fragments <- WsFragments
  NULL = NULL
  Strings <- MCStrings
  LineRoom = 2
  DataRoom = 2
  MaxLine = 16
  Lines <- MCLines
  MaxLines = 4
  Texts <- MCTexts
INVARIANT CutsDontMatter
INVARIANT MessagesReassembled
INVARIANT EventsReported
INVARIANT CodecsInvert
CHECK_DEADLOCK FALSE
