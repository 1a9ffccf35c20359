SPECIFICATION Spec
CONSTANTS
  SCREEN_WIDTH = 2
  SCREEN_HEIGHT = 3
  SHELL_BUFFER_SIZE = 4
  HISTORY_SIZE = 2
  Chars = {"a", "b"}
  Prompt <- MCPrompt
  Outputs <- MCOutputs
INVARIANTS
  TypeOK
  LineOnScreen
  BlankBehindCursor
  RecallsInOrder
  DraftComesBack
