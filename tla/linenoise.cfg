CONSTANTS
  MaxLine = 4
  Rows = 5
  Cols = 3
  Prompt <- MCPrompt
  Hint <- MCHint
  Blank = "_"
  Letters = {}
  Accents = {"e"}
  Space = " "
  Offers <- MCOffers
  Inputs <- MCInputs
  Above = "^"
  DefaultCols = 4
  FirstRoom = 1
  MaxRoom = 5
  MaxHistory = 3
SPECIFICATION MCSpec
INVARIANTS TypeOK LineConsistent HistorySlot ScreenShows RecallRestores LoadRestores
PROPERTIES OnlySlotChanges ModesRestored
