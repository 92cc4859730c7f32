SPECIFICATION Spec
CONSTANTS
  MaxSize = 2
  Skip = 2
  MaxMarks = 3
  MaxLines = 3
CHECK_DEADLOCK FALSE
INVARIANTS TypeOK SavedHasAllLines UndoneStaysUndone
PROPERTIES ImplementsOneUndo WidthKeepsInk
