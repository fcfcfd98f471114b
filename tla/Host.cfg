SPECIFICATION Spec
CONSTANTS
  Turns = {1, 2}
  MaxMessages = 2
  MaxEdits = 2
INVARIANTS AnsweredIsDone NothingAfterStop 
CHECK_DEADLOCK FALSE
