\* Two commands, whose answers and one more piece fit in a buffer.  The commands run out, so that
\* everything may stop.
CONSTANTS
  MaxCommands = 2
  MaxPieces = 5
SPECIFICATION Spec
PROPERTIES
  AnswersTakenInOrder
  OwnAnswerWins
  CommandReturns
CHECK_DEADLOCK FALSE
