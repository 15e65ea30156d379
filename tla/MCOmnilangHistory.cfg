CONSTANTS
  Lexemes <- Pieces
  Readable <- IsShort
  yyrules <- ParserRules
  yytable <- ParserTables
  State0 <- Start
  YYFINAL <- ParserFinal
  Converted <- process_node
  YYINITDEPTH = 2
  YYMAXDEPTH = 4
  TallestTree = 12
SPECIFICATION HSpec
INVARIANTS
  Repeatable
  ErrorOfLastParse
  FailureIsToldOf
