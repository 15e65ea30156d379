CONSTANTS
  Lexemes <- OperatorLexemes
  Readable <- IsExpression
  yyrules <- ParserRules
  yytable <- ParserTables
  State0 <- Start
  YYFINAL <- ParserFinal
  Converted <- process_node
  YYINITDEPTH = 200
  YYMAXDEPTH = 10000
  TallestTree = 12
SPECIFICATION FirstParse
INVARIANTS
  PrecedenceRespected
PROPERTIES
  EveryParseReturns
