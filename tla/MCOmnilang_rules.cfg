CONSTANTS
  Lexemes <- SentenceLexemes
  Readable <- IsCode
  yyrules <- ParserRules
  yytable <- ParserTables
  State0 <- Start
  YYFINAL <- ParserFinal
  Converted <- process_node
  YYINITDEPTH = 200
  YYMAXDEPTH = 10000
  TallestTree = 12
SPECIFICATION FirstParse
INVARIANTS
  TypeOK
  NoConflicts
  OriginalsAreTheCode
  TreesHaveShape
  ExpectationsAreReal
