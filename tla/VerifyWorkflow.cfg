SPECIFICATION CallSpec
CONSTANTS
  NamesInOrder <- MCNamesInOrder
  Texts <- MCTexts
  Observations <- MCObservations
  Ttl = 3
  Agents = {a, b}
  MaxRead = 2
  MaxHandling = 2
  Budget = 26
  Envelope = 10
  ClauseDetail = 2
  Schemas <- MCSchemas
  Values <- MCValues
  SchemaHeight <- MCSchemaHeights
  ValueHeight <- MCValueHeights
INVARIANTS
  JudgedUnderARecentSla
  VerdictIsOfTheDocument
  NoMoreLenientThanFallback
  ReaderIsLedToTheClause
  RelayFits
  ReportsIgnoreMemberOrder
