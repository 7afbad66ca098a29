SPECIFICATION Spec
CONSTANTS
  Byte <- Bits
  Zero = 0
  CompactSlack = 0
  CompactMinPieces = 2
  SpanRewriteLimit = 1
  OffsetSize = 3
  MaxLength = 3
  Strings <- Some
  MaxDepth = 2
  MaxEdits = 2
INVARIANTS TypeOK UndoRestores StaysCompact CleanMeansSaved
PROPERTY ImplementsLine
