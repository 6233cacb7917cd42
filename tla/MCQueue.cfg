CONSTANTS
  MaxWrites = 4
  MaxReads = 3
SPECIFICATION Spec
INVARIANTS
  TypeOK
  OneWriterPerQueue
PROPERTIES
  DeliversInOrder
  RunReturnsAfterEnd
