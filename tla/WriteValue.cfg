CONSTANTS
  Bits16 = 3
  Mantissa32 = 4
  Bits32 = 6
  Mantissa64 = 7
  Bits64 = 9
  Range32 = 10
  Range64 = 12
  Eps = 12
  MaxStringBytes = 4096
  TimeSpan = 1024
  ZeroTime <- MCZeroTime
  EmptyText = EmptyText
  None = None
  Request <- MCRequest
  NodeType <- MCNodeType
  PlcValue <- MCPlcValue

SPECIFICATION Spec

INVARIANTS
  WrittenAsAsked
  VerifiedIsHeld
  MismatchMeansDisturbed
