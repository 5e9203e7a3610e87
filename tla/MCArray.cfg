\* Arrays stored and read back, and every short literal.
SPECIFICATION Spec
CONSTANTS
  Code       <- CharCodes
  Numerals   <- NumeralNames
  Int32s     <- SmallInts
  Int64s     <- LargeInts
  Float32Of  <- Nearest32
  Stamps     <- TimeTexts
  Nesting    <- SomeNesting
  Delimiters <- CommaOrSemicolon
  Arrays     <- SomeArrays
  Literals   <- SomeLiterals
  Targets    <- SomeTargets
  Earlier    <- TwoEarlier
  Limits     <- SomeLimits
  Times      <- SomeTimes
INVARIANTS
  TypeOK
  RoundTrip
  NestedShape
  FailedScanKeepsDestination
  ParsesLiterals
  NoZeroDivisor
  SliceInRange
  TimestampsReadBack
