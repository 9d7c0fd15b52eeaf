\* A backend of 4 exponent and 7 fraction bits; tables of 2 and 4 slots; registers of 4 bits.
SPECIFICATION ArithmeticSpec
CONSTANTS
  NUM_BITS_EXP = 4
  NUM_BITS_FRAC = 7
  FLEXFLOAT_STATS_MAX_TYPES = 2
  Formats <- TwoFormats
  CountedFormats <- ThreeFormats
  Ints <- SomeInts
  MaxCounted = 3
  Types <- TwoFormats
  Operators = {"add", "div"}
  Numbers <- NotANumber
  MaxWritten = 2
  W = 4
  Feedback = {0, 3}
INVARIANTS ConversionRounds ArithmeticRounds ObjectsRepresentable CountsExact ClassCountsExact NeverAliases
