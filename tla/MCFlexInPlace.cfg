\* The library alone, asked to report casts as its text says.
SPECIFICATION FlexSpec
CONSTANTS
  NUM_BITS_EXP = 4
  NUM_BITS_FRAC = 7
  FLEXFLOAT_STATS_MAX_TYPES = 2
  Formats <- TwoFormats
  CountedFormats <- ThreeFormats
  Ints <- SomeInts
  MaxCounted = 3
INVARIANT CastsByPair
