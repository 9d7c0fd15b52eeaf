---------------------------- MODULE MCFlexFloat ----------------------------
(* Two small formats to compute in, three to count in, one of them the        *)
(* backend's own.                                                             *)
EXTENDS FlexProgram

TwoFormats == {Desc(3, 1), Desc(2, 2)}
ThreeFormats == TwoFormats \cup {Desc(NUM_BITS_EXP, NUM_BITS_FRAC)}
SomeInts == {1, -3}
=============================================================================
