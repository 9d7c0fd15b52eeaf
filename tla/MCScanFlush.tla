----------------------------- MODULE MCScanFlush -----------------------------
(* The sequencer and one scan chain for TLC: 6 shift cycles over a chain of    *)
(* that length, 4 vectors, and counters with one value more than LiteralsFit   *)
(* asks for, so that a counter that runs past its literal is seen before it    *)
(* wraps.                                                                      *)
EXTENDS ScanFlush, BistRefinement

\* The clock generator never stops (tb_top.sv:88-93).
FlushFairSpec == FlushSpec /\ WF_flushVars(FlushNext)
=============================================================================
