--------------------------- MODULE BistRefinement ---------------------------
(***************************************************************************)
(* The clocked sequencer implements the session of ScanTest: shift cycles  *)
(* are stuttering steps, and count_vector, which also counts the load of   *)
(* the first pattern, runs one ahead of the captures until the next        *)
(* capture catches up with it.                                             *)
(***************************************************************************)
EXTENDS BistController

phaseOf ==
  IF present_state \in {"reset_state", "idle_state"} THEN "off"
  ELSE IF present_state = "teststart_state" THEN "start"
  ELSE IF present_state \in Shifting THEN "shift"
  ELSE IF present_state = "testexec_state" THEN "capture"
  ELSE IF present_state = "endtest_state" THEN "report"
  ELSE "verdict"

appliedOf ==
  IF present_state = "testexec_state" THEN count_vector
  ELSE IF present_state \in Shifting \cup {"endtest_state"} THEN count_vector - 1
  ELSE IF present_state = "evaluate_state" THEN VectorLast - 1
  ELSE 0

Session == INSTANCE ScanTest
             WITH Captures <- VectorLast - 1,
                  phase <- phaseOf, applied <- appliedOf

\* Every behaviour of the sequencer is a session as ScanTest promises it: in
\* particular the end is announced after exactly VectorLast - 1 captures, and
\* no capture is skipped or repeated whatever test_normal and resetn do.
ImplementsSession == Session!Spec

\* ... and under the clock's fairness it is as live as ScanTest promises.
ImplementsFairSession == Session!FairSpec
=============================================================================
