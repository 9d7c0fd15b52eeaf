------------------------ MODULE BistControllerProofs ------------------------
(***************************************************************************)
(* Theorems about the sequencer, for every ShiftLast, VectorLast and       *)
(* counter width that LiteralsFit allows: its invariants, and that it      *)
(* implements the abstract session of ScanTest.                            *)
(***************************************************************************)
EXTENDS BistRefinement, TLAPS

\* What one edge does to each counter, in terms of the state it leaves: the
\* output decoder and the counters of the source put together.
LEMMA CountersByState ==
  ASSUME ControllerInv, Counters
  PROVE  /\ count_shift' = IF present_state \in Shifting THEN count_shift + 1
                           ELSE IF present_state \in {"idle_state", "teststart_state"}
                           THEN count_shift ELSE 0
         /\ count_vector' = IF present_state \in {"reset_state", "endtest_state", "evaluate_state"}
                            THEN 0
                            ELSE IF present_state \in {"teststart_state", "testexec_state"}
                            THEN count_vector + 1 ELSE count_vector
<1>1. present_state \in Shifting => count_shift + 1 < CountMod /\ count_shift \in Nat
  BY LiteralsFit DEF ControllerInv, TypeOK, Count
<1>2. present_state \in {"teststart_state", "testexec_state"} =>
        count_vector + 1 < CountMod /\ count_vector \in Nat
  BY LiteralsFit DEF ControllerInv, TypeOK, Count, SessionStartsClean
<1>3. \A n \in Nat : n < CountMod => n % CountMod = n
  BY LiteralsFit
<1>4. present_state \in state_type
  BY DEF ControllerInv, TypeOK
<1>5. count_shift' = IF present_state \in Shifting THEN count_shift + 1
                     ELSE IF present_state \in {"idle_state", "teststart_state"}
                     THEN count_shift ELSE 0
  <2>1. CASE present_state \in Shifting
    BY <2>1, <1>1, <1>3
    DEF Counters, Counted, resetn_count_shift, count_shift_enable, High, Shifting
  <2>2. CASE present_state \notin Shifting
    BY <2>2, <1>4
    DEF Counters, Counted, resetn_count_shift, count_shift_enable, High,
        Shifting, state_type
  <2>3. QED BY <2>1, <2>2
<1>6. count_vector' = IF present_state \in {"reset_state", "endtest_state", "evaluate_state"}
                      THEN 0
                      ELSE IF present_state \in {"teststart_state", "testexec_state"}
                      THEN count_vector + 1 ELSE count_vector
  <2>1. CASE present_state \in {"teststart_state", "testexec_state"}
    BY <2>1, <1>2, <1>3
    DEF Counters, Counted, resetn_count_vector, count_vector_enable, High
  <2>2. CASE present_state \notin {"teststart_state", "testexec_state"}
    BY <2>2, <1>4
    DEF Counters, Counted, resetn_count_vector, count_vector_enable, High,
        state_type
  <2>3. QED BY <2>1, <2>2
<1>7. QED BY <1>5, <1>6

\* A step of the sequencer is one of its arcs, whatever the inputs.
LEMMA NextIsAnArc ==
  ASSUME Next
  PROVE  \/ Reset \/ LeaveReset \/ StayIdle \/ StartTest \/ FirstShift
         \/ Shift \/ Capture \/ Unload \/ EndTest \/ Evaluate \/ Finish
BY DEF Next, Clock

\* The initial state of the simulated registers satisfies the invariant.
LEMMA InitEstablishesInv == Init => ControllerInv
BY DEF Init, ControllerInv, TypeOK, SessionStartsClean, state_type, Shifting

\* Every edge preserves it, reset edges included.
LEMMA NextPreservesInv == ControllerInv /\ [Next]_vars => ControllerInv'
<1> SUFFICES ASSUME ControllerInv, [Next]_vars
             PROVE  ControllerInv'
  OBVIOUS
<1> USE LiteralsFit DEF Arc, Shifting, Count
<1>1. CASE Reset
  <2>1. count_shift' \in Count /\ count_vector' \in Count
    BY <1>1, CountersByState DEF Reset, ControllerInv, TypeOK, SessionStartsClean
  <2>2. QED
    BY <1>1, <2>1 DEF Reset, ControllerInv, TypeOK, SessionStartsClean, state_type
<1>2. CASE LeaveReset
  BY <1>2, CountersByState
  DEF LeaveReset, ControllerInv, TypeOK, SessionStartsClean, state_type
<1>3. CASE StayIdle \/ StartTest
  BY <1>3, CountersByState
  DEF StayIdle, StartTest, ControllerInv, TypeOK, SessionStartsClean, state_type
<1>4. CASE FirstShift
  BY <1>4, CountersByState
  DEF FirstShift, ControllerInv, TypeOK, SessionStartsClean, state_type
<1>5. CASE Shift
  BY <1>5, CountersByState
  DEF Shift, LastShift, ControllerInv, TypeOK, SessionStartsClean, state_type
<1>6. CASE Capture
  BY <1>6, CountersByState
  DEF Capture, LastShift, LastVector, ControllerInv, TypeOK,
      SessionStartsClean, state_type
<1>7. CASE Unload
  BY <1>7, CountersByState
  DEF Unload, ControllerInv, TypeOK, SessionStartsClean, state_type
<1>8. CASE EndTest
  BY <1>8, CountersByState
  DEF EndTest, LastShift, LastVector, ControllerInv, TypeOK,
      SessionStartsClean, state_type
<1>9. CASE Evaluate \/ Finish
  BY <1>9, CountersByState
  DEF Evaluate, Finish, ControllerInv, TypeOK, SessionStartsClean, state_type
<1>10. CASE UNCHANGED vars
  BY <1>10 DEF vars, ControllerInv, TypeOK, SessionStartsClean
<1>11. QED
  BY <1>1, <1>2, <1>3, <1>4, <1>5, <1>6, <1>7, <1>8, <1>9, <1>10, NextIsAnArc

\* The counters are, in every reachable state, what ControllerInv says.
THEOREM ControllerInvariant == Spec => []ControllerInv
BY InitEstablishesInv, NextPreservesInv, PTL DEF Spec

\* The registers keep their declared types.
THEOREM TypeCorrect == Spec => []TypeOK
<1>1. ControllerInv => TypeOK BY DEF ControllerInv
<1>2. QED BY <1>1, ControllerInvariant, PTL

\* Every session starts from two zero counters, however the sequencer came to
\* idle_state.
THEOREM CleanStart == Spec => []SessionStartsClean
<1>1. ControllerInv => SessionStartsClean BY DEF ControllerInv
<1>2. QED BY <1>1, ControllerInvariant, PTL

\* No counter runs past the literal it is compared with, at any width.
THEOREM BoundedCounters == Spec => []CountersBounded
<1>1. ControllerInv => CountersBounded
  BY LiteralsFit DEF ControllerInv, CountersBounded, TypeOK, SessionStartsClean,
     Shifting, state_type, Count
<1>2. QED BY <1>1, ControllerInvariant, PTL

-----------------------------------------------------------------------------
(* The refinement of ScanTest.                                             *)

LEMMA InitRefines == Init => Session!Init
BY DEF Init, Session!Init, phaseOf, appliedOf, Shifting

\* Every edge is a step of the session or leaves it where it is.
LEMMA NextRefines ==
  ControllerInv /\ ControllerInv' /\ [Next]_vars => [Session!Next]_Session!vars
<1> SUFFICES ASSUME ControllerInv, ControllerInv', [Next]_vars
             PROVE  [Session!Next]_Session!vars
  OBVIOUS
<1> USE LiteralsFit
    DEF Arc, Shifting, state_type, phaseOf, appliedOf, Session!vars
<1>1. CASE Reset
  BY <1>1 DEF Reset, Session!Next, Session!Abort
<1>2. CASE LeaveReset \/ StayIdle
  BY <1>2 DEF LeaveReset, StayIdle
<1>3. CASE StartTest
  BY <1>3 DEF StartTest, Session!Next, Session!Begin
<1>4. CASE FirstShift
  <2>1. count_vector' - 1 = 0
    BY <1>4 DEF FirstShift, ControllerInv
  <2>2. QED
    BY <1>4, <2>1
    DEF FirstShift, Session!Next, Session!Progress, Session!Load
<1>5. CASE Shift
  <2>1. count_vector' = count_vector
    BY <1>5, CountersByState DEF Shift
  <2>2. QED
    BY <1>5, <2>1 DEF Shift
<1>6. CASE Capture
  <2>1. count_vector' = count_vector
    BY <1>6, CountersByState DEF Capture
  <2>2. count_vector \in 1 .. VectorLast - 1
    BY <1>6, <2>1 DEF Capture, ControllerInv
  <2>3. QED
    BY <1>6, <2>1, <2>2
    DEF Capture, Session!Next, Session!Progress, Session!Capture
<1>7. CASE Unload
  <2>1. count_vector' = count_vector + 1 /\ count_vector \in Nat
    BY <1>7, CountersByState DEF Unload, ControllerInv
  <2>2. QED
    BY <1>7, <2>1
    DEF Unload, Session!Next, Session!Progress, Session!Load
<1>8. CASE EndTest
  <2>1. count_vector = VectorLast /\ count_vector' = VectorLast
    BY <1>8 DEF EndTest, LastVector, ControllerInv
  <2>2. QED
    BY <1>8, <2>1
    DEF EndTest, LastVector, Session!Next, Session!Progress, Session!Report
<1>9. CASE Evaluate
  <2>1. count_vector = VectorLast
    BY <1>9 DEF Evaluate, ControllerInv
  <2>2. QED
    BY <1>9, <2>1
    DEF Evaluate, Session!Next, Session!Progress, Session!Verdict
<1>10. CASE Finish
  BY <1>10 DEF Finish, Session!Next, Session!Progress, Session!End
<1>11. CASE UNCHANGED vars
  BY <1>11 DEF vars
<1>12. QED
  BY <1>1, <1>2, <1>3, <1>4, <1>5, <1>6, <1>7, <1>8, <1>9, <1>10, <1>11,
     NextIsAnArc

\* The sequencer implements the session protocol for every choice of its
\* literals: VectorLast - 1 captures, each between two complete shifts, then
\* the end, then the verdict.
THEOREM Refinement == Spec => ImplementsSession
BY InitRefines, NextRefines, ControllerInvariant, PTL
DEF Spec, ImplementsSession, Session!Spec

=============================================================================
