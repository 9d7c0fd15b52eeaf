-------------------------- MODULE ScanFlushProofs ---------------------------
(***************************************************************************)
(* One scan chain under the sequencer, for every chain length up to the    *)
(* number of shifts of a load: the compactor absorbs every response cell   *)
(* exactly once and never an unknown bit, and every capture starts from a  *)
(* complete pattern.                                                       *)
(***************************************************************************)
EXTENDS ScanFlush, BistControllerProofs

LEMMA FlushInitEstablishesInv == FlushInit => FlushInv
BY InitEstablishesInv
DEF FlushInit, FlushInv, FlushTypeOK, ControllerInv, Init

\* One shift of the chain, cell by cell.
LEMMA ShiftMovesTags ==
  ASSUME CoreEdge, present_state \in Shifting, NEW i \in Cell
  PROVE  tag'[i] = IF i = 1 THEN Pattern ELSE tag[i - 1]
BY DEF CoreEdge, Shifting, test_en_i, lfsr_start, High, ScanIn, ScanCell

\* The tags of the next state are of their type whatever the edge does.
LEMMA FlushTypes ==
  ASSUME FlushInv, CoreEdge, CompactorEdge
  PROVE  tag' \in [Cell -> {Unknown, Pattern} \cup Cell] /\ absorbed' \subseteq Cell
<1>1. \A i \in Cell : ScanCell(i) \in {Unknown, Pattern} \cup Cell
  <2> SUFFICES ASSUME NEW i \in Cell
               PROVE  ScanCell(i) \in {Unknown, Pattern} \cup Cell
    OBVIOUS
  <2>1. i # 1 => i - 1 \in Cell
    BY ChainFits DEF Cell
  <2>2. QED
    BY <2>1 DEF ScanCell, ScanIn, FlushInv, FlushTypeOK
<1>2. tag' \in [Cell -> {Unknown, Pattern} \cup Cell]
  BY <1>1 DEF CoreEdge
<1>3. absorbed' \subseteq Cell
  BY DEF CompactorEdge, FlushInv, FlushTypeOK
<1>4. QED BY <1>2, <1>3

LEMMA FlushNextPreservesInv == FlushInv /\ [FlushNext]_flushVars => FlushInv'
<1> SUFFICES ASSUME FlushInv, [FlushNext]_flushVars
             PROVE  FlushInv'
  OBVIOUS
<1>1. CASE UNCHANGED flushVars
  BY <1>1
  DEF flushVars, vars, FlushInv, ControllerInv, TypeOK, SessionStartsClean,
      FlushTypeOK, Cell
<1>2. CASE FlushNext
  <2>1. ControllerInv /\ Next /\ CoreEdge /\ CompactorEdge
    BY <1>2 DEF FlushNext, FlushInv
  <2>2. ControllerInv'
    BY <2>1, NextPreservesInv
  <2>3. FlushTypeOK'
    BY <2>1, <2>2, FlushTypes DEF FlushTypeOK, ControllerInv
  <2>4. count_shift \in Nat /\ Len \in Nat /\ Len >= 1
    BY ChainFits DEF FlushInv, ControllerInv, TypeOK, Count
  <2>5. CASE FirstShift
    <3>1. present_state' = "firstshift_state" /\ count_shift' = 0
      BY <2>1, <2>5, CountersByState
      DEF FirstShift, Arc, Shifting, ControllerInv, SessionStartsClean
    <3>2. QED
      BY <2>2, <2>3, <3>1, <2>4 DEF FlushInv, Cell
  <2>6. CASE Shift \/ Capture \/ EndTest
    <3>1. present_state \in Shifting /\ Counters
      BY <2>6 DEF Shift, Capture, EndTest, Arc
    <3>2. count_shift' = count_shift + 1 /\ count_vector' = count_vector
      BY <2>1, <3>1, CountersByState DEF Shifting
    <3>3. present_state = "firstshift_state" =>
            \A i \in Cell : i <= count_shift' => tag'[i] = Pattern
      <4> SUFFICES ASSUME present_state = "firstshift_state",
                          NEW i \in Cell, i <= count_shift'
                   PROVE  tag'[i] = Pattern
        OBVIOUS
      <4>1. i # 1 => i - 1 \in Cell /\ i - 1 <= count_shift
        BY <3>2, <2>4 DEF Cell
      <4>2. i # 1 => tag[i - 1] = Pattern
        BY <4>1 DEF FlushInv
      <4>3. QED
        BY <2>1, <3>1, <4>2, ShiftMovesTags
    <3>4. present_state = "testshift_state" =>
            /\ \A i \in Cell : tag'[i] = IF i <= count_shift' THEN Pattern
                                         ELSE i - count_shift'
            /\ absorbed' = {n \in Cell : n > Len - count_shift'}
      <4> SUFFICES ASSUME present_state = "testshift_state"
                   PROVE  /\ \A i \in Cell :
                               tag'[i] = IF i <= count_shift' THEN Pattern
                                         ELSE i - count_shift'
                          /\ absorbed' = {n \in Cell : n > Len - count_shift'}
        OBVIOUS
      <4>1. ASSUME NEW i \in Cell
            PROVE  tag'[i] = IF i <= count_shift' THEN Pattern
                             ELSE i - count_shift'
        <5>1. i # 1 => i - 1 \in Cell
          BY <2>4 DEF Cell
        <5>2. i # 1 => tag[i - 1] = IF i - 1 <= count_shift THEN Pattern
                                    ELSE i - 1 - count_shift
          BY <5>1 DEF FlushInv
        <5>3. QED
          BY <2>1, <2>4, <3>1, <3>2, <5>2, ShiftMovesTags DEF Cell
      <4>2. ScanOut = IF Len <= count_shift THEN Pattern ELSE Len - count_shift
        BY <2>4 DEF FlushInv, ScanOut, Cell
      <4>3. absorbed' = IF ScanOut \in Cell THEN absorbed \cup {ScanOut}
                        ELSE absorbed
        BY <2>1 DEF CompactorEdge, misr_so_enable, High
      <4>4. absorbed = {n \in Cell : n > Len - count_shift}
        BY DEF FlushInv
      <4>5. absorbed' = {n \in Cell : n > Len - count_shift'}
        <5>1. CASE Len <= count_shift
          BY <5>1, <2>4, <3>2, <4>2, <4>3, <4>4 DEF Cell, Pattern
        <5>2. CASE Len > count_shift
          <6>1. ScanOut = Len - count_shift /\ ScanOut \in Cell
            BY <5>2, <2>4, <4>2 DEF Cell
          <6>2. \A n \in Cell : n > Len - count_shift' <=>
                                n > Len - count_shift \/ n = ScanOut
            BY <6>1, <2>4, <3>2 DEF Cell
          <6>3. QED
            BY <6>1, <6>2, <4>3, <4>4
        <5>3. QED
          BY <5>1, <5>2, <2>4
      <4>6. QED
        BY <4>1, <4>5
    <3>5. CASE Shift
      BY <3>3, <3>4, <3>5, <2>2, <2>3 DEF Shift, Arc, Shifting, FlushInv
    <3>6. CASE Capture \/ EndTest
      <4>1. \A i \in Cell : i <= count_shift'
        BY <3>6, <3>2, ChainFits
        DEF Capture, EndTest, LastShift, Cell
      <4>2. Len - count_shift' < 1
        BY <3>6, <3>2, ChainFits, <2>4
        DEF Capture, EndTest, LastShift
      <4>3. \A i \in Cell : tag'[i] = Pattern
        BY <3>1, <3>3, <3>4, <4>1 DEF Shifting
      <4>4. present_state = "testshift_state" => absorbed' = Cell
        <5>1. \A n \in Cell : n > Len - count_shift'
          BY <4>2, <3>2, <2>4 DEF Cell
        <5>2. QED
          BY <3>4, <5>1
      <4>5. present_state = "firstshift_state" => count_vector' = 1 /\ Capture
        BY <3>6, <3>2
        DEF EndTest, LastVector, FlushInv, ControllerInv
      <4>6. QED
        BY <2>2, <2>3, <3>1, <3>6, <4>3, <4>4, <4>5
        DEF FlushInv, Capture, EndTest, Arc, Shifting
    <3>7. QED
      BY <2>6, <3>5, <3>6
  <2>7. CASE Unload
    <3>1. /\ present_state = "testexec_state"
          /\ present_state' = "testshift_state"
          /\ count_shift' = 0
      BY <2>1, <2>7, CountersByState DEF Unload, Arc, Shifting
    <3>2. tag' = [i \in Cell |-> i] /\ absorbed' = {}
      BY <3>1, <2>1 DEF CoreEdge, CompactorEdge, test_en_i, High, Shifting
    <3>3. {n \in Cell : n > Len - count_shift'} = {}
      BY <3>1, <2>4 DEF Cell
    <3>4. QED
      BY <2>2, <2>3, <3>1, <3>2, <3>3 DEF FlushInv, Cell
  <2>8. CASE Reset \/ LeaveReset \/ StayIdle \/ StartTest \/ Evaluate \/ Finish
    <3>1. present_state' \notin Shifting \cup {"testexec_state", "endtest_state"}
      BY <2>8
      DEF Reset, LeaveReset, StayIdle, StartTest, Evaluate, Finish, Arc, Shifting
    <3>2. QED
      BY <2>2, <2>3, <3>1 DEF FlushInv, Shifting
  <2>9. QED
    BY <2>1, <2>5, <2>6, <2>7, <2>8, NextIsAnArc
<1>3. QED
  BY <1>1, <1>2

\* Every reachable state of a chain of any length that a load covers.
THEOREM FlushInvariant == FlushSpec => []FlushInv
BY FlushInitEstablishesInv, FlushNextPreservesInv, PTL DEF FlushSpec

\* No unknown bit reaches the compactor.
THEOREM KnownOnly == FlushSpec => []OnlyKnownAbsorbed
<1>1. FlushInv => OnlyKnownAbsorbed
  <2> SUFFICES ASSUME FlushInv, misr_so_enable = 1
               PROVE  ScanOut # Unknown
    BY DEF OnlyKnownAbsorbed
  <2>1. present_state = "testshift_state"
    BY DEF misr_so_enable, High
  <2>2. Len \in Cell /\ count_shift \in Nat
    BY ChainFits DEF Cell, FlushInv, ControllerInv, TypeOK, Count
  <2>3. QED
    BY <2>1, <2>2, ChainFits DEF FlushInv, ScanOut, Pattern, Unknown
<1>2. QED BY <1>1, FlushInvariant, PTL

\* Every capture starts from a chain full of this session's generator bits.
THEOREM PatternsComplete == FlushSpec => []CaptureFindsPattern
<1>1. FlushInv => CaptureFindsPattern
  BY DEF FlushInv, FlushTypeOK, CaptureFindsPattern
<1>2. QED BY <1>1, FlushInvariant, PTL

\* Every response cell is absorbed once before it is overwritten.
THEOREM ResponsesComplete == FlushSpec => []ResponseUnloaded
<1>1. FlushInv => ResponseUnloaded
  <2> SUFFICES ASSUME FlushInv
               PROVE  ResponseUnloaded
    OBVIOUS
  <2>1. ASSUME misr_so_enable = 1
        PROVE  ScanOut \notin absorbed
    <3>1. present_state = "testshift_state"
      BY <2>1 DEF misr_so_enable, High
    <3>2. Len \in Cell /\ count_shift \in Nat
      BY ChainFits DEF Cell, FlushInv, ControllerInv, TypeOK, Count
    <3>3. QED
      BY <3>1, <3>2, ChainFits DEF FlushInv, ScanOut, Pattern, Cell
  <2>2. QED
    BY <2>1 DEF FlushInv, ResponseUnloaded
<1>2. QED BY <1>1, FlushInvariant, PTL
=============================================================================
