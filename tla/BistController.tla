--------------------------- MODULE BistController ---------------------------
(***************************************************************************)
(* The sequencer of the logic BIST (src/src/bist_controller.vhd): a Moore  *)
(* machine (Mealy only in go_nogo) with two enabled, synchronously reset   *)
(* counters.  A step is one rising edge of clk; the inputs resetn and      *)
(* test_normal are whatever the environment holds at that edge.            *)
(*                                                                         *)
(* The comparison literals of the source are constants here:               *)
(*   ShiftLast  = 152   "00000000000010011000"  (lines 59, 65, 66)         *)
(*   VectorLast = 10000 "00000010011100010000"  (line 65)                  *)
(*   CountMod   = 2^20  the counters are 20 bits wide (line 27)            *)
(***************************************************************************)
EXTENDS BitVec

CONSTANTS ShiftLast, VectorLast, CountMod

\* The counters can reach both literals, and the one value past ShiftLast
\* that the enable of the last shift cycle still produces.
ASSUME LiteralsFit ==
  /\ ShiftLast \in Nat
  /\ VectorLast \in Nat /\ VectorLast >= 2
  /\ CountMod \in Nat
  /\ ShiftLast + 1 < CountMod
  /\ VectorLast < CountMod

VARIABLES present_state, count_shift, count_vector

vars == <<present_state, count_shift, count_vector>>

state_type == {"reset_state", "idle_state", "teststart_state",
               "firstshift_state", "testshift_state", "testexec_state",
               "endtest_state", "evaluate_state"}

Count == 0 .. CountMod - 1

Shifting == {"firstshift_state", "testshift_state"}

-----------------------------------------------------------------------------
(* Outputs and internal strobes, process control_signal.                   *)

High(states) == IF present_state \in states THEN 1 ELSE 0

lfsr_start     == High(Shifting)
lfsr_load      == High({"teststart_state"})
\* Mutation: the primary input is released for the capture.
mux_select_shift == High(Shifting \cup {"teststart_state"})

mux_select     == High(Shifting \cup {"teststart_state", "testexec_state"})
test_en_i      == High(Shifting \cup {"teststart_state"})
\* Mutations: absorbing during the first load too; missing the first cycle.
misr_so_enable_first == High(Shifting)
misr_so_enable_late  == IF count_shift > 0 THEN High({"testshift_state"}) ELSE 0

misr_so_enable == High({"testshift_state"})

\* Mutation: the first load is not counted.
count_vector_enable_exec == High({"testexec_state"})
\* Mutations: a state that should clear a counter does not.
resetn_count_shift_exec ==
  1 - High({"reset_state", "endtest_state", "evaluate_state"})
resetn_count_vector_reset == 1 - High({"endtest_state", "evaluate_state"})

count_vector_enable == High({"teststart_state", "testexec_state"})
count_shift_enable  == High(Shifting)
resetn_count_shift  == 1 - High({"reset_state", "testexec_state",
                                 "endtest_state", "evaluate_state"})
resetn_count_vector == 1 - High({"reset_state", "endtest_state",
                                 "evaluate_state"})

\* Mutation: the comparison with the golden signature is forgotten.
go_nogo_blind(signature_ok) ==
  present_state \in {"teststart_state", "endtest_state", "evaluate_state"}

\* go_nogo is the handshake of the start and of the end, and the verdict.
go_nogo(signature_ok) ==
  \/ present_state \in {"teststart_state", "endtest_state"}
  \/ present_state = "evaluate_state" /\ signature_ok

-----------------------------------------------------------------------------
(* The counters, processes counter_1 and counter_2: reset wins over enable. *)

Counted(count, resetn_count, enable) ==
  IF resetn_count = 0 THEN 0
  ELSE IF enable = 1 THEN (count + 1) % CountMod
  ELSE count

Counters ==
  /\ count_vector' = Counted(count_vector, resetn_count_vector,
                             count_vector_enable)
  /\ count_shift'  = Counted(count_shift, resetn_count_shift,
                             count_shift_enable)

-----------------------------------------------------------------------------
(* The transitions, processes change_state and chose_state.                *)

Arc(from, to) == /\ present_state \in from
                 /\ present_state' = to
                 /\ Counters

\* Mutation: one shift less.
LastShift_early == count_shift = ShiftLast - 1

LastShift == count_shift = ShiftLast

\* Mutation: one vector less.
LastVector_early == /\ present_state = "testshift_state"
                    /\ count_vector = VectorLast - 1

\* The last vector is only looked for in testshift_state.
LastVector == /\ present_state = "testshift_state"
              /\ count_vector = VectorLast

Reset      == Arc(state_type, "reset_state")
LeaveReset == Arc({"reset_state"}, "idle_state")
StayIdle   == Arc({"idle_state"}, "idle_state")
StartTest  == Arc({"idle_state"}, "teststart_state")
FirstShift == Arc({"teststart_state"}, "firstshift_state")
Shift      == /\ ~LastShift
              /\ \E s \in Shifting : Arc({s}, s)
Capture    == LastShift /\ ~LastVector /\ Arc(Shifting, "testexec_state")
Unload     == Arc({"testexec_state"}, "testshift_state")
EndTest    == LastShift /\ LastVector /\ Arc(Shifting, "endtest_state")
Evaluate   == Arc({"endtest_state"}, "evaluate_state")
Finish     == Arc({"evaluate_state"}, "idle_state")

\* One rising edge of clk.
Clock(resetn, test_normal) ==
  \/ resetn = 0 /\ Reset
  \/ /\ resetn = 1
     /\ \/ LeaveReset
        \/ test_normal = 0 /\ StayIdle
        \/ test_normal = 1 /\ StartTest
        \/ FirstShift
        \/ Shift
        \/ Capture
        \/ Unload
        \/ EndTest
        \/ Evaluate
        \/ Finish

\* At power-on the state signal has the leftmost literal of its type; the
\* counters are uninitialised.
Init == /\ present_state = "reset_state"
        /\ count_shift \in Count
        /\ count_vector \in Count

Next == \E resetn, test_normal \in Bit : Clock(resetn, test_normal)

Spec == Init /\ [][Next]_vars

-----------------------------------------------------------------------------
(* What the environment contributes to liveness: the clock generator never *)
(* stops (tb_top.sv:88-93).                                                *)

FairSpec == Spec /\ WF_vars(Next)

-----------------------------------------------------------------------------
(* Properties.                                                             *)

\* Every register holds a value of its declared type.
TypeOK == /\ present_state \in state_type
          /\ count_shift \in Count
          /\ count_vector \in Count

\* Neither counter is reset by resetn or by the idle state: that a session
\* starts from two zero counters relies on every way into idle_state (end of a
\* session, power-on, a reset of any length in the middle of a session) going
\* through a state that clears them.
SessionStartsClean ==
  present_state \in {"idle_state", "teststart_state"} =>
    count_shift = 0 /\ count_vector = 0

\* Both literals are compared for equality, so a counter that once passed its
\* literal would run on until it wraps (2^20 cycles, or 2^20 vectors): outside
\* reset no counter is ever past its literal, but for the one increment that
\* the enable of the last shift cycle still makes.
CountersBounded ==
  present_state # "reset_state" =>
    /\ count_shift <= ShiftLast + 1
    /\ count_vector <= VectorLast

\* What the counters are in each state; in reset_state they may hold anything.
\* Inductive, and the reason for every other property of this module: it is
\* proved in BistControllerProofs.
ControllerInv ==
  /\ TypeOK
  /\ SessionStartsClean
  /\ present_state \in Shifting => count_shift <= ShiftLast
  /\ present_state = "firstshift_state" => count_vector = 1
  /\ present_state = "testshift_state" => count_vector \in 2 .. VectorLast
  /\ present_state = "testexec_state" =>
       count_shift = ShiftLast + 1 /\ count_vector \in 1 .. VectorLast - 1
  /\ present_state = "endtest_state" =>
       count_shift = ShiftLast + 1 /\ count_vector = VectorLast
  /\ present_state = "evaluate_state" => count_shift = 0 /\ count_vector = 0
=============================================================================
