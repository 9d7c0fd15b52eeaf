----------------------------- MODULE LbistBench -----------------------------
(***************************************************************************)
(* The self-test bench: tb_top's reset generator and BIST host             *)
(* (src/tb/core/tb_top.sv:95-109, 151-193) around the wrapper              *)
(* (riscv_wrapper_gate.sv), which connects the LBIST block to the core and *)
(* gates the memory clock with the host's request.                         *)
(*                                                                         *)
(* A step is a rising edge of clk, which every register here uses.  The    *)
(* asynchronous parts have no step of their own: rst_n rises 1 ns after    *)
(* the last edge of the reset, so it is part of that edge, and the host's  *)
(* flags are reset by every edge that sees rst_n low.                      *)
(***************************************************************************)
EXTENDS Bist

CONSTANT ResetWaitCycles   \* RESET_WAIT_CYCLES, 4

ASSUME SomeReset == ResetWaitCycles \in Nat \ {0}

VARIABLES edges,          \* rising edges seen by reset_gen
          flags,          \* the host's state bits that are set
          test_normal_sig,
          bist_result,
          finished        \* $finish has been called

benchVars == <<bistVars, edges, flags, test_normal_sig, bist_result, finished>>

Flag == {"reset_state", "wait_state", "running_state", "evaluate_state"}

rst_n == IF edges < ResetWaitCycles THEN 0 ELSE 1

\* Clears one state bit and sets others.
Move(f, from, to) == (f \ {from}) \cup to

-----------------------------------------------------------------------------
(* The host.  The four ifs test the bits the edge found; a later one wins. *)

\* Mutation: the host does not wait for the start pulse.
NextFlags_eager(go) ==
  IF "wait_state" \in flags THEN {"running_state"}
  ELSE IF "running_state" \in flags /\ go THEN {"evaluate_state"}
  ELSE IF "reset_state" \in flags THEN {"wait_state"}
  ELSE Move(flags, "evaluate_state", {})

\* Mutation: the host goes back to waiting when the start pulse ends.
NextFlags_lost(go) ==
  IF "running_state" \in flags THEN IF go THEN {"evaluate_state"} ELSE {"wait_state"}
  ELSE IF "wait_state" \in flags /\ go THEN {"running_state"}
  ELSE IF "reset_state" \in flags THEN {"wait_state"}
  ELSE Move(flags, "evaluate_state", {})

NextFlags(go) ==
  LET f1 == IF "reset_state" \in flags
            THEN Move(flags, "reset_state", {"wait_state"}) ELSE flags
      f2 == IF "wait_state" \in flags /\ go
            THEN Move(f1, "wait_state", {"running_state"}) ELSE f1
      f3 == IF "running_state" \in flags /\ go
            THEN Move(f2, "running_state", {"evaluate_state"}) ELSE f2
  IN  IF "evaluate_state" \in flags THEN Move(f3, "evaluate_state", {}) ELSE f3

\* Mutation: the request is withdrawn once it is taken.
NextRequest_pulse(judge) ==
  IF "running_state" \in flags THEN 0
  ELSE IF "reset_state" \in flags THEN 1 ELSE test_normal_sig

NextRequest(judge) == IF judge THEN 0
                      ELSE IF "reset_state" \in flags THEN 1
                      ELSE test_normal_sig

HostReset ==
  /\ flags' = {"reset_state"}
  /\ test_normal_sig' = 0
  /\ UNCHANGED <<bist_result, finished>>

HostRuns ==
  LET go    == verdict
      judge == "evaluate_state" \in flags
  IN  /\ flags' = NextFlags(go)
      /\ test_normal_sig' = NextRequest(judge)
      /\ bist_result' = IF judge THEN IF go THEN "OK" ELSE "NOT OK"
                        ELSE bist_result
      /\ finished' = (judge /\ ~go)

-----------------------------------------------------------------------------
(* One edge of the bench.                                                  *)

Edge(pi) ==
  /\ ~finished
  /\ BistClock(rst_n, test_normal_sig, pi)
  /\ edges' = IF rst_n = 0 THEN edges + 1 ELSE edges
  /\ IF rst_n = 0 THEN HostReset ELSE HostRuns

\* During the test the core's data bus shows scanned patterns.  The memory
\* decodes its end-of-program addresses from that bus without a clock
\* (mm_ram.sv:143-190) and tb_top.sv:132-148 looks at the result on every
\* edge: any edge may end the simulation.
FalseExit ==
  /\ ~finished
  /\ mux_select = 1
  /\ finished' = TRUE
  /\ UNCHANGED <<bistVars, edges, flags, test_normal_sig, bist_result>>

BenchInit ==
  /\ BistInit
  /\ edges = 0
  /\ flags = {}
  /\ test_normal_sig \in Bit
  /\ bist_result = "none"
  /\ finished = FALSE

BenchNext == (\E pi \in Bit : Edge(pi)) \/ FalseExit

\* The clock generator runs until $finish.
BenchSpec == BenchInit /\ [][BenchNext]_benchVars
                       /\ WF_benchVars(\E pi \in Bit : Edge(pi))

-----------------------------------------------------------------------------
(* Properties.                                                             *)

\* The host's four bits and the block's state go through the session in step,
\* though they only share test_normal and the three meanings of go_nogo: the
\* host takes the start pulse for the start, the end pulse for the end and the
\* next cycle for the verdict.
InStep ==
  rst_n = 1 =>
    flags = CASE present_state = "reset_state" -> {"reset_state"}
              [] present_state \in {"idle_state", "teststart_state"} ->
                   IF bist_result = "none" THEN {"wait_state"} ELSE {}
              [] present_state \in Shifting \cup {"testexec_state", "endtest_state"} ->
                   {"running_state"}
              [] present_state = "evaluate_state" -> {"evaluate_state"}

\* clk_mem_i = clk_i & ~test_normal rises when clk rises with the request low
\* and, one delta later, when an edge withdraws the request.  Neither happens
\* while the chains shift: a scanned pattern never writes the memory.
MemoryFrozenWhileScanning ==
  [][ /\ test_normal_sig = 0 => test_en_i = 0
      /\ test_normal_sig' = 0 => test_en_i' = 0 ]_benchVars

\* What the host prints is the truth about the core.
ResultIsRight ==
  [][ bist_result' # bist_result =>
        (bist_result' = "OK" <=> error = NoError) ]_benchVars

\* The bench reaches a verdict unless the scanned core ends the simulation.
VerdictReached == <>(bist_result # "none" \/ finished)
=============================================================================
