------------------------------- MODULE HwLoop -------------------------------
(***************************************************************************)
(* The hardware loops: the loop registers, the comparator that tells the   *)
(* prefetcher that the address it serves ends a loop that goes round once  *)
(* more, and the decrement when the loop's first instruction leaves the    *)
(* ID stage (src/rtl/riscv_hwloop_controller.sv, riscv_hwloop_regs.sv, and *)
(* the registers between them in riscv_if_stage.sv).                       *)
(*                                                                         *)
(* Loop bounds and counts are any; they are written before the loop runs   *)
(* and do not change while it does.                                        *)
(***************************************************************************)
EXTENDS Integers

CONSTANT NLoops  \* hardware loops (N_REGS)

ASSUME NLoopsAssumption == NLoops \in Nat

Loop == 1 .. NLoops
NoLoop == 0

VARIABLES loops,            \* start and end address of each loop
          hwlp_counter,     \* its counter register
          hwlp_dec_cnt_if,  \* the loop that jumped last
          id                \* the IF/ID register

hwlpVars == <<loops, hwlp_counter, hwlp_dec_cnt_if, id>>

(* The loop whose counter the instruction in ID is about to decrement.         *)
hwlp_dec_cnt_id == IF id.valid /\ id.hwlp THEN id.dec ELSE NoLoop

(* Mutation: a decrement in flight is not taken into account.                  *)
pc_is_end_early(pc, i) == pc = loops[i].end /\ hwlp_counter[i] >= 2

pc_is_end(pc, i) ==
  /\ pc = loops[i].end
  /\ hwlp_counter[i] >= (IF hwlp_dec_cnt_id = i THEN 3 ELSE 2)

hwlp_jump(pc) == \E i \in Loop : pc_is_end(pc, i)

(* The loop that jumps: the first that ends here.                              *)
Ending(pc) == CHOOSE i \in Loop : /\ pc_is_end(pc, i)
                                  /\ \A j \in Loop : pc_is_end(pc, j) => i <= j

(* hwlp_targ_addr_o, which is zero when no loop jumps.                         *)
hwlp_target(pc) == IF hwlp_jump(pc) THEN loops[Ending(pc)].start ELSE 0

(* The registers' clock edge: the comparator looks at pc, and clear when what  *)
(* is in ID leaves it.                                                         *)
HwLoopEdge(pc, clear) ==
  /\ hwlp_counter' = [i \in Loop |-> IF clear /\ hwlp_dec_cnt_id = i
                                     THEN hwlp_counter[i] - 1
                                     ELSE hwlp_counter[i]]
  /\ hwlp_dec_cnt_if' = IF hwlp_jump(pc) THEN Ending(pc) ELSE hwlp_dec_cnt_if
  /\ loops' = loops
=============================================================================
