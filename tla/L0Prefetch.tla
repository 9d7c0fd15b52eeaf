----------------------------- MODULE L0Prefetch -----------------------------
(***************************************************************************)
(* Instruction fetch over a 128-bit memory port, the configuration of the  *)
(* test bench and of the netlist under test: the one-line L0 buffer with   *)
(* its requests (src/rtl/riscv_L0_buffer.sv), and the prefetcher that      *)
(* serves 16- and 32-bit instructions from it at any halfword address,     *)
(* across lines too (src/rtl/riscv_prefetch_L0_buffer.sv).                 *)
(*                                                                         *)
(* Addresses count halfwords: eight to a line, two to a word.  A halfword  *)
(* is represented by the address it was fetched from, a word by its low    *)
(* and its high halfword, a line by its number: so what a register holds   *)
(* tells where every piece of it came from.  All that the logic reads of a *)
(* halfword is whether its low bits start a 16-bit instruction.            *)
(*                                                                         *)
(* in is what the block sees in a cycle:                                   *)
(*   branch, addr     a jump to addr                                       *)
(*   hwloop, target   the address served ends a loop that starts at target *)
(*   advance          the IF stage can take an instruction                 *)
(*   gnt, rvalid      memory grants the request, answers the one before    *)
(***************************************************************************)
EXTENDS Integers

CONSTANT Lines  \* lines of instruction memory; the address after the last is 0

ASSUME LinesAssumption == Lines \in Nat /\ Lines >= 2

Addr == 0 .. 8 * Lines - 1
Line == 0 .. Lines - 1
Wrap(a) == a % (8 * Lines)
LineOf(a) == a \div 8
Slot(a) == a % 8          \* addr[3:1]
WordIn(a) == Slot(a) \div 2  \* addr[3:2]
Upper(a) == a % 2 = 1     \* addr[1]

(* What reset leaves in the buffers: zeros, which come from no address.        *)
ResetLine == -1
NoLine == -2

(* Word i of a line.                                                           *)
Word(line, i) == <<8 * line + 2 * i, 8 * line + 2 * i + 1>>

VARIABLES compressed,    \* the addresses of memory whose low bits are not 11
          CS,            \* state of the prefetcher
          addr_q,        \* the address it serves
          is_hwlp_q,     \* reached by a jump of a hardware loop
          rdata_last_q,  \* a word kept of a line that is being replaced
          L0_CS,         \* state of the L0 buffer
          L0_buffer,     \* the line in it
          L0_addr_q,     \* the address it asks for
          in_flight      \* memory: the line granted and not answered

prefetchVars == <<CS, addr_q, is_hwlp_q, rdata_last_q>>
L0Vars == <<L0_CS, L0_buffer, L0_addr_q, in_flight>>

(* The zeros of reset would be 16-bit instructions too.                        *)
Compressed(a) == a < 0 \/ a \in compressed

L0States == {"EMPTY", "VALID_L0", "WAIT_GNT", "WAIT_RVALID", "ABORTED_BRANCH"}

States == {"IDLE", "BRANCHED", "HWLP_WAIT_GNT", "HWLP_GRANTED",
           "HWLP_GRANTED_WAIT", "HWLP_FETCH_DONE", "NOT_VALID",
           "NOT_VALID_GRANTED", "NOT_VALID_CROSS", "NOT_VALID_CROSS_GRANTED",
           "VALID", "VALID_CROSS", "VALID_GRANTED", "VALID_FETCH_DONE"}

-----------------------------------------------------------------------------
(* What is on offer in a cycle.                                                *)

rdata_L0(in) == IF in.rvalid THEN in_flight ELSE L0_buffer

fetch_valid(in) == L0_CS = "WAIT_RVALID" /\ in.rvalid

use_last == CS \in {"NOT_VALID_CROSS_GRANTED", "VALID_CROSS", "VALID_GRANTED",
                    "VALID_FETCH_DONE"}
use_hwlp == CS \in {"HWLP_GRANTED", "HWLP_GRANTED_WAIT", "HWLP_FETCH_DONE"}

rdata(in) == IF use_last \/ use_hwlp THEN rdata_last_q
             ELSE Word(rdata_L0(in), WordIn(addr_q))

(* The word that starts in the upper half of rdata: its other half is that of  *)
(* the next word of the line or, after the last, of the line that replaced it. *)
rdata_unaligned(in) ==
  <<rdata(in)[2], Word(rdata_L0(in), (WordIn(addr_q) + 1) % 4)[1]>>

rdata_o(in) == IF Upper(addr_q) /\ ~use_hwlp THEN rdata_unaligned(in) ELSE rdata(in)

aligned_is_compressed(in) == Compressed(rdata(in)[1])
unaligned_is_compressed(in) == Compressed(rdata(in)[2])
upper_is_compressed(in) == Compressed(Word(rdata_L0(in), 3)[2])

(* The instruction at a is in two lines.                                       *)
Crossword(a, in) == Slot(a) = 7 /\ ~upper_is_compressed(in)
is_crossword(in) == Crossword(addr_q, in)

(* The next instruction is the line's last halfword, or starts with it.        *)
NextIsLast(in) == \/ Slot(addr_q) = 6 /\ aligned_is_compressed(in)
                  \/ Slot(addr_q) = 5 /\ ~unaligned_is_compressed(in)
next_is_crossword(in) == NextIsLast(in) /\ ~upper_is_compressed(in)
next_upper_compressed(in) == NextIsLast(in) /\ upper_is_compressed(in)

valid(in) ==
  \/ CS = "BRANCHED" /\ fetch_valid(in) /\ ~is_crossword(in)
  \/ CS \in {"NOT_VALID_GRANTED", "NOT_VALID_CROSS_GRANTED"} /\ fetch_valid(in)
  \/ CS \in {"VALID", "VALID_CROSS", "VALID_GRANTED", "VALID_FETCH_DONE",
             "HWLP_GRANTED", "HWLP_FETCH_DONE"}

valid_o(in) == valid(in) /\ ~in.branch

(* The IF stage takes the instruction.                                         *)
ready(in) == valid_o(in) /\ in.advance

next_valid(in) ==
  /\ WordIn(addr_q) # 3 \/ next_upper_compressed(in)
  /\ ~next_is_crossword(in)
  /\ valid(in)

(* The address after the instruction served.                                   *)
Following(in) ==
  Wrap(addr_q + IF (Upper(addr_q) /\ unaligned_is_compressed(in))
                   \/ (~Upper(addr_q) /\ aligned_is_compressed(in))
                THEN 1 ELSE 2)
addr_int(in) == IF ready(in) THEN Following(in) ELSE addr_q

-----------------------------------------------------------------------------
(* What is asked of the L0 buffer, and by it of memory.                        *)

fetch_possible == WordIn(addr_q) = 3

do_fetch(in) ==
  \/ CS \in {"BRANCHED", "VALID"} /\ fetch_possible
  \/ CS \in {"NOT_VALID", "NOT_VALID_CROSS"}
  \/ CS = "VALID" /\ ready(in) /\ next_is_crossword(in)

(* Where a fetch goes: at a crossing, into the next line (16#16# bytes past    *)
(* the start of this one).                                                     *)
addr_real_next(in) ==
  Wrap(IF next_is_crossword(in) THEN 8 * LineOf(addr_q) + 11
       ELSE 2 * (addr_q \div 2) + 2)

(* States that ask for the start of a loop while they serve its end.           *)
do_hwlp(in) ==
  in.hwloop /\ CS \in {"NOT_VALID_GRANTED", "NOT_VALID_CROSS_GRANTED", "VALID",
                       "VALID_CROSS", "VALID_GRANTED", "VALID_FETCH_DONE"}

hwlp_i(in) == do_hwlp(in) \/ CS = "HWLP_WAIT_GNT"

Asked(in) == in.branch \/ hwlp_i(in) \/ do_fetch(in)

instr_req_o(in) ==
  \/ L0_CS \in {"EMPTY", "VALID_L0"} /\ Asked(in)
  \/ L0_CS = "WAIT_GNT"
  \/ L0_CS = "WAIT_RVALID" /\ in.rvalid /\ Asked(in)
  \/ L0_CS = "ABORTED_BRANCH" /\ in.rvalid

instr_addr(in) ==
  IF in.branch THEN in.addr
  ELSE IF hwlp_i(in) /\ L0_CS # "ABORTED_BRANCH" THEN in.target
  ELSE IF L0_CS \in {"WAIT_GNT", "ABORTED_BRANCH"} THEN L0_addr_q
  ELSE addr_real_next(in)

(* The L0 buffer's state after a cycle without a request.                      *)
Unasked(in) == IF fetch_valid(in) THEN "VALID_L0"
               ELSE IF L0_CS = "WAIT_RVALID" /\ in.branch THEN "ABORTED_BRANCH"
               ELSE L0_CS

L0Edge(in) ==
  /\ L0_CS' = IF ~instr_req_o(in) THEN Unasked(in)
              ELSE IF in.gnt THEN "WAIT_RVALID" ELSE "WAIT_GNT"
  /\ L0_buffer' = IF in.rvalid THEN in_flight ELSE L0_buffer
  /\ L0_addr_q' = IF Asked(in) THEN instr_addr(in) ELSE L0_addr_q
  /\ in_flight' = IF in.gnt THEN LineOf(instr_addr(in))
                  ELSE IF in.rvalid THEN NoLine ELSE in_flight

-----------------------------------------------------------------------------
(* The prefetcher's state machine, one action per state.                       *)

Then(granted, state, in) == CS' = IF in.gnt THEN granted ELSE state

(* Mutation: a fetch is taken to be granted at once.                           *)
Missing_ungranted(in) == CS' = "NOT_VALID_GRANTED"

(* The next line is needed: the next instruction crosses into it, or starts    *)
(* with it.                                                                    *)
Crossing(in) == Then("NOT_VALID_CROSS_GRANTED", "NOT_VALID_CROSS", in)
Missing(in) == Then("NOT_VALID_GRANTED", "NOT_VALID", in)

Idle(in) == CS = "IDLE" /\ CS' = CS

Branched(in) ==
  /\ CS = "BRANCHED"
  /\ \/ ready(in) /\ in.hwloop /\ CS' = "HWLP_WAIT_GNT"
     \/ ready(in) /\ ~in.hwloop /\ next_valid(in) /\ Then("VALID_GRANTED", "VALID", in)
     \/ ready(in) /\ ~in.hwloop /\ next_is_crossword(in) /\ Crossing(in)
     \/ /\ ready(in) /\ ~in.hwloop /\ ~next_valid(in) /\ ~next_is_crossword(in)
        /\ Missing(in)
     \/ ~ready(in) /\ ~fetch_valid(in) /\ CS' = CS
     \/ ~ready(in) /\ fetch_valid(in) /\ is_crossword(in) /\ Crossing(in)
     \/ /\ ~ready(in) /\ fetch_valid(in) /\ ~is_crossword(in)
        /\ Then("VALID_GRANTED", "VALID", in)

NotValid(in) == CS = "NOT_VALID" /\ Missing(in)

NotValidGranted(in) ==
  CS = "NOT_VALID_GRANTED" /\ CS' = IF fetch_valid(in) THEN "VALID" ELSE CS

NotValidCross(in) == CS = "NOT_VALID_CROSS" /\ Crossing(in)

NotValidCrossGranted(in) ==
  /\ CS = "NOT_VALID_CROSS_GRANTED"
  /\ CS' = IF ~fetch_valid(in) THEN CS
           ELSE IF ready(in) THEN "VALID" ELSE "VALID_CROSS"

Valid(in) ==
  /\ CS = "VALID"
  /\ \/ ready(in) /\ next_is_crossword(in) /\ Crossing(in)
     \/ ready(in) /\ ~next_is_crossword(in) /\ ~next_valid(in) /\ Missing(in)
     \/ /\ ready(in) /\ next_valid(in)
        /\ CS' = IF in.gnt /\ next_upper_compressed(in) THEN "VALID_GRANTED" ELSE CS
     \/ ~ready(in) /\ Then("VALID_GRANTED", "VALID", in)

ValidCross(in) ==
  CS = "VALID_CROSS" /\ CS' = IF ready(in) THEN "VALID" ELSE CS

(* What follows a line's last word, once the next line is there: a half of the *)
(* word is left to serve, or none is.                                          *)
LastServed(in) == IF next_is_crossword(in) THEN "VALID_CROSS"
                  ELSE IF next_upper_compressed(in) THEN "VALID_FETCH_DONE"
                  ELSE "VALID"

ValidGranted(in) ==
  /\ CS = "VALID_GRANTED"
  /\ \/ ready(in) /\ fetch_valid(in) /\ CS' = LastServed(in)
     \/ /\ ready(in) /\ ~fetch_valid(in)
        /\ CS' = IF next_is_crossword(in) THEN "NOT_VALID_CROSS_GRANTED"
                 ELSE IF next_upper_compressed(in) THEN CS
                 ELSE "NOT_VALID_GRANTED"
     \/ ~ready(in) /\ CS' = IF fetch_valid(in) THEN "VALID_FETCH_DONE" ELSE CS

ValidFetchDone(in) ==
  CS = "VALID_FETCH_DONE" /\ CS' = IF ready(in) THEN LastServed(in) ELSE CS

(* The start of the loop is there: valid, unless it is in two lines.           *)
LoopStart(a, in) == CS' = IF Crossword(a, in) THEN "NOT_VALID_CROSS" ELSE "VALID"

HwlpWaitGnt(in) == CS = "HWLP_WAIT_GNT" /\ Then("BRANCHED", "HWLP_WAIT_GNT", in)

HwlpGranted(in) ==
  /\ CS = "HWLP_GRANTED"
  /\ \/ ready(in) /\ fetch_valid(in) /\ LoopStart(in.target, in)
     \/ ready(in) /\ ~fetch_valid(in) /\ CS' = "HWLP_GRANTED_WAIT"
     \/ ~ready(in) /\ CS' = IF fetch_valid(in) THEN "HWLP_FETCH_DONE" ELSE CS

HwlpGrantedWait(in) ==
  /\ CS = "HWLP_GRANTED_WAIT"
  /\ \/ fetch_valid(in) /\ LoopStart(L0_addr_q, in)
     \/ ~fetch_valid(in) /\ CS' = CS

HwlpFetchDone(in) ==
  /\ CS = "HWLP_FETCH_DONE"
  /\ \/ ready(in) /\ LoopStart(in.target, in)
     \/ ~ready(in) /\ CS' = CS

(* A loop's end in a state that asks for its start: it is granted before or    *)
(* when the end is taken, or the jump waits for its grant.                     *)
Looping(in) == do_hwlp(in) /\ (ready(in) \/ in.gnt)

LoopEnd(in) == CS' = IF ~ready(in) THEN "HWLP_GRANTED"
                     ELSE IF in.gnt THEN "BRANCHED" ELSE "HWLP_WAIT_GNT"

Transition(in) ==
  \/ in.branch /\ CS' = "BRANCHED"
  \/ ~in.branch /\ Looping(in) /\ LoopEnd(in)
  \/ /\ ~in.branch /\ ~Looping(in)
     /\ \/ Idle(in) \/ Branched(in)
        \/ NotValid(in) \/ NotValidGranted(in)
        \/ NotValidCross(in) \/ NotValidCrossGranted(in)
        \/ Valid(in) \/ ValidCross(in) \/ ValidGranted(in) \/ ValidFetchDone(in)
        \/ HwlpWaitGnt(in) \/ HwlpGranted(in) \/ HwlpGrantedWait(in)
        \/ HwlpFetchDone(in)

-----------------------------------------------------------------------------
(* The registers that go with it.                                              *)

(* The address moves to the start of the loop in this cycle.                   *)
ToLoopStart(in) ==
  \/ Looping(in) /\ ready(in) /\ in.gnt
  \/ CS = "HWLP_WAIT_GNT" /\ in.gnt
  \/ CS \in {"HWLP_GRANTED", "HWLP_FETCH_DONE"} /\ ready(in)

(* Mutation: the address moves on while the jump of a loop waits.              *)
WaitsForGrant_moves(in) == FALSE

(* The end of the loop is taken, but its address is kept until the grant.      *)
WaitsForGrant(in) ==
  in.hwloop /\ ready(in) /\ (CS = "BRANCHED" \/ (do_hwlp(in) /\ ~in.gnt))

(* The start of the loop is what is served from the next cycle on.             *)
StartsLoop(in) ==
  \/ ToLoopStart(in) /\ (CS = "HWLP_GRANTED" => fetch_valid(in))
  \/ CS = "HWLP_GRANTED_WAIT" /\ fetch_valid(in)

Address(in) ==
  /\ addr_q' = IF in.branch THEN in.addr
               ELSE IF ToLoopStart(in) THEN in.target
               ELSE IF WaitsForGrant(in) THEN addr_q
               ELSE addr_int(in)
  /\ is_hwlp_q' = /\ ~in.branch
                  /\ StartsLoop(in) \/ (is_hwlp_q /\ ~ready(in))

save_rdata_hwlp(in) == do_hwlp(in) /\ ~in.branch /\ ~ready(in) /\ in.gnt

save_rdata_last(in) ==
  \/ /\ CS = "BRANCHED" /\ ready(in) /\ ~in.hwloop /\ in.gnt
     /\ next_valid(in) \/ next_is_crossword(in)
  \/ CS = "BRANCHED" /\ ~ready(in) /\ fetch_valid(in) /\ (is_crossword(in) \/ in.gnt)
  \/ CS = "NOT_VALID_CROSS" /\ in.gnt
  \/ /\ CS = "VALID" /\ in.gnt
     /\ ready(in) => next_is_crossword(in) \/ (next_valid(in) /\ next_upper_compressed(in))

(* Mutation: the word served is kept, not the last one of the line.            *)
Saved_served(in) == rdata_last_q' = IF save_rdata_hwlp(in) THEN rdata_o(in)
                                    ELSE IF save_rdata_last(in) THEN rdata(in)
                                    ELSE rdata_last_q

Saved(in) ==
  rdata_last_q' = IF save_rdata_hwlp(in) THEN rdata_o(in)
                  ELSE IF ~save_rdata_last(in) THEN rdata_last_q
                  ELSE IF ready(in) THEN Word(rdata_L0(in), 3) ELSE rdata(in)

PrefetchEdge(in) == Transition(in) /\ Address(in) /\ Saved(in) /\ L0Edge(in)

PrefetchInit ==
  /\ CS = "IDLE" /\ addr_q = 0 /\ is_hwlp_q = FALSE /\ rdata_last_q = Word(ResetLine, 3)
  /\ L0_CS = "EMPTY" /\ L0_buffer = ResetLine /\ L0_addr_q = 0 /\ in_flight = NoLine
=============================================================================
