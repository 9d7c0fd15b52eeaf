----------------------------- MODULE FetchStage -----------------------------
(***************************************************************************)
(* The instruction fetch stage (src/rtl/riscv_if_stage.sv, its 128-bit     *)
(* configuration): the prefetcher, the hardware loops, the IF/ID register, *)
(* and the memory and the later stages as its environment.                 *)
(*                                                                         *)
(* Beside it runs a monitor that knows the program only: due is the        *)
(* address of the instruction that has to be delivered next.               *)
(***************************************************************************)
EXTENDS L0Prefetch, HwLoop

CONSTANTS Programs,     \* sets of halfwords that start 16-bit instructions
          LoopConfigs,  \* loop registers and counts the programs run with
          Targets       \* addresses jumped to

(* A loop's body has two instructions or more, and does not start where        *)
(* another one ends: of a body of one instruction two rounds are fetched       *)
(* before the first is counted, and it goes round too often.                   *)
ASSUME LoopsAssumption ==
  \A c \in LoopConfigs : \A i, j \in Loop :
    c.counts[i] >= 2 /\ c.counts[j] >= 2 => c.loops[i].start # c.loops[j].end

(* Addresses are addresses of instruction memory; a counter holds any number.  *)
ASSUME AddressesAssumption ==
  /\ Targets \subseteq Addr
  /\ \A c \in LoopConfigs : /\ c.loops \in [Loop -> [start: Addr, end: Addr]]
                            /\ c.counts \in [Loop -> Nat]

VARIABLES due,       \* address of the next instruction of the program
          rounds,    \* what is left of each loop's count at that point
          ordered    \* the address that was due when ID's instruction came

monitorVars == <<due, rounds, ordered>>
vars == <<compressed, prefetchVars, L0Vars, hwlpVars, monitorVars>>

-----------------------------------------------------------------------------
NoInstruction == [valid |-> FALSE, pc |-> 0, rdata |-> Word(ResetLine, 0),
                  hwlp |-> FALSE, dec |-> NoLoop]

(* The IF/ID register takes what is served, or is cleared when what is in it   *)
(* leaves; nothing reads what it holds when it is not valid.                   *)
IfIdEdge(in, clear) ==
  id' = IF ready(in)
        THEN [valid |-> TRUE, pc |-> addr_q, rdata |-> rdata_o(in),
              hwlp |-> is_hwlp_q,
              dec |-> IF is_hwlp_q THEN hwlp_dec_cnt_if ELSE NoLoop]
        ELSE IF clear THEN NoInstruction ELSE id

(* The program's order: after the end of a loop that goes round again comes    *)
(* its start, after any other instruction the one behind it.                   *)
Round(i) == loops[i].end = due /\ rounds[i] > 1
FirstRound(i) == Round(i) /\ \A j \in Loop : Round(j) => i <= j
Behind == Wrap(due + IF due \in compressed THEN 1 ELSE 2)

InOrder ==
  /\ due' = IF \E i \in Loop : Round(i)
            THEN loops[CHOOSE i \in Loop : FirstRound(i)].start ELSE Behind
  /\ rounds' = [i \in Loop |-> rounds[i] - IF FirstRound(i) THEN 1 ELSE 0]
  /\ ordered' = due

(* A jump gives up what was fetched: the loops are where their counters are    *)
(* once the instruction in ID has left it.                                     *)
Redirected(addr) ==
  /\ due' = addr
  /\ rounds' = [i \in Loop |->
        hwlp_counter'[i]
          - IF id'.valid /\ id'.hwlp /\ id'.dec = i THEN 1 ELSE 0]
  /\ ordered' = ordered

Monitor(in) ==
  \/ in.branch /\ Redirected(in.addr)
  \/ ready(in) /\ InOrder
  \/ ~in.branch /\ ~ready(in) /\ UNCHANGED <<due, rounds, ordered>>

(* A clock edge. What advances is also cleared from ID. Before the first jump, *)
(* which is to the boot address, nothing happens.                              *)
Edge(in, clear) ==
  /\ in.rvalid => in_flight # NoLine
  /\ in.gnt => instr_req_o(in)
  /\ in.advance => clear
  /\ PrefetchEdge(in) /\ IfIdEdge(in, clear) /\ HwLoopEdge(addr_q, clear)
  /\ Monitor(in)
  /\ UNCHANGED compressed

Input(branch, addr, advance, gnt, rvalid) ==
  [branch |-> branch, addr |-> addr, advance |-> advance, gnt |-> gnt,
   rvalid |-> rvalid, hwloop |-> hwlp_jump(addr_q), target |-> hwlp_target(addr_q)]

NoTarget == 0

Step(advance, gnt, rvalid) ==
  \E clear \in BOOLEAN : Edge(Input(FALSE, NoTarget, advance, gnt, rvalid), clear)

(* pc_set_i, at any time and to any address.                                   *)
Jump ==
  \E addr \in Targets, gnt, rvalid, clear \in BOOLEAN :
    Edge(Input(TRUE, addr, FALSE, gnt, rvalid), clear)

Init ==
  /\ compressed \in Programs
  /\ PrefetchInit
  /\ \E c \in LoopConfigs : loops = c.loops /\ hwlp_counter = c.counts
  /\ hwlp_dec_cnt_if = NoLoop /\ id = NoInstruction
  /\ due = 0 /\ rounds = hwlp_counter /\ ordered = 0

Next == Jump \/ \E advance, gnt, rvalid \in BOOLEAN : Step(advance, gnt, rvalid)

Spec == Init /\ [][Next]_vars

-----------------------------------------------------------------------------
(* Properties.                                                                 *)

(* Every instruction that reaches ID is the one that is due.                   *)
InstructionsInOrder == id.valid => id.pc = ordered

(* Its first halfword is the one at its address, and so is its second.         *)
InstructionsWhole ==
  id.valid => /\ id.rdata[1] = id.pc
              /\ id.pc \notin compressed => id.rdata[2] = Wrap(id.pc + 1)

(* Each loop's counter is what is left of its rounds, and what is on its way   *)
(* to being counted: its start in ID, in IF, or yet to be fetched.             *)
Pending == is_hwlp_q \/ CS \in {"HWLP_WAIT_GNT", "HWLP_GRANTED_WAIT"}

LoopsCounted ==
  \A i \in Loop :
    hwlp_counter[i] = rounds[i] + (IF hwlp_dec_cnt_id = i THEN 1 ELSE 0)
                        + (IF Pending /\ hwlp_dec_cnt_if = i THEN 1 ELSE 0)

(* Whoever waits has asked, and for the right line: in a state that waits for  *)
(* an answer, what is in flight is the line needed next, and in one that waits *)
(* for a grant, what is asked for. So no state waits for ever, and none takes  *)
(* another line's answer for its own.                                          *)
NextLine(a) == LineOf(Wrap(8 * LineOf(a) + 8))

AwaitedLine ==
  CASE CS \in {"BRANCHED", "NOT_VALID_GRANTED"} -> LineOf(addr_q)
    [] CS \in {"NOT_VALID_CROSS_GRANTED", "VALID_GRANTED"} -> NextLine(addr_q)
    [] CS \in {"HWLP_GRANTED", "HWLP_GRANTED_WAIT"} -> LineOf(loops[hwlp_dec_cnt_if].start)
    [] OTHER -> NoLine

WaitersHaveAsked ==
  AwaitedLine # NoLine =>
    \/ L0_CS = "WAIT_RVALID" /\ in_flight = AwaitedLine
    \/ /\ CS = "BRANCHED" /\ L0_CS \in {"WAIT_GNT", "ABORTED_BRANCH"}
       /\ LineOf(L0_addr_q) = AwaitedLine

-----------------------------------------------------------------------------
(* Types.                                                                      *)

TypeOK ==
  /\ CS \in States /\ addr_q \in Addr /\ is_hwlp_q \in BOOLEAN
  /\ rdata_last_q \in Int \X Int
  /\ L0_CS \in L0States /\ L0_buffer \in Int /\ L0_addr_q \in Addr
  /\ in_flight \in Line \cup {NoLine}
  /\ loops \in [Loop -> [start: Addr, end: Addr]]
  /\ hwlp_counter \in [Loop -> Int] /\ hwlp_dec_cnt_if \in Loop \cup {NoLoop}
  /\ id \in [valid: BOOLEAN, pc: Addr, rdata: Int \X Int, hwlp: BOOLEAN,
             dec: Loop \cup {NoLoop}]
  /\ due \in Addr /\ rounds \in [Loop -> Int] /\ ordered \in Addr
=============================================================================
