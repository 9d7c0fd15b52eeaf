----------------------------- MODULE CoreControl -----------------------------
(* The core's control: the state machine of riscv_controller.sv with the       *)
(* interrupt controller (riscv_int_controller.sv), the instructions in IF, ID  *)
(* and EX with the handshakes that move them, and what exceptions, interrupts, *)
(* debug mode and their returns change in the CSRs. One step is a clock edge.  *)
(*                                                                             *)
(* An instruction is its address and its class; fetch may deliver any class at *)
(* any address, so every program is covered. Programs run in machine mode,     *)
(* where memory protection reports no errors.                                  *)
EXTENDS Addresses

CONSTANTS
    Classes,       \* the classes of instructions in the programs
    IrqWithdrawn   \* may an interrupt request end before it is taken?

VARIABLES
    ctrl_fsm_cs, jump_done_q, illegal_insn_q, debug_mode_q,
    instr_valid_irq_flush_q,
    exc_ctrl_cs,      \* the interrupt controller
    pc_if,            \* address of the instruction fetch delivers next
    id,               \* the IF/ID register: valid, pc, class
    ex,               \* the operation in EX and, of a taken branch, its target
    csr,              \* mie, mpie, mpp, mepc; dpc, and step and ebreakm of dcsr
    irq, debug_req,   \* the request lines
    due,              \* monitor: the first instruction that has not taken effect
    performed,        \* monitor: how often it, an event load, has been performed
    stepped           \* monitor: instructions since debug mode was left to step

ctrlVars == <<ctrl_fsm_cs, jump_done_q, illegal_insn_q, debug_mode_q,
              instr_valid_irq_flush_q, exc_ctrl_cs>>
vars == <<ctrlVars, pc_if, id, ex, csr, irq, debug_req, due, performed, stepped>>

States == {"RESET", "BOOT_SET", "WAIT_SLEEP", "SLEEP", "FIRST_FETCH", "DECODE",
           "FLUSH_EX", "IRQ_FLUSH", "ELW_EXE", "IRQ_TAKEN_ID", "IRQ_TAKEN_IF",
           "FLUSH_WB", "XRET_JUMP", "DBG_TAKEN_ID", "DBG_TAKEN_IF", "DBG_FLUSH",
           "DBG_WAIT_BRANCH"}

(* Writes of mstatus and dcsr, by what they change; taken or not, a branch.    *)
StatusWrites == {"set_mie", "clear_mie", "set_step", "clear_step"}
Branches == {"taken", "untaken"}
Traps == {"illegal", "ecall"}
AllClasses == {"plain", "jump", "elw", "ebreak", "wfi", "fencei", "mret", "dret"}
                \cup StatusWrites \cup Branches \cup Traps

ASSUME ProgramAssumption == Classes \subseteq AllClasses /\ IrqWithdrawn \in BOOLEAN

Stepping == csr.step /\ ~debug_mode_q
ForcedDebug(c) == c = "ebreak" /\ csr.ebreakm

(* The classes a program holds at this point. The debugger's program ends in   *)
(* dret, alone writes dcsr, and neither traps nor waits; mret returns to       *)
(* machine mode. A debugger does not step over an ebreak that enters debug     *)
(* mode (a TODO of riscv_controller.sv:565), nor over wfi and fence.i, for     *)
(* which FLUSH_WB does not look at dcsr.step, nor over elw, after which debug  *)
(* mode is entered without saving an address.                                  *)
Fits(c) ==
    /\ c \in {"dret", "set_step", "clear_step"} => debug_mode_q
    /\ c \in Traps \cup {"mret", "wfi", "elw"} => ~debug_mode_q
    /\ Stepping => c \notin {"elw", "wfi", "fencei"} /\ ~ForcedDebug(c)

Allowed(c) == Fits(c) /\ (c = "mret" => csr.mpp = "M")

-----------------------------------------------------------------------------
(* What a cycle brings: ready, the EX and WB stages can move; stall, a data    *)
(* hazard, and jr, one on a jump's address.                                    *)
Inputs == {in \in [ready : BOOLEAN, stall : BOOLEAN, jr : BOOLEAN] :
             in.jr => in.stall /\ id.class = "jump"}

branch_in_ex == ex.op \in Branches
branch_taken_ex == ex.op = "taken"
ex_ready(in) == in.ready \/ branch_in_ex
id_ready(in) == ~in.stall /\ ex_ready(in)

irq_req == exc_ctrl_cs = "PENDING"

(* The controller's outputs: the next state, whether it decodes, the halts,    *)
(* the address fetch is set to (none or one), what the CSRs do and at which    *)
(* address, the interrupt controller's answer, and the registers it loads.     *)
Quiet ==
    [next |-> ctrl_fsm_cs, decoding |-> FALSE, halt_if |-> FALSE, halt_id |-> FALSE,
     pc_set |-> {}, csr |-> "keep", save |-> 0, ack |-> FALSE, kill |-> FALSE,
     jump_done |-> jump_done_q, illegal |-> illegal_insn_q, debug |-> debug_mode_q,
     replay |-> FALSE]

(* Mutation: fetch goes on while the pipeline is flushed.                      *)
Halt_fetching(o) == [o EXCEPT !.halt_id = TRUE]

Halt(o) == [o EXCEPT !.halt_if = TRUE, !.halt_id = TRUE]

Halted == Halt(Quiet)
GoTo(o, state) == [o EXCEPT !.next = state]
SetPc(o, a) == [o EXCEPT !.pc_set = {a}]

-----------------------------------------------------------------------------
(* One operator per state of the controller.                                   *)
BootSet == GoTo(SetPc(Quiet, Boot), "FIRST_FETCH")

Asleep == GoTo(Halted, IF irq \/ debug_req \/ debug_mode_q \/ csr.step
                       THEN "FIRST_FETCH" ELSE "SLEEP")

FirstFetch(in) ==
    IF debug_req /\ ~debug_mode_q THEN GoTo(Halted, "DBG_TAKEN_IF")
    ELSE IF irq_req /\ csr.mie THEN GoTo(Halted, "IRQ_TAKEN_IF")
    ELSE IF id_ready(in) THEN GoTo(Quiet, "DECODE") ELSE Quiet

SaveId(o) == [Halt(o) EXCEPT !.csr = "trap", !.save = id.pc, !.next = "FLUSH_EX"]

(* The instruction in ID by its class, neither interrupted nor debugged.       *)
IsTrap(c) == c \in Traps \/ (c = "ebreak" /\ ~debug_mode_q /\ ~csr.ebreakm)

Decoded(in) ==
    LET c == id.class
        o == [Quiet EXCEPT !.decoding = TRUE, !.kill = irq_req]
        HaltIf(state) == [o EXCEPT !.halt_if = TRUE, !.next = IF id_ready(in) THEN state ELSE @]
    IN  IF IsTrap(c) THEN [SaveId(o) EXCEPT !.illegal = @ \/ c = "illegal"]
        ELSE IF c = "ebreak" THEN GoTo(Halt(o), "DBG_FLUSH")
        ELSE IF c \in {"wfi", "fencei", "mret", "dret"} THEN GoTo(Halt(o), "FLUSH_EX")
        ELSE IF c \in StatusWrites THEN HaltIf("FLUSH_EX")
        ELSE IF c = "elw" THEN HaltIf("ELW_EXE")
        ELSE IF c = "jump" /\ ~in.jr /\ ~jump_done_q
        THEN [SetPc(o, Target(id.pc)) EXCEPT !.jump_done = TRUE]
        ELSE o

(* Single step: once the instruction has left ID, on to debug mode.            *)
AfterStep(c) ==
    IF IsTrap(c) \/ c = "mret" THEN "FLUSH_EX"
    ELSE IF c \in Branches THEN "DBG_WAIT_BRANCH" ELSE "DBG_FLUSH"

Stepped(in) ==
    LET o == [Decoded(in) EXCEPT !.halt_if = TRUE]
    IN  IF id_ready(in) THEN GoTo(o, AfterStep(id.class)) ELSE o

InstructionInId == id.valid \/ instr_valid_irq_flush_q

(* Mutation: interrupts are served in debug mode too.                          *)
Decode_nested(in) ==
    IF branch_taken_ex THEN SetPc(Quiet, ex.target)
    ELSE IF ~InstructionInId THEN Quiet
    ELSE IF irq_req /\ csr.mie /\ ~debug_req
    THEN [GoTo(Halted, "IRQ_FLUSH") EXCEPT !.decoding = TRUE]
    ELSE IF Stepping THEN Stepped(in) ELSE Decoded(in)

Decode(in) ==
    IF branch_taken_ex THEN SetPc(Quiet, ex.target)
    ELSE IF ~InstructionInId THEN Quiet
    ELSE IF irq_req /\ csr.mie /\ ~debug_req /\ ~debug_mode_q
    THEN [GoTo(Halted, "IRQ_FLUSH") EXCEPT !.decoding = TRUE]
    ELSE IF debug_req /\ ~debug_mode_q
    THEN [GoTo(Halted, "DBG_FLUSH") EXCEPT !.decoding = TRUE]
    ELSE IF Stepping THEN Stepped(in) ELSE Decoded(in)

(* ex_valid: a branch lets ID pass, and does not end the flush.                *)
FlushEx(in) == GoTo(Halted, IF in.ready THEN "FLUSH_WB" ELSE "FLUSH_EX")

IrqFlush ==
    IF irq /\ csr.mie THEN GoTo(Halted, "IRQ_TAKEN_ID")
    ELSE [GoTo(Halted, "DECODE") EXCEPT !.kill = TRUE, !.replay = TRUE]

ElwExe(in) ==
    GoTo(Halted, IF ~id_ready(in) THEN "ELW_EXE"
                 ELSE IF debug_req /\ ~debug_mode_q THEN "DBG_FLUSH" ELSE "IRQ_FLUSH")

IrqTaken(pc) ==
    [GoTo(SetPc(Quiet, IrqVector), "DECODE")
        EXCEPT !.csr = "trap", !.save = pc, !.ack = TRUE]

(* The trap is entered, the return restores, and wfi and fence.i are done.     *)
FlushWb ==
    LET c == id.class
        Trap == GoTo(SetPc(Halted, TrapVector), IF Stepping THEN "DBG_TAKEN_IF" ELSE "DECODE")
    IN  IF illegal_insn_q THEN [Trap EXCEPT !.illegal = FALSE]
        ELSE IF c \in {"ebreak", "ecall"} THEN Trap
        ELSE IF c = "mret" THEN [GoTo(Halted, "XRET_JUMP") EXCEPT !.csr = "mret"]
        ELSE IF c = "dret" THEN GoTo(Halted, "XRET_JUMP")
        ELSE IF c = "wfi" THEN GoTo(Halted, "WAIT_SLEEP")
        ELSE IF c = "fencei" THEN GoTo(SetPc(Halted, After(id.pc)), "DECODE")
        ELSE GoTo(Halted, "DECODE")

(* Mutation: a step over mret goes on with the instruction returned to.        *)
XretJump_running ==
    IF id.class = "mret" THEN GoTo(SetPc(Quiet, csr.mepc), "DECODE")
    ELSE [GoTo(SetPc(Quiet, csr.dpc), "DECODE") EXCEPT !.debug = FALSE]

XretJump ==
    LET o == GoTo(Quiet, IF Stepping THEN "DBG_TAKEN_IF" ELSE "DECODE")
    IN  IF id.class = "mret" THEN SetPc(o, csr.mepc)
        ELSE [SetPc(o, csr.dpc) EXCEPT !.debug = FALSE]

DbgWaitBranch ==
    [GoTo(Quiet, "DBG_FLUSH")
        EXCEPT !.halt_if = TRUE, !.pc_set = IF branch_taken_ex THEN {ex.target} ELSE {}]

EnterDebug(pc) ==
    [GoTo(SetPc(Quiet, DebugVector), "DECODE")
        EXCEPT !.csr = "debug", !.save = pc, !.debug = TRUE]

(* A debugger's ebreak returns to its start and saves nothing.                 *)
DbgTakenId ==
    IF ~debug_mode_q /\ (debug_req \/ ForcedDebug(id.class)) THEN EnterDebug(id.pc)
    ELSE [EnterDebug(0) EXCEPT !.csr = "keep"]

DbgFlush ==
    GoTo(Halted, IF debug_mode_q \/ id.class = "elw" \/ ~csr.step
                 THEN "DBG_TAKEN_ID" ELSE "DBG_TAKEN_IF")

-----------------------------------------------------------------------------
(* The pipeline and the CSRs around the controller.                            *)
passes(in, o) == id_ready(in) /\ ~o.halt_id
Issues(in, o) == passes(in, o) /\ o.decoding /\ id.class # "illegal"

Fetching == ctrl_fsm_cs \in {"FIRST_FETCH", "DECODE"}
CanLoad(in, o) == Fetching /\ id_ready(in) /\ ~o.halt_if /\ o.pc_set = {}

(* Mutation: a taken branch leaves what follows it in ID.                      *)
NextId_behind(in, o, fetched) ==
    IF fetched # {}
    THEN [valid |-> TRUE, pc |-> pc_if, class |-> CHOOSE c \in fetched : TRUE]
    ELSE [id EXCEPT !.valid = @ /\ ~(id_ready(in) \/ o.halt_id)]

(* fetched is empty, or the class of the instruction fetch delivers.           *)
NextId(in, o, fetched) ==
    IF fetched # {}
    THEN [valid |-> TRUE, pc |-> pc_if, class |-> CHOOSE c \in fetched : TRUE]
    ELSE [id EXCEPT !.valid = @ /\ ~(id_ready(in) \/ o.halt_id \/ branch_taken_ex)]

NextPcIf(o, fetched) ==
    IF o.pc_set # {} THEN CHOOSE a \in o.pc_set : TRUE
    ELSE IF fetched # {} THEN After(pc_if) ELSE pc_if

Operation(op, target) == [op |-> op, target |-> target]
Bubble == Operation("none", 0)

NextEx(in, o) ==
    IF Issues(in, o)
    THEN IF id.class = "taken" THEN Operation("taken", Target(id.pc))
         ELSE IF id.class \in StatusWrites \cup {"untaken"} THEN Operation(id.class, 0)
         ELSE Bubble
    ELSE IF ex_ready(in) THEN Bubble ELSE ex

(* A write of a status register happens in EX; the controller's has priority.  *)
Written ==
    IF ex.op \in {"set_mie", "clear_mie"} THEN [csr EXCEPT !.mie = ex.op = "set_mie"]
    ELSE IF ex.op \in {"set_step", "clear_step"}
    THEN [csr EXCEPT !.step = ex.op = "set_step"] ELSE csr

NextCsr(o) ==
    [keep |-> Written,
     trap |-> [Written EXCEPT !.mepc = o.save, !.mpie = csr.mie, !.mie = FALSE, !.mpp = "M"],
     debug |-> [Written EXCEPT !.dpc = o.save],
     mret |-> [Written EXCEPT !.mie = csr.mpie, !.mpie = TRUE, !.mpp = "U"]][o.csr]

NextExcCtrl(o) ==
    IF irq_req /\ o.ack THEN "DONE"
    ELSE IF (irq_req /\ ~o.kill) \/ (exc_ctrl_cs = "IDLE" /\ csr.mie /\ irq) THEN "PENDING"
    ELSE "IDLE"

(* A request line stays up until it is answered. A halt is not requested while *)
(* the debugger is stepping.                                                   *)
NextIrq(o) == irq' \in IF irq /\ ~o.ack /\ ~IrqWithdrawn
                       THEN {TRUE} ELSE BOOLEAN
NextDebugReq(o) ==
    debug_req' \in IF o.debug \/ csr.step THEN {FALSE}
                   ELSE IF debug_req THEN {TRUE} ELSE BOOLEAN

-----------------------------------------------------------------------------
(* The monitors. An instruction takes effect when it is issued, but for wfi    *)
(* and fence.i, which end in the controller, and for an event load, which is   *)
(* performed and may still be interrupted until its replay is given up.        *)
Waits == {"wfi", "fencei"}

ReplayGivenUp(in, o) ==
    /\ ctrl_fsm_cs = "DECODE" /\ instr_valid_irq_flush_q /\ o.decoding /\ o.next = "DECODE"
    /\ id.class = "elw" /\ performed > 0 /\ ~id_ready(in)

Completes(in, o) ==
    \/ Issues(in, o) /\ id.class # "elw"
    \/ id.class \in Waits /\ ctrl_fsm_cs = "FLUSH_WB" /\ ~illegal_insn_q
    \/ id.class \in Waits /\ ctrl_fsm_cs = "DECODE" /\ o.next = "DBG_FLUSH" /\ ~debug_req
    \/ ReplayGivenUp(in, o)

EntersDebug == ctrl_fsm_cs \in {"DBG_TAKEN_ID", "DBG_TAKEN_IF"}

NextDue(in, o) ==
    IF EntersDebug THEN DebugVector
    ELSE IF o.csr = "trap" THEN IF o.ack THEN IrqVector ELSE TrapVector
    ELSE IF o.csr = "mret" THEN csr.mepc
    ELSE IF debug_mode_q /\ ~o.debug THEN csr.dpc
    ELSE IF ~Completes(in, o) THEN due
    ELSE IF id.class \in {"jump", "taken"} THEN Target(id.pc) ELSE After(id.pc)

Counted(n) == IF n < 2 THEN n + 1 ELSE n

NextPerformed(in, o) ==
    IF Completes(in, o) \/ o.csr # "keep" THEN 0
    ELSE IF Issues(in, o) THEN Counted(performed) ELSE performed

NextStepped(in, o) ==
    IF ~Stepping \/ EntersDebug THEN 0
    ELSE IF Completes(in, o) \/ (o.csr # "keep" /\ ~o.ack) THEN Counted(stepped)
    ELSE stepped

-----------------------------------------------------------------------------
(* A clock edge in which the controller's outputs are o.                       *)
Edge(in, o) ==
    /\ \E fetched \in IF CanLoad(in, o)
                      THEN {{}} \cup {{c} : c \in {k \in Classes : Allowed(k)}} ELSE {{}} :
            id' = NextId(in, o, fetched) /\ pc_if' = NextPcIf(o, fetched)
    /\ ctrl_fsm_cs' = o.next
    /\ jump_done_q' = (o.jump_done /\ ~id_ready(in))
    /\ illegal_insn_q' = o.illegal
    /\ debug_mode_q' = o.debug
    /\ instr_valid_irq_flush_q' = o.replay
    /\ exc_ctrl_cs' = NextExcCtrl(o)
    /\ ex' = NextEx(in, o)
    /\ csr' = NextCsr(o)
    /\ NextIrq(o) /\ NextDebugReq(o)
    /\ due' = NextDue(in, o)
    /\ performed' = NextPerformed(in, o)
    /\ stepped' = NextStepped(in, o)

In(state) == ctrl_fsm_cs = state

StartsUp(in) ==
    \/ In("RESET") /\ \E next \in {"RESET", "BOOT_SET"} : Edge(in, GoTo(Quiet, next))
    \/ In("BOOT_SET") /\ Edge(in, BootSet)
    \/ In("FIRST_FETCH") /\ Edge(in, FirstFetch(in))

Decodes(in) == In("DECODE") /\ Edge(in, Decode(in))

Flushes(in) ==
    \/ In("FLUSH_EX") /\ Edge(in, FlushEx(in))
    \/ In("FLUSH_WB") /\ Edge(in, FlushWb)
    \/ In("XRET_JUMP") /\ Edge(in, XretJump)

Sleeps(in) ==
    \/ In("WAIT_SLEEP") /\ Edge(in, GoTo(Halted, "SLEEP"))
    \/ In("SLEEP") /\ Edge(in, Asleep)

Interrupts(in) ==
    \/ In("IRQ_FLUSH") /\ Edge(in, IrqFlush)
    \/ In("ELW_EXE") /\ Edge(in, ElwExe(in))
    \/ In("IRQ_TAKEN_ID") /\ Edge(in, IrqTaken(id.pc))
    \/ In("IRQ_TAKEN_IF") /\ Edge(in, IrqTaken(pc_if))

Debugs(in) ==
    \/ In("DBG_WAIT_BRANCH") /\ Edge(in, DbgWaitBranch)
    \/ In("DBG_FLUSH") /\ Edge(in, DbgFlush)
    \/ In("DBG_TAKEN_ID") /\ Edge(in, DbgTakenId)
    \/ In("DBG_TAKEN_IF") /\ Edge(in, EnterDebug(pc_if))

Clock(in) == StartsUp(in) \/ Decodes(in) \/ Flushes(in) \/ Sleeps(in)
               \/ Interrupts(in) \/ Debugs(in)

Init ==
    /\ ctrl_fsm_cs = "RESET" /\ exc_ctrl_cs = "IDLE"
    /\ jump_done_q = FALSE /\ illegal_insn_q = FALSE /\ debug_mode_q = FALSE
    /\ instr_valid_irq_flush_q = FALSE
    /\ pc_if = 0 /\ id = [valid |-> FALSE, pc |-> 0, class |-> "plain"] /\ ex = Bubble
    /\ \E ebreakm \in BOOLEAN :
         csr = [mie |-> FALSE, mpie |-> FALSE, mpp |-> "M", mepc |-> 0,
                dpc |-> 0, step |-> FALSE, ebreakm |-> ebreakm]
    /\ irq = FALSE /\ debug_req = FALSE
    /\ due = Boot /\ performed = 0 /\ stepped = 0

Next == \E in \in Inputs : Clock(in)

Spec == Init /\ [][Next]_vars

-----------------------------------------------------------------------------
(* What the run checks.                                                        *)
Program == INSTANCE Hart WITH pc <- due, csr <- Written, debug_mode <- debug_mode_q

(* The core is a Hart: instructions take effect in program order, every saved  *)
(* address is that of the first instruction that has not taken effect, and     *)
(* interrupts are taken only when enabled and outside debug mode.              *)
ImplementsHart == Program!HartSpec

(* The instruction the controller decodes is the one that is due: none is      *)
(* skipped, repeated or taken from the wrong path of a branch.                 *)
InOrder == In("DECODE") /\ id.valid /\ ~branch_taken_ex => id.pc = due

(* The core sleeps with nothing in flight and fetch at the instruction due,    *)
(* which is the address that the wake-up of the core saves.                    *)
SleepsDrained ==
    ctrl_fsm_cs \in {"WAIT_SLEEP", "SLEEP"} => ~id.valid /\ ex = Bubble /\ pc_if = due

(* A single step is at most one instruction, whatever else happens meanwhile.  *)
StepsOne == stepped < 2

(* An event load that no interrupt or debug request breaks off is performed    *)
(* once: "we can go back to decode in case the IRQ is not taken (no ELW        *)
(* REPLAY)" (riscv_controller.sv:645).                                         *)
EventLoadOnce == performed < 2

-----------------------------------------------------------------------------
(* Types.                                                                      *)
TypeOK ==
    /\ ctrl_fsm_cs \in States /\ exc_ctrl_cs \in {"IDLE", "PENDING", "DONE"}
    /\ {jump_done_q, illegal_insn_q, debug_mode_q, instr_valid_irq_flush_q} \subseteq BOOLEAN
    /\ pc_if \in Addr /\ due \in Addr
    /\ id \in [valid : BOOLEAN, pc : Addr, class : AllClasses]
    /\ ex \in [op : {"none"} \cup StatusWrites \cup Branches, target : Addr]
    /\ csr \in [mie : BOOLEAN, mpie : BOOLEAN, mpp : {"M", "U"}, mepc : Addr,
               dpc : Addr, step : BOOLEAN, ebreakm : BOOLEAN]
    /\ irq \in BOOLEAN /\ debug_req \in BOOLEAN
    /\ performed \in 0..2 /\ stepped \in 0..2
=============================================================================
