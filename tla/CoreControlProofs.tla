------------------------- MODULE CoreControlProofs -------------------------
(* Why the core's control is right: the invariant that relates the state of    *)
(* the controller to what is in IF, ID and EX, kept by every state, and the    *)
(* refinement of the hart a program sees.                                      *)
EXTENDS CoreControl, TLAPS

-----------------------------------------------------------------------------
(* The invariant: which of IF, ID and EX may hold what, state by state.        *)
InFlush == ctrl_fsm_cs \in {"FLUSH_EX", "FLUSH_WB"}
Decoding == In("DECODE") /\ InstructionInId /\ ~branch_taken_ex

(* Debug mode and single step by state; a request is never forgotten.          *)
ModeByState ==
    /\ ctrl_fsm_cs \in {"RESET", "BOOT_SET", "FIRST_FETCH", "WAIT_SLEEP", "SLEEP",
                        "IRQ_FLUSH", "ELW_EXE", "IRQ_TAKEN_ID", "IRQ_TAKEN_IF",
                        "DBG_WAIT_BRANCH", "DBG_TAKEN_IF"} => ~debug_mode_q
    /\ ctrl_fsm_cs \in {"RESET", "BOOT_SET", "WAIT_SLEEP", "SLEEP", "ELW_EXE"} => ~csr.step
    /\ In("DBG_WAIT_BRANCH") => csr.step
    /\ csr.step => ~debug_req
    /\ irq_req => irq
    /\ exc_ctrl_cs = "DONE" => In("DECODE")
    /\ ctrl_fsm_cs \in {"IRQ_TAKEN_ID", "IRQ_TAKEN_IF"} => irq_req /\ csr.mie

(* What may still be in EX when the controller gets there.                     *)
ExByState ==
    /\ ex.op # "taken" => ex.target = 0
    /\ ex.op \in Branches => ctrl_fsm_cs \in {"DECODE", "DBG_WAIT_BRANCH"}
    /\ In("DBG_WAIT_BRANCH") => ex.op \in Branches
    /\ ex.op \in StatusWrites =>
          \/ ctrl_fsm_cs \in {"FLUSH_EX", "DBG_FLUSH", "DBG_TAKEN_ID", "DBG_TAKEN_IF"}
          \/ In("DECODE") /\ debug_mode_q
    /\ ex.op \in {"set_step", "clear_step"} => debug_mode_q

(* What is in ID: it stays there, though not valid, for the controller.        *)
IdByState ==
    /\ id.valid => In("DECODE")
    /\ Decoding \/ InFlush \/ In("IRQ_FLUSH") => Fits(id.class)
    /\ InFlush => id.class \in Traps \cup StatusWrites
                                 \cup {"ebreak", "wfi", "fencei", "mret", "dret"}
    /\ InFlush /\ Stepping => id.class \in Traps \cup {"ebreak", "mret"}
    /\ InFlush /\ id.class = "ebreak" => ~debug_mode_q
    /\ In("XRET_JUMP") => id.class = IF debug_mode_q THEN "dret" ELSE "mret"
    /\ In("DBG_WAIT_BRANCH") => id.class \in Branches
    /\ In("ELW_EXE") => id.class = "elw" /\ performed > 0
    /\ In("IRQ_FLUSH") => (irq_req /\ csr.mie) \/ (id.class = "elw" /\ performed > 0)
    /\ illegal_insn_q <=> InFlush /\ id.class = "illegal"
    /\ instr_valid_irq_flush_q =>
          In("DECODE") /\ ~id.valid /\ id.class = "elw" /\ performed > 0 /\ ex = Bubble
    /\ Decoding \/ ctrl_fsm_cs \in {"IRQ_FLUSH", "ELW_EXE"} =>
          (jump_done_q => id.class = "jump")

(* Where the instruction due is: in ID, with fetch behind it; in IF; or where  *)
(* the branch in EX goes.                                                      *)
DueInId == id.pc = due
FetchBehindId == pc_if = IF jump_done_q THEN Target(id.pc) ELSE After(id.pc)
DueInIf == pc_if = due

DueByState ==
    /\ branch_taken_ex => ex.target = due
    /\ ctrl_fsm_cs \in {"RESET", "BOOT_SET"} => due = Boot
    /\ ctrl_fsm_cs \in {"FIRST_FETCH", "WAIT_SLEEP", "SLEEP", "IRQ_TAKEN_IF", "DBG_TAKEN_IF"}
          => DueInIf
    /\ Decoding => DueInId /\ FetchBehindId
    /\ ctrl_fsm_cs \in {"IRQ_FLUSH", "ELW_EXE"} =>
          DueInId /\ (id.class = "elw" => pc_if = After(id.pc))
    /\ In("DECODE") /\ ~InstructionInId /\ ~branch_taken_ex => DueInIf
    /\ In("IRQ_TAKEN_ID") => DueInId
    /\ InFlush => IF id.class \in Traps \cup {"ebreak"} THEN due = TrapVector
                  ELSE IF id.class \in StatusWrites THEN DueInIf
                  ELSE DueInId /\ pc_if = After(id.pc)
    /\ In("XRET_JUMP") /\ ~debug_mode_q => due = csr.mepc
    /\ In("DBG_WAIT_BRANCH") /\ ~branch_taken_ex => DueInIf
    /\ In("DBG_FLUSH") /\ ~debug_mode_q =>
          IF id.class = "elw" \/ ~csr.step
          THEN DueInId /\ (debug_req \/ ForcedDebug(id.class)) ELSE DueInIf
    /\ In("DBG_TAKEN_ID") /\ ~debug_mode_q =>
          DueInId /\ (debug_req \/ ForcedDebug(id.class))

(* The step under way ends where the controller stops decoding.                *)
StepByState ==
    /\ stepped < 2
    /\ ~Stepping => stepped = 0
    /\ \/ ctrl_fsm_cs \in {"DECODE", "FIRST_FETCH", "IRQ_FLUSH", "IRQ_TAKEN_ID", "IRQ_TAKEN_IF"}
       \/ InFlush /\ id.class = "mret"
       => stepped = 0

ControlInv ==
    TypeOK /\ ModeByState /\ ExByState /\ IdByState /\ DueByState /\ StepByState

-----------------------------------------------------------------------------
(* The operators.                                                              *)

(* What the controller may put out: the outputs of an edge by their types.    *)
Outputs ==
    [next : States, decoding : BOOLEAN, halt_if : BOOLEAN, halt_id : BOOLEAN,
     pc_set : {{}} \cup {{a} : a \in Addr}, csr : {"keep", "trap", "debug", "mret"},
     save : Addr, ack : BOOLEAN, kill : BOOLEAN, jump_done : BOOLEAN, illegal : BOOLEAN,
     debug : BOOLEAN, replay : BOOLEAN]

(* Addresses wrap around: what follows an address, or a branch goes to, is an *)
(* address.                                                                   *)
LEMMA AddressesClosed ==
    /\ 0 \in Addr /\ {Boot, TrapVector, IrqVector, DebugVector} \subseteq Addr
    /\ \A a \in Addr : After(a) \in Addr /\ Target(a) \in Addr
  <1>1. \A n \in Nat : n % N \in 0 .. N - 1
    BY AddressAssumption
  <1> QED BY <1>1, AddressAssumption DEF Addr, After, Target

(* The two ways IF and ID move: the register keeps what it holds, valid or    *)
(* not, or loads what fetch delivers.                                         *)
Kept(in, o) ==
    /\ id' = [id EXCEPT !.valid = @ /\ ~(id_ready(in) \/ o.halt_id \/ branch_taken_ex)]
    /\ o.pc_set = {} => pc_if' = pc_if
    /\ \A a : o.pc_set = {a} => pc_if' = a

Loaded(in, o) ==
    /\ CanLoad(in, o)
    /\ \E c \in Classes : Allowed(c) /\ id' = [valid |-> TRUE, pc |-> pc_if, class |-> c]
    /\ pc_if' = After(pc_if)

(* Every edge moves IF and ID in one of the two ways (the IF/ID register of   *)
(* riscv_if_stage.sv).                                                        *)
LEMMA FetchStep ==
    ASSUME NEW in, NEW o, Edge(in, o)
    PROVE  Kept(in, o) \/ Loaded(in, o)
  <1>1. PICK fetched \in IF CanLoad(in, o)
                      THEN {{}} \cup {{c} : c \in {k \in Classes : Allowed(k)}} ELSE {{}} :
            id' = NextId(in, o, fetched) /\ pc_if' = NextPcIf(o, fetched)
    BY DEF Edge
  <1>2. \A a : (CHOOSE x \in {a} : TRUE) = a
    OBVIOUS
  <1>3. CASE fetched = {}
    BY <1>1, <1>2, <1>3, Zenon DEF NextId, NextPcIf, Kept
  <1>4. CASE fetched # {}
    <2>1. PICK c \in Classes : Allowed(c) /\ fetched = {c} /\ CanLoad(in, o)
      BY <1>1, <1>4, Zenon
    <2>2. o.pc_set = {}
      BY <2>1 DEF CanLoad
    <2>3. (CHOOSE x \in fetched : TRUE) = c
      BY <2>1, <1>2
    <2>4. id' = [valid |-> TRUE, pc |-> pc_if, class |-> c] /\ pc_if' = After(pc_if)
      BY <1>1, <1>4, <2>1, <2>2, <2>3, Zenon DEF NextId, NextPcIf
    <2> QED BY <2>1, <2>4, Zenon DEF Loaded
  <1> QED BY <1>3, <1>4

(* An instruction that is loaded into ID is valid, at the address of fetch,   *)
(* and of a class the program may hold.                                       *)
LEMMA LoadedId ==
    ASSUME NEW in, NEW o, Loaded(in, o)
    PROVE  id'.valid /\ id'.pc = pc_if /\ id'.class \in Classes /\ Allowed(id'.class)
  <1>1. PICK c \in Classes : Allowed(c) /\ id' = [valid |-> TRUE, pc |-> pc_if, class |-> c]
    BY DEF Loaded
  <1>2. id'.valid /\ id'.pc = pc_if /\ id'.class = c
    BY <1>1
  <1> QED BY <1>1, <1>2

(* The control and status registers, by their types.                          *)
CsrType == [mie : BOOLEAN, mpie : BOOLEAN, mpp : {"M", "U"}, mepc : Addr,
            dpc : Addr, step : BOOLEAN, ebreakm : BOOLEAN]

(* The four updates of the registers keep their types.                        *)
LEMMA CsrUpdates ==
    ASSUME NEW c \in CsrType, NEW a \in Addr, NEW b \in BOOLEAN
    PROVE  /\ [c EXCEPT !.mie = b] \in CsrType /\ [c EXCEPT !.step = b] \in CsrType
           /\ [c EXCEPT !.mepc = a, !.mpie = b, !.mie = FALSE, !.mpp = "M"] \in CsrType
           /\ [c EXCEPT !.dpc = a] \in CsrType
           /\ [c EXCEPT !.mie = b, !.mpie = TRUE, !.mpp = "U"] \in CsrType
  <1>1. CASE b = TRUE
    BY <1>1 DEF CsrType
  <1>2. CASE b = FALSE
    BY <1>2 DEF CsrType
  <1> QED BY <1>1, <1>2

(* What an edge does to the registers, whatever the controller asks of them:  *)
(* dcsr.step changes by a write in EX alone, and ebreakm not at all           *)
(* (riscv_cs_registers.sv).                                                   *)
LEMMA CsrStep ==
    ASSUME TypeOK, NEW in \in Inputs, NEW o \in Outputs, Edge(in, o)
    PROVE  /\ csr' \in CsrType
           /\ csr'.step = IF ex.op \in {"set_step", "clear_step"} THEN ex.op = "set_step"
                          ELSE csr.step
           /\ csr'.ebreakm = csr.ebreakm
           /\ o.csr = "keep" => csr' = Written
           /\ o.csr = "mret" => csr'.mepc = csr.mepc
  <1>1. csr \in CsrType
    BY DEF TypeOK, CsrType
  <1>2. /\ Written \in CsrType
        /\ Written.step = IF ex.op \in {"set_step", "clear_step"} THEN ex.op = "set_step"
                          ELSE csr.step
        /\ Written.ebreakm = csr.ebreakm /\ Written.mepc = csr.mepc
    BY <1>1 DEF Written, CsrType
  <1>3. o.csr \in {"keep", "trap", "debug", "mret"} /\ o.save \in Addr
    BY DEF Outputs
  <1>4. csr.mie \in BOOLEAN /\ csr.mpie \in BOOLEAN
    BY <1>1 DEF CsrType
  <1>5. csr' = NextCsr(o)
    BY DEF Edge
  <1>6. CASE o.csr = "keep"
    BY <1>2, <1>5, <1>6 DEF NextCsr
  <1>7. CASE o.csr = "trap"
    <2>1. csr' = [Written EXCEPT !.mepc = o.save, !.mpie = csr.mie, !.mie = FALSE, !.mpp = "M"]
      BY <1>5, <1>7 DEF NextCsr
    <2>2. csr' \in CsrType
      BY <2>1, <1>2, <1>3, <1>4, CsrUpdates
    <2>3. csr'.step = Written.step /\ csr'.ebreakm = Written.ebreakm
      BY <2>1, <1>2 DEF CsrType
    <2> QED BY <1>2, <1>7, <2>2, <2>3
  <1>8. CASE o.csr = "debug"
    <2>1. csr' = [Written EXCEPT !.dpc = o.save]
      BY <1>5, <1>8 DEF NextCsr
    <2>2. csr' \in CsrType
      BY <2>1, <1>2, <1>3, <1>4, CsrUpdates
    <2>3. csr'.step = Written.step /\ csr'.ebreakm = Written.ebreakm
      BY <2>1, <1>2 DEF CsrType
    <2> QED BY <1>2, <1>8, <2>2, <2>3
  <1>9. CASE o.csr = "mret"
    <2>1. csr' = [Written EXCEPT !.mie = csr.mpie, !.mpie = TRUE, !.mpp = "U"]
      BY <1>5, <1>9 DEF NextCsr
    <2>2. csr' \in CsrType
      BY <2>1, <1>2, <1>3, <1>4, CsrUpdates
    <2>3. csr'.step = Written.step /\ csr'.ebreakm = Written.ebreakm /\ csr'.mepc = Written.mepc
      BY <2>1, <1>2 DEF CsrType
    <2> QED BY <1>2, <1>9, <2>2, <2>3
  <1> QED BY <1>3, <1>6, <1>7, <1>8, <1>9

(* The default outputs of the controller are well typed.                      *)
LEMMA QuietType == ASSUME TypeOK PROVE Quiet \in Outputs
  BY AddressesClosed DEF TypeOK, Quiet, Outputs

(* Halting, leaving for a state and setting the pc keep the outputs well      *)
(* typed.                                                                     *)
LEMMA Setters ==
    ASSUME NEW o \in Outputs
    PROVE  /\ Halt(o) \in Outputs
           /\ \A s \in States : GoTo(o, s) \in Outputs
           /\ \A a \in Addr : SetPc(o, a) \in Outputs
  BY DEF Halt, GoTo, SetPc, Outputs

(* So do the assignments the states make to single outputs.                   *)
LEMMA Loaders ==
    ASSUME NEW o \in Outputs
    PROVE  /\ [o EXCEPT !.kill = TRUE, !.replay = TRUE] \in Outputs
           /\ [o EXCEPT !.illegal = FALSE] \in Outputs
           /\ [o EXCEPT !.debug = FALSE] \in Outputs
           /\ [o EXCEPT !.csr = "mret"] \in Outputs
           /\ [o EXCEPT !.csr = "keep"] \in Outputs
           /\ [o EXCEPT !.halt_if = TRUE] \in Outputs
           /\ [o EXCEPT !.decoding = TRUE] \in Outputs
           /\ [o EXCEPT !.jump_done = TRUE] \in Outputs
           /\ \A a \in Addr : [o EXCEPT !.csr = "trap", !.save = a, !.ack = TRUE] \in Outputs
           /\ \A a \in Addr : [o EXCEPT !.csr = "debug", !.save = a, !.debug = TRUE] \in Outputs
           /\ \A s \in {{}} \cup {{a} : a \in Addr} :
                 [o EXCEPT !.halt_if = TRUE, !.pc_set = s] \in Outputs
  BY DEF Outputs

(* A clock edge with well-typed outputs keeps the state well typed.           *)
LEMMA EdgeType ==
    ASSUME TypeOK, NEW in \in Inputs, NEW o \in Outputs, Edge(in, o)
    PROVE  TypeOK'
  <1> USE AddressesClosed
  <1>1. pc_if' \in Addr /\ id' \in [valid : BOOLEAN, pc : Addr, class : AllClasses]
    <2>1. CASE Kept(in, o)
      <3>1. o.pc_set \in {{}} \cup {{a} : a \in Addr} /\ pc_if \in Addr
        BY DEF Outputs, TypeOK
      <3>2. pc_if' \in Addr
        BY <2>1, <3>1, Zenon DEF Kept
      <3>3. id' = [id EXCEPT !.valid = @ /\ ~(id_ready(in) \/ o.halt_id \/ branch_taken_ex)]
        BY <2>1 DEF Kept
      <3> QED BY <3>2, <3>3 DEF TypeOK
    <2>2. CASE Loaded(in, o)
      BY <2>2, ProgramAssumption DEF Loaded, TypeOK
    <2> QED BY FetchStep, <2>1, <2>2
  <1>2. ctrl_fsm_cs' \in States /\ exc_ctrl_cs' \in {"IDLE", "PENDING", "DONE"}
    BY DEF Edge, NextExcCtrl, Outputs
  <1>3. {jump_done_q, illegal_insn_q, debug_mode_q, instr_valid_irq_flush_q}' \subseteq BOOLEAN
    BY DEF Edge, Outputs
  <1>4. due' \in Addr
    BY DEF Edge, NextDue, Outputs, TypeOK
  <1>5. ex' \in [op : {"none"} \cup StatusWrites \cup Branches, target : Addr]
    BY DEF Edge, NextEx, Operation, Bubble, Outputs, TypeOK, StatusWrites, Branches
  <1>6. csr' \in [mie : BOOLEAN, mpie : BOOLEAN, mpp : {"M", "U"}, mepc : Addr,
               dpc : Addr, step : BOOLEAN, ebreakm : BOOLEAN]
    BY CsrStep DEF CsrType
  <1>7. irq' \in BOOLEAN /\ debug_req' \in BOOLEAN
    BY DEF Edge, NextIrq, NextDebugReq
  <1>8. performed' \in 0..2 /\ stepped' \in 0..2
    BY DEF Edge, NextPerformed, NextStepped, Counted, TypeOK
  <1> QED BY <1>1, <1>2, <1>3, <1>4, <1>5, <1>6, <1>7, <1>8 DEF TypeOK

-----------------------------------------------------------------------------
(* What an edge leaves alone, and what its registers load.                    *)

(* Outside FIRST_FETCH and DECODE nothing is loaded into ID, fetch moves only *)
(* when it is set, and what is in EX drains.                                  *)
LEMMA OutsideFetch ==
    ASSUME ControlInv, NEW in \in Inputs, NEW o \in Outputs, Edge(in, o), ~Fetching,
           ~o.decoding
    PROVE  /\ id' = id /\ ~id.valid
           /\ o.pc_set = {} => pc_if' = pc_if
           /\ \A a : o.pc_set = {a} => pc_if' = a
           /\ ex' = IF ex_ready(in) THEN Bubble ELSE ex
  <1>1. ~id.valid /\ id = [id EXCEPT !.valid = FALSE]
    BY DEF ControlInv, IdByState, In, Fetching, TypeOK
  <1>2. ~CanLoad(in, o)
    BY DEF CanLoad
  <1>3. Kept(in, o)
    BY <1>2, FetchStep DEF Loaded
  <1>4. id' = id
    BY <1>1, <1>3 DEF ControlInv, TypeOK, Kept
  <1>5. ex' = IF ex_ready(in) THEN Bubble ELSE ex
    BY DEF Edge, NextEx, Issues
  <1> QED BY <1>1, <1>3, <1>4, <1>5 DEF Kept

(* wfi or fence.i about to take effect in FLUSH_WB.                           *)
Waiting == id.class \in Waits /\ In("FLUSH_WB") /\ ~illegal_insn_q

(* In a state that neither decodes nor enters a trap or debug mode, no        *)
(* instruction takes effect and no counter of the monitors moves.             *)
LEMMA NothingHappens ==
    ASSUME ControlInv, NEW in \in Inputs, NEW o \in Outputs, Edge(in, o), ~Fetching,
           ~o.decoding,
           ~EntersDebug, o.csr = "keep", o.debug = debug_mode_q, ~Waiting
    PROVE  /\ due' = due /\ csr' = Written
           /\ performed' = performed
           /\ stepped' = stepped
  <1>1. ~Completes(in, o) /\ ~Issues(in, o)
    BY DEF Completes, Issues, ReplayGivenUp, Fetching, Waiting, In
  <1>2. stepped' = stepped
    BY <1>1 DEF Edge, NextStepped, ControlInv, StepByState
  <1> QED BY <1>1, <1>2, CsrStep DEF Edge, NextDue, NextPerformed, ControlInv

(* The interrupt controller and the request lines: a pending request has its  *)
(* line up, is held until it is answered or killed, and is answered only on   *)
(* the way to DECODE; no halt is requested while the debugger steps.          *)
LEMMA Requests ==
    ASSUME ~IrqWithdrawn, ControlInv, NEW in \in Inputs, NEW o \in Outputs, Edge(in, o),
           o.ack => irq_req /\ o.next = "DECODE",
           ex.op = "set_step" => o.debug
    PROVE  /\ irq_req' => irq'
           /\ csr'.step => ~debug_req'
           /\ exc_ctrl_cs' = "DONE" => In("DECODE")'
           /\ irq_req /\ ~o.ack /\ ~o.kill => irq_req'
           /\ debug_req /\ ~o.debug /\ ~csr.step => debug_req'
  <1>1. ctrl_fsm_cs' = o.next /\ exc_ctrl_cs' = NextExcCtrl(o) /\ NextIrq(o) /\ NextDebugReq(o)
    BY DEF Edge
  <1>2. irq_req => irq
    BY DEF ControlInv, ModeByState
  <1>3. irq' \in BOOLEAN /\ (irq /\ ~o.ack => irq')
    BY <1>1 DEF NextIrq
  <1>4. exc_ctrl_cs' = IF irq_req /\ o.ack THEN "DONE"
          ELSE IF (irq_req /\ ~o.kill) \/ (exc_ctrl_cs = "IDLE" /\ csr.mie /\ irq) THEN "PENDING"
          ELSE "IDLE"
    BY <1>1 DEF NextExcCtrl
  <1>5. csr'.step => csr.step \/ ex.op = "set_step"
    BY CsrStep DEF ControlInv
  <1>6. /\ o.debug \/ csr.step => ~debug_req'
        /\ debug_req /\ ~o.debug /\ ~csr.step => debug_req'
    BY <1>1 DEF NextDebugReq
  <1> QED BY <1>1, <1>2, <1>3, <1>4, <1>5, <1>6 DEF irq_req, In

(* What the controller's registers load on an edge, and what the requests do  *)
(* meanwhile: the part of a step that is alike in every state.                *)
Latched(in, o) ==
    /\ ctrl_fsm_cs' = o.next /\ illegal_insn_q' = o.illegal /\ debug_mode_q' = o.debug
    /\ instr_valid_irq_flush_q' = o.replay
    /\ jump_done_q' = (o.jump_done /\ ~id_ready(in))
    /\ csr'.step = IF ex.op \in {"set_step", "clear_step"} THEN ex.op = "set_step" ELSE csr.step
    /\ csr'.ebreakm = csr.ebreakm /\ (~debug_mode_q => csr'.step = csr.step)
    /\ irq_req' => irq'
    /\ csr'.step => ~debug_req'
    /\ exc_ctrl_cs' = "DONE" => In("DECODE")'
    /\ irq_req /\ ~o.ack /\ ~o.kill => irq_req'
    /\ debug_req /\ ~o.debug /\ ~csr.step => debug_req'

(* Every edge loads the registers so, if an answer is given only to a pending *)
(* request and a write of dcsr.step is in EX in debug mode only.              *)
LEMMA Clocked ==
    ASSUME ~IrqWithdrawn, ControlInv, NEW in \in Inputs, NEW o \in Outputs, Edge(in, o),
           o.ack => irq_req /\ o.next = "DECODE",
           ex.op = "set_step" => o.debug
    PROVE  TypeOK' /\ Latched(in, o)
  <1>1. TypeOK
    BY DEF ControlInv
  <1>2. TypeOK'
    BY <1>1, EdgeType
  <1>3. /\ csr'.step = IF ex.op \in {"set_step", "clear_step"} THEN ex.op = "set_step"
                       ELSE csr.step
        /\ csr'.ebreakm = csr.ebreakm
    BY <1>1, CsrStep
  <1>4. ~debug_mode_q => csr'.step = csr.step
    BY <1>3 DEF ControlInv, ExByState
  <1>5. /\ irq_req' => irq'
        /\ csr'.step => ~debug_req'
        /\ exc_ctrl_cs' = "DONE" => In("DECODE")'
        /\ irq_req /\ ~o.ack /\ ~o.kill => irq_req'
        /\ debug_req /\ ~o.debug /\ ~csr.step => debug_req'
    BY Requests
  <1>6. /\ ctrl_fsm_cs' = o.next /\ illegal_insn_q' = o.illegal /\ debug_mode_q' = o.debug
        /\ instr_valid_irq_flush_q' = o.replay
        /\ jump_done_q' = (o.jump_done /\ ~id_ready(in))
    BY DEF Edge
  <1> QED BY <1>2, <1>3, <1>4, <1>5, <1>6, Zenon DEF Latched

(* In the states where the pipeline is drained, EX holds nothing that will    *)
(* still write a register.                                                    *)
LEMMA NothingInEx ==
    ASSUME ControlInv,
           ctrl_fsm_cs \in {"RESET", "BOOT_SET", "FIRST_FETCH", "WAIT_SLEEP", "SLEEP", "FLUSH_WB",
                            "XRET_JUMP", "IRQ_FLUSH", "ELW_EXE", "IRQ_TAKEN_ID", "IRQ_TAKEN_IF"}
    PROVE  ex = Bubble /\ Written = csr
  <1>1. ex \in [op : {"none"} \cup StatusWrites \cup Branches, target : Addr]
    BY DEF ControlInv, TypeOK
  <1>2. ex.op = "none" /\ ex.target = 0
    BY <1>1 DEF ControlInv, ExByState, In, StatusWrites, Branches
  <1> QED BY <1>1, <1>2 DEF Bubble, Operation, Written

(* Where nothing can be loaded, the instruction stays in ID; it may lose its  *)
(* valid bit.                                                                 *)
LEMMA StaysInId ==
    ASSUME TypeOK, NEW in \in Inputs, NEW o \in Outputs, Edge(in, o), ~CanLoad(in, o)
    PROVE  /\ id'.pc = id.pc /\ id'.class = id.class
           /\ id'.valid <=> id.valid /\ ~(id_ready(in) \/ o.halt_id \/ branch_taken_ex)
           /\ o.pc_set = {} => pc_if' = pc_if
           /\ \A a : o.pc_set = {a} => pc_if' = a
  <1>1. Kept(in, o)
    BY FetchStep DEF Loaded
  <1>2. id' = [id EXCEPT !.valid = @ /\ ~(id_ready(in) \/ o.halt_id \/ branch_taken_ex)]
    BY <1>1 DEF Kept
  <1>3. /\ id'.pc = id.pc /\ id'.class = id.class
        /\ id'.valid <=> id.valid /\ ~(id_ready(in) \/ o.halt_id \/ branch_taken_ex)
    BY <1>2 DEF TypeOK
  <1> QED BY <1>1, <1>3 DEF Kept

(* Outside debug mode, no write of a status register is in EX while the       *)
(* controller decodes: FLUSH_EX has waited for it.                            *)
LEMMA NoWriteInEx ==
    ASSUME ControlInv, In("DECODE"), ~debug_mode_q, ~branch_taken_ex
    PROVE  ex.op \in {"none", "untaken"} /\ ex.target = 0 /\ Written = csr
  BY DEF ControlInv, TypeOK, ExByState, In, StatusWrites, Branches, Written, branch_taken_ex

-----------------------------------------------------------------------------
(* What DECODE puts out.                                                      *)

(* The controller decodes the instruction in ID, and no request breaks in.    *)
Undisturbed ==
    /\ In("DECODE") /\ InstructionInId /\ ~branch_taken_ex
    /\ ~debug_mode_q => ~debug_req /\ ~(irq_req /\ csr.mie)

(* The classes that leave ID for the EX stage.                                *)
Executed == {"plain", "jump", "elw"} \cup StatusWrites \cup Branches

(* The outputs of DECODE are well typed.                                      *)
LEMMA DecodedType ==
    ASSUME TypeOK, NEW in \in Inputs
    PROVE  Decoded(in) \in Outputs /\ Stepped(in) \in Outputs
  <1> DEFINE o == [Quiet EXCEPT !.decoding = TRUE, !.kill = irq_req]
  <1>1. o \in Outputs
    BY QuietType DEF Outputs, irq_req
  <1>2. id.pc \in Addr /\ Target(id.pc) \in Addr
    BY AddressesClosed DEF TypeOK
  <1>3. [SaveId(o) EXCEPT !.illegal = @ \/ id.class = "illegal"] \in Outputs
    BY <1>1, <1>2 DEF SaveId, Halt, Outputs, States
  <1>4. [SetPc(o, Target(id.pc)) EXCEPT !.jump_done = TRUE] \in Outputs
    BY <1>1, <1>2, Setters, Loaders
  <1>5. \A s \in States : [o EXCEPT !.halt_if = TRUE,
                                    !.next = IF id_ready(in) THEN s ELSE @] \in Outputs
    BY <1>1 DEF Outputs
  <1>6. GoTo(Halt(o), "DBG_FLUSH") \in Outputs /\ GoTo(Halt(o), "FLUSH_EX") \in Outputs
    BY <1>1, Setters DEF States
  <1>7. {"FLUSH_EX", "ELW_EXE", "DBG_FLUSH", "DBG_WAIT_BRANCH"} \subseteq States
    BY DEF States
  <1>8. Decoded(in) \in Outputs
    <2> HIDE DEF o
    <2> QED BY <1>1, <1>3, <1>4, <1>5, <1>6, <1>7, Zenon DEF Decoded, o
  <1>9. [Decoded(in) EXCEPT !.halt_if = TRUE] \in Outputs
    BY <1>8, Loaders
  <1> QED BY <1>7, <1>8, <1>9, Setters DEF Stepped, AfterStep

(* A jump whose target is known sets the pc, once.                            *)
Jumps(in) == id.class = "jump" /\ ~in.jr /\ ~jump_done_q

(* The outputs for an instruction that goes to EX (riscv_controller.sv:464):  *)
(* where the controller goes next, whether fetch is halted, and that nothing  *)
(* is saved.                                                                  *)
LEMMA DecodedExecuted ==
    ASSUME NEW in, Undisturbed, id.class \in Executed
    PROVE  /\ Decoded(in).next = IF ~id_ready(in) THEN "DECODE"
                                 ELSE IF id.class \in StatusWrites THEN "FLUSH_EX"
                                 ELSE IF id.class = "elw" THEN "ELW_EXE" ELSE "DECODE"
           /\ Decoded(in).decoding /\ ~Decoded(in).halt_id
           /\ Decoded(in).halt_if <=> id.class \in StatusWrites \cup {"elw"}
           /\ Decoded(in).csr = "keep" /\ ~Decoded(in).ack
           /\ Decoded(in).pc_set = IF Jumps(in) THEN {Target(id.pc)} ELSE {}
           /\ Decoded(in).jump_done = IF Jumps(in) THEN TRUE ELSE jump_done_q
           /\ Decoded(in).illegal = illegal_insn_q /\ Decoded(in).debug = debug_mode_q
           /\ Decoded(in).replay = FALSE
  <1>1. /\ ~IsTrap(id.class) /\ id.class # "ebreak"
        /\ id.class \notin {"wfi", "fencei", "mret", "dret"}
    BY DEF Executed, IsTrap, Traps, StatusWrites, Branches
  <1>2. ctrl_fsm_cs = "DECODE"
    BY DEF Undisturbed, In
  <1>3. CASE id.class \in StatusWrites
    <2>1. id.class # "elw" /\ id.class # "jump"
      BY <1>3 DEF StatusWrites
    <2>2. Decoded(in) = [[Quiet EXCEPT !.decoding = TRUE, !.kill = irq_req]
                            EXCEPT !.halt_if = TRUE,
                                    !.next = IF id_ready(in) THEN "FLUSH_EX" ELSE @]
      BY <1>1, <1>3 DEF Decoded
    <2> QED BY ONLY <1>2, <1>3, <2>1, <2>2, SMTT(20) DEF Quiet, Jumps
  <1>4. CASE id.class = "elw"
    <2>1. id.class \notin StatusWrites
      BY <1>4 DEF StatusWrites
    <2>2. Decoded(in) = [[Quiet EXCEPT !.decoding = TRUE, !.kill = irq_req]
                            EXCEPT !.halt_if = TRUE,
                                    !.next = IF id_ready(in) THEN "ELW_EXE" ELSE @]
      BY <1>1, <1>4, <2>1 DEF Decoded
    <2> QED BY ONLY <1>2, <1>4, <2>1, <2>2, SMTT(20) DEF Quiet, Jumps
  <1>5. CASE Jumps(in)
    <2>1. id.class \notin StatusWrites /\ id.class # "elw"
      BY <1>5 DEF StatusWrites, Jumps
    <2>2. Decoded(in) = [SetPc([Quiet EXCEPT !.decoding = TRUE, !.kill = irq_req], Target(id.pc))
                            EXCEPT !.jump_done = TRUE]
      BY <1>1, <1>5, <2>1 DEF Decoded, Jumps
    <2> QED BY ONLY <1>2, <1>5, <2>1, <2>2, SMTT(20) DEF Quiet, SetPc
  <1>6. CASE id.class \notin StatusWrites /\ id.class # "elw" /\ ~Jumps(in)
    <2>1. Decoded(in) = [Quiet EXCEPT !.decoding = TRUE, !.kill = irq_req]
      BY <1>1, <1>6 DEF Decoded, Jumps
    <2> QED BY ONLY <1>2, <1>6, <2>1, SMTT(20) DEF Quiet
  <1> QED BY <1>3, <1>4, <1>5, <1>6

(* Single step halts fetch and replaces the next state, and no other output   *)
(* (riscv_controller.sv:554).                                                 *)
LEMMA SteppedKeeps ==
    ASSUME TypeOK, NEW in \in Inputs
    PROVE  LET s == Stepped(in)  d == Decoded(in)
           IN  /\ s.next = IF id_ready(in) THEN AfterStep(id.class) ELSE d.next
               /\ s.decoding = d.decoding /\ s.halt_if /\ s.halt_id = d.halt_id
               /\ s.pc_set = d.pc_set /\ s.csr = d.csr /\ s.ack = d.ack
               /\ s.jump_done = d.jump_done /\ s.illegal = d.illegal /\ s.debug = d.debug
               /\ s.replay = d.replay
  <1> DEFINE d == Decoded(in)
  <1>1. d \in Outputs
    BY DecodedType
  <1>2. Stepped(in) = IF id_ready(in)
                      THEN [[d EXCEPT !.halt_if = TRUE] EXCEPT !.next = AfterStep(id.class)]
                      ELSE [d EXCEPT !.halt_if = TRUE]
    BY DEF Stepped, GoTo
  <1> HIDE DEF d
  <1> QED BY <1>1, <1>2 DEF Outputs, d

(* Both together: the outputs of DECODE for an instruction that goes to EX.   *)
LEMMA DecodeExecuted ==
    ASSUME TypeOK, NEW in \in Inputs, Undisturbed, id.class \in Executed
    PROVE  LET o == Decode(in)
           IN  /\ o.next = IF ~id_ready(in) THEN "DECODE"
                           ELSE IF Stepping THEN AfterStep(id.class)
                           ELSE IF id.class \in StatusWrites THEN "FLUSH_EX"
                           ELSE IF id.class = "elw" THEN "ELW_EXE" ELSE "DECODE"
               /\ o.decoding /\ ~o.halt_id
               /\ o.halt_if <=> Stepping \/ id.class \in StatusWrites \cup {"elw"}
               /\ o.csr = "keep" /\ ~o.ack
               /\ o.pc_set = IF Jumps(in) THEN {Target(id.pc)} ELSE {}
               /\ o.jump_done = IF Jumps(in) THEN TRUE ELSE jump_done_q
               /\ o.illegal = illegal_insn_q /\ o.debug = debug_mode_q /\ o.replay = FALSE
  <1>1. Decode(in) = IF Stepping THEN Stepped(in) ELSE Decoded(in)
    BY DEF Decode, Undisturbed
  <1>2. CASE Stepping
    <2>1. Decode(in) = Stepped(in)
      BY <1>1, <1>2
    <2>2. /\ Decode(in).next = IF id_ready(in) THEN AfterStep(id.class) ELSE Decoded(in).next
          /\ Decode(in).decoding = Decoded(in).decoding /\ Decode(in).halt_if
          /\ Decode(in).halt_id = Decoded(in).halt_id
          /\ Decode(in).pc_set = Decoded(in).pc_set /\ Decode(in).csr = Decoded(in).csr
          /\ Decode(in).ack = Decoded(in).ack /\ Decode(in).jump_done = Decoded(in).jump_done
          /\ Decode(in).illegal = Decoded(in).illegal /\ Decode(in).debug = Decoded(in).debug
          /\ Decode(in).replay = Decoded(in).replay
      BY <2>1, SteppedKeeps
    <2>3. /\ ~id_ready(in) => Decoded(in).next = "DECODE"
          /\ Decoded(in).decoding /\ ~Decoded(in).halt_id
          /\ Decoded(in).csr = "keep" /\ ~Decoded(in).ack
          /\ Decoded(in).pc_set = IF Jumps(in) THEN {Target(id.pc)} ELSE {}
          /\ Decoded(in).jump_done = IF Jumps(in) THEN TRUE ELSE jump_done_q
          /\ Decoded(in).illegal = illegal_insn_q /\ Decoded(in).debug = debug_mode_q
          /\ Decoded(in).replay = FALSE
      BY DecodedExecuted
    <2> HIDE <2>1
    <2> QED BY ONLY <1>2, <2>2, <2>3
  <1>3. CASE ~Stepping
    <2>1. Decode(in) = Decoded(in)
      BY <1>1, <1>3
    <2> QED BY <1>3, <2>1, DecodedExecuted
  <1> QED BY <1>2, <1>3

(* The outputs of every other state are well typed.                           *)
LEMMA ControllerOutputs ==
    ASSUME TypeOK, NEW in \in Inputs
    PROVE  /\ \A state \in States :
                 GoTo(Quiet, state) \in Outputs /\ GoTo(Halted, state) \in Outputs
           /\ BootSet \in Outputs /\ FirstFetch(in) \in Outputs
           /\ FlushEx(in) \in Outputs /\ FlushWb \in Outputs /\ XretJump \in Outputs
           /\ Asleep \in Outputs /\ IrqFlush \in Outputs /\ ElwExe(in) \in Outputs
           /\ IrqTaken(id.pc) \in Outputs /\ IrqTaken(pc_if) \in Outputs
           /\ DbgWaitBranch \in Outputs /\ DbgFlush \in Outputs
           /\ DbgTakenId \in Outputs /\ EnterDebug(pc_if) \in Outputs
  <1>1. Quiet \in Outputs /\ Halted \in Outputs
    BY QuietType, Setters DEF Halted
  <1>2. \A state \in States : GoTo(Quiet, state) \in Outputs /\ GoTo(Halted, state) \in Outputs
    BY <1>1, Setters
  <1>3. BootSet \in Outputs /\ FirstFetch(in) \in Outputs
    BY <1>1, <1>2, Setters, AddressesClosed DEF BootSet, FirstFetch, States
  <1>4. FlushEx(in) \in Outputs /\ Asleep \in Outputs
        /\ ElwExe(in) \in Outputs /\ DbgFlush \in Outputs
    BY <1>1, <1>2 DEF FlushEx, Asleep, ElwExe, DbgFlush, States
  <1>5. FlushWb \in Outputs
    BY <1>1, <1>2, Setters, Loaders, AddressesClosed DEF FlushWb, States, TypeOK
  <1>6. XretJump \in Outputs
    BY <1>1, <1>2, Setters, Loaders DEF XretJump, States, TypeOK, CsrType
  <1>7. IrqFlush \in Outputs
    BY <1>1, <1>2, Loaders DEF IrqFlush, States
  <1>8. IrqTaken(id.pc) \in Outputs /\ IrqTaken(pc_if) \in Outputs
    BY <1>1, Setters, Loaders, AddressesClosed DEF IrqTaken, States, TypeOK
  <1>9. DbgWaitBranch \in Outputs
    BY <1>1, <1>2, Loaders DEF DbgWaitBranch, States, TypeOK
  <1>10. DbgTakenId \in Outputs /\ EnterDebug(pc_if) \in Outputs
    BY <1>1, Setters, Loaders, AddressesClosed DEF DbgTakenId, EnterDebug, States, TypeOK
  <1> QED BY <1>2, <1>3, <1>4, <1>5, <1>6, <1>7, <1>8, <1>9, <1>10

(* From here on the invariant's top and the small state predicates are        *)
(* expanded everywhere.                                                       *)
USE DEF ControlInv, Latched, In, InFlush, Decoding, InstructionInId, Stepping,
        ForcedDebug, Bubble, Operation

-----------------------------------------------------------------------------
(* Each state keeps the invariant.                                            *)

(* FLUSH_EX waits for EX, whose write of a status register happens meanwhile; *)
(* fetch stays behind the instruction.                                        *)
LEMMA FlushExStep ==
    ASSUME ~IrqWithdrawn, ControlInv, NEW in \in Inputs, In("FLUSH_EX"), Edge(in,
           FlushEx(in))
    PROVE  ControlInv'
  <1> DEFINE o == FlushEx(in)
  <1>1. o \in Outputs
    BY ControllerOutputs DEF States
  <1>2. /\ o.next = (IF in.ready THEN "FLUSH_WB" ELSE "FLUSH_EX")
        /\ ~o.decoding /\ o.pc_set = {} /\ o.csr = "keep"
        /\ ~o.ack /\ ~o.kill /\ o.jump_done = jump_done_q /\ o.illegal = illegal_insn_q
        /\ o.debug = debug_mode_q /\ o.replay = FALSE
    BY DEF FlushEx, Halted, GoTo, Halt, Quiet
  <1>3. Edge(in, o)
    OBVIOUS
  <1> HIDE DEF o
  <1>4. /\ ~Fetching /\ ~EntersDebug /\ ~Waiting
        /\ ex.op = "set_step" => o.debug
        /\ o.ack => irq_req /\ o.next = "DECODE"
        /\ ex_ready(in) <=> in.ready
    BY <1>2
       DEF Fetching, EntersDebug, Waiting, ExByState, ModeByState, StatusWrites,
           Branches, ex_ready, branch_in_ex
  <1>5. due' = due /\ csr' = Written /\ performed' = performed /\ stepped' = stepped
    BY <1>1, <1>2, <1>3, <1>4, NothingHappens
  <1>6. /\ TypeOK' /\ Latched(in, o) /\ id' = id /\ ~id.valid
        /\ o.pc_set = {} => pc_if' = pc_if
        /\ \A a : o.pc_set = {a} => pc_if' = a
        /\ ex' = IF in.ready THEN Bubble ELSE ex
    BY <1>1, <1>2, <1>3, <1>4, Clocked, OutsideFetch
  <1>7. jump_done_q' => o.jump_done
    BY <1>6
  <1>8. ModeByState'
    BY <1>2, <1>5, <1>6, SMTT(30) DEF ModeByState
  <1>9. ExByState'
    BY <1>2, <1>6 DEF ExByState, Branches, StatusWrites
  <1>10. IdByState'
    BY <1>2, <1>5, <1>6, <1>7, SMTT(30) DEF ModeByState, IdByState, ExByState, Fits
  <1>11. DueByState'
    BY <1>2, <1>5, <1>6, <1>7, SMTT(30)
       DEF ModeByState, DueByState, ExByState, DueInIf, DueInId, FetchBehindId,
           branch_taken_ex, Branches
  <1>12. StepByState'
    BY <1>2, <1>5, <1>6, SMTT(30) DEF ModeByState, StepByState, ExByState
  <1> QED BY <1>6, <1>8, <1>9, <1>10, <1>11, <1>12

(* WAIT_SLEEP: the core stays drained on its way to SLEEP.                    *)
LEMMA WaitSleepStep ==
    ASSUME ~IrqWithdrawn, ControlInv, NEW in \in Inputs, In("WAIT_SLEEP"), Edge(in,
           GoTo(Halted, "SLEEP"))
    PROVE  ControlInv'
  <1> DEFINE o == GoTo(Halted, "SLEEP")
  <1>1. o \in Outputs
    BY ControllerOutputs DEF States
  <1>2. /\ o.next = "SLEEP"
        /\ ~o.decoding /\ o.pc_set = {} /\ o.csr = "keep"
        /\ ~o.ack /\ ~o.kill /\ o.jump_done = jump_done_q /\ o.illegal = illegal_insn_q
        /\ o.debug = debug_mode_q /\ o.replay = FALSE
    BY DEF Halted, GoTo, Halt, Quiet
  <1>3. Edge(in, o)
    OBVIOUS
  <1> HIDE DEF o
  <1>4. /\ ~Fetching /\ ~EntersDebug /\ ~Waiting
        /\ ex.op = "set_step" => o.debug
        /\ o.ack => irq_req /\ o.next = "DECODE"
        /\ ex_ready(in) <=> in.ready
    BY <1>2
       DEF Fetching, EntersDebug, Waiting, ExByState, ModeByState, StatusWrites,
           Branches, ex_ready, branch_in_ex
  <1>5. due' = due /\ csr' = Written /\ performed' = performed /\ stepped' = stepped
    BY <1>1, <1>2, <1>3, <1>4, NothingHappens
  <1>6. /\ TypeOK' /\ Latched(in, o) /\ id' = id /\ ~id.valid
        /\ o.pc_set = {} => pc_if' = pc_if
        /\ \A a : o.pc_set = {a} => pc_if' = a
        /\ ex' = IF in.ready THEN Bubble ELSE ex
    BY <1>1, <1>2, <1>3, <1>4, Clocked, OutsideFetch
  <1>7. jump_done_q' => o.jump_done
    BY <1>6
  <1>8. ModeByState'
    BY <1>2, <1>5, <1>6, SMTT(30) DEF ModeByState
  <1>9. ExByState'
    BY <1>2, <1>6 DEF ExByState, Branches, StatusWrites
  <1>10. IdByState'
    BY <1>2, <1>5, <1>6, <1>7, SMTT(30) DEF ModeByState, IdByState, ExByState, Fits
  <1>11. DueByState'
    BY <1>2, <1>5, <1>6, <1>7, SMTT(30)
       DEF ModeByState, DueByState, ExByState, DueInIf, DueInId, FetchBehindId,
           branch_taken_ex, Branches
  <1>12. StepByState'
    BY <1>2, <1>5, <1>6, SMTT(30) DEF ModeByState, StepByState, ExByState
  <1> QED BY <1>6, <1>8, <1>9, <1>10, <1>11, <1>12

(* SLEEP: a request wakes the core, and fetch stands at the instruction due.  *)
LEMMA AsleepStep ==
    ASSUME ~IrqWithdrawn, ControlInv, NEW in \in Inputs, In("SLEEP"), Edge(in, Asleep)
    PROVE  ControlInv'
  <1> DEFINE o == Asleep
  <1>1. o \in Outputs
    BY ControllerOutputs DEF States
  <1>2. /\ o.next \in {"FIRST_FETCH", "SLEEP"}
        /\ ~o.decoding /\ o.pc_set = {} /\ o.csr = "keep"
        /\ ~o.ack /\ ~o.kill /\ o.jump_done = jump_done_q /\ o.illegal = illegal_insn_q
        /\ o.debug = debug_mode_q /\ o.replay = FALSE
    BY DEF Asleep, Halted, GoTo, Halt, Quiet
  <1>3. Edge(in, o)
    OBVIOUS
  <1> HIDE DEF o
  <1>4. /\ ~Fetching /\ ~EntersDebug /\ ~Waiting
        /\ ex.op = "set_step" => o.debug
        /\ o.ack => irq_req /\ o.next = "DECODE"
        /\ ex_ready(in) <=> in.ready
    BY <1>2
       DEF Fetching, EntersDebug, Waiting, ExByState, ModeByState, StatusWrites,
           Branches, ex_ready, branch_in_ex
  <1>5. due' = due /\ csr' = Written /\ performed' = performed /\ stepped' = stepped
    BY <1>1, <1>2, <1>3, <1>4, NothingHappens
  <1>6. /\ TypeOK' /\ Latched(in, o) /\ id' = id /\ ~id.valid
        /\ o.pc_set = {} => pc_if' = pc_if
        /\ \A a : o.pc_set = {a} => pc_if' = a
        /\ ex' = IF in.ready THEN Bubble ELSE ex
    BY <1>1, <1>2, <1>3, <1>4, Clocked, OutsideFetch
  <1>7. jump_done_q' => o.jump_done
    BY <1>6
  <1>8. ModeByState'
    BY <1>2, <1>5, <1>6, SMTT(30) DEF ModeByState
  <1>9. ExByState'
    BY <1>2, <1>6 DEF ExByState, Branches, StatusWrites
  <1>10. IdByState'
    BY <1>2, <1>5, <1>6, <1>7, SMTT(30) DEF ModeByState, IdByState, ExByState, Fits
  <1>11. DueByState'
    BY <1>2, <1>5, <1>6, <1>7, SMTT(30)
       DEF ModeByState, DueByState, ExByState, DueInIf, DueInId, FetchBehindId,
           branch_taken_ex, Branches
  <1>12. StepByState'
    BY <1>2, <1>5, <1>6, SMTT(30) DEF ModeByState, StepByState, ExByState
  <1> QED BY <1>6, <1>8, <1>9, <1>10, <1>11, <1>12

(* DBG_FLUSH: the controller tells an instruction that debug mode breaks off  *)
(* (in ID) from one that has been stepped over (fetch is at the next).        *)
LEMMA DbgFlushStep ==
    ASSUME ~IrqWithdrawn, ControlInv, NEW in \in Inputs, In("DBG_FLUSH"), Edge(in, DbgFlush)
    PROVE  ControlInv'
  <1> DEFINE o == DbgFlush
  <1>1. o \in Outputs
    BY ControllerOutputs DEF States
  <1>2. /\ o.next = (IF debug_mode_q \/ id.class = "elw" \/ ~csr.step
                     THEN "DBG_TAKEN_ID" ELSE "DBG_TAKEN_IF")
        /\ ~o.decoding /\ o.pc_set = {} /\ o.csr = "keep"
        /\ ~o.ack /\ ~o.kill /\ o.jump_done = jump_done_q /\ o.illegal = illegal_insn_q
        /\ o.debug = debug_mode_q /\ o.replay = FALSE
    BY DEF DbgFlush, Halted, GoTo, Halt, Quiet
  <1>3. Edge(in, o)
    OBVIOUS
  <1> HIDE DEF o
  <1>4. /\ ~Fetching /\ ~EntersDebug /\ ~Waiting
        /\ ex.op = "set_step" => o.debug
        /\ o.ack => irq_req /\ o.next = "DECODE"
        /\ ex_ready(in) <=> in.ready
    BY <1>2
       DEF Fetching, EntersDebug, Waiting, ExByState, ModeByState, StatusWrites,
           Branches, ex_ready, branch_in_ex
  <1>5. due' = due /\ csr' = Written /\ performed' = performed /\ stepped' = stepped
    BY <1>1, <1>2, <1>3, <1>4, NothingHappens
  <1>6. /\ TypeOK' /\ Latched(in, o) /\ id' = id /\ ~id.valid
        /\ o.pc_set = {} => pc_if' = pc_if
        /\ \A a : o.pc_set = {a} => pc_if' = a
        /\ ex' = IF in.ready THEN Bubble ELSE ex
    BY <1>1, <1>2, <1>3, <1>4, Clocked, OutsideFetch
  <1>7. jump_done_q' => o.jump_done
    BY <1>6
  <1>8. ModeByState'
    BY <1>2, <1>5, <1>6, SMTT(30) DEF ModeByState
  <1>9. ExByState'
    BY <1>2, <1>6 DEF ExByState, Branches, StatusWrites
  <1>10. IdByState'
    BY <1>2, <1>5, <1>6, <1>7, SMTT(30) DEF ModeByState, IdByState, ExByState, Fits
  <1>11. DueByState'
    BY <1>2, <1>5, <1>6, <1>7, SMTT(30)
       DEF ModeByState, DueByState, ExByState, DueInIf, DueInId, FetchBehindId,
           branch_taken_ex, Branches
  <1>12. StepByState'
    BY <1>2, <1>5, <1>6, SMTT(30) DEF ModeByState, StepByState, ExByState
  <1> QED BY <1>6, <1>8, <1>9, <1>10, <1>11, <1>12

(* BOOT_SET: fetch starts at the boot address.                                *)
LEMMA BootSetStep ==
    ASSUME ~IrqWithdrawn, ControlInv, NEW in \in Inputs, In("BOOT_SET"), Edge(in, BootSet)
    PROVE  ControlInv'
  <1> DEFINE o == BootSet
  <1>1. o \in Outputs
    BY ControllerOutputs DEF States
  <1>2. /\ o.next = "FIRST_FETCH" /\ o.pc_set = {Boot}
        /\ ~o.decoding /\ o.csr = "keep"
        /\ ~o.ack /\ ~o.kill /\ o.jump_done = jump_done_q /\ o.illegal = illegal_insn_q
        /\ o.debug = debug_mode_q /\ o.replay = FALSE
    BY DEF BootSet, SetPc, GoTo, Halt, Quiet
  <1>3. Edge(in, o)
    OBVIOUS
  <1> HIDE DEF o
  <1>4. /\ ~Fetching /\ ~EntersDebug /\ ~Waiting
        /\ ex.op = "set_step" => o.debug
        /\ o.ack => irq_req /\ o.next = "DECODE"
        /\ ex_ready(in) <=> in.ready
    BY <1>2
       DEF Fetching, EntersDebug, Waiting, ExByState, ModeByState, StatusWrites,
           Branches, ex_ready, branch_in_ex
  <1>5. due' = due /\ csr' = Written /\ performed' = performed /\ stepped' = stepped
    BY <1>1, <1>2, <1>3, <1>4, NothingHappens
  <1>6. /\ TypeOK' /\ Latched(in, o) /\ id' = id /\ ~id.valid
        /\ o.pc_set = {} => pc_if' = pc_if
        /\ \A a : o.pc_set = {a} => pc_if' = a
        /\ ex' = IF in.ready THEN Bubble ELSE ex
    BY <1>1, <1>2, <1>3, <1>4, Clocked, OutsideFetch
  <1>7. jump_done_q' => o.jump_done
    BY <1>6
  <1>8. ModeByState'
    BY <1>2, <1>5, <1>6, SMTT(30) DEF ModeByState
  <1>9. ExByState'
    BY <1>2, <1>6 DEF ExByState, Branches, StatusWrites
  <1>10. IdByState'
    BY <1>2, <1>5, <1>6, <1>7, SMTT(30) DEF ModeByState, IdByState, ExByState, Fits
  <1>11. DueByState'
    BY <1>2, <1>5, <1>6, <1>7, SMTT(30)
       DEF ModeByState, DueByState, ExByState, DueInIf, DueInId, FetchBehindId,
           branch_taken_ex, Branches
  <1>12. StepByState'
    BY <1>2, <1>5, <1>6, SMTT(30) DEF ModeByState, StepByState, ExByState
  <1> QED BY <1>6, <1>8, <1>9, <1>10, <1>11, <1>12

(* ELW_EXE: an event load stays in ID, performed but not due to be left,      *)
(* until a request or the end of its wait.                                    *)
LEMMA ElwExeStep ==
    ASSUME ~IrqWithdrawn, ControlInv, NEW in \in Inputs, In("ELW_EXE"), Edge(in, ElwExe(in))
    PROVE  ControlInv'
  <1> DEFINE o == ElwExe(in)
  <1>1. o \in Outputs
    BY ControllerOutputs DEF States
  <1>2. /\ o.next = (IF ~id_ready(in) THEN "ELW_EXE"
                 ELSE IF debug_req /\ ~debug_mode_q THEN "DBG_FLUSH" ELSE "IRQ_FLUSH")
        /\ ~o.decoding /\ o.pc_set = {} /\ o.csr = "keep"
        /\ ~o.ack /\ ~o.kill /\ o.jump_done = jump_done_q /\ o.illegal = illegal_insn_q
        /\ o.debug = debug_mode_q /\ o.replay = FALSE
    BY DEF ElwExe, Halted, GoTo, Halt, Quiet
  <1>3. Edge(in, o)
    OBVIOUS
  <1> HIDE DEF o
  <1>4. /\ ~Fetching /\ ~EntersDebug /\ ~Waiting
        /\ ex.op = "set_step" => o.debug
        /\ o.ack => irq_req /\ o.next = "DECODE"
        /\ ex_ready(in) <=> in.ready
    BY <1>2
       DEF Fetching, EntersDebug, Waiting, ExByState, ModeByState, StatusWrites,
           Branches, ex_ready, branch_in_ex
  <1>5. due' = due /\ csr' = Written /\ performed' = performed /\ stepped' = stepped
    BY <1>1, <1>2, <1>3, <1>4, NothingHappens
  <1>6. /\ TypeOK' /\ Latched(in, o) /\ id' = id /\ ~id.valid
        /\ o.pc_set = {} => pc_if' = pc_if
        /\ \A a : o.pc_set = {a} => pc_if' = a
        /\ ex' = IF in.ready THEN Bubble ELSE ex
    BY <1>1, <1>2, <1>3, <1>4, Clocked, OutsideFetch
  <1>7. jump_done_q' => o.jump_done
    BY <1>6
  <1>8. ModeByState'
    BY <1>2, <1>5, <1>6, SMTT(30) DEF ModeByState
  <1>9. ExByState'
    BY <1>2, <1>6 DEF ExByState, Branches, StatusWrites
  <1>10. IdByState'
    BY <1>2, <1>5, <1>6, <1>7, SMTT(30) DEF ModeByState, IdByState, ExByState, Fits
  <1>11. DueByState'
    BY <1>2, <1>5, <1>6, <1>7, SMTT(30)
       DEF ModeByState, DueByState, ExByState, DueInIf, DueInId, FetchBehindId,
           branch_taken_ex, Branches
  <1>12. StepByState'
    BY <1>2, <1>5, <1>6, SMTT(30) DEF ModeByState, StepByState, ExByState
  <1> QED BY <1>6, <1>8, <1>9, <1>10, <1>11, <1>12

(* IRQ_FLUSH: the interrupt is taken with the address in ID, or the event     *)
(* load goes back to DECODE, to be given up.                                  *)
LEMMA IrqFlushStep ==
    ASSUME ~IrqWithdrawn, ControlInv, NEW in \in Inputs, In("IRQ_FLUSH"), Edge(in, IrqFlush)
    PROVE  ControlInv'
  <1> DEFINE o == IrqFlush
  <1>1. o \in Outputs
    BY ControllerOutputs DEF States
  <1>2. /\ IF irq /\ csr.mie THEN o.next = "IRQ_TAKEN_ID" /\ ~o.kill /\ ~o.replay
           ELSE o.next = "DECODE" /\ o.kill /\ o.replay
        /\ ~o.decoding /\ o.pc_set = {} /\ o.csr = "keep"
        /\ ~o.ack /\ o.jump_done = jump_done_q /\ o.illegal = illegal_insn_q
        /\ o.debug = debug_mode_q
    BY DEF IrqFlush, Halted, GoTo, Halt, Quiet
  <1>3. Edge(in, o)
    OBVIOUS
  <1> HIDE DEF o
  <1>4. /\ ~Fetching /\ ~EntersDebug /\ ~Waiting
        /\ ex.op = "set_step" => o.debug
        /\ o.ack => irq_req /\ o.next = "DECODE"
        /\ ex_ready(in) <=> in.ready
    BY <1>2
       DEF Fetching, EntersDebug, Waiting, ExByState, ModeByState, StatusWrites,
           Branches, ex_ready, branch_in_ex
  <1>5. due' = due /\ csr' = Written /\ performed' = performed /\ stepped' = stepped
    BY <1>1, <1>2, <1>3, <1>4, NothingHappens
  <1>6. /\ TypeOK' /\ Latched(in, o) /\ id' = id /\ ~id.valid
        /\ o.pc_set = {} => pc_if' = pc_if
        /\ \A a : o.pc_set = {a} => pc_if' = a
        /\ ex' = IF in.ready THEN Bubble ELSE ex
    BY <1>1, <1>2, <1>3, <1>4, Clocked, OutsideFetch
  <1>7. irq /\ csr.mie => irq_req'
    <2>1. exc_ctrl_cs' = NextExcCtrl(o)
      BY <1>3 DEF Edge
    <2>2. exc_ctrl_cs \in {"IDLE", "PENDING"}
      BY DEF TypeOK, ModeByState
    <2> QED BY <1>2, <2>1, <2>2 DEF NextExcCtrl, irq_req
  <1>8. ex = Bubble /\ csr' = csr
    BY <1>5, NothingInEx
  <1>9. jump_done_q' => o.jump_done
    BY <1>6
  <1>10. ModeByState'
    BY <1>2, <1>5, <1>6, <1>7, <1>8, SMTT(30) DEF ModeByState
  <1>11. ExByState'
    BY <1>2, <1>6, <1>8 DEF ExByState, Branches, StatusWrites
  <1>12. IdByState'
    BY <1>2, <1>5, <1>6, <1>9, <1>8, SMTT(30)
       DEF ModeByState, IdByState, ExByState, Fits, irq_req
  <1>13. DueByState'
    BY <1>2, <1>5, <1>6, <1>9, <1>8, SMTT(30)
       DEF ModeByState, DueByState, ExByState, DueInIf, DueInId, FetchBehindId,
           branch_taken_ex, Branches, IdByState
  <1>14. StepByState'
    BY <1>2, <1>5, <1>6, SMTT(30) DEF ModeByState, StepByState, ExByState
  <1> QED BY <1>6, <1>10, <1>11, <1>12, <1>13, <1>14

(* IRQ_TAKEN_ID saves the address of the instruction in ID, which is due.     *)
LEMMA IrqTakenIdStep ==
    ASSUME ~IrqWithdrawn, ControlInv, NEW in \in Inputs, In("IRQ_TAKEN_ID"), Edge(in,
           IrqTaken(id.pc))
    PROVE  ControlInv'
  <1> DEFINE o == IrqTaken(id.pc)
  <1>1. o \in Outputs
    BY ControllerOutputs DEF States
  <1>2. /\ o.next = "DECODE" /\ ~o.decoding /\ o.pc_set = {IrqVector} /\ o.csr = "trap"
        /\ o.ack /\ ~o.kill /\ o.jump_done = jump_done_q /\ o.illegal = illegal_insn_q
        /\ o.debug = debug_mode_q /\ o.replay = FALSE
    BY DEF IrqTaken, SetPc, GoTo, Halt, Quiet
  <1>3. Edge(in, o)
    OBVIOUS
  <1> HIDE DEF o
  <1>4. /\ ~Fetching /\ ~EntersDebug /\ ~Waiting
        /\ ex.op = "set_step" => o.debug
        /\ o.ack => irq_req /\ o.next = "DECODE"
        /\ ex_ready(in) <=> in.ready
    BY <1>2
       DEF Fetching, EntersDebug, Waiting, ExByState, ModeByState, StatusWrites,
           Branches, ex_ready, branch_in_ex
  <1>5. due' = IrqVector /\ performed' = 0 /\ stepped' = stepped
    BY <1>2, <1>3, <1>4
       DEF Edge, NextDue, NextPerformed, NextStepped, Completes, Issues, ReplayGivenUp,
           Waits, StepByState
  <1>6. /\ TypeOK' /\ Latched(in, o) /\ id' = id /\ ~id.valid
        /\ o.pc_set = {} => pc_if' = pc_if
        /\ \A a : o.pc_set = {a} => pc_if' = a
        /\ ex' = IF in.ready THEN Bubble ELSE ex
    BY <1>1, <1>2, <1>3, <1>4, Clocked, OutsideFetch
  <1>7. jump_done_q' => o.jump_done
    BY <1>6
  <1>8. ModeByState'
    BY <1>2, <1>5, <1>6, SMTT(30) DEF ModeByState
  <1>9. ExByState'
    BY <1>2, <1>6 DEF ExByState, Branches, StatusWrites
  <1>10. IdByState'
    BY <1>2, <1>5, <1>6, <1>7, SMTT(30) DEF ModeByState, IdByState, ExByState, Fits
  <1>11. DueByState'
    BY <1>2, <1>5, <1>6, <1>7, SMTT(30)
       DEF ModeByState, DueByState, ExByState, DueInIf, DueInId, FetchBehindId,
           branch_taken_ex, Branches
  <1>12. StepByState'
    BY <1>2, <1>5, <1>6, SMTT(30) DEF ModeByState, StepByState, ExByState
  <1> QED BY <1>6, <1>8, <1>9, <1>10, <1>11, <1>12

(* IRQ_TAKEN_IF saves the address in IF, which is due since nothing is in     *)
(* flight.                                                                    *)
LEMMA IrqTakenIfStep ==
    ASSUME ~IrqWithdrawn, ControlInv, NEW in \in Inputs, In("IRQ_TAKEN_IF"), Edge(in,
           IrqTaken(pc_if))
    PROVE  ControlInv'
  <1> DEFINE o == IrqTaken(pc_if)
  <1>1. o \in Outputs
    BY ControllerOutputs DEF States
  <1>2. /\ o.next = "DECODE" /\ ~o.decoding /\ o.pc_set = {IrqVector} /\ o.csr = "trap"
        /\ o.ack /\ ~o.kill /\ o.jump_done = jump_done_q /\ o.illegal = illegal_insn_q
        /\ o.debug = debug_mode_q /\ o.replay = FALSE
    BY DEF IrqTaken, SetPc, GoTo, Halt, Quiet
  <1>3. Edge(in, o)
    OBVIOUS
  <1> HIDE DEF o
  <1>4. /\ ~Fetching /\ ~EntersDebug /\ ~Waiting
        /\ ex.op = "set_step" => o.debug
        /\ o.ack => irq_req /\ o.next = "DECODE"
        /\ ex_ready(in) <=> in.ready
    BY <1>2
       DEF Fetching, EntersDebug, Waiting, ExByState, ModeByState, StatusWrites,
           Branches, ex_ready, branch_in_ex
  <1>5. due' = IrqVector /\ performed' = 0 /\ stepped' = stepped
    BY <1>2, <1>3, <1>4
       DEF Edge, NextDue, NextPerformed, NextStepped, Completes, Issues, ReplayGivenUp,
           Waits, StepByState
  <1>6. /\ TypeOK' /\ Latched(in, o) /\ id' = id /\ ~id.valid
        /\ o.pc_set = {} => pc_if' = pc_if
        /\ \A a : o.pc_set = {a} => pc_if' = a
        /\ ex' = IF in.ready THEN Bubble ELSE ex
    BY <1>1, <1>2, <1>3, <1>4, Clocked, OutsideFetch
  <1>7. jump_done_q' => o.jump_done
    BY <1>6
  <1>8. ModeByState'
    BY <1>2, <1>5, <1>6, SMTT(30) DEF ModeByState
  <1>9. ExByState'
    BY <1>2, <1>6 DEF ExByState, Branches, StatusWrites
  <1>10. IdByState'
    BY <1>2, <1>5, <1>6, <1>7, SMTT(30) DEF ModeByState, IdByState, ExByState, Fits
  <1>11. DueByState'
    BY <1>2, <1>5, <1>6, <1>7, SMTT(30)
       DEF ModeByState, DueByState, ExByState, DueInIf, DueInId, FetchBehindId,
           branch_taken_ex, Branches
  <1>12. StepByState'
    BY <1>2, <1>5, <1>6, SMTT(30) DEF ModeByState, StepByState, ExByState
  <1> QED BY <1>6, <1>8, <1>9, <1>10, <1>11, <1>12

(* XRET_JUMP: mret goes to mepc, dret to dpc, and a step over mret on to      *)
(* debug mode.                                                                *)
LEMMA XretJumpStep ==
    ASSUME ~IrqWithdrawn, ControlInv, NEW in \in Inputs, In("XRET_JUMP"), Edge(in, XretJump)
    PROVE  ControlInv'
  <1> DEFINE o == XretJump
  <1>1. o \in Outputs
    BY ControllerOutputs DEF States
  <1>2. /\ o.next = (IF Stepping THEN "DBG_TAKEN_IF" ELSE "DECODE")
        /\ o.pc_set = (IF id.class = "mret" THEN {csr.mepc} ELSE {csr.dpc})
        /\ ~o.decoding /\ o.csr = "keep"
        /\ ~o.ack /\ ~o.kill /\ o.jump_done = jump_done_q /\ o.illegal = illegal_insn_q
        /\ o.debug = (IF id.class = "mret" THEN debug_mode_q ELSE FALSE) /\ o.replay = FALSE
    BY DEF XretJump, SetPc, GoTo, Halt, Quiet
  <1>3. Edge(in, o)
    OBVIOUS
  <1> HIDE DEF o
  <1>4. /\ ~Fetching /\ ~EntersDebug /\ ~Waiting
        /\ ex.op = "set_step" => o.debug
        /\ o.ack => irq_req /\ o.next = "DECODE"
        /\ ex_ready(in) <=> in.ready
    BY <1>2
       DEF Fetching, EntersDebug, Waiting, ExByState, ModeByState, StatusWrites,
           Branches, ex_ready, branch_in_ex
  <1>5. /\ due' = (IF id.class = "mret" THEN due ELSE csr.dpc) /\ csr' = csr
        /\ performed' = performed /\ stepped' = IF Stepping THEN stepped ELSE 0
        /\ id.class = IF debug_mode_q THEN "dret" ELSE "mret"
    <2>1. id.class = IF debug_mode_q THEN "dret" ELSE "mret"
      BY DEF IdByState
    <2>2. ~Completes(in, o) /\ ~Issues(in, o)
      BY <1>2, <1>4, <2>1 DEF Completes, Issues, ReplayGivenUp, Waits
    <2>3. csr' = csr
      BY <1>1, <1>2, <1>3, CsrStep, NothingInEx
    <2>4. due' = IF id.class = "mret" THEN due ELSE csr.dpc
      BY <1>2, <1>3, <1>4, <2>1, <2>2 DEF Edge, NextDue
    <2>5. performed' = performed /\ stepped' = IF Stepping THEN stepped ELSE 0
      BY <1>2, <1>3, <1>4, <2>2 DEF Edge, NextPerformed, NextStepped
    <2> QED BY <2>1, <2>3, <2>4, <2>5
  <1>6. /\ TypeOK' /\ Latched(in, o) /\ id' = id /\ ~id.valid
        /\ o.pc_set = {} => pc_if' = pc_if
        /\ \A a : o.pc_set = {a} => pc_if' = a
        /\ ex' = IF in.ready THEN Bubble ELSE ex
    BY <1>1, <1>2, <1>3, <1>4, Clocked, OutsideFetch
  <1>7. jump_done_q' => o.jump_done
    BY <1>6
  <1>8. ModeByState'
    BY <1>2, <1>5, <1>6, SMTT(30) DEF ModeByState
  <1>9. ExByState'
    BY <1>2, <1>6 DEF ExByState, Branches, StatusWrites
  <1>10. IdByState'
    BY <1>2, <1>5, <1>6, <1>7, SMTT(30) DEF ModeByState, IdByState, ExByState, Fits
  <1>11. DueByState'
    BY <1>2, <1>5, <1>6, <1>7, SMTT(30)
       DEF ModeByState, DueByState, ExByState, DueInIf, DueInId, FetchBehindId,
           branch_taken_ex, Branches
  <1>12. StepByState'
    BY <1>2, <1>5, <1>6, SMTT(30) DEF ModeByState, StepByState, ExByState
  <1> QED BY <1>6, <1>8, <1>9, <1>10, <1>11, <1>12

(* DBG_TAKEN_IF enters debug mode with the address in IF.                     *)
LEMMA DbgTakenIfStep ==
    ASSUME ~IrqWithdrawn, ControlInv, NEW in \in Inputs, In("DBG_TAKEN_IF"), Edge(in,
           EnterDebug(pc_if))
    PROVE  ControlInv'
  <1> DEFINE o == EnterDebug(pc_if)
  <1>1. o \in Outputs
    BY ControllerOutputs DEF States
  <1>2. /\ o.next = "DECODE" /\ ~o.decoding /\ o.pc_set = {DebugVector} /\ o.csr = "debug"
        /\ ~o.ack /\ ~o.kill /\ o.jump_done = jump_done_q /\ o.illegal = illegal_insn_q
        /\ o.debug /\ o.replay = FALSE
    BY DEF EnterDebug, SetPc, GoTo, Halt, Quiet
  <1>3. Edge(in, o)
    OBVIOUS
  <1> HIDE DEF o
  <1>4. /\ ~Fetching /\ EntersDebug /\ ~Waiting
        /\ ex.op = "set_step" => o.debug
        /\ o.ack => irq_req /\ o.next = "DECODE"
        /\ ex_ready(in) <=> in.ready
    BY <1>2
       DEF Fetching, EntersDebug, Waiting, ExByState, ModeByState, StatusWrites,
           Branches, ex_ready, branch_in_ex
  <1>5. due' = DebugVector /\ performed' = 0 /\ stepped' = 0
    BY <1>2, <1>3, <1>4 DEF Edge, NextDue, NextPerformed, NextStepped, EntersDebug
  <1>6. /\ TypeOK' /\ Latched(in, o) /\ id' = id /\ ~id.valid
        /\ o.pc_set = {} => pc_if' = pc_if
        /\ \A a : o.pc_set = {a} => pc_if' = a
        /\ ex' = IF in.ready THEN Bubble ELSE ex
    BY <1>1, <1>2, <1>3, <1>4, Clocked, OutsideFetch
  <1>7. jump_done_q' => o.jump_done
    BY <1>6
  <1>8. ModeByState'
    BY <1>2, <1>5, <1>6, SMTT(30) DEF ModeByState
  <1>9. ExByState'
    BY <1>2, <1>6 DEF ExByState, Branches, StatusWrites
  <1>10. IdByState'
    BY <1>2, <1>5, <1>6, <1>7, SMTT(30) DEF ModeByState, IdByState, ExByState, Fits
  <1>11. DueByState'
    BY <1>2, <1>5, <1>6, <1>7, SMTT(30)
       DEF ModeByState, DueByState, ExByState, DueInIf, DueInId, FetchBehindId,
           branch_taken_ex, Branches
  <1>12. StepByState'
    BY <1>2, <1>5, <1>6, SMTT(30) DEF ModeByState, StepByState, ExByState
  <1> QED BY <1>6, <1>8, <1>9, <1>10, <1>11, <1>12

(* DBG_TAKEN_ID enters debug mode with the address in ID, or returns the      *)
(* debugger to its start.                                                     *)
LEMMA DbgTakenIdStep ==
    ASSUME ~IrqWithdrawn, ControlInv, NEW in \in Inputs, In("DBG_TAKEN_ID"), Edge(in,
           DbgTakenId)
    PROVE  ControlInv'
  <1> DEFINE o == DbgTakenId
  <1>1. o \in Outputs
    BY ControllerOutputs DEF States
  <1>2. /\ o.next = "DECODE" /\ ~o.decoding /\ o.pc_set = {DebugVector}
        /\ o.csr \in {"debug", "keep"}
        /\ ~o.ack /\ ~o.kill /\ o.jump_done = jump_done_q /\ o.illegal = illegal_insn_q
        /\ o.debug /\ o.replay = FALSE
    BY DEF DbgTakenId, EnterDebug, SetPc, GoTo, Halt, Quiet
  <1>3. Edge(in, o)
    OBVIOUS
  <1> HIDE DEF o
  <1>4. /\ ~Fetching /\ EntersDebug /\ ~Waiting
        /\ ex.op = "set_step" => o.debug
        /\ o.ack => irq_req /\ o.next = "DECODE"
        /\ ex_ready(in) <=> in.ready
    BY <1>2
       DEF Fetching, EntersDebug, Waiting, ExByState, ModeByState, StatusWrites,
           Branches, ex_ready, branch_in_ex
  <1>5. due' = DebugVector /\ stepped' = 0
    BY <1>2, <1>3, <1>4 DEF Edge, NextDue, NextPerformed, NextStepped, EntersDebug
  <1>6. /\ TypeOK' /\ Latched(in, o) /\ id' = id /\ ~id.valid
        /\ o.pc_set = {} => pc_if' = pc_if
        /\ \A a : o.pc_set = {a} => pc_if' = a
        /\ ex' = IF in.ready THEN Bubble ELSE ex
    BY <1>1, <1>2, <1>3, <1>4, Clocked, OutsideFetch
  <1>7. jump_done_q' => o.jump_done
    BY <1>6
  <1>8. ModeByState'
    BY <1>2, <1>5, <1>6, SMTT(30) DEF ModeByState
  <1>9. ExByState'
    BY <1>2, <1>6 DEF ExByState, Branches, StatusWrites
  <1>10. IdByState'
    BY <1>2, <1>5, <1>6, <1>7, SMTT(30) DEF ModeByState, IdByState, ExByState, Fits
  <1>11. DueByState'
    BY <1>2, <1>5, <1>6, <1>7, SMTT(30)
       DEF ModeByState, DueByState, ExByState, DueInIf, DueInId, FetchBehindId,
           branch_taken_ex, Branches
  <1>12. StepByState'
    BY <1>2, <1>5, <1>6, SMTT(30) DEF ModeByState, StepByState, ExByState
  <1> QED BY <1>6, <1>8, <1>9, <1>10, <1>11, <1>12

(* RESET waits for fetch_enable.                                              *)
LEMMA ResetStep ==
    ASSUME ~IrqWithdrawn, ControlInv, NEW in \in Inputs, In("RESET"), NEW next \in {"RESET",
           "BOOT_SET"}, Edge(in, GoTo(Quiet, next))
    PROVE  ControlInv'
  <1> DEFINE o == GoTo(Quiet, next)
  <1>1. o \in Outputs
    BY ControllerOutputs DEF States
  <1>2. /\ o.next = next
        /\ ~o.decoding /\ o.pc_set = {} /\ o.csr = "keep"
        /\ ~o.ack /\ ~o.kill /\ o.jump_done = jump_done_q /\ o.illegal = illegal_insn_q
        /\ o.debug = debug_mode_q /\ o.replay = FALSE
    BY DEF GoTo, Halt, Quiet
  <1>3. Edge(in, o)
    OBVIOUS
  <1> HIDE DEF o
  <1>4. /\ ~Fetching /\ ~EntersDebug /\ ~Waiting
        /\ ex.op = "set_step" => o.debug
        /\ o.ack => irq_req /\ o.next = "DECODE"
        /\ ex_ready(in) <=> in.ready
    BY <1>2
       DEF Fetching, EntersDebug, Waiting, ExByState, ModeByState, StatusWrites,
           Branches, ex_ready, branch_in_ex
  <1>5. due' = due /\ csr' = Written /\ performed' = performed /\ stepped' = stepped
    BY <1>1, <1>2, <1>3, <1>4, NothingHappens
  <1>6. /\ TypeOK' /\ Latched(in, o) /\ id' = id /\ ~id.valid
        /\ o.pc_set = {} => pc_if' = pc_if
        /\ \A a : o.pc_set = {a} => pc_if' = a
        /\ ex' = IF in.ready THEN Bubble ELSE ex
    BY <1>1, <1>2, <1>3, <1>4, Clocked, OutsideFetch
  <1>7. jump_done_q' => o.jump_done
    BY <1>6
  <1>8. ModeByState'
    BY <1>2, <1>5, <1>6, SMTT(30) DEF ModeByState
  <1>9. ExByState'
    BY <1>2, <1>6 DEF ExByState, Branches, StatusWrites
  <1>10. IdByState'
    BY <1>2, <1>5, <1>6, <1>7, SMTT(30) DEF ModeByState, IdByState, ExByState, Fits
  <1>11. DueByState'
    BY <1>2, <1>5, <1>6, <1>7, SMTT(30)
       DEF ModeByState, DueByState, ExByState, DueInIf, DueInId, FetchBehindId,
           branch_taken_ex, Branches
  <1>12. StepByState'
    BY <1>2, <1>5, <1>6, SMTT(30) DEF ModeByState, StepByState, ExByState
  <1> QED BY <1>6, <1>8, <1>9, <1>10, <1>11, <1>12

(* FLUSH_WB: a trap sets fetch to its handler, a return restores, wfi sleeps, *)
(* fence.i refetches, and a write of a status register goes on.               *)
LEMMA FlushWbStep ==
    ASSUME ~IrqWithdrawn, ControlInv, NEW in \in Inputs, In("FLUSH_WB"), Edge(in, FlushWb)
    PROVE  ControlInv'
  <1> DEFINE o == FlushWb
  <1>1. o \in Outputs
    BY ControllerOutputs DEF States
  <1>2. /\ o.next = (IF illegal_insn_q \/ id.class \in {"ebreak", "ecall"}
                     THEN IF Stepping THEN "DBG_TAKEN_IF" ELSE "DECODE"
                     ELSE IF id.class \in {"mret", "dret"} THEN "XRET_JUMP"
                     ELSE IF id.class = "wfi" THEN "WAIT_SLEEP" ELSE "DECODE")
        /\ o.pc_set = (IF illegal_insn_q \/ id.class \in {"ebreak", "ecall"} THEN {TrapVector}
                       ELSE IF id.class = "fencei" THEN {After(id.pc)} ELSE {})
        /\ o.csr = (IF ~illegal_insn_q /\ id.class = "mret" THEN "mret" ELSE "keep")
        /\ ~o.decoding /\ ~o.ack /\ ~o.kill /\ o.jump_done = jump_done_q /\ ~o.illegal
        /\ o.debug = debug_mode_q /\ o.replay = FALSE
    BY DEF FlushWb, Halted, SetPc, GoTo, Halt, Quiet
  <1>3. Edge(in, o)
    OBVIOUS
  <1> HIDE DEF o
  <1>4. /\ ~Fetching /\ ~EntersDebug
        /\ ex.op = "set_step" => o.debug
        /\ o.ack => irq_req /\ o.next = "DECODE"
        /\ ex_ready(in) <=> in.ready
    BY <1>2
       DEF Fetching, EntersDebug, Waiting, ExByState, ModeByState, StatusWrites,
           Branches, ex_ready, branch_in_ex
  <1>5. /\ due' = (IF id.class = "mret" THEN csr.mepc
                   ELSE IF id.class \in Waits THEN After(id.pc) ELSE due)
        /\ csr'.mepc = csr.mepc
        /\ stepped' = (IF ~Stepping THEN 0 ELSE IF id.class = "mret" THEN 1 ELSE stepped)
        /\ id.class \in Traps \cup StatusWrites \cup {"ebreak", "wfi", "fencei", "mret", "dret"}
        /\ Stepping => id.class \in Traps \cup {"ebreak", "mret"}
        /\ illegal_insn_q <=> id.class = "illegal"
        /\ ex = Bubble
    <2>1. /\ id.class \in Traps \cup StatusWrites \cup {"ebreak", "wfi", "fencei", "mret", "dret"}
          /\ Stepping => id.class \in Traps \cup {"ebreak", "mret"}
          /\ illegal_insn_q <=> id.class = "illegal"
      BY DEF IdByState
    <2>2. ~Issues(in, o) /\ (Completes(in, o) <=> id.class \in Waits)
      BY <1>2, <1>4, <2>1 DEF Completes, Issues, ReplayGivenUp, Waits
    <2>3. ex = Bubble /\ csr'.mepc = csr.mepc
      BY <1>1, <1>2, <1>3, CsrStep, NothingInEx
    <2>4. due' = (IF id.class = "mret" THEN csr.mepc
                   ELSE IF id.class \in Waits THEN After(id.pc) ELSE due)
      BY <1>2, <1>3, <1>4, <2>1, <2>2 DEF Edge, NextDue, Waits
    <2>5. Stepping /\ id.class = "mret" => stepped = 0
      BY DEF StepByState
    <2>6. stepped' = (IF ~Stepping THEN 0 ELSE IF id.class = "mret" THEN 1 ELSE stepped)
      BY <1>2, <1>3, <1>4, <2>1, <2>2, <2>5 DEF Edge, NextStepped, Counted, Waits, Traps
    <2> QED BY <2>1, <2>3, <2>4, <2>6
  <1>6. /\ TypeOK' /\ Latched(in, o) /\ id' = id /\ ~id.valid
        /\ o.pc_set = {} => pc_if' = pc_if
        /\ \A a : o.pc_set = {a} => pc_if' = a
        /\ ex' = IF in.ready THEN Bubble ELSE ex
    BY <1>1, <1>2, <1>3, <1>4, Clocked, OutsideFetch
  <1>7. jump_done_q' => o.jump_done
    BY <1>6
  <1>8. ModeByState'
    BY <1>2, <1>5, <1>6, SMTT(30) DEF ModeByState, IdByState, Fits
  <1>9. ExByState'
    BY <1>2, <1>6 DEF ExByState, Branches, StatusWrites
  <1>10. IdByState'
    BY <1>2, <1>5, <1>6, <1>7, SMTT(30) DEF ModeByState, IdByState, ExByState, Fits, Traps
  <1>11. DueByState'
    BY <1>2, <1>5, <1>6, <1>7, SMTT(30)
       DEF ModeByState, DueByState, ExByState, DueInIf, DueInId, FetchBehindId,
           branch_taken_ex, Branches, IdByState, Fits, Traps, StatusWrites, Waits
  <1>12. StepByState'
    BY <1>2, <1>5, <1>6, SMTT(30) DEF ModeByState, StepByState, ExByState, Traps
  <1> QED BY <1>6, <1>8, <1>9, <1>10, <1>11, <1>12

(* DBG_WAIT_BRANCH: the branch stepped over is resolved, and fetch is set to  *)
(* where it goes.                                                             *)
LEMMA DbgWaitBranchStep ==
    ASSUME ~IrqWithdrawn, ControlInv, NEW in \in Inputs, In("DBG_WAIT_BRANCH"), Edge(in,
           DbgWaitBranch)
    PROVE  ControlInv'
  <1> DEFINE o == DbgWaitBranch
  <1>1. o \in Outputs
    BY ControllerOutputs DEF States
  <1>2. /\ o.next = "DBG_FLUSH" /\ o.pc_set = (IF branch_taken_ex THEN {ex.target} ELSE {})
        /\ ~o.decoding /\ o.csr = "keep"
        /\ ~o.ack /\ ~o.kill /\ o.jump_done = jump_done_q /\ o.illegal = illegal_insn_q
        /\ o.debug = debug_mode_q /\ o.replay = FALSE
    BY DEF DbgWaitBranch, GoTo, Halt, Quiet
  <1>3. Edge(in, o)
    OBVIOUS
  <1> HIDE DEF o
  <1>4. /\ ~Fetching /\ ~EntersDebug /\ ~Waiting
        /\ ex.op = "set_step" => o.debug
        /\ o.ack => irq_req /\ o.next = "DECODE"
        /\ ex_ready(in)
    BY <1>2
       DEF Fetching, EntersDebug, Waiting, ExByState, ModeByState, StatusWrites,
           Branches, ex_ready, branch_in_ex
  <1>5. due' = due /\ csr' = Written /\ performed' = performed /\ stepped' = stepped
    BY <1>1, <1>2, <1>3, <1>4, NothingHappens
  <1>6. /\ TypeOK' /\ Latched(in, o) /\ id' = id /\ ~id.valid
        /\ o.pc_set = {} => pc_if' = pc_if
        /\ \A a : o.pc_set = {a} => pc_if' = a
        /\ ex' = Bubble
    BY <1>1, <1>2, <1>3, <1>4, Clocked, OutsideFetch
  <1>7. jump_done_q' => o.jump_done
    BY <1>6
  <1>8. ModeByState'
    BY <1>2, <1>5, <1>6, SMTT(30) DEF ModeByState
  <1>9. ExByState'
    BY <1>2, <1>6 DEF ExByState, Branches, StatusWrites
  <1>10. IdByState'
    BY <1>2, <1>5, <1>6, <1>7, SMTT(30) DEF ModeByState, IdByState, ExByState, Fits
  <1>11. DueByState'
    BY <1>2, <1>5, <1>6, <1>7, SMTT(30)
       DEF ModeByState, DueByState, ExByState, DueInIf, DueInId, FetchBehindId,
           branch_taken_ex, Branches, IdByState
  <1>12. StepByState'
    BY <1>2, <1>5, <1>6, SMTT(30) DEF ModeByState, StepByState, ExByState
  <1> QED BY <1>6, <1>8, <1>9, <1>10, <1>11, <1>12

(* FIRST_FETCH: the first instruction after a wake-up, or the request that    *)
(* woke the core.                                                             *)
LEMMA FirstFetchStep ==
    ASSUME ~IrqWithdrawn, ControlInv, NEW in \in Inputs, In("FIRST_FETCH"),
           Edge(in, FirstFetch(in))
    PROVE  ControlInv'
  <1> DEFINE o == FirstFetch(in)
  <1>1. o \in Outputs
    BY ControllerOutputs
  <1>2. /\ IF debug_req /\ ~debug_mode_q THEN o.next = "DBG_TAKEN_IF" /\ o.halt_if
           ELSE IF irq_req /\ csr.mie THEN o.next = "IRQ_TAKEN_IF" /\ o.halt_if
           ELSE o.next = (IF id_ready(in) THEN "DECODE" ELSE "FIRST_FETCH")
        /\ ~o.decoding /\ o.pc_set = {} /\ o.csr = "keep"
        /\ ~o.ack /\ ~o.kill /\ o.jump_done = jump_done_q /\ o.illegal = illegal_insn_q
        /\ o.debug = debug_mode_q /\ o.replay = FALSE
    BY DEF FirstFetch, Halted, GoTo, Halt, Quiet
  <1>3. Edge(in, o)
    OBVIOUS
  <1> HIDE DEF o
  <1>4. /\ ~debug_mode_q /\ ~id.valid /\ ex = Bubble /\ csr' = csr
        /\ ~Issues(in, o) /\ ~Completes(in, o) /\ ~EntersDebug
    <2>1. ~Issues(in, o) /\ ~Completes(in, o) /\ ~EntersDebug
      BY <1>2 DEF Issues, Completes, ReplayGivenUp, EntersDebug
    <2>2. ~debug_mode_q /\ ~id.valid
      BY DEF ModeByState, IdByState
    <2>3. ex = Bubble /\ csr' = csr
      BY <1>1, <1>2, <1>3, CsrStep, NothingInEx
    <2> QED BY <2>1, <2>2, <2>3
  <1>5. TypeOK' /\ Latched(in, o)
    BY <1>1, <1>2, <1>3, <1>4, Clocked
  <1>6. due' = due /\ performed' = performed /\ stepped' = 0 /\ ex' = Bubble
    BY <1>2, <1>3, <1>4 DEF Edge, NextDue, NextPerformed, NextStepped, NextEx, StepByState
  <1>7. (~id'.valid /\ pc_if' = pc_if) \/ Loaded(in, o)
    <2>1. [id EXCEPT !.valid = @ /\ ~(id_ready(in) \/ o.halt_id \/ branch_taken_ex)].valid = FALSE
      BY <1>4 DEF TypeOK
    <2> QED BY <1>2, <1>3, <2>1, FetchStep DEF Kept
  <1>8. CASE ~id'.valid /\ pc_if' = pc_if
    <2>1. ModeByState'
      BY <1>2, <1>4, <1>5, <1>6, <1>8, SMTT(30) DEF ModeByState
    <2>2. ExByState'
      BY <1>2, <1>4, <1>5, <1>6, <1>8, SMTT(30) DEF ExByState, Branches, StatusWrites
    <2>3. IdByState'
      BY <1>2, <1>4, <1>5, <1>6, <1>8, SMTT(30) DEF ModeByState, IdByState, ExByState, Fits
    <2>4. DueByState'
      BY <1>2, <1>4, <1>5, <1>6, <1>8, SMTT(30)
         DEF ModeByState, DueByState, ExByState, DueInIf, DueInId, FetchBehindId,
             branch_taken_ex, Branches
    <2>5. StepByState'
      BY <1>2, <1>4, <1>5, <1>6, <1>8, SMTT(30) DEF ModeByState, StepByState, ExByState
    <2> QED BY <1>5, <2>1, <2>2, <2>3, <2>4, <2>5
  <1>9. CASE Loaded(in, o)
    <2>1. /\ id'.valid /\ id'.pc = pc_if /\ pc_if' = After(pc_if) /\ Fits(id'.class)
          /\ ctrl_fsm_cs' = "DECODE" /\ ~jump_done_q'
      BY <1>2, <1>5, <1>9, LoadedId DEF Allowed, CanLoad, Loaded
    <2>2. ModeByState'
      BY <1>2, <1>4, <1>5, <1>6, <2>1, SMTT(30) DEF ModeByState
    <2>3. ExByState'
      BY <1>2, <1>4, <1>5, <1>6, <2>1, SMTT(30) DEF ExByState, Branches, StatusWrites
    <2>4. IdByState'
      BY <1>2, <1>4, <1>5, <1>6, <2>1, SMTT(30) DEF ModeByState, IdByState, ExByState, Fits
    <2>5. DueByState'
      BY <1>2, <1>4, <1>5, <1>6, <2>1, SMTT(30)
         DEF ModeByState, DueByState, ExByState, DueInIf, DueInId, FetchBehindId,
             branch_taken_ex, Branches
    <2>6. StepByState'
      BY <1>2, <1>4, <1>5, <1>6, <2>1, SMTT(30) DEF ModeByState, StepByState, ExByState
    <2> QED BY <1>5, <2>2, <2>3, <2>4, <2>5, <2>6
  <1> QED BY <1>7, <1>8, <1>9

-----------------------------------------------------------------------------
(* DECODE keeps the invariant, by what is in ID.                              *)

(* DECODE with nothing to decode: the bubble of an empty ID, or a taken       *)
(* branch that sets fetch and drops what follows it.                          *)
LEMMA DecodeIdleStep ==
    ASSUME ~IrqWithdrawn, ControlInv, NEW in \in Inputs, In("DECODE"), Edge(in, Decode(in)),
           branch_taken_ex \/ ~InstructionInId
    PROVE  ControlInv'
  <1> DEFINE o == Decode(in)
  <1>1. o \in Outputs
    BY QuietType, Setters DEF Decode, TypeOK
  <1>2. /\ o.next = "DECODE" /\ o.pc_set = (IF branch_taken_ex THEN {ex.target} ELSE {})
        /\ ~o.decoding /\ o.csr = "keep"
        /\ ~o.ack /\ ~o.kill /\ o.jump_done = jump_done_q /\ o.illegal = illegal_insn_q
        /\ o.debug = debug_mode_q /\ o.replay = FALSE
    BY DEF Decode, SetPc, Quiet
  <1>3. Edge(in, o)
    OBVIOUS
  <1> HIDE DEF o
  <1>4. ~Issues(in, o) /\ ~Completes(in, o) /\ ~EntersDebug
    BY <1>2 DEF Issues, Completes, ReplayGivenUp, EntersDebug
  <1>5. TypeOK' /\ Latched(in, o)
    BY <1>1, <1>2, <1>3, <1>4, Clocked DEF ExByState
  <1>6. /\ due' = due /\ performed' = performed /\ stepped' = 0
        /\ ex' = IF ex_ready(in) THEN Bubble ELSE ex
    BY <1>2, <1>3, <1>4 DEF Edge, NextDue, NextPerformed, NextStepped, NextEx, StepByState
  <1>7. \/ ~id'.valid /\ pc_if' = IF branch_taken_ex THEN ex.target ELSE pc_if
        \/ Loaded(in, o)
    <2>1. [id EXCEPT !.valid = @ /\ ~(id_ready(in) \/ o.halt_id \/ branch_taken_ex)].valid = FALSE
      BY DEF TypeOK
    <2> QED BY <1>2, <1>3, <2>1, FetchStep DEF Kept
  <1>8. CASE ~id'.valid /\ pc_if' = IF branch_taken_ex THEN ex.target ELSE pc_if
    <2>1. ModeByState'
      BY <1>2, <1>5, <1>6, <1>8, SMTT(30) DEF ModeByState
    <2>2. ExByState'
      BY <1>2, <1>5, <1>6, <1>8, SMTT(30)
         DEF ExByState, Branches, StatusWrites, ex_ready, branch_in_ex
    <2>3. IdByState'
      BY <1>2, <1>5, <1>6, <1>8, SMTT(30) DEF ModeByState, IdByState, ExByState, Fits
    <2>4. DueByState'
      BY <1>2, <1>5, <1>6, <1>8, SMTT(30)
         DEF ModeByState, DueByState, ExByState, DueInIf, DueInId, FetchBehindId,
             branch_taken_ex, Branches, ex_ready, branch_in_ex
    <2>5. StepByState'
      BY <1>2, <1>5, <1>6, <1>8, SMTT(30) DEF ModeByState, StepByState, ExByState
    <2> QED BY <1>5, <2>1, <2>2, <2>3, <2>4, <2>5
  <1>9. CASE Loaded(in, o)
    <2>1. /\ id'.valid /\ id'.pc = pc_if /\ pc_if' = After(pc_if) /\ Fits(id'.class)
          /\ ~branch_taken_ex /\ ~jump_done_q'
      BY <1>2, <1>5, <1>9, LoadedId DEF Allowed, CanLoad, Loaded
    <2>2. ModeByState'
      BY <1>2, <1>5, <1>6, <2>1, SMTT(30) DEF ModeByState
    <2>3. ExByState'
      BY <1>2, <1>5, <1>6, <2>1, SMTT(30)
         DEF ExByState, Branches, StatusWrites, ex_ready, branch_in_ex
    <2>4. IdByState'
      BY <1>2, <1>5, <1>6, <2>1, SMTT(30) DEF ModeByState, IdByState, ExByState, Fits
    <2>5. DueByState'
      BY <1>2, <1>5, <1>6, <2>1, SMTT(30)
         DEF ModeByState, DueByState, ExByState, DueInIf, DueInId, FetchBehindId,
             branch_taken_ex, Branches, ex_ready, branch_in_ex
    <2>6. StepByState'
      BY <1>2, <1>5, <1>6, <2>1, SMTT(30) DEF ModeByState, StepByState, ExByState
    <2> QED BY <1>5, <2>2, <2>3, <2>4, <2>5, <2>6
  <1> QED BY <1>7, <1>8, <1>9

(* DECODE outside debug mode with an interrupt or a halt requested: the       *)
(* instruction in ID stays there and is not executed.                         *)
LEMMA DecodeBreakStep ==
    ASSUME ~IrqWithdrawn, ControlInv, NEW in \in Inputs, In("DECODE"), Edge(in, Decode(in)),
           ~branch_taken_ex, InstructionInId, ~debug_mode_q,
           debug_req \/ (irq_req /\ csr.mie)
    PROVE  ControlInv'
  <1> DEFINE o == Decode(in)
  <1>1. o \in Outputs
    BY QuietType, Setters, Loaders DEF Decode, Halted, States
  <1>2. /\ o.next = (IF debug_req THEN "DBG_FLUSH" ELSE "IRQ_FLUSH")
        /\ o.decoding /\ o.halt_if /\ o.halt_id /\ o.pc_set = {} /\ o.csr = "keep"
        /\ ~o.ack /\ ~o.kill /\ o.jump_done = jump_done_q /\ o.illegal = illegal_insn_q
        /\ o.debug = debug_mode_q /\ o.replay = FALSE
    BY DEF Decode, Halted, Halt, GoTo, Quiet
  <1>3. Edge(in, o)
    OBVIOUS
  <1> HIDE DEF o
  <1>4. ~Issues(in, o) /\ ~Completes(in, o) /\ ~EntersDebug
    BY <1>2 DEF Issues, passes, Completes, ReplayGivenUp, EntersDebug
  <1>5. TypeOK' /\ Latched(in, o)
    BY <1>1, <1>2, <1>3, <1>4, Clocked, NoWriteInEx
  <1>6. /\ due' = due /\ performed' = performed /\ stepped' = 0
        /\ ex'.op = "none" /\ ex'.target = 0 /\ csr' = csr
    <2>1. /\ due' = due /\ performed' = performed /\ stepped' = 0
          /\ ex' = IF ex_ready(in) THEN Bubble ELSE ex
      BY <1>2, <1>3, <1>4 DEF Edge, NextDue, NextPerformed, NextStepped, NextEx, StepByState
    <2>2. ex'.op = "none" /\ ex'.target = 0
      BY <2>1, NoWriteInEx DEF ex_ready, branch_in_ex, Branches
    <2> QED BY <1>1, <1>2, <1>3, <2>1, <2>2, NoWriteInEx, CsrStep
  <1>7. ~id'.valid /\ id'.pc = id.pc /\ id'.class = id.class /\ pc_if' = pc_if
    BY <1>1, <1>2, <1>3, StaysInId DEF CanLoad
  <1>8. jump_done_q' => jump_done_q
    BY <1>2, <1>5
  <1>9. ModeByState'
    BY <1>2, <1>5, <1>6, <1>7, <1>8, SMTT(30) DEF ModeByState
  <1>10. ExByState'
    BY <1>2, <1>5, <1>6, <1>7, <1>8, SMTT(30) DEF ExByState, Branches, StatusWrites
  <1>11. IdByState'
    BY <1>2, <1>5, <1>6, <1>7, <1>8, SMTT(30)
       DEF ModeByState, IdByState, ExByState, Fits, irq_req
  <1>12. DueByState'
    BY <1>2, <1>5, <1>6, <1>7, <1>8, SMTT(30)
       DEF ModeByState, DueByState, ExByState, DueInIf, DueInId, FetchBehindId,
           branch_taken_ex, Branches, IdByState
  <1>13. StepByState'
    BY <1>2, <1>5, <1>6, <1>7, <1>8, SMTT(30) DEF ModeByState, StepByState, ExByState
  <1> QED BY <1>5, <1>9, <1>10, <1>11, <1>12, <1>13

(* DECODE of an exception: its address is saved and the trap taken.           *)
LEMMA DecodeTrapStep ==
    ASSUME ~IrqWithdrawn, ControlInv, NEW in \in Inputs, Undisturbed, Edge(in, Decode(in)),
           IsTrap(id.class)
    PROVE  ControlInv'
  <1> DEFINE o == Decode(in)
  <1>1. o = IF Stepping THEN Stepped(in) ELSE Decoded(in)
    BY DEF Decode, Undisturbed
  <1>2. o \in Outputs
    BY <1>1, DecodedType
  <1>3. /\ o.next = "FLUSH_EX" /\ o.decoding /\ o.halt_if /\ o.halt_id /\ o.pc_set = {}
        /\ o.csr = "trap" /\ o.save = id.pc
        /\ ~o.ack /\ o.jump_done = jump_done_q
        /\ o.illegal = (illegal_insn_q \/ id.class = "illegal")
        /\ o.debug = debug_mode_q /\ o.replay = FALSE
    BY <1>1 DEF Decoded, Stepped, AfterStep, SaveId, Halt, GoTo, Quiet
  <1>4. Edge(in, o)
    OBVIOUS
  <1> HIDE DEF o
  <1>5. /\ ~Issues(in, o) /\ ~EntersDebug /\ In("DECODE")
        /\ ~debug_mode_q /\ ~illegal_insn_q /\ Fits(id.class)
    <2>1. ~Issues(in, o) /\ ~EntersDebug /\ In("DECODE")
      BY <1>3 DEF Issues, passes, EntersDebug, Undisturbed
    <2>2. ~illegal_insn_q /\ Fits(id.class)
      BY DEF IdByState, Undisturbed
    <2> QED BY <2>1, <2>2 DEF Fits, IsTrap
  <1>6. TypeOK' /\ Latched(in, o)
    BY <1>2, <1>3, <1>4, Clocked DEF ExByState
  <1>7. /\ due' = TrapVector /\ stepped' \in 0..1 /\ (~Stepping => stepped' = 0)
        /\ ex'.op = "none" /\ ex'.target = 0
        /\ ~id'.valid /\ id'.class = id.class /\ pc_if' = pc_if
    <2>1. /\ due' = TrapVector /\ stepped' \in 0..1 /\ (~Stepping => stepped' = 0)
          /\ ex' = IF ex_ready(in) THEN Bubble ELSE ex
      BY <1>3, <1>4, <1>5 DEF Edge, NextDue, NextStepped, NextEx, Counted, StepByState
    <2>2. ex'.op = "none" /\ ex'.target = 0
      BY <1>5, <2>1, NoWriteInEx DEF ex_ready, branch_in_ex, Branches, Undisturbed
    <2> QED BY <1>2, <1>3, <1>4, <2>1, <2>2, StaysInId DEF CanLoad
  <1>8. jump_done_q' => o.jump_done
    BY <1>6
  <1>9. illegal_insn_q' <=> id.class = "illegal"
    BY <1>3, <1>5, <1>6
  <1>10. ModeByState'
    BY <1>3, <1>5, <1>6, <1>7, <1>8, <1>9, SMTT(30) DEF ModeByState
  <1>11. ExByState'
    BY <1>3, <1>5, <1>6, <1>7, <1>8, <1>9, SMTT(30) DEF ExByState, Branches, StatusWrites
  <1>12. IdByState'
    BY <1>3, <1>5, <1>6, <1>7, <1>8, <1>9, SMTT(30)
       DEF ModeByState, IdByState, ExByState, Fits, IsTrap, Traps
  <1>13. DueByState'
    BY <1>3, <1>5, <1>6, <1>7, <1>8, <1>9, SMTT(30)
       DEF ModeByState, DueByState, ExByState, DueInIf, DueInId, FetchBehindId,
           branch_taken_ex, Branches, IsTrap, Traps
  <1>14. StepByState'
    BY <1>3, <1>5, <1>6, <1>7, <1>8, <1>9, SMTT(30)
       DEF ModeByState, StepByState, ExByState, IsTrap, Traps
  <1> QED BY <1>6, <1>10, <1>11, <1>12, <1>13, <1>14

(* DECODE of an ebreak that enters debug mode, or that ends a debugger's      *)
(* command.                                                                   *)
LEMMA DecodeEbreakStep ==
    ASSUME ~IrqWithdrawn, ControlInv, NEW in \in Inputs, Undisturbed, Edge(in, Decode(in)),
           id.class = "ebreak", ~IsTrap(id.class)
    PROVE  ControlInv'
  <1> DEFINE o == Decode(in)
  <1>1. o = IF Stepping THEN Stepped(in) ELSE Decoded(in)
    BY DEF Decode, Undisturbed
  <1>2. o \in Outputs
    BY <1>1, DecodedType
  <1>3. Fits(id.class) /\ ~Stepping
    <2>1. Fits(id.class)
      BY DEF IdByState, Undisturbed
    <2> QED BY <2>1 DEF Fits, IsTrap
  <1>4. /\ o.next = "DBG_FLUSH" /\ o.decoding /\ o.halt_if /\ o.halt_id /\ o.pc_set = {}
        /\ o.csr = "keep"
        /\ ~o.ack /\ o.jump_done = jump_done_q /\ o.illegal = illegal_insn_q
        /\ o.debug = debug_mode_q /\ o.replay = FALSE
    BY <1>1, <1>3 DEF Decoded, Halt, GoTo, Quiet
  <1>5. Edge(in, o)
    OBVIOUS
  <1> HIDE DEF o
  <1>6. /\ ~Issues(in, o) /\ ~EntersDebug /\ In("DECODE") /\ ~Completes(in, o)
    BY <1>4 DEF Issues, passes, EntersDebug, Undisturbed, Completes, ReplayGivenUp, Waits
  <1>7. TypeOK' /\ Latched(in, o)
    BY <1>2, <1>4, <1>5, Clocked DEF ExByState
  <1>8. /\ due' = due /\ stepped' = 0 /\ performed' = performed
        /\ ex' = IF ex_ready(in) THEN Bubble ELSE ex
        /\ ~id'.valid /\ id'.class = id.class /\ id'.pc = id.pc /\ pc_if' = pc_if
    <2>1. /\ due' = due /\ stepped' = 0 /\ performed' = performed
          /\ ex' = IF ex_ready(in) THEN Bubble ELSE ex
      BY <1>4, <1>5, <1>6 DEF Edge, NextDue, NextStepped, NextEx, NextPerformed, StepByState
    <2> QED BY <1>2, <1>4, <1>5, <2>1, StaysInId DEF CanLoad
  <1>9. jump_done_q' => o.jump_done
    BY <1>7
  <1>10. ModeByState'
    BY <1>4, <1>6, <1>7, <1>8, <1>9, <1>3, SMTT(30) DEF ModeByState
  <1>11. ExByState'
    BY <1>4, <1>6, <1>7, <1>8, <1>9, <1>3, SMTT(30)
       DEF ExByState, Branches, StatusWrites, ex_ready, branch_in_ex, Undisturbed
  <1>12. IdByState'
    BY <1>4, <1>6, <1>7, <1>8, <1>9, <1>3, SMTT(30)
       DEF ModeByState, IdByState, ExByState, Fits, IsTrap, Traps
  <1>13. DueByState'
    BY <1>4, <1>6, <1>7, <1>8, <1>9, <1>3, SMTT(30)
       DEF ModeByState, DueByState, ExByState, DueInIf, DueInId, FetchBehindId,
           branch_taken_ex, Branches, IsTrap, Traps, Undisturbed
  <1>14. StepByState'
    BY <1>4, <1>6, <1>7, <1>8, <1>9, <1>3, SMTT(30)
       DEF ModeByState, StepByState, ExByState, IsTrap, Traps
  <1> QED BY <1>7, <1>10, <1>11, <1>12, <1>13, <1>14

(* DECODE of wfi, fence.i, mret and dret: they stay in ID and the pipeline is *)
(* flushed.                                                                   *)
LEMMA DecodeFlushStep ==
    ASSUME ~IrqWithdrawn, ControlInv, NEW in \in Inputs, Undisturbed, Edge(in, Decode(in)),
           id.class \in {"wfi", "fencei", "mret", "dret"}
    PROVE  ControlInv'
  <1> DEFINE o == Decode(in)
  <1>1. o = IF Stepping THEN Stepped(in) ELSE Decoded(in)
    BY DEF Decode, Undisturbed
  <1>2. o \in Outputs
    BY <1>1, DecodedType
  <1>3. Fits(id.class) /\ (Stepping => id.class = "mret")
    <2>1. Fits(id.class)
      BY DEF IdByState, Undisturbed
    <2> QED BY <2>1 DEF Fits
  <1>4. /\ o.next = "FLUSH_EX" /\ o.decoding /\ o.halt_if /\ o.halt_id /\ o.pc_set = {}
        /\ o.csr = "keep"
        /\ ~o.ack /\ o.jump_done = jump_done_q /\ o.illegal = illegal_insn_q
        /\ o.debug = debug_mode_q /\ o.replay = FALSE
    BY <1>1, <1>3 DEF Decoded, Stepped, AfterStep, IsTrap, Traps, Halt, GoTo, Quiet
  <1>5. Edge(in, o)
    OBVIOUS
  <1> HIDE DEF o
  <1>6. /\ ~Issues(in, o) /\ ~EntersDebug /\ In("DECODE") /\ ~Completes(in, o)
    BY <1>4 DEF Issues, passes, EntersDebug, Undisturbed, Completes, ReplayGivenUp, Waits
  <1>7. TypeOK' /\ Latched(in, o)
    BY <1>2, <1>4, <1>5, Clocked DEF ExByState
  <1>8. /\ due' = due /\ stepped' = 0 /\ performed' = performed
        /\ ex' = IF ex_ready(in) THEN Bubble ELSE ex
        /\ ~id'.valid /\ id'.class = id.class /\ id'.pc = id.pc /\ pc_if' = pc_if
    <2>1. /\ due' = due /\ stepped' = 0 /\ performed' = performed
          /\ ex' = IF ex_ready(in) THEN Bubble ELSE ex
      BY <1>4, <1>5, <1>6 DEF Edge, NextDue, NextStepped, NextEx, NextPerformed, StepByState
    <2> QED BY <1>2, <1>4, <1>5, <2>1, StaysInId DEF CanLoad
  <1>9. jump_done_q' => o.jump_done
    BY <1>7
  <1>10. ModeByState'
    BY <1>4, <1>6, <1>7, <1>8, <1>9, <1>3, SMTT(30) DEF ModeByState
  <1>11. ExByState'
    BY <1>4, <1>6, <1>7, <1>8, <1>9, <1>3, SMTT(30)
       DEF ExByState, Branches, StatusWrites, ex_ready, branch_in_ex, Undisturbed
  <1>12. IdByState'
    BY <1>4, <1>6, <1>7, <1>8, <1>9, <1>3, SMTT(30)
       DEF ModeByState, IdByState, ExByState, Fits, Traps, Undisturbed
  <1>13. DueByState'
    BY <1>4, <1>6, <1>7, <1>8, <1>9, <1>3, SMTT(30)
       DEF ModeByState, DueByState, ExByState, DueInIf, DueInId, FetchBehindId,
           branch_taken_ex, Branches, Traps, Undisturbed, StatusWrites, IdByState
  <1>14. StepByState'
    BY <1>4, <1>6, <1>7, <1>8, <1>9, <1>3, SMTT(30)
       DEF ModeByState, StepByState, ExByState, Traps
  <1> QED BY <1>7, <1>10, <1>11, <1>12, <1>13, <1>14

(* DECODE of an instruction that cannot leave ID: it stays, valid, and a jump *)
(* sets the pc only once meanwhile.                                           *)
LEMMA DecodeHeldStep ==
    ASSUME ~IrqWithdrawn, ControlInv, NEW in \in Inputs, Undisturbed, Edge(in, Decode(in)),
           id.class \in Executed, ~id_ready(in), id.valid
    PROVE  ControlInv'
  <1> DEFINE o == Decode(in)
  <1>1. o = IF Stepping THEN Stepped(in) ELSE Decoded(in)
    BY DEF Decode, Undisturbed
  <1>2. o \in Outputs
    BY <1>1, DecodedType
  <1>3. /\ o.next = "DECODE" /\ o.decoding /\ ~o.halt_id /\ o.csr = "keep"
        /\ o.pc_set = IF Jumps(in) THEN {Target(id.pc)} ELSE {}
        /\ o.jump_done = IF Jumps(in) THEN TRUE ELSE jump_done_q
        /\ ~o.ack /\ o.illegal = illegal_insn_q
        /\ o.debug = debug_mode_q /\ o.replay = FALSE
    BY DecodeExecuted
  <1>4. Edge(in, o)
    OBVIOUS
  <1> HIDE DEF o
  <1>5. /\ ~Issues(in, o) /\ ~EntersDebug /\ In("DECODE") /\ ~Completes(in, o) /\ ~CanLoad(in, o)
    <2>1. ~instr_valid_irq_flush_q
      BY DEF IdByState
    <2> QED BY <1>3, <2>1
               DEF Issues, passes, EntersDebug, Undisturbed, Completes, ReplayGivenUp,
                   Waits, CanLoad, Executed, StatusWrites, Branches
  <1>6. TypeOK' /\ Latched(in, o)
    BY <1>2, <1>3, <1>4, Clocked DEF ExByState
  <1>7. /\ due' = due /\ stepped' = 0 /\ performed' = performed
        /\ ex' = IF ex_ready(in) THEN Bubble ELSE ex
        /\ id'.valid /\ id'.class = id.class /\ id'.pc = id.pc
        /\ pc_if' = IF Jumps(in) THEN Target(id.pc) ELSE pc_if
    <2>1. /\ due' = due /\ stepped' = 0 /\ performed' = performed
          /\ ex' = IF ex_ready(in) THEN Bubble ELSE ex
      BY <1>3, <1>4, <1>5 DEF Edge, NextDue, NextStepped, NextEx, NextPerformed, StepByState
    <2> QED BY <1>2, <1>3, <1>4, <1>5, <2>1, StaysInId DEF Undisturbed
  <1>8. jump_done_q' => o.jump_done
    BY <1>6
  <1>9. jump_done_q' = IF Jumps(in) THEN TRUE ELSE jump_done_q
    BY <1>3, <1>6 DEF TypeOK
  <1>10. DueInId /\ FetchBehindId
    BY DEF DueByState, Undisturbed
  <1>11. DueInId' /\ FetchBehindId'
    BY <1>7, <1>9, <1>10 DEF DueInId, FetchBehindId, Jumps
  <1>12. ModeByState'
    BY <1>3, <1>5, <1>6, <1>7, <1>8, <1>9, <1>11, SMTT(30) DEF ModeByState
  <1>13. ExByState'
    BY <1>3, <1>5, <1>6, <1>7, <1>8, <1>9, <1>11, SMTT(30)
       DEF ExByState, Branches, StatusWrites, ex_ready, branch_in_ex, Undisturbed
  <1>14. IdByState'
    BY <1>3, <1>5, <1>6, <1>7, <1>8, <1>9, <1>11, SMTT(30)
       DEF ModeByState, IdByState, ExByState, Fits, Undisturbed, Jumps
  <1>15. DueByState'
    BY <1>3, <1>5, <1>6, <1>7, <1>8, <1>9, <1>11, SMTT(30)
       DEF ModeByState, DueByState, ExByState, DueInIf, DueInId, FetchBehindId,
           branch_taken_ex, Branches, Undisturbed, Jumps
  <1>16. StepByState'
    BY <1>3, <1>5, <1>6, <1>7, <1>8, <1>9, <1>11, SMTT(30)
       DEF ModeByState, StepByState, ExByState
  <1> QED BY <1>6, <1>12, <1>13, <1>14, <1>15, <1>16

(* DECODE of an event load that is back from IRQ_FLUSH and stalled: without   *)
(* its valid bit it is not performed again, and the next edge finds nothing   *)
(* in ID.                                                                     *)
LEMMA ReplayGivenUpStep ==
    ASSUME ~IrqWithdrawn, ControlInv, NEW in \in Inputs, Undisturbed, Edge(in, Decode(in)),
           id.class \in Executed, ~id_ready(in), ~id.valid
    PROVE  ControlInv'
  <1> DEFINE o == Decode(in)
  <1>1. o = IF Stepping THEN Stepped(in) ELSE Decoded(in)
    BY DEF Decode, Undisturbed
  <1>2. o \in Outputs
    BY <1>1, DecodedType
  <1>3. /\ o.next = "DECODE" /\ o.decoding /\ ~o.halt_id /\ o.csr = "keep"
        /\ o.pc_set = IF Jumps(in) THEN {Target(id.pc)} ELSE {}
        /\ o.jump_done = IF Jumps(in) THEN TRUE ELSE jump_done_q
        /\ ~o.ack /\ o.illegal = illegal_insn_q
        /\ o.debug = debug_mode_q /\ o.replay = FALSE
    BY DecodeExecuted
  <1>4. Edge(in, o)
    OBVIOUS
  <1> HIDE DEF o
  <1>5. /\ ~Issues(in, o) /\ ~EntersDebug /\ In("DECODE") /\ Completes(in, o) /\ ~CanLoad(in, o)
        /\ id.class = "elw" /\ Fits(id.class) /\ ~debug_mode_q /\ ~Stepping
    <2>1. instr_valid_irq_flush_q /\ id.class = "elw" /\ performed > 0
      BY DEF IdByState, Undisturbed
    <2>2. Fits(id.class)
      BY DEF IdByState, Undisturbed
    <2>3. ~debug_mode_q /\ ~Stepping
      BY <2>1, <2>2 DEF Fits
    <2> QED BY <1>3, <2>1, <2>2, <2>3
               DEF Issues, passes, EntersDebug, Undisturbed, Completes, ReplayGivenUp,
                   CanLoad
  <1>6. TypeOK' /\ Latched(in, o)
    BY <1>2, <1>3, <1>4, Clocked DEF ExByState
  <1>7. /\ due' = After(id.pc) /\ stepped' = 0
        /\ ex'.op = "none" /\ ex'.target = 0
        /\ ~id'.valid /\ pc_if' = After(id.pc)
    <2>1. /\ due' = After(id.pc) /\ stepped' = 0
          /\ ex' = IF ex_ready(in) THEN Bubble ELSE ex
      BY <1>3, <1>4, <1>5 DEF Edge, NextDue, NextStepped, NextEx
    <2>2. ex'.op = "none" /\ ex'.target = 0
      BY <1>5, <2>1, NoWriteInEx DEF ex_ready, branch_in_ex, Branches, Undisturbed
    <2>3. pc_if = After(id.pc)
      BY <1>5 DEF DueByState, IdByState, Undisturbed, FetchBehindId
    <2> QED BY <1>2, <1>3, <1>4, <1>5, <2>1, <2>2, <2>3, StaysInId DEF Undisturbed, Jumps
  <1>8. jump_done_q' => o.jump_done
    BY <1>6
  <1>9. ModeByState'
    BY <1>3, <1>5, <1>6, <1>7, <1>8, SMTT(30) DEF ModeByState
  <1>10. ExByState'
    BY <1>3, <1>5, <1>6, <1>7, <1>8, SMTT(30) DEF ExByState, Branches, StatusWrites
  <1>11. IdByState'
    BY <1>3, <1>5, <1>6, <1>7, <1>8, SMTT(30) DEF ModeByState, IdByState, ExByState, Fits
  <1>12. DueByState'
    BY <1>3, <1>5, <1>6, <1>7, <1>8, SMTT(30)
       DEF ModeByState, DueByState, ExByState, DueInIf, DueInId, FetchBehindId,
           branch_taken_ex, Branches
  <1>13. StepByState'
    BY <1>3, <1>5, <1>6, <1>7, <1>8, SMTT(30) DEF ModeByState, StepByState, ExByState
  <1> QED BY <1>6, <1>9, <1>10, <1>11, <1>12, <1>13

(* DECODE of an instruction that goes to EX: the next one is loaded behind    *)
(* it, unless fetch is halted or set to a target.                             *)
LEMMA DecodeIssueStep ==
    ASSUME ~IrqWithdrawn, ControlInv, NEW in \in Inputs, Undisturbed, Edge(in, Decode(in)),
           id.class \in Executed, id_ready(in)
    PROVE  ControlInv'
  <1> DEFINE o == Decode(in)
  <1>1. o = IF Stepping THEN Stepped(in) ELSE Decoded(in)
    BY DEF Decode, Undisturbed
  <1>2. o \in Outputs
    BY <1>1, DecodedType
  <1>3. /\ o.next = IF Stepping THEN AfterStep(id.class)
                    ELSE IF id.class \in StatusWrites THEN "FLUSH_EX"
                    ELSE IF id.class = "elw" THEN "ELW_EXE" ELSE "DECODE"
        /\ o.decoding /\ ~o.halt_id /\ o.csr = "keep"
        /\ o.halt_if <=> Stepping \/ id.class \in StatusWrites \cup {"elw"}
        /\ o.pc_set = IF Jumps(in) THEN {Target(id.pc)} ELSE {}
        /\ ~o.ack /\ o.illegal = illegal_insn_q
        /\ o.debug = debug_mode_q /\ o.replay = FALSE
    BY DecodeExecuted
  <1>4. Edge(in, o)
    OBVIOUS
  <1> HIDE DEF o
  <1>5. /\ Issues(in, o) /\ ~EntersDebug /\ In("DECODE")
        /\ (Completes(in, o) <=> id.class # "elw")
        /\ ~illegal_insn_q /\ Fits(id.class)
        /\ id.class = "elw" => ~debug_mode_q /\ ~Stepping /\ ~csr.step
        /\ id.class # "jump" => ~jump_done_q
    <2>1. Issues(in, o) /\ ~EntersDebug /\ In("DECODE")
        /\ (Completes(in, o) <=> id.class # "elw")
      BY <1>3
         DEF Issues, passes, EntersDebug, Undisturbed, Completes, ReplayGivenUp, Waits,
             Executed, StatusWrites, Branches
    <2>2. ~illegal_insn_q /\ Fits(id.class) /\ (id.class # "jump" => ~jump_done_q)
      BY DEF IdByState, Undisturbed
    <2>3. id.class = "elw" => ~debug_mode_q /\ ~Stepping /\ ~csr.step
      BY <2>2 DEF Fits
    <2> QED BY <2>1, <2>2, <2>3
  <1>6. TypeOK' /\ Latched(in, o)
    BY <1>2, <1>3, <1>4, Clocked DEF ExByState
  <1>7. /\ due' = IF id.class = "elw" THEN due
                  ELSE IF id.class \in {"jump", "taken"} THEN Target(id.pc) ELSE After(id.pc)
        /\ stepped' = IF Stepping THEN 1 ELSE 0
        /\ id.class = "elw" => performed' > 0
        /\ ex'.op = IF id.class \in StatusWrites \cup Branches THEN id.class ELSE "none"
        /\ ex'.target = IF id.class = "taken" THEN Target(id.pc) ELSE 0
    <2>1. /\ due' = IF id.class = "elw" THEN due
                    ELSE IF id.class \in {"jump", "taken"} THEN Target(id.pc) ELSE After(id.pc)
          /\ stepped' = IF Stepping THEN 1 ELSE 0
      BY <1>3, <1>4, <1>5 DEF Edge, NextDue, NextStepped, Counted, StepByState
    <2>2. id.class = "elw" => performed' > 0
      BY <1>3, <1>4, <1>5 DEF Edge, NextPerformed, Counted, TypeOK
    <2>3. /\ ex'.op = IF id.class \in StatusWrites \cup Branches THEN id.class ELSE "none"
          /\ ex'.target = IF id.class = "taken" THEN Target(id.pc) ELSE 0
      BY <1>4, <1>5 DEF Edge, NextEx, StatusWrites, Branches
    <2> QED BY <2>1, <2>2, <2>3
  <1>8. ~jump_done_q'
    BY <1>6
  <1>9. DueInId /\ FetchBehindId
    BY DEF DueByState, Undisturbed
  <1>10. /\ id.class \notin {"taken", "elw"} =>
               due' = IF Jumps(in) THEN Target(id.pc) ELSE pc_if
         /\ id.class \in {"taken", "elw"} => ~Jumps(in) /\ pc_if = After(id.pc)
    <2>1. id.class = "jump" => Jumps(in) \/ jump_done_q
      BY DEF Jumps, Inputs, id_ready
    <2> QED BY <1>5, <1>7, <1>9, <2>1 DEF FetchBehindId, Jumps
  <1>11. CASE ~CanLoad(in, o)
    <2>1. /\ ~id'.valid /\ id'.class = id.class /\ id'.pc = id.pc
          /\ pc_if' = IF Jumps(in) THEN Target(id.pc) ELSE pc_if
      BY <1>2, <1>3, <1>4, <1>11, StaysInId
    <2>2. (Stepping => Stepping') /\ (~Stepping => ~Stepping')
      BY <1>3, <1>6
    <2>3. ModeByState'
      BY <1>3, <1>5, <1>6, <1>7, <1>8, <1>9, <1>10, <2>1, <2>2, SMTT(30)
         DEF ModeByState, AfterStep, Branches, StatusWrites
    <2>4. ExByState'
      BY <1>3, <1>5, <1>6, <1>7, <1>8, <1>9, <1>10, <2>1, <2>2, SMTT(30)
         DEF ExByState, Branches, StatusWrites, AfterStep, IsTrap, Executed, Traps, Fits
    <2>5. IdByState'
      BY <1>3, <1>5, <1>6, <1>7, <1>8, <1>9, <1>10, <2>1, <2>2, SMTT(30)
         DEF ModeByState, IdByState, ExByState, Fits, AfterStep, IsTrap, Executed,
             Traps, StatusWrites, Branches
    <2>6. DueByState'
      BY <1>3, <1>5, <1>6, <1>7, <1>8, <1>9, <1>10, <2>1, <2>2, SMTT(30)
         DEF ModeByState, DueByState, ExByState, DueInIf, DueInId, FetchBehindId,
             branch_taken_ex, Branches, AfterStep, IsTrap, Executed, Traps, StatusWrites
    <2>7. StepByState'
      BY <1>3, <1>5, <1>6, <1>7, <1>8, <1>9, <1>10, <2>1, <2>2, SMTT(30)
         DEF ModeByState, StepByState, ExByState, AfterStep, IsTrap, Executed, Traps,
             StatusWrites, Branches
    <2> QED BY <1>6, <2>3, <2>4, <2>5, <2>6, <2>7
  <1>12. CASE CanLoad(in, o)
    <2>1. ~Stepping /\ id.class \notin StatusWrites \cup {"elw"} /\ o.pc_set = {} /\ ~Jumps(in)
      BY <1>3, <1>12 DEF CanLoad
    <2>2. Kept(in, o) \/ Loaded(in, o)
      BY <1>4, FetchStep
    <2>3. CASE Kept(in, o)
      <3>1. id' = [id EXCEPT !.valid = @ /\ ~(id_ready(in) \/ o.halt_id \/ branch_taken_ex)]
        BY <2>3 DEF Kept
      <3>2. ~id'.valid /\ pc_if' = pc_if
        BY <2>1, <2>3, <3>1 DEF Kept, TypeOK
      <3>3. ModeByState'
        BY <1>3, <1>5, <1>6, <1>7, <1>8, <1>10, <2>1, <3>2, SMTT(30) DEF ModeByState
      <3>4. ExByState'
        BY <1>3, <1>5, <1>6, <1>7, <1>8, <1>10, <2>1, <3>2, SMTT(30)
           DEF ExByState, Branches, StatusWrites, Executed
      <3>5. IdByState'
        BY <1>3, <1>5, <1>6, <1>7, <1>8, <1>10, <2>1, <3>2, SMTT(30)
           DEF ModeByState, IdByState, ExByState, Fits
      <3>6. DueByState'
        BY <1>3, <1>5, <1>6, <1>7, <1>8, <1>10, <2>1, <3>2, SMTT(30)
           DEF ModeByState, DueByState, ExByState, DueInIf, DueInId, FetchBehindId,
               branch_taken_ex, Branches
      <3>7. StepByState'
        BY <1>3, <1>5, <1>6, <1>7, <1>8, <1>10, <2>1, <3>2, SMTT(30)
           DEF ModeByState, StepByState, ExByState
      <3> QED BY <1>6, <3>3, <3>4, <3>5, <3>6, <3>7
    <2>4. CASE Loaded(in, o)
      <3>1. id'.valid /\ id'.pc = pc_if /\ pc_if' = After(pc_if) /\ Fits(id'.class)
        BY <2>4, LoadedId DEF Allowed, Loaded
      <3>2. ModeByState'
        BY <1>3, <1>5, <1>6, <1>7, <1>8, <1>10, <2>1, <3>1, SMTT(30) DEF ModeByState
      <3>3. ExByState'
        BY <1>3, <1>5, <1>6, <1>7, <1>8, <1>10, <2>1, <3>1, SMTT(30)
           DEF ExByState, Branches, StatusWrites, Executed
      <3>4. IdByState'
        BY <1>3, <1>5, <1>6, <1>7, <1>8, <1>10, <2>1, <3>1, SMTT(30)
           DEF ModeByState, IdByState, ExByState, Fits
      <3>5. DueByState'
        BY <1>3, <1>5, <1>6, <1>7, <1>8, <1>10, <2>1, <3>1, SMTT(30)
           DEF ModeByState, DueByState, ExByState, DueInIf, DueInId, FetchBehindId,
               branch_taken_ex, Branches
      <3>6. StepByState'
        BY <1>3, <1>5, <1>6, <1>7, <1>8, <1>10, <2>1, <3>1, SMTT(30)
           DEF ModeByState, StepByState, ExByState
      <3> QED BY <1>6, <3>2, <3>3, <3>4, <3>5, <3>6
    <2> QED BY <2>2, <2>3, <2>4
  <1> QED BY <1>11, <1>12

(* DECODE, by cases.                                                          *)
LEMMA DecodeStep ==
    ASSUME ~IrqWithdrawn, ControlInv, NEW in \in Inputs, In("DECODE"), Edge(in, Decode(in))
    PROVE  ControlInv'
  <1>1. CASE branch_taken_ex \/ ~InstructionInId
    BY <1>1, DecodeIdleStep
  <1>2. CASE /\ ~branch_taken_ex /\ InstructionInId /\ ~debug_mode_q
             /\ debug_req \/ (irq_req /\ csr.mie)
    BY <1>2, DecodeBreakStep
  <1>3. CASE Undisturbed
    <2>1. id.class \in Traps \cup {"ebreak", "wfi", "fencei", "mret", "dret"} \cup Executed
      BY DEF TypeOK, AllClasses, Executed
    <2>2. CASE IsTrap(id.class)
      BY <1>3, <2>2, DecodeTrapStep
    <2>3. CASE id.class = "ebreak" /\ ~IsTrap(id.class)
      BY <1>3, <2>3, DecodeEbreakStep
    <2>4. CASE id.class \in {"wfi", "fencei", "mret", "dret"}
      BY <1>3, <2>4, DecodeFlushStep
    <2>5. CASE id.class \in Executed
      BY <1>3, <2>5, DecodeHeldStep, ReplayGivenUpStep, DecodeIssueStep
    <2> QED BY <2>1, <2>2, <2>3, <2>4, <2>5 DEF IsTrap
  <1> QED BY <1>1, <1>2, <1>3 DEF Undisturbed

-----------------------------------------------------------------------------
(* The invariant, and what it gives.                                          *)

(* Every step of the core keeps the invariant.                                *)
LEMMA ControlStep ==
    ASSUME ~IrqWithdrawn, ControlInv, Next
    PROVE  ControlInv'
  <1>1. PICK in \in Inputs : Clock(in)
    BY DEF Next
  <1>2. CASE StartsUp(in)
    BY <1>2, ResetStep, BootSetStep, FirstFetchStep DEF StartsUp
  <1>3. CASE Decodes(in)
    BY <1>3, DecodeStep DEF Decodes
  <1>4. CASE Flushes(in)
    BY <1>4, FlushExStep, FlushWbStep, XretJumpStep DEF Flushes
  <1>5. CASE Sleeps(in)
    BY <1>5, WaitSleepStep, AsleepStep DEF Sleeps
  <1>6. CASE Interrupts(in)
    BY <1>6, IrqFlushStep, ElwExeStep, IrqTakenIdStep, IrqTakenIfStep DEF Interrupts
  <1>7. CASE Debugs(in)
    BY <1>7, DbgWaitBranchStep, DbgFlushStep, DbgTakenIdStep, DbgTakenIfStep DEF Debugs
  <1> QED BY <1>1, <1>2, <1>3, <1>4, <1>5, <1>6, <1>7 DEF Clock

(* The invariant is about the variables of the core alone.                    *)
LEMMA ControlUnchanged ==
    ASSUME ControlInv, UNCHANGED vars
    PROVE  ControlInv'
  <1>1. UNCHANGED <<ctrl_fsm_cs, jump_done_q, illegal_insn_q, debug_mode_q, exc_ctrl_cs,
                    instr_valid_irq_flush_q, pc_if, id, ex, csr, irq, debug_req, due,
                    performed, stepped>>
    BY DEF vars, ctrlVars
  <1>2. TypeOK' /\ ModeByState'
    BY <1>1 DEF TypeOK, ModeByState, irq_req
  <1>3. ExByState' /\ StepByState'
    BY <1>1 DEF ExByState, StepByState
  <1>4. IdByState'
    BY <1>1 DEF IdByState, branch_taken_ex, Fits, irq_req
  <1>5. DueByState'
    BY <1>1 DEF DueByState, branch_taken_ex, DueInId, DueInIf, FetchBehindId
  <1> QED BY <1>2, <1>3, <1>4, <1>5

(* It holds out of reset.                                                     *)
LEMMA ControlInit == Init => ControlInv
  <1> SUFFICES ASSUME Init PROVE ControlInv
    OBVIOUS
  <1>1. PICK ebreakm \in BOOLEAN :
            csr = [mie |-> FALSE, mpie |-> FALSE, mpp |-> "M", mepc |-> 0,
                   dpc |-> 0, step |-> FALSE, ebreakm |-> ebreakm]
    BY DEF Init
  <1>2. TypeOK
    <2>1. csr \in CsrType
      <3>1. CASE ebreakm = TRUE
        BY <1>1, <3>1, AddressesClosed DEF CsrType
      <3>2. CASE ebreakm = FALSE
        BY <1>1, <3>2, AddressesClosed DEF CsrType
      <3> QED BY <3>1, <3>2
    <2>2. id \in [valid : BOOLEAN, pc : Addr, class : AllClasses]
      BY AddressesClosed DEF Init, AllClasses
    <2>3. ex \in [op : {"none"} \cup StatusWrites \cup Branches, target : Addr]
      BY AddressesClosed DEF Init
    <2>4. pc_if \in Addr /\ due \in Addr /\ performed \in 0..2 /\ stepped \in 0..2
      BY AddressesClosed DEF Init
    <2>5. /\ ctrl_fsm_cs \in States /\ exc_ctrl_cs \in {"IDLE", "PENDING", "DONE"}
          /\ {jump_done_q, illegal_insn_q, debug_mode_q, instr_valid_irq_flush_q}
                 \subseteq BOOLEAN
          /\ irq \in BOOLEAN /\ debug_req \in BOOLEAN
      BY DEF Init, States
    <2> QED BY <2>1, <2>2, <2>3, <2>4, <2>5 DEF TypeOK, CsrType
  <1>3. ModeByState /\ ExByState /\ StepByState
    BY <1>1 DEF Init, ModeByState, ExByState, StepByState, Branches, StatusWrites, irq_req
  <1>4. IdByState /\ DueByState
    BY <1>1 DEF Init, IdByState, DueByState, branch_taken_ex
  <1> QED BY <1>2, <1>3, <1>4

(* The controller, the pipeline registers and the request lines always fit    *)
(* together: the invariant says, state by state of the controller, what may   *)
(* be in EX, what is in ID, and where the instruction due is. Interrupt       *)
(* requests are held until they are taken; where one may be withdrawn, the    *)
(* replay of the instruction it has broken off can lose it                    *)
(* (riscv_controller.sv:647).                                                 *)
THEOREM ControlIsInvariant ==
    ASSUME ~IrqWithdrawn
    PROVE  Spec => []ControlInv
  <1>1. ControlInv /\ [Next]_vars => ControlInv'
    BY ControlStep, ControlUnchanged
  <1> QED BY <1>1, ControlInit, PTL DEF Spec

(* The instruction the controller decodes is the one that is due: none is     *)
(* skipped, repeated or taken from the wrong path of a branch, for every      *)
(* program, every pipeline stall and every interrupt and halt                 *)
(* (riscv_controller.sv, riscv_if_stage.sv).                                  *)
THEOREM DecodesInOrder ==
    ASSUME ~IrqWithdrawn
    PROVE  Spec => []InOrder
  <1>1. ControlInv => InOrder
    BY DEF DueByState, DueInId, InOrder
  <1> QED BY <1>1, ControlIsInvariant, PTL

(* The core sleeps with nothing in flight and with fetch at the instruction   *)
(* due (WAIT_SLEEP and SLEEP of riscv_controller.sv).                         *)
THEOREM SleepsWithNothingInFlight ==
    ASSUME ~IrqWithdrawn
    PROVE  Spec => []SleepsDrained
  <1>1. ControlInv => SleepsDrained
    BY NothingInEx DEF DueByState, IdByState, DueInIf, SleepsDrained
  <1> QED BY <1>1, ControlIsInvariant, PTL

(* A single step completes at most one instruction, interrupts and exceptions *)
(* included (riscv_controller.sv:554).                                        *)
THEOREM StepsOneAtATime ==
    ASSUME ~IrqWithdrawn
    PROVE  Spec => []StepsOne
  <1>1. ControlInv => StepsOne
    BY DEF StepByState, StepsOne
  <1> QED BY <1>1, ControlIsInvariant, PTL

(* How an edge looks to the program: an ordinary one, a trap, a return, or an  *)
(* entry to debug mode.                                                        *)
-----------------------------------------------------------------------------
(* The core is a hart: what an edge means to the program.                     *)

(* What an edge may mean to the program, by the outputs of the controller: an *)
(* ordinary edge, on which an instruction may take effect or not; a trap; a   *)
(* return from one; a return from debug mode; an entry to debug mode.         *)
Ordinary(in, o) ==
    /\ o.csr = "keep" /\ o.debug = debug_mode_q /\ ~EntersDebug
    /\ Completes(in, o) => DueInId
    /\ Issues(in, o) => Fits(id.class)

Trapping(in, o) ==
    /\ o.csr = "trap" /\ o.debug = debug_mode_q /\ ~EntersDebug
    /\ o.save = due /\ ~debug_mode_q /\ ~Issues(in, o) /\ ex.op \notin StatusWrites
    /\ o.ack => csr.mie

ReturningFromTrap(o) ==
    o.csr = "mret" /\ o.debug = debug_mode_q /\ ~o.decoding /\ ~EntersDebug /\ ex = Bubble

LeavingDebug(o) ==
    /\ o.csr = "keep" /\ debug_mode_q /\ ~o.debug /\ ~o.decoding /\ ~EntersDebug
    /\ ex = Bubble

EnteringDebug(o) ==
    /\ EntersDebug /\ o.debug /\ ~o.decoding
    /\ IF debug_mode_q THEN o.csr = "keep" ELSE o.csr = "debug" /\ o.save = due

Outcome(in, o) ==
    \/ Ordinary(in, o) \/ Trapping(in, o)
    \/ ReturningFromTrap(o) \/ LeavingDebug(o) \/ EnteringDebug(o)

(* A write in EX that is not followed by another leaves the registers as the  *)
(* program sees them.                                                         *)
LEMMA WrittenKept ==
    ASSUME TypeOK, NEW in \in Inputs, NEW o \in Outputs, Edge(in, o), o.csr = "keep",
           ~(Issues(in, o) /\ id.class \in StatusWrites)
    PROVE  Written' = Written
  <1>1. csr' = Written
    BY CsrStep
  <1>2. CASE Issues(in, o)
    <2>1. ex'.op \notin StatusWrites
      BY <1>2 DEF Edge, NextEx, StatusWrites, Branches
    <2> QED BY <1>1, <2>1 DEF Written, StatusWrites
  <1>3. CASE ~Issues(in, o) /\ ex_ready(in)
    <2>1. ex'.op \notin StatusWrites
      BY <1>3 DEF Edge, NextEx, StatusWrites
    <2> QED BY <1>1, <2>1 DEF Written, StatusWrites
  <1>4. CASE ~Issues(in, o) /\ ~ex_ready(in)
    <2>1. ex' = ex
      BY <1>4 DEF Edge, NextEx
    <2>2. csr \in CsrType
      BY DEF TypeOK, CsrType
    <2> QED BY <1>1, <2>1, <2>2 DEF Written, CsrType
  <1> QED BY <1>2, <1>3, <1>4

(* An ordinary edge executes the instruction due, or changes nothing a        *)
(* program sees.                                                              *)
LEMMA OrdinaryStep ==
    ASSUME TypeOK, NEW in \in Inputs, NEW o \in Outputs, Edge(in, o), Ordinary(in, o)
    PROVE  [Program!HartNext]_Program!hartVars
  <1>1. /\ due' = (IF ~Completes(in, o) THEN due
                   ELSE IF id.class \in {"jump", "taken"} THEN Target(id.pc) ELSE After(id.pc))
        /\ debug_mode_q' = debug_mode_q
    BY DEF Edge, NextDue, Ordinary
  <1>2. Completes(in, o) => id.pc = due
    BY DEF Ordinary, DueInId
  <1>3. CASE Issues(in, o) /\ id.class \in StatusWrites
    <2>1. Completes(in, o) /\ id.class \notin {"jump", "taken"}
      BY <1>3 DEF Completes, StatusWrites
    <2>2. csr' = Written
      BY CsrStep DEF Ordinary
    <2>3. ex'.op = id.class
      BY <1>3 DEF Edge, NextEx, StatusWrites
    <2>4. Fits(id.class)
      BY <1>3 DEF Ordinary
    <2>5. \/ \E b \in BOOLEAN : Written' = [Written EXCEPT !.mie = b]
          \/ debug_mode_q /\ \E b \in BOOLEAN : Written' = [Written EXCEPT !.step = b]
      <3>1. CASE id.class \in {"set_mie", "clear_mie"}
        <4>1. Written' = [csr' EXCEPT !.mie = ex'.op = "set_mie"]
          BY <2>3, <3>1 DEF Written
        <4> QED BY <2>2, <2>3, <4>1
      <3>2. CASE id.class \in {"set_step", "clear_step"}
        <4>1. Written' = [csr' EXCEPT !.step = ex'.op = "set_step"]
          BY <2>3, <3>2 DEF Written
        <4>2. debug_mode_q
          BY <2>4, <3>2 DEF Fits
        <4> QED BY <2>2, <2>3, <4>1, <4>2
      <3> QED BY <1>3, <3>1, <3>2 DEF StatusWrites
    <2>6. Program!WriteStatus
      BY <1>1, <1>2, <2>1, <2>5 DEF Program!WriteStatus, After, Program!After
    <2> QED BY <2>6 DEF Program!HartNext
  <1>4. CASE ~(Issues(in, o) /\ id.class \in StatusWrites)
    <2>1. Written' = Written
      BY <1>4, WrittenKept DEF Ordinary
    <2>2. CASE Completes(in, o)
      <3>1. Program!Execute
        BY <1>1, <1>2, <2>1, <2>2
           DEF Program!Execute, After, Target, Program!After, Program!Target
      <3> QED BY <3>1 DEF Program!HartNext
    <2>3. CASE ~Completes(in, o)
      BY <1>1, <2>1, <2>3 DEF Program!hartVars
    <2> QED BY <2>2, <2>3
  <1> QED BY <1>3, <1>4

(* A trap saves the address of the instruction due and disables interrupts.   *)
LEMMA TrappingStep ==
    ASSUME TypeOK, NEW in \in Inputs, NEW o \in Outputs, Edge(in, o), Trapping(in, o)
    PROVE  [Program!HartNext]_Program!hartVars
  <1>1. /\ due' = (IF o.ack THEN IrqVector ELSE TrapVector) /\ debug_mode_q' = debug_mode_q
        /\ ~debug_mode_q
    BY DEF Edge, NextDue, Trapping
  <1>2. Written = csr
    BY DEF Trapping, Written, StatusWrites
  <1>3. csr' = [Written EXCEPT !.mepc = due, !.mpie = csr.mie, !.mie = FALSE, !.mpp = "M"]
    BY DEF Edge, NextCsr, Trapping
  <1>4. Written' = csr'
    <2>1. ex'.op \notin StatusWrites
      BY DEF Edge, NextEx, Trapping, StatusWrites
    <2> QED BY <2>1 DEF Written, StatusWrites
  <1>5. Written' = Program!Trapped(Written, due)
    BY <1>2, <1>3, <1>4 DEF Program!Trapped
  <1>6. CASE o.ack
    <2>1. Program!Interrupt
      BY <1>1, <1>2, <1>5, <1>6 DEF Program!Interrupt, Trapping
    <2> QED BY <2>1 DEF Program!HartNext
  <1>7. CASE ~o.ack
    <2>1. Program!Exception
      BY <1>1, <1>5, <1>7 DEF Program!Exception
    <2> QED BY <2>1 DEF Program!HartNext
  <1> QED BY <1>6, <1>7

(* A return from a trap restores the interrupt enable and goes on at mepc.    *)
LEMMA ReturningStep ==
    ASSUME TypeOK, NEW in \in Inputs, NEW o \in Outputs, Edge(in, o), ReturningFromTrap(o)
    PROVE  [Program!HartNext]_Program!hartVars
  <1>1. due' = csr.mepc /\ debug_mode_q' = debug_mode_q
    BY DEF Edge, NextDue, ReturningFromTrap
  <1>2. Written = csr
    BY DEF ReturningFromTrap, Written
  <1>3. csr' = [Written EXCEPT !.mie = csr.mpie, !.mpie = TRUE, !.mpp = "U"]
    BY DEF Edge, NextCsr, ReturningFromTrap
  <1>4. Written' = csr'
    <2>1. ex' = Bubble
      BY DEF Edge, NextEx, Issues, ReturningFromTrap
    <2> QED BY <2>1 DEF Written
  <1>5. Program!Mret
    BY <1>1, <1>2, <1>3, <1>4 DEF Program!Mret, Program!Returned
  <1> QED BY <1>5 DEF Program!HartNext

(* A return from debug mode goes on at dpc.                                   *)
LEMMA LeavingDebugStep ==
    ASSUME TypeOK, NEW in \in Inputs, NEW o \in Outputs, Edge(in, o), LeavingDebug(o)
    PROVE  [Program!HartNext]_Program!hartVars
  <1>1. due' = csr.dpc /\ debug_mode_q /\ debug_mode_q' = FALSE
    BY DEF Edge, NextDue, LeavingDebug, Outputs
  <1>2. Written = csr
    BY DEF LeavingDebug, Written
  <1>3. Written' = Written
    BY WrittenKept DEF LeavingDebug, Issues
  <1>4. Program!Dret
    BY <1>1, <1>2, <1>3 DEF Program!Dret
  <1> QED BY <1>4 DEF Program!HartNext

(* An entry to debug mode saves the address of the instruction due.           *)
LEMMA EnteringDebugStep ==
    ASSUME ControlInv, NEW in \in Inputs, NEW o \in Outputs, Edge(in, o), EnteringDebug(o)
    PROVE  [Program!HartNext]_Program!hartVars
  <1>1. due' = DebugVector /\ debug_mode_q' = TRUE /\ ~Issues(in, o)
    BY DEF Edge, NextDue, EnteringDebug, Outputs, Issues
  <1>2. CASE debug_mode_q
    <2>1. Written' = Written
      BY <1>1, <1>2, WrittenKept DEF EnteringDebug
    <2>2. debug_mode_q = TRUE
      BY <1>2 DEF TypeOK
    <2>3. Program!Park
      BY <1>1, <2>1, <2>2 DEF Program!Park
    <2> QED BY <2>3 DEF Program!HartNext
  <1>3. CASE ~debug_mode_q
    <2>1. csr' = [Written EXCEPT !.dpc = due]
      BY <1>3 DEF Edge, NextCsr, EnteringDebug
    <2>2. ex.op \notin {"set_step", "clear_step"}
      BY <1>3 DEF ExByState
    <2>3. csr \in CsrType
      BY DEF TypeOK, CsrType
    <2>4. ex' = Bubble \/ ex' = ex
      BY <1>1 DEF Edge, NextEx
    <2>5. ex' = Bubble => Written' = [Written EXCEPT !.dpc = due]
      BY <2>1 DEF Written
    <2>6. ex' = ex => Written' = [Written EXCEPT !.dpc = due]
      <3> HAVE ex' = ex
      <3>1. CASE ex.op = "set_mie"
        BY <2>1, <2>3, <3>1 DEF Written, CsrType
      <3>2. CASE ex.op = "clear_mie"
        BY <2>1, <2>3, <3>2 DEF Written, CsrType
      <3>3. CASE ex.op \notin {"set_mie", "clear_mie"}
        BY <2>1, <2>2, <3>3 DEF Written
      <3> QED BY <3>1, <3>2, <3>3
    <2>7. Written' = [Written EXCEPT !.dpc = due]
      BY <2>4, <2>5, <2>6
    <2>8. Program!EnterDebug
      BY <1>1, <1>3, <2>7 DEF Program!EnterDebug
    <2> QED BY <2>8 DEF Program!HartNext
  <1> QED BY <1>2, <1>3

(* A state that does not decode, asks nothing of the registers and leaves the *)
(* mode alone makes an ordinary edge.                                         *)
LEMMA OrdinaryOutside ==
    ASSUME ControlInv, NEW in \in Inputs, NEW o \in Outputs,
           ~In("DECODE"), ~EntersDebug, o.csr = "keep", o.debug = debug_mode_q, ~o.decoding
    PROVE  Outcome(in, o)
  <1>1. ~Issues(in, o)
    BY DEF Issues
  <1>2. Completes(in, o) => DueInId
    BY DEF Completes, Issues, ReplayGivenUp, DueByState, Waits, Traps, StatusWrites
  <1> QED BY <1>1, <1>2 DEF Outcome, Ordinary

(* These are the states that do so,                                           *)
LEMMA OrdinaryStates ==
    ASSUME ControlInv, NEW in \in Inputs
    PROVE  /\ In("RESET") => \A next \in {"RESET", "BOOT_SET"} : Outcome(in, GoTo(Quiet, next))
           /\ In("BOOT_SET") => Outcome(in, BootSet)
           /\ In("FIRST_FETCH") => Outcome(in, FirstFetch(in))
           /\ In("FLUSH_EX") => Outcome(in, FlushEx(in))
           /\ In("WAIT_SLEEP") => Outcome(in, GoTo(Halted, "SLEEP"))
           /\ In("SLEEP") => Outcome(in, Asleep)
           /\ In("IRQ_FLUSH") => Outcome(in, IrqFlush)
           /\ In("ELW_EXE") => Outcome(in, ElwExe(in))
           /\ In("DBG_WAIT_BRANCH") => Outcome(in, DbgWaitBranch)
           /\ In("DBG_FLUSH") => Outcome(in, DbgFlush)
  <1> DEFINE Keeps(o) == o \in Outputs /\ o.csr = "keep" /\ o.debug = debug_mode_q /\ ~o.decoding
  <1>1. \A o : Keeps(o) /\ ~In("DECODE") /\ ~EntersDebug => Outcome(in, o)
    BY OrdinaryOutside
  <1>2. TypeOK
    OBVIOUS
  <1>3. /\ \A state \in States : Keeps(GoTo(Quiet, state)) /\ Keeps(GoTo(Halted, state))
        /\ Keeps(Quiet) /\ Keeps(BootSet) /\ Keeps(IrqFlush) /\ Keeps(DbgWaitBranch)
    BY <1>2, ControllerOutputs, QuietType
       DEF GoTo, Halted, Halt, Quiet, BootSet, SetPc, IrqFlush, DbgWaitBranch
  <1>4. Keeps(FirstFetch(in)) /\ Keeps(FlushEx(in)) /\ Keeps(Asleep)
        /\ Keeps(ElwExe(in)) /\ Keeps(DbgFlush)
    <2> HIDE DEF Keeps
    <2> QED BY <1>3 DEF FirstFetch, FlushEx, Asleep, ElwExe, DbgFlush, States
  <1> HIDE DEF Keeps
  <1> QED BY <1>1, <1>3, <1>4 DEF EntersDebug, States

(* and these trap, return, or enter debug mode.                               *)
LEMMA OtherStates ==
    ASSUME ControlInv, NEW in \in Inputs
    PROVE  /\ In("FLUSH_WB") => Outcome(in, FlushWb)
           /\ In("XRET_JUMP") => Outcome(in, XretJump)
           /\ In("IRQ_TAKEN_ID") => Outcome(in, IrqTaken(id.pc))
           /\ In("IRQ_TAKEN_IF") => Outcome(in, IrqTaken(pc_if))
           /\ In("DBG_TAKEN_ID") => Outcome(in, DbgTakenId)
           /\ In("DBG_TAKEN_IF") => Outcome(in, EnterDebug(pc_if))
  <1>1. TypeOK
    OBVIOUS
  <1>2. ASSUME In("FLUSH_WB") PROVE Outcome(in, FlushWb)
    <2>1. /\ FlushWb.csr \in {"keep", "mret"} /\ FlushWb.debug = debug_mode_q /\ ~FlushWb.decoding
      BY DEF FlushWb, Halted, Halt, SetPc, GoTo, Quiet
    <2>2. ex = Bubble /\ ~EntersDebug
      BY <1>2, NothingInEx DEF EntersDebug
    <2> QED BY <1>1, <1>2, <2>1, <2>2, ControllerOutputs, OrdinaryOutside
               DEF Outcome, ReturningFromTrap
  <1>3. ASSUME In("XRET_JUMP") PROVE Outcome(in, XretJump)
    <2>1. /\ XretJump.csr = "keep" /\ ~XretJump.decoding
          /\ XretJump.debug = IF id.class = "mret" THEN debug_mode_q ELSE FALSE
      BY DEF XretJump, SetPc, GoTo, Quiet
    <2>2. ex = Bubble /\ ~EntersDebug
      BY <1>3, NothingInEx DEF EntersDebug
    <2>3. id.class = IF debug_mode_q THEN "dret" ELSE "mret"
      BY <1>3 DEF IdByState
    <2> QED BY <1>1, <1>3, <2>1, <2>2, <2>3, ControllerOutputs, OrdinaryOutside
               DEF Outcome, LeavingDebug
  <1>4. ASSUME NEW a, a = due, ctrl_fsm_cs \in {"IRQ_TAKEN_ID", "IRQ_TAKEN_IF"}
        PROVE  Outcome(in, IrqTaken(a))
    <2>1. /\ IrqTaken(a).csr = "trap" /\ IrqTaken(a).save = a /\ ~IrqTaken(a).decoding
          /\ IrqTaken(a).debug = debug_mode_q
      BY DEF IrqTaken, SetPc, GoTo, Quiet
    <2>2. ex = Bubble /\ ~EntersDebug
      BY <1>4, NothingInEx DEF EntersDebug
    <2>3. ~debug_mode_q /\ csr.mie
      BY <1>4 DEF ModeByState
    <2> QED BY <1>4, <2>1, <2>2, <2>3 DEF Outcome, Trapping, Issues, StatusWrites
  <1>5. ASSUME NEW a, a = due, EntersDebug, ~debug_mode_q
        PROVE  Outcome(in, EnterDebug(a))
    <2>1. /\ EnterDebug(a).csr = "debug" /\ EnterDebug(a).save = a /\ ~EnterDebug(a).decoding
          /\ EnterDebug(a).debug
      BY DEF EnterDebug, SetPc, GoTo, Quiet
    <2> QED BY <1>5, <2>1 DEF Outcome, EnteringDebug
  <1>6. /\ In("IRQ_TAKEN_ID") => id.pc = due
        /\ In("IRQ_TAKEN_IF") => pc_if = due
        /\ In("DBG_TAKEN_IF") => pc_if = due /\ ~debug_mode_q
        /\ In("DBG_TAKEN_ID") /\ ~debug_mode_q =>
              id.pc = due /\ (debug_req \/ ForcedDebug(id.class))
    BY DEF DueByState, ModeByState, DueInId, DueInIf
  <1>7. ASSUME In("DBG_TAKEN_ID") PROVE Outcome(in, DbgTakenId)
    <2>1. CASE debug_mode_q
      <3>1. DbgTakenId.csr = "keep" /\ ~DbgTakenId.decoding /\ DbgTakenId.debug
        BY <2>1 DEF DbgTakenId, EnterDebug, SetPc, GoTo, Quiet
      <3> QED BY <1>7, <2>1, <3>1 DEF Outcome, EnteringDebug, EntersDebug
    <2>2. CASE ~debug_mode_q
      BY <1>5, <1>6, <1>7, <2>2 DEF DbgTakenId, EntersDebug
    <2> QED BY <2>1, <2>2
  <1> QED BY <1>2, <1>3, <1>4, <1>5, <1>6, <1>7 DEF EntersDebug

(* DECODE makes an ordinary edge or a trap.                                   *)
LEMMA DecodeOutcome ==
    ASSUME ControlInv, NEW in \in Inputs, In("DECODE")
    PROVE  Decode(in) \in Outputs /\ Outcome(in, Decode(in))
  <1> DEFINE o == Decode(in)
  <1>1. ~EntersDebug /\ TypeOK
    BY DEF EntersDebug
  <1>2. CASE branch_taken_ex \/ ~InstructionInId
    <2>1. o \in Outputs
      BY <1>1, <1>2, QuietType, Setters DEF Decode, TypeOK
    <2>2. o.next = "DECODE" /\ o.csr = "keep" /\ o.debug = debug_mode_q /\ ~o.decoding
      BY <1>2 DEF Decode, SetPc, Quiet
    <2> HIDE DEF o
    <2>3. ~Issues(in, o) /\ ~Completes(in, o)
      BY <2>2 DEF Issues, Completes, ReplayGivenUp
    <2> QED BY <1>1, <2>1, <2>2, <2>3 DEF Outcome, Ordinary, o
  <1>3. CASE ~branch_taken_ex /\ InstructionInId
    <2>1. DueInId /\ Fits(id.class)
      BY <1>3 DEF DueByState, IdByState
    <2>2. CASE ~Undisturbed
      <3>1. o = [GoTo(Halted, "IRQ_FLUSH") EXCEPT !.decoding = TRUE]
              \/ o = [GoTo(Halted, "DBG_FLUSH") EXCEPT !.decoding = TRUE]
        BY <1>3, <2>2 DEF Undisturbed, Decode
      <3>2. o \in Outputs
        BY <1>1, <3>1, ControllerOutputs, Loaders DEF States
      <3>3. o.csr = "keep" /\ o.debug = debug_mode_q
        BY <3>1 DEF GoTo, Halted, Halt, Quiet
      <3> QED BY <1>1, <2>1, <3>2, <3>3 DEF Outcome, Ordinary
    <2>3. CASE Undisturbed
      <3>1. o = IF Stepping THEN Stepped(in) ELSE Decoded(in)
        BY <2>3 DEF Decode, Undisturbed
      <3>2. o \in Outputs
        BY <1>1, <3>1, DecodedType
      <3>3. CASE IsTrap(id.class)
        <4>1. o.csr = "trap" /\ o.save = id.pc /\ ~o.ack /\ o.halt_id /\ o.debug = debug_mode_q
          BY <3>1, <3>3 DEF Decoded, Stepped, SaveId, Halt, GoTo, Quiet
        <4>2. ~debug_mode_q
          BY <2>1, <3>3 DEF IsTrap, Fits
        <4>3. ex.op \notin StatusWrites
          BY <2>3, <4>2, NoWriteInEx DEF Undisturbed, StatusWrites
        <4> HIDE DEF o
        <4>4. ~Issues(in, o) /\ o.save = due
          BY <2>1, <4>1 DEF Issues, passes, DueInId
        <4> QED BY <1>1, <3>2, <4>1, <4>2, <4>3, <4>4 DEF Outcome, Trapping, o
      <3>4. CASE ~IsTrap(id.class) /\ id.class \in {"ebreak", "wfi", "fencei", "mret", "dret"}
        <4>1. o.csr = "keep" /\ o.debug = debug_mode_q
          BY <3>1, <3>4 DEF Decoded, Stepped, Halt, GoTo, Quiet
        <4> QED BY <1>1, <2>1, <3>2, <4>1 DEF Outcome, Ordinary
      <3>5. CASE id.class \in Executed
        <4>1. o.csr = "keep" /\ o.debug = debug_mode_q
          BY <1>1, <2>3, <3>5, DecodeExecuted
        <4> QED BY <1>1, <2>1, <3>2, <4>1 DEF Outcome, Ordinary
      <3> QED BY <3>3, <3>4, <3>5 DEF TypeOK, AllClasses, Executed, IsTrap
    <2> QED BY <2>2, <2>3
  <1> QED BY <1>2, <1>3

(* So every step of the core has one of the outcomes,                         *)
LEMMA EveryEdge ==
    ASSUME ControlInv, Next
    PROVE  \E in \in Inputs : \E o \in Outputs : Edge(in, o) /\ Outcome(in, o)
  <1>1. PICK in \in Inputs : Clock(in)
    BY DEF Next
  <1> SUFFICES \E o \in Outputs : Edge(in, o) /\ Outcome(in, o)
    OBVIOUS
  <1>2. TypeOK
    OBVIOUS
  <1>3. CASE StartsUp(in)
    BY <1>2, <1>3, ControllerOutputs, OrdinaryStates DEF StartsUp, States
  <1>4. CASE Decodes(in)
    BY <1>4, DecodeOutcome DEF Decodes
  <1>5. CASE Flushes(in)
    BY <1>2, <1>5, ControllerOutputs, OrdinaryStates, OtherStates DEF Flushes
  <1>6. CASE Sleeps(in)
    BY <1>2, <1>6, ControllerOutputs, OrdinaryStates DEF Sleeps, States
  <1>7. CASE Interrupts(in)
    BY <1>2, <1>7, ControllerOutputs, OrdinaryStates, OtherStates DEF Interrupts
  <1>8. CASE Debugs(in)
    BY <1>2, <1>8, ControllerOutputs, OrdinaryStates, OtherStates DEF Debugs
  <1> QED BY <1>1, <1>3, <1>4, <1>5, <1>6, <1>7, <1>8 DEF Clock

(* and is a step of the hart, or changes nothing it knows of.                 *)
LEMMA HartStep ==
    ASSUME ControlInv, Next
    PROVE  [Program!HartNext]_Program!hartVars
  <1>1. PICK in \in Inputs, o \in Outputs : Edge(in, o) /\ Outcome(in, o)
    BY EveryEdge
  <1>2. TypeOK
    OBVIOUS
  <1> QED BY <1>1, <1>2, OrdinaryStep, TrappingStep, ReturningStep, LeavingDebugStep,
             EnteringDebugStep
             DEF Outcome

(* The core starts as the hart does.                                          *)
LEMMA HartStarts == Init => Program!HartInit
  <1> SUFFICES ASSUME Init PROVE Program!HartInit
    OBVIOUS
  <1>1. PICK ebreakm \in BOOLEAN :
            csr = [mie |-> FALSE, mpie |-> FALSE, mpp |-> "M", mepc |-> 0,
                   dpc |-> 0, step |-> FALSE, ebreakm |-> ebreakm]
    BY DEF Init
  <1>2. Written = csr
    BY DEF Init, Written
  <1> QED BY <1>1, <1>2 DEF Init, Program!HartInit, Program!ResetCsr

(* The core implements the hart: whatever the pipeline, the interrupt         *)
(* controller and the debugger do, instructions take effect one at a time and *)
(* in program order, every saved address is that of the first instruction     *)
(* that has not taken effect, and interrupts are taken only when enabled and  *)
(* outside debug mode.                                                        *)
THEOREM CoreIsAHart ==
    ASSUME ~IrqWithdrawn
    PROVE  Spec => ImplementsHart
  <1>1. ControlInv /\ [Next]_vars => [Program!HartNext]_Program!hartVars
    <2>1. ASSUME UNCHANGED vars PROVE UNCHANGED Program!hartVars
      BY <2>1 DEF vars, ctrlVars, Program!hartVars, Written
    <2> QED BY <2>1, HartStep
  <1> QED BY <1>1, HartStarts, ControlIsInvariant, PTL
             DEF Spec, ImplementsHart, Program!HartSpec

=============================================================================
