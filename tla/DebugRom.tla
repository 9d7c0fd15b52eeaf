------------------------------ MODULE DebugRom ------------------------------
(***************************************************************************)
(* The debug session of the Verilator bench                                *)
(* (src/tb/verilator-model/testbench.cpp): main loads a program and the    *)
(* debug ROM, raises debug_req for two cycles while the program runs, and  *)
(* leaves a command for a hart, which the ROM polls for and carries out.   *)
(*                                                                         *)
(* The core executes one instruction at a time; how many cycles each takes *)
(* is left open, so the request meets any instruction or is missed.  The   *)
(* core enters the ROM at the address the bench loads it to: the halt      *)
(* address of the core as wired is another one (README, Findings).         *)
(***************************************************************************)
EXTENDS Integers, Sequences

CONSTANTS Harts,         \* identifiers the hart may have
          FlaggedHart,   \* the one main leaves its command for
          Flags,         \* commands main may leave
          repeat_factor  \* stores before and after the registers are filled

STARTprogrammADDR == \h80
STARTdebugPROGaddr == \hA0800
FlagADDRESSbase == \hA0400
wheretoADDRESS == \hA0300

FLAGgo == 1
FLAGresume == 2

ASSUME DebugRomAssumption ==
    /\ Flags \subseteq {FLAGgo, FLAGresume} /\ repeat_factor \in Nat \ {0}
    /\ Harts \subseteq 0..\h3FF /\ FlaggedHart \in 0..\h3FF

(* The instructions the two programs use; lui is Li of the shifted constant.  *)
Li(rd, imm) == [op |-> "li", rd |-> rd, imm |-> imm]
Csrr(rd, csr) == [op |-> "csrr", rd |-> rd, csr |-> csr]
Csrw(csr, rs) == [op |-> "csrw", csr |-> csr, rs |-> rs]
Add(rd, rs, rs2) == [op |-> "add", rd |-> rd, rs |-> rs, rs2 |-> rs2]
Andi(rd, rs, bit) == [op |-> "andi", rd |-> rd, rs |-> rs, bit |-> bit]
Lbu(rd, offset, rs) == [op |-> "lbu", rd |-> rd, offset |-> offset, rs |-> rs]
Sw(rs2, offset, rs) == [op |-> "sw", rs2 |-> rs2, offset |-> offset, rs |-> rs]
Bnez(rs, offset) == [op |-> "bnez", rs |-> rs, offset |-> offset]
Jal(offset) == [op |-> "jal", offset |-> offset]
Plain(op) == [op |-> op]

s0 == 8
a0 == 10

-----------------------------------------------------------------------------
(* loadProgram: 102 stored to address 64 again and again, every register      *)
(* filled with ones, more stores, and a call to the environment.              *)
StoreWord == <<Li(15, 64), Li(14, 102), Sw(14, 0, 15)>>
StoreWords == [n \in 1..3 * repeat_factor |-> StoreWord[((n - 1) % 3) + 1]]
FillRegisters == [r \in 1..31 |-> Li(r, -1)]
ClearArguments == <<Li(11, 0), Li(12, 0), Li(13, 0), Li(17, 93)>>
Exit == Append(ClearArguments, Plain("ecall"))

loadProgram == StoreWords \o FillRegisters \o ClearArguments \o StoreWords \o Exit

(* loadDebugProgram.                                                          *)
Vectors == <<Jal(12), Jal(96), Jal(68), Plain("nop")>>  \* entry, resume, exception

Save == <<Csrw("dscratch0", s0), Csrw("dscratch1", a0)>>

(* Mutation: the ROM polls the flag of the next word.                         *)
Poll_next ==
    <<Csrr(s0, "mhartid"), Li(a0, \hA0000), Sw(s0, \h100, a0),
      Add(s0, s0, a0), Lbu(s0, \h404, s0), Andi(s0, s0, 1), Bnez(s0, 36),
      Csrr(s0, "mhartid"), Add(s0, s0, a0), Lbu(s0, \h404, s0), Andi(s0, s0, 2),
      Bnez(s0, -64), Jal(-48)>>

Poll ==
    <<Csrr(s0, "mhartid"), Li(a0, \hA0000), Sw(s0, \h100, a0),
      Add(s0, s0, a0), Lbu(s0, \h400, s0), Andi(s0, s0, 1), Bnez(s0, 36),
      Csrr(s0, "mhartid"), Add(s0, s0, a0), Lbu(s0, \h400, s0), Andi(s0, s0, 2),
      Bnez(s0, -64), Jal(-48)>>

Exception == <<Sw(0, \h10C, a0), Plain("ebreak")>>

Going ==
    <<Csrr(s0, "dscratch0"), Sw(0, \h104, a0), Csrr(a0, "dscratch1"), Jal(-1376)>>

(* Mutation: both registers are restored from the first scratch register.     *)
Resume_same ==
    <<Csrr(s0, "mhartid"), Li(a0, \hA0000), Sw(s0, \h108, a0),
      Csrr(s0, "dscratch0"), Csrr(a0, "dscratch0"), Plain("dret")>>

Resume ==
    <<Csrr(s0, "mhartid"), Li(a0, \hA0000), Sw(s0, \h108, a0),
      Csrr(s0, "dscratch0"), Csrr(a0, "dscratch1"), Plain("dret")>>

loadDebugProgram == Vectors \o Save \o Poll \o Exception \o Going \o Resume

-----------------------------------------------------------------------------
VARIABLES
    bench,       \* where main is: "reset", "run", "request", "flagged"
    mhartid, debug_mode, pc, dpc, dscratch,
    gpr,         \* the general purpose registers
    flag,        \* the nonzero bytes of the flags, as [address, value] pairs
    redirected,  \* whether whereto() has been called
    told         \* history: what the hart last told the debugger

romVars == <<bench, mhartid, debug_mode, pc, dpc, dscratch, gpr, flag, redirected, told>>

Program == STARTprogrammADDR + 4 * (Len(loadProgram) - 1)

(* The program ends below the words it shares memory with.                    *)
ASSUME ProgramFits == Program < wheretoADDRESS

InROM(a) == a \in STARTdebugPROGaddr..STARTdebugPROGaddr + 4 * (Len(loadDebugProgram) - 1)

(* whereto: a jump to the ROM's resume vector.                                *)
whereto == Jal(\h504)

(* What the core fetches; memory that was not loaded holds no instruction.    *)
Instruction ==
    IF pc \in STARTprogrammADDR..Program THEN loadProgram[(pc - STARTprogrammADDR) \div 4 + 1]
    ELSE IF InROM(pc) THEN loadDebugProgram[(pc - STARTdebugPROGaddr) \div 4 + 1]
    ELSE IF pc = wheretoADDRESS /\ redirected THEN whereto
    ELSE Plain("illegal")

Reg(r) == IF r = 0 THEN 0 ELSE gpr[r]
Byte(a) == IF \E f \in flag : f[1] = a THEN (CHOOSE f \in flag : f[1] = a)[2] ELSE 0

Executes(ops) == bench # "reset" /\ Instruction.op \in ops
Continue == pc' = pc + 4

Compute ==
    /\ Executes({"li", "csrr", "add", "andi", "lbu"})
    /\ LET i == Instruction
       IN  gpr' = [gpr EXCEPT ![i.rd] =
                     CASE i.op = "li" -> i.imm
                       [] i.op = "csrr" -> IF i.csr = "mhartid" THEN mhartid ELSE dscratch[i.csr]
                       [] i.op = "add" -> Reg(i.rs) + Reg(i.rs2)
                       [] i.op = "andi" -> i.bit * ((Reg(i.rs) \div i.bit) % 2)
                       [] i.op = "lbu" -> Byte(Reg(i.rs) + i.offset)]
    /\ Continue
    /\ UNCHANGED <<bench, mhartid, debug_mode, dpc, dscratch, flag, redirected, told>>

WriteScratch ==
    /\ Executes({"csrw"}) /\ Continue
    /\ dscratch' = [dscratch EXCEPT ![Instruction.csr] = Reg(Instruction.rs)]
    /\ UNCHANGED <<bench, mhartid, debug_mode, dpc, gpr, flag, redirected, told>>

(* The words a debugger looks at; other stores are not followed.              *)
Meaning(a) ==
    CASE a = \hA0100 -> "halted" [] a = \hA0104 -> "going"
      [] a = \hA0108 -> "resuming" [] a = \hA010C -> "exception" [] OTHER -> told

Store ==
    /\ Executes({"sw"}) /\ Continue
    /\ told' = Meaning(Reg(Instruction.rs) + Instruction.offset)
    /\ UNCHANGED <<bench, mhartid, debug_mode, dpc, dscratch, gpr, flag, redirected>>

Jump ==
    /\ Executes({"jal", "bnez", "nop"})
    /\ LET i == Instruction
       IN  pc' = IF i.op = "jal" \/ (i.op = "bnez" /\ Reg(i.rs) # 0) THEN pc + i.offset ELSE pc + 4
    /\ UNCHANGED <<bench, mhartid, debug_mode, dpc, dscratch, gpr, flag, redirected, told>>

DebugReturn ==
    /\ Executes({"dret"}) /\ pc' = dpc /\ debug_mode' = FALSE
    /\ UNCHANGED <<bench, mhartid, dpc, dscratch, gpr, flag, redirected, told>>

EnterDebug ==
    /\ bench = "request" /\ ~debug_mode
    /\ debug_mode' = TRUE /\ dpc' = pc /\ pc' = STARTdebugPROGaddr
    /\ UNCHANGED <<bench, mhartid, dscratch, gpr, flag, redirected, told>>

(* No handler is loaded for the call to the environment: the program is over. *)
Over == Executes({"ecall"}) /\ UNCHANGED romVars

Core == Compute \/ WriteScratch \/ Store \/ Jump \/ DebugReturn \/ EnterDebug

-----------------------------------------------------------------------------
(* main between its calls of clockSpin.                                       *)
coreVars == <<mhartid, debug_mode, pc, dpc, dscratch, gpr, told>>

EnableFetch == bench = "reset" /\ bench' = "run" /\ UNCHANGED <<coreVars, flag, redirected>>

RequestDebug == bench = "run" /\ bench' = "request" /\ UNCHANGED <<coreVars, flag, redirected>>

(* Mutation: the flag is left for whichever hart has number zero.             *)
DebugFLAG_base(hartID, debugFLAG) == {<<FlagADDRESSbase, debugFLAG>>}

DebugFLAG(hartID, debugFLAG) == {<<FlagADDRESSbase + hartID, debugFLAG>>}

(* The request is withdrawn, the flag set and whereto written at one time.    *)
LeaveCommand(debugFLAG) ==
    /\ bench = "request" /\ bench' = "flagged"
    /\ flag' = DebugFLAG(FlaggedHart, debugFLAG) /\ redirected' = TRUE
    /\ UNCHANGED coreVars

Main == EnableFetch \/ RequestDebug \/ \E f \in Flags : LeaveCommand(f)

RomInit ==
    /\ bench = "reset" /\ mhartid \in Harts /\ debug_mode = FALSE
    /\ pc = STARTprogrammADDR /\ dpc = 0 /\ dscratch = [r \in {"dscratch0", "dscratch1"} |-> 0]
    /\ gpr = [r \in 1..31 |-> 0]
    /\ flag = {} /\ redirected = FALSE /\ told = "nothing"

RomNext == Core \/ Main \/ Over

RomSpec == RomInit /\ [][RomNext]_romVars

-----------------------------------------------------------------------------
(* The registers when the program reaches its n-th instruction with nobody    *)
(* interfering: each holds what the last instruction to write it left there.  *)
Writes(n, r) == {m \in 1..n - 1 : loadProgram[m].op = "li" /\ loadProgram[m].rd = r}
LastWrite(n, r) == CHOOSE m \in Writes(n, r) : \A k \in Writes(n, r) : k <= m

RegistersBefore ==
    [n \in 1..Len(loadProgram) |->
        [r \in 1..31 |-> IF Writes(n, r) = {} THEN 0 ELSE loadProgram[LastWrite(n, r)].imm]]

\* The program cannot tell that it was debugged: wherever it is outside debug
\* mode, its registers are those of a run without a debugger, although the ROM
\* works with s0 and a0 and restores them twice on its way through `going`
\* (testbench.cpp:528-536, 613-626, 648-656).
SessionTransparent ==
    ~debug_mode => gpr = RegistersBefore[(pc - STARTprogrammADDR) \div 4 + 1]

(* A change of what the hart last told the debugger.                          *)
Answers ==
    told' # told =>
        \/ told = "nothing" /\ told' = "halted"
        \/ /\ mhartid = FlaggedHart /\ bench = "flagged"
           /\ <<told, told'>> \in {<<"halted", "going">>, <<"halted", "resuming">>,
                                   <<"going", "resuming">>}

\* The hart reports in order: halted, then going if it was told to go, then
\* resuming; each once a command is there for this hart and not before, and
\* never an exception (testbench.cpp:548, 618, 643).
HandshakeOrdered == [][Answers]_romVars

\* The hart the command is for leaves debug mode.
HartResumes == debug_mode /\ mhartid = FlaggedHart ~> ~debug_mode
=============================================================================
