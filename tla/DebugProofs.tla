---------------------------- MODULE DebugProofs -----------------------------
(***************************************************************************)
(* Theorems about the two ways into debug mode.  For every test access     *)
(* port, set of commands and tick delay, the JTAG server acts on the port  *)
(* as a debugger that held its pins would.  For every hart, command,       *)
(* length of the program and moment of the request, the debug ROM gives    *)
(* the program its registers back and reports in order.                    *)
(***************************************************************************)
EXTENDS RemoteBitbang, DebugRom, TLAPS

-----------------------------------------------------------------------------
(* The inductive invariant behind ActsAsTap: between calls the outputs are    *)
(* the library's pins; while a command is awaited nothing moves, so TDO as    *)
(* sampled is TDO.                                                            *)
InStep ==
    /\ TypeOK
    /\ init => pins = jtag \/ (at = "accept" /\ jtag = AllLow /\ pins = AllHigh)
    /\ init => pins.trstn = 1
    /\ ~init => jtag = AllLow /\ at = "clock" /\ client_fd = 0
    /\ settled => seen = jtag
    /\ at # "clock" => settled
    /\ at = "accept" => client_fd = 0
    /\ at = "read" => tdo = port.tdo
    /\ jtag = AllLow \/ seen = AllLow => port = PowerOn
    /\ jtag.trstn = 0 => jtag = AllLow
    /\ seen.trstn = 0 => seen = AllLow

-----------------------------------------------------------------------------
(* The port and its pins.                                                     *)

\* The port stays a port, whatever the pins do.
LEMMA ReactedType ==
    ASSUME NEW p \in Ports, NEW old \in Pins, NEW new \in Pins
    PROVE  Reacted(p, old, new) \in Ports
  BY TapAssumption DEF Reacted, Ports, Pins, PowerOn, Bit

\* Pins in their starting levels, or held in reset, leave the port in reset.
LEMMA ReactedReset ==
    ASSUME NEW p, NEW old \in Pins, NEW new \in Pins, old = AllLow \/ new = AllLow
    PROVE  Reacted(p, old, new) = PowerOn
  BY DEF Reacted, AllLow

\* The named levels are levels.
LEMMA LevelTypes == AllLow \in Pins /\ AllHigh \in Pins /\ PowerOn \in Ports
  BY TapAssumption DEF AllLow, AllHigh, PowerOn, Pins, Ports, Bit

\* A command leaves the reset pin as it is.
LEMMA LevelsHigh ==
    ASSUME NEW c \in Command, NEW t \in Bit
    PROVE  Levels(c, t) \in Pins /\ Levels(c, t).trstn = t
  BY DEF Levels, Pins, Command, Bit

\* The reset pin tells the two sets of levels apart.
LEMMA Trstn == AllLow.trstn = 0 /\ AllHigh.trstn = 1 /\ AllLow # AllHigh
  BY DEF AllLow, AllHigh

-----------------------------------------------------------------------------
LEMMA InStepInit == Init => InStep
  <1> SUFFICES ASSUME Init PROVE InStep
    OBVIOUS
  <1> USE DEF Init
  <1>1. sent \in Seq(Command) /\ executed \in 0..Len(sent) /\ replies \in Seq(Bit)
    OBVIOUS
  <1>2. init \in BOOLEAN /\ settled \in BOOLEAN
    BY Zenon
  <1>3. TypeOK
    BY <1>1, <1>2, LevelTypes, ServerAssumption DEF TypeOK, Bit
  <1> QED BY <1>3 DEF InStep

\* Every step keeps the library, the wires and the port in step.
LEMMA InStepNext == InStep /\ [Next]_vars => InStep'
  <1> SUFFICES ASSUME InStep, [Next]_vars PROVE InStep'
    OBVIOUS
  <1> USE DEF Running
  <1> USE LevelTypes, ServerAssumption
  <1>1. CASE Connect
    BY <1>1 DEF Connect, InStep, TypeOK, libVars, doneVars, simVars
  <1>2. ASSUME NEW c \in Sendable, Send(c) PROVE InStep'
    <2>1. sent' \in Seq(Command) /\ Len(sent') = Len(sent) + 1
      BY <1>2 DEF Send, InStep, TypeOK
    <2> QED BY <1>2, <2>1 DEF Send, InStep, TypeOK, libVars, doneVars, simVars
  <1>3. CASE Close
    BY <1>3 DEF Close, InStep, TypeOK, libVars, doneVars, simVars
  <1>4. CASE ClockEdge
    <2>1. init' \in BOOLEAN
      BY <1>4, Zenon DEF ClockEdge, jtag_tick, rbs_tick, rbs_init, InStep, TypeOK, libVars
    <2>2. port.tdo \in Bit
      BY DEF InStep, TypeOK, Ports
    <2>3. tickCounter' \in 0..TICK_DELAY
      BY <1>4 DEF ClockEdge, InStep, TypeOK
    <2>4. TypeOK'
      BY <1>4, <2>1, <2>2, <2>3 DEF ClockEdge, jtag_tick, rbs_tick, rbs_init, HasClient,
                  InStep, TypeOK, debuggerVars, doneVars, libVars, Bit
    <2> QED BY <1>4, <2>4, Trstn DEF ClockEdge, jtag_tick, rbs_tick, rbs_init, HasClient,
                  InStep, TypeOK, debuggerVars, doneVars, libVars
  <1>5. CASE WiresSettle
    <2>1. port' \in Ports
      BY <1>5, ReactedType DEF WiresSettle, InStep, TypeOK
    <2>2. TypeOK'
      BY <1>5, <2>1 DEF WiresSettle, InStep, TypeOK, debuggerVars, libVars, doneVars
    <2>3. jtag' = AllLow \/ seen' = AllLow => port' = PowerOn
      BY <1>5, ReactedReset DEF WiresSettle, InStep, TypeOK
    <2> QED BY <1>5, <2>2, <2>3 DEF WiresSettle, InStep, debuggerVars, libVars, doneVars
  <1>6. CASE rbs_accept
    <2>1. TypeOK'
      BY <1>6 DEF rbs_accept, InStep, TypeOK, doneVars
    <2> QED BY <1>6, <2>1, Trstn DEF rbs_accept, InStep, TypeOK, doneVars
  <1>7. ASSUME NEW op, Reading(op), Executed, pins' \in Pins, quit' \in Bit,
               pins'.trstn = pins.trstn, replies' \in Seq(Bit)
        PROVE  InStep'
    <2>1. executed' \in 0..Len(sent) /\ client_fd' \in {0, 1}
      BY <1>7 DEF Reading, Executed, InStep, TypeOK
    <2>2. TypeOK'
      BY <1>7, <2>1 DEF Reading, Executed, Returns, InStep, TypeOK, debuggerVars
    <2>3. pins = jtag /\ init /\ init' /\ pins'.trstn = 1
      BY <1>7, Trstn DEF Reading, Executed, Returns, InStep
    <2>4. jtag' = AllLow \/ seen' = AllLow => port' = PowerOn
      BY <1>7, <2>3, Trstn DEF Executed, Returns, InStep
    <2> QED BY <1>7, <2>2, <2>3, <2>4, Trstn DEF Executed, Returns, InStep, debuggerVars
  <1>8. CASE rbs_set_pins
    <2>1. sent[executed + 1] \in Command /\ pins.trstn \in Bit
      BY <1>8 DEF rbs_set_pins, Reading, InStep, TypeOK, Pins
    <2> QED BY <1>7, <1>8, <2>1, LevelsHigh DEF rbs_set_pins, InStep, TypeOK
  <1>9. CASE ReadRequest
    BY <1>7, <1>9 DEF ReadRequest, InStep, TypeOK
  <1>10. CASE QuitRequest
    BY <1>7, <1>10 DEF QuitRequest, InStep, TypeOK, Bit
  <1>11. CASE OtherCommand
    BY <1>7, <1>11 DEF OtherCommand, InStep, TypeOK
  <1>12. CASE EndOfStream
    BY <1>12 DEF EndOfStream, Returns, InStep, TypeOK, doneVars, debuggerVars
  <1>13. CASE Aborts
    BY <1>13 DEF Aborts, InStep, TypeOK, doneVars, debuggerVars, libVars
  <1>14. CASE UNCHANGED vars
    BY <1>14 DEF vars, debuggerVars, doneVars, libVars, simVars, InStep, TypeOK
  <1> QED
    BY <1>1, <1>2, <1>3, <1>4, <1>5, <1>6, <1>8, <1>9, <1>10, <1>11, <1>12, <1>13, <1>14
       DEF Next, Debugger, Simulation, Calls, Waits, Stopped

\* Types and the step the server, the wires and the port keep, in every state.
THEOREM InStepAlways == Spec => []InStep
  BY InStepInit, InStepNext, PTL DEF Spec

-----------------------------------------------------------------------------
(* A step of the server is a step of the session, or changes nothing in it.   *)
LEMMA TapStarts == Init => Tap!TapInit
  BY DEF Init, Tap!TapInit, Tap!AllHigh, Tap!PowerOn, AllHigh, PowerOn

\* Every step is one of TapSession or a stutter.
LEMMA TapSteps ==
    ASSUME InStep, InStep', [Next]_vars
    PROVE  [Tap!TapNext]_(Tap!tapVars)
  <1> DEFINE heldPins == IF init THEN pins ELSE AllHigh
             heldPort == IF settled THEN port ELSE Reacted(port, seen, jtag)
  <1> USE DEF Running
  <1> USE LevelTypes
  <1>a. ASSUME sent' = sent, executed' = executed, replies' = replies,
               heldPins' = heldPins, heldPort' = heldPort
        PROVE  UNCHANGED Tap!tapVars
    BY <1>a DEF Tap!tapVars, AllHigh, Tap!AllHigh, Reacted, Tap!Reacted, PowerOn, Tap!PowerOn
  <1>1. CASE Connect
    BY <1>1, <1>a DEF Connect, libVars, doneVars, simVars
  <1>2. ASSUME NEW c \in Sendable, Send(c) PROVE Tap!TapNext
    <2>1. UNCHANGED <<executed, replies, heldPins, heldPort>>
      BY <1>2 DEF Send, libVars, doneVars, simVars
    <2>2. c \in Tap!Command /\ sent' = Append(sent, c)
      BY <1>2, ServerAssumption DEF Send, Command, Tap!Command, Bit, Tap!Bit
    <2> QED BY <2>1, <2>2 DEF Tap!TapNext, Tap!TapSend, AllHigh, Tap!AllHigh, Reacted,
                Tap!Reacted, PowerOn, Tap!PowerOn
  <1>3. CASE Close
    BY <1>3, <1>a DEF Close, libVars, doneVars, simVars
  <1>4. CASE ClockEdge
    <2>1. heldPins' = heldPins
      BY <1>4 DEF ClockEdge, jtag_tick, rbs_tick, rbs_init, libVars
    <2> QED BY <1>4, <1>a, <2>1 DEF ClockEdge, debuggerVars, doneVars
  <1>5. CASE WiresSettle
    BY <1>5, <1>a DEF WiresSettle, debuggerVars, doneVars, libVars
  <1>6. CASE rbs_accept
    <2>1. heldPort = port /\ init
      BY <1>6 DEF rbs_accept, InStep
    <2>2. heldPort' = Reacted(port, seen, pins)
      BY <1>6 DEF rbs_accept
    <2>3. seen = jtag /\ (pins = jtag \/ jtag = AllLow)
      BY <1>6 DEF rbs_accept, InStep
    <2>4. Reacted(port, seen, pins) = port
      <3>1. CASE jtag = AllLow
        BY <2>3, <3>1, ReactedReset DEF InStep, TypeOK
      <3>2. CASE pins = jtag /\ jtag # AllLow
        BY <2>3, <3>2 DEF Reacted, InStep, TypeOK, Pins, Bit
      <3> QED BY <2>3, <3>1, <3>2
    <2> QED BY <1>6, <1>a, <2>1, <2>2, <2>4 DEF rbs_accept, doneVars
  <1>7. ASSUME NEW op, Reading(op), Executed
        PROVE  /\ executed < Len(sent) /\ executed' = executed + 1 /\ sent' = sent
               /\ init /\ init' /\ seen = pins /\ tdo = port.tdo
               /\ heldPins = pins /\ heldPins' = pins'
               /\ heldPort = port /\ heldPort' = Reacted(port, pins, pins')
    BY <1>7 DEF Reading, Executed, Returns, InStep, debuggerVars
  <1>8. ASSUME NEW op, Reading(op), Executed, pins' = pins
        PROVE  heldPort' = port
    <2>1. heldPort' = Reacted(port, pins, pins) /\ seen = pins /\ pins = jtag
      BY <1>7, <1>8 DEF Reading, InStep
    <2>2. pins.trstn = 0 => port = PowerOn
      BY <2>1 DEF InStep
    <2> QED BY <2>1, <2>2 DEF Reacted, InStep, TypeOK, Pins, Bit
  <1>9. ASSUME NEW op, Reading(op), Executed, pins' = pins, replies' = replies,
               op \in {"quit", "other"}
        PROVE  Tap!TapNext
    <2>1. sent[executed + 1].op \in {"quit", "other"}
      BY <1>9 DEF Reading
    <2> QED BY <1>7, <1>8, <1>9, <2>1 DEF Tap!TapNext, Tap!TapExecute, AllHigh, Tap!AllHigh,
                Reacted, Tap!Reacted, PowerOn, Tap!PowerOn
  <1>10. CASE rbs_set_pins
    <2>1. Reading("pins") /\ Executed
      BY <1>10 DEF rbs_set_pins
    <2>2. sent[executed + 1].op = "pins" /\ pins' = Levels(sent[executed + 1], pins.trstn)
          /\ replies' = replies
      BY <1>10 DEF rbs_set_pins, Reading
    <2> QED BY <1>7, <2>1, <2>2 DEF Tap!TapNext, Tap!TapExecute, AllHigh, Tap!AllHigh,
                Reacted, Tap!Reacted, PowerOn, Tap!PowerOn, Levels, Tap!Levels
  <1>11. CASE ReadRequest
    <2>1. Reading("read") /\ Executed /\ pins' = pins /\ replies' = Append(replies, tdo)
      BY <1>11 DEF ReadRequest
    <2>2. sent[executed + 1].op = "read"
      BY <2>1 DEF Reading
    <2> QED BY <1>7, <1>8, <2>1, <2>2 DEF Tap!TapNext, Tap!TapExecute, AllHigh, Tap!AllHigh,
                Reacted, Tap!Reacted, PowerOn, Tap!PowerOn
  <1>12. CASE QuitRequest
    BY <1>9, <1>12 DEF QuitRequest
  <1>13. CASE OtherCommand
    BY <1>9, <1>13 DEF OtherCommand
  <1>14. CASE EndOfStream
    <2>1. heldPort = port /\ heldPort' = Reacted(port, seen, pins) /\ init /\ seen = pins
      BY <1>14 DEF EndOfStream, Returns, InStep
    <2>2. Reacted(port, seen, pins) = port
      BY <2>1, <1>14 DEF Reacted, InStep, TypeOK, Pins, Bit
    <2> QED BY <1>14, <1>a, <2>1, <2>2 DEF EndOfStream, Returns, doneVars, debuggerVars
  <1>15. CASE Aborts
    BY <1>15, <1>a DEF Aborts, doneVars, debuggerVars, libVars
  <1>16. CASE UNCHANGED vars
    BY <1>16, <1>a DEF vars, debuggerVars, doneVars, libVars, simVars
  <1> QED
    BY <1>1, <1>2, <1>3, <1>4, <1>5, <1>6, <1>10, <1>11, <1>12, <1>13, <1>14, <1>15, <1>16
       DEF Next, Debugger, Simulation, Calls, Waits, Stopped

\* The server implements the session: whatever the debugger sends and however
\* its bytes, its closing and the clock interleave, the port and the answers
\* are those of a debugger that holds the pins.
THEOREM ImplementsTap == Spec => ActsAsTap
  <1>1. InStep /\ InStep' /\ [Next]_vars => [Tap!TapNext]_(Tap!tapVars)
    BY TapSteps
  <1>2. Spec => Tap!TapInit /\ [][Tap!TapNext]_(Tap!tapVars)
    BY <1>1, InStepAlways, TapStarts, PTL DEF Spec
  <1> QED BY <1>2 DEF ActsAsTap, Tap!TapSpec

-----------------------------------------------------------------------------
(* The debug ROM: what the registers, the scratch registers and the last      *)
(* report are at each of its instructions.                                    *)

ProgramAddress(n) == STARTprogrammADDR + 4 * (n - 1)

(* The instructions of the ROM by number; 0 is the word outside it.           *)
RomAddress(j) == IF j = 0 THEN wheretoADDRESS ELSE STARTdebugPROGaddr + 4 * (j - 1)

(* All but the entry for exceptions, and the code behind it.                  *)
Visited == 0..31 \ {3, 20, 21}

(* The instruction to go back to, and the registers it expects.               *)
Interrupted == (dpc - STARTprogrammADDR) \div 4 + 1
Kept == RegistersBefore[Interrupted]

(* A command is there for this hart.                                          *)
Commanded == bench = "flagged" /\ mhartid = FlaggedHart

(* What the ROM computes with, where it matters.                              *)
Working(j) ==
    /\ j \in 9..18 \cup {22, 23, 28} => gpr[a0] = \hA0000
    /\ j \in {8, 9, 10, 15} => gpr[s0] = mhartid
    /\ j \in {11, 16} => gpr[s0] = mhartid + \hA0000
    /\ j \in {12, 13, 17, 18} /\ gpr[s0] # 0 => Commanded

(* Where the program's s0 and a0 are.                                         *)
Saved(j) ==
    /\ j \in {1, 4, 5, 6, 31} => gpr = Kept
    /\ j = 30 => gpr[s0] = Kept[s0]
    /\ j \notin {1, 4, 5} => dscratch["dscratch0"] = Kept[s0]
    /\ j \notin {1, 4, 5, 6} => dscratch["dscratch1"] = Kept[a0]

(* What the debugger has been told.                                           *)
Reported(j) ==
    /\ j \in {1, 4, 5, 6} => told = "nothing"
    /\ j \in 7..9 => told \in {"nothing", "halted"}
    /\ j \in 10..19 \cup {22, 23} => told = "halted"
    /\ j \in {0, 24, 25} => told = "going"
    /\ j \in {2, 26, 27, 28} => told \in {"halted", "going"}
    /\ j \in 29..31 => told = "resuming"
    /\ j \in {0, 2} \cup 22..31 => Commanded

Here(j) == pc = RomAddress(j) /\ Working(j) /\ Saved(j) /\ Reported(j)

InROMCode ==
    /\ bench \in {"request", "flagged"}
    /\ \E n \in 1..Len(loadProgram) : dpc = ProgramAddress(n)
    /\ \A r \in 1..31 \ {s0, a0} : gpr[r] = Kept[r]
    /\ \E j \in Visited : Here(j)

InProgram ==
    /\ \E n \in 1..Len(loadProgram) : pc = ProgramAddress(n) /\ gpr = RegistersBefore[n]
    /\ told = "nothing" \/ (told = "resuming" /\ Commanded)

RomInv ==
    /\ bench \in {"reset", "run", "request", "flagged"} /\ mhartid \in Harts
    /\ bench # "flagged" => flag = {}
    /\ \A f \in flag : f[1] = FlagADDRESSbase + FlaggedHart
    /\ gpr = [r \in 1..31 |-> gpr[r]]
    /\ dscratch = [r \in {"dscratch0", "dscratch1"} |-> dscratch[r]]
    /\ debug_mode \in BOOLEAN
    /\ IF debug_mode THEN InROMCode ELSE InProgram

-----------------------------------------------------------------------------
(* Its words.                                                                 *)

\* The instructions of the ROM, all that are ever executed.
LEMMA RomWords ==
    /\ Len(loadDebugProgram) = 31
    /\ loadDebugProgram[1] = Jal(12)
    /\ loadDebugProgram[2] = Jal(96)
    /\ loadDebugProgram[4] = Plain("nop")
    /\ loadDebugProgram[5] = Csrw("dscratch0", s0)
    /\ loadDebugProgram[6] = Csrw("dscratch1", a0)
    /\ loadDebugProgram[7] = Csrr(s0, "mhartid")
    /\ loadDebugProgram[8] = Li(a0, \hA0000)
    /\ loadDebugProgram[9] = Sw(s0, \h100, a0)
    /\ loadDebugProgram[10] = Add(s0, s0, a0)
    /\ loadDebugProgram[11] = Lbu(s0, \h400, s0)
    /\ loadDebugProgram[12] = Andi(s0, s0, 1)
    /\ loadDebugProgram[13] = Bnez(s0, 36)
    /\ loadDebugProgram[14] = Csrr(s0, "mhartid")
    /\ loadDebugProgram[15] = Add(s0, s0, a0)
    /\ loadDebugProgram[16] = Lbu(s0, \h400, s0)
    /\ loadDebugProgram[17] = Andi(s0, s0, 2)
    /\ loadDebugProgram[18] = Bnez(s0, -64)
    /\ loadDebugProgram[19] = Jal(-48)
    /\ loadDebugProgram[22] = Csrr(s0, "dscratch0")
    /\ loadDebugProgram[23] = Sw(0, \h104, a0)
    /\ loadDebugProgram[24] = Csrr(a0, "dscratch1")
    /\ loadDebugProgram[25] = Jal(-1376)
    /\ loadDebugProgram[26] = Csrr(s0, "mhartid")
    /\ loadDebugProgram[27] = Li(a0, \hA0000)
    /\ loadDebugProgram[28] = Sw(s0, \h108, a0)
    /\ loadDebugProgram[29] = Csrr(s0, "dscratch0")
    /\ loadDebugProgram[30] = Csrr(a0, "dscratch1")
    /\ loadDebugProgram[31] = Plain("dret")
  BY SMT DEF loadDebugProgram, Vectors, Save, Poll, Exception, Going, Resume

-----------------------------------------------------------------------------
(* The words of the program, for any number of stores.                       *)

\* A function on 1..n is a sequence of length n.
LEMMA Listed ==
    ASSUME NEW S, NEW n \in Nat, NEW f \in [1..n -> S]
    PROVE  f \in Seq(S) /\ Len(f) = n
  OBVIOUS

\* What the program is made of.
AnInstruction == [op : {"li"}, rd : 1..31, imm : Int] \cup {Sw(14, 0, 15), Plain("ecall")}

\* u is s, of length m, followed by t, of length k.
Joins(u, s, t, m, k) ==
    /\ u \in Seq(AnInstruction) /\ Len(u) = m + k
    /\ \A i \in 1..m : u[i] = s[i]
    /\ \A i \in 1..k : u[m + i] = t[i]

\* A concatenation joins its parts.
LEMMA Joined ==
    \A s, t \in Seq(AnInstruction) : Joins(s \o t, s, t, Len(s), Len(t))
<1> SUFFICES ASSUME NEW s \in Seq(AnInstruction), NEW t \in Seq(AnInstruction)
             PROVE  Joins(s \o t, s, t, Len(s), Len(t))
  OBVIOUS
<1> QED BY DEF Joins

\* What appending gives.
LEMMA Appended ==
    \A s \in Seq(AnInstruction), x \in AnInstruction :
       /\ Len(Append(s, x)) = Len(s) + 1
       /\ Append(s, x) \in Seq(AnInstruction)
       /\ Append(s, x)[Len(s) + 1] = x
       /\ \A i \in 1..Len(s) : Append(s, x)[i] = s[i]
  OBVIOUS

\* The parts of the program are sequences of instructions.
LEMMA Pieces ==
    /\ StoreWords \in Seq(AnInstruction) /\ Len(StoreWords) = 3 * repeat_factor
    /\ FillRegisters \in Seq(AnInstruction) /\ Len(FillRegisters) = 31
    /\ ClearArguments \in Seq(AnInstruction) /\ Len(ClearArguments) = 4
    /\ Exit \in Seq(AnInstruction) /\ Len(Exit) = 5
    /\ Exit[5] = Plain("ecall")
<1>1. 3 * repeat_factor \in Nat
  BY DebugRomAssumption
<1>2. \A i \in 1..31 : Li(i, -1) \in AnInstruction
  BY DEF Li, AnInstruction
<1>3. Len(StoreWord) = 3 /\ \A i \in 1..3 : StoreWord[i] \in AnInstruction
  BY DEF StoreWord, Li, Sw, AnInstruction
<1>4. StoreWords \in [1..3 * repeat_factor -> AnInstruction]
  BY <1>1, <1>3 DEF StoreWords
<1>5. FillRegisters \in [1..31 -> AnInstruction]
  BY <1>2 DEF FillRegisters
<1>6. StoreWords \in Seq(AnInstruction) /\ Len(StoreWords) = 3 * repeat_factor
  BY <1>1, <1>4
<1>7. FillRegisters \in Seq(AnInstruction) /\ Len(FillRegisters) = 31
  BY <1>5, Listed
<1>8. ClearArguments \in Seq(AnInstruction) /\ Len(ClearArguments) = 4
  BY DEF ClearArguments, Li, AnInstruction
<1>9. Plain("ecall") \in AnInstruction
  BY DEF AnInstruction
<1>10. Exit \in Seq(AnInstruction) /\ Len(Exit) = 5 /\ Exit[5] = Plain("ecall")
  <2> DEFINE c == ClearArguments e == Plain("ecall")
  <2>1. c \in Seq(AnInstruction) /\ Len(c) = 4 /\ e \in AnInstruction
    BY <1>8, <1>9
  <2>2. Exit = Append(c, e)
    BY DEF Exit
  <2> HIDE DEF c, e
  <2>3. /\ Len(Append(c, e)) = Len(c) + 1 /\ Append(c, e) \in Seq(AnInstruction)
        /\ Append(c, e)[Len(c) + 1] = e
    BY <2>1, Appended, Zenon
  <2>4. Len(c) + 1 = 5
    BY <2>1
  <2>5. QED BY <2>2, <2>3, <2>4 DEF e
<1>11. QED BY <1>6, <1>7, <1>8, <1>10

\* The length of the program, and what each part of it holds.
LEMMA ProgramParts ==
    LET n == 3 * repeat_factor
    IN  /\ Len(loadProgram) = 2 * n + 40
        /\ \A i \in 1..n : loadProgram[i] = StoreWords[i]
        /\ \A i \in 1..31 : loadProgram[n + i] = FillRegisters[i]
        /\ \A i \in 1..4 : loadProgram[n + 31 + i] = ClearArguments[i]
        /\ \A i \in 1..n : loadProgram[n + 35 + i] = StoreWords[i]
        /\ \A i \in 1..5 : loadProgram[2 * n + 35 + i] = Exit[i]
<1> DEFINE n == 3 * repeat_factor
           A == StoreWords \o FillRegisters
           B == A \o ClearArguments
           C == B \o StoreWords
<1>1. n \in Nat /\ n >= 3
  BY DebugRomAssumption
<1>2. Joins(A, StoreWords, FillRegisters, n, 31)
  BY Pieces, Joined
<1> HIDE DEF n, A
<1>3. Joins(B, A, ClearArguments, n + 31, 4)
  <2>1. Len(A) = n + 31 /\ A \in Seq(AnInstruction)
    BY <1>2 DEF Joins
  <2>2. QED BY <2>1, Pieces, Joined
<1> HIDE DEF B
<1>4. Joins(C, B, StoreWords, n + 35, n)
  <2>1. Len(B) = n + 35 /\ B \in Seq(AnInstruction)
    BY <1>1, <1>3 DEF Joins
  <2>2. QED BY <2>1, Pieces, Joined DEF n
<1> HIDE DEF C
<1>5. Joins(loadProgram, C, Exit, 2 * n + 35, 5)
  <2>1. Len(C) = 2 * n + 35 /\ C \in Seq(AnInstruction)
    BY <1>1, <1>4 DEF Joins
  <2>2. loadProgram = C \o Exit
    BY DEF loadProgram, A, B, C
  <2>3. QED BY <2>1, <2>2, Pieces, Joined
<1>6. \A i \in 1..n : loadProgram[i] = StoreWords[i]
  <2> SUFFICES ASSUME NEW i \in 1..n PROVE loadProgram[i] = StoreWords[i]
    OBVIOUS
  <2>1. i \in 1..n + 31 /\ i \in 1..n + 35 /\ i \in 1..2 * n + 35
    BY <1>1
  <2>2. QED BY <1>2, <1>3, <1>4, <1>5, <2>1 DEF Joins
<1>7. \A i \in 1..31 : loadProgram[n + i] = FillRegisters[i]
  <2> SUFFICES ASSUME NEW i \in 1..31 PROVE loadProgram[n + i] = FillRegisters[i]
    OBVIOUS
  <2>1. A[n + i] = FillRegisters[i]
    BY <1>2 DEF Joins
  <2>2. n + i \in 1..n + 31 /\ n + i \in 1..n + 35 /\ n + i \in 1..2 * n + 35
    BY <1>1
  <2>3. QED BY <1>3, <1>4, <1>5, <2>1, <2>2 DEF Joins
<1>8. \A i \in 1..4 : loadProgram[n + 31 + i] = ClearArguments[i]
  <2> SUFFICES ASSUME NEW i \in 1..4 PROVE loadProgram[n + 31 + i] = ClearArguments[i]
    OBVIOUS
  <2>1. n + 31 + i \in 1..n + 35 /\ n + 31 + i \in 1..2 * n + 35
    BY <1>1
  <2>2. QED BY <1>3, <1>4, <1>5, <2>1 DEF Joins
<1>9. \A i \in 1..n : loadProgram[n + 35 + i] = StoreWords[i]
  <2> SUFFICES ASSUME NEW i \in 1..n PROVE loadProgram[n + 35 + i] = StoreWords[i]
    OBVIOUS
  <2>1. n + 35 + i \in 1..2 * n + 35
    BY <1>1
  <2>2. QED BY <1>4, <1>5, <2>1 DEF Joins
<1>10. \A i \in 1..5 : loadProgram[2 * n + 35 + i] = Exit[i]
  BY <1>5 DEF Joins
<1>11. Len(loadProgram) = 2 * n + 40
  BY <1>1, <1>5 DEF Joins
<1>12. QED BY <1>6, <1>7, <1>8, <1>9, <1>10, <1>11 DEF n

\* What the part of the program that stores holds at i.
LEMMA StoringWords ==
    ASSUME NEW i \in 1..3 * repeat_factor
    PROVE  \/ StoreWords[i] \in {Li(15, 64), Li(14, 102)}
           \/ /\ i - 1 \in 1..3 * repeat_factor /\ i - 2 \in 1..3 * repeat_factor
              /\ StoreWords[i] = Sw(14, 0, 15)
              /\ StoreWords[i - 1] = Li(14, 102) /\ StoreWords[i - 2] = Li(15, 64)
<1> DEFINE n == 3 * repeat_factor
<1>1. n \in Nat
  BY DebugRomAssumption
<1>2. ASSUME NEW k \in 1..n, NEW m \in 1..3, (k - 1) % 3 = m - 1
      PROVE  StoreWords[k] = StoreWord[m]
  <2>1. StoreWords[k] = StoreWord[((k - 1) % 3) + 1]
    BY DEF StoreWords
  <2>2. QED BY <1>2, <2>1
<1>3. StoreWord[1] = Li(15, 64) /\ StoreWord[2] = Li(14, 102) /\ StoreWord[3] = Sw(14, 0, 15)
  BY DEF StoreWord
<1> HIDE DEF n
<1>4. CASE (i - 1) % 3 \in {0, 1}
  <2>1. StoreWords[i] = StoreWord[1] \/ StoreWords[i] = StoreWord[2]
    BY <1>1, <1>2, <1>4 DEF n
  <2>2. QED BY <1>3, <2>1
<1>5. CASE (i - 1) % 3 = 2
  <2>1. i - 1 \in 1..n /\ i - 2 \in 1..n /\ (i - 2) % 3 = 1 /\ (i - 3) % 3 = 0
    BY <1>1, <1>5 DEF n
  <2>2. (i - 1) - 1 = i - 2 /\ (i - 2) - 1 = i - 3
    BY <1>1 DEF n
  <2>3. StoreWords[i] = StoreWord[3]
    BY <1>2, <1>5 DEF n
  <2>4. StoreWords[i - 1] = StoreWord[2]
    <3>1. 2 \in 1..3 /\ i - 1 \in 1..n /\ ((i - 1) - 1) % 3 = 2 - 1
      BY <2>1, <2>2
    <3>2. QED BY ONLY <1>2, <3>1
  <2>5. StoreWords[i - 2] = StoreWord[1]
    <3>1. 1 \in 1..3 /\ i - 2 \in 1..n /\ ((i - 2) - 1) % 3 = 1 - 1
      BY <2>1, <2>2
    <3>2. QED BY ONLY <1>2, <3>1
  <2>6. QED BY <1>3, <2>1, <2>3, <2>4, <2>5 DEF n
<1>6. (i - 1) % 3 \in {0, 1, 2}
  BY <1>1 DEF n
<1>7. QED BY <1>4, <1>5, <1>6

\* The instructions that load a register.
Loading == {Li(r, v) : r \in 1..31, v \in {-1, 0, 64, 93, 102}}

\* The parts that do not store only load.
LEMMA LoadingWords ==
    /\ \A i \in 1..31 : FillRegisters[i] \in Loading
    /\ \A i \in 1..4 : ClearArguments[i] \in Loading /\ Exit[i] \in Loading
    /\ Li(15, 64) \in Loading /\ Li(14, 102) \in Loading
<1>1. \A r \in 1..31, v \in {-1, 0, 64, 93, 102} : Li(r, v) \in Loading
  BY DEF Loading
<1>2. \A i \in 1..31 : FillRegisters[i] \in Loading
  BY <1>1 DEF FillRegisters
<1>3. \A i \in 1..4 : ClearArguments[i] \in {Li(11, 0), Li(12, 0), Li(13, 0), Li(17, 93)}
  BY DEF ClearArguments
<1>4. \A i \in 1..4 : Exit[i] = ClearArguments[i]
  BY DEF Exit, ClearArguments
<1>5. QED BY <1>1, <1>2, <1>3, <1>4

\* The n-th instruction loads a register, or stores what was just loaded, or is
\* the last one and calls the environment.
LoadsAt(n) == n < Len(loadProgram) /\ loadProgram[n] \in Loading
StoresAt(n) ==
    /\ n \in 3..Len(loadProgram) - 1 /\ loadProgram[n] = Sw(14, 0, 15)
    /\ loadProgram[n - 1] = Li(14, 102) /\ loadProgram[n - 2] = Li(15, 64)
EndsAt(n) == n = Len(loadProgram) /\ loadProgram[n] = Plain("ecall")

\* The program is made of these three kinds.
LEMMA ProgramWords ==
    /\ Len(loadProgram) \in Nat \ {0}
    /\ \A n \in 1..Len(loadProgram) : LoadsAt(n) \/ StoresAt(n) \/ EndsAt(n)
<1> DEFINE n == 3 * repeat_factor
           Storing(i) == /\ i - 1 \in 1..n /\ i - 2 \in 1..n
                         /\ StoreWords[i] = Sw(14, 0, 15)
                         /\ StoreWords[i - 1] = Li(14, 102) /\ StoreWords[i - 2] = Li(15, 64)
<1>1. n \in Nat /\ n >= 3
  BY DebugRomAssumption
<1>2. /\ Len(loadProgram) = 2 * n + 40
      /\ \A i \in 1..n : loadProgram[i] = StoreWords[i]
      /\ \A i \in 1..31 : loadProgram[n + i] = FillRegisters[i]
      /\ \A i \in 1..4 : loadProgram[n + 31 + i] = ClearArguments[i]
      /\ \A i \in 1..n : loadProgram[n + 35 + i] = StoreWords[i]
      /\ \A i \in 1..5 : loadProgram[2 * n + 35 + i] = Exit[i]
  BY ProgramParts
<1>0. Len(loadProgram) = 2 * n + 40
  BY <1>2
<1>3. \A i \in 1..n : StoreWords[i] \in Loading \/ Storing(i)
  BY StoringWords, LoadingWords
<1> HIDE DEF n
<1> USE <1>1
<1>4. ASSUME NEW m \in 1..n PROVE LoadsAt(m) \/ StoresAt(m)
  <2>0. m < Len(loadProgram)
    BY <1>0
  <2>1. loadProgram[m] = StoreWords[m] /\ m < Len(loadProgram)
    BY <1>2, <2>0
  <2>2. CASE Storing(m)
    <3>1. m \in 3..Len(loadProgram) - 1
      BY <1>0, <2>2
    <3>2. loadProgram[m - 1] = StoreWords[m - 1] /\ loadProgram[m - 2] = StoreWords[m - 2]
      BY <1>2, <2>2
    <3>3. QED BY <2>1, <2>2, <3>1, <3>2 DEF StoresAt
  <2>3. QED BY <1>3, <2>1, <2>2 DEF LoadsAt
<1>5. ASSUME NEW i \in 1..31 PROVE LoadsAt(n + i)
  <2>1. n + i < Len(loadProgram)
    BY <1>0
  <2>2. QED BY <1>2, <2>1, LoadingWords DEF LoadsAt
<1>6. ASSUME NEW i \in 1..4 PROVE LoadsAt(n + 31 + i)
  <2>1. n + 31 + i < Len(loadProgram)
    BY <1>0
  <2>2. QED BY <1>2, <2>1, LoadingWords DEF LoadsAt
<1>7. ASSUME NEW i \in 1..n PROVE LoadsAt(n + 35 + i) \/ StoresAt(n + 35 + i)
  <2> DEFINE m == n + 35 + i
  <2>0. m < Len(loadProgram)
    BY <1>0
  <2>1. loadProgram[m] = StoreWords[i] /\ m < Len(loadProgram)
    BY <1>2, <2>0
  <2>2. CASE Storing(i)
    <3>1. /\ m \in 3..Len(loadProgram) - 1
          /\ m - 1 = n + 35 + (i - 1) /\ m - 2 = n + 35 + (i - 2)
      BY <1>0, <2>2
    <3>2. loadProgram[m - 1] = StoreWords[i - 1] /\ loadProgram[m - 2] = StoreWords[i - 2]
      BY <1>2, <2>2, <3>1
    <3>3. QED BY <2>1, <2>2, <3>1, <3>2 DEF StoresAt
  <2>3. QED BY <1>3, <2>1, <2>2 DEF LoadsAt
<1>8. ASSUME NEW i \in 1..5 PROVE LoadsAt(2 * n + 35 + i) \/ EndsAt(2 * n + 35 + i)
  <2> DEFINE m == 2 * n + 35 + i
  <2>1. loadProgram[m] = Exit[i]
    BY <1>2
  <2>2. CASE i = 5
    BY <1>2, <2>1, <2>2, Pieces DEF EndsAt
  <2>3. CASE i # 5
    <3>1. m < Len(loadProgram) /\ i \in 1..4
      BY <1>0, <2>3
    <3>2. QED BY <2>1, <3>1, LoadingWords DEF LoadsAt
  <2>4. QED BY <2>2, <2>3
<1>9. ASSUME NEW m \in 1..Len(loadProgram)
      PROVE  LoadsAt(m) \/ StoresAt(m) \/ EndsAt(m)
  <2>1. CASE m <= n
    BY <1>4, <2>1
  <2>2. CASE n < m /\ m <= n + 31
    <3>1. m - n \in 1..31 /\ n + (m - n) = m
      BY <2>2
    <3>2. QED BY <1>5, <3>1
  <2>3. CASE n + 31 < m /\ m <= n + 35
    <3>1. m - n - 31 \in 1..4 /\ n + 31 + (m - n - 31) = m
      BY <2>3
    <3>2. QED BY <1>6, <3>1
  <2>4. CASE n + 35 < m /\ m <= 2 * n + 35
    <3>1. m - n - 35 \in 1..n /\ n + 35 + (m - n - 35) = m
      BY <2>4
    <3>2. QED BY <1>7, <3>1
  <2>5. CASE 2 * n + 35 < m
    <3>1. m - 2 * n - 35 \in 1..5 /\ 2 * n + 35 + (m - 2 * n - 35) = m
      BY <1>0, <2>5
    <3>2. QED BY <1>8, <3>1
  <2>6. QED BY <1>0, <2>1, <2>2, <2>3, <2>4, <2>5
<1>10. QED BY <1>0, <1>9

-----------------------------------------------------------------------------
(* The registers of an undisturbed run.                                      *)

\* There are 31 registers before each instruction.
LEMMA RegistersShape ==
    \A n \in 1..Len(loadProgram) :
        RegistersBefore[n] = [r \in 1..31 |-> RegistersBefore[n][r]]
  BY DEF RegistersBefore

\* All are zero at first.
LEMMA RegistersStart == RegistersBefore[1] = [r \in 1..31 |-> 0]
<1>1. 1 \in 1..Len(loadProgram)
  BY ProgramWords
<1>2. \A r : Writes(1, r) = {}
  BY DEF Writes
<1>3. QED BY <1>1, <1>2 DEF RegistersBefore

\* An instruction that loads register r changes it, and only it.
LEMMA RegistersLoad ==
    ASSUME NEW n \in 1..Len(loadProgram) - 1, NEW r \in 1..31, NEW v,
           loadProgram[n] = Li(r, v)
    PROVE  RegistersBefore[n + 1] = [RegistersBefore[n] EXCEPT ![r] = v]
<1>1. n \in 1..Len(loadProgram) /\ n + 1 \in 1..Len(loadProgram)
  BY ProgramWords
<1>2. loadProgram[n].op = "li" /\ loadProgram[n].rd = r /\ loadProgram[n].imm = v
  BY DEF Li
<1>3. \A q \in 1..31 : q # r => Writes(n + 1, q) = Writes(n, q)
  BY <1>2 DEF Writes
<1>4. n \in Writes(n + 1, r) /\ \A k \in Writes(n + 1, r) : k <= n
  BY <1>2 DEF Writes
<1>5. LastWrite(n + 1, r) = n
  <2>1. \E m \in Writes(n + 1, r) : \A k \in Writes(n + 1, r) : k <= m
    BY <1>4
  <2>2. \A m \in Writes(n + 1, r) : (\A k \in Writes(n + 1, r) : k <= m) => m = n
    BY <1>4 DEF Writes
  <2>3. QED BY <2>1, <2>2 DEF LastWrite
<1>6. RegistersBefore[n + 1][r] = v
  BY <1>1, <1>2, <1>4, <1>5 DEF RegistersBefore
<1>7. ASSUME NEW q \in 1..31, q # r PROVE RegistersBefore[n + 1][q] = RegistersBefore[n][q]
  <2>1. LastWrite(n + 1, q) = LastWrite(n, q)
    BY <1>3, <1>7 DEF LastWrite
  <2>2. QED BY <1>1, <1>3, <1>7, <2>1 DEF RegistersBefore
<1>8. QED BY <1>1, <1>6, <1>7, RegistersShape

\* Any other instruction changes no register.
LEMMA RegistersStay ==
    ASSUME NEW n \in 1..Len(loadProgram) - 1, loadProgram[n].op # "li"
    PROVE  RegistersBefore[n + 1] = RegistersBefore[n]
<1>1. n \in 1..Len(loadProgram) /\ n + 1 \in 1..Len(loadProgram)
  BY ProgramWords
<1>2. \A q \in 1..31 : Writes(n + 1, q) = Writes(n, q)
  BY DEF Writes
<1>3. \A q \in 1..31 : LastWrite(n + 1, q) = LastWrite(n, q)
  BY <1>2 DEF LastWrite
<1>4. \A q \in 1..31 : RegistersBefore[n + 1][q] = RegistersBefore[n][q]
  BY <1>1, <1>2, <1>3 DEF RegistersBefore
<1>5. QED BY <1>1, <1>4, RegistersShape

\* The program stores to address 64 only.
LEMMA RegistersStore ==
    ASSUME NEW n, StoresAt(n)
    PROVE  RegistersBefore[n][15] = 64
<1>1. /\ n - 1 \in 1..Len(loadProgram) - 1 /\ n - 2 \in 1..Len(loadProgram) - 1
      /\ (n - 2) + 1 = n - 1 /\ (n - 1) + 1 = n
      /\ n - 2 \in 1..Len(loadProgram) /\ n - 1 \in 1..Len(loadProgram)
  BY ProgramWords DEF StoresAt
<1>2. RegistersBefore[n - 1] = [RegistersBefore[n - 2] EXCEPT ![15] = 64]
  BY <1>1, RegistersLoad DEF StoresAt
<1>3. RegistersBefore[(n - 1) + 1] = [RegistersBefore[n - 1] EXCEPT ![14] = 102]
  <2>1. loadProgram[n - 1] = Li(14, 102) /\ 14 \in 1..31
    BY DEF StoresAt
  <2> DEFINE m == n - 1
  <2>2. m \in 1..Len(loadProgram) - 1 /\ loadProgram[m] = Li(14, 102)
    BY <1>1, <2>1
  <2> HIDE DEF m
  <2>3. RegistersBefore[m + 1] = [RegistersBefore[m] EXCEPT ![14] = 102]
    BY <2>1, <2>2, RegistersLoad
  <2>4. QED BY <2>3 DEF m
<1>4. RegistersBefore[n - 2] = [r \in 1..31 |-> RegistersBefore[n - 2][r]]
  BY <1>1, RegistersShape
<1>5. RegistersBefore[n - 1][15] = 64
  BY <1>2, <1>4
<1>6. RegistersBefore[n - 1] = [r \in 1..31 |-> RegistersBefore[n - 1][r]]
  BY <1>1, RegistersShape
<1>7. RegistersBefore[(n - 1) + 1][15] = 64
  BY <1>3, <1>5, <1>6
<1>8. QED BY <1>1, <1>7

-----------------------------------------------------------------------------
(* Where the core is, and what it executes there.                            *)

\* The program, the word outside the ROM and the ROM lie apart, and an address
\* gives the number of its instruction.
LEMMA Places ==
    \A n \in 1..Len(loadProgram), j \in 1..31 :
        /\ ProgramAddress(n) \in STARTprogrammADDR..Program
        /\ (ProgramAddress(n) - STARTprogrammADDR) \div 4 + 1 = n
        /\ RomAddress(j) \notin STARTprogrammADDR..Program /\ RomAddress(j) # wheretoADDRESS
        /\ InROM(RomAddress(j))
        /\ (RomAddress(j) - STARTdebugPROGaddr) \div 4 + 1 = j
<1>1. Len(loadProgram) \in Nat /\ Len(loadDebugProgram) = 31
  BY ProgramWords, RomWords, SMT
<1>2. QED
  BY <1>1, ProgramFits, SMT
  DEF ProgramAddress, RomAddress, InROM, Program, STARTprogrammADDR, STARTdebugPROGaddr,
      wheretoADDRESS

\* The same of the program alone.
LEMMA PlacesOfProgram ==
    \A n \in 1..Len(loadProgram) :
        /\ ProgramAddress(n) \in STARTprogrammADDR..Program
        /\ (ProgramAddress(n) - STARTprogrammADDR) \div 4 + 1 = n
<1>1. 1 \in 1..31
  OBVIOUS
<1>2. QED BY <1>1, Places

\* What is fetched at each place.
LEMMA InstructionOfProgram ==
    ASSUME NEW n \in 1..Len(loadProgram), pc = ProgramAddress(n)
    PROVE  Instruction = loadProgram[n]
<1>1. pc \in STARTprogrammADDR..Program /\ (pc - STARTprogrammADDR) \div 4 + 1 = n
  BY PlacesOfProgram
<1>2. QED BY <1>1, SMT DEF Instruction

\* The same in the ROM.
LEMMA InstructionOfRom ==
    ASSUME NEW j \in 1..31, pc = RomAddress(j)
    PROVE  Instruction = loadDebugProgram[j]
<1>1. /\ pc \notin STARTprogrammADDR..Program /\ InROM(pc)
      /\ (pc - STARTdebugPROGaddr) \div 4 + 1 = j
  <2>1. 1 \in 1..Len(loadProgram)
    BY ProgramWords
  <2>2. QED BY <2>1, Places
<1>2. QED BY <1>1, SMT DEF Instruction

\* The word outside the ROM is the jump to it, once it is written.
LEMMA InstructionOutside ==
    ASSUME pc = RomAddress(0)
    PROVE  Instruction \in {Jal(\h504), Plain("illegal")}
<1>1. pc = wheretoADDRESS
  BY DEF RomAddress
<1>2. ~(pc \in STARTprogrammADDR..Program) /\ ~InROM(pc)
  BY <1>1, ProgramFits, ProgramWords, SMT
  DEF InROM, Program, STARTprogrammADDR, STARTdebugPROGaddr, wheretoADDRESS
<1>3. QED BY <1>1, <1>2, SMT DEF Instruction, whereto

-----------------------------------------------------------------------------
(* What one instruction does.                                                *)

\* What only the instructions that say so change.
Elsewhere == <<bench, mhartid, debug_mode, dpc, flag, redirected>>

\* A register is loaded.
Loads(rd, v) ==
    /\ gpr' = [gpr EXCEPT ![rd] = v] /\ pc' = pc + 4
    /\ UNCHANGED <<dscratch, told>> /\ UNCHANGED Elsewhere

\* The core goes to another address.
Goes(a) == pc' = a /\ UNCHANGED <<gpr, dscratch, told>> /\ UNCHANGED Elsewhere

\* An immediate is loaded.
LEMMA ByLi ==
    ASSUME NEW rd, NEW imm, Instruction = Li(rd, imm), Core, ~EnterDebug
    PROVE  Loads(rd, imm)
  BY SMT DEF Li, Core, Compute, WriteScratch, Store, Jump, DebugReturn, Executes, Continue,
             Loads, Elsewhere

\* A CSR is read.
LEMMA ByCsrr ==
    ASSUME NEW rd, NEW csr, Instruction = Csrr(rd, csr), Core, ~EnterDebug
    PROVE  Loads(rd, IF csr = "mhartid" THEN mhartid ELSE dscratch[csr])
  BY SMT DEF Csrr, Core, Compute, WriteScratch, Store, Jump, DebugReturn, Executes, Continue,
             Loads, Elsewhere

\* Two registers are added.
LEMMA ByAdd ==
    ASSUME NEW rd, NEW rs, NEW rs2, Instruction = Add(rd, rs, rs2), Core, ~EnterDebug
    PROVE  Loads(rd, Reg(rs) + Reg(rs2))
  BY SMT DEF Add, Core, Compute, WriteScratch, Store, Jump, DebugReturn, Executes, Continue,
             Loads, Elsewhere

\* One bit is kept.
LEMMA ByAndi ==
    ASSUME NEW rd, NEW rs, NEW bit, Instruction = Andi(rd, rs, bit), Core, ~EnterDebug
    PROVE  Loads(rd, bit * ((Reg(rs) \div bit) % 2))
  BY SMT DEF Andi, Core, Compute, WriteScratch, Store, Jump, DebugReturn, Executes, Continue,
             Loads, Elsewhere

\* A byte is loaded.
LEMMA ByLbu ==
    ASSUME NEW rd, NEW offset, NEW rs, Instruction = Lbu(rd, offset, rs), Core, ~EnterDebug
    PROVE  Loads(rd, Byte(Reg(rs) + offset))
  BY SMT DEF Lbu, Core, Compute, WriteScratch, Store, Jump, DebugReturn, Executes, Continue,
             Loads, Elsewhere

\* A CSR is written.
LEMMA ByCsrw ==
    ASSUME NEW csr, NEW rs, Instruction = Csrw(csr, rs), Core, ~EnterDebug
    PROVE  /\ dscratch' = [dscratch EXCEPT ![csr] = Reg(rs)] /\ pc' = pc + 4
           /\ UNCHANGED <<gpr, told>> /\ UNCHANGED Elsewhere
  BY SMT DEF Csrw, Core, Compute, WriteScratch, Store, Jump, DebugReturn, Executes, Continue,
             Elsewhere

\* A word is stored.
LEMMA BySw ==
    ASSUME NEW rs2, NEW offset, NEW rs, Instruction = Sw(rs2, offset, rs), Core, ~EnterDebug
    PROVE  /\ told' = Meaning(Reg(rs) + offset) /\ pc' = pc + 4
           /\ UNCHANGED <<gpr, dscratch>> /\ UNCHANGED Elsewhere
  BY SMT DEF Sw, Core, Compute, WriteScratch, Store, Jump, DebugReturn, Executes, Continue,
             Elsewhere

\* A branch is taken unless the register is zero.
LEMMA ByBnez ==
    ASSUME NEW rs, NEW offset, Instruction = Bnez(rs, offset), Core, ~EnterDebug
    PROVE  Goes(IF Reg(rs) # 0 THEN pc + offset ELSE pc + 4)
  BY SMT DEF Bnez, Core, Compute, WriteScratch, Store, Jump, DebugReturn, Executes, Continue,
             Goes, Elsewhere

\* A jump is taken.
LEMMA ByJal ==
    ASSUME NEW offset, Instruction = Jal(offset), Core, ~EnterDebug
    PROVE  Goes(pc + offset)
  BY SMT DEF Jal, Core, Compute, WriteScratch, Store, Jump, DebugReturn, Executes, Continue,
             Goes, Elsewhere

\* Nothing is done.
LEMMA ByNop ==
    ASSUME Instruction = Plain("nop"), Core, ~EnterDebug
    PROVE  Goes(pc + 4)
  BY SMT DEF Plain, Core, Compute, WriteScratch, Store, Jump, DebugReturn, Executes, Continue,
             Goes, Elsewhere

\* The program is resumed.
LEMMA ByDret ==
    ASSUME Instruction = Plain("dret"), Core, ~EnterDebug
    PROVE  /\ pc' = dpc /\ debug_mode' = FALSE
           /\ UNCHANGED <<bench, mhartid, dpc, dscratch, gpr, flag, redirected, told>>
  BY SMT DEF Plain, Core, Compute, WriteScratch, Store, Jump, DebugReturn, Executes, Continue

\* The core does nothing about other words.
LEMMA ByOther ==
    ASSUME NEW op \in {"ecall", "illegal"}, Instruction = Plain(op), ~EnterDebug
    PROVE  ~Core
  BY SMT DEF Plain, Core, Compute, WriteScratch, Store, Jump, DebugReturn, Executes

-----------------------------------------------------------------------------
(* In the ROM.                                                               *)

\* A step within the ROM that leaves all but s0 and a0 alone.
LEMMA MovesOn ==
    ASSUME RomInv, debug_mode,
           UNCHANGED <<bench, mhartid, debug_mode, dpc, flag>>,
           NEW j \in Visited, Here(j)',
           gpr' = [r \in 1..31 |-> gpr'[r]], \A r \in 1..31 \ {s0, a0} : gpr'[r] = gpr[r],
           dscratch' = [r \in {"dscratch0", "dscratch1"} |-> dscratch'[r]]
    PROVE  RomInv'
<1>1. Kept' = Kept
  BY DEF Kept, Interrupted
<1>2. InROMCode'
  BY <1>1, Zenon DEF RomInv, InROMCode
<1>3. QED BY <1>2, Zenon DEF RomInv

\* A step that loads s0 or a0.
LEMMA RomLoads ==
    ASSUME RomInv, debug_mode, NEW rd \in {s0, a0}, NEW v, Loads(rd, v),
           NEW j \in Visited, Here(j)'
    PROVE  RomInv' /\ Answers
<1>1. /\ gpr = [r \in 1..31 |-> gpr[r]]
      /\ dscratch = [r \in {"dscratch0", "dscratch1"} |-> dscratch[r]]
  BY DEF RomInv
<1>2. gpr' = [r \in 1..31 |-> gpr'[r]] /\ \A r \in 1..31 \ {s0, a0} : gpr'[r] = gpr[r]
  BY <1>1 DEF Loads
<1>3. dscratch' = [r \in {"dscratch0", "dscratch1"} |-> dscratch'[r]]
  BY <1>1 DEF Loads
<1>4. UNCHANGED <<bench, mhartid, debug_mode, dpc, flag>> /\ told' = told
  BY DEF Loads, Elsewhere
<1>5. QED BY <1>2, <1>3, <1>4, MovesOn DEF Answers

\* A jump or a branch.
LEMMA RomGoes ==
    ASSUME RomInv, debug_mode, NEW a, Goes(a), NEW j \in Visited, Here(j)'
    PROVE  RomInv' /\ Answers
<1>1. /\ gpr = [r \in 1..31 |-> gpr[r]]
      /\ dscratch = [r \in {"dscratch0", "dscratch1"} |-> dscratch[r]]
  BY DEF RomInv
<1>2. UNCHANGED <<gpr, dscratch, bench, mhartid, debug_mode, dpc, flag, told>>
  BY DEF Goes, Elsewhere
<1>3. QED BY <1>1, <1>2, MovesOn DEF Answers

\* What the two kinds of instruction leave unchanged.
LEMMA RomKeeps ==
    ASSUME UNCHANGED Elsewhere
    PROVE  Kept' = Kept /\ (Commanded <=> Commanded') /\ mhartid' = mhartid
  BY DEF Elsewhere, Kept, Interrupted, Commanded

\* The registers after a load of one of them.
LEMMA RomRegisters ==
    ASSUME RomInv, NEW rd \in {s0, a0}, NEW v, Loads(rd, v)
    PROVE  /\ gpr'[rd] = v /\ \A r \in 1..31 : r # rd => gpr'[r] = gpr[r]
           /\ UNCHANGED <<dscratch, told>> /\ UNCHANGED Elsewhere /\ pc' = pc + 4
<1>1. gpr = [r \in 1..31 |-> gpr[r]]
  BY DEF RomInv
<1>2. QED BY <1>1 DEF Loads, s0, a0

\* A step that saves a register.
LEMMA RomSaves ==
    ASSUME RomInv, debug_mode, NEW j \in Visited, Here(j)',
           dscratch' = [r \in {"dscratch0", "dscratch1"} |-> dscratch'[r]],
           UNCHANGED <<gpr, told>>, UNCHANGED Elsewhere
    PROVE  RomInv' /\ Answers
<1>1. gpr = [r \in 1..31 |-> gpr[r]]
  BY DEF RomInv
<1>2. UNCHANGED <<gpr, bench, mhartid, debug_mode, dpc, flag, told>>
  BY DEF Elsewhere
<1>3. QED BY <1>1, <1>2, MovesOn DEF Answers

\* A store to one of the words the debugger looks at.
LEMMA RomTells ==
    ASSUME RomInv, debug_mode, NEW j \in Visited, Here(j)', Answers,
           UNCHANGED <<gpr, dscratch>>, UNCHANGED Elsewhere
    PROVE  RomInv' /\ Answers
<1>1. /\ gpr = [r \in 1..31 |-> gpr[r]]
      /\ dscratch = [r \in {"dscratch0", "dscratch1"} |-> dscratch[r]]
  BY DEF RomInv
<1>2. UNCHANGED <<gpr, dscratch, bench, mhartid, debug_mode, dpc, flag>>
  BY DEF Elsewhere
<1>3. QED BY <1>1, <1>2, MovesOn

\* A byte of the flags that is not zero is the command for this hart.
LEMMA FlagSeen ==
    ASSUME RomInv, Byte(mhartid + \hA0000 + \h400) # 0
    PROVE  Commanded
<1>1. PICK f \in flag : f[1] = mhartid + \hA0000 + \h400
  BY SMT DEF Byte
<1>2. bench = "flagged" /\ f[1] = FlagADDRESSbase + FlaggedHart /\ mhartid \in 0..\h3FF
  BY DebugRomAssumption, SMT DEF RomInv
<1>3. QED BY <1>1, <1>2, DebugRomAssumption, SMT DEF FlagADDRESSbase, Commanded

\* The registers of the program at the interrupted instruction.
LEMMA KeptShape ==
    ASSUME RomInv, debug_mode
    PROVE  Kept = [r \in 1..31 |-> Kept[r]]
<1>1. PICK n \in 1..Len(loadProgram) : dpc = ProgramAddress(n)
  BY DEF RomInv, InROMCode
<1>2. Interrupted = n
  BY <1>1, PlacesOfProgram DEF Interrupted
<1>3. QED BY <1>2, RegistersShape DEF Kept

\* The next word of the ROM.
LEMMA NextWord == \A j \in 1..30 : RomAddress(j) + 4 = RomAddress(j + 1)
  BY SMT DEF RomAddress, STARTdebugPROGaddr

-----------------------------------------------------------------------------
\* Each instruction of the ROM keeps the invariant and the order of reports.
LEMMA RomCore ==
    ASSUME RomInv, debug_mode, Core
    PROVE  RomInv' /\ Answers
<1>100. PICK j \in Visited : Here(j)
  BY DEF RomInv, InROMCode
<1>101. pc = RomAddress(j) /\ (j # 0 => Instruction = loadDebugProgram[j])
  BY <1>100, InstructionOfRom DEF Here, Visited
<1>102. ~EnterDebug
  BY DEF EnterDebug
<1>0. CASE j = 0
  <2>0. Instruction = Jal(\h504)
    BY <1>0, <1>101, <1>102, InstructionOutside, ByOther, SMT
  <2>1. Goes(RomAddress(2))
    BY <1>0, <1>101, <1>102, <2>0, ByJal, SMT
    DEF RomAddress, STARTdebugPROGaddr, wheretoADDRESS
  <2>2. UNCHANGED <<gpr, dscratch, told, mhartid, bench, Kept>> /\ pc' = RomAddress(2)
    BY <2>1, RomKeeps DEF Goes, Elsewhere
  <2>3. Here(2)'
    BY <1>0, <1>100, <2>2, SMT
    DEF Here, Working, Saved, Reported, Commanded, s0, a0
  <2>4. QED BY <2>1, <2>3, RomGoes DEF Visited
<1>1. CASE j = 1
  <2>1. Goes(RomAddress(4))
    BY <1>1, <1>101, <1>102, RomWords, ByJal, SMT
    DEF RomAddress, STARTdebugPROGaddr, wheretoADDRESS
  <2>2. UNCHANGED <<gpr, dscratch, told, mhartid, bench, Kept>> /\ pc' = RomAddress(4)
    BY <2>1, RomKeeps DEF Goes, Elsewhere
  <2>3. Here(4)'
    BY <1>1, <1>100, <2>2, SMT
    DEF Here, Working, Saved, Reported, Commanded, s0, a0
  <2>4. QED BY <2>1, <2>3, RomGoes DEF Visited
<1>2. CASE j = 2
  <2>1. Goes(RomAddress(26))
    BY <1>2, <1>101, <1>102, RomWords, ByJal, SMT
    DEF RomAddress, STARTdebugPROGaddr, wheretoADDRESS
  <2>2. UNCHANGED <<gpr, dscratch, told, mhartid, bench, Kept>> /\ pc' = RomAddress(26)
    BY <2>1, RomKeeps DEF Goes, Elsewhere
  <2>3. Here(26)'
    BY <1>2, <1>100, <2>2, SMT
    DEF Here, Working, Saved, Reported, Commanded, s0, a0
  <2>4. QED BY <2>1, <2>3, RomGoes DEF Visited
<1>4. CASE j = 4
  <2>1. Goes(RomAddress(5))
    BY <1>4, <1>101, <1>102, RomWords, ByNop, SMT
    DEF RomAddress, STARTdebugPROGaddr, wheretoADDRESS
  <2>2. UNCHANGED <<gpr, dscratch, told, mhartid, bench, Kept>> /\ pc' = RomAddress(5)
    BY <2>1, RomKeeps DEF Goes, Elsewhere
  <2>3. Here(5)'
    BY <1>4, <1>100, <2>2, SMT
    DEF Here, Working, Saved, Reported, Commanded, s0, a0
  <2>4. QED BY <2>1, <2>3, RomGoes DEF Visited
<1>5. CASE j = 5
  <2>1. /\ dscratch' = [dscratch EXCEPT !["dscratch0"] = Reg(s0)] /\ pc' = pc + 4
        /\ UNCHANGED <<gpr, told>> /\ UNCHANGED Elsewhere
    BY <1>5, <1>101, <1>102, RomWords, ByCsrw, SMT
  <2>2. pc' = RomAddress(6)
    BY <1>5, <1>101, <2>1, NextWord
  <2>3. UNCHANGED <<mhartid, bench, Kept>>
    BY <2>1, RomKeeps DEF Elsewhere
  <2>4. dscratch = [r \in {"dscratch0", "dscratch1"} |-> dscratch[r]]
    BY DEF RomInv
  <2>5. Here(6)'
    BY <1>5, <1>100, <2>1, <2>2, <2>3, <2>4, SMT
    DEF Here, Working, Saved, Reported, Commanded, Reg, s0, a0
  <2>6. dscratch' = [r \in {"dscratch0", "dscratch1"} |-> dscratch'[r]]
    BY <2>1, <2>4
  <2>7. 6 \in Visited
    BY DEF Visited
  <2>8. UNCHANGED <<gpr, told>> /\ UNCHANGED Elsewhere
    BY <2>1
  <2>9. QED BY <2>5, <2>6, <2>7, <2>8, RomSaves
<1>6. CASE j = 6
  <2>1. /\ dscratch' = [dscratch EXCEPT !["dscratch1"] = Reg(a0)] /\ pc' = pc + 4
        /\ UNCHANGED <<gpr, told>> /\ UNCHANGED Elsewhere
    BY <1>6, <1>101, <1>102, RomWords, ByCsrw, SMT
  <2>2. pc' = RomAddress(7)
    BY <1>6, <1>101, <2>1, NextWord
  <2>3. UNCHANGED <<mhartid, bench, Kept>>
    BY <2>1, RomKeeps DEF Elsewhere
  <2>4. dscratch = [r \in {"dscratch0", "dscratch1"} |-> dscratch[r]]
    BY DEF RomInv
  <2>5. Here(7)'
    BY <1>6, <1>100, <2>1, <2>2, <2>3, <2>4, SMT
    DEF Here, Working, Saved, Reported, Commanded, Reg, s0, a0
  <2>6. dscratch' = [r \in {"dscratch0", "dscratch1"} |-> dscratch'[r]]
    BY <2>1, <2>4
  <2>7. 7 \in Visited
    BY DEF Visited
  <2>8. UNCHANGED <<gpr, told>> /\ UNCHANGED Elsewhere
    BY <2>1
  <2>9. QED BY <2>5, <2>6, <2>7, <2>8, RomSaves
<1>7. CASE j = 7
  <2>1. Loads(s0, mhartid)
    BY <1>7, <1>101, <1>102, RomWords, ByCsrr, SMT
  <2>2. gpr'[s0] = mhartid /\ gpr'[a0] = gpr[a0]
    BY <2>1, RomRegisters DEF s0, a0
  <2>3. UNCHANGED <<dscratch, told, mhartid, bench, Kept>>
    BY <2>1, RomKeeps DEF Loads, Elsewhere
  <2>4. pc' = RomAddress(8)
    BY <1>7, <1>101, <2>1, NextWord DEF Loads
  <2>5. Here(8)'
    BY <1>7, <1>100, <2>2, <2>3, <2>4, SMT
    DEF Here, Working, Saved, Reported, Commanded, s0, a0
  <2>6. QED BY <2>1, <2>5, RomLoads DEF Visited
<1>8. CASE j = 8
  <2>1. Loads(a0, \hA0000)
    BY <1>8, <1>101, <1>102, RomWords, ByLi, SMT
  <2>2. gpr'[a0] = \hA0000 /\ gpr'[s0] = gpr[s0]
    BY <2>1, RomRegisters DEF s0, a0
  <2>3. UNCHANGED <<dscratch, told, mhartid, bench, Kept>>
    BY <2>1, RomKeeps DEF Loads, Elsewhere
  <2>4. pc' = RomAddress(9)
    BY <1>8, <1>101, <2>1, NextWord DEF Loads
  <2>5. Here(9)'
    BY <1>8, <1>100, <2>2, <2>3, <2>4, SMT
    DEF Here, Working, Saved, Reported, Commanded, s0, a0
  <2>6. QED BY <2>1, <2>5, RomLoads DEF Visited
<1>9. CASE j = 9
  <2>1. /\ told' = Meaning(Reg(a0) + \h100) /\ pc' = pc + 4
        /\ UNCHANGED <<gpr, dscratch>> /\ UNCHANGED Elsewhere
    BY <1>9, <1>101, <1>102, RomWords, BySw, SMT
  <2>2. told' = "halted"
    BY <1>9, <1>100, <2>1, SMT
    DEF Here, Working, Meaning, Reg, a0
  <2>3. pc' = RomAddress(10)
    BY <1>9, <1>101, <2>1, NextWord
  <2>4. UNCHANGED <<mhartid, bench, Kept>>
    BY <2>1, RomKeeps DEF Elsewhere
  <2>5. Here(10)'
    BY <1>9, <1>100, <2>1, <2>2, <2>3, <2>4, SMT
    DEF Here, Working, Saved, Reported, Commanded, s0, a0
  <2>6. Answers
    BY <1>9, <1>100, <2>2, SMT
    DEF Here, Reported, Answers, Commanded
  <2>7. QED BY <2>1, <2>5, <2>6, RomTells DEF Visited
<1>10. CASE j = 10
  <2>1. Loads(s0, Reg(s0) + Reg(a0))
    BY <1>10, <1>101, <1>102, RomWords, ByAdd, SMT
  <2>2. gpr'[s0] = Reg(s0) + Reg(a0) /\ gpr'[a0] = gpr[a0]
    BY <2>1, RomRegisters DEF s0, a0
  <2>3. UNCHANGED <<dscratch, told, mhartid, bench, Kept>>
    BY <2>1, RomKeeps DEF Loads, Elsewhere
  <2>4. pc' = RomAddress(11)
    BY <1>10, <1>101, <2>1, NextWord DEF Loads
  <2>5. Here(11)'
    BY <1>10, <1>100, <2>2, <2>3, <2>4, SMT
    DEF Here, Working, Saved, Reported, Commanded, Reg, s0, a0
  <2>6. QED BY <2>1, <2>5, RomLoads DEF Visited
<1>11. CASE j = 11
  <2>1. Loads(s0, Byte(Reg(s0) + \h400))
    BY <1>11, <1>101, <1>102, RomWords, ByLbu, SMT
  <2>2. gpr'[s0] = Byte(Reg(s0) + \h400) /\ gpr'[a0] = gpr[a0]
    BY <2>1, RomRegisters DEF s0, a0
  <2>3. UNCHANGED <<dscratch, told, mhartid, bench, Kept>>
    BY <2>1, RomKeeps DEF Loads, Elsewhere
  <2>4. pc' = RomAddress(12)
    BY <1>11, <1>101, <2>1, NextWord DEF Loads
  <2>7. gpr'[s0] # 0 => Commanded
    <3>1. Reg(s0) = mhartid + \hA0000
      BY <1>11, <1>100, SMT DEF Here, Working, Reg, s0
    <3>2. QED BY <2>2, <3>1, FlagSeen
  <2>5. Here(12)'
    BY <1>11, <1>100, <2>2, <2>3, <2>4, <2>7, SMT
    DEF Here, Working, Saved, Reported, Commanded, s0, a0
  <2>6. QED BY <2>1, <2>5, RomLoads DEF Visited
<1>12. CASE j = 12
  <2>1. Loads(s0, 1 * ((Reg(s0) \div 1) % 2))
    BY <1>12, <1>101, <1>102, RomWords, ByAndi, SMT
  <2>2. gpr'[s0] = 1 * ((Reg(s0) \div 1) % 2) /\ gpr'[a0] = gpr[a0]
    BY <2>1, RomRegisters DEF s0, a0
  <2>3. UNCHANGED <<dscratch, told, mhartid, bench, Kept>>
    BY <2>1, RomKeeps DEF Loads, Elsewhere
  <2>4. pc' = RomAddress(13)
    BY <1>12, <1>101, <2>1, NextWord DEF Loads
  <2>5. Here(13)'
    BY <1>12, <1>100, <2>2, <2>3, <2>4, SMT
    DEF Here, Working, Saved, Reported, Commanded, Reg, s0, a0
  <2>6. QED BY <2>1, <2>5, RomLoads DEF Visited
<1>13. CASE j = 13
  <2>1. Goes(IF Reg(s0) # 0 THEN pc + 36 ELSE pc + 4)
    BY <1>13, <1>101, <1>102, RomWords, ByBnez, SMT
  <2>2. gpr[s0] = Reg(s0)
    BY DEF Reg, s0
  <2>3. CASE Reg(s0) # 0
    <3>1. Goes(RomAddress(22))
      BY <1>13, <1>101, <2>1, <2>3, SMT DEF RomAddress, STARTdebugPROGaddr
    <3>2. UNCHANGED <<gpr, dscratch, told, mhartid, bench, Kept>> /\ pc' = RomAddress(22)
      BY <3>1, RomKeeps DEF Goes, Elsewhere
    <3>3. Here(22)'
      BY <1>13, <1>100, <2>2, <2>3, <3>2, SMT DEF Here, Working, Saved, Reported, Commanded
    <3>4. QED BY <3>1, <3>3, RomGoes DEF Visited
  <2>4. CASE Reg(s0) = 0
    <3>1. Goes(RomAddress(14))
      BY <1>13, <1>101, <2>1, <2>4, SMT DEF RomAddress, STARTdebugPROGaddr
    <3>2. UNCHANGED <<gpr, dscratch, told, mhartid, bench, Kept>> /\ pc' = RomAddress(14)
      BY <3>1, RomKeeps DEF Goes, Elsewhere
    <3>3. Here(14)'
      BY <1>13, <1>100, <3>2, SMT DEF Here, Working, Saved, Reported, Commanded
    <3>4. QED BY <3>1, <3>3, RomGoes DEF Visited
  <2>5. QED BY <2>3, <2>4
<1>14. CASE j = 14
  <2>1. Loads(s0, mhartid)
    BY <1>14, <1>101, <1>102, RomWords, ByCsrr, SMT
  <2>2. gpr'[s0] = mhartid /\ gpr'[a0] = gpr[a0]
    BY <2>1, RomRegisters DEF s0, a0
  <2>3. UNCHANGED <<dscratch, told, mhartid, bench, Kept>>
    BY <2>1, RomKeeps DEF Loads, Elsewhere
  <2>4. pc' = RomAddress(15)
    BY <1>14, <1>101, <2>1, NextWord DEF Loads
  <2>5. Here(15)'
    BY <1>14, <1>100, <2>2, <2>3, <2>4, SMT
    DEF Here, Working, Saved, Reported, Commanded, s0, a0
  <2>6. QED BY <2>1, <2>5, RomLoads DEF Visited
<1>15. CASE j = 15
  <2>1. Loads(s0, Reg(s0) + Reg(a0))
    BY <1>15, <1>101, <1>102, RomWords, ByAdd, SMT
  <2>2. gpr'[s0] = Reg(s0) + Reg(a0) /\ gpr'[a0] = gpr[a0]
    BY <2>1, RomRegisters DEF s0, a0
  <2>3. UNCHANGED <<dscratch, told, mhartid, bench, Kept>>
    BY <2>1, RomKeeps DEF Loads, Elsewhere
  <2>4. pc' = RomAddress(16)
    BY <1>15, <1>101, <2>1, NextWord DEF Loads
  <2>5. Here(16)'
    BY <1>15, <1>100, <2>2, <2>3, <2>4, SMT
    DEF Here, Working, Saved, Reported, Commanded, Reg, s0, a0
  <2>6. QED BY <2>1, <2>5, RomLoads DEF Visited
<1>16. CASE j = 16
  <2>1. Loads(s0, Byte(Reg(s0) + \h400))
    BY <1>16, <1>101, <1>102, RomWords, ByLbu, SMT
  <2>2. gpr'[s0] = Byte(Reg(s0) + \h400) /\ gpr'[a0] = gpr[a0]
    BY <2>1, RomRegisters DEF s0, a0
  <2>3. UNCHANGED <<dscratch, told, mhartid, bench, Kept>>
    BY <2>1, RomKeeps DEF Loads, Elsewhere
  <2>4. pc' = RomAddress(17)
    BY <1>16, <1>101, <2>1, NextWord DEF Loads
  <2>7. gpr'[s0] # 0 => Commanded
    <3>1. Reg(s0) = mhartid + \hA0000
      BY <1>16, <1>100, SMT DEF Here, Working, Reg, s0
    <3>2. QED BY <2>2, <3>1, FlagSeen
  <2>5. Here(17)'
    BY <1>16, <1>100, <2>2, <2>3, <2>4, <2>7, SMT
    DEF Here, Working, Saved, Reported, Commanded, s0, a0
  <2>6. QED BY <2>1, <2>5, RomLoads DEF Visited
<1>17. CASE j = 17
  <2>1. Loads(s0, 2 * ((Reg(s0) \div 2) % 2))
    BY <1>17, <1>101, <1>102, RomWords, ByAndi, SMT
  <2>2. gpr'[s0] = 2 * ((Reg(s0) \div 2) % 2) /\ gpr'[a0] = gpr[a0]
    BY <2>1, RomRegisters DEF s0, a0
  <2>3. UNCHANGED <<dscratch, told, mhartid, bench, Kept>>
    BY <2>1, RomKeeps DEF Loads, Elsewhere
  <2>4. pc' = RomAddress(18)
    BY <1>17, <1>101, <2>1, NextWord DEF Loads
  <2>5. Here(18)'
    BY <1>17, <1>100, <2>2, <2>3, <2>4, SMT
    DEF Here, Working, Saved, Reported, Commanded, Reg, s0, a0
  <2>6. QED BY <2>1, <2>5, RomLoads DEF Visited
<1>18. CASE j = 18
  <2>1. Goes(IF Reg(s0) # 0 THEN pc + -64 ELSE pc + 4)
    BY <1>18, <1>101, <1>102, RomWords, ByBnez, SMT
  <2>2. gpr[s0] = Reg(s0)
    BY DEF Reg, s0
  <2>3. CASE Reg(s0) # 0
    <3>1. Goes(RomAddress(2))
      BY <1>18, <1>101, <2>1, <2>3, SMT DEF RomAddress, STARTdebugPROGaddr
    <3>2. UNCHANGED <<gpr, dscratch, told, mhartid, bench, Kept>> /\ pc' = RomAddress(2)
      BY <3>1, RomKeeps DEF Goes, Elsewhere
    <3>3. Here(2)'
      BY <1>18, <1>100, <2>2, <2>3, <3>2, SMT DEF Here, Working, Saved, Reported, Commanded
    <3>4. QED BY <3>1, <3>3, RomGoes DEF Visited
  <2>4. CASE Reg(s0) = 0
    <3>1. Goes(RomAddress(19))
      BY <1>18, <1>101, <2>1, <2>4, SMT DEF RomAddress, STARTdebugPROGaddr
    <3>2. UNCHANGED <<gpr, dscratch, told, mhartid, bench, Kept>> /\ pc' = RomAddress(19)
      BY <3>1, RomKeeps DEF Goes, Elsewhere
    <3>3. Here(19)'
      BY <1>18, <1>100, <3>2, SMT DEF Here, Working, Saved, Reported, Commanded
    <3>4. QED BY <3>1, <3>3, RomGoes DEF Visited
  <2>5. QED BY <2>3, <2>4
<1>19. CASE j = 19
  <2>1. Goes(RomAddress(7))
    BY <1>19, <1>101, <1>102, RomWords, ByJal, SMT
    DEF RomAddress, STARTdebugPROGaddr, wheretoADDRESS
  <2>2. UNCHANGED <<gpr, dscratch, told, mhartid, bench, Kept>> /\ pc' = RomAddress(7)
    BY <2>1, RomKeeps DEF Goes, Elsewhere
  <2>3. Here(7)'
    BY <1>19, <1>100, <2>2, SMT
    DEF Here, Working, Saved, Reported, Commanded, s0, a0
  <2>4. QED BY <2>1, <2>3, RomGoes DEF Visited
<1>22. CASE j = 22
  <2>1. Loads(s0, dscratch["dscratch0"])
    BY <1>22, <1>101, <1>102, RomWords, ByCsrr, SMT
  <2>2. gpr'[s0] = dscratch["dscratch0"] /\ gpr'[a0] = gpr[a0]
    BY <2>1, RomRegisters DEF s0, a0
  <2>3. UNCHANGED <<dscratch, told, mhartid, bench, Kept>>
    BY <2>1, RomKeeps DEF Loads, Elsewhere
  <2>4. pc' = RomAddress(23)
    BY <1>22, <1>101, <2>1, NextWord DEF Loads
  <2>5. Here(23)'
    BY <1>22, <1>100, <2>2, <2>3, <2>4, SMT
    DEF Here, Working, Saved, Reported, Commanded, s0, a0
  <2>6. QED BY <2>1, <2>5, RomLoads DEF Visited
<1>23. CASE j = 23
  <2>1. /\ told' = Meaning(Reg(a0) + \h104) /\ pc' = pc + 4
        /\ UNCHANGED <<gpr, dscratch>> /\ UNCHANGED Elsewhere
    BY <1>23, <1>101, <1>102, RomWords, BySw, SMT
  <2>2. told' = "going"
    BY <1>23, <1>100, <2>1, SMT
    DEF Here, Working, Meaning, Reg, a0
  <2>3. pc' = RomAddress(24)
    BY <1>23, <1>101, <2>1, NextWord
  <2>4. UNCHANGED <<mhartid, bench, Kept>>
    BY <2>1, RomKeeps DEF Elsewhere
  <2>5. Here(24)'
    BY <1>23, <1>100, <2>1, <2>2, <2>3, <2>4, SMT
    DEF Here, Working, Saved, Reported, Commanded, s0, a0
  <2>6. Answers
    BY <1>23, <1>100, <2>2, SMT
    DEF Here, Reported, Answers, Commanded
  <2>7. QED BY <2>1, <2>5, <2>6, RomTells DEF Visited
<1>24. CASE j = 24
  <2>1. Loads(a0, dscratch["dscratch1"])
    BY <1>24, <1>101, <1>102, RomWords, ByCsrr, SMT
  <2>2. gpr'[a0] = dscratch["dscratch1"] /\ gpr'[s0] = gpr[s0]
    BY <2>1, RomRegisters DEF s0, a0
  <2>3. UNCHANGED <<dscratch, told, mhartid, bench, Kept>>
    BY <2>1, RomKeeps DEF Loads, Elsewhere
  <2>4. pc' = RomAddress(25)
    BY <1>24, <1>101, <2>1, NextWord DEF Loads
  <2>5. Here(25)'
    BY <1>24, <1>100, <2>2, <2>3, <2>4, SMT
    DEF Here, Working, Saved, Reported, Commanded, s0, a0
  <2>6. QED BY <2>1, <2>5, RomLoads DEF Visited
<1>25. CASE j = 25
  <2>1. Goes(RomAddress(0))
    BY <1>25, <1>101, <1>102, RomWords, ByJal, SMT
    DEF RomAddress, STARTdebugPROGaddr, wheretoADDRESS
  <2>2. UNCHANGED <<gpr, dscratch, told, mhartid, bench, Kept>> /\ pc' = RomAddress(0)
    BY <2>1, RomKeeps DEF Goes, Elsewhere
  <2>3. Here(0)'
    BY <1>25, <1>100, <2>2, SMT
    DEF Here, Working, Saved, Reported, Commanded, s0, a0
  <2>4. QED BY <2>1, <2>3, RomGoes DEF Visited
<1>26. CASE j = 26
  <2>1. Loads(s0, mhartid)
    BY <1>26, <1>101, <1>102, RomWords, ByCsrr, SMT
  <2>2. gpr'[s0] = mhartid /\ gpr'[a0] = gpr[a0]
    BY <2>1, RomRegisters DEF s0, a0
  <2>3. UNCHANGED <<dscratch, told, mhartid, bench, Kept>>
    BY <2>1, RomKeeps DEF Loads, Elsewhere
  <2>4. pc' = RomAddress(27)
    BY <1>26, <1>101, <2>1, NextWord DEF Loads
  <2>5. Here(27)'
    BY <1>26, <1>100, <2>2, <2>3, <2>4, SMT
    DEF Here, Working, Saved, Reported, Commanded, s0, a0
  <2>6. QED BY <2>1, <2>5, RomLoads DEF Visited
<1>27. CASE j = 27
  <2>1. Loads(a0, \hA0000)
    BY <1>27, <1>101, <1>102, RomWords, ByLi, SMT
  <2>2. gpr'[a0] = \hA0000 /\ gpr'[s0] = gpr[s0]
    BY <2>1, RomRegisters DEF s0, a0
  <2>3. UNCHANGED <<dscratch, told, mhartid, bench, Kept>>
    BY <2>1, RomKeeps DEF Loads, Elsewhere
  <2>4. pc' = RomAddress(28)
    BY <1>27, <1>101, <2>1, NextWord DEF Loads
  <2>5. Here(28)'
    BY <1>27, <1>100, <2>2, <2>3, <2>4, SMT
    DEF Here, Working, Saved, Reported, Commanded, s0, a0
  <2>6. QED BY <2>1, <2>5, RomLoads DEF Visited
<1>28. CASE j = 28
  <2>1. /\ told' = Meaning(Reg(a0) + \h108) /\ pc' = pc + 4
        /\ UNCHANGED <<gpr, dscratch>> /\ UNCHANGED Elsewhere
    BY <1>28, <1>101, <1>102, RomWords, BySw, SMT
  <2>2. told' = "resuming"
    BY <1>28, <1>100, <2>1, SMT
    DEF Here, Working, Meaning, Reg, a0
  <2>3. pc' = RomAddress(29)
    BY <1>28, <1>101, <2>1, NextWord
  <2>4. UNCHANGED <<mhartid, bench, Kept>>
    BY <2>1, RomKeeps DEF Elsewhere
  <2>5. Here(29)'
    BY <1>28, <1>100, <2>1, <2>2, <2>3, <2>4, SMT
    DEF Here, Working, Saved, Reported, Commanded, s0, a0
  <2>6. Answers
    BY <1>28, <1>100, <2>2, SMT
    DEF Here, Reported, Answers, Commanded
  <2>7. QED BY <2>1, <2>5, <2>6, RomTells DEF Visited
<1>29. CASE j = 29
  <2>1. Loads(s0, dscratch["dscratch0"])
    BY <1>29, <1>101, <1>102, RomWords, ByCsrr, SMT
  <2>2. gpr'[s0] = dscratch["dscratch0"] /\ gpr'[a0] = gpr[a0]
    BY <2>1, RomRegisters DEF s0, a0
  <2>3. UNCHANGED <<dscratch, told, mhartid, bench, Kept>>
    BY <2>1, RomKeeps DEF Loads, Elsewhere
  <2>4. pc' = RomAddress(30)
    BY <1>29, <1>101, <2>1, NextWord DEF Loads
  <2>5. Here(30)'
    BY <1>29, <1>100, <2>2, <2>3, <2>4, SMT
    DEF Here, Working, Saved, Reported, Commanded, s0, a0
  <2>6. QED BY <2>1, <2>5, RomLoads DEF Visited
<1>30. CASE j = 30
  <2>1. Loads(a0, dscratch["dscratch1"])
    BY <1>30, <1>101, <1>102, RomWords, ByCsrr, SMT
  <2>2. gpr'[a0] = dscratch["dscratch1"] /\ gpr'[s0] = gpr[s0]
    BY <2>1, RomRegisters DEF s0, a0
  <2>3. UNCHANGED <<dscratch, told, mhartid, bench, Kept>>
    BY <2>1, RomKeeps DEF Loads, Elsewhere
  <2>4. pc' = RomAddress(31)
    BY <1>30, <1>101, <2>1, NextWord DEF Loads
  <2>7. gpr' = Kept
    <3>1. gpr = [r \in 1..31 |-> gpr[r]] /\ \A r \in 1..31 \ {s0, a0} : gpr[r] = Kept[r]
      BY DEF RomInv, InROMCode
    <3>2. Kept = [r \in 1..31 |-> Kept[r]]
      BY KeptShape
    <3>3. gpr[s0] = Kept[s0] /\ dscratch["dscratch1"] = Kept[a0]
      BY <1>30, <1>100, SMT DEF Here, Saved
    <3>4. gpr' = [gpr EXCEPT ![a0] = Kept[a0]]
      BY <2>1, <3>3 DEF Loads
    <3>5. \A r \in 1..31 : gpr'[r] = Kept[r]
      BY <3>1, <3>3, <3>4 DEF s0, a0
    <3>6. gpr' = [r \in 1..31 |-> gpr'[r]]
      BY <3>1, <3>4
    <3>7. QED BY <3>2, <3>5, <3>6
  <2>5. Here(31)'
    BY <1>30, <1>100, <2>2, <2>3, <2>4, <2>7, SMT
    DEF Here, Working, Saved, Reported, Commanded, s0, a0
  <2>6. QED BY <2>1, <2>5, RomLoads DEF Visited
<1>31. CASE j = 31
  <2>1. /\ pc' = dpc /\ debug_mode' = FALSE
        /\ UNCHANGED <<bench, mhartid, dpc, dscratch, gpr, flag, redirected, told>>
    BY <1>31, <1>101, <1>102, RomWords, ByDret, SMT
  <2>2. gpr = Kept /\ told = "resuming" /\ Commanded
    BY <1>31, <1>100, SMT
    DEF Here, Saved, Reported
  <2>3. PICK n \in 1..Len(loadProgram) : dpc = ProgramAddress(n)
    BY DEF RomInv, InROMCode
  <2>4. Interrupted = n
    BY <2>3, PlacesOfProgram DEF Interrupted
  <2>5. InProgram'
    BY <2>1, <2>2, <2>3, <2>4 DEF InProgram, Kept, Commanded, ProgramAddress
  <2>6. RomInv'
    BY <2>1, <2>5, Zenon DEF RomInv
  <2>7. QED BY <2>1, <2>6 DEF Answers
<1>103. QED
  BY <1>100, <1>0, <1>1, <1>2, <1>4, <1>5, <1>6, <1>7,
     <1>8, <1>9, <1>10, <1>11, <1>12, <1>13, <1>14, <1>15, <1>16, <1>17, <1>18, <1>19, <1>22,
     <1>23, <1>24, <1>25, <1>26, <1>27, <1>28, <1>29, <1>30, <1>31
  DEF Visited

-----------------------------------------------------------------------------
(* In the program.                                                           *)

\* A load goes on to the next instruction with the registers of its own.
LEMMA ProgramLoads ==
    ASSUME RomInv, ~debug_mode, Core, ~EnterDebug,
           NEW n \in 1..Len(loadProgram), pc = ProgramAddress(n), gpr = RegistersBefore[n],
           LoadsAt(n)
    PROVE  RomInv' /\ Answers
<1>1. PICK r \in 1..31, v \in {-1, 0, 64, 93, 102} : loadProgram[n] = Li(r, v)
  BY DEF LoadsAt, Loading
<1>2. n \in 1..Len(loadProgram) - 1 /\ n + 1 \in 1..Len(loadProgram)
  BY ProgramWords DEF LoadsAt
<1>3. Loads(r, v)
  BY <1>1, InstructionOfProgram, ByLi
<1>4. gpr' = RegistersBefore[n + 1]
  <2>1. RegistersBefore[n + 1] = [RegistersBefore[n] EXCEPT ![r] = v]
    BY <1>1, <1>2, RegistersLoad
  <2>2. QED BY <1>3, <2>1 DEF Loads
<1>5. pc' = ProgramAddress(n + 1)
  BY <1>2, <1>3 DEF Loads, ProgramAddress, STARTprogrammADDR
<1>6. UNCHANGED <<dscratch, told, bench, mhartid, debug_mode, flag>>
  BY <1>3 DEF Loads, Elsewhere
<1>7. InProgram'
  BY <1>2, <1>4, <1>5, <1>6 DEF RomInv, InProgram, Commanded
<1>8. gpr' = [q \in 1..31 |-> gpr'[q]]
  <2>1. RegistersBefore[n + 1] = [q \in 1..31 |-> RegistersBefore[n + 1][q]]
    BY ONLY <1>2, RegistersShape
  <2>2. QED BY ONLY <1>4, <2>1
<1>9. QED BY <1>6, <1>7, <1>8 DEF RomInv, Answers

\* A store tells the debugger nothing.
LEMMA ProgramStores ==
    ASSUME RomInv, ~debug_mode, Core, ~EnterDebug,
           NEW n \in 1..Len(loadProgram), pc = ProgramAddress(n), gpr = RegistersBefore[n],
           StoresAt(n)
    PROVE  RomInv' /\ Answers
<1>1. n \in 1..Len(loadProgram) - 1 /\ n + 1 \in 1..Len(loadProgram)
  BY ProgramWords DEF StoresAt
<1>2. /\ told' = Meaning(Reg(15) + 0) /\ pc' = pc + 4
      /\ UNCHANGED <<gpr, dscratch>> /\ UNCHANGED Elsewhere
  BY InstructionOfProgram, BySw DEF StoresAt
<1>3. told' = told
  <2>1. Reg(15) = 64
    BY RegistersStore DEF Reg
  <2>2. QED BY <1>2, <2>1, SMT DEF Meaning
<1>4. gpr' = RegistersBefore[n + 1]
  <2>1. loadProgram[n].op # "li"
    BY DEF StoresAt, Sw
  <2>2. QED BY <1>1, <1>2, <2>1, RegistersStay
<1>5. pc' = ProgramAddress(n + 1)
  BY <1>1, <1>2 DEF ProgramAddress, STARTprogrammADDR
<1>6. UNCHANGED <<gpr, dscratch, told, bench, mhartid, debug_mode, flag>>
  BY <1>2, <1>3 DEF Elsewhere
<1>7. InProgram'
  BY <1>1, <1>4, <1>5, <1>6 DEF RomInv, InProgram, Commanded
<1>8. QED BY <1>6, <1>7 DEF RomInv, Answers

\* The request is taken with the program's registers still in place.
LEMMA Enters ==
    ASSUME RomInv, EnterDebug
    PROVE  RomInv' /\ Answers
<1>1. /\ bench = "request" /\ ~debug_mode /\ debug_mode' = TRUE /\ dpc' = pc
      /\ pc' = STARTdebugPROGaddr
      /\ UNCHANGED <<bench, mhartid, dscratch, gpr, flag, told>>
  BY DEF EnterDebug
<1>2. PICK n \in 1..Len(loadProgram) : pc = ProgramAddress(n) /\ gpr = RegistersBefore[n]
  BY <1>1 DEF RomInv, InProgram
<1>3. told = "nothing"
  BY <1>1 DEF RomInv, InProgram, Commanded
<1>4. Kept' = gpr
  BY <1>1, <1>2, PlacesOfProgram DEF Kept, Interrupted
<1>5. pc' = RomAddress(1)
  BY <1>1, SMT DEF RomAddress, STARTdebugPROGaddr
<1>6. Here(1)'
  BY <1>1, <1>3, <1>4, <1>5, SMT DEF Here, Working, Saved, Reported
<1>7. InROMCode'
  <2>1. 1 \in Visited
    BY DEF Visited
  <2>2. \E m \in 1..Len(loadProgram) : dpc' = ProgramAddress(m)
    BY <1>1, <1>2
  <2>3. \A r \in 1..31 \ {s0, a0} : gpr'[r] = Kept'[r]
    BY <1>1, <1>4
  <2>4. QED BY <1>1, <1>6, <2>1, <2>2, <2>3, Zenon DEF InROMCode
<1>8. QED BY <1>1, <1>7 DEF RomInv, Answers

\* Each instruction of the program does, and so does the request.
LEMMA ProgramCore ==
    ASSUME RomInv, ~debug_mode, Core
    PROVE  RomInv' /\ Answers
<1>1. PICK n \in 1..Len(loadProgram) : pc = ProgramAddress(n) /\ gpr = RegistersBefore[n]
  BY DEF RomInv, InProgram
<1>2. CASE EnterDebug
  BY <1>2, Enters
<1>3. CASE ~EnterDebug
  <2>1. ~EndsAt(n)
    BY <1>1, <1>3, InstructionOfProgram, ByOther DEF EndsAt
  <2>2. LoadsAt(n) \/ StoresAt(n)
    BY <2>1, ProgramWords
  <2>3. QED BY <1>1, <1>3, <2>2, ProgramLoads, ProgramStores
<1>4. QED BY <1>2, <1>3

-----------------------------------------------------------------------------
(* main.                                                                     *)

\* main keeps it: a command can be there from then on, not before.
LEMMA BenchMoves ==
    ASSUME RomInv, Main
    PROVE  RomInv' /\ Answers
<1>1. UNCHANGED <<mhartid, debug_mode, pc, dpc, dscratch, gpr, told>>
  BY DEF Main, EnableFetch, RequestDebug, LeaveCommand, coreVars
<1>2. \/ bench = "reset" /\ bench' = "run" /\ flag' = flag
      \/ bench = "run" /\ bench' = "request" /\ flag' = flag
      \/ /\ bench = "request" /\ bench' = "flagged"
         /\ \E f \in Flags : flag' = DebugFLAG(FlaggedHart, f)
  BY DEF Main, EnableFetch, RequestDebug, LeaveCommand
<1>3. ~Commanded
  BY <1>2 DEF Commanded
<1>4. /\ bench' \in {"run", "request", "flagged"} /\ (bench' # "flagged" => flag' = {})
      /\ \A f \in flag' : f[1] = FlagADDRESSbase + FlaggedHart
  BY <1>2 DEF RomInv, DebugFLAG
<1>5. CASE debug_mode
  <2>1. bench' \in {"request", "flagged"} /\ InROMCode
    BY <1>2, <1>5 DEF RomInv, InROMCode
  <2>2. Kept' = Kept
    BY <1>1 DEF Kept, Interrupted
  <2>3. ASSUME NEW j \in Visited, Here(j) PROVE Here(j)'
    BY <1>1, <1>3, <2>2, <2>3, SMT
    DEF Here, Working, Saved, Reported
  <2>4. InROMCode'
    BY <1>1, <2>1, <2>2, <2>3, Zenon DEF InROMCode
  <2>5. QED BY <1>1, <1>4, <1>5, <2>4 DEF RomInv, Answers
<1>6. CASE ~debug_mode
  <2>1. InProgram'
    BY <1>1, <1>3, <1>6 DEF RomInv, InProgram
  <2>2. QED BY <1>1, <1>4, <1>6, <2>1 DEF RomInv, Answers
<1>7. QED BY <1>5, <1>6 DEF RomInv

-----------------------------------------------------------------------------
\* It holds when main starts.
LEMMA RomStarts == RomInit => RomInv
<1> SUFFICES ASSUME RomInit PROVE RomInv
  OBVIOUS
<1>1. pc = ProgramAddress(1) /\ 1 \in 1..Len(loadProgram)
  BY ProgramWords DEF RomInit, ProgramAddress, STARTprogrammADDR
<1>2. InProgram
  BY <1>1, RegistersStart DEF RomInit, InProgram
<1>3. QED BY <1>2 DEF RomInit, RomInv

\* Every step keeps it.
LEMMA RomSteps == RomInv /\ [RomNext]_romVars => RomInv' /\ (Answers \/ UNCHANGED romVars)
<1> SUFFICES ASSUME RomInv, [RomNext]_romVars
             PROVE  RomInv' /\ (Answers \/ UNCHANGED romVars)
  OBVIOUS
<1>1. CASE Core
  BY <1>1, RomCore, ProgramCore
<1>2. CASE Main
  BY <1>2, BenchMoves
<1>3. CASE Over \/ UNCHANGED romVars
  <2>1. UNCHANGED romVars
    BY <1>3 DEF Over
  <2>2. Kept' = Kept /\ (Commanded' <=> Commanded)
    BY <2>1 DEF romVars, Kept, Interrupted, Commanded
  <2>3. \A j : Here(j) <=> Here(j)'
    BY <2>1, <2>2, SMT DEF romVars, Here, Working, Saved, Reported
  <2>4. InROMCode <=> InROMCode'
    BY <2>1, <2>2, <2>3, Zenon DEF romVars, InROMCode
  <2>5. InProgram <=> InProgram'
    BY <2>1, <2>2, Zenon DEF romVars, InProgram
  <2>6. QED BY <2>1, <2>4, <2>5, Zenon DEF romVars, RomInv
<1>4. QED BY <1>1, <1>2, <1>3 DEF RomNext

\* What the ROM, the scratch registers and the last report are at every
\* instruction, for any hart, command, length of the program and moment of the
\* request.
THEOREM RomInvariant == RomSpec => []RomInv
<1>1. RomInv /\ [RomNext]_romVars => RomInv'
  BY RomSteps
<1>2. QED BY <1>1, RomStarts, PTL DEF RomSpec

\* The program cannot tell that it was debugged.
THEOREM ProgramUndisturbed == RomSpec => []SessionTransparent
<1>1. RomInv => SessionTransparent
  BY PlacesOfProgram DEF RomInv, InProgram, SessionTransparent
<1>2. QED BY <1>1, RomInvariant, PTL

\* The hart reports in order, and only for its own command.
THEOREM ReportsInOrder == RomSpec => HandshakeOrdered
<1>1. RomInv /\ [RomNext]_romVars => [Answers]_romVars
  BY RomSteps
<1>2. QED BY <1>1, RomInvariant, PTL DEF RomSpec, HandshakeOrdered
=============================================================================
