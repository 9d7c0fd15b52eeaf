--------------------------------- MODULE Hart ---------------------------------
(* What a program may rely on, whatever the pipeline does: instructions take   *)
(* effect one at a time and in program order; an exception, an interrupt or an *)
(* entry to debug mode saves the address of the first instruction that has not *)
(* taken effect, and the return resumes there; an interrupt is taken only when *)
(* interrupts are enabled, and never in debug mode.                            *)
EXTENDS Addresses

VARIABLES
    pc,           \* the next instruction to take effect
    csr,          \* mie, mpie, mpp, mepc; dpc, and step and ebreakm of dcsr
    debug_mode

hartVars == <<pc, csr, debug_mode>>

Trapped(c, a) == [c EXCEPT !.mepc = a, !.mpie = c.mie, !.mie = FALSE, !.mpp = "M"]
Returned(c) == [c EXCEPT !.mie = c.mpie, !.mpie = TRUE, !.mpp = "U"]

ResetCsr(ebreakm) ==
    [mie |-> FALSE, mpie |-> FALSE, mpp |-> "M", mepc |-> 0,
     dpc |-> 0, step |-> FALSE, ebreakm |-> ebreakm]

HartInit ==
    /\ pc = Boot
    /\ debug_mode = FALSE
    /\ \E ebreakm \in BOOLEAN : csr = ResetCsr(ebreakm)

Execute == pc' \in {After(pc), Target(pc)} /\ UNCHANGED <<csr, debug_mode>>

WriteStatus ==
    /\ pc' = After(pc)
    /\ \/ \E b \in BOOLEAN : csr' = [csr EXCEPT !.mie = b]
       \/ debug_mode /\ \E b \in BOOLEAN : csr' = [csr EXCEPT !.step = b]
    /\ UNCHANGED debug_mode

Exception ==
    /\ ~debug_mode
    /\ pc' = TrapVector /\ csr' = Trapped(csr, pc)
    /\ UNCHANGED debug_mode

Interrupt ==
    /\ csr.mie /\ ~debug_mode
    /\ pc' = IrqVector /\ csr' = Trapped(csr, pc)
    /\ UNCHANGED debug_mode

Mret == pc' = csr.mepc /\ csr' = Returned(csr) /\ UNCHANGED debug_mode

EnterDebug ==
    /\ ~debug_mode
    /\ debug_mode' = TRUE /\ pc' = DebugVector /\ csr' = [csr EXCEPT !.dpc = pc]

Park == debug_mode /\ pc' = DebugVector /\ UNCHANGED <<csr, debug_mode>>

Dret ==
    /\ debug_mode
    /\ debug_mode' = FALSE /\ pc' = csr.dpc
    /\ UNCHANGED csr

HartNext == Execute \/ WriteStatus \/ Exception \/ Interrupt \/ Mret
              \/ EnterDebug \/ Park \/ Dret

HartSpec == HartInit /\ [][HartNext]_hartVars
=============================================================================
