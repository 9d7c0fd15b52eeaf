------------------------------ MODULE Addresses ------------------------------
(* Instruction addresses: where the core starts, where it enters its handlers, *)
(* and where an instruction leads.                                             *)
EXTENDS Naturals

CONSTANTS
    N,            \* addresses, counted in instructions and modulo N
    Boot, TrapVector, IrqVector, DebugVector,
    JumpDistance  \* from any jump or branch to its target

ASSUME AddressAssumption ==
    /\ N \in Nat /\ N > 1 /\ JumpDistance \in Nat
    /\ {Boot, TrapVector, IrqVector, DebugVector} \subseteq 0 .. N - 1

Addr == 0 .. N - 1
After(a) == (a + 1) % N
Target(a) == (a + JumpDistance) % N
=============================================================================
