------------------------------- MODULE BitVec -------------------------------
(***************************************************************************)
(* Registers of bits: a word of width w is a function from 0 .. w-1 to     *)
(* {0, 1}, index 0 being the least significant bit as in                   *)
(* std_logic_vector(w-1 downto 0).                                         *)
(***************************************************************************)
EXTENDS Integers

Bit == {0, 1}

Word(w) == [0 .. w - 1 -> Bit]

Zero(w) == [i \in 0 .. w - 1 |-> 0]

Xor(a, b) == IF a = b THEN 0 ELSE 1

\* src/src/flipflop.vhd: a D flip-flop (or a register of them) whose
\* synchronous reset wins over its enable.
FlipFlop(q, d, cleared, resetn, enable) ==
  IF resetn = 0 THEN cleared ELSE IF enable = 1 THEN d ELSE q
=============================================================================
