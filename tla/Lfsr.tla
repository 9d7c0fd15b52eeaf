-------------------------------- MODULE Lfsr --------------------------------
(***************************************************************************)
(* The pattern generator (src/src/lfsr.vhd): a Fibonacci LFSR of W bits    *)
(* with a parallel load of Seed.  In the source W = 20, the feedback is    *)
(* bit 19 xor bit 2 (x^20 + x^3 + 1) and the seed is 1 (bist.vhd:77).      *)
(***************************************************************************)
EXTENDS BitVec

CONSTANTS W, Tap, Seed

(* What the modules that instantiate this one assume.                        *)
LfsrShape == /\ W \in Nat \ {0}
             /\ Tap \in 0 .. W - 2
             /\ Seed \in Word(W)
             /\ Seed # Zero(W)

VARIABLE ff_output

\* Mutation: the neighbour of the tap.
xor_result_next(ff) == Xor(ff[W - 1], ff[Tap + 1])

xor_result(ff) == Xor(ff[W - 1], ff[Tap])

Shifted(ff) ==
  [i \in 0 .. W - 1 |-> IF i = 0 THEN xor_result(ff) ELSE ff[i - 1]]

\* Mutation: the seed is never selected.
ff_input_unseeded(lfsr_load) == Shifted(ff_output)

ff_input(lfsr_load) == IF lfsr_load = 1 THEN Seed ELSE Shifted(ff_output)

\* One rising edge of clk.
Clock(resetn, lfsr_start, lfsr_load) ==
  LET enable == IF lfsr_start = 1 \/ lfsr_load = 1 THEN 1 ELSE 0
  IN  ff_output' =
        FlipFlop(ff_output, ff_input(lfsr_load), Zero(W), resetn, enable)

\* An uninitialised register may hold any word.
Init == ff_output \in Word(W)

Next == \E resetn, lfsr_start, lfsr_load \in Bit :
           Clock(resetn, lfsr_start, lfsr_load)

Spec == Init /\ [][Next]_ff_output
=============================================================================
