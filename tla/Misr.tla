-------------------------------- MODULE Misr --------------------------------
(***************************************************************************)
(* The response compactor (src/src/misr.vhd): a multiple-input signature   *)
(* register of W bits.  Bit W-1 is fed back into the bits of Feedback; in  *)
(* the source W = 20 and Feedback = {0, 17}.  Only rstn clears it.         *)
(***************************************************************************)
EXTENDS BitVec

CONSTANTS W, Feedback

ASSUME MisrShape == /\ W \in Nat \ {0}
                    /\ Feedback \subseteq 0 .. W - 1
                    /\ 0 \in Feedback

VARIABLE ff_out

\* Mutation: the last bit is shifted out and lost.
FedBack_open(ff, i) == 0

\* The bit fed back into bit i.
FedBack(ff, i) == IF i \in Feedback THEN ff[W - 1] ELSE 0

\* The input of each flip-flop: the previous bit, the feedback and din.
ff_in(ff, din) ==
  [i \in 0 .. W - 1 |->
     Xor(Xor(IF i = 0 THEN 0 ELSE ff[i - 1], FedBack(ff, i)), din[i])]

Clocked(ff, rstn, misr_so_enable, din) ==
  FlipFlop(ff, ff_in(ff, din), Zero(W), rstn, misr_so_enable)

\* One rising edge of clk.
Clock(rstn, misr_so_enable, din) ==
  ff_out' = Clocked(ff_out, rstn, misr_so_enable, din)

Init == ff_out \in Word(W)

Next == \E rstn, misr_so_enable \in Bit, din \in Word(W) :
           Clock(rstn, misr_so_enable, din)

Spec == Init /\ [][Next]_ff_out
=============================================================================
