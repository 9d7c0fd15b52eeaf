------------------------------- MODULE MCBist -------------------------------
(***************************************************************************)
(* The smallest block with everything in it: three chains, one of them     *)
(* shorter than the others as in src/syn/output/riscv_core_scan.spf, a     *)
(* 3-bit generator and compactor with primitive feedback, three vectors,   *)
(* and a core whose next cells mix cells of all the chains and its muxed   *)
(* input.                                                                  *)
(***************************************************************************)
EXTENDS Bist

Len221 == [c \in 0 .. 2 |-> IF c = 2 THEN 1 ELSE 2]

Seed1 == [i \in 0 .. 2 |-> IF i = 0 THEN 1 ELSE 0]

SmallCore(word, pi) ==
  [x \in Cells |->
     IF x[2] = 1 THEN Xor(word[<<(x[1] + 1) % W, 1>>], pi)
     ELSE IF word[<<x[1], 1>>] = 1 THEN word[<<2, 1>>] ELSE 1 - word[x]]

\* A fault-free core after one edge with resetn low; no reset afterwards.
ClearedInit == BistInit /\ lfsr = Zero(W) /\ misr = Zero(W)

ClearedNext == \E test_normal, pi \in Bit : BistClock(1, test_normal, pi) /\ UNCHANGED error

ClearedSpec == ClearedInit /\ [][ClearedNext]_bistVars
=============================================================================
