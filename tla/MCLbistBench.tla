---------------------------- MODULE MCLbistBench ----------------------------
(***************************************************************************)
(* The bench around the block and the small core of MCBist, or the block   *)
(* on its own under any resetn and test_normal; the host is then at rest,  *)
(* as after $finish.  Or the generator of the source, of 20 bits, through  *)
(* a session of the source's length, with the small block at rest too.     *)
(***************************************************************************)
EXTENDS MCBist, LbistBench

CONSTANTS SourceW, SourceTap, LoadLength, Loads

VARIABLES studied, ff_output, shifts

hostVars == <<edges, flags, test_normal_sig, bist_result, finished>>
generatorVars == <<ff_output, shifts>>

\* bist.vhd:77, "00000000000000000001".
SourceSeed == [i \in 0 .. SourceW - 1 |-> IF i = 0 THEN 1 ELSE 0]

Generator == INSTANCE LfsrSessions WITH W <- SourceW, Tap <- SourceTap, Seed <- SourceSeed

ASSUME SourceShape == Generator!LfsrShape /\ {LoadLength, Loads} \subseteq Nat \ {0}

HostAtRest ==
  /\ edges = 0 /\ flags = {} /\ test_normal_sig = 1
  /\ bist_result = "none" /\ finished = TRUE

BlockAtRest ==
  /\ ClearedInit /\ count_shift = 0 /\ count_vector = 0
  /\ cells = [x \in Cells |-> 0]

LbistInit ==
  /\ Generator!SeedLoaded
  /\ \/ studied = "bench" /\ BenchInit
     \/ studied = "block" /\ BistInit /\ HostAtRest
     \/ studied = "generator" /\ BlockAtRest /\ HostAtRest

LbistNext ==
  /\ UNCHANGED studied
  /\ \/ studied = "bench" /\ BenchNext /\ UNCHANGED generatorVars
     \/ studied = "block" /\ BistNext /\ UNCHANGED <<hostVars, generatorVars>>
     \/ studied = "generator" /\ Generator!SessionsNext /\ UNCHANGED benchVars

LbistSpec == /\ LbistInit /\ [][LbistNext]_<<studied, benchVars, generatorVars>>
             /\ WF_benchVars(\E pi \in Bit : Edge(pi))

\* The generator of bist.vhd goes through every word but the zero word before it
\* comes back to its seed, so no two loads of a session start alike.
FullPeriod == Generator!MaximalPeriod
=============================================================================
