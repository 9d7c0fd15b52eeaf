------------------------------ MODULE MisrPair ------------------------------
(***************************************************************************)
(* Two compactors under the same control: ff_out, the one that would sit   *)
(* behind a fault-free core, and the one behind the core under test.       *)
(* Their inputs agree, but in one cycle (an error: any number of wrong     *)
(* bits in that cycle).  Both may also start from different signatures, as *)
(* they do when an earlier session left its signature behind.              *)
(***************************************************************************)
EXTENDS Misr

VARIABLES suspect,
          differed   \* history: they have been made to differ, once

pairVars == <<ff_out, suspect, differed>>

PairInit == /\ Init
            /\ suspect \in Word(W)
            /\ differed = (ff_out # suspect)

Cleared == /\ \E enable \in Bit, din, din2 \in Word(W) :
                 /\ Clock(0, enable, din)
                 /\ suspect' = Clocked(suspect, 0, enable, din2)
           /\ differed' = FALSE

Agree == /\ \E enable \in Bit, din \in Word(W) :
              /\ Clock(1, enable, din)
              /\ suspect' = Clocked(suspect, 1, enable, din)
         /\ UNCHANGED differed

Error == /\ ~differed
         /\ \E din, din2 \in Word(W) :
              /\ din # din2
              /\ Clock(1, 1, din)
              /\ suspect' = Clocked(suspect, 1, 1, din2)
         /\ differed' = TRUE

PairNext == Cleared \/ Agree \/ Error

PairSpec == PairInit /\ [][PairNext]_pairVars

TypeOK == /\ ff_out \in Word(W)
          /\ suspect \in Word(W)
          /\ differed \in BOOLEAN

\* An error confined to one cycle is never masked by what the register absorbs
\* afterwards, however long; and a signature left over from before is never
\* absorbed either: two runs of the same responses end in the same signature
\* only if they started from the same one.
NeverAliases == differed <=> ff_out # suspect
=============================================================================
