------------------------------ MODULE ScanTest ------------------------------
(***************************************************************************)
(* What a scan-based self-test session promises to whoever starts it, with *)
(* no clock cycles and no counters in it: the chains are loaded, then      *)
(* exactly Captures times a response is captured and unloaded (while the   *)
(* next pattern is loaded), then the end is announced and after it the     *)
(* verdict.  A reset may take the session away at any point.               *)
(* BistController implements it; the mapping is in BistRefinement.         *)
(***************************************************************************)
EXTENDS Integers

CONSTANT Captures  \* at least 1

VARIABLES phase,   \* where the session is
          applied  \* responses captured so far in this session

vars == <<phase, applied>>

Phase == {"off", "start", "shift", "capture", "report", "verdict"}

TypeOK == phase \in Phase /\ applied \in 0 .. Captures

Init == phase = "off" /\ applied = 0

Begin == /\ phase = "off"
         /\ phase' = "start"
         /\ UNCHANGED applied

Load == /\ phase \in {"start", "capture"}
        /\ phase' = "shift"
        /\ UNCHANGED applied

Capture == /\ phase = "shift"
           /\ applied < Captures
           /\ phase' = "capture"
           /\ applied' = applied + 1

Report == /\ phase = "shift"
          /\ applied = Captures
          /\ phase' = "report"
          /\ UNCHANGED applied

Verdict == /\ phase = "report"
           /\ phase' = "verdict"
           /\ UNCHANGED applied

End == /\ phase = "verdict"
       /\ phase' = "off"
       /\ applied' = 0

Abort == phase' = "off" /\ applied' = 0

Progress == Load \/ Capture \/ Report \/ Verdict \/ End

Next == Begin \/ Progress \/ Abort

Spec == Init /\ [][Next]_vars

FairSpec == Spec /\ WF_vars(Progress)
=============================================================================
