---------------------------- MODULE MCFetchStage ----------------------------
EXTENDS FetchStage

(* Instructions of both sizes at both alignments, and at the end of the first  *)
(* line five patterns of sizes.                                                 *)
MCPrograms == {{1, 2, 10, 12, 15, 17, 18, 20, 21, 22} \cup P :
                 P \in {{}, {6}, {5, 6}, {5, 7}, {5, 6, 7}}}

MCTargets == {4, 7}

(* Loop 1 runs alone, within loop 2, or to the same end, and starts in the     *)
(* middle of a line or in two lines.                                           *)
Loops(s1, e1, c1, s2, e2, c2) ==
  [loops |-> <<[start |-> s1, end |-> e1], [start |-> s2, end |-> e2]>>,
   counts |-> <<c1, c2>>]

MCLoops == {Loops(0, 0, 0, 0, 0, 0), Loops(4, 7, 3, 2, 10, 2), Loops(7, 9, 3, 5, 9, 2)}
=============================================================================
