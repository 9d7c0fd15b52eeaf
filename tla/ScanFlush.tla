----------------------------- MODULE ScanFlush ------------------------------
(***************************************************************************)
(* One scan chain of Len cells under the sequencer, with what each cell    *)
(* holds reduced to where it came from.  It answers, for every chain       *)
(* length and every shift count, whether the shift phases are long enough: *)
(* the longest chains of the core have 152 cells, three have 151           *)
(* (src/syn/output/riscv_core_scan.spf), and every chain is shifted for    *)
(* the same ShiftLast + 1 cycles.                                          *)
(***************************************************************************)
EXTENDS BistController

CONSTANT Len

\* Cells of a chain; one load shifts ShiftLast + 1 times.
ASSUME ChainFits == Len \in Nat /\ 1 <= Len /\ Len <= ShiftLast + 1

Cell == 1 .. Len   \* cell 1 is next to the scan input

\* What a cell holds: something left by the running core or by an earlier
\* session, a generator bit of this session, or the response captured in cell
\* n (the value n).
Unknown == -1
Pattern == 0

VARIABLES tag,       \* what each cell holds
          absorbed   \* the cells of the last response the compactor has taken

flushVars == <<vars, tag, absorbed>>

ScanOut == tag[Len]

\* The generator shows its first word of the session after teststart_state.
ScanIn == IF lfsr_start = 1 THEN Pattern ELSE Unknown

ScanCell(i) == IF i = 1 THEN ScanIn ELSE tag[i - 1]

CoreEdge ==
  tag' = IF test_en_i = 1 THEN [i \in Cell |-> ScanCell(i)]
         ELSE IF present_state = "testexec_state" THEN [i \in Cell |-> i]
         ELSE [i \in Cell |-> Unknown]

CompactorEdge ==
  absorbed' = IF present_state = "testexec_state" THEN {}
              ELSE IF misr_so_enable = 1 /\ ScanOut \in Cell
              THEN absorbed \cup {ScanOut}
              ELSE absorbed

FlushInit == /\ Init
             /\ tag = [i \in Cell |-> Unknown]
             /\ absorbed = {}

FlushNext == Next /\ CoreEdge /\ CompactorEdge

FlushSpec == FlushInit /\ [][FlushNext]_flushVars

-----------------------------------------------------------------------------
(* Properties.                                                             *)

FlushTypeOK == /\ TypeOK
               /\ tag \in [Cell -> {Unknown, Pattern} \cup Cell]
               /\ absorbed \subseteq Cell

\* Nothing the core or an earlier session left in the chain ever reaches the
\* compactor: one unknown bit would make the signature unpredictable.
OnlyKnownAbsorbed == misr_so_enable = 1 => ScanOut # Unknown

\* A capture finds a generator bit of this session in every cell.
CaptureFindsPattern ==
  present_state = "testexec_state" => tag = [i \in Cell |-> Pattern]

\* Before the next capture overwrites a response, and before the end of the
\* session, every cell of it has been absorbed, and no cell of it twice.
ResponseUnloaded ==
  /\ present_state = "testexec_state" /\ count_vector > 1 => absorbed = Cell
  /\ present_state = "endtest_state" => absorbed = Cell
  /\ misr_so_enable = 1 => ScanOut \notin absorbed

\* Where every bit is in the middle of a shift phase.
FlushInv ==
  /\ ControllerInv
  /\ FlushTypeOK
  /\ present_state = "firstshift_state" =>
       \A i \in Cell : i <= count_shift => tag[i] = Pattern
  /\ present_state = "testshift_state" =>
       /\ \A i \in Cell : tag[i] = IF i <= count_shift THEN Pattern
                                   ELSE i - count_shift
       /\ absorbed = {n \in Cell : n > Len - count_shift}
  /\ present_state \in {"testexec_state", "endtest_state"} =>
       /\ \A i \in Cell : tag[i] = Pattern
       /\ present_state = "endtest_state" \/ count_vector > 1 => absorbed = Cell
=============================================================================
