-------------------------------- MODULE Bist --------------------------------
(***************************************************************************)
(* The LBIST block (src/src/bist.vhd) around a scan-inserted core: the     *)
(* sequencer drives the pattern generator, the compactor and the core's    *)
(* scan enable; generator bit c feeds chain c, whose last cell feeds       *)
(* compactor bit c, and generator bit 0 also replaces the primary input    *)
(* pi while mux_select is high.                                            *)
(*                                                                         *)
(* The core itself is external here.  In test mode it is its scan cells:   *)
(* with test_en_i they shift; in testexec_state they capture Response, a   *)
(* function of the cells and of the muxed input (the memory is frozen, see *)
(* LbistBench); in every other state the core runs and its cells hold      *)
(* anything.                                                               *)
(***************************************************************************)
EXTENDS BistController, Sequences

CONSTANTS W, Tap, Seed, Feedback,
          ChainLen,           \* cells of each chain, at most ShiftLast
          Response(_, _),     \* what the fault-free core captures
          NoError

Chain == 0 .. W - 1

ASSUME BlockShape == /\ W \in Nat \ {0}
                     /\ Tap \in 0 .. W - 2
                     /\ Seed \in Word(W) /\ Seed # Zero(W)
                     /\ Feedback \subseteq 0 .. W - 1 /\ 0 \in Feedback

ASSUME ChainsFit == \A c \in Chain : ChainLen[c] \in 1 .. ShiftLast

Cells == {x \in Chain \X (1 .. ShiftLast) : x[2] <= ChainLen[x[1]]}

ASSUME CoreAnswers ==
  \A word \in [Cells -> Bit], pi \in Bit : Response(word, pi) \in [Cells -> Bit]

\* One wrong cell in one capture.
WrongCapture == [cell : Cells, capture : 1 .. VectorLast - 1]

ASSUME NoErrorIsNone == NoError \notin WrongCapture

VARIABLES lfsr, misr,
          cells,             \* the core's scan cells, 1 next to the scan input
          start_signature,   \* history: misr when the running session began
          error              \* history: the wrong capture of this session

bistVars == <<present_state, count_shift, count_vector, lfsr, misr, cells,
              start_signature, error>>

Gen == INSTANCE Lfsr WITH ff_output <- lfsr
Sig == INSTANCE Misr WITH ff_out <- misr

-----------------------------------------------------------------------------
(* The scan chains (external).                                             *)

scan_chain_output == [c \in Chain |-> cells[<<c, ChainLen[c]>>]]

\* One shift: generator bit c enters chain c.
ScanShifted == [x \in Cells |-> IF x[2] = 1 THEN lfsr[x[1]]
                                ELSE cells[<<x[1], x[2] - 1>>]]

\* The mux of bist.vhd: 83-88.
muxed_pi(pi) == IF mux_select = 1 THEN lfsr[0] ELSE pi

Flip(word, x) == [word EXCEPT ![x] = 1 - @]

\* The errors a capture may suffer: at most one cell of one response of a
\* session comes out wrong.
Errors == IF present_state = "testexec_state" /\ error = NoError
          THEN {NoError} \cup [cell : Cells, capture : {count_vector}]
          ELSE {error}

\* What the cells hold after the edge; err # error at the wrong capture.
CoreClock(pi, err) ==
  IF test_en_i = 1 THEN cells' = ScanShifted
  ELSE IF present_state = "testexec_state"
  THEN LET right == Response(cells, muxed_pi(pi))
       IN  cells' = IF err = error THEN right ELSE Flip(right, err.cell)
  ELSE cells' \in [Cells -> Bit]

Between == {"reset_state", "idle_state"}

History(err) ==
  /\ error' = IF present_state' \in Between THEN NoError ELSE err
  /\ start_signature' = IF present_state' \in Between THEN Zero(W)
                        ELSE IF present_state' = "teststart_state" THEN misr'
                        ELSE start_signature

-----------------------------------------------------------------------------
(* One rising edge of clk.                                                 *)

BistClock(resetn, test_normal, pi) ==
  /\ Clock(resetn, test_normal)
  /\ Gen!Clock(resetn, lfsr_start, lfsr_load)
  /\ Sig!Clock(resetn, misr_so_enable, scan_chain_output)
  /\ \E err \in Errors : CoreClock(pi, err) /\ History(err)

BistInit ==
  /\ Init
  /\ Gen!Init
  /\ Sig!Init
  /\ cells \in [Cells -> Bit]
  /\ start_signature = Zero(W)
  /\ error = NoError

BistNext == \E resetn, test_normal, pi \in Bit :
               BistClock(resetn, test_normal, pi)

BistSpec == BistInit /\ [][BistNext]_bistVars

-----------------------------------------------------------------------------
(* The reference: what a session computes, without cycles or registers.    *)

ShiftsPerLoad == ShiftLast + 1

\* The generator's word after n shifts from the seed.
prn[n \in 0 .. ShiftsPerLoad * VectorLast] ==
  IF n = 0 THEN Seed ELSE Gen!Shifted(prn[n - 1])

\* The cells after the k-th load: cell i holds the bit that entered i shifts
\* before the load ended.
Pattern(k) == [x \in Cells |-> prn[k * ShiftsPerLoad - x[2]][x[1]]]

Captured(k, err) ==
  LET right == Response(Pattern(k), prn[k * ShiftsPerLoad][0])
  IN  IF err # NoError /\ err.capture = k THEN Flip(right, err.cell) ELSE right

\* What comes out of chain c in shift cycle j while response k is unloaded:
\* the response, last cell first, and then bits of the next pattern that have
\* already crossed the chain.
Unloaded(k, j, err) ==
  [c \in Chain |->
     IF j < ChainLen[c] THEN Captured(k, err)[<<c, ChainLen[c] - j>>]
     ELSE prn[k * ShiftsPerLoad + j - ChainLen[c]][c]]

\* The compactor that starts a session with signature start, after n cycles of
\* unloading.
Absorbed(start, err) ==
  LET absorbed[n \in 0 .. ShiftsPerLoad * (VectorLast - 1)] ==
        IF n = 0 THEN start
        ELSE Sig!ff_in(absorbed[n - 1],
                       Unloaded((n - 1) \div ShiftsPerLoad + 1,
                                (n - 1) % ShiftsPerLoad, err))
  IN  absorbed

\* The signature of a whole session that starts from signature start.
RefSignature(start, err) ==
  Absorbed(start, err)[ShiftsPerLoad * (VectorLast - 1)]

\* bist_controller.vhd:36.  The source's literal is the signature of the
\* fault-free core in the first session after a reset.
golden_signature == RefSignature(Zero(W), NoError)

verdict == go_nogo(misr = golden_signature)

-----------------------------------------------------------------------------
(* Properties.                                                             *)

\* The signature judged at the end depends on the signature the session began
\* with and on the captured responses, and on nothing else: not on what the
\* core held before, not on where the generator or an aborted session stopped,
\* and every cell of every chain, the short ones included, is absorbed once.
SignatureIsReference ==
  present_state = "evaluate_state" =>
    misr = RefSignature(start_signature, error)

\* After a session that began with a cleared compactor, the verdict is right:
\* go for a fault-free core, no-go for a core that got one bit of one response
\* wrong.
VerdictIsRight ==
  present_state = "evaluate_state" /\ start_signature = Zero(W) =>
    (verdict <=> error = NoError)

\* The generator never locks up at zero while patterns are taken from it,
\* although resetn clears it to zero.
PatternsFlow ==
  present_state \in Shifting \cup {"testexec_state"} => lfsr # Zero(W)

\* What tb_top.sv:183 ("LBIST result OK") and the report promise of every
\* session: a fault-free core passes.  Does not hold from the second session
\* on: nothing but resetn clears the compactor.
FaultFreePasses ==
  present_state = "evaluate_state" /\ error = NoError => verdict
=============================================================================
